--------------------------- MODULE ApiServer_proofs ---------------------------
(***************************************************************************)
(* ApiServer, for any names, values and processes and with or without      *)
(* failing etcd calls: its types, and that what its clients see of etcd is *)
(* the abstract object log.  The argument for the latter is that every     *)
(* step leaves etcd alone, puts one value or deletes one key, and that the *)
(* version of a key is 1 exactly when the put created it.  Then what the   *)
(* handlers promise of their writes, from what a request knows of the      *)
(* store between its etcd calls: the revision of the pair it read          *)
(* (RevisionsTell) and, with one worker, that the name it creates is free  *)
(* and the spec it patches is the stored one (NameStaysFree, SpecIsKept).  *)
(***************************************************************************)
EXTENDS ApiServer, SequenceTheorems, TLAPS

(* The pair a put of v under n stores.                                     *)
NewPair(n, v) ==
  [value |-> v, version |-> NextVersion(n), mod |-> revision + 1]

LEMMA NewPairType ==
  ASSUME EtcdTypeOK, NEW n \in Names, NEW v \in Values
  PROVE  /\ NewPair(n, v) \in KeyValue
         /\ NewPair(n, v).version = 1 <=> ~Exists(n)
  <1>1. Exists(n) => kv[n] \in KeyValue
    BY DEF EtcdTypeOK, Exists
  <1>2. Exists(n) => kv[n].version \in Positive
    BY <1>1 DEF KeyValue
  <1>3. NextVersion(n) \in Positive /\ (NextVersion(n) = 1 <=> ~Exists(n))
    BY <1>2 DEF NextVersion, Positive
  <1>4. revision + 1 \in Positive
    BY DEF EtcdTypeOK, Positive
  <1> QED
    BY <1>3, <1>4 DEF NewPair, KeyValue

LEMMA PutType ==
  ASSUME EtcdTypeOK, NEW n \in Names, NEW v \in Values, Put(n, v)
  PROVE  EtcdTypeOK'
  <1> DEFINE e == [type |-> "PUT", name |-> n, kv |-> NewPair(n, v)]
  <1>1. e \in RawEvent
    BY NewPairType DEF RawEvent
  <1>2. raw' = Append(raw, e) /\ kv' = [kv EXCEPT ![n] = NewPair(n, v)]
    BY DEF Put, NewPair
  <1>3. raw' \in Seq(RawEvent)
    BY <1>1, <1>2, AppendProperties DEF EtcdTypeOK
  <1>4. kv' \in [Names -> KeyValue \cup {Absent}]
    BY <1>2, NewPairType DEF EtcdTypeOK
  <1>5. revision' \in Nat
    BY DEF Put, EtcdTypeOK
  <1> QED
    BY <1>3, <1>4, <1>5 DEF EtcdTypeOK

LEMMA DeleteType ==
  ASSUME EtcdTypeOK, NEW n \in Names, Delete(n)
  PROVE  EtcdTypeOK'
  <1> DEFINE e == [type |-> "DEL", name |-> n, kv |-> kv[n]]
  <1>1. e \in RawEvent
    BY DEF RawEvent, Delete, Exists, EtcdTypeOK
  <1>2. raw' \in Seq(RawEvent)
    BY <1>1, AppendProperties DEF Delete, EtcdTypeOK
  <1> QED
    BY <1>2 DEF EtcdTypeOK, Delete

-----------------------------------------------------------------------------
(* What a step does to etcd.                                               *)
EtcdEffect == \/ UNCHANGED etcdVars
              \/ \E n \in Names, v \in Values : Put(n, v)
              \/ \E n \in Names : Delete(n)

(* A request being served has its fields; the answers are of their type.   *)
LEMMA Served ==
  ASSUME TypeOK, NEW p \in Procs, handler[p] # NoRequest
  PROVE  /\ handler[p] \in Request
         /\ Name(p) \in Names
         /\ handler[p].value \in Values
  <1>1. handler[p] \in Request
    BY DEF TypeOK
  <1> QED
    BY <1>1 DEF Request, Name

LEMMA AnswerType ==
  ASSUME TypeOK, NEW p \in Procs, NEW r \in Replies, Answer(p, r)
  PROVE  /\ handler' \in [Procs -> Request \cup {NoRequest}]
         /\ reply' \in [Procs -> Replies]
  BY DEF TypeOK, Answer

LEMMA AnswerWriteType ==
  ASSUME TypeOK, NEW p \in Procs, AnswerWrite(p)
  PROVE  /\ handler' \in [Procs -> Request \cup {NoRequest}]
         /\ reply' \in [Procs -> Replies]
  BY AnswerType DEF AnswerWrite, Replies

LEMMA GoOnType ==
  ASSUME TypeOK, NEW p \in Procs, handler[p] # NoRequest,
         NEW stage \in {"write", "reread", "put", "txn"}, GoOn(p, stage)
  PROVE  /\ handler' \in [Procs -> Request \cup {NoRequest}]
         /\ reply' \in [Procs -> Replies]
  <1>1. [handler[p] EXCEPT !.stage = stage] \in Request
    BY Served DEF Request
  <1> QED
    BY <1>1 DEF TypeOK, GoOn

HandlerTypeOK == /\ handler \in [Procs -> Request \cup {NoRequest}]
                 /\ reply \in [Procs -> Replies]

(* Every step keeps the handlers' types and has one of the effects.        *)
LEMMA StepEffect ==
  ASSUME TypeOK, Next
  PROVE  HandlerTypeOK' /\ EtcdEffect
  <1>1. PICK p \in Procs :
          \/ \E op \in OpsOf(p), n \in Names, v \in Values : Receive(p, op, n, v)
          \/ Step(p)
    BY DEF Next
  <1>2. CASE \E op \in OpsOf(p), n \in Names, v \in Values : Receive(p, op, n, v)
    <2>1. PICK op \in OpsOf(p), n \in Names, v \in Values : Receive(p, op, n, v)
      BY <1>2
    <2> DEFINE r == [op |-> op, stage |-> FirstStage(op), name |-> n, value |-> v,
                     seen |-> Absent]
    <2>2. op \in {"create", "get", "update", "patch", "delete", "swap"}
      BY DEF OpsOf
    <2>3. FirstStage(op) \in {"read", "write", "check"}
      BY DEF FirstStage
    <2>4. r \in Request
      BY <2>2, <2>3 DEF Request
    <2> QED
      BY <2>1, <2>4 DEF Receive, HandlerTypeOK, TypeOK, Replies, EtcdEffect
  <1>3. CASE CreateCheck(p)
    BY <1>3, AnswerType, GoOnType
    DEF CreateCheck, Serving, HandlerTypeOK, Replies, EtcdEffect
  <1>4. CASE CreateUnreachable(p)
    BY <1>4, AnswerType DEF CreateUnreachable, HandlerTypeOK, Replies, EtcdEffect
  <1>5. CASE CreateWrite(p)
    BY <1>5, AnswerWriteType, Served DEF CreateWrite, Serving, HandlerTypeOK, EtcdEffect
  <1>6. CASE Get(p)
    BY <1>6, AnswerType DEF Get, HandlerTypeOK, Replies, EtcdEffect
  <1>7. CASE UpdateCheck(p)
    BY <1>7, AnswerType, GoOnType
    DEF UpdateCheck, Serving, HandlerTypeOK, Replies, EtcdEffect
  <1>8. CASE PatchCheck(p)
    <2>1. handler[p] \in Request /\ Name(p) \in Names /\ UNCHANGED etcdVars
      BY <1>8, Served DEF PatchCheck, Serving
    <2>2. CASE Exists(Name(p))
      <3> DEFINE merged == [spec |-> kv[Name(p)].value.spec,
                            status |-> handler[p].value.status]
                 r == [handler[p] EXCEPT !.stage = "reread", !.value = merged]
      <3>1. kv[Name(p)] \in KeyValue
        BY <2>1, <2>2 DEF TypeOK, EtcdTypeOK, Exists
      <3>2. merged \in Values
        BY <2>1, <3>1 DEF KeyValue, Values, Request
      <3>3. r \in Request
        BY <2>1, <3>2 DEF Request
      <3>4. handler' = [handler EXCEPT ![p] = r] /\ reply' = reply
        BY <1>8, <2>2 DEF PatchCheck, TypeOK
      <3> QED
        BY <2>1, <3>3, <3>4 DEF HandlerTypeOK, TypeOK, EtcdEffect
    <2>3. CASE ~Exists(Name(p))
      BY <1>8, <2>1, <2>3, AnswerType DEF PatchCheck, HandlerTypeOK, Replies, EtcdEffect
    <2> QED
      BY <2>2, <2>3
  <1>9. CASE UpdateReread(p)
    BY <1>9, AnswerType, GoOnType
    DEF UpdateReread, Serving, HandlerTypeOK, Replies, EtcdEffect
  <1>10. CASE UpdatePut(p)
    BY <1>10, AnswerType, Served
    DEF UpdatePut, Serving, HandlerTypeOK, Replies, EtcdEffect
  <1>11. CASE UpdatePutSuppressed(p)
    BY <1>11, AnswerType DEF UpdatePutSuppressed, HandlerTypeOK, Replies, EtcdEffect
  <1>12. CASE DeleteObject(p)
    BY <1>12, AnswerType, AnswerWriteType, Served
    DEF DeleteObject, Serving, HandlerTypeOK, Replies, EtcdEffect
  <1>13. CASE SwapRead(p)
    <2>1. handler[p] \in Request /\ Name(p) \in Names /\ UNCHANGED etcdVars
      BY <1>13, Served DEF SwapRead, Serving
    <2>2. CASE Exists(Name(p))
      <3> DEFINE r == [handler[p] EXCEPT !.stage = "reread", !.seen = kv[Name(p)]]
      <3>1. kv[Name(p)] \in KeyValue
        BY <2>1, <2>2 DEF TypeOK, EtcdTypeOK, Exists
      <3>2. r \in Request
        BY <2>1, <3>1 DEF Request
      <3>3. handler' = [handler EXCEPT ![p] = r] /\ reply' = reply
        BY <1>13, <2>2 DEF SwapRead, TypeOK
      <3> QED
        BY <2>1, <3>2, <3>3 DEF HandlerTypeOK, TypeOK, EtcdEffect
    <2>3. CASE ~Exists(Name(p))
      BY <1>13, <2>1, <2>3, AnswerType DEF SwapRead, HandlerTypeOK, Replies, EtcdEffect
    <2> QED
      BY <2>2, <2>3
  <1>14. CASE SwapReread(p)
    BY <1>14, AnswerType, GoOnType
    DEF SwapReread, Serving, HandlerTypeOK, Replies, EtcdEffect
  <1>15. CASE SwapTxn(p)
    BY <1>15, AnswerType, AnswerWriteType, Served
    DEF SwapTxn, Serving, HandlerTypeOK, Replies, EtcdEffect
  <1>16. CASE CallRaises(p)
    BY <1>16, AnswerType DEF CallRaises, HandlerTypeOK, Replies, EtcdEffect
  <1> QED
    BY <1>1, <1>2, <1>3, <1>4, <1>5, <1>6, <1>7, <1>8, <1>9, <1>10, <1>11, <1>12,
       <1>13, <1>14, <1>15, <1>16 DEF Step

-----------------------------------------------------------------------------
(* Handlers, answers, keys and raw events keep their types.                *)
THEOREM TypeCorrect == Spec => []TypeOK
  <1>1. Init => TypeOK
    BY DEF Init, TypeOK, EtcdInit, EtcdTypeOK, Replies
  <1>2. TypeOK /\ [Next]_vars => TypeOK'
    <2> SUFFICES ASSUME TypeOK, [Next]_vars PROVE TypeOK'
      OBVIOUS
    <2>1. CASE Next
      <3>1. HandlerTypeOK' /\ EtcdEffect
        BY <2>1, StepEffect
      <3>2. EtcdTypeOK'
        <4>1. CASE UNCHANGED etcdVars
          BY <4>1 DEF etcdVars, TypeOK, EtcdTypeOK
        <4> QED
          BY <3>1, <4>1, PutType, DeleteType DEF EtcdEffect, TypeOK
      <3> QED
        BY <3>1, <3>2 DEF TypeOK, HandlerTypeOK
    <2>2. CASE UNCHANGED vars
      BY <2>2 DEF vars, TypeOK, EtcdTypeOK
    <2> QED
      BY <2>1, <2>2
  <1> QED
    BY <1>1, <1>2, PTL DEF Spec

-----------------------------------------------------------------------------
(* VisibleStore and VisibleLog, step by step.                              *)
LEMMA VisibleTypes ==
  ASSUME EtcdTypeOK
  PROVE  /\ VisibleStore \in [Names -> Values \cup {Absent}]
         /\ VisibleLog \in Seq(Log!Event)
  <1>1. \A n \in Names : Exists(n) => kv[n].value \in Values
    BY DEF EtcdTypeOK, Exists, KeyValue
  <1>2. VisibleStore \in [Names -> Values \cup {Absent}]
    BY <1>1 DEF VisibleStore
  <1>3. \A i \in 1 .. Len(raw) : raw[i] \in RawEvent
    BY DEF EtcdTypeOK
  <1>4. \A i \in 1 .. Len(raw) : WatchEvent(raw[i]) \in Log!Event
    BY <1>3 DEF WatchEvent, WatchEventType, RawEvent, KeyValue, Log!Event
  <1>5. VisibleLog \in [1 .. Len(raw) -> Log!Event]
    BY <1>4 DEF VisibleLog
  <1>6. Len(raw) \in Nat
    BY DEF EtcdTypeOK
  <1> QED
    BY <1>2, <1>5, <1>6

LEMMA VisibleAppend ==
  ASSUME EtcdTypeOK, NEW e \in RawEvent, raw' = Append(raw, e)
  PROVE  VisibleLog' = Append(VisibleLog, WatchEvent(e))
  <1>1. /\ Len(raw) \in Nat /\ Len(raw') = Len(raw) + 1
        /\ \A i \in 1 .. Len(raw) : raw'[i] = raw[i]
        /\ raw'[Len(raw) + 1] = e
    BY AppendProperties DEF EtcdTypeOK
  <1>2. VisibleLog' = [i \in 1 .. Len(raw) + 1 |-> WatchEvent(raw'[i])]
    BY <1>1 DEF VisibleLog, WatchEvent, WatchEventType
  <1>3. /\ VisibleLog \in Seq(Log!Event) /\ Len(VisibleLog) = Len(raw)
        /\ \A i \in 1 .. Len(raw) : VisibleLog[i] = WatchEvent(raw[i])
    BY <1>1, VisibleTypes DEF VisibleLog
  <1>4. WatchEvent(e) \in Log!Event
    BY DEF WatchEvent, WatchEventType, RawEvent, KeyValue, Log!Event
  <1>5. VisibleLog' \in Seq(Log!Event) /\ Len(VisibleLog') = Len(raw) + 1
    <2>1. \A i \in 1 .. Len(raw) + 1 : WatchEvent(raw'[i]) \in Log!Event
      BY <1>1, <1>3, <1>4, ElementOfSeq
    <2> QED
      BY <1>1, <1>2, <2>1
  <1>6. /\ Append(VisibleLog, WatchEvent(e)) \in Seq(Log!Event)
        /\ Len(Append(VisibleLog, WatchEvent(e))) = Len(raw) + 1
        /\ \A i \in 1 .. Len(raw) + 1 :
             Append(VisibleLog, WatchEvent(e))[i] = VisibleLog'[i]
    BY <1>1, <1>2, <1>3, <1>4, AppendProperties
  <1> QED
    BY <1>5, <1>6, SeqEqual

(* A put is an Add or a Modify of the abstract log: the version of the new *)
(* pair tells the watch which.                                             *)
LEMMA PutIsVisible ==
  ASSUME EtcdTypeOK, NEW n \in Names, NEW v \in Values, Put(n, v)
  PROVE  Log!Add(n, v) \/ Log!Modify(n, v)
  <1> DEFINE e == [type |-> "PUT", name |-> n, kv |-> NewPair(n, v)]
  <1>1. e \in RawEvent
    BY NewPairType DEF RawEvent
  <1>2. raw' = Append(raw, e) /\ kv' = [kv EXCEPT ![n] = NewPair(n, v)]
    BY DEF Put, NewPair
  <1>3. VisibleLog' = Append(VisibleLog, WatchEvent(e))
    BY <1>1, <1>2, VisibleAppend
  <1>4. NewPair(n, v) # Absent /\ NewPair(n, v).value = v
    BY NewPairType, EtcdAbsentAssumption DEF NewPair
  <1>5. VisibleStore' = [VisibleStore EXCEPT ![n] = v]
    BY <1>2, <1>4 DEF VisibleStore, Exists, EtcdTypeOK
  <1>6. WatchEvent(e) = [type |-> IF Exists(n) THEN "UPDATE" ELSE "ADD",
                         name |-> n, value |-> v]
    BY <1>4, NewPairType DEF WatchEvent, WatchEventType
  <1>7. VisibleStore[n] = Absent <=> ~Exists(n)
    BY EtcdAbsentAssumption DEF VisibleStore, EtcdTypeOK, Exists, KeyValue
  <1> QED
    BY <1>3, <1>5, <1>6, <1>7 DEF Log!Add, Log!Modify, Log!Announce

LEMMA DeleteIsVisible ==
  ASSUME EtcdTypeOK, NEW n \in Names, Delete(n)
  PROVE  Log!Remove(n)
  <1> DEFINE e == [type |-> "DEL", name |-> n, kv |-> kv[n]]
  <1>1. kv[n] \in KeyValue /\ Exists(n)
    BY DEF Delete, Exists, EtcdTypeOK
  <1>2. e \in RawEvent
    BY <1>1 DEF RawEvent
  <1>3. VisibleLog' = Append(VisibleLog, WatchEvent(e))
    BY <1>2, VisibleAppend DEF Delete
  <1>4. VisibleStore' = [VisibleStore EXCEPT ![n] = Absent]
    BY DEF Delete, VisibleStore, Exists, EtcdTypeOK
  <1>5. VisibleStore[n] = kv[n].value /\ kv[n].value # Absent
    BY <1>1, EtcdAbsentAssumption DEF VisibleStore, KeyValue
  <1>6. WatchEvent(e) = [type |-> "DELETE", name |-> n, value |-> VisibleStore[n]]
    BY <1>5 DEF WatchEvent, WatchEventType
  <1> QED
    BY <1>3, <1>4, <1>5, <1>6 DEF Log!Remove, Log!Announce

-----------------------------------------------------------------------------
(* The API server and etcd implement the abstract object log: every change *)
(* of an object is announced by one event, of the type that fits it.       *)
THEOREM ApiServerImplementsObjectLog == Spec => ImplementsObjectLog
  <1>1. Init => Log!Init
    BY DEF Init, EtcdInit, VisibleStore, VisibleLog, Exists, Log!Init
  <1>2. TypeOK /\ [Next]_vars => [Log!Next]_(Log!vars)
    <2> SUFFICES ASSUME TypeOK, [Next]_vars PROVE [Log!Next]_(Log!vars)
      OBVIOUS
    <2>1. UNCHANGED etcdVars => UNCHANGED Log!vars
      BY DEF etcdVars, Log!vars, VisibleStore, VisibleLog, Exists, WatchEvent,
             WatchEventType
    <2>2. CASE Next
      <3>1. EtcdEffect
        BY <2>2, StepEffect
      <3> QED
        BY <2>1, <3>1, PutIsVisible, DeleteIsVisible DEF EtcdEffect, TypeOK, Log!Next
    <2>3. CASE UNCHANGED vars
      BY <2>1, <2>3 DEF vars, etcdVars
    <2> QED
      BY <2>2, <2>3
  <1> QED
    BY <1>1, <1>2, TypeCorrect, PTL DEF Spec, ImplementsObjectLog, Log!Spec

-----------------------------------------------------------------------------
(* What the steps of ObjectLog make of a store and a log, here those that  *)
(* its instance is about: the type of a new event is chosen by the store,  *)
(* and the log determines what the store holds.                            *)

\* What an event tells of the object it is about.
Told(e) == IF e.type = "DELETE" THEN Absent ELSE e.value

\* Every step announces, for one name, what the name holds afterwards, and
\* calls it an ADD exactly if the name held nothing.
Announces(e) == /\ e \in Log!Event
                /\ VisibleLog' = Append(VisibleLog, e)
                /\ VisibleStore' = [VisibleStore EXCEPT ![e.name] = Told(e)]
                /\ e.type = "ADD" <=> VisibleStore[e.name] = Absent

LEMMA NextAnnounces ==
  ASSUME Log!TypeOK, Log!Next
  PROVE  \E e \in Log!Event : Announces(e)
  <1>1. PICK n \in Names : \/ \E v \in Values : Log!Add(n, v) \/ Log!Modify(n, v)
                           \/ Log!Remove(n)
    BY DEF Log!Next
  <1>2. CASE \E v \in Values : Log!Add(n, v)
    <2>1. PICK v \in Values : Log!Add(n, v)
      BY <1>2
    <2> DEFINE e == [type |-> "ADD", name |-> n, value |-> v]
    <2>2. e \in Log!Event /\ Told(e) = v
      BY DEF Log!Event, Told
    <2>3. Announces(e)
      BY <2>1, <2>2 DEF Announces, Log!Add, Log!Announce
    <2> QED
      BY <2>2, <2>3
  <1>3. CASE \E v \in Values : Log!Modify(n, v)
    <2>1. PICK v \in Values : Log!Modify(n, v)
      BY <1>3
    <2> DEFINE e == [type |-> "UPDATE", name |-> n, value |-> v]
    <2>2. e \in Log!Event /\ Told(e) = v
      BY DEF Log!Event, Told
    <2>3. Announces(e)
      BY <2>1, <2>2 DEF Announces, Log!Modify, Log!Announce
    <2> QED
      BY <2>2, <2>3
  <1>4. CASE Log!Remove(n)
    <2> DEFINE e == [type |-> "DELETE", name |-> n, value |-> VisibleStore[n]]
    <2>1. VisibleStore[n] \in Values
      BY <1>4 DEF Log!Remove, Log!TypeOK
    <2>2. e \in Log!Event /\ Told(e) = Absent
      BY <2>1 DEF Log!Event, Told
    <2>3. Announces(e)
      BY <1>4, <2>2 DEF Announces, Log!Remove, Log!Announce
    <2> QED
      BY <2>2, <2>3
  <1> QED
    BY <1>1, <1>2, <1>3, <1>4

LEMMA LogTypeStep ==
  ASSUME Log!TypeOK, NEW e \in Log!Event, Announces(e)
  PROVE  Log!TypeOK'
  <1>1. Told(e) \in Values \cup {Absent}
    BY DEF Told, Log!Event
  <1>2. VisibleStore' \in [Names -> Values \cup {Absent}]
    BY <1>1 DEF Announces, Log!TypeOK
  <1>3. VisibleLog' \in Seq(Log!Event)
    BY AppendProperties DEF Announces, Log!TypeOK
  <1> QED
    BY <1>2, <1>3 DEF Log!TypeOK

\* The new event is the latest about its name, and changes which is the
\* latest about no other name.
LEMMA DescribesStep ==
  ASSUME Log!TypeOK, WatchDescribesStore, NEW e \in Log!Event, Announces(e)
  PROVE  WatchDescribesStore'
  <1>0. PICK L \in Nat : L = Len(VisibleLog)
    BY DEF Log!TypeOK
  <1>1. /\ VisibleLog' \in Seq(Log!Event)
        /\ Len(VisibleLog') = L + 1
        /\ \A i \in 1 .. L : VisibleLog'[i] = VisibleLog[i]
        /\ VisibleLog'[L + 1] = e
    BY <1>0, AppendProperties DEF Announces, Log!TypeOK
  <1>2. e.name \in Names /\ (e.type # "DELETE" => Told(e) # Absent)
    BY EtcdAbsentAssumption DEF Log!Event, Told
  <1> SUFFICES ASSUME NEW n \in Names
               PROVE  IF VisibleStore'[n] = Absent
                      THEN \A i \in 1 .. L + 1 :
                             VisibleLog'[i].name = n /\ Log!LatestAmong(i, L + 1)'
                               => VisibleLog'[i].type = "DELETE"
                      ELSE \E i \in 1 .. L + 1 :
                             /\ VisibleLog'[i].name = n
                             /\ Log!LatestAmong(i, L + 1)'
                             /\ VisibleLog'[i].type # "DELETE"
                             /\ VisibleLog'[i].value = VisibleStore'[n]
    BY <1>1 DEF WatchDescribesStore, Log!LogDescribesStore, Log!LatestAmong
  <1>3. CASE n = e.name
    <2>1. VisibleStore'[n] = Told(e)
      BY <1>3 DEF Announces, Log!TypeOK
    <2>2. Log!LatestAmong(L + 1, L + 1)'
      BY <1>1 DEF Log!LatestAmong
    <2>3. \A i \in 1 .. L + 1 : VisibleLog'[i].name = n /\ Log!LatestAmong(i, L + 1)' => i = L + 1
      BY <1>1, <1>3 DEF Log!LatestAmong
    <2>4. CASE e.type = "DELETE"
      BY <1>1, <2>1, <2>3, <2>4 DEF Told
    <2>5. CASE e.type # "DELETE"
      BY <1>1, <1>2, <1>3, <2>1, <2>2, <2>5 DEF Told
    <2> QED
      BY <2>4, <2>5
  <1>4. CASE n # e.name
    <2>1. VisibleStore'[n] = VisibleStore[n]
      BY <1>4 DEF Announces, Log!TypeOK
    <2>2. \A i \in 1 .. L : VisibleLog[i].name = n =>
            (Log!LatestAmong(i, L) <=> Log!LatestAmong(i, L + 1)')
      BY <1>1, <1>4 DEF Log!LatestAmong
    <2>3. \A i \in 1 .. L + 1 : VisibleLog'[i].name = n =>
            i \in 1 .. L /\ VisibleLog'[i] = VisibleLog[i]
      BY <1>1, <1>4
    <2>4. CASE VisibleStore[n] = Absent
      BY <2>1, <2>2, <2>3, <2>4, <1>0 DEF WatchDescribesStore, Log!LogDescribesStore
    <2>5. CASE VisibleStore[n] # Absent
      <3>1. PICK i \in 1 .. L : /\ VisibleLog[i].name = n
                                /\ Log!LatestAmong(i, L)
                                /\ VisibleLog[i].type # "DELETE"
                                /\ VisibleLog[i].value = VisibleStore[n]
        BY <1>0, <2>5 DEF WatchDescribesStore, Log!LogDescribesStore
      <3>2. i \in 1 .. L + 1 /\ VisibleLog'[i] = VisibleLog[i] /\ Log!LatestAmong(i, L + 1)'
        BY <1>1, <2>2, <3>1
      <3> QED
        BY <2>1, <2>5, <3>1, <3>2
    <2> QED
      BY <2>4, <2>5
  <1> QED
    BY <1>3, <1>4

\* The events before a new one say that its name is known exactly if the
\* store holds an object under it.
LEMMA KnownIsStored ==
  ASSUME Log!TypeOK, WatchDescribesStore, NEW n \in Names
  PROVE  (\E i \in 1 .. Len(VisibleLog) : /\ VisibleLog[i].name = n
                                          /\ Log!LatestAmong(i, Len(VisibleLog))
                                          /\ VisibleLog[i].type # "DELETE")
           <=> VisibleStore[n] # Absent
  BY DEF WatchDescribesStore, Log!LogDescribesStore

LEMMA FitStep ==
  ASSUME Log!TypeOK, WatchDescribesStore, WatchEventsFit, NEW e \in Log!Event, Announces(e)
  PROVE  WatchEventsFit'
  <1>0. PICK L \in Nat : L = Len(VisibleLog)
    BY DEF Log!TypeOK
  <1> DEFINE Known(k) == \E i \in 1 .. (k - 1) : /\ VisibleLog[i].name = VisibleLog[k].name
                                                 /\ Log!LatestAmong(i, k - 1)
                                                 /\ VisibleLog[i].type # "DELETE"
  <1>1. /\ Len(VisibleLog') = L + 1
        /\ \A i \in 1 .. L : VisibleLog'[i] = VisibleLog[i]
        /\ VisibleLog'[L + 1] = e
    BY <1>0, AppendProperties DEF Announces, Log!TypeOK
  <1> SUFFICES ASSUME NEW k \in 1 .. L + 1
               PROVE  VisibleLog'[k].type = "ADD" <=> ~Known(k)'
    BY <1>1 DEF WatchEventsFit, Log!EventsFit
  <1>2. \A m \in 0 .. L, i \in 1 .. L : Log!LatestAmong(i, m)' <=> Log!LatestAmong(i, m)
    BY <1>1 DEF Log!LatestAmong
  <1>3. CASE k \in 1 .. L
    <2>1. Known(k)' <=> Known(k)
      BY <1>1, <1>2, <1>3
    <2> QED
      BY <1>0, <1>1, <1>3, <2>1 DEF WatchEventsFit, Log!EventsFit
  <1>4. CASE k = L + 1
    <2>1. Known(k)' <=> (\E i \in 1 .. L : /\ VisibleLog[i].name = e.name
                                           /\ Log!LatestAmong(i, L)
                                           /\ VisibleLog[i].type # "DELETE")
      BY <1>1, <1>2, <1>4
    <2>2. Known(k)' <=> VisibleStore[e.name] # Absent
      BY <1>0, <2>1, KnownIsStored DEF Log!Event
    <2> QED
      BY <1>1, <1>4, <2>2 DEF Announces
  <1> QED
    BY <1>3, <1>4

Consistent == Log!TypeOK /\ WatchDescribesStore /\ WatchEventsFit

\* Whatever implements ObjectLog has a log that accounts for its store, with
\* events that fit.
LEMMA LogIsConsistent == Log!Spec => []Consistent
  <1>1. Log!Init => Consistent
    BY DEF Log!Init, Consistent, Log!TypeOK, WatchDescribesStore, WatchEventsFit,
           Log!LogDescribesStore, Log!EventsFit
  <1>2. Consistent /\ [Log!Next]_(Log!vars) => Consistent'
    <2> SUFFICES ASSUME Consistent, [Log!Next]_(Log!vars) PROVE Consistent'
      OBVIOUS
    <2>1. CASE Log!Next
      <3>1. PICK e \in Log!Event : Announces(e)
        BY <2>1, NextAnnounces DEF Consistent
      <3> QED
        BY <3>1, LogTypeStep, DescribesStep, FitStep DEF Consistent
    <2>2. CASE UNCHANGED Log!vars
      <3>1. VisibleStore' = VisibleStore /\ VisibleLog' = VisibleLog
        BY <2>2 DEF Log!vars
      <3> QED
        BY <3>1 DEF Consistent, Log!TypeOK, WatchDescribesStore, WatchEventsFit,
           Log!LogDescribesStore, Log!EventsFit, Log!LatestAmong
    <2> QED
      BY <2>1, <2>2
  <1> QED
    BY <1>1, <1>2, PTL DEF Log!Spec

(* The watch is a complete account of the store, and a watcher that        *)
(* follows it from the start knows the name of every UPDATE and DELETE and *)
(* does not know that of any ADD.                                          *)
THEOREM WatchIsConsistent == Spec => [](WatchDescribesStore /\ WatchEventsFit)
  <1>1. Consistent => WatchDescribesStore /\ WatchEventsFit
    BY DEF Consistent
  <1> QED
    BY <1>1, LogIsConsistent, ApiServerImplementsObjectLog, PTL DEF ImplementsObjectLog

(* What is stored under a name is what the last event about it says: the   *)
(* watch loses no change of the store, of any worker.                      *)
THEOREM WatchAccountsForStore == Spec => []WatchDescribesStore
  BY WatchIsConsistent, PTL

-----------------------------------------------------------------------------
(* What a step of a process does, seen from outside: it writes and answers *)
(* in one, or it leaves etcd alone.                                        *)
Asked(p, op, stage) ==
  handler[p] # NoRequest /\ handler[p].op = op /\ handler[p].stage = stage

Writing(p) ==
  /\ handler'[p] = NoRequest
  /\ \/ Asked(p, "create", "write") /\ Put(Name(p), handler[p].value)
     \/ Asked(p, "update", "put") /\ Put(Name(p), handler[p].value)
     \/ Asked(p, "patch", "put") /\ Put(Name(p), handler[p].value)
     \/ Asked(p, "delete", "write") /\ Delete(Name(p))
     \/ /\ Asked(p, "swap", "txn") /\ Put(Name(p), handler[p].value)
        /\ TxnSucceeds(Name(p), handler[p].seen)

(* What p comes to know of the store when its request goes on.             *)
Learning(p) ==
  /\ UNCHANGED etcdVars /\ handler[p] # NoRequest /\ handler'[p] # NoRequest
  /\ handler'[p].op = handler[p].op /\ handler'[p].name = handler[p].name
  /\ handler'[p].op = "swap" =>
       \/ Asked(p, "swap", "read") /\ Exists(Name(p)) /\ handler'[p].seen = kv[Name(p)]
       \/ Asked(p, "swap", "reread") /\ handler'[p].seen = handler[p].seen

Receiving(p) ==
  /\ UNCHANGED etcdVars /\ handler[p] = NoRequest /\ handler'[p] # NoRequest
  /\ handler'[p].op \in OpsOf(p) /\ handler'[p].stage = FirstStage(handler'[p].op)

Moving(p) == \/ Writing(p)
             \/ UNCHANGED etcdVars /\ handler'[p] = NoRequest
             \/ Learning(p)
             \/ Receiving(p)

LEMMA StepMoves ==
  ASSUME TypeOK, NEW p \in Procs, Step(p)
  PROVE  Moving(p) /\ \A q \in Procs : q # p => handler'[q] = handler[q]
  <1>1. handler \in [Procs -> Request \cup {NoRequest}] /\ "idle" \notin {"check", "write", "reread", "put", "read", "txn"}
    BY DEF TypeOK
  <1>2. ASSUME NEW r, Answer(p, r)
        PROVE  handler'[p] = NoRequest /\ \A q \in Procs : q # p => handler'[q] = handler[q]
    BY <1>1, <1>2 DEF Answer
  <1>3. AnswerWrite(p) => handler'[p] = NoRequest /\ \A q \in Procs : q # p => handler'[q] = handler[q]
    BY <1>2 DEF AnswerWrite
  <1>4. ASSUME NEW stage \in {"write", "reread", "put", "txn"}, GoOn(p, stage), handler[p] # NoRequest
        PROVE  /\ handler'[p].op = handler[p].op /\ handler'[p].stage = stage
               /\ handler'[p].name = handler[p].name /\ handler'[p].value = handler[p].value
               /\ handler'[p].seen = handler[p].seen /\ handler'[p] # NoRequest
               /\ \A q \in Procs : q # p => handler'[q] = handler[q]
    <2>1. handler[p] \in Request
      BY <1>4, Served
    <2>2. handler'[p] = [handler[p] EXCEPT !.stage = stage]
      BY <1>1, <1>4 DEF GoOn
    <2>3. handler'[p] \in Request
      BY <2>1, <2>2 DEF Request
    <2>4. handler'[p] # NoRequest
      BY <2>3 DEF Request, NoRequest
    <2> QED
      BY <1>1, <1>4, <2>1, <2>2, <2>4 DEF GoOn, Request
  <1>5. CASE CreateCheck(p) \/ UpdateCheck(p)
    BY <1>2, <1>4, <1>5 DEF CreateCheck, UpdateCheck, Serving, Moving, Learning, Name
  <1>6. CASE CreateUnreachable(p) \/ Get(p) \/ UpdatePutSuppressed(p) \/ CallRaises(p)
    BY <1>2, <1>6 DEF CreateUnreachable, Get, UpdatePutSuppressed, CallRaises, Moving
  <1>7. CASE CreateWrite(p)
    BY <1>3, <1>7 DEF CreateWrite, Serving, Moving, Writing, Asked
  <1>8. CASE PatchCheck(p)
    <2>1. handler[p] \in Request /\ Name(p) \in Names /\ UNCHANGED etcdVars /\ Asked(p, "patch", "check")
      BY <1>8, Served DEF PatchCheck, Serving, Asked
    <2>2. CASE Exists(Name(p))
      <3> DEFINE merged == [spec |-> kv[Name(p)].value.spec,
                            status |-> handler[p].value.status]
                 r == [handler[p] EXCEPT !.stage = "reread", !.value = merged]
      <3>1. handler'[p] = r /\ \A q \in Procs : q # p => handler'[q] = handler[q]
        BY <1>1, <1>8, <2>2 DEF PatchCheck
      <3>2. r.op = handler[p].op /\ r.name = handler[p].name /\ r.value = merged /\ r # NoRequest
        BY <2>1 DEF Request, NoRequest
      <3>3. merged.spec = kv[Name(p)].value.spec
        OBVIOUS
      <3> HIDE DEF r, merged
      <3> QED
        BY <2>1, <3>1, <3>2, <3>3 DEF Moving, Learning, Asked
    <2>3. CASE ~Exists(Name(p))
      BY <1>2, <1>8, <2>3 DEF PatchCheck, Moving
    <2> QED
      BY <2>2, <2>3
  <1>9. CASE UpdateReread(p)
    BY <1>2, <1>4, <1>9 DEF UpdateReread, Serving, Moving, Learning, Name, Asked
  <1>10. CASE UpdatePut(p)
    BY <1>2, <1>10 DEF UpdatePut, Serving, Moving, Writing, Asked
  <1>11. CASE DeleteObject(p)
    BY <1>2, <1>3, <1>11 DEF DeleteObject, Serving, Moving, Writing, Asked
  <1>12. CASE SwapRead(p)
    <2>1. handler[p] \in Request /\ UNCHANGED etcdVars /\ Asked(p, "swap", "read")
      BY <1>12, Served DEF SwapRead, Serving, Asked
    <2>2. CASE Exists(Name(p))
      <3> DEFINE r == [handler[p] EXCEPT !.stage = "reread", !.seen = kv[Name(p)]]
      <3>1. handler'[p] = r /\ \A q \in Procs : q # p => handler'[q] = handler[q]
        BY <1>1, <1>12, <2>2 DEF SwapRead
      <3>2. r.op = handler[p].op /\ r.name = handler[p].name /\ r.seen = kv[Name(p)] /\ r # NoRequest
        BY <2>1 DEF Request, NoRequest
      <3> HIDE DEF r
      <3> QED
        BY <2>1, <2>2, <3>1, <3>2 DEF Moving, Learning, Asked
    <2>3. CASE ~Exists(Name(p))
      BY <1>2, <1>12, <2>3 DEF SwapRead, Moving
    <2> QED
      BY <2>2, <2>3
  <1>13. CASE SwapReread(p)
    BY <1>2, <1>4, <1>13 DEF SwapReread, Serving, Moving, Learning, Name, Asked
  <1>14. CASE SwapTxn(p)
    BY <1>2, <1>3, <1>14 DEF SwapTxn, Serving, Moving, Writing, Asked
  <1> QED
    BY <1>5, <1>6, <1>7, <1>8, <1>9, <1>10, <1>11, <1>12, <1>13, <1>14 DEF Step

LEMMA NextMoves ==
  ASSUME TypeOK, Next
  PROVE  \E p \in Procs : Moving(p) /\ \A q \in Procs : q # p => handler'[q] = handler[q]
  <1>1. PICK p \in Procs :
          \/ \E op \in OpsOf(p), n \in Names, v \in Values : Receive(p, op, n, v)
          \/ Step(p)
    BY DEF Next
  <1>2. ASSUME NEW op \in OpsOf(p), NEW n \in Names, NEW v \in Values, Receive(p, op, n, v)
        PROVE  Moving(p) /\ \A q \in Procs : q # p => handler'[q] = handler[q]
    <2> DEFINE r == [op |-> op, stage |-> FirstStage(op), name |-> n, value |-> v,
                     seen |-> Absent]
    <2>1. r.op = op /\ r.stage = FirstStage(op) /\ r # NoRequest
      BY DEF NoRequest
    <2>2. handler' = [handler EXCEPT ![p] = r] /\ handler \in [Procs -> Request \cup {NoRequest}]
      BY <1>2 DEF Receive, TypeOK
    <2> HIDE DEF r
    <2>3. handler'[p] = r /\ \A q \in Procs : q # p => handler'[q] = handler[q]
      BY <2>2
    <2> QED
      BY <1>2, <2>1, <2>3 DEF Moving, Receiving, Receive
  <1> QED
    BY <1>1, <1>2, StepMoves

-----------------------------------------------------------------------------
(* A revision belongs to one pair: nothing in the store is newer than the  *)
(* store's revision, and a key whose revision is that of the pair a        *)
(* conditional update has read still holds that pair.                      *)
RevisionsTell ==
  /\ \A n \in Names : Exists(n) => kv[n].mod <= revision
  /\ \A p \in Procs : Asked(p, "swap", "reread") \/ Asked(p, "swap", "txn") =>
       /\ handler[p].seen # Absent /\ handler[p].seen.mod <= revision
       /\ Exists(Name(p)) /\ kv[Name(p)].mod = handler[p].seen.mod
            => kv[Name(p)] = handler[p].seen

\* What a step writes, key by key.
LEMMA Written ==
  ASSUME TypeOK, NEW p \in Procs, Writing(p)
  PROVE  /\ handler[p] \in Request /\ Name(p) \in Names
         /\ revision \in Nat /\ revision' = revision + 1
         /\ \A n \in Names : n # Name(p) => kv'[n] = kv[n]
         /\ handler[p].op = "delete" => kv'[Name(p)] = Absent
         /\ handler[p].op # "delete" => kv'[Name(p)] = NewPair(Name(p), handler[p].value)
  <1>1. handler[p] \in Request /\ Name(p) \in Names /\ revision \in Nat
    BY Served DEF Writing, Asked, TypeOK, EtcdTypeOK
  <1>2. CASE Delete(Name(p)) /\ handler[p].op = "delete"
    BY <1>1, <1>2 DEF Delete, TypeOK, EtcdTypeOK
  <1>3. CASE Put(Name(p), handler[p].value) /\ handler[p].op # "delete"
    BY <1>1, <1>3 DEF Put, NewPair, TypeOK, EtcdTypeOK
  <1> QED
    BY <1>2, <1>3 DEF Writing, Asked

LEMMA PairFacts ==
  ASSUME TypeOK
  PROVE  /\ \A n \in Names : Exists(n) => kv[n] \in KeyValue /\ kv[n].mod \in Nat \ {0}
         /\ \A p \in Procs : handler[p] # NoRequest /\ handler[p].seen # Absent =>
              handler[p].seen \in KeyValue /\ handler[p].seen.mod \in Nat \ {0}
         /\ revision \in Nat
  <1>1. \A n \in Names : Exists(n) => kv[n] \in KeyValue
    BY DEF TypeOK, EtcdTypeOK, Exists
  <1>2. \A p \in Procs : handler[p] # NoRequest /\ handler[p].seen # Absent =>
          handler[p].seen \in KeyValue
    BY Served DEF Request
  <1>3. \A k \in KeyValue : k.mod \in Nat \ {0}
    BY DEF KeyValue, Positive
  <1> QED
    BY <1>1, <1>2, <1>3 DEF TypeOK, EtcdTypeOK

\* The compare of the transaction succeeds only on a key that is there.
LEMMA SwapsOnlyWhatIsThere ==
  ASSUME TypeOK, RevisionsTell, NEW p \in Procs, Writing(p), handler[p].op = "swap"
  PROVE  Exists(Name(p)) /\ kv[Name(p)] = handler[p].seen
  <1>1. Asked(p, "swap", "txn") /\ TxnSucceeds(Name(p), handler[p].seen)
    BY DEF Writing, Asked
  <1>2. handler[p].seen # Absent /\ handler[p].seen.mod # 0
    BY <1>1, PairFacts DEF RevisionsTell, Asked
  <1> QED
    BY <1>1, <1>2 DEF RevisionsTell, TxnSucceeds

LEMMA RevisionsTellStep ==
  ASSUME TypeOK, TypeOK', RevisionsTell, [Next]_vars
  PROVE  RevisionsTell'
  <1>1. CASE UNCHANGED vars
    BY <1>1 DEF vars, RevisionsTell, Asked, Exists, Name
  <1>2. ASSUME NEW p \in Procs, Moving(p), \A q \in Procs : q # p => handler'[q] = handler[q]
        PROVE  RevisionsTell'
    <2>1. CASE Writing(p)
      <3> DEFINE m == Name(p)
      <3>1. /\ m \in Names /\ revision \in Nat /\ revision' = revision + 1
            /\ \A n \in Names : n # m => kv'[n] = kv[n]
            /\ kv'[m] = Absent \/ kv'[m].mod = revision + 1
        <4>1. NewPair(m, handler[p].value).mod = revision + 1
          BY DEF NewPair
        <4> QED
          BY <2>1, <4>1, Written
      <3>2. \A n \in Names : kv'[n] # Absent => kv'[n].mod <= revision'
        <4> SUFFICES ASSUME NEW n \in Names, kv'[n] # Absent PROVE kv'[n].mod <= revision'
          OBVIOUS
        <4>1. CASE n = m
          BY <3>1, <4>1
        <4>2. CASE n # m
          BY <3>1, <4>2, PairFacts DEF RevisionsTell, Exists
        <4> QED
          BY <4>1, <4>2
      <3>3. ASSUME NEW q \in Procs,
                   Asked(q, "swap", "reread")' \/ Asked(q, "swap", "txn")'
            PROVE  /\ handler'[q].seen # Absent /\ handler'[q].seen.mod <= revision'
                   /\ kv'[handler'[q].name] # Absent
                        /\ kv'[handler'[q].name].mod = handler'[q].seen.mod
                        => kv'[handler'[q].name] = handler'[q].seen
        <4>1. handler'[q] = handler[q]
          BY <1>2, <2>1, <3>3 DEF Writing, Asked
        <4>2. Asked(q, "swap", "reread") \/ Asked(q, "swap", "txn")
          BY <3>3, <4>1 DEF Asked
        <4>3. /\ handler[q].seen # Absent /\ handler[q].seen.mod <= revision
              /\ handler[q].seen.mod \in Nat /\ Name(q) \in Names
              /\ Exists(Name(q)) /\ kv[Name(q)].mod = handler[q].seen.mod
                   => kv[Name(q)] = handler[q].seen
          BY <4>2, PairFacts, Served DEF RevisionsTell, Asked
        <4>4. CASE Name(q) = m
          BY <3>1, <4>1, <4>3, <4>4 DEF Name
        <4>5. CASE Name(q) # m
          BY <3>1, <4>1, <4>3, <4>5 DEF Name, Exists
        <4> QED
          BY <4>4, <4>5
      <3> QED
        BY <3>2, <3>3 DEF RevisionsTell, Exists, Name
    <2>2. CASE ~Writing(p)
      <3>1. UNCHANGED <<kv, revision>>
        BY <1>2, <2>2 DEF Moving, Learning, Receiving, etcdVars
      <3>2. ASSUME NEW q \in Procs,
                   Asked(q, "swap", "reread")' \/ Asked(q, "swap", "txn")'
            PROVE  /\ handler'[q].seen # Absent /\ handler'[q].seen.mod <= revision'
                   /\ kv'[handler'[q].name] # Absent
                        /\ kv'[handler'[q].name].mod = handler'[q].seen.mod
                        => kv'[handler'[q].name] = handler'[q].seen
        <4>1. CASE handler'[q] = handler[q]
          BY <3>1, <3>2, <4>1 DEF RevisionsTell, Asked, Exists, Name
        <4>2. CASE q = p /\ Learning(p)
          <5>1. Name(p) \in Names /\ handler'[p].name = Name(p)
            BY <4>2, Served DEF Learning, Name
          <5>2. CASE Asked(p, "swap", "read") /\ Exists(Name(p)) /\ handler'[p].seen = kv[Name(p)]
            BY <3>1, <4>2, <5>1, <5>2 DEF RevisionsTell, Exists
          <5>3. CASE Asked(p, "swap", "reread") /\ handler'[p].seen = handler[p].seen
            BY <3>1, <4>2, <5>1, <5>3 DEF RevisionsTell, Exists
          <5> QED
            BY <3>2, <4>2, <5>2, <5>3 DEF Learning, Asked
        <4>3. ~(q = p /\ Receiving(p))
          BY <3>2 DEF Receiving, Asked, FirstStage
        <4> QED
          BY <1>2, <2>2, <3>2, <4>1, <4>2, <4>3 DEF Moving, Asked
      <3> QED
        BY <3>1, <3>2 DEF RevisionsTell, Exists, Name
    <2> QED
      BY <2>1, <2>2
  <1> QED
    BY <1>1, <1>2, NextMoves

\* The process whose request it is writes, and nobody else.
LEMMA WhoWrites ==
  ASSUME TypeOK, Next, NEW p \in Procs, NEW ops, WritesFor(p, ops)
  PROVE  Writing(p) /\ handler[p].op \in ops
  <1>1. PICK q \in Procs : Moving(q) /\ \A r \in Procs : r # q => handler'[r] = handler[r]
    BY NextMoves
  <1>2. q = p
    BY <1>1 DEF WritesFor
  <1> QED
    BY <1>1, <1>2 DEF WritesFor, Moving, Learning, Receiving, etcdVars

(* An update with a resource_version replaces the very pair its caller     *)
(* read, whatever the other workers, deleters and updaters did since: a    *)
(* revision is never used again.                                           *)
THEOREM SwapsReplaceWhatWasRead == Spec => SwapReplacesWhatWasRead
  <1> DEFINE A == \A p \in Procs : WritesFor(p, {"swap"}) => kv[Name(p)] = handler[p].seen
  <1>1. Init => RevisionsTell
    BY DEF Init, EtcdInit, RevisionsTell, Asked, Exists, NoRequest
  <1>2. TypeOK /\ RevisionsTell /\ [Next]_vars => [A]_vars
    BY WhoWrites, SwapsOnlyWhatIsThere
  <1>3. TypeOK /\ TypeOK' /\ RevisionsTell /\ [Next]_vars => RevisionsTell'
    BY RevisionsTellStep
  <1>4. Spec => [][A]_vars
    BY <1>1, <1>2, <1>3, TypeCorrect, PTL DEF Spec
  <1> QED
    BY <1>4 DEF SwapReplacesWhatWasRead

=============================================================================
