---------------------------- MODULE Access_proofs ----------------------------
(***************************************************************************)
(* Access, for any workers, threads, people, lists of roles and bounds.    *)
(***************************************************************************)
EXTENDS Access, FiniteSetTheorems, SequenceTheorems, TLAPS

(* The stages of a worker between the creation of the lock file and its    *)
(* removal, and those of a request.                                        *)
Inside == {"roles", "find", "create", "grant", "put", "login", "truncate", "fill",
           "context", "rewrite", "refill", "flag", "unlock", "raise"}
Busy == {"use", "revoke", "find", "create", "grant", "put", "login", "truncate", "fill"}
AboutInvite == {"use", "revoke", "find", "create", "grant", "put"}

WorkerFits(r) ==
  /\ r.at \in {"off", "check", "wait", "lock", "serve", "failed"} \cup Inside
  /\ r.user = Admin
  /\ r.at \in {"rewrite", "refill"} => r.read = "ready"

ThreadFits(r, nonces) ==
  /\ r.at \in {"idle"} \cup Busy
  /\ r.nonce \in {0} \cup nonces
  /\ r.at \in AboutInvite => r.nonce \in nonces

Fits(p, r, nonces) ==
  /\ r \in Proc
  /\ r.at = "put" => r.left # << >> /\ r.user \in r.held
  /\ p \in Workers => WorkerFits(r)
  /\ p \in Threads => ThreadFits(r, nonces)

ProcsFit == /\ proc \in [Procs -> Proc]
            /\ \A p \in Procs : Fits(p, proc[p], DOMAIN invites)

(* The rest of TypeOK.                                                     *)
StoreFits ==
  /\ server \in {"down", "up", "stopping"}
  /\ conf \in ConfState /\ secret \in Nat
  /\ lock \in BOOLEAN /\ done \in BOOLEAN
  /\ users \subseteq People /\ roles \in [Roles -> SUBSET People]
  /\ invites \in Seq(Invite)
  /\ \A n \in DOMAIN invites : invites[n].secret <= secret
  /\ events \in 0 .. MaxEvents
  /\ joined \subseteq People \X (DOMAIN invites)
  /\ disturbed \subseteq Disturbances

Typed == StoreFits /\ ProcsFit

LEMMA TypedIsTypeOK == Typed => TypeOK
  BY DEF Typed, StoreFits, ProcsFit, TypeOK, Fits, ThreadFits, Procs

LEMMA InvitesAre ==
  ASSUME Typed
  PROVE  /\ Len(invites) \in Nat /\ DOMAIN invites = 1 .. Len(invites)
         /\ \A n \in DOMAIN invites : invites[n] \in Invite /\ invites[n].secret \in Nat
  <1>1. Len(invites) \in Nat /\ DOMAIN invites = 1 .. Len(invites)
    BY LenProperties DEF Typed, StoreFits
  <1>2. \A n \in DOMAIN invites : invites[n] \in Invite
    BY <1>1, ElementOfSeq DEF Typed, StoreFits
  <1> QED
    BY <1>1, <1>2 DEF Invite

LEMMA RestFits ==
  /\ \A w \in Workers, at \in {"off", "check", "serve", "failed", "roles"} :
       \A nonces : Fits(w, AtRest(at), nonces)
  /\ \A t \in Threads, at \in {"idle", "login"} : \A nonces : Fits(t, AtRest(at), nonces)
  <1>1. \A at \in {"off", "check", "serve", "failed", "roles", "idle", "login"} : AtRest(at) \in Proc
    BY DEF AtRest, Proc, People, ConfState
  <1>2. \A w \in Workers, at \in {"off", "check", "serve", "failed", "roles"} :
           WorkerFits(AtRest(at)) /\ w \notin Threads
    BY AccessAssumption DEF AtRest, WorkerFits, Inside
  <1>3. \A t \in Threads, at \in {"idle", "login"} :
           t \notin Workers /\ \A nonces : ThreadFits(AtRest(at), nonces)
    BY AccessAssumption DEF AtRest, ThreadFits, Busy, AboutInvite
  <1>4. \A at : AtRest(at).at = at
    BY DEF AtRest
  <1> QED
    BY <1>1, <1>2, <1>3, <1>4 DEF Fits

(* One process moves, and invites do not get lost.                         *)
LEMMA OneMoves ==
  ASSUME ProcsFit, NEW p \in Procs, NEW r,
         Fits(p, r, DOMAIN invites), proc' = [proc EXCEPT ![p] = r],
         DOMAIN invites \subseteq DOMAIN invites'
  PROVE  ProcsFit'
  <1>1. r \in Proc
    BY DEF Fits
  <1>2. proc' \in [Procs -> Proc]
    BY <1>1 DEF ProcsFit
  <1>3. \A q \in Procs : Fits(q, proc'[q], DOMAIN invites)
    BY DEF ProcsFit
  <1>4. \A q \in Procs : Fits(q, proc'[q], DOMAIN invites')
    BY <1>3 DEF Fits, ThreadFits
  <1> QED
    BY <1>2, <1>4 DEF ProcsFit

LEMMA NoneMoves ==
  ASSUME ProcsFit, proc' = proc, DOMAIN invites \subseteq DOMAIN invites'
  PROVE  ProcsFit'
  BY DEF ProcsFit, Fits, ThreadFits

LEMMA InitTyped == Init => Typed
  <1> SUFFICES ASSUME Init PROVE Typed
    OBVIOUS
  <1>1. ProcsFit
    BY RestFits, AccessAssumption DEF Init, ProcsFit, Procs, Fits
  <1>2. << >> \in Seq(Invite) /\ Len(<< >>) = 0 /\ DOMAIN << >> = 1 .. 0
    BY EmptySeq, LenProperties
  <1>4. DOMAIN invites = {} /\ invites \in Seq(Invite)
    BY <1>2 DEF Init
  <1>5. events \in 0 .. MaxEvents
    BY AccessAssumption DEF Init
  <1>6. roles \in [Roles -> SUBSET People]
    BY DEF Init
  <1>3. StoreFits
    BY <1>4, <1>5, <1>6 DEF Init, StoreFits, ConfState
  <1> QED
    BY <1>1, <1>3 DEF Typed

-----------------------------------------------------------------------------
(* Steps of the launcher.                                                  *)
LEMMA LaunchTyped ==
  ASSUME Typed, NEW elsewhere \in BOOLEAN, NEW reset \in BOOLEAN, NEW started \in Crews,
         Launch(elsewhere, reset, started)
  PROVE  Typed'
  <1>1. started \subseteq Workers /\ IsFiniteSet(started) /\ started # {}
    BY AccessAssumption, FS_Subset
  <1>2. Cardinality(started) \in Nat /\ Cardinality(started) # 0
    BY <1>1, FS_CardinalityType, FS_EmptySet
  <1>3. events' \in 0 .. MaxEvents
    BY <1>2, AccessAssumption DEF Launch, Typed, StoreFits
  <1>4. secret' \in Nat /\ secret <= secret' /\ conf' \in ConfState
    BY DEF Launch, GeneratesConfig, Typed, StoreFits, ConfState
  <1>5. \A n \in DOMAIN invites : invites[n].secret \in Nat
    BY InvitesAre
  <1>6. \A n \in DOMAIN invites' : invites'[n].secret <= secret'
    BY <1>4, <1>5 DEF Launch, Typed, StoreFits, store
  <1>8. StoreFits'
    BY <1>3, <1>4, <1>6 DEF Launch, Typed, StoreFits, store, Disturb, Disturbances
  <1>7. ProcsFit'
    BY <1>1, RestFits DEF Launch, Typed, store, ProcsFit, Fits
  <1> QED
    BY <1>7, <1>8 DEF Typed

LEMMA EndsTyped ==
  ASSUME Typed, Kill \/ Stop \/ Down
  PROVE  Typed'
  <1>1. CASE Kill
    <2>3. disturbed' \subseteq Disturbances
      BY <1>1 DEF Kill, Disturb, Disturbances, Typed, StoreFits
    <2>1. StoreFits'
      BY <1>1, <2>3, AccessAssumption DEF Kill, Typed, StoreFits, files, store, Event
    <2>2. ProcsFit'
      BY <1>1, RestFits, AccessAssumption DEF Kill, Typed, ProcsFit, Procs, Fits, store
    <2> QED
      BY <2>1, <2>2 DEF Typed
  <1>2. CASE Stop
    BY <1>2, NoneMoves, AccessAssumption DEF Stop, Typed, StoreFits, files, store, Event
  <1>3. CASE Down
    <2>1. StoreFits'
      BY <1>3 DEF Down, Typed, StoreFits, files, store
    <2>2. ProcsFit'
      BY <1>3, RestFits, AccessAssumption DEF Down, Typed, ProcsFit, Procs, Fits, store
    <2> QED
      BY <2>1, <2>2 DEF Typed
  <1> QED
    BY <1>1, <1>2, <1>3

-----------------------------------------------------------------------------
(* Steps of one worker in its startup.                                     *)
(* A worker that goes on to a stage for which it needs nothing.            *)
LEMMA WorkerGoes ==
  ASSUME Typed, NEW w \in Workers,
         NEW at \in {"off", "serve", "wait", "lock", "raise", "find", "flag", "unlock",
                    "login", "context"},
         Goes(w, at), DOMAIN invites \subseteq DOMAIN invites'
  PROVE  ProcsFit'
  <1> DEFINE r == [proc[w] EXCEPT !.at = at]
  <1>1. proc[w] \in Proc /\ WorkerFits(proc[w]) /\ w \in Procs
    BY DEF Typed, ProcsFit, Fits, Procs
  <1>2. r \in Proc /\ r.at = at /\ r.user = Admin
    BY <1>1 DEF Proc, WorkerFits
  <1>3. Fits(w, r, DOMAIN invites)
    BY <1>2, AccessAssumption DEF Fits, WorkerFits, Inside
  <1>4. proc' = [proc EXCEPT ![w] = r]
    BY DEF Goes
  <1> QED
    BY <1>1, <1>3, <1>4, OneMoves DEF Typed

LEMMA StartTyped ==
  ASSUME Typed, NEW w \in Workers, StartStep(w) \/ HookRaises(w) \/ Shutdown(w)
  PROVE  Typed'
  <1> USE DEF Typed, StoreFits, files, store
  <1>1. CASE Checks(w)
    BY <1>1, WorkerGoes DEF Checks
  <1>2. CASE SeesNoLock(w)
    BY <1>2, WorkerGoes DEF SeesNoLock
  <1>3. CASE Locks(w)
    <2> DEFINE r == [AtRest("roles") EXCEPT !.left = InstalledRoles]
    <2>1. AtRest("roles") \in Proc /\ AtRest("roles").at = "roles" /\ AtRest("roles").user = Admin
      BY RestFits DEF Fits, AtRest
    <2>2. InstalledRoles \in Seq(Roles)
      BY DEF InstalledRoles, Roles
    <2>3. r \in Proc /\ r.at = "roles" /\ r.user = Admin
      BY <2>1, <2>2 DEF Proc
    <2>4. Fits(w, r, DOMAIN invites)
      BY <2>3, AccessAssumption DEF Fits, WorkerFits, Inside
    <2>5. ProcsFit'
      BY <1>3, <2>4, OneMoves DEF Locks, Procs
    <2> QED
      BY <1>3, <2>5 DEF Locks, Disturb, Disturbances
  <1>4. CASE InstallsRole(w)
    <2> DEFINE r == [proc[w] EXCEPT !.left = Tail(@)]
    <2>1. proc[w] \in Proc /\ WorkerFits(proc[w]) /\ w \in Procs
      BY DEF ProcsFit, Fits, Procs
    <2>2. proc[w].left \in Seq(Roles) /\ proc[w].left # << >>
      BY <1>4, <2>1 DEF InstallsRole, Proc
    <2>3. Head(proc[w].left) \in Roles /\ Tail(proc[w].left) \in Seq(Roles)
      BY <2>2, HeadTailProperties
    <2>4. r \in Proc /\ r.at = "roles" /\ r.user = Admin
      BY <1>4, <2>1, <2>3 DEF InstallsRole, At, WorkerFits, Proc
    <2>5. Fits(w, r, DOMAIN invites)
      BY <2>4, AccessAssumption DEF Fits, WorkerFits, Inside
    <2>6. ProcsFit'
      BY <1>4, <2>1, <2>5, OneMoves DEF InstallsRole
    <2>7. roles' \in [Roles -> SUBSET People]
      BY <1>4, <2>3 DEF InstallsRole, InstalledUsers, People
    <2> QED
      BY <1>4, <2>6, <2>7 DEF InstallsRole, Disturb, Disturbances
  <1>5. CASE RegistersAdmin(w)
    BY <1>5, WorkerGoes DEF RegistersAdmin
  <1>6. CASE SetsContext(w)
    <2>1. ProcsFit'
      <3>1. CASE proc' = [proc EXCEPT ![w].at = "rewrite", ![w].read = "ready"]
        <4> DEFINE r == [[proc[w] EXCEPT !.at = "rewrite"] EXCEPT !.read = "ready"]
        <4>1. proc[w] \in Proc /\ WorkerFits(proc[w]) /\ w \in Procs
          BY DEF ProcsFit, Fits, Procs
        <4>2. r \in Proc /\ r.at = "rewrite" /\ r.user = Admin /\ r.read = "ready"
          BY <4>1 DEF WorkerFits, Proc, ConfState
        <4>3. Fits(w, r, DOMAIN invites)
          BY <4>2, AccessAssumption DEF Fits, WorkerFits, Inside
        <4>4. proc' = [proc EXCEPT ![w] = r]
          BY <3>1, <4>1 DEF ProcsFit
        <4> QED
          BY <1>6, <4>1, <4>3, <4>4, OneMoves DEF SetsContext
      <3> QED
        BY <1>6, <3>1, WorkerGoes DEF SetsContext
    <2> QED
      BY <1>6, <2>1 DEF SetsContext
  <1>7. CASE HookRaises(w)
    BY <1>7, WorkerGoes, AccessAssumption DEF HookRaises, Event
  <1>8. CASE Flags(w)
    BY <1>8, WorkerGoes DEF Flags
  <1>9. CASE Unlocks(w)
    <2>1. ProcsFit'
      BY <1>9, RestFits, OneMoves DEF Unlocks, Procs
    <2> QED
      BY <1>9, <2>1 DEF Unlocks
  <1>10. CASE Shutdown(w)
    BY <1>10, WorkerGoes DEF Shutdown
  <1> QED
    BY <1>1, <1>2, <1>3, <1>4, <1>5, <1>6, <1>7, <1>8, <1>9, <1>10 DEF StartStep

-----------------------------------------------------------------------------
(* Steps of a request, or of the registration of the admin user.           *)
LEMMA ThreadEnds ==
  ASSUME Typed, NEW t \in Threads, Ends(t), DOMAIN invites \subseteq DOMAIN invites'
  PROVE  ProcsFit'
  BY RestFits, OneMoves DEF Ends, Typed, Procs

(* A process that goes on to a stage without leaving its invite.           *)
LEMMA RequestGoes ==
  ASSUME Typed, NEW p \in Procs,
         NEW at \in {"find", "create", "grant", "fill", "login"}, Goes(p, at),
         DOMAIN invites \subseteq DOMAIN invites',
         at \in {"find", "create", "grant"} => proc[p].at \in AboutInvite
  PROVE  ProcsFit'
  <1> DEFINE r == [proc[p] EXCEPT !.at = at]
  <1>1. Fits(p, proc[p], DOMAIN invites)
    BY DEF Typed, ProcsFit
  <1>2. r \in Proc /\ r.at = at /\ r.user = proc[p].user /\ r.nonce = proc[p].nonce
    BY <1>1 DEF Fits, Proc
  <1>3. Fits(p, r, DOMAIN invites)
    BY <1>1, <1>2 DEF Fits, WorkerFits, ThreadFits, Inside, Busy, AboutInvite
  <1>4. proc' = [proc EXCEPT ![p] = r]
    BY DEF Goes
  <1> QED
    BY <1>3, <1>4, OneMoves DEF Typed

LEMMA CommonTyped ==
  ASSUME Typed, NEW p \in Procs, CommonStep(p)
  PROVE  Typed'
  <1> USE DEF Typed, StoreFits, files, store
  <1>1. Fits(p, proc[p], DOMAIN invites) /\ proc[p] \in Proc
    BY DEF ProcsFit, Fits
  <1>2. /\ proc[p].user \in People /\ proc[p].left \in Seq(Roles)
        /\ proc[p].held \in SUBSET People /\ proc[p].read \in ConfState
    BY <1>1 DEF Proc
  <1>3. proc[p].left # << >> => /\ Head(proc[p].left) \in Roles
                               /\ Tail(proc[p].left) \in Seq(Roles)
    BY <1>2, HeadTailProperties
  <1>4. At(p, "put") => proc[p].left # << >> /\ proc[p].user \in proc[p].held
    BY <1>1 DEF Fits, At
  <1>5. CASE Finds(p)
    BY <1>5, RequestGoes, ThreadEnds DEF Finds, At, AboutInvite
  <1>6. CASE Creates(p)
    <2> DEFINE r == [[proc[p] EXCEPT !.at = "grant"] EXCEPT !.left = Granted(p)]
    <2>1. Granted(p) \in Seq(Roles)
      <3>1. CASE p \in Workers
        BY <3>1 DEF Granted, Roles
      <3>2. CASE p \in Threads
        <4>1. proc[p].nonce \in DOMAIN invites
          BY <1>1, <1>6, <3>2 DEF Creates, At, Fits, ThreadFits, AboutInvite
        <4> QED
          BY <3>2, <4>1, InvitesAre, AccessAssumption DEF Granted, Invite
      <3> QED
        BY <3>1, <3>2 DEF Procs
    <2>2. /\ r \in Proc /\ r.at = "grant" /\ r.user = proc[p].user
          /\ r.nonce = proc[p].nonce
      BY <1>1, <2>1 DEF Proc
    <2>3. Fits(p, r, DOMAIN invites)
      BY <1>1, <1>6, <2>2 DEF Creates, At, Fits, WorkerFits, ThreadFits, Inside, Busy, AboutInvite
    <2>4. proc' = [proc EXCEPT ![p] = r]
      BY <1>6 DEF Creates, ProcsFit
    <2>5. ProcsFit'
      BY <1>6, <2>3, <2>4, OneMoves DEF Creates
    <2> QED
      BY <1>2, <1>6, <2>5 DEF Creates
  <1>7. CASE GrantReads(p)
    <2> DEFINE g == Head(proc[p].left)
               r == IF MayGrant(p, g)
                    THEN [[proc[p] EXCEPT !.at = "put"] EXCEPT !.held = roles[g] \cup {proc[p].user}]
                    ELSE [proc[p] EXCEPT !.left = Tail(@)]
    <2>1. g \in Roles /\ roles[g] \cup {proc[p].user} \in SUBSET People /\ proc[p].left # << >>
      BY <1>2, <1>3, <1>7 DEF GrantReads
    <2>2. /\ r \in Proc /\ r.user = proc[p].user /\ r.nonce = proc[p].nonce
          /\ r.at \in {"put", "grant"}
          /\ r.at = "put" => r.left # << >> /\ r.user \in r.held
      <3>1. CASE MayGrant(p, g)
        <4> DEFINE h == roles[g] \cup {proc[p].user}
        <4>1. h \in SUBSET People /\ proc[p].user \in h
          BY <2>1
        <4> HIDE DEF h, g
        <4>2. r = [[proc[p] EXCEPT !.at = "put"] EXCEPT !.held = h]
          BY <3>1 DEF h
        <4> QED
          BY <1>1, <2>1, <4>1, <4>2 DEF Proc
      <3>2. CASE ~MayGrant(p, g)
        BY <1>1, <1>3, <1>7, <2>1, <3>2 DEF GrantReads, At, Proc
      <3> QED
        BY <3>1, <3>2
    <2>3. Fits(p, r, DOMAIN invites)
      <3> HIDE DEF r
      <3> QED
        BY <1>1, <1>7, <2>2 DEF GrantReads, At, Fits, WorkerFits, ThreadFits, Inside, Busy, AboutInvite
    <2>4. proc' = [proc EXCEPT ![p] = r]
      <3>1. CASE MayGrant(p, g)
        BY <1>7, <3>1 DEF GrantReads
      <3>2. CASE ~MayGrant(p, g)
        BY <1>7, <3>2 DEF GrantReads
      <3> QED
        BY <3>1, <3>2
    <2>5. ProcsFit'
      BY <1>7, <2>3, <2>4, OneMoves DEF GrantReads
    <2> QED
      BY <1>7, <2>5 DEF GrantReads, Disturb, Disturbances
  <1>8. CASE GrantPuts(p)
    <2> DEFINE r == [[[proc[p] EXCEPT !.at = "grant"] EXCEPT !.left = Tail(@)] EXCEPT !.held = {}]
    <2>1. /\ r \in Proc /\ r.at = "grant" /\ r.user = proc[p].user
          /\ r.nonce = proc[p].nonce
      BY <1>1, <1>3, <1>4, <1>8 DEF GrantPuts, Proc
    <2>2. Fits(p, r, DOMAIN invites)
      <3> HIDE DEF r
      <3> QED
        BY <1>1, <1>8, <2>1 DEF GrantPuts, At, Fits, WorkerFits, ThreadFits, Inside, Busy, AboutInvite
    <2>3. proc' = [proc EXCEPT ![p] = r]
      BY <1>8 DEF GrantPuts, ProcsFit
    <2>4. ProcsFit'
      BY <1>8, <2>2, <2>3, OneMoves DEF GrantPuts
    <2>5. roles' \in [Roles -> SUBSET People]
      BY <1>2, <1>3, <1>4, <1>8 DEF GrantPuts
    <2> QED
      BY <1>8, <2>4, <2>5 DEF GrantPuts
  <1>9. CASE Registered(p)
    <2>1. CASE p \in Workers /\ Goes(p, "login") /\ UNCHANGED joined
      BY <1>9, <2>1, RequestGoes DEF Registered
    <2>2. CASE p \in Threads /\ Ends(p) /\ joined' = joined \cup {<<proc[p].user, proc[p].nonce>>}
      <3>1. proc[p].nonce \in DOMAIN invites
        BY <1>1, <1>9, <2>2 DEF Registered, At, Fits, ThreadFits, AboutInvite
      <3> QED
        BY <1>2, <1>9, <2>2, <3>1, ThreadEnds DEF Registered
    <2> QED
      BY <1>9, <2>1, <2>2 DEF Registered
  <1>10. CASE LoginReads(p)
    <2>1. CASE proc' = [proc EXCEPT ![p].at = "truncate", ![p].read = conf]
      <3> DEFINE r == [[proc[p] EXCEPT !.at = "truncate"] EXCEPT !.read = conf]
      <3>1. /\ r \in Proc /\ r.at = "truncate" /\ r.user = proc[p].user
            /\ r.nonce = proc[p].nonce
        BY <1>1 DEF Proc
      <3>2. Fits(p, r, DOMAIN invites)
        <4> HIDE DEF r
        <4> QED
          BY <1>1, <3>1 DEF Fits, WorkerFits, ThreadFits, Inside, Busy, AboutInvite
      <3>3. proc' = [proc EXCEPT ![p] = r]
        BY <2>1 DEF ProcsFit
      <3>4. ProcsFit'
        BY <1>10, <3>2, <3>3, OneMoves DEF LoginReads
      <3> QED
        BY <1>10, <3>4 DEF LoginReads
    <2> QED
      BY <1>10, <2>1, WorkerGoes, ThreadEnds DEF LoginReads
  <1>11. CASE Truncates(p)
    <2>1. CASE At(p, "truncate") /\ Goes(p, "fill")
      BY <1>11, <2>1, RequestGoes DEF Truncates, ConfState
    <2>2. CASE At(p, "rewrite") /\ Goes(p, "refill")
      <3> DEFINE r == [proc[p] EXCEPT !.at = "refill"]
      <3>1. p \in Workers /\ p \notin Threads
        BY <1>1, <2>2, AccessAssumption DEF Procs, At, Fits, ThreadFits, Busy
      <3>2. r \in Proc /\ r.at = "refill" /\ r.user = proc[p].user /\ r.read = proc[p].read
        BY <1>1 DEF Proc
      <3>3. Fits(p, r, DOMAIN invites)
        <4> HIDE DEF r
        <4> QED
          BY <1>1, <2>2, <3>1, <3>2 DEF At, Fits, WorkerFits, Inside
      <3>4. ProcsFit'
        BY <1>11, <2>2, <3>3, OneMoves DEF Truncates, Goes
      <3> QED
        BY <1>11, <3>4 DEF Truncates, ConfState
    <2> QED
      BY <1>11, <2>1, <2>2 DEF Truncates
  <1>12. CASE Fills(p)
    <2>1. conf' \in ConfState
      BY <1>2, <1>12 DEF Fills, ConfState
    <2>2. CASE At(p, "refill") /\ Goes(p, "flag")
      <3>1. p \in Workers
        BY <1>1, <2>2 DEF Procs, At, Fits, ThreadFits, Busy
      <3> QED
        BY <1>12, <2>1, <2>2, <3>1, WorkerGoes DEF Fills, Disturb, Disturbances
    <2> QED
      BY <1>12, <2>1, <2>2, WorkerGoes, ThreadEnds DEF Fills, Disturb, Disturbances
  <1> QED
    BY <1>5, <1>6, <1>7, <1>8, <1>9, <1>10, <1>11, <1>12 DEF CommonStep

(* An invite is replaced by one with the same secret.                      *)
LEMMA InviteIsReplaced ==
  ASSUME Typed, NEW n \in DOMAIN invites, NEW i \in Invite, i.secret = invites[n].secret,
         invites' = [invites EXCEPT ![n] = i], secret' = secret
  PROVE  /\ invites' \in Seq(Invite) /\ DOMAIN invites' = DOMAIN invites
         /\ \A k \in DOMAIN invites' : invites'[k].secret <= secret'
         /\ \A k \in DOMAIN invites : k # n => invites'[k] = invites[k]
         /\ invites'[n] = i
  <1>1. n \in 1 .. Len(invites) /\ invites \in Seq(Invite)
    BY InvitesAre DEF Typed, StoreFits
  <1>2. invites' \in Seq(Invite)
    BY <1>1, ExceptSeq
  <1> QED
    BY <1>2 DEF Typed, StoreFits

(* An invite is put back with its flags changed.                           *)
LEMMA InviteIsPut ==
  ASSUME Typed, NEW n \in DOMAIN invites, NEW u \in BOOLEAN, NEW v \in BOOLEAN,
         invites' = [invites EXCEPT ![n].used = u, ![n].revoked = v], secret' = secret
  PROVE  /\ invites' \in Seq(Invite) /\ DOMAIN invites' = DOMAIN invites
         /\ \A k \in DOMAIN invites' : invites'[k].secret <= secret'
         /\ \A k \in DOMAIN invites : k # n => invites'[k] = invites[k]
         /\ invites'[n].used = u /\ invites'[n].revoked = v
  <1> DEFINE i == [[invites[n] EXCEPT !.used = u] EXCEPT !.revoked = v]
  <1>1. invites[n] \in Invite
    BY InvitesAre
  <1>2. i \in Invite /\ i.used = u /\ i.revoked = v /\ i.secret = invites[n].secret
    BY <1>1 DEF Invite
  <1>3. invites' = [invites EXCEPT ![n] = i]
    OBVIOUS
  <1> HIDE DEF i
  <1> QED
    BY <1>2, <1>3, InviteIsReplaced

LEMMA ThreadTyped ==
  ASSUME Typed, NEW t \in Threads, ThreadStep(t)
  PROVE  Typed'
  <1> DEFINE n == proc[t].nonce
  <1>1. Fits(t, proc[t], DOMAIN invites) /\ proc[t] \in Proc /\ t \in Procs
    BY DEF Typed, ProcsFit, Fits, Procs
  <1>2. proc[t].used \in BOOLEAN
    BY <1>1 DEF Proc
  <1>3. At(t, "use") \/ At(t, "revoke") => n \in DOMAIN invites
    BY <1>1 DEF At, Fits, ThreadFits, AboutInvite
  <1>4. CASE Uses(t)
    <2>1. /\ invites' \in Seq(Invite) /\ DOMAIN invites' = DOMAIN invites
          /\ \A k \in DOMAIN invites' : invites'[k].secret <= secret'
      BY <1>3, <1>4, InviteIsPut, Zenon DEF Uses, files, Typed, StoreFits
    <2>2. ProcsFit'
      BY <1>1, <1>4, <2>1, ThreadEnds, RequestGoes DEF Uses, At, AboutInvite
    <2> QED
      BY <1>4, <2>1, <2>2 DEF Uses, files, Typed, StoreFits
  <1>5. CASE Revokes(t)
    <2>1. invites' = [invites EXCEPT ![n].used = proc[t].used, ![n].revoked = TRUE]
      <3>1. n \in DOMAIN invites
        BY <1>3, <1>5 DEF Revokes
      <3>2. invites[n] \in Invite
        BY <3>1, InvitesAre
      <3>3. [[invites[n] EXCEPT !.revoked = TRUE] EXCEPT !.used = proc[t].used]
              = [[invites[n] EXCEPT !.used = proc[t].used] EXCEPT !.revoked = TRUE]
        BY <3>2 DEF Invite
      <3> QED
        BY <1>5, <3>3 DEF Revokes
    <2>2. /\ invites' \in Seq(Invite) /\ DOMAIN invites' = DOMAIN invites
          /\ \A k \in DOMAIN invites' : invites'[k].secret <= secret'
      BY <1>2, <1>3, <1>5, <2>1, InviteIsPut, Zenon DEF Revokes, files
    <2>3. ProcsFit'
      BY <1>5, <2>2, ThreadEnds DEF Revokes
    <2> QED
      BY <1>5, <2>2, <2>3 DEF Revokes, files, Typed, StoreFits
  <1> QED
    BY <1>4, <1>5 DEF ThreadStep

(* A thread begins a request.                                              *)
LEMMA RequestTyped ==
  ASSUME Typed, NEW t \in Threads, NewRequest(t)
  PROVE  Typed'
  <1>1. AtRest("login") \in Proc /\ t \in Procs /\ t \notin Workers
    BY RestFits, AccessAssumption DEF Fits, Procs
  <1>2. \A at \in {"use", "revoke"} :
          AtRest(at) \in Proc /\ AtRest(at).at = at
    BY DEF AtRest, Proc, People, ConfState
  <1>3. events' \in 0 .. MaxEvents
    <2>1. Event
      BY Zenon DEF NewRequest, Registers, LogsIn, ReadsToRevoke, Request
    <2> QED
      BY <2>1, AccessAssumption DEF Event, Typed, StoreFits
  <1>4. ProcsFit'
    <2>1. ASSUME NEW u \in People, NEW n \in DOMAIN invites, Registers(t, u, n)
          PROVE  ProcsFit'
      <3> DEFINE r == [[AtRest("use") EXCEPT !.user = u] EXCEPT !.nonce = n]
      <3>1. n \in Nat /\ u \in People
        BY InvitesAre DEF People
      <3>2. r \in Proc /\ r.at = "use" /\ r.nonce = n
        BY <1>2, <3>1 DEF Proc
      <3>3. Fits(t, r, DOMAIN invites)
        <4> HIDE DEF r
        <4> QED
          BY <1>1, <3>2 DEF Fits, ThreadFits, Busy
      <3> QED
        BY <1>1, <2>1, <3>3, OneMoves DEF Registers, Typed, store
    <2>2. CASE LogsIn(t)
      BY <2>2, RestFits, <1>1, OneMoves DEF LogsIn, Typed, store
    <2>3. ASSUME NEW n \in DOMAIN invites, ReadsToRevoke(t, n)
          PROVE  ProcsFit'
      <3> DEFINE r == [[AtRest("revoke") EXCEPT !.nonce = n] EXCEPT !.used = invites[n].used]
      <3>1. n \in Nat /\ invites[n].used \in BOOLEAN
        BY InvitesAre DEF Invite
      <3>2. r \in Proc /\ r.at = "revoke" /\ r.nonce = n
        BY <1>2, <3>1 DEF Proc
      <3>3. Fits(t, r, DOMAIN invites)
        <4> HIDE DEF r
        <4> QED
          BY <1>1, <3>2 DEF Fits, ThreadFits, Busy
      <3> QED
        BY <1>1, <2>3, <3>3, OneMoves DEF ReadsToRevoke, Typed, store
    <2> QED
      BY <2>1, <2>2, <2>3 DEF NewRequest
  <1> QED
    BY <1>3, <1>4, Zenon DEF NewRequest, Registers, LogsIn, ReadsToRevoke, Typed, StoreFits, files, store

LEMMA PeopleTyped ==
  ASSUME Typed,
         \/ \E u \in People, list \in Grants : CreatesInvite(u, list)
         \/ \E u \in People : DeletesUser(u)
  PROVE  Typed'
  <1>1. ASSUME NEW u \in People, NEW list \in Grants, CreatesInvite(u, list)
        PROVE  Typed'
    <2> DEFINE i == [used |-> FALSE, revoked |-> FALSE, by |-> u, roles |-> list, secret |-> secret]
    <2>1. i \in Invite /\ i.secret = secret /\ secret \in Nat
      BY DEF Invite, Typed, StoreFits
    <2>2. invites' = Append(invites, i) /\ secret' = secret
      BY <1>1 DEF CreatesInvite, files
    <2> HIDE DEF i
    <2>3. /\ invites' \in Seq(Invite) /\ Len(invites') = Len(invites) + 1
          /\ \A k \in 1 .. Len(invites) : invites'[k] = invites[k]
          /\ invites'[Len(invites) + 1] = i
      BY <2>1, <2>2, AppendProperties DEF Typed, StoreFits
    <2>4. DOMAIN invites' = 1 .. Len(invites')
      BY <2>3, LenProperties
    <2>5. DOMAIN invites \subseteq DOMAIN invites'
      BY <2>3, <2>4, InvitesAre
    <2>6. \A k \in DOMAIN invites' : k \in 1 .. Len(invites) \/ k = Len(invites) + 1
      BY <2>3, <2>4, InvitesAre
    <2>7. \A k \in DOMAIN invites' : invites'[k].secret <= secret'
      BY <2>1, <2>2, <2>3, <2>6, InvitesAre DEF Typed, StoreFits
    <2>8. ProcsFit'
      BY <1>1, <2>5, NoneMoves DEF CreatesInvite, Typed
    <2> QED
      BY <1>1, <2>3, <2>5, <2>7, <2>8 DEF CreatesInvite, files, Typed, StoreFits
  <1>2. ASSUME NEW u \in People, DeletesUser(u)
        PROVE  Typed'
    <2>1. ProcsFit'
      BY <1>2, NoneMoves DEF DeletesUser, Typed
    <2>2. disturbed' \subseteq Disturbances
      BY <1>2 DEF DeletesUser, Disturb, Disturbances, Typed, StoreFits
    <2> QED
      BY <1>2, <2>1, <2>2, AccessAssumption DEF DeletesUser, Event, files, Typed, StoreFits
  <1> QED
    BY <1>1, <1>2

LEMMA NextTyped == Typed /\ [Next]_vars => Typed'
  <1> SUFFICES ASSUME Typed, [Next]_vars PROVE Typed'
    OBVIOUS
  <1>1. CASE UNCHANGED vars
    BY <1>1, NoneMoves DEF vars, Typed, StoreFits
  <1> QED
    BY <1>1, LaunchTyped, EndsTyped, StartTyped, CommonTyped, ThreadTyped, RequestTyped,
       PeopleTyped DEF Next

(* Files, store and processes keep their types.                            *)
THEOREM TypeCorrect == Spec => []TypeOK
  <1>1. Spec => []Typed
    BY InitTyped, NextTyped, PTL DEF Spec
  <1> QED
    BY <1>1, TypedIsTypeOK, PTL

-----------------------------------------------------------------------------
(* An invite that has been used or revoked is never open again: whatever   *)
(* is written back of it has one of the two flags set.                     *)
THEOREM ClosedInvitesStayClosed == Spec => InvitesStayClosed
  <1>1. ASSUME Typed, [Next]_vars, NEW n \in DOMAIN invites, Closed(invites[n])
        PROVE  Closed(invites'[n])
    <2>1. CASE invites' = invites
      BY <1>1, <2>1
    <2>2. ASSUME NEW t \in Threads, Uses(t)
          PROVE  Closed(invites'[n])
      <3>1. proc[t].nonce \in DOMAIN invites
        BY <1>1, <2>2 DEF Uses, At, Typed, ProcsFit, Fits, ThreadFits, AboutInvite, Procs
      <3> QED
        BY <1>1, <2>1, <2>2, <3>1, InviteIsPut, Zenon DEF Uses, files, Closed
    <2>3. ASSUME NEW t \in Threads, Revokes(t)
          PROVE  Closed(invites'[n])
      <3>1. proc[t].nonce \in DOMAIN invites
        BY <1>1, <2>3 DEF Revokes, At, Typed, ProcsFit, Fits, ThreadFits, AboutInvite, Procs
      <3>2. invites[proc[t].nonce] \in Invite /\ invites \in Seq(Invite)
        BY <1>1, <3>1, InvitesAre DEF Typed, StoreFits
      <3>3. /\ invites'[proc[t].nonce].revoked = TRUE
            /\ n # proc[t].nonce => invites'[n] = invites[n]
        BY <2>3, <3>1, <3>2 DEF Revokes, Invite
      <3> QED
        BY <1>1, <3>3 DEF Closed
    <2>4. ASSUME NEW u \in People, NEW list \in Grants, CreatesInvite(u, list)
          PROVE  Closed(invites'[n])
      <3> DEFINE i == [used |-> FALSE, revoked |-> FALSE, by |-> u, roles |-> list, secret |-> secret]
      <3>1. i \in Invite /\ n \in 1 .. Len(invites) /\ invites \in Seq(Invite)
        BY <1>1, InvitesAre DEF Invite, Typed, StoreFits
      <3>2. invites'[n] = invites[n]
        BY <2>4, <3>1, AppendProperties DEF CreatesInvite
      <3> QED
        BY <1>1, <3>2
    <2>5. CASE UNCHANGED vars
      BY <2>1, <2>5 DEF vars
    <2>6. ASSUME NEW p \in Procs, CommonStep(p)
          PROVE  invites' = invites
      BY <2>6 DEF CommonStep, Finds, Creates, GrantReads, GrantPuts, Registered, LoginReads,
                  Truncates, Fills, store
    <2>7. ASSUME NEW w \in Workers, StartStep(w) \/ HookRaises(w) \/ Shutdown(w)
          PROVE  invites' = invites
      BY <2>7 DEF StartStep, Checks, SeesNoLock, Locks, InstallsRole, RegistersAdmin, SetsContext,
                  Flags, Unlocks, HookRaises, Shutdown, store
    <2>8. ASSUME NEW t \in Threads, NewRequest(t)
          PROVE  invites' = invites
      BY <2>8, Zenon DEF NewRequest, Registers, LogsIn, ReadsToRevoke, store
    <2>9. ASSUME \/ \E elsewhere, reset \in BOOLEAN, started \in Crews :
                        Launch(elsewhere, reset, started)
                 \/ Kill \/ Stop \/ Down
                 \/ \E u \in People : DeletesUser(u)
          PROVE  invites' = invites
      BY <2>9 DEF Launch, Kill, Stop, Down, DeletesUser, store
    <2> QED
      BY <1>1, <2>1, <2>2, <2>3, <2>4, <2>5, <2>6, <2>7, <2>8, <2>9 DEF Next, ThreadStep
  <1>2. Typed /\ [Next]_vars => [\A n \in DOMAIN invites : Closed(invites[n]) => Closed(invites'[n])]_vars
    BY <1>1
  <1> QED
    BY <1>2, InitTyped, NextTyped, PTL DEF Spec, InvitesStayClosed
-----------------------------------------------------------------------------
(* What a server that serves rests on.                                     *)

(* Nobody runs while the server is down.                                   *)
RestsWhenDown ==
  server = "down" => /\ \A w \in Workers : At(w, "off")
                     /\ \A t \in Threads : At(t, "idle")

(* The lock excludes, as long as two workers have not both taken it.       *)
OneInside ==
  "raced" \notin disturbed =>
    /\ \A w \in Workers : proc[w].at \in Inside => lock
    /\ \A w, v \in Workers : proc[w].at \in Inside /\ proc[v].at \in Inside => w = v

(* The admin user is there, unless somebody has deleted it since.          *)
AdminRegistered == Admin \in users \/ "deposed" \in disturbed

Primed == AdminRegistered /\ Admin \in roles["admin-role"]

(* Whatever is written to the configuration next has a current context.    *)
Settled == /\ conf \in {"ready", "empty"}
           /\ \A p \in Procs : proc[p].at \in {"truncate", "fill"} => proc[p].read = "ready"

(* Somebody takes the initialisation for done.                             *)
Relied == \/ done
          \/ \E w \in Workers : proc[w].at \in {"flag", "unlock", "serve"}
          \/ \E t \in Threads : ~At(t, "idle")

(* How far a worker inside has come.                                       *)
Progressed(r) ==
  /\ r.at = "roles" => r.left \in {InstalledRoles, <<"reader-role", "inviter-role">>,
                                   <<"inviter-role">>, << >>}
  /\ r.at = "roles" /\ r.left # InstalledRoles => Admin \in roles["admin-role"]
  /\ r.at \in Inside \ {"roles", "raise"} => Admin \in roles["admin-role"]
  /\ r.at \in Inside \ {"roles", "raise", "find", "create"} => AdminRegistered
Progress == \A w \in Workers : Progressed(proc[w])

(* The admin role is never put back without the admin user.                *)
HeldKeepsAdmin ==
  \A p \in Procs : At(p, "put") /\ Head(proc[p].left) = "admin-role" => Admin \in proc[p].held

Clean == disturbed \cap {"raced", "regenerated"} = {}

Installation ==
  /\ RestsWhenDown /\ OneInside
  /\ Clean => Progress /\ HeldKeepsAdmin /\ (Relied => Primed /\ Settled)

(* The steps of Next by who takes them.                                    *)
LauncherStep == \/ \E elsewhere, reset \in BOOLEAN, started \in Crews :
                      Launch(elsewhere, reset, started)
                \/ Kill \/ Stop \/ Down
WorkerStep(w) == StartStep(w) \/ HookRaises(w) \/ Shutdown(w)
PeopleStep == \/ \E u \in People, list \in Grants : CreatesInvite(u, list)
              \/ \E u \in People : DeletesUser(u)

LEMMA NextIs ==
  Next <=> \/ LauncherStep
           \/ \E w \in Workers : WorkerStep(w)
           \/ \E p \in Procs : CommonStep(p)
           \/ \E t \in Threads : ThreadStep(t) \/ NewRequest(t)
           \/ PeopleStep
  BY DEF Next, LauncherStep, WorkerStep, PeopleStep

(* What becomes of the record of a process that moves, and of the others.  *)
Became(p, at, left, held, read) ==
  /\ proc'[p].at = at /\ proc'[p].left = left /\ proc'[p].held = held /\ proc'[p].read = read
  /\ \A q \in Procs : q # p => proc'[q] = proc[q]

LEMMA Becomes ==
  ASSUME Typed, NEW p \in Procs, NEW at
  PROVE  /\ Goes(p, at) => Became(p, at, proc[p].left, proc[p].held, proc[p].read)
         /\ proc' = [proc EXCEPT ![p] = AtRest(at)] => Became(p, at, << >>, {}, "empty")
         /\ \A left : proc' = [proc EXCEPT ![p].left = left]
                        => Became(p, proc[p].at, left, proc[p].held, proc[p].read)
         /\ \A left : proc' = [proc EXCEPT ![p].at = at, ![p].left = left]
                        => Became(p, at, left, proc[p].held, proc[p].read)
         /\ \A held : proc' = [proc EXCEPT ![p].at = at, ![p].held = held]
                        => Became(p, at, proc[p].left, held, proc[p].read)
         /\ \A read : proc' = [proc EXCEPT ![p].at = at, ![p].read = read]
                        => Became(p, at, proc[p].left, proc[p].held, read)
         /\ \A left, held : proc' = [proc EXCEPT ![p].at = at, ![p].left = left, ![p].held = held]
                        => Became(p, at, left, held, proc[p].read)
  <1>1. proc[p] \in Proc /\ proc \in [Procs -> Proc]
    BY DEF Typed, ProcsFit
  <1>2. ASSUME Goes(p, at)
        PROVE  Became(p, at, proc[p].left, proc[p].held, proc[p].read)
    BY <1>1, <1>2 DEF Goes, Became, Proc
  <1>3. ASSUME proc' = [proc EXCEPT ![p] = AtRest(at)]
        PROVE  Became(p, at, << >>, {}, "empty")
    BY <1>1, <1>3 DEF AtRest, Became
  <1>4. ASSUME NEW left, proc' = [proc EXCEPT ![p].left = left]
        PROVE  Became(p, proc[p].at, left, proc[p].held, proc[p].read)
    BY <1>1, <1>4 DEF Became, Proc
  <1>5. ASSUME NEW left, proc' = [proc EXCEPT ![p].at = at, ![p].left = left]
        PROVE  Became(p, at, left, proc[p].held, proc[p].read)
    BY <1>1, <1>5 DEF Became, Proc
  <1>6. ASSUME NEW held, proc' = [proc EXCEPT ![p].at = at, ![p].held = held]
        PROVE  Became(p, at, proc[p].left, held, proc[p].read)
    BY <1>1, <1>6 DEF Became, Proc
  <1>7. ASSUME NEW read, proc' = [proc EXCEPT ![p].at = at, ![p].read = read]
        PROVE  Became(p, at, proc[p].left, proc[p].held, read)
    BY <1>1, <1>7 DEF Became, Proc
  <1>8. ASSUME NEW left, NEW held,
               proc' = [proc EXCEPT ![p].at = at, ![p].left = left, ![p].held = held]
        PROVE  Became(p, at, left, held, proc[p].read)
    BY <1>1, <1>8 DEF Became, Proc
  <1> QED
    BY <1>2, <1>3, <1>4, <1>5, <1>6, <1>7, <1>8, Zenon

(* What has come in between is not forgotten.                              *)
LEMMA DisturbedGrows ==
  ASSUME [Next]_vars
  PROVE  disturbed \subseteq disturbed'
  <1>1. CASE LauncherStep
    BY <1>1 DEF LauncherStep, Launch, Kill, Stop, Down, Disturb
  <1>2. ASSUME NEW w \in Workers, WorkerStep(w)
        PROVE  disturbed \subseteq disturbed'
    BY <1>2 DEF WorkerStep, StartStep, Checks, SeesNoLock, Locks, InstallsRole, RegistersAdmin,
                SetsContext, Flags, Unlocks, HookRaises, Shutdown, Disturb
  <1>3. ASSUME NEW p \in Procs, CommonStep(p)
        PROVE  disturbed \subseteq disturbed'
    BY <1>3 DEF CommonStep, Finds, Creates, GrantReads, GrantPuts, Registered, LoginReads,
                Truncates, Fills, Disturb
  <1>4. ASSUME NEW t \in Threads, ThreadStep(t) \/ NewRequest(t)
        PROVE  disturbed \subseteq disturbed'
    BY <1>4, Zenon DEF ThreadStep, NewRequest, Uses, Revokes, Registers, LogsIn, ReadsToRevoke
  <1>5. CASE PeopleStep \/ UNCHANGED vars
    BY <1>5 DEF PeopleStep, CreatesInvite, DeletesUser, Disturb, vars
  <1> QED
    BY <1>1, <1>2, <1>3, <1>4, <1>5, NextIs

(* After a step of the launcher the processes are as they were, or those   *)
(* that run are workers about to check.                                    *)
LEMMA LauncherLeaves ==
  ASSUME Typed, RestsWhenDown, LauncherStep
  PROVE  \/ proc' = proc /\ server = "up" /\ server' = "stopping"
         \/ /\ \A w \in Workers : proc'[w].at \in {"off", "check"}
            /\ \A t \in Threads : proc'[t].at = "idle"
            /\ server' = "down" => \A w \in Workers : proc'[w].at = "off"
  <1>1. \A at : AtRest(at).at = at
    BY DEF AtRest
  <1>2. \A w \in Workers : w \in Procs /\ w \notin Threads
    BY AccessAssumption DEF Procs
  <1>3. \A t \in Threads : t \in Procs /\ t \notin Workers
    BY AccessAssumption DEF Procs
  <1>4. ASSUME NEW elsewhere \in BOOLEAN, NEW reset \in BOOLEAN, NEW started \in Crews,
               Launch(elsewhere, reset, started)
        PROVE  /\ \A w \in Workers : proc'[w].at \in {"off", "check"}
               /\ \A t \in Threads : proc'[t].at = "idle"
               /\ server' # "down"
    <2>1. started \subseteq Workers
      BY AccessAssumption
    <2>2. /\ server = "down" /\ server' = "up"
          /\ \A p \in Procs : proc'[p] = IF p \in started THEN AtRest("check") ELSE proc[p]
      BY <1>4 DEF Launch
    <2> QED
      BY <1>1, <1>2, <1>3, <2>1, <2>2 DEF RestsWhenDown, At
  <1>5. ASSUME Kill \/ Down
        PROVE  /\ \A w \in Workers : proc'[w].at = "off"
               /\ \A t \in Threads : proc'[t].at = "idle"
    <2>1. \A p \in Procs : proc'[p] = AtRest(IF p \in Workers THEN "off" ELSE "idle")
      BY <1>5 DEF Kill, Down
    <2> QED
      BY <1>1, <1>2, <1>3, <2>1
  <1>6. CASE Stop
    BY <1>6 DEF Stop
  <1> QED
    BY <1>4, <1>5, <1>6 DEF LauncherStep

(* Only the launcher changes the state of the server, and nobody else      *)
(* moves while it is down.                                                 *)
LEMMA OthersNeedServer ==
  ASSUME Typed, RestsWhenDown,
         \/ \E w \in Workers : WorkerStep(w)
         \/ \E p \in Procs : CommonStep(p)
         \/ \E t \in Threads : ThreadStep(t) \/ NewRequest(t)
         \/ PeopleStep
  PROVE  server' = server /\ server # "down"
  <1>1. ASSUME NEW w \in Workers, WorkerStep(w)
        PROVE  server' = server /\ server # "down"
    BY <1>1 DEF WorkerStep, StartStep, Checks, SeesNoLock, Locks, InstallsRole, RegistersAdmin,
                SetsContext, Flags, Unlocks, HookRaises, Shutdown, RestsWhenDown, At
  <1>2. ASSUME NEW p \in Procs, CommonStep(p)
        PROVE  server' = server /\ server # "down"
    BY <1>2, Zenon DEF CommonStep, Finds, Creates, GrantReads, GrantPuts, Registered, LoginReads,
                Truncates, Fills, RestsWhenDown, At, Procs
  <1>3. ASSUME NEW t \in Threads, ThreadStep(t) \/ NewRequest(t)
        PROVE  server' = server /\ server # "down"
    BY <1>3, Zenon DEF ThreadStep, NewRequest, Uses, Revokes, Registers, LogsIn, ReadsToRevoke, Request,
                Serving, RestsWhenDown, At
  <1>4. CASE PeopleStep
    BY <1>4 DEF PeopleStep, CreatesInvite, DeletesUser, Serving
  <1> QED
    BY <1>1, <1>2, <1>3, <1>4

LEMMA RestsStep ==
  ASSUME Typed, RestsWhenDown, [Next]_vars
  PROVE  RestsWhenDown'
  <1>1. CASE LauncherStep
    BY <1>1, LauncherLeaves DEF RestsWhenDown, At
  <1>2. CASE UNCHANGED vars
    BY <1>2 DEF vars, RestsWhenDown, At
  <1> QED
    BY <1>1, <1>2, OthersNeedServer, NextIs DEF RestsWhenDown

(* Only Locks lets a worker in, and only Unlocks removes the lock.         *)
LEMMA InsideStays ==
  ASSUME Typed,
         \/ \E w \in Workers : WorkerStep(w) /\ ~Locks(w) /\ ~Unlocks(w)
         \/ \E p \in Procs : CommonStep(p)
         \/ \E t \in Threads : ThreadStep(t) \/ NewRequest(t)
         \/ PeopleStep \/ UNCHANGED vars
  PROVE  lock' = lock /\ \A w \in Workers : proc'[w].at \in Inside => proc[w].at \in Inside
  <1>1. ASSUME NEW w \in Workers, WorkerStep(w), ~Locks(w), ~Unlocks(w)
        PROVE  lock' = lock /\ \A v \in Workers : proc'[v].at \in Inside => proc[v].at \in Inside
    <2>1. w \in Procs /\ Workers \subseteq Procs
      BY DEF Procs
    <2>2. lock' = lock
      BY <1>1 DEF WorkerStep, StartStep, Checks, SeesNoLock, InstallsRole, RegistersAdmin,
                  SetsContext, Flags, HookRaises, Shutdown, files
    <2>3. CASE Checks(w) \/ SeesNoLock(w) \/ Shutdown(w)
      <3>1. PICK at \in {"serve", "wait", "lock", "off"} : Goes(w, at)
        BY <2>3 DEF Checks, SeesNoLock, Shutdown
      <3>2. Became(w, at, proc[w].left, proc[w].held, proc[w].read)
        BY <2>1, <3>1, Becomes, Zenon
      <3> QED
        BY <2>1, <2>2, <3>1, <3>2 DEF Became, Inside
    <2>4. CASE ~(Checks(w) \/ SeesNoLock(w) \/ Shutdown(w))
      <3>1. proc[w].at \in Inside
        BY <1>1, <2>4 DEF WorkerStep, StartStep, InstallsRole, RegistersAdmin, SetsContext, Flags,
                          HookRaises, At, Inside
      <3>2. \E r : proc' = [proc EXCEPT ![w] = r]
        BY <1>1, <2>4 DEF WorkerStep, StartStep, InstallsRole, RegistersAdmin, SetsContext, Flags,
                          HookRaises, Goes
      <3> QED
        BY <2>1, <2>2, <3>1, <3>2 DEF Typed, ProcsFit
    <2> QED
      BY <2>3, <2>4
  <1>2. ASSUME NEW p \in Procs, CommonStep(p)
        PROVE  lock' = lock /\ \A v \in Workers : proc'[v].at \in Inside => proc[v].at \in Inside
    <2>1. lock' = lock
      BY <1>2, Zenon DEF CommonStep, Finds, Creates, GrantReads, GrantPuts, Registered, LoginReads,
                  Truncates, Fills, files
    <2>2. proc[p].at \in Inside
      BY <1>2, Zenon DEF CommonStep, Finds, Creates, GrantReads, GrantPuts, Registered, LoginReads,
                  Truncates, Fills, At, Inside
    <2>4. \E r : proc' = [proc EXCEPT ![p] = r]
      BY <1>2, Zenon DEF CommonStep, Finds, Creates, GrantReads, GrantPuts, Registered, LoginReads,
                  Truncates, Fills, Goes, Ends
    <2>3. \A q \in Procs : q # p => proc'[q] = proc[q]
      BY <2>4 DEF Typed, ProcsFit
    <2> QED
      BY <2>1, <2>2, <2>3 DEF Procs
  <1>3. ASSUME NEW t \in Threads, ThreadStep(t) \/ NewRequest(t)
        PROVE  lock' = lock /\ \A v \in Workers : proc'[v] = proc[v]
    <2>1. lock' = lock
      BY <1>3, Zenon DEF ThreadStep, NewRequest, Uses, Revokes, Registers, LogsIn, ReadsToRevoke, files
    <2>2. \E r : proc' = [proc EXCEPT ![t] = r]
      BY <1>3, Zenon DEF ThreadStep, NewRequest, Uses, Revokes, Registers, LogsIn, ReadsToRevoke, Goes, Ends
    <2>3. proc \in [Procs -> Proc] /\ t \notin Workers /\ Workers \subseteq Procs
      BY AccessAssumption DEF Typed, ProcsFit, Procs
    <2> QED
      BY <2>1, <2>2, <2>3
  <1>4. CASE PeopleStep \/ UNCHANGED vars
    BY <1>4 DEF PeopleStep, CreatesInvite, DeletesUser, vars, files
  <1> QED
    BY <1>1, <1>2, <1>3, <1>4

LEMMA OneInsideStep ==
  ASSUME Typed, RestsWhenDown, OneInside, [Next]_vars
  PROVE  OneInside'
  <1> SUFFICES ASSUME "raced" \notin disturbed'
               PROVE  /\ \A w \in Workers : proc'[w].at \in Inside => lock'
                      /\ \A w, v \in Workers :
                            proc'[w].at \in Inside /\ proc'[v].at \in Inside => w = v
    BY DEF OneInside
  <1>1. /\ \A w \in Workers : proc[w].at \in Inside => lock
        /\ \A w, v \in Workers : proc[w].at \in Inside /\ proc[v].at \in Inside => w = v
    BY DisturbedGrows DEF OneInside
  <1>2. CASE LauncherStep
    <2>1. CASE proc' = proc /\ server = "up" /\ server' = "stopping"
      BY <1>1, <1>2, <2>1 DEF LauncherStep, Launch, Kill, Stop, Down, files
    <2> QED
      BY <1>2, <2>1, LauncherLeaves DEF Inside
  <1>3. ASSUME NEW w \in Workers, Locks(w)
        PROVE  /\ lock' /\ ~lock
               /\ \A v \in Workers : v # w => proc'[v].at = proc[v].at
    <2>1. lock' /\ ~lock
      BY <1>3 DEF Locks, Disturb
    <2>2. proc \in [Procs -> Proc] /\ Workers \subseteq Procs
      BY DEF Typed, ProcsFit, Procs
    <2> QED
      BY <1>3, <2>1, <2>2 DEF Locks
  <1>4. ASSUME NEW w \in Workers, Unlocks(w)
        PROVE  \A v \in Workers : proc'[v].at \notin Inside
    <2>1. w \in Procs /\ Workers \subseteq Procs
      BY DEF Procs
    <2> DEFINE at == IF At(w, "unlock") /\ lock THEN "serve" ELSE "failed"
    <2>4. proc' = [proc EXCEPT ![w] = AtRest(at)]
      BY <1>4 DEF Unlocks
    <2>5. Became(w, at, << >>, {}, "empty")
      BY <2>1, <2>4, Becomes, Zenon
    <2>2. proc[w].at \in Inside /\ proc'[w].at \notin Inside
      BY <1>4, <2>5 DEF Unlocks, At, Inside, Became
    <2>3. \A v \in Workers : v # w => proc'[v] = proc[v]
      BY <2>1, <2>5 DEF Became
    <2> QED
      BY <1>1, <2>2, <2>3
  <1> QED
    BY <1>1, <1>2, <1>3, <1>4, InsideStays, NextIs

-----------------------------------------------------------------------------
(* The admin user and the admin role, once there, stay.                    *)
LEMMA AdminStays ==
  ASSUME Typed, HeldKeepsAdmin, [Next]_vars
  PROVE  /\ AdminRegistered => AdminRegistered'
         /\ Admin \in roles["admin-role"] => Admin \in roles'["admin-role"]
  <1>6. disturbed \subseteq disturbed'
    BY DisturbedGrows
  <1>1. CASE LauncherStep
    BY <1>1, <1>6 DEF LauncherStep, Launch, Kill, Stop, Down, store, AdminRegistered
  <1>2. ASSUME NEW w \in Workers, WorkerStep(w)
        PROVE  /\ users' = users
               /\ Admin \in roles["admin-role"] => Admin \in roles'["admin-role"]
    <2>1. CASE InstallsRole(w)
      BY <2>1 DEF InstallsRole, InstalledUsers, Typed, StoreFits, Roles
    <2> QED
      BY <1>2, <2>1 DEF WorkerStep, StartStep, Checks, SeesNoLock, Locks, RegistersAdmin,
                        SetsContext, Flags, Unlocks, HookRaises, Shutdown, store
  <1>3. ASSUME NEW p \in Procs, CommonStep(p)
        PROVE  /\ users \subseteq users'
               /\ Admin \in roles["admin-role"] => Admin \in roles'["admin-role"]
    <2>1. CASE GrantPuts(p)
      BY <2>1 DEF GrantPuts, HeldKeepsAdmin, Typed, StoreFits, Roles
    <2> QED
      BY <1>3, <2>1 DEF CommonStep, Finds, Creates, GrantReads, Registered, LoginReads,
                        Truncates, Fills, store
  <1>4. ASSUME NEW t \in Threads, ThreadStep(t) \/ NewRequest(t)
        PROVE  users' = users /\ roles' = roles
    BY <1>4, Zenon DEF ThreadStep, NewRequest, Uses, Revokes, Registers, LogsIn, ReadsToRevoke, store
  <1>5. CASE PeopleStep \/ UNCHANGED vars
    BY <1>5 DEF PeopleStep, CreatesInvite, DeletesUser, Disturb, AdminRegistered, vars
  <1> QED
    BY <1>1, <1>2, <1>3, <1>4, <1>5, <1>6, NextIs DEF AdminRegistered

(* A worker that does not move loses nothing of what it has done.          *)
LEMMA ProgressedStays ==
  ASSUME Typed, HeldKeepsAdmin, [Next]_vars, NEW w \in Workers, Progressed(proc[w]),
         proc'[w] = proc[w]
  PROVE  Progressed(proc[w])'
  BY AdminStays DEF Progressed

(* A worker inside gets further only by doing what it has to do.           *)
LEMMA WorkerProgresses ==
  ASSUME Typed, Progress, HeldKeepsAdmin, NEW w \in Workers, WorkerStep(w)
  PROVE  Progressed(proc[w])'
  <1> USE DEF Progressed, Inside, At
  <1>1. w \in Procs /\ [Next]_vars
    BY NextIs DEF Procs
  <1>2. Progressed(proc[w])
    BY DEF Progress
  <1>3. /\ AdminRegistered => AdminRegistered'
        /\ Admin \in roles["admin-role"] => Admin \in roles'["admin-role"]
    BY <1>1, AdminStays
  <1>4. CASE Locks(w)
    <2>1. AtRest("roles") \in Proc /\ AtRest("roles").at = "roles"
      BY RestFits DEF Fits, AtRest
    <2>2. proc[w] \in Proc /\ proc \in [Procs -> Proc]
      BY <1>1 DEF Typed, ProcsFit
    <2>3. proc'[w] = [AtRest("roles") EXCEPT !.left = InstalledRoles]
      BY <1>1, <1>4, <2>2 DEF Locks
    <2>4. proc'[w].at = "roles" /\ proc'[w].left = InstalledRoles
      BY <2>1, <2>3 DEF Proc
    <2> QED
      BY <2>4
  <1>5. CASE InstallsRole(w)
    <2> DEFINE left == Tail(proc[w].left)
    <2>1. proc' = [proc EXCEPT ![w].left = left]
      BY <1>5 DEF InstallsRole
    <2>2. Became(w, proc[w].at, left, proc[w].held, proc[w].read)
      BY <1>1, <2>1, Becomes, Zenon
    <2>3. proc[w].at = "roles" /\ proc[w].left # << >>
      BY <1>5 DEF InstallsRole
    <2>4. left \in {<<"reader-role", "inviter-role">>, <<"inviter-role">>, << >>}
      <3>1. proc[w].left \in {InstalledRoles, <<"reader-role", "inviter-role">>, <<"inviter-role">>}
        BY <1>2, <2>3
      <3>2. Tail(InstalledRoles) = <<"reader-role", "inviter-role">>
        BY DEF InstalledRoles
      <3>3. Tail(<<"reader-role", "inviter-role">>) = <<"inviter-role">>
        OBVIOUS
      <3>4. Tail(<<"inviter-role">>) = << >>
        OBVIOUS
      <3> QED
        BY <3>1, <3>2, <3>3, <3>4
    <2>5. Admin \in roles'["admin-role"]
      <3>1. CASE proc[w].left = InstalledRoles
        <4>1. Head(proc[w].left) = "admin-role"
          BY <3>1 DEF InstalledRoles
        <4> QED
          BY <1>5, <4>1 DEF InstallsRole, InstalledUsers, Typed, StoreFits, Roles
      <3> QED
        BY <1>2, <1>3, <2>3, <3>1
    <2> HIDE DEF left
    <2> QED
      BY <2>2, <2>3, <2>4, <2>5 DEF Became
  <1>6. CASE RegistersAdmin(w)
    <2>1. PICK at \in {"raise", "find"} : Goes(w, at)
      BY <1>6 DEF RegistersAdmin
    <2>2. Became(w, at, proc[w].left, proc[w].held, proc[w].read)
      BY <1>1, <2>1, Becomes, Zenon
    <2>3. Admin \in roles["admin-role"]
      BY <1>2, <1>6 DEF RegistersAdmin, InstalledRoles
    <2> QED
      BY <1>3, <2>2, <2>3 DEF Became
  <1>7. CASE SetsContext(w)
    <2>1. AdminRegistered /\ Admin \in roles["admin-role"]
      BY <1>2, <1>7 DEF SetsContext
    <2>2. PICK at \in {"raise", "flag", "rewrite"} : proc'[w].at = at
      <3>1. CASE Goes(w, "raise")
        <4>1. Became(w, "raise", proc[w].left, proc[w].held, proc[w].read)
          BY <1>1, <3>1, Becomes, Zenon
        <4> QED
          BY <4>1 DEF Became
      <3>2. CASE Goes(w, "flag")
        <4>1. Became(w, "flag", proc[w].left, proc[w].held, proc[w].read)
          BY <1>1, <3>2, Becomes, Zenon
        <4> QED
          BY <4>1 DEF Became
      <3>3. CASE proc' = [proc EXCEPT ![w].at = "rewrite", ![w].read = "ready"]
        <4>1. Became(w, "rewrite", proc[w].left, proc[w].held, "ready")
          BY <1>1, <3>3, Becomes, Zenon
        <4> QED
          BY <4>1 DEF Became
      <3> QED
        BY <1>7, <3>1, <3>2, <3>3 DEF SetsContext
    <2> QED
      BY <1>3, <2>1, <2>2
  <1>8. CASE Flags(w)
    <2>1. AdminRegistered /\ Admin \in roles["admin-role"]
      BY <1>2, <1>8 DEF Flags
    <2>2. Became(w, "unlock", proc[w].left, proc[w].held, proc[w].read)
      BY <1>1, <1>8, Becomes, Zenon DEF Flags
    <2> QED
      BY <1>3, <2>1, <2>2 DEF Became
  <1>9. CASE Unlocks(w)
    <2> DEFINE at == IF At(w, "unlock") /\ lock THEN "serve" ELSE "failed"
    <2>1. proc' = [proc EXCEPT ![w] = AtRest(at)]
      BY <1>9 DEF Unlocks
    <2>2. Became(w, at, << >>, {}, "empty")
      BY <1>1, <2>1, Becomes, Zenon
    <2> QED
      BY <2>2 DEF Became
  <1>10. CASE Checks(w) \/ SeesNoLock(w) \/ Shutdown(w) \/ HookRaises(w)
    <2>1. PICK at \in {"serve", "wait", "lock", "off", "raise"} : Goes(w, at)
      BY <1>10 DEF Checks, SeesNoLock, Shutdown, HookRaises
    <2>2. Became(w, at, proc[w].left, proc[w].held, proc[w].read)
      BY <1>1, <2>1, Becomes, Zenon
    <2> QED
      BY <2>2 DEF Became
  <1> QED
    BY <1>4, <1>5, <1>6, <1>7, <1>8, <1>9, <1>10 DEF WorkerStep, StartStep

(* ... also in the registration of the admin user and its login.           *)
LEMMA CommonProgresses ==
  ASSUME Typed, Progress, HeldKeepsAdmin, NEW w \in Workers, CommonStep(w)
  PROVE  Progressed(proc[w])'
  <1> USE DEF Progressed, Inside, At
  <1>1. w \in Procs /\ w \notin Threads /\ [Next]_vars
    BY NextIs, AccessAssumption DEF Procs
  <1>2. Progressed(proc[w]) /\ proc[w].user = Admin
    BY <1>1 DEF Progress, Typed, ProcsFit, Fits, WorkerFits
  <1>3. /\ AdminRegistered => AdminRegistered'
        /\ Admin \in roles["admin-role"] => Admin \in roles'["admin-role"]
    BY <1>1, AdminStays
  <1>4. Admin \in roles["admin-role"] /\ Admin \in roles'["admin-role"]
    BY <1>2, <1>3 DEF CommonStep, Finds, Creates, GrantReads, GrantPuts, Registered, LoginReads,
                      Truncates, Fills
  <1>5. CASE Finds(w)
    <2>1. CASE Goes(w, "create")
      <3>1. Became(w, "create", proc[w].left, proc[w].held, proc[w].read)
        BY <1>1, <2>1, Becomes, Zenon
      <3> QED
        BY <1>4, <3>1 DEF Became
    <2>2. CASE Goes(w, "login") /\ Admin \in users
      <3>1. Became(w, "login", proc[w].left, proc[w].held, proc[w].read)
        BY <1>1, <2>2, Becomes, Zenon
      <3> QED
        BY <1>3, <1>4, <2>2, <3>1 DEF Became, AdminRegistered
    <2> QED
      BY <1>1, <1>2, <1>5, <2>1, <2>2 DEF Finds
  <1>6. CASE Creates(w)
    <2>1. Became(w, "grant", Granted(w), proc[w].held, proc[w].read)
      BY <1>1, <1>6, Becomes, Zenon DEF Creates
    <2>2. AdminRegistered'
      BY <1>2, <1>6 DEF Creates, AdminRegistered
    <2> QED
      BY <1>4, <2>1, <2>2 DEF Became
  <1>7. CASE ~Finds(w) /\ ~Creates(w)
    <2>1. AdminRegistered'
      BY <1>2, <1>3, <1>7 DEF CommonStep, GrantReads, GrantPuts, Registered, LoginReads,
                              Truncates, Fills
    <2>2. proc'[w].at # "roles"
      <3>1. CASE GrantReads(w)
        <4>1. CASE proc' = [proc EXCEPT ![w].left = Tail(@)]
          <5> DEFINE left == Tail(proc[w].left)
          <5>1. proc' = [proc EXCEPT ![w].left = left]
            BY <4>1
          <5>2. Became(w, proc[w].at, left, proc[w].held, proc[w].read)
            BY <1>1, <5>1, Becomes, Zenon
          <5> QED
            BY <3>1, <5>2 DEF GrantReads, Became
        <4>2. CASE \E held : proc' = [proc EXCEPT ![w].at = "put", ![w].held = held]
          <5>1. PICK held : proc' = [proc EXCEPT ![w].at = "put", ![w].held = held]
            BY <4>2
          <5>2. Became(w, "put", proc[w].left, held, proc[w].read)
            BY <1>1, <5>1, Becomes, Zenon
          <5> QED
            BY <5>2 DEF Became
        <4> QED
          BY <3>1, <4>1, <4>2 DEF GrantReads
      <3>2. CASE GrantPuts(w)
        <4> DEFINE left == Tail(proc[w].left)
        <4>1. proc' = [proc EXCEPT ![w].at = "grant", ![w].left = left, ![w].held = {}]
          BY <3>2 DEF GrantPuts
        <4>2. Became(w, "grant", left, {}, proc[w].read)
          BY <1>1, <4>1, Becomes, Zenon
        <4> QED
          BY <4>2 DEF Became
      <3>3. CASE \E at \in {"login", "raise", "fill", "refill", "context", "flag"} : Goes(w, at)
        <4>1. PICK at \in {"login", "raise", "fill", "refill", "context", "flag"} : Goes(w, at)
          BY <3>3
        <4>2. Became(w, at, proc[w].left, proc[w].held, proc[w].read)
          BY <1>1, <4>1, Becomes, Zenon
        <4> QED
          BY <4>2 DEF Became
      <3>4. CASE proc' = [proc EXCEPT ![w].at = "truncate", ![w].read = conf]
        <4>1. Became(w, "truncate", proc[w].left, proc[w].held, conf)
          BY <1>1, <3>4, Becomes, Zenon
        <4> QED
          BY <4>1 DEF Became
      <3> QED
        BY <1>1, <1>7, <3>1, <3>2, <3>3, <3>4 DEF CommonStep, Registered, LoginReads, Truncates, Fills
    <2> QED
      BY <1>4, <2>1, <2>2
  <1> QED
    BY <1>5, <1>6, <1>7

LEMMA ProgressStep ==
  ASSUME Typed, RestsWhenDown, Progress, HeldKeepsAdmin, [Next]_vars
  PROVE  Progress'
  <1> SUFFICES ASSUME NEW w \in Workers PROVE Progressed(proc[w])'
    BY DEF Progress
  <1>1. Progressed(proc[w]) /\ w \in Procs /\ proc \in [Procs -> Proc]
    BY DEF Progress, Typed, ProcsFit, Procs
  <1>2. CASE proc'[w] = proc[w]
    BY <1>1, <1>2, ProgressedStays
  <1>3. CASE LauncherStep
    BY <1>2, <1>3, LauncherLeaves DEF Progressed, Inside
  <1>4. ASSUME NEW v \in Workers, WorkerStep(v)
        PROVE  Progressed(proc[w])'
    <2>1. CASE v # w
      <3>1. \E r : proc' = [proc EXCEPT ![v] = r]
        BY <1>4 DEF WorkerStep, StartStep, Checks, SeesNoLock, Locks, InstallsRole, RegistersAdmin,
                    SetsContext, Flags, Unlocks, HookRaises, Shutdown, Goes
      <3> QED
        BY <1>1, <1>2, <2>1, <3>1
    <2> QED
      BY <1>4, <2>1, WorkerProgresses
  <1>5. ASSUME NEW p \in Procs, CommonStep(p)
        PROVE  Progressed(proc[w])'
    <2>1. CASE p # w
      <3>1. \E r : proc' = [proc EXCEPT ![p] = r]
        BY <1>5 DEF CommonStep, Finds, Creates, GrantReads, GrantPuts, Registered, LoginReads,
                    Truncates, Fills, Goes, Ends
      <3> QED
        BY <1>1, <1>2, <2>1, <3>1
    <2> QED
      BY <1>5, <2>1, CommonProgresses
  <1>6. ASSUME NEW t \in Threads, ThreadStep(t) \/ NewRequest(t)
        PROVE  Progressed(proc[w])'
    <2>1. \E r : proc' = [proc EXCEPT ![t] = r]
      BY <1>6, Zenon DEF ThreadStep, NewRequest, Uses, Revokes, Registers, LogsIn, ReadsToRevoke, Goes, Ends
    <2>2. t # w
      BY AccessAssumption
    <2> QED
      BY <1>1, <1>2, <2>1, <2>2
  <1>7. CASE PeopleStep \/ UNCHANGED vars
    <2>1. proc' = proc
      BY <1>7, Zenon DEF PeopleStep, CreatesInvite, DeletesUser, vars
    <2> QED
      BY <1>2, <2>1
  <1> QED
    BY <1>3, <1>4, <1>5, <1>6, <1>7, NextIs

(* Where a step of a thread's own leaves it.                               *)
LEMMA ThreadMoves ==
  ASSUME Typed, NEW t \in Threads, ThreadStep(t) \/ NewRequest(t)
  PROVE  /\ proc'[t].at \in {"idle", "use", "revoke", "login", "find"}
         /\ \A q \in Procs : q # t => proc'[q] = proc[q]
         /\ ThreadStep(t) => ~At(t, "idle")
         /\ NewRequest(t) => Serving
  <1>1. proc \in [Procs -> Proc] /\ t \in Procs
    BY DEF Typed, ProcsFit, Procs
  <1>2. AtRest("use") \in Proc /\ AtRest("revoke") \in Proc
    BY DEF AtRest, Proc, People, ConfState
  <1>3. AtRest("use").at = "use" /\ AtRest("revoke").at = "revoke"
    BY DEF AtRest
  <1>4. \E r : proc' = [proc EXCEPT ![t] = r]
    BY Zenon DEF ThreadStep, NewRequest, Uses, Revokes, Registers, LogsIn, ReadsToRevoke, Goes, Ends
  <1>5. \A q \in Procs : q # t => proc'[q] = proc[q]
    BY <1>1, <1>4
  <1>6. CASE Goes(t, "find")
    <2>1. Became(t, "find", proc[t].left, proc[t].held, proc[t].read)
      BY <1>1, <1>6, Becomes, Zenon
    <2> QED
      BY <1>5, <2>1, Zenon DEF Became, ThreadStep, NewRequest, Uses, Revokes, Registers, LogsIn,
                        ReadsToRevoke, Request, At
  <1>7. CASE Ends(t) \/ LogsIn(t)
    <2>1. PICK at \in {"idle", "login"} : proc' = [proc EXCEPT ![t] = AtRest(at)]
      BY <1>7 DEF Ends, LogsIn
    <2>2. Became(t, at, << >>, {}, "empty")
      BY <1>1, <2>1, Becomes, Zenon
    <2> QED
      BY <1>5, <2>2, Zenon DEF Became, ThreadStep, NewRequest, Uses, Revokes, Registers, LogsIn,
                        ReadsToRevoke, Request, At
  <1>8. ASSUME NEW u \in People, NEW n \in DOMAIN invites, Registers(t, u, n)
        PROVE  proc'[t].at = "use"
    <2>1. proc'[t] = [[AtRest("use") EXCEPT !.user = u] EXCEPT !.nonce = n]
      BY <1>1, <1>8 DEF Registers
    <2> QED
      BY <1>2, <1>3, <2>1 DEF Proc
  <1>9. ASSUME NEW n \in DOMAIN invites, ReadsToRevoke(t, n)
        PROVE  proc'[t].at = "revoke"
    <2>1. proc'[t] = [[AtRest("revoke") EXCEPT !.nonce = n] EXCEPT !.used = invites[n].used]
      BY <1>1, <1>9 DEF ReadsToRevoke
    <2> QED
      BY <1>2, <1>3, <2>1 DEF Proc
  <1> QED
    BY <1>5, <1>6, <1>7, <1>8, <1>9, Zenon DEF ThreadStep, NewRequest, Uses, Revokes, Registers, LogsIn,
       ReadsToRevoke, Request, At

(* Where a step of the startup leaves the worker.                          *)
LEMMA WorkerMoves ==
  ASSUME Typed, NEW w \in Workers, WorkerStep(w)
  PROVE  /\ proc'[w].at \notin {"truncate", "fill", "put"}
         /\ \A q \in Procs : q # w => proc'[q] = proc[q]
         /\ proc'[w].at \in {"flag", "unlock", "serve"} =>
              Relied \/ (At(w, "context") /\ conf = "ready" /\ proc'[w].at = "flag")
  <1>1. w \in Procs /\ proc \in [Procs -> Proc]
    BY DEF Typed, ProcsFit, Procs
  <1>2. \A q \in Procs : q # w => proc'[q] = proc[q]
    <2>1. \E r : proc' = [proc EXCEPT ![w] = r]
      BY DEF WorkerStep, StartStep, Checks, SeesNoLock, Locks, InstallsRole, RegistersAdmin,
             SetsContext, Flags, Unlocks, HookRaises, Shutdown, Goes
    <2> QED
      BY <1>1, <2>1
  <1>3. CASE \E at \in {"wait", "lock", "off", "raise", "find"} : Goes(w, at)
    <2>1. PICK at \in {"wait", "lock", "off", "raise", "find"} : Goes(w, at)
      BY <1>3
    <2>2. Became(w, at, proc[w].left, proc[w].held, proc[w].read)
      BY <1>1, <2>1, Becomes, Zenon
    <2> QED
      BY <1>2, <2>2 DEF Became
  <1>4. CASE (Checks(w) \/ SeesNoLock(w)) /\ Goes(w, "serve")
    <2>1. Became(w, "serve", proc[w].left, proc[w].held, proc[w].read)
      BY <1>1, <1>4, Becomes, Zenon
    <2>2. done
      <3>1. CASE ~done
        <4>1. Goes(w, "wait") \/ Goes(w, "lock")
          BY <1>4, <3>1 DEF Checks, SeesNoLock
        <4>2. proc'[w].at \in {"wait", "lock"}
          <5>1. PICK at \in {"wait", "lock"} : Goes(w, at)
            BY <4>1
          <5>2. Became(w, at, proc[w].left, proc[w].held, proc[w].read)
            BY <1>1, <5>1, Becomes, Zenon
          <5> QED
            BY <5>2 DEF Became
        <4> QED
          BY <2>1, <4>2 DEF Became
      <3> QED
        BY <3>1
    <2> QED
      BY <1>2, <2>1, <2>2 DEF Became, Relied
  <1>5. CASE InstallsRole(w)
    <2> DEFINE left == Tail(proc[w].left)
    <2>1. proc' = [proc EXCEPT ![w].left = left]
      BY <1>5 DEF InstallsRole
    <2>2. Became(w, proc[w].at, left, proc[w].held, proc[w].read)
      BY <1>1, <2>1, Becomes, Zenon
    <2> QED
      BY <1>2, <1>5, <2>2 DEF Became, InstallsRole, At
  <1>6. CASE Locks(w)
    <2>1. AtRest("roles") \in Proc /\ AtRest("roles").at = "roles"
      BY RestFits DEF Fits, AtRest
    <2>2. proc'[w] = [AtRest("roles") EXCEPT !.left = InstalledRoles]
      BY <1>1, <1>6 DEF Locks
    <2>3. proc'[w].at = "roles"
      BY <2>1, <2>2 DEF Proc
    <2> QED
      BY <1>2, <2>3
  <1>7. CASE SetsContext(w) /\ ~Goes(w, "raise")
    <2>1. CASE proc' = [proc EXCEPT ![w].at = "rewrite", ![w].read = "ready"]
      <3>1. Became(w, "rewrite", proc[w].left, proc[w].held, "ready")
        BY <1>1, <2>1, Becomes, Zenon
      <3> QED
        BY <1>2, <3>1 DEF Became
    <2>2. CASE Goes(w, "flag") /\ conf = "ready"
      <3>1. Became(w, "flag", proc[w].left, proc[w].held, proc[w].read)
        BY <1>1, <2>2, Becomes, Zenon
      <3> QED
        BY <1>2, <1>7, <2>2, <3>1 DEF Became, SetsContext
    <2> QED
      BY <1>7, <2>1, <2>2 DEF SetsContext
  <1>8. CASE Flags(w)
    <2>1. Became(w, "unlock", proc[w].left, proc[w].held, proc[w].read)
      BY <1>1, <1>8, Becomes, Zenon DEF Flags
    <2> QED
      BY <1>2, <1>8, <2>1 DEF Became, Flags, At, Relied
  <1>9. CASE Unlocks(w)
    <2> DEFINE at == IF At(w, "unlock") /\ lock THEN "serve" ELSE "failed"
    <2>1. proc' = [proc EXCEPT ![w] = AtRest(at)]
      BY <1>9 DEF Unlocks
    <2>2. Became(w, at, << >>, {}, "empty")
      BY <1>1, <2>1, Becomes, Zenon
    <2> QED
      BY <1>2, <2>2 DEF Became, At, Relied
  <1> QED
    BY <1>3, <1>4, <1>5, <1>6, <1>7, <1>8, <1>9 DEF WorkerStep, StartStep, Checks, SeesNoLock,
       RegistersAdmin, HookRaises, Shutdown

(* What a login reads is what it writes, and where it leads to.            *)
LEMMA CommonMoves ==
  ASSUME Typed, NEW p \in Procs, CommonStep(p)
  PROVE  /\ \A q \in Procs : q # p => proc'[q] = proc[q]
         /\ proc'[p].at = "truncate" => proc'[p].read = conf /\ conf # "empty"
         /\ proc'[p].at = "fill" => At(p, "truncate") /\ proc'[p].read = proc[p].read
         /\ proc'[p].at \in {"flag", "unlock", "serve"} => At(p, "refill") /\ Fills(p)
         /\ ~At(p, "idle")
  <1>1. proc \in [Procs -> Proc]
    BY DEF Typed, ProcsFit
  <1>2. /\ \A q \in Procs : q # p => proc'[q] = proc[q]
        /\ ~At(p, "idle")
    <2>1. \E r : proc' = [proc EXCEPT ![p] = r]
      BY DEF CommonStep, Finds, Creates, GrantReads, GrantPuts, Registered, LoginReads,
             Truncates, Fills, Goes, Ends
    <2>2. ~At(p, "idle")
      BY DEF CommonStep, Finds, Creates, GrantReads, GrantPuts, Registered, LoginReads,
             Truncates, Fills, At
    <2> QED
      BY <1>1, <2>1, <2>2
  <1>3. CASE \E at \in {"create", "login", "raise", "refill", "context"} : Goes(p, at)
    <2>1. PICK at \in {"create", "login", "raise", "refill", "context"} : Goes(p, at)
      BY <1>3
    <2>2. Became(p, at, proc[p].left, proc[p].held, proc[p].read)
      BY <2>1, Becomes, Zenon
    <2> QED
      BY <1>2, <2>2 DEF Became
  <1>4. CASE Goes(p, "fill") /\ At(p, "truncate")
    <2>1. Became(p, "fill", proc[p].left, proc[p].held, proc[p].read)
      BY <1>4, Becomes, Zenon
    <2> QED
      BY <1>2, <1>4, <2>1 DEF Became
  <1>5. CASE Goes(p, "flag") /\ At(p, "refill") /\ Fills(p)
    <2>1. Became(p, "flag", proc[p].left, proc[p].held, proc[p].read)
      BY <1>5, Becomes, Zenon
    <2> QED
      BY <1>2, <1>5, <2>1 DEF Became
  <1>6. CASE Ends(p)
    <2>1. Became(p, "idle", << >>, {}, "empty")
      BY <1>6, Becomes, Zenon DEF Ends
    <2> QED
      BY <1>2, <2>1 DEF Became
  <1>7. CASE Creates(p)
    <2>1. Became(p, "grant", Granted(p), proc[p].held, proc[p].read)
      BY <1>7, Becomes, Zenon DEF Creates
    <2> QED
      BY <1>2, <2>1 DEF Became
  <1>8. CASE GrantPuts(p)
    <2> DEFINE left == Tail(proc[p].left)
    <2>1. proc' = [proc EXCEPT ![p].at = "grant", ![p].left = left, ![p].held = {}]
      BY <1>8 DEF GrantPuts
    <2>2. Became(p, "grant", left, {}, proc[p].read)
      BY <2>1, Becomes, Zenon
    <2> QED
      BY <1>2, <2>2 DEF Became
  <1>9. CASE GrantReads(p)
    <2> DEFINE left == Tail(proc[p].left)
    <2>1. CASE proc' = [proc EXCEPT ![p].left = left]
      <3>1. Became(p, proc[p].at, left, proc[p].held, proc[p].read)
        BY <2>1, Becomes, Zenon
      <3> QED
        BY <1>2, <1>9, <3>1 DEF Became, GrantReads, At
    <2>2. CASE \E held : proc' = [proc EXCEPT ![p].at = "put", ![p].held = held]
      <3>1. PICK held : proc' = [proc EXCEPT ![p].at = "put", ![p].held = held]
        BY <2>2
      <3>2. Became(p, "put", proc[p].left, held, proc[p].read)
        BY <3>1, Becomes, Zenon
      <3> QED
        BY <1>2, <3>2 DEF Became
    <2> QED
      BY <1>9, <2>1, <2>2 DEF GrantReads
  <1>10. CASE proc' = [proc EXCEPT ![p].at = "truncate", ![p].read = conf] /\ conf # "empty"
    <2>1. Became(p, "truncate", proc[p].left, proc[p].held, conf)
      BY <1>10, Becomes, Zenon
    <2> QED
      BY <1>2, <1>10, <2>1 DEF Became
  <1> QED
    BY <1>3, <1>4, <1>5, <1>6, <1>7, <1>8, <1>9, <1>10 DEF CommonStep, Finds, Registered,
       LoginReads, Truncates, Fills

(* Whoever is about to put back the admin role has read it with the admin  *)
(* user in it, which is there before anybody grants roles.                 *)
LEMMA HeldStep ==
  ASSUME Typed, RestsWhenDown, Progress, HeldKeepsAdmin, Relied => Primed, [Next]_vars
  PROVE  HeldKeepsAdmin'
  <1> SUFFICES ASSUME NEW q \in Procs, proc'[q].at = "put", Head(proc'[q].left) = "admin-role"
               PROVE  Admin \in proc'[q].held
    BY DEF HeldKeepsAdmin, At
  <1>1. proc \in [Procs -> Proc] /\ Workers \subseteq Procs /\ Threads \subseteq Procs
    BY DEF Typed, ProcsFit, Procs
  <1>2. CASE proc'[q] = proc[q]
    BY <1>2 DEF HeldKeepsAdmin, At
  <1>3. CASE LauncherStep
    BY <1>2, <1>3, LauncherLeaves DEF Procs
  <1>4. ASSUME NEW w \in Workers, WorkerStep(w)
        PROVE  Admin \in proc'[q].held
    BY <1>2, <1>4, WorkerMoves
  <1>5. ASSUME NEW p \in Procs, CommonStep(p)
        PROVE  Admin \in proc'[q].held
    <2>1. \E r : proc' = [proc EXCEPT ![p] = r]
      BY <1>5 DEF CommonStep, Finds, Creates, GrantReads, GrantPuts, Registered, LoginReads,
                  Truncates, Fills, Goes, Ends
    <2>2. CASE q = p
      <3>1. CASE \E at \in {"create", "login", "raise", "fill", "refill", "context", "flag"} :
                    Goes(p, at)
        <4>1. PICK at \in {"create", "login", "raise", "fill", "refill", "context", "flag"} :
                    Goes(p, at)
          BY <3>1
        <4>2. Became(p, at, proc[p].left, proc[p].held, proc[p].read)
          BY <4>1, Becomes, Zenon
        <4> QED
          BY <2>2, <4>2 DEF Became
      <3>2. CASE Ends(p)
        <4>1. Became(p, "idle", << >>, {}, "empty")
          BY <3>2, Becomes, Zenon DEF Ends
        <4> QED
          BY <2>2, <4>1 DEF Became
      <3>3. CASE Creates(p)
        <4>1. Became(p, "grant", Granted(p), proc[p].held, proc[p].read)
          BY <3>3, Becomes, Zenon DEF Creates
        <4> QED
          BY <2>2, <4>1 DEF Became
      <3>4. CASE GrantPuts(p)
        <4> DEFINE left == Tail(proc[p].left)
        <4>1. proc' = [proc EXCEPT ![p].at = "grant", ![p].left = left, ![p].held = {}]
          BY <3>4 DEF GrantPuts
        <4>2. Became(p, "grant", left, {}, proc[p].read)
          BY <4>1, Becomes, Zenon
        <4> QED
          BY <2>2, <4>2 DEF Became
      <3>5. CASE proc' = [proc EXCEPT ![p].at = "truncate", ![p].read = conf]
        <4>1. Became(p, "truncate", proc[p].left, proc[p].held, conf)
          BY <3>5, Becomes, Zenon
        <4> QED
          BY <2>2, <4>1 DEF Became
      <3>6. CASE GrantReads(p)
        <4> DEFINE r == Head(proc[p].left)
                   held == roles[r] \cup {proc[p].user}
                   left == Tail(proc[p].left)
        <4>1. CASE proc' = [proc EXCEPT ![p].left = left]
          <5>1. Became(p, proc[p].at, left, proc[p].held, proc[p].read)
            BY <4>1, Becomes, Zenon
          <5> QED
            BY <2>2, <3>6, <5>1 DEF Became, GrantReads, At
        <4>2. CASE proc' = [proc EXCEPT ![p].at = "put", ![p].held = held]
          <5>1. Became(p, "put", proc[p].left, held, proc[p].read)
            BY <4>2, Becomes, Zenon
          <5>2. Admin \in roles["admin-role"]
            <6>1. CASE p \in Workers
              BY <3>6, <6>1 DEF GrantReads, At, Progress, Progressed, Inside
            <6>2. CASE p \in Threads
              BY <3>6, <6>2 DEF GrantReads, At, Relied, Primed
            <6> QED
              BY <6>1, <6>2 DEF Procs
          <5> QED
            BY <2>2, <5>1, <5>2 DEF Became
        <4> QED
          BY <3>6, <4>1, <4>2 DEF GrantReads
      <3> QED
        BY <1>5, <3>1, <3>2, <3>3, <3>4, <3>5, <3>6 DEF CommonStep, Finds, Registered, LoginReads,
           Truncates, Fills
    <2> QED
      BY <1>1, <1>2, <2>1, <2>2
  <1>6. ASSUME NEW t \in Threads, ThreadStep(t) \/ NewRequest(t)
        PROVE  Admin \in proc'[q].held
    BY <1>2, <1>6, ThreadMoves
  <1>7. CASE PeopleStep \/ UNCHANGED vars
    <2>1. proc' = proc
      BY <1>7 DEF PeopleStep, CreatesInvite, DeletesUser, vars
    <2> QED
      BY <1>2, <2>1
  <1> QED
    BY <1>3, <1>4, <1>5, <1>6, <1>7, NextIs

(* Whatever makes somebody take the initialisation for done comes after    *)
(* the admin user, its role and the current context.                       *)
LEMMA ReliedStep ==
  ASSUME Typed, RestsWhenDown, OneInside, Clean, Progress, HeldKeepsAdmin,
         Relied => Primed /\ Settled,
         [Next]_vars, Clean', Relied'
  PROVE  Primed' /\ Settled'
  <1>1. \A p \in Procs : Fits(p, proc[p], DOMAIN invites)
    BY DEF Typed, ProcsFit
  <1>2. CASE LauncherStep
    <2>1. CASE proc' = proc /\ server = "up" /\ server' = "stopping"
      BY <1>2, <2>1, AdminStays DEF LauncherStep, Launch, Kill, Stop, Down, files, Relied, Primed,
                                    Settled, At
    <2>2. CASE ~(proc' = proc /\ server = "up" /\ server' = "stopping")
      <3>1. /\ \A w \in Workers : proc'[w].at \in {"off", "check"}
            /\ \A t \in Threads : proc'[t].at = "idle"
        BY <1>2, <2>2, LauncherLeaves
      <3>2. done'
        BY <3>1 DEF Relied, At
      <3>3. done /\ conf' = conf
        <4>1. ASSUME NEW elsewhere \in BOOLEAN, NEW reset \in BOOLEAN, NEW started \in Crews,
                     Launch(elsewhere, reset, started)
              PROVE  done /\ conf' = conf
          <5>1. secret' = secret
            BY <3>2, <4>1 DEF Launch, Disturb, Clean
          <5> QED
            BY <3>2, <4>1, <5>1 DEF Launch, GeneratesConfig, Typed, StoreFits
        <4> QED
          BY <1>2, <3>2, <4>1 DEF LauncherStep, Kill, Stop, Down, files
      <3>4. Primed /\ Settled
        BY <3>3 DEF Relied
      <3> QED
        BY <3>1, <3>3, <3>4, AdminStays DEF Primed, Settled, Procs
    <2> QED
      BY <2>1, <2>2
  <1>3. ASSUME NEW w \in Workers, WorkerStep(w)
        PROVE  Primed' /\ Settled'
    <2>1. conf' = conf /\ w \in Procs
      BY <1>3 DEF WorkerStep, StartStep, Checks, SeesNoLock, Locks, InstallsRole, RegistersAdmin,
                  SetsContext, Flags, Unlocks, HookRaises, Shutdown, files, Procs
    <2>2. CASE Relied
      BY <1>3, <2>1, <2>2, WorkerMoves, AdminStays DEF Primed, Settled
    <2>3. CASE ~Relied
      <3>1. done' => done
        BY <1>3, <2>3 DEF WorkerStep, StartStep, Checks, SeesNoLock, Locks, InstallsRole,
              RegistersAdmin, SetsContext, Flags, Unlocks, HookRaises, Shutdown, files, Relied, At
      <3>2. \A t \in Threads : proc'[t].at = "idle" /\ t \in Procs /\ t # w
        BY <1>3, <2>3, WorkerMoves, AccessAssumption DEF Relied, At, Procs
      <3>3. proc'[w].at \in {"flag", "unlock", "serve"}
        BY <1>3, <2>3, <3>1, <3>2, WorkerMoves DEF Relied, At, Procs
      <3>4. At(w, "context") /\ conf = "ready"
        BY <1>3, <2>3, <3>3, WorkerMoves
      <3>5. Primed
        BY <3>4 DEF Progress, Progressed, Inside, At, Primed
      <3>6. \A v \in Workers : v # w => proc[v].at \notin {"truncate", "fill"}
        BY <3>4 DEF OneInside, Clean, At, Inside
      <3> QED
        BY <1>3, <2>1, <3>2, <3>4, <3>5, <3>6, WorkerMoves, AdminStays DEF Primed, Settled, Procs
    <2> QED
      BY <2>2, <2>3
  <1>4. ASSUME NEW p \in Procs, CommonStep(p)
        PROVE  Primed' /\ Settled'
    <2>1. \/ conf' = conf
          \/ conf' = "empty"
          \/ conf' = proc[p].read /\ (At(p, "fill") \/ At(p, "refill"))
      BY <1>4 DEF CommonStep, Finds, Creates, GrantReads, GrantPuts, Registered, LoginReads,
                  Truncates, Fills, files
    <2>2. At(p, "refill") => p \in Workers /\ proc[p].read = "ready"
      BY <1>1 DEF At, Fits, WorkerFits, ThreadFits, Busy, Procs
    <2>3. CASE Relied
      <3>1. conf' \in {"ready", "empty"}
        BY <2>1, <2>2, <2>3 DEF Settled, At
      <3>2. \A q \in Procs : proc'[q].at \in {"truncate", "fill"} => proc'[q].read = "ready"
        BY <1>4, <2>3, CommonMoves DEF Settled, At
      <3> QED
        BY <2>3, <3>1, <3>2, AdminStays DEF Primed, Settled
    <2>4. CASE ~Relied
      <3>1. done' = done
        BY <1>4 DEF CommonStep, Finds, Creates, GrantReads, GrantPuts, Registered, LoginReads,
                    Truncates, Fills, files
      <3>2. p \in Workers /\ p \notin Threads
        BY <1>4, <2>4, CommonMoves, AccessAssumption DEF Relied, Procs
      <3>3. \A t \in Threads : proc'[t].at = "idle" /\ t \in Procs
        BY <1>4, <2>4, <3>2, CommonMoves DEF Relied, At, Procs
      <3>4. proc'[p].at \in {"flag", "unlock", "serve"}
        BY <1>4, <2>4, <3>1, <3>3, CommonMoves DEF Relied, At, Procs
      <3>5. At(p, "refill") /\ Fills(p)
        BY <1>4, <3>4, CommonMoves
      <3>6. Primed
        BY <3>2, <3>5 DEF Progress, Progressed, Inside, At, Primed
      <3>7. conf' \in {"ready", "empty"}
        BY <2>2, <3>5 DEF Fills
      <3>8. \A v \in Workers : v # p => proc[v].at \notin {"truncate", "fill"}
        BY <3>2, <3>5 DEF OneInside, Clean, At, Inside
      <3> QED
        BY <1>4, <3>3, <3>4, <3>6, <3>7, <3>8, CommonMoves, AdminStays DEF Primed, Settled, Procs
    <2> QED
      BY <2>3, <2>4
  <1>5. ASSUME NEW t \in Threads, ThreadStep(t) \/ NewRequest(t)
        PROVE  Primed' /\ Settled'
    <2>1. Relied
      BY <1>5, ThreadMoves DEF Relied, Serving, At
    <2>2. conf' = conf
      BY <1>5, Zenon DEF ThreadStep, NewRequest, Uses, Revokes, Registers, LogsIn, ReadsToRevoke, files
    <2> QED
      BY <1>5, <2>1, <2>2, ThreadMoves, AdminStays DEF Primed, Settled, Procs
  <1>6. CASE PeopleStep \/ UNCHANGED vars
    <2>1. proc' = proc /\ conf' = conf /\ done' = done
      BY <1>6 DEF PeopleStep, CreatesInvite, DeletesUser, vars, files
    <2>2. Relied
      BY <2>1 DEF Relied, At
    <2> QED
      BY <2>1, <2>2, AdminStays DEF Primed, Settled
  <1> QED
    BY <1>2, <1>3, <1>4, <1>5, <1>6, NextIs

LEMMA InstallationStep == Typed /\ Installation /\ [Next]_vars => Installation'
  <1> SUFFICES ASSUME Typed, Installation, [Next]_vars PROVE Installation'
    OBVIOUS
  <1>1. RestsWhenDown' /\ OneInside'
    BY RestsStep, OneInsideStep DEF Installation
  <1>2. ASSUME Clean'
        PROVE  Progress' /\ HeldKeepsAdmin' /\ (Relied' => Primed' /\ Settled')
    <2>1. Clean
      BY <1>2, DisturbedGrows DEF Clean
    <2> QED
      BY <1>2, <2>1, ProgressStep, HeldStep, ReliedStep DEF Installation
  <1> QED
    BY <1>1, <1>2 DEF Installation

LEMMA InitInstallation == Init => Installation
  <1> SUFFICES ASSUME Init PROVE Installation
    OBVIOUS
  <1>1. \A at : AtRest(at).at = at
    BY DEF AtRest
  <1>2. /\ \A w \in Workers : proc[w].at = "off"
        /\ \A t \in Threads : proc[t].at = "idle"
    BY <1>1, AccessAssumption DEF Init, Procs
  <1>3. ~Relied
    BY <1>2 DEF Init, Relied, At
  <1>4. RestsWhenDown /\ OneInside /\ Progress
    BY <1>2 DEF RestsWhenDown, OneInside, Progress, Progressed, Inside, At
  <1>5. HeldKeepsAdmin
    BY <1>2 DEF HeldKeepsAdmin, At, Procs
  <1> QED
    BY <1>3, <1>4, <1>5 DEF Installation

-----------------------------------------------------------------------------
(* The configuration is unreadable only while it is written, or since two  *)
(* have written over one another, or one was killed while it wrote.        *)
ReadsAreWhole ==
  \A p \in Procs : proc[p].at \in {"truncate", "fill"} => proc[p].read # "empty"
EmptyIsTold == conf = "empty" => (\E p \in Procs : Writes(p)) \/ "torn" \in disturbed

\* Who is about to write comes from what was read of a whole configuration.
LEMMA ReadsAreWholeStep ==
  ASSUME Typed, RestsWhenDown, ReadsAreWhole, [Next]_vars
  PROVE  ReadsAreWhole'
  <1>1. Workers \subseteq Procs /\ Threads \subseteq Procs
    BY DEF Procs
  <1>2. CASE LauncherStep
    BY <1>1, <1>2, LauncherLeaves DEF ReadsAreWhole, Procs
  <1>3. ASSUME NEW w \in Workers, WorkerStep(w)
        PROVE  ReadsAreWhole'
    BY <1>1, <1>3, WorkerMoves DEF ReadsAreWhole
  <1>4. ASSUME NEW p \in Procs, CommonStep(p)
        PROVE  ReadsAreWhole'
    <2>1. /\ \A q \in Procs : q # p => proc'[q] = proc[q]
          /\ proc'[p].at = "truncate" => proc'[p].read # "empty"
          /\ proc'[p].at = "fill" => proc[p].at = "truncate" /\ proc'[p].read = proc[p].read
      BY <1>4, CommonMoves DEF At
    <2>2. \A q \in Procs : q # p /\ proc'[q].at \in {"truncate", "fill"} => proc'[q].read # "empty"
      BY <2>1 DEF ReadsAreWhole
    <2>3. proc'[p].at \in {"truncate", "fill"} => proc'[p].read # "empty"
      BY <2>1 DEF ReadsAreWhole
    <2> QED
      BY <2>2, <2>3 DEF ReadsAreWhole
  <1>5. ASSUME NEW t \in Threads, ThreadStep(t) \/ NewRequest(t)
        PROVE  ReadsAreWhole'
    BY <1>1, <1>5, ThreadMoves DEF ReadsAreWhole
  <1>6. CASE PeopleStep \/ UNCHANGED vars
    BY <1>6 DEF PeopleStep, CreatesInvite, DeletesUser, vars, ReadsAreWhole
  <1> QED
    BY <1>2, <1>3, <1>4, <1>5, <1>6, NextIs

\* Who truncates is about to fill, and who fills what another has filled tears.
LEMMA EmptyIsToldStep ==
  ASSUME Typed, RestsWhenDown, ReadsAreWhole, EmptyIsTold, [Next]_vars
  PROVE  EmptyIsTold'
  <1> SUFFICES ASSUME conf' = "empty", "torn" \notin disturbed'
               PROVE  \E p \in Procs : proc'[p].at \in {"fill", "refill"}
    BY DEF EmptyIsTold, Writes
  <1>1. /\ conf = "empty" => \E p \in Procs : Writes(p)
        /\ Workers \subseteq Procs /\ Threads \subseteq Procs
        /\ proc \in [Procs -> Proc]
    BY DisturbedGrows DEF EmptyIsTold, Procs, Typed, ProcsFit
  <1>2. CASE LauncherStep
    <2>1. \A elsewhere, reset \in BOOLEAN, started \in Crews : ~Launch(elsewhere, reset, started)
      BY DEF Launch, GeneratesConfig
    <2>2. CASE Kill
      BY <1>1, <2>2 DEF Kill, Disturb, files
    <2>3. CASE Stop
      BY <1>1, <2>3 DEF Stop, files, Writes
    <2>4. ~Down
      BY <1>1 DEF Down, files, Writes, At, Procs
    <2> QED
      BY <1>2, <2>1, <2>2, <2>3, <2>4 DEF LauncherStep
  <1>3. ASSUME NEW w \in Workers, WorkerStep(w)
        PROVE  \E p \in Procs : proc'[p].at \in {"fill", "refill"}
    <2>1. conf' = conf /\ ~Writes(w)
      BY <1>3 DEF WorkerStep, StartStep, Checks, SeesNoLock, Locks, InstallsRole, RegistersAdmin,
                  SetsContext, Flags, Unlocks, HookRaises, Shutdown, files, Writes, At
    <2> QED
      BY <1>1, <1>3, <2>1, WorkerMoves DEF Writes
  <1>4. ASSUME NEW p \in Procs, CommonStep(p)
        PROVE  \E q \in Procs : proc'[q].at \in {"fill", "refill"}
    <2>1. CASE Truncates(p)
      <3>1. PICK at \in {"fill", "refill"} : Goes(p, at)
        BY <2>1 DEF Truncates
      <3>2. Became(p, at, proc[p].left, proc[p].held, proc[p].read)
        BY <3>1, Becomes, Zenon
      <3> QED
        BY <3>1, <3>2 DEF Became
    <2>2. ~Fills(p)
      <3>1. At(p, "fill") \/ At(p, "refill") => proc[p].read # "empty"
        BY DEF At, ReadsAreWhole, Typed, ProcsFit, Fits, WorkerFits, ThreadFits, Busy, Procs
      <3> QED
        BY <3>1 DEF Fills, Disturb
    <2>3. CASE ~Truncates(p) /\ ~Fills(p)
      <3>1. conf' = conf /\ ~Writes(p)
        BY <1>4, <2>3, Zenon DEF CommonStep, Finds, Creates, GrantReads, GrantPuts, Registered, LoginReads,
                           files, store, Writes, At
      <3> QED
        BY <1>1, <1>4, <3>1, CommonMoves DEF Writes
    <2> QED
      BY <2>1, <2>2, <2>3
  <1>5. ASSUME NEW t \in Threads, ThreadStep(t) \/ NewRequest(t)
        PROVE  \E p \in Procs : proc'[p].at \in {"fill", "refill"}
    <2>1. conf' = conf
      BY <1>5, Zenon DEF ThreadStep, NewRequest, Uses, Revokes, Registers, LogsIn, ReadsToRevoke, files
    <2>2. ~Writes(t)
      BY <1>5 DEF ThreadStep, NewRequest, Uses, Revokes, Registers, LogsIn, ReadsToRevoke, Request,
                  Writes, At
    <2> QED
      BY <1>1, <1>5, <2>1, <2>2, ThreadMoves DEF Writes
  <1>6. CASE PeopleStep \/ UNCHANGED vars
    BY <1>1, <1>6 DEF PeopleStep, CreatesInvite, DeletesUser, vars, files, Writes
  <1> QED
    BY <1>2, <1>3, <1>4, <1>5, <1>6, NextIs

(* Whoever reaches a worker that serves finds the admin user, its role and *)
(* a configuration: check_or_wait_initialization keeps the workers back    *)
(* until the hook of one of them is through, whatever is killed, stopped,  *)
(* launched again or raises in between.  And the configuration is whole or *)
(* being written.  The exceptions are those that the property names.       *)
THEOREM ServesWhenInstalled == Spec => []AccessIsSound
  <1> DEFINE Inv == Typed /\ Installation /\ ReadsAreWhole /\ EmptyIsTold
  <1>1. Inv => AccessIsSound
    BY TypedIsTypeOK DEF Installation, AccessIsSound, ServingMeansInstalled, Serving, Relied,
                         Clean, Primed, AdminRegistered, Settled, EmptyIsTold, At
  <1>2. Init => Inv
    <2>1. Init => ReadsAreWhole /\ EmptyIsTold
      BY DEF Init, ReadsAreWhole, EmptyIsTold, AtRest
    <2> QED
      BY <2>1, InitTyped, InitInstallation
  <1>3. Inv /\ [Next]_vars => Inv'
    BY NextTyped, InstallationStep, ReadsAreWholeStep, EmptyIsToldStep DEF Installation
  <1> QED
    BY <1>1, <1>2, <1>3, PTL DEF Spec

-----------------------------------------------------------------------------
(* What a registration rests on: as long as no two grants of a role have   *)
(* overlapped, and no restart has rewritten the roles, nobody who has      *)
(* registered loses a role, and the admin user stays an admin.             *)
Unharmed == disturbed \cap {"overlapped", "reinstalled"} = {}

\* The admin role is there before anything is done that rests on it.
AdminIsNeeded ==
  \/ done \/ invites # << >>
  \/ \E t \in Threads : ~At(t, "idle")
  \/ \E w \in Workers : \/ proc[w].at \in {"serve", "find", "create", "grant", "put", "login",
                                           "truncate", "fill", "context", "rewrite", "refill",
                                           "flag", "unlock"}
                        \/ At(w, "roles") /\ proc[w].left # InstalledRoles

AdminIsThere == AdminIsNeeded => Admin \in roles["admin-role"]

Puts(p, r) == At(p, "put") /\ Head(proc[p].left) = r

OnePutEach == \A p, q \in Procs, r \in Roles : Puts(p, r) /\ Puts(q, r) => p = q

\* What is about to be put back has what is there by now; but for the admin
\* user, who may have been installed meanwhile and needs the admin role only.
HeldCovers ==
  \A p \in Procs, r \in Roles :
    Puts(p, r) => \A u \in roles[r] : u \in Users \/ r = "admin-role" => u \in proc[p].held

\* The inviter goes on holding the roles of the invite.
Stands(u, r) == u \in roles["admin-role"] \/ (u \in Users /\ u \in roles[r])
InvitesStand == \A n \in DOMAIN invites : \A r \in ToSet(invites[n].roles) : Stands(invites[n].by, r)

\* What has not been granted yet of a registration is still to be granted.
\* (What is granted to a new user of the name of the admin, the hook may take.)
Owed(t) ==
  proc[t].at \in {"grant", "put"} =>
    /\ ToSet(proc[t].left) \subseteq ToSet(invites[proc[t].nonce].roles)
    /\ proc[t].user # Admin =>
         \A r \in ToSet(invites[proc[t].nonce].roles) :
           proc[t].user \in roles[r] \/ r \in ToSet(proc[t].left)
Registering == \A t \in Threads : Owed(t)

JoinedHold == \A j \in joined :
                j[1] # Admin => \A r \in ToSet(invites[j[2]].roles) : j[1] \in roles[r]

Granting == AdminIsThere /\ OnePutEach /\ HeldCovers /\ InvitesStand /\ Registering /\ JoinedHold

LEMMA TailOfSet ==
  ASSUME NEW s \in Seq(Roles), s # << >>
  PROVE  /\ Head(s) \in Roles /\ Tail(s) \in Seq(Roles)
         /\ ToSet(s) = {Head(s)} \cup ToSet(Tail(s))
  <1>1. /\ Len(s) \in Nat /\ 1 \in 1 .. Len(s) /\ DOMAIN s = 1 .. Len(s) /\ Head(s) = s[1]
        /\ Tail(s) \in Seq(Roles) /\ Len(Tail(s)) = Len(s) - 1 /\ DOMAIN Tail(s) = 1 .. Len(Tail(s))
        /\ \A i \in 1 .. Len(Tail(s)) : Tail(s)[i] = s[i + 1]
    BY HeadTailProperties, EmptySeq, LenProperties
  <1>2. s[1] \in Roles
    BY <1>1, ElementOfSeq
  <1>3. ASSUME NEW i \in 1 .. Len(s) PROVE s[i] \in {Head(s)} \cup ToSet(Tail(s))
    <2>1. CASE i = 1
      BY <1>1, <2>1
    <2>2. CASE i # 1
      <3>1. i - 1 \in 1 .. Len(Tail(s)) /\ (i - 1) + 1 = i
        BY <1>1, <2>2
      <3> QED
        BY <1>1, <3>1 DEF ToSet
    <2> QED
      BY <2>1, <2>2
  <1>4. ASSUME NEW i \in 1 .. Len(Tail(s)) PROVE Tail(s)[i] \in ToSet(s)
    BY <1>1 DEF ToSet
  <1> QED
    BY <1>1, <1>2, <1>3, <1>4, Zenon DEF ToSet

\* The request of a process is about the same person and invite afterwards.
Retained(p) == proc'[p].user = proc[p].user /\ proc'[p].nonce = proc[p].nonce

LEMMA Retains ==
  ASSUME Typed, NEW p \in Procs, CommonStep(p) \/ ThreadStep(p)
  PROVE  Retained(p) \/ Ends(p)
  <1>1. proc[p] \in Proc /\ proc \in [Procs -> Proc]
    BY DEF Typed, ProcsFit
  <1>2. ASSUME NEW at, Goes(p, at)
        PROVE  Retained(p)
    BY <1>1, <1>2 DEF Goes, Retained, Proc
  <1>3. ASSUME NEW left, \/ proc' = [proc EXCEPT ![p].left = left]
                         \/ proc' = [proc EXCEPT ![p].at = "grant", ![p].left = left]
                         \/ proc' = [proc EXCEPT ![p].at = "grant", ![p].left = left, ![p].held = {}]
        PROVE  Retained(p)
    BY <1>1, <1>3 DEF Retained, Proc
  <1>4. ASSUME NEW held, proc' = [proc EXCEPT ![p].at = "put", ![p].held = held]
        PROVE  Retained(p)
    BY <1>1, <1>4 DEF Retained, Proc
  <1>5. ASSUME NEW read, proc' = [proc EXCEPT ![p].at = "truncate", ![p].read = read]
        PROVE  Retained(p)
    BY <1>1, <1>5 DEF Retained, Proc
  <1>6. CASE GrantReads(p)
    <2> DEFINE l == Tail(proc[p].left)
    <2>1. \/ proc' = [proc EXCEPT ![p].left = l]
          \/ \E held : proc' = [proc EXCEPT ![p].at = "put", ![p].held = held]
      BY <1>6 DEF GrantReads
    <2> QED
      BY <1>3, <1>4, <2>1, Zenon
  <1>7. CASE GrantPuts(p)
    <2> DEFINE l == Tail(proc[p].left)
    <2>1. proc' = [proc EXCEPT ![p].at = "grant", ![p].left = l, ![p].held = {}]
      BY <1>7 DEF GrantPuts
    <2> QED
      BY <1>3, <2>1, Zenon
  <1>8. CASE Creates(p)
    BY <1>3, <1>8, Zenon DEF Creates
  <1> QED
    BY <1>2, <1>5, <1>6, <1>7, <1>8
       DEF CommonStep, ThreadStep, Finds, Registered, LoginReads, Truncates, Fills, Uses, Revokes

\* How a process comes to grant a role, and to put it back.
Reads(p) ==
  /\ GrantReads(p) /\ proc[p].left # << >> /\ At(p, "grant")
  /\ MayGrant(p, Head(proc[p].left)) /\ proc'[p].left = proc[p].left
  /\ proc'[p].held = roles[Head(proc[p].left)] \cup {proc[p].user}
Skips(p) ==
  /\ GrantReads(p) /\ proc[p].left # << >> /\ At(p, "grant")
  /\ ~MayGrant(p, Head(proc[p].left)) /\ proc'[p].left = Tail(proc[p].left)

LEMMA GrantMoves ==
  ASSUME Typed, NEW p \in Procs, CommonStep(p)
  PROVE  /\ proc'[p].at = "put" => Reads(p)
         /\ proc'[p].at = "grant" => \/ Creates(p) /\ proc'[p].left = Granted(p)
                                     \/ GrantPuts(p) /\ proc'[p].left = Tail(proc[p].left)
                                     \/ Skips(p)
         /\ proc'[p].at # "use"
         /\ proc'[p].at \in {"find", "create"} => At(p, "find")
  <1>1. CASE \E at \in {"login", "raise", "fill", "refill", "context", "flag"} : Goes(p, at)
    <2>1. PICK at \in {"login", "raise", "fill", "refill", "context", "flag"} : Goes(p, at)
      BY <1>1
    <2>2. Became(p, at, proc[p].left, proc[p].held, proc[p].read)
      BY <2>1, Becomes, Zenon
    <2> QED
      BY <2>2 DEF Became
  <1>2. CASE Goes(p, "create") /\ At(p, "find")
    <2>1. Became(p, "create", proc[p].left, proc[p].held, proc[p].read)
      BY <1>2, Becomes, Zenon
    <2> QED
      BY <1>2, <2>1 DEF Became
  <1>3. CASE Ends(p)
    <2>1. Became(p, "idle", << >>, {}, "empty")
      BY <1>3, Becomes, Zenon DEF Ends
    <2> QED
      BY <2>1 DEF Became
  <1>4. CASE Creates(p)
    <2>1. Became(p, "grant", Granted(p), proc[p].held, proc[p].read)
      BY <1>4, Becomes, Zenon DEF Creates
    <2> QED
      BY <1>4, <2>1 DEF Became
  <1>5. CASE GrantPuts(p)
    <2> DEFINE left == Tail(proc[p].left)
    <2>1. proc' = [proc EXCEPT ![p].at = "grant", ![p].left = left, ![p].held = {}]
      BY <1>5 DEF GrantPuts
    <2>2. Became(p, "grant", left, {}, proc[p].read)
      BY <2>1, Becomes, Zenon
    <2> QED
      BY <1>5, <2>2 DEF Became
  <1>6. CASE GrantReads(p)
    <2> DEFINE left == Tail(proc[p].left)
               held == roles[Head(proc[p].left)] \cup {proc[p].user}
    <2>1. CASE MayGrant(p, Head(proc[p].left))
      <3>1. proc' = [proc EXCEPT ![p].at = "put", ![p].held = held]
        BY <1>6, <2>1 DEF GrantReads
      <3>2. Became(p, "put", proc[p].left, held, proc[p].read)
        BY <3>1, Becomes, Zenon
      <3>3. At(p, "grant") /\ proc[p].left # << >>
        BY <1>6 DEF GrantReads
      <3> QED
        BY <1>6, <2>1, <3>2, <3>3 DEF Became, Reads
    <2>2. CASE ~MayGrant(p, Head(proc[p].left))
      <3>1. proc' = [proc EXCEPT ![p].left = left]
        BY <1>6, <2>2 DEF GrantReads
      <3>2. Became(p, proc[p].at, left, proc[p].held, proc[p].read)
        BY <3>1, Becomes, Zenon
      <3>3. At(p, "grant") /\ proc[p].left # << >>
        BY <1>6 DEF GrantReads
      <3> QED
        BY <1>6, <2>2, <3>2, <3>3 DEF Became, Skips, At
    <2> QED
      BY <2>1, <2>2
  <1>7. CASE proc' = [proc EXCEPT ![p].at = "truncate", ![p].read = conf]
    <2>1. Became(p, "truncate", proc[p].left, proc[p].held, conf)
      BY <1>7, Becomes, Zenon
    <2> QED
      BY <2>1 DEF Became
  <1> QED
    BY <1>1, <1>2, <1>3, <1>4, <1>5, <1>6, <1>7 DEF CommonStep, Finds, Registered, LoginReads,
       Truncates, Fills

(* Nobody loses a role.                                                    *)
Kept == \A r \in Roles : \A u \in roles[r] : u \in Users \/ r = "admin-role" => u \in roles'[r]

LEMMA RolesChange ==
  ASSUME [Next]_vars, roles' # roles
  PROVE  (\E w \in Workers : InstallsRole(w)) \/ (\E p \in Procs : GrantPuts(p))
  <1>1. ASSUME LauncherStep \/ PeopleStep \/ UNCHANGED vars
        PROVE  FALSE
    BY <1>1 DEF LauncherStep, Launch, Kill, Stop, Down, PeopleStep, CreatesInvite, DeletesUser, store,
                vars
  <1>2. ASSUME NEW w \in Workers, WorkerStep(w)
        PROVE  InstallsRole(w)
    BY <1>2 DEF WorkerStep, StartStep, Checks, SeesNoLock, Locks, RegistersAdmin,
                SetsContext, Flags, Unlocks, HookRaises, Shutdown, store
  <1>3. ASSUME NEW p \in Procs, CommonStep(p)
        PROVE  GrantPuts(p)
    BY <1>3 DEF CommonStep, Finds, Creates, GrantReads, Registered, LoginReads, Truncates, Fills,
                store
  <1>4. ASSUME NEW t \in Threads, ThreadStep(t) \/ NewRequest(t)
        PROVE  FALSE
    BY <1>4, Zenon DEF ThreadStep, NewRequest, Uses, Revokes, Registers, LogsIn, ReadsToRevoke, store
  <1> QED
    BY <1>1, <1>2, <1>3, <1>4, NextIs

\* What each of the two does to the roles, if it is not a disturbance.
LEMMA InstallsOver ==
  ASSUME Typed, NEW w \in Workers, InstallsRole(w), Unharmed'
  PROVE  LET s == Head(proc[w].left)
         IN  /\ s \in Roles /\ roles[s] \subseteq {Admin} /\ roles'[s] = InstalledUsers(s)
             /\ \A r \in Roles : r # s => roles'[r] = roles[r]
             /\ UNCHANGED <<users, invites, done, joined>>
  <1>1. w \in Procs /\ proc[w].left \in Seq(Roles) /\ proc[w].left # << >>
    BY DEF Typed, ProcsFit, Procs, Proc, InstallsRole
  <1> DEFINE s == Head(proc[w].left)
  <1>2. s \in Roles
    BY <1>1, TailOfSet
  <1>3. roles[s] \subseteq {Admin}
    BY DEF InstallsRole, Disturb, Unharmed
  <1>4. roles' = [roles EXCEPT ![s] = InstalledUsers(s)] /\ UNCHANGED <<users, invites, done, joined>>
    BY DEF InstallsRole, files
  <1> QED
    BY <1>2, <1>3, <1>4 DEF Typed, StoreFits

LEMMA PutsOver ==
  ASSUME Typed, NEW p \in Procs, GrantPuts(p)
  PROVE  LET s == Head(proc[p].left)
         IN  /\ s \in Roles /\ Puts(p, s) /\ roles'[s] = proc[p].held
             /\ proc[p].user \in proc[p].held
             /\ \A r \in Roles : r # s => roles'[r] = roles[r]
             /\ UNCHANGED <<users, invites, done, joined>>
  <1>1. At(p, "put") /\ Fits(p, proc[p], DOMAIN invites)
    BY DEF GrantPuts, Typed, ProcsFit
  <1>2. proc[p].left \in Seq(Roles) /\ proc[p].left # << >> /\ proc[p].user \in proc[p].held
    BY <1>1 DEF Fits, Proc, At
  <1> DEFINE s == Head(proc[p].left)
  <1>3. s \in Roles
    BY <1>2, TailOfSet
  <1>4. roles' = [roles EXCEPT ![s] = proc[p].held] /\ UNCHANGED <<users, invites, done, joined>>
    BY DEF GrantPuts, files
  <1> QED
    BY <1>1, <1>2, <1>3, <1>4 DEF Typed, StoreFits, Puts

LEMMA RolesAreKept ==
  ASSUME Typed, HeldCovers, [Next]_vars, Unharmed'
  PROVE  Kept
  <1>1. CASE roles' = roles
    BY <1>1 DEF Kept
  <1>2. ASSUME NEW w \in Workers, InstallsRole(w)
        PROVE  Kept
    <2> SUFFICES ASSUME NEW r \in Roles, NEW u \in roles[r], u \in Users \/ r = "admin-role"
                 PROVE  u \in roles'[r]
      BY DEF Kept
    <2> DEFINE s == Head(proc[w].left)
    <2>1. /\ s \in Roles /\ roles[s] \subseteq {Admin} /\ roles'[s] = InstalledUsers(s)
          /\ \A q \in Roles : q # s => roles'[q] = roles[q]
      BY <1>2, InstallsOver
    <2> HIDE DEF s
    <2> QED
      BY <2>1, AccessAssumption DEF InstalledUsers
  <1>3. ASSUME NEW p \in Procs, GrantPuts(p)
        PROVE  Kept
    <2> SUFFICES ASSUME NEW r \in Roles, NEW u \in roles[r], u \in Users \/ r = "admin-role"
                 PROVE  u \in roles'[r]
      BY DEF Kept
    <2> DEFINE s == Head(proc[p].left)
    <2>1. /\ s \in Roles /\ Puts(p, s) /\ roles'[s] = proc[p].held
          /\ \A q \in Roles : q # s => roles'[q] = roles[q]
      BY <1>3, PutsOver
    <2> HIDE DEF s
    <2> QED
      BY <2>1 DEF HeldCovers
  <1> QED
    BY <1>1, <1>2, <1>3, RolesChange

(* The processes that put a role back afterwards: those that did, and one  *)
(* that has just read it.                                                  *)
LEMMA PutsComeFrom ==
  ASSUME Typed, RestsWhenDown, [Next]_vars, NEW p \in Procs, proc'[p].at = "put"
  PROVE  proc'[p] = proc[p] \/ (CommonStep(p) /\ Reads(p))
  <1>1. Workers \subseteq Procs /\ Threads \subseteq Procs
    BY DEF Procs
  <1>2. CASE LauncherStep
    BY <1>2, LauncherLeaves DEF Procs
  <1>3. ASSUME NEW w \in Workers, WorkerStep(w)
        PROVE  proc'[p] = proc[p]
    BY <1>3, WorkerMoves
  <1>4. ASSUME NEW q \in Procs, CommonStep(q)
        PROVE  proc'[p] = proc[p] \/ (CommonStep(p) /\ Reads(p))
    BY <1>4, CommonMoves, GrantMoves
  <1>5. ASSUME NEW t \in Threads, ThreadStep(t) \/ NewRequest(t)
        PROVE  proc'[p] = proc[p]
    BY <1>5, ThreadMoves
  <1>6. CASE PeopleStep \/ UNCHANGED vars
    BY <1>6 DEF PeopleStep, CreatesInvite, DeletesUser, vars
  <1> QED
    BY <1>2, <1>3, <1>4, <1>5, <1>6, NextIs

LEMMA OnePutStep ==
  ASSUME Typed, RestsWhenDown, OnePutEach, [Next]_vars, Unharmed'
  PROVE  OnePutEach'
  <1>1. ASSUME NEW p \in Procs, NEW r \in Roles, Puts(p, r)'
        PROVE  \/ Puts(p, r)
               \/ \A q \in Procs : ~Puts(q, r)
    <2>1. proc'[p].at = "put" /\ Head(proc'[p].left) = r
      BY <1>1 DEF Puts, At
    <2>2. CASE proc'[p] = proc[p]
      BY <2>1, <2>2 DEF Puts, At
    <2>3. CASE Reads(p)
      <3>1. r = Head(proc[p].left) /\ MayGrant(p, r) /\ GrantReads(p)
        BY <2>1, <2>3 DEF Reads
      <3>2. "overlapped" \notin disturbed'
        BY DEF Unharmed
      <3> QED
        BY <3>1, <3>2 DEF GrantReads, Disturb, Puts
    <2> QED
      BY <2>1, <2>2, <2>3, PutsComeFrom
  <1> SUFFICES ASSUME NEW p \in Procs, NEW q \in Procs, NEW r \in Roles, Puts(p, r)', Puts(q, r)', p # q
               PROVE  FALSE
    BY DEF OnePutEach
  <1>2. ~(Puts(p, r) /\ Puts(q, r))
    BY DEF OnePutEach
  <1>3. ~Puts(p, r) => proc'[p] # proc[p]
    BY DEF Puts, At
  <1>4. ~Puts(q, r) => proc'[q] # proc[q]
    BY DEF Puts, At
  <1>5. ~(Puts(p, r) \/ Puts(q, r)) => FALSE
    <2> SUFFICES ASSUME ~Puts(p, r), ~Puts(q, r) PROVE FALSE
      OBVIOUS
    <2>1. CommonStep(p) /\ CommonStep(q)
      BY <1>3, <1>4, PutsComeFrom DEF Puts, At
    <2> QED
      BY <1>4, <2>1, CommonMoves
  <1> QED
    BY <1>1, <1>2, <1>5

LEMMA CoversStep ==
  ASSUME Typed, RestsWhenDown, AdminIsThere, OnePutEach, HeldCovers, [Next]_vars, Unharmed'
  PROVE  HeldCovers'
  <1> SUFFICES ASSUME NEW p \in Procs, NEW r \in Roles, Puts(p, r)', NEW u \in roles'[r],
                      u \in Users \/ r = "admin-role"
               PROVE  u \in proc'[p].held
    BY DEF HeldCovers
  <1>1. proc'[p].at = "put" /\ Head(proc'[p].left) = r
    BY DEF Puts, At
  <1>2. CASE Reads(p)
    <2>1. UNCHANGED roles
      BY <1>2 DEF Reads, GrantReads, store
    <2> QED
      BY <1>1, <1>2, <2>1 DEF Reads
  <1>3. CASE proc'[p] = proc[p]
    <2>1. Puts(p, r)
      BY <1>1, <1>3 DEF Puts, At
    <2>2. CASE u \in roles[r]
      BY <1>3, <2>1, <2>2 DEF HeldCovers
    <2>3. ASSUME NEW w \in Workers, InstallsRole(w), u \notin roles[r]
          PROVE  FALSE
      <3> DEFINE s == Head(proc[w].left)
      <3>1. /\ roles'[s] = InstalledUsers(s)
            /\ \A q \in Roles : q # s => roles'[q] = roles[q]
        BY <2>3, InstallsOver
      <3> HIDE DEF s
      <3>2. r = s
        BY <2>3, <3>1
      <3>3. r = "admin-role" /\ u = Admin
        BY <3>1, <3>2, AccessAssumption DEF InstalledUsers
      <3>4. AdminIsNeeded
        BY <2>1 DEF AdminIsNeeded, Puts, At, Procs
      <3> QED
        BY <2>3, <3>3, <3>4 DEF AdminIsThere
    <2>4. ASSUME NEW q \in Procs, GrantPuts(q), u \notin roles[r]
          PROVE  FALSE
      <3> DEFINE s == Head(proc[q].left)
                 left == Tail(proc[q].left)
      <3>1. /\ Puts(q, s) /\ \A k \in Roles : k # s => roles'[k] = roles[k]
        BY <2>4, PutsOver
      <3>2. r = s
        BY <2>4, <3>1
      <3>3. p = q
        BY <2>1, <3>1, <3>2 DEF OnePutEach
      <3>4. proc' = [proc EXCEPT ![q].at = "grant", ![q].left = left, ![q].held = {}]
        BY <2>4 DEF GrantPuts
      <3>5. Became(q, "grant", left, {}, proc[q].read)
        BY <3>4, Becomes, Zenon
      <3> QED
        BY <1>1, <3>3, <3>5 DEF Became
    <2> QED
      BY <2>2, <2>3, <2>4, RolesChange
  <1> QED
    BY <1>1, <1>2, <1>3, PutsComeFrom

(* The initialisation installs the admin role first; nothing that rests on *)
(* it comes about before.                                                  *)
LEMMA NeedArises ==
  ASSUME Typed, RestsWhenDown, [Next]_vars, ~AdminIsNeeded, AdminIsNeeded'
  PROVE  \E w \in Workers : InstallsRole(w) /\ proc[w].left = InstalledRoles
  <1>1. proc \in [Procs -> Proc] /\ Workers \subseteq Procs /\ Threads \subseteq Procs
    BY DEF Typed, ProcsFit, Procs
  <1>2. /\ ~done /\ invites = << >> /\ \A t \in Threads : At(t, "idle")
        /\ \A w \in Workers : /\ proc[w].at \notin {"serve", "find", "create", "grant", "put", "login",
                                                    "truncate", "fill", "context", "rewrite", "refill",
                                                    "flag", "unlock"}
                              /\ At(w, "roles") => proc[w].left = InstalledRoles
    BY DEF AdminIsNeeded
  <1>3. ~Serving
    BY <1>2 DEF Serving, At
  <1>4. CASE LauncherStep
    <2>1. ~done' /\ invites' = invites
      <3>1. ASSUME NEW elsewhere \in BOOLEAN, NEW reset \in BOOLEAN, NEW started \in Crews,
                   Launch(elsewhere, reset, started)
            PROVE  ~done' /\ invites' = invites
        <4>1. done' = (done /\ ~reset) /\ UNCHANGED store
          BY <3>1 DEF Launch
        <4>2. ~done'
          BY <1>2, <4>1, Zenon
        <4> QED
          BY <4>1, <4>2 DEF store
      <3>2. CASE Kill \/ Stop \/ Down
        BY <1>2, <3>2 DEF Kill, Stop, Down, files, store
      <3> QED
        BY <1>4, <3>1, <3>2 DEF LauncherStep
    <2>2. \/ proc' = proc
          \/ /\ \A w \in Workers : proc'[w].at \in {"off", "check"}
             /\ \A t \in Threads : proc'[t].at = "idle"
      BY <1>4, LauncherLeaves
    <2> QED
      BY <1>2, <2>1, <2>2 DEF AdminIsNeeded, At
  <1>5. ASSUME NEW p \in Procs, CommonStep(p)
        PROVE  FALSE
    <2>1. proc[p].at \in {"find", "create", "grant", "put", "login", "truncate", "fill",
                          "rewrite", "refill"}
      BY <1>5 DEF CommonStep, Finds, Creates, GrantReads, GrantPuts, Registered, LoginReads,
                  Truncates, Fills, At
    <2> QED
      BY <1>2, <2>1 DEF Procs, At
  <1>6. ASSUME NEW t \in Threads, ThreadStep(t) \/ NewRequest(t)
        PROVE  FALSE
    BY <1>2, <1>3, <1>6, ThreadMoves
  <1>7. CASE PeopleStep
    BY <1>3, <1>7 DEF PeopleStep, CreatesInvite, DeletesUser
  <1>8. CASE UNCHANGED vars
    BY <1>8 DEF vars, AdminIsNeeded, At
  <1>9. ASSUME NEW w \in Workers, WorkerStep(w)
        PROVE  InstallsRole(w) /\ proc[w].left = InstalledRoles
    <2>1. CASE InstallsRole(w)
      BY <1>2, <2>1 DEF InstallsRole
    <2>2. CASE ~InstallsRole(w)
      <3>1. ~done' /\ invites' = invites
        BY <1>2, <1>9 DEF WorkerStep, StartStep, Checks, SeesNoLock, Locks, InstallsRole,
                          RegistersAdmin, SetsContext, Flags, Unlocks, HookRaises, Shutdown, files,
                          store, At
      <3>2. \/ \E at \in {"wait", "lock", "raise", "failed"} : proc'[w].at = at
            \/ proc'[w].at = "roles" /\ proc'[w].left = InstalledRoles
        <4>1. CASE \E at \in {"wait", "lock", "raise"} : Goes(w, at)
          <5>1. PICK at \in {"wait", "lock", "raise"} : Goes(w, at)
            BY <4>1
          <5>2. Became(w, at, proc[w].left, proc[w].held, proc[w].read)
            BY <1>1, <5>1, Becomes, Zenon
          <5> QED
            BY <5>2 DEF Became
        <4>2. CASE Unlocks(w)
          <5>1. proc' = [proc EXCEPT ![w] = AtRest("failed")]
            BY <1>2, <4>2 DEF Unlocks, At
          <5>2. Became(w, "failed", << >>, {}, "empty")
            BY <1>1, <5>1, Becomes, Zenon
          <5> QED
            BY <5>2 DEF Became
        <4>3. CASE Locks(w)
          <5>1. proc'[w] = [AtRest("roles") EXCEPT !.left = InstalledRoles]
            BY <1>1, <4>3 DEF Locks
          <5>2. AtRest("roles") \in Proc /\ AtRest("roles").at = "roles"
            BY DEF AtRest, Proc, People, ConfState
          <5> QED
            BY <5>1, <5>2 DEF Proc
        <4>4. <<>> # InstalledRoles
          BY DEF InstalledRoles
        <4> QED
          BY <1>2, <1>9, <2>2, <4>1, <4>2, <4>3, <4>4
             DEF WorkerStep, StartStep, Checks, SeesNoLock, RegistersAdmin, SetsContext, Flags,
                 HookRaises, Shutdown, At
      <3>3. \A q \in Procs : q # w => proc'[q] = proc[q]
        BY <1>9, WorkerMoves
      <3>4. \A t \in Threads : t # w
        BY AccessAssumption
      <3> QED
        BY <1>1, <1>2, <3>1, <3>2, <3>3, <3>4 DEF AdminIsNeeded, At
    <2> QED
      BY <2>1, <2>2
  <1> QED
    BY <1>4, <1>5, <1>6, <1>7, <1>8, <1>9, NextIs

LEMMA AdminIsThereStep ==
  ASSUME Typed, RestsWhenDown, HeldCovers, AdminIsThere, [Next]_vars, Unharmed'
  PROVE  AdminIsThere'
  <1> SUFFICES ASSUME AdminIsNeeded'
               PROVE  Admin \in roles'["admin-role"]
    BY DEF AdminIsThere
  <1>1. "admin-role" \in Roles
    BY DEF Roles
  <1>2. CASE AdminIsNeeded
    BY <1>1, <1>2, RolesAreKept DEF AdminIsThere, Kept
  <1>3. CASE ~AdminIsNeeded
    <2>1. PICK w \in Workers : InstallsRole(w) /\ proc[w].left = InstalledRoles
      BY <1>3, NeedArises
    <2>2. Head(proc[w].left) = "admin-role"
      BY <2>1 DEF InstalledRoles
    <2>3. roles'["admin-role"] = InstalledUsers("admin-role")
      BY <2>1, <2>2, InstallsOver
    <2> QED
      BY <2>3 DEF InstalledUsers
  <1> QED
    BY <1>2, <1>3

(* An invite stays what it was but for its flags, and a new one says what  *)
(* its inviter was allowed to say.                                         *)
SameInvite(n) == /\ n \in DOMAIN invites'
                 /\ invites'[n].by = invites[n].by /\ invites'[n].roles = invites[n].roles

LEMMA FlagsOnly ==
  ASSUME Typed, NEW n \in DOMAIN invites, NEW u \in BOOLEAN, NEW v \in BOOLEAN,
         \/ invites' = [invites EXCEPT ![n].used = u, ![n].revoked = v]
         \/ invites' = [invites EXCEPT ![n].revoked = v, ![n].used = u]
  PROVE  DOMAIN invites' = DOMAIN invites /\ \A k \in DOMAIN invites : SameInvite(k)
  <1> DEFINE i == [[invites[n] EXCEPT !.used = u] EXCEPT !.revoked = v]
             j == [[invites[n] EXCEPT !.revoked = v] EXCEPT !.used = u]
  <1>1. invites[n] \in Invite /\ n \in 1 .. Len(invites) /\ invites \in Seq(Invite)
    BY InvitesAre DEF Typed, StoreFits
  <1>2. /\ i \in Invite /\ i.by = invites[n].by /\ i.roles = invites[n].roles
        /\ j \in Invite /\ j.by = invites[n].by /\ j.roles = invites[n].roles
    BY <1>1 DEF Invite
  <1>3. invites' = [invites EXCEPT ![n] = i] \/ invites' = [invites EXCEPT ![n] = j]
    OBVIOUS
  <1> HIDE DEF i, j
  <1>4. ASSUME NEW x \in Invite, x.by = invites[n].by, x.roles = invites[n].roles,
               invites' = [invites EXCEPT ![n] = x]
        PROVE  DOMAIN invites' = DOMAIN invites /\ \A k \in DOMAIN invites : SameInvite(k)
    BY <1>4 DEF SameInvite
  <1> QED
    BY <1>2, <1>3, <1>4

LEMMA InvitesKeep ==
  ASSUME Typed, [Next]_vars
  PROVE  /\ \A n \in DOMAIN invites : SameInvite(n)
         /\ DOMAIN invites' # DOMAIN invites =>
              \E u \in People, list \in Grants : CreatesInvite(u, list)
  <1>1. CASE invites' = invites
    BY <1>1 DEF SameInvite
  <1>2. ASSUME NEW t \in Threads, ThreadStep(t)
        PROVE  DOMAIN invites' = DOMAIN invites /\ \A k \in DOMAIN invites : SameInvite(k)
    <2> DEFINE n == proc[t].nonce
    <2>1. Fits(t, proc[t], DOMAIN invites) /\ proc[t] \in Proc
      BY DEF Typed, ProcsFit, Procs
    <2>2. n \in DOMAIN invites /\ proc[t].used \in BOOLEAN
      BY <1>2, <2>1, AccessAssumption
         DEF ThreadStep, Uses, Revokes, At, Fits, ThreadFits, AboutInvite, Proc
    <2>3. \/ invites' = invites
          \/ \E u, v \in BOOLEAN : \/ invites' = [invites EXCEPT ![n].used = u, ![n].revoked = v]
                                   \/ invites' = [invites EXCEPT ![n].revoked = v, ![n].used = u]
      <3>1. CASE Uses(t)
        <4>1. \/ invites' = [invites EXCEPT ![n].used = FALSE, ![n].revoked = TRUE]
              \/ invites' = invites
              \/ invites' = [invites EXCEPT ![n].used = TRUE, ![n].revoked = FALSE]
          BY <3>1 DEF Uses
        <4> QED
          BY <4>1
      <3>2. CASE Revokes(t)
        <4>1. invites' = [invites EXCEPT ![n].revoked = TRUE, ![n].used = proc[t].used]
          BY <3>2 DEF Revokes
        <4> QED
          BY <2>2, <4>1, Zenon
      <3> QED
        BY <1>2, <3>1, <3>2 DEF ThreadStep
    <2> HIDE DEF n
    <2> QED
      BY <2>2, <2>3, FlagsOnly, Zenon DEF SameInvite
  <1>3. ASSUME NEW u \in People, NEW list \in Grants, CreatesInvite(u, list)
        PROVE  \A k \in DOMAIN invites : SameInvite(k)
    <2> DEFINE i == [used |-> FALSE, revoked |-> FALSE, by |-> u, roles |-> list, secret |-> secret]
    <2>1. i \in Invite /\ invites \in Seq(Invite) /\ invites' = Append(invites, i)
      BY <1>3 DEF Invite, Typed, StoreFits, CreatesInvite
    <2> HIDE DEF i
    <2>2. /\ invites' \in Seq(Invite) /\ Len(invites') = Len(invites) + 1
          /\ \A k \in 1 .. Len(invites) : invites'[k] = invites[k]
      BY <2>1, AppendProperties
    <2>3. DOMAIN invites' = 1 .. Len(invites')
      BY <2>2, LenProperties
    <2> QED
      BY <2>2, <2>3, InvitesAre DEF SameInvite
  <1>4. CASE LauncherStep
    BY <1>1, <1>4 DEF LauncherStep, Launch, Kill, Stop, Down, store
  <1>5. ASSUME NEW w \in Workers, WorkerStep(w)
        PROVE  invites' = invites
    BY <1>5 DEF WorkerStep, StartStep, Checks, SeesNoLock, Locks, InstallsRole, RegistersAdmin,
                SetsContext, Flags, Unlocks, HookRaises, Shutdown, store
  <1>6. ASSUME NEW p \in Procs, CommonStep(p)
        PROVE  invites' = invites
    BY <1>6 DEF CommonStep, Finds, Creates, GrantReads, GrantPuts, Registered, LoginReads,
                Truncates, Fills, store
  <1>7. ASSUME NEW t \in Threads, NewRequest(t)
        PROVE  invites' = invites
    BY <1>7, Zenon DEF NewRequest, Registers, LogsIn, ReadsToRevoke, store
  <1>8. ASSUME NEW u \in People, DeletesUser(u)
        PROVE  invites' = invites
    BY <1>8 DEF DeletesUser
  <1>9. CASE UNCHANGED vars
    BY <1>1, <1>9 DEF vars
  <1> QED
    BY <1>1, <1>2, <1>3, <1>4, <1>5, <1>6, <1>7, <1>8, <1>9, NextIs DEF PeopleStep

LEMMA StandsStep ==
  ASSUME Kept, NEW u \in People, NEW r \in Roles, Stands(u, r)
  PROVE  u \in roles'["admin-role"] \/ (u \in Users /\ u \in roles'[r])
  <1>1. "admin-role" \in Roles
    BY DEF Roles
  <1> QED
    BY <1>1 DEF Kept, Stands

LEMMA InvitesStandStep ==
  ASSUME Typed, AdminIsThere, InvitesStand, [Next]_vars, Kept
  PROVE  InvitesStand'
  <1>1. \A i \in Invite : i.by \in People /\ i.roles \in Seq(Roles) /\ ToSet(i.roles) \subseteq Roles
    <2>1. \A s \in Seq(Roles) : ToSet(s) \subseteq Roles
      BY ElementOfSeq, LenProperties DEF ToSet
    <2> QED
      BY <2>1, AccessAssumption DEF Invite
  <1> SUFFICES ASSUME NEW n \in DOMAIN invites', NEW r \in ToSet(invites'[n].roles)
               PROVE  \/ invites'[n].by \in roles'["admin-role"]
                      \/ invites'[n].by \in Users /\ invites'[n].by \in roles'[r]
    BY DEF InvitesStand, Stands
  <1>2. CASE n \in DOMAIN invites
    <2>1. SameInvite(n) /\ invites[n] \in Invite
      BY <1>2, InvitesKeep, InvitesAre
    <2>2. r \in Roles /\ Stands(invites[n].by, r)
      BY <1>1, <1>2, <2>1 DEF SameInvite, InvitesStand
    <2> QED
      BY <1>1, <2>1, <2>2, StandsStep DEF SameInvite
  <1>3. CASE n \notin DOMAIN invites
    <2>1. PICK u \in People, list \in Grants : CreatesInvite(u, list)
      BY <1>3, InvitesKeep
    <2> DEFINE i == [used |-> FALSE, revoked |-> FALSE, by |-> u, roles |-> list, secret |-> secret]
    <2>2. /\ i \in Invite /\ invites \in Seq(Invite) /\ invites' = Append(invites, i)
          /\ i.by = u /\ i.roles = list
      BY <2>1 DEF Invite, Typed, StoreFits, CreatesInvite
    <2> HIDE DEF i
    <2>3. /\ invites' \in Seq(Invite) /\ Len(invites') = Len(invites) + 1
          /\ invites'[Len(invites) + 1] = i
      BY <2>2, AppendProperties
    <2>4. DOMAIN invites' = 1 .. Len(invites')
      BY <2>3, LenProperties
    <2>5. invites'[n] = i
      BY <1>3, <2>3, <2>4, InvitesAre
    <2>6. roles' = roles /\ Serving /\ Holds(u, r)
      BY <2>1, <2>2, <2>5 DEF CreatesInvite
    <2>7. Admin \in roles["admin-role"]
      BY <2>6 DEF Serving, AdminIsThere, AdminIsNeeded, At
    <2> QED
      BY <2>2, <2>5, <2>6, <2>7 DEF Holds, People
  <1> QED
    BY <1>2, <1>3

(* Of a registration under way, no role gets lost: what its inviter held   *)
(* is still held when it is granted, so that none is skipped.              *)
LEMMA RequestIs ==
  ASSUME Typed, NEW t \in Threads
  PROVE  /\ proc[t] \in Proc /\ t \in Procs /\ t \notin Workers
         /\ proc[t].left \in Seq(Roles) /\ proc[t].user \in People
         /\ proc[t].at = "put" => proc[t].left # << >> /\ proc[t].user \in proc[t].held
         /\ proc[t].at \in AboutInvite =>
              /\ proc[t].nonce \in DOMAIN invites
              /\ invites[proc[t].nonce].roles \in Seq(Roles)
              /\ ToSet(invites[proc[t].nonce].roles) \subseteq Roles
  <1>1. Fits(t, proc[t], DOMAIN invites) /\ t \in Procs /\ t \notin Workers
    BY AccessAssumption DEF Typed, ProcsFit, Procs
  <1>2. \A s \in Seq(Roles) : ToSet(s) \subseteq Roles
    BY ElementOfSeq, LenProperties DEF ToSet
  <1>3. \A i \in Invite : i.roles \in Seq(Roles)
    BY AccessAssumption DEF Invite
  <1>4. proc[t] \in Proc /\ (proc[t].at \in AboutInvite => proc[t].nonce \in DOMAIN invites)
    BY <1>1 DEF Fits, ThreadFits
  <1>5. proc[t].left \in Seq(Roles) /\ proc[t].user \in People
    BY <1>4 DEF Proc
  <1> QED
    BY <1>1, <1>2, <1>3, <1>4, <1>5, InvitesAre DEF Fits

LEMMA OwedStays ==
  ASSUME Typed, Registering, [Next]_vars, Kept, NEW t \in Threads, proc'[t] = proc[t]
  PROVE  Owed(t)'
  <1>1. Owed(t)
    BY DEF Registering
  <1> SUFFICES ASSUME proc[t].at \in {"grant", "put"}
               PROVE  LET n == proc[t].nonce
                      IN  /\ ToSet(proc[t].left) \subseteq ToSet(invites'[n].roles)
                          /\ proc[t].user # Admin =>
                               \A r \in ToSet(invites'[n].roles) :
                                 proc[t].user \in roles'[r] \/ r \in ToSet(proc[t].left)
    BY DEF Owed
  <1>3. /\ proc[t].nonce \in DOMAIN invites /\ proc[t].user \in People
        /\ ToSet(invites[proc[t].nonce].roles) \subseteq Roles
    BY <1>1, RequestIs DEF AboutInvite
  <1>4. invites'[proc[t].nonce].roles = invites[proc[t].nonce].roles
    BY <1>3, InvitesKeep DEF SameInvite
  <1> QED
    BY <1>1, <1>3, <1>4 DEF Owed, Kept, People

LEMMA OwedMoves ==
  ASSUME Typed, InvitesStand, Registering, [Next]_vars, Kept, NEW t \in Threads, CommonStep(t)
  PROVE  Owed(t)'
  <1> DEFINE n == proc[t].nonce
  <1>1. t \in Procs /\ t \notin Workers /\ Owed(t)
    BY RequestIs DEF Registering
  <1>2. invites' = invites
    BY DEF CommonStep, Finds, Creates, GrantReads, GrantPuts, Registered, LoginReads,
           Truncates, Fills, store
  <1>3. CASE proc'[t].at \notin {"use", "find", "create", "grant", "put"}
    BY <1>3 DEF Owed
  <1>4. CASE proc'[t].at \in {"find", "create"}
    <2>1. At(t, "find") /\ Retained(t)
      <3>1. ~Ends(t)
        <4>1. Ends(t) => Became(t, "idle", << >>, {}, "empty")
          BY <1>1, Becomes, Zenon DEF Ends
        <4> QED
          BY <1>4, <4>1 DEF Became
      <3> QED
        BY <1>1, <1>4, <3>1, GrantMoves, Retains
    <2> QED
      BY <1>1, <1>4, <2>1 DEF Owed, At, Retained
  <1>5. ASSUME proc'[t].at \in {"grant", "put"},
               proc[t].at \in {"create", "grant", "put"}
        PROVE  Owed(t)'
    <2>1. Retained(t)
      <3>1. ~Ends(t)
        <4>1. Ends(t) => Became(t, "idle", << >>, {}, "empty")
          BY <1>1, Becomes, Zenon DEF Ends
        <4> QED
          BY <1>5, <4>1 DEF Became
      <3> QED
        BY <1>1, <3>1, Retains
    <2>2. /\ proc[t].user \in People /\ n \in DOMAIN invites /\ proc[t].left \in Seq(Roles)
          /\ ToSet(invites[n].roles) \subseteq Roles
      BY <1>1, <1>5, RequestIs DEF AboutInvite
    <2>4. ASSUME /\ ToSet(proc'[t].left) \subseteq ToSet(invites[n].roles)
                 /\ proc[t].user # Admin => \A r \in ToSet(invites[n].roles) :
                      proc[t].user \in roles'[r] \/ r \in ToSet(proc'[t].left)
          PROVE  Owed(t)'
      BY <1>2, <2>1, <2>4 DEF Owed, Retained
    <2> HIDE DEF n
    <2>5. CASE Creates(t) /\ proc'[t].left = Granted(t)
      BY <1>1, <2>4, <2>5 DEF Granted, n
    <2>6. ASSUME proc[t].at \in {"grant", "put"}
          PROVE  /\ ToSet(proc[t].left) \subseteq ToSet(invites[n].roles)
                 /\ proc[t].user # Admin => \A r \in ToSet(invites[n].roles) :
                      proc[t].user \in roles'[r] \/ r \in ToSet(proc[t].left)
      BY <1>1, <2>2, <2>6 DEF Owed, Kept, People, n
    <2>7. CASE Reads(t)
      <3>1. proc'[t].left = proc[t].left /\ proc[t].at = "grant"
        BY <2>7 DEF Reads, At
      <3> QED
        BY <2>4, <2>6, <3>1
    <2>8. CASE Skips(t)
      <3>1. /\ ~MayGrant(t, Head(proc[t].left)) /\ proc[t].left # << >> /\ proc[t].at = "grant"
        BY <2>8 DEF Skips, At
      <3>2. Head(proc[t].left) \in ToSet(invites[n].roles)
        BY <2>2, <2>6, <3>1, TailOfSet
      <3>3. Stands(invites[n].by, Head(proc[t].left))
        BY <2>2, <3>2 DEF InvitesStand
      <3> QED
        BY <1>1, <3>1, <3>3 DEF MayGrant, Stands, Holds, n
    <2>9. CASE GrantPuts(t) /\ proc'[t].left = Tail(proc[t].left)
      <3>1. proc[t].at = "put"
        BY <2>9 DEF GrantPuts, At
      <3>2. proc[t].left # << >>
        BY <3>1, RequestIs
      <3>3. ToSet(proc[t].left) = {Head(proc[t].left)} \cup ToSet(Tail(proc[t].left))
        BY <2>2, <3>2, TailOfSet
      <3>4. proc[t].user \in roles'[Head(proc[t].left)]
        BY <1>1, <2>9, PutsOver
      <3> QED
        BY <2>4, <2>6, <2>9, <3>1, <3>3, <3>4
    <2> QED
      BY <1>1, <1>5, <2>5, <2>7, <2>8, <2>9, GrantMoves
  <1>6. proc'[t].at \in {"grant", "put"} => proc[t].at \in {"create", "grant", "put"}
    BY <1>1, GrantMoves, Zenon DEF Creates, GrantPuts, Skips, Reads, At
  <1> QED
    BY <1>1, <1>3, <1>4, <1>5, <1>6, GrantMoves

LEMMA RegisteringStep ==
  ASSUME Typed, RestsWhenDown, InvitesStand, Registering, [Next]_vars, Kept
  PROVE  Registering'
  <1> SUFFICES ASSUME NEW t \in Threads
               PROVE  Owed(t)'
    BY DEF Registering
  <1>1. t \in Procs /\ t \notin Workers /\ Owed(t) /\ proc \in [Procs -> Proc]
    BY RequestIs DEF Registering, Typed, ProcsFit
  <1>2. CASE LauncherStep
    <2>1. proc'[t] = proc[t] \/ proc'[t].at = "idle"
      BY <1>2, LauncherLeaves
    <2> QED
      BY <2>1, OwedStays DEF Owed
  <1>3. ASSUME NEW w \in Workers, WorkerStep(w)
        PROVE  proc'[t] = proc[t]
    BY <1>1, <1>3, WorkerMoves
  <1>4. ASSUME NEW p \in Procs, CommonStep(p)
        PROVE  Owed(t)'
    BY <1>1, <1>4, CommonMoves, OwedStays, OwedMoves
  <1>5. ASSUME NEW q \in Threads, ThreadStep(q) \/ NewRequest(q)
        PROVE  Owed(t)'
    <2>1. q \in Procs
      BY DEF Procs
    <2>2. CASE q # t
      BY <1>1, <1>5, <2>2, ThreadMoves, OwedStays
    <2>3. CASE q = t
      <3>1. Owed(t)'
        BY <1>5, <2>3, ThreadMoves DEF Owed
      <3> QED
        BY <3>1
    <2> QED
      BY <2>2, <2>3
  <1>6. CASE PeopleStep \/ UNCHANGED vars
    <2>1. proc' = proc
      BY <1>6 DEF PeopleStep, CreatesInvite, DeletesUser, vars
    <2> QED
      BY <2>1, OwedStays
  <1> QED
    BY <1>2, <1>3, <1>4, <1>5, <1>6, OwedStays, NextIs

LEMMA JoinedStep ==
  ASSUME Typed, Registering, JoinedHold, [Next]_vars, Kept
  PROVE  JoinedHold'
  <1>1. ASSUME NEW j \in joined
        PROVE  j[1] # Admin => \A r \in ToSet(invites'[j[2]].roles) : j[1] \in roles'[r]
    <2>1. j[2] \in DOMAIN invites /\ j[1] \in People
      BY DEF Typed, StoreFits
    <2>2. invites'[j[2]].roles = invites[j[2]].roles /\ invites[j[2]].roles \in Seq(Roles)
      BY <2>1, InvitesKeep, InvitesAre, AccessAssumption DEF SameInvite, Invite
    <2>3. \A r \in ToSet(invites[j[2]].roles) : r \in Roles
      BY <2>2, ElementOfSeq, LenProperties DEF ToSet
    <2> QED
      BY <2>1, <2>2, <2>3 DEF JoinedHold, Kept, People
  <1>2. \/ joined' \subseteq joined
        \/ \E t \in Threads : Registered(t) /\ joined' = joined \cup {<<proc[t].user, proc[t].nonce>>}
    <2>1. CASE LauncherStep \/ UNCHANGED vars
      BY <2>1 DEF LauncherStep, Launch, Kill, Stop, Down, vars
    <2>2. ASSUME NEW w \in Workers, WorkerStep(w)
          PROVE  joined' = joined
      BY <2>2 DEF WorkerStep, StartStep, Checks, SeesNoLock, Locks, InstallsRole, RegistersAdmin,
                  SetsContext, Flags, Unlocks, HookRaises, Shutdown
    <2>3. ASSUME NEW p \in Procs, CommonStep(p)
          PROVE  \/ joined' = joined
                 \/ /\ p \in Threads /\ Registered(p)
                    /\ joined' = joined \cup {<<proc[p].user, proc[p].nonce>>}
      BY <2>3 DEF CommonStep, Finds, Creates, GrantReads, GrantPuts, Registered, LoginReads,
                  Truncates, Fills
    <2>4. ASSUME NEW t \in Threads, ThreadStep(t) \/ NewRequest(t)
          PROVE  joined' = joined
      BY <2>4, Zenon DEF ThreadStep, NewRequest, Uses, Revokes, Registers, LogsIn, ReadsToRevoke
    <2>5. CASE PeopleStep
      BY <2>5 DEF PeopleStep, CreatesInvite, DeletesUser
    <2> QED
      BY <2>1, <2>2, <2>3, <2>4, <2>5, NextIs
  <1>3. CASE joined' \subseteq joined
    BY <1>1, <1>3 DEF JoinedHold
  <1>4. ASSUME NEW t \in Threads, Registered(t),
               joined' = joined \cup {<<proc[t].user, proc[t].nonce>>}
        PROVE  JoinedHold'
    <2> DEFINE u == proc[t].user
               n == proc[t].nonce
    <2>1. proc[t].at = "grant" /\ proc[t].left = << >> /\ invites' = invites /\ roles' = roles
      BY <1>4 DEF Registered, At, store
    <2>2. ToSet(<< >>) = {}
      BY EmptySeq, LenProperties DEF ToSet
    <2>3. u # Admin => \A r \in ToSet(invites[n].roles) : u \in roles[r]
      BY <2>1, <2>2 DEF Registering, Owed
    <2> HIDE DEF u, n
    <2>4. <<u, n>>[1] = u /\ <<u, n>>[2] = n
      OBVIOUS
    <2>5. joined' = joined \cup {<<u, n>>}
      BY <1>4 DEF u, n
    <2> QED
      BY <1>1, <2>1, <2>3, <2>4, <2>5 DEF JoinedHold
  <1> QED
    BY <1>2, <1>3, <1>4

LEMMA GrantingStep ==
  ASSUME Typed, RestsWhenDown, Granting, [Next]_vars, Unharmed'
  PROVE  Granting'
  <1>1. Kept
    BY RolesAreKept DEF Granting
  <1>2. AdminIsThere' /\ OnePutEach' /\ HeldCovers'
    BY AdminIsThereStep, OnePutStep, CoversStep DEF Granting
  <1>3. InvitesStand' /\ Registering' /\ JoinedHold'
    BY <1>1, InvitesStandStep, RegisteringStep, JoinedStep DEF Granting
  <1> QED
    BY <1>2, <1>3 DEF Granting

LEMMA InitGranting == Init => Granting
  <1> SUFFICES ASSUME Init PROVE Granting
    OBVIOUS
  <1>1. \A at : AtRest(at).at = at
    BY DEF AtRest
  <1>2. /\ \A w \in Workers : proc[w].at = "off"
        /\ \A t \in Threads : proc[t].at = "idle"
    BY <1>1, AccessAssumption DEF Init, Procs
  <1>3. DOMAIN invites = {} /\ invites = << >> /\ ~done /\ joined = {}
    BY EmptySeq, LenProperties DEF Init
  <1>4. AdminIsThere
    BY <1>2, <1>3 DEF AdminIsThere, AdminIsNeeded, At
  <1>5. OnePutEach /\ HeldCovers
    BY <1>2 DEF OnePutEach, HeldCovers, Puts, At, Procs
  <1>6. InvitesStand /\ Registering /\ JoinedHold
    BY <1>2, <1>3 DEF InvitesStand, Registering, Owed, JoinedHold
  <1> QED
    BY <1>4, <1>5, <1>6 DEF Granting

(* Whoever has registered holds every role of the invite, whatever else is *)
(* registered, invited, revoked, deleted, stopped, killed and launched     *)
(* again: the inviter cannot have lost what was promised, and no role is   *)
(* skipped; but two grants of one role must not have overlapped, nor a     *)
(* restart have rewritten the roles.                                       *)
THEOREM RolesAreGranted == Spec => []RegistrationsGrantTheirRoles
  <1> DEFINE I == Typed /\ RestsWhenDown /\ (Unharmed => Granting)
  <1>1. I => RegistrationsGrantTheirRoles
    BY DEF Unharmed, Granting, JoinedHold, RegistrationsGrantTheirRoles
  <1>2. Init => I
    <2>1. Init => RestsWhenDown
      BY InitInstallation DEF Installation
    <2> QED
      BY <2>1, InitTyped, InitGranting
  <1>3. I /\ [Next]_vars => I'
    <2> SUFFICES ASSUME I, [Next]_vars PROVE I'
      OBVIOUS
    <2>1. Typed' /\ RestsWhenDown'
      BY NextTyped, RestsStep
    <2>2. Unharmed' => Unharmed
      BY DisturbedGrows DEF Unharmed
    <2> QED
      BY <2>1, <2>2, GrantingStep
  <1> HIDE DEF I
  <1> QED
    BY <1>1, <1>2, <1>3, PTL DEF Spec
=============================================================================
