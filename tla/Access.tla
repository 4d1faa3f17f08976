------------------------------- MODULE Access -------------------------------
(***************************************************************************)
(* How the API server comes up, and how people get into it.                *)
(*                                                                         *)
(* Every worker process runs check_or_wait_initialization before it        *)
(* serves: one of them takes a lock file and primes the store with the     *)
(* roles and the admin user, the others wait.  Once a worker serves, its   *)
(* pool threads run the requests of people: invitations, registrations,    *)
(* logins.  What outlives the processes is the store (users, roles,        *)
(* invites) and three files: the configuration, the lock and the flag that *)
(* says the initialisation is done.                                        *)
(*                                                                         *)
(* Nothing is atomic but a single call to the store or to the file system: *)
(* every role is granted by reading it and putting it back whole, every    *)
(* update of the configuration truncates the file before it writes it.     *)
(***************************************************************************)
EXTENDS Naturals, Sequences, SequencesExt, FiniteSets

CONSTANTS Workers, Threads,
          Crews,    \* the sets of workers that a launch may start
          Users,    \* who may register
          Admin,    \* ADMIN_USER, whom the initialisation registers; a user may
                    \*   register under the name too, if it is free
          Grants,   \* the lists of roles that people are invited to
          MaxInvites,
          MaxEvents \* bounds; an event is a registration, login, revocation or deletion,
                    \* a stop or a kill of the server, a call of the
                    \* initialisation that raises, and, twice, a worker more than one

Roles == {"admin-role", "reader-role", "inviter-role"}
People == Users \cup {Admin}

ASSUME AccessAssumption ==
  /\ Admin \notin Users /\ Workers \cap Threads = {}
  /\ Crews \subseteq (SUBSET Workers) \ {{}} /\ IsFiniteSet(Workers)
  /\ Grants \subseteq Seq(Roles)
  /\ {MaxInvites, MaxEvents} \subseteq Nat

VARIABLES server,    \* "down", "up", or "stopping" after a SIGTERM
          conf,      \* config.yaml: "fresh" before anybody has logged in,
                     \*   "ready" with a current context, "empty" while it is
                     \*   truncated or cannot be parsed
          secret,    \* which of the secrets of the API server it holds
          lock,      \* api_server_init.lock exists
          done,      \* api_server_init_done.flag exists
          users, roles, \* the store: names, and the users of every role
          invites,   \* the store: by nonce, with what the token says
          proc,      \* the workers' main threads and the pool threads
          events,
          joined,    \* history: the registrations that succeeded
          disturbed  \* history: what has come in between

files == <<conf, secret, lock, done>>
store == <<users, roles, invites>>
vars == <<server, conf, secret, lock, done, users, roles, invites, proc,
          events, joined, disturbed>>

Procs == Workers \cup Threads
ConfState == {"fresh", "ready", "empty"}
Disturbances == {"stale", "raced", "regenerated", "overlapped", "reinstalled", "torn", "deposed"}

\* Of a process: where it is; the user and the invite its request is about;
\* the roles it still has to write; and what it has read: the users of a role,
\* the configuration, whether an invite is used.
Proc == [at : {"off", "check", "wait", "lock", "roles", "context", "flag", "unlock",
               "raise", "serve", "failed",                                 \* of a worker
               "idle", "use", "revoke",                                    \* of a thread
               "find", "create", "grant", "put", "login", "truncate", "fill", \* of both
               "rewrite", "refill"},
         user : People, nonce : Nat, left : Seq(Roles),
         held : SUBSET People, read : ConfState, used : BOOLEAN]

Invite == [used : BOOLEAN, revoked : BOOLEAN, by : People, roles : Grants, secret : Nat]

TypeOK ==
  /\ server \in {"down", "up", "stopping"}
  /\ conf \in ConfState /\ secret \in Nat
  /\ lock \in BOOLEAN /\ done \in BOOLEAN
  /\ users \subseteq People /\ roles \in [Roles -> SUBSET People]
  /\ invites \in Seq(Invite)
  /\ \A n \in DOMAIN invites : invites[n].secret <= secret
  /\ proc \in [Procs -> Proc]
  /\ \A t \in Threads : proc[t].nonce \in {0} \cup DOMAIN invites
  /\ \A p \in Procs : proc[p].at = "put" => proc[p].left # << >> /\ proc[p].user \in proc[p].held
  /\ events \in 0 .. MaxEvents
  /\ joined \subseteq People \X (DOMAIN invites)
  /\ disturbed \subseteq Disturbances

AtRest(at) == [at |-> at, user |-> Admin, nonce |-> 0, left |-> << >>,
               held |-> {}, read |-> "empty", used |-> FALSE]

Init == /\ server = "down" /\ conf = "fresh" /\ secret = 0 /\ lock = FALSE /\ done = FALSE
        /\ users = {} /\ roles = [r \in Roles |-> {}] /\ invites = << >>
        /\ proc = [p \in Procs |-> AtRest(IF p \in Workers THEN "off" ELSE "idle")]
        /\ events = 0
        /\ joined = {} /\ disturbed = {}

At(p, at) == proc[p].at = at
Writes(p) == proc[p].at \in {"fill", "refill"}
Goes(p, at) == proc' = [proc EXCEPT ![p].at = at]
Ends(p) == proc' = [proc EXCEPT ![p] = AtRest("idle")]
Disturb(kinds) == disturbed' = disturbed \cup kinds
Event == events < MaxEvents /\ events' = events + 1

-----------------------------------------------------------------------------
(* The launcher, and the ends of the server.                               *)

\* generate_manager_config raises if the configuration is unreadable, keeps one
\* for the same host and port, and else makes a new one with a new secret.
GeneratesConfig(elsewhere) ==
  LET anew == elsewhere \/ secret = 0
  IN /\ conf # "empty"
     /\ conf' = IF anew THEN "fresh" ELSE conf
     /\ secret' = IF anew THEN secret + 1 ELSE secret

\* launch_server.py, with the store running; --reset removes the flag.  uvicorn
\* then starts the given number of worker processes.
Launch(elsewhere, reset, started) ==
  /\ server = "down" /\ GeneratesConfig(elsewhere)
  /\ server' = "up"
  /\ events' = events + 2 * (Cardinality(started) - 1) /\ events' <= MaxEvents
  /\ done' = (done /\ ~reset)
  /\ proc' = [p \in Procs |-> IF p \in started THEN AtRest("check") ELSE proc[p]]
  /\ Disturb({d \in {"regenerated"} : secret' # secret /\ done'})
  /\ UNCHANGED <<lock, store, joined>>

\* launch_skyshift.sh --kill: the files stay as they are.
Kill ==
  /\ server # "down" /\ Event
  /\ server' = "down"
  /\ proc' = [p \in Procs |-> AtRest(IF p \in Workers THEN "off" ELSE "idle")]
  /\ Disturb({d \in {"stale"} : lock} \cup {d \in {"torn"} : \E p \in Procs : Writes(p)})
  /\ UNCHANGED <<files, store, joined>>

\* SIGTERM: no new requests; each worker ends its startup first.
Stop == /\ server = "up" /\ Event
        /\ server' = "stopping"
        /\ UNCHANGED <<files, store, proc, joined, disturbed>>

\* The shutdown handler, remove_flag_file, once the requests have ended.
Shutdown(w) ==
  /\ server = "stopping" /\ At(w, "serve")
  /\ \A t \in Threads : At(t, "idle")
  /\ done' = FALSE /\ Goes(w, "off")
  /\ UNCHANGED <<server, conf, secret, lock, store, events, joined, disturbed>>

Down == /\ server = "stopping" /\ server' = "down"
        /\ \A w \in Workers : proc[w].at \in {"off", "failed"}
        /\ \A t \in Threads : At(t, "idle")
        /\ proc' = [p \in Procs |-> AtRest(IF p \in Workers THEN "off" ELSE "idle")]
        /\ UNCHANGED <<files, store, events, joined, disturbed>>

-----------------------------------------------------------------------------
(* check_or_wait_initialization.                                           *)

Checks(w) == /\ At(w, "check") /\ Goes(w, IF done THEN "serve" ELSE "wait")
             /\ UNCHANGED <<server, files, store, events, joined, disturbed>>

\* The loop ends when the lock file is gone; then the flag is tested again.
SeesNoLock(w) == /\ At(w, "wait") /\ ~lock
                 /\ Goes(w, IF done THEN "serve" ELSE "lock")
                 /\ UNCHANGED <<server, files, store, events, joined, disturbed>>

\* open(lock, 'a') succeeds even if another worker has just created it.  The
\* hook begins: a namespace, and then the three roles.
InstalledRoles == <<"admin-role", "reader-role", "inviter-role">>

(* Mutant of Locks: the flag is set when the initialisation begins.        *)
LocksAndFlags(w) ==
  /\ At(w, "lock") /\ lock' = TRUE /\ done' = TRUE
  /\ proc' = [proc EXCEPT ![w] = [AtRest("roles") EXCEPT !.left = InstalledRoles]]
  /\ Disturb(IF lock THEN {"raced"} ELSE {})
  /\ UNCHANGED <<server, conf, secret, store, events, joined>>

Locks(w) ==
  /\ At(w, "lock") /\ lock' = TRUE
  /\ proc' = [proc EXCEPT ![w] = [AtRest("roles") EXCEPT !.left = InstalledRoles]]
  /\ Disturb(IF lock THEN {"raced"} ELSE {})
  /\ UNCHANGED <<server, conf, secret, done, store, events, joined>>

\* A role is written whole, whoever has been granted it since.  After the last
\* the secret is read, for the invite of the admin user.
InstalledUsers(r) == IF r = "inviter-role" THEN {} ELSE {Admin}
InstallsRole(w) ==
  LET r == Head(proc[w].left)
  IN /\ At(w, "roles") /\ proc[w].left # << >>
     /\ roles' = [roles EXCEPT ![r] = InstalledUsers(r)]
     /\ proc' = [proc EXCEPT ![w].left = Tail(@)]
     /\ Disturb(IF roles[r] \subseteq {Admin} THEN {} ELSE {"reinstalled"})
     /\ UNCHANGED <<server, files, users, invites, events, joined>>
RegistersAdmin(w) ==
  /\ At(w, "roles") /\ proc[w].left = << >>
  /\ Goes(w, IF conf = "empty" THEN "raise" ELSE "find")
  /\ UNCHANGED <<server, files, store, events, joined, disturbed>>

\* The end of the hook: the current context, if there is none.
SetsContext(w) ==
  /\ At(w, "context")
  /\ \/ conf = "empty" /\ Goes(w, "raise")
     \/ conf = "ready" /\ Goes(w, "flag")
     \/ conf = "fresh" /\ proc' = [proc EXCEPT ![w].at = "rewrite", ![w].read = "ready"]
  /\ UNCHANGED <<server, files, store, events, joined, disturbed>>

\* Another call of the hook that raises: the store does not answer.
HookRaises(w) ==
  /\ Event
  /\ At(w, "roles") \/ At(w, "context")
  /\ Goes(w, "raise")
  /\ UNCHANGED <<server, files, store, joined, disturbed>>

Flags(w) == /\ At(w, "flag") /\ done' = TRUE /\ Goes(w, "unlock")
            /\ UNCHANGED <<server, conf, secret, lock, store, events, joined, disturbed>>

(* Mutant of Unlocks: not in a finally clause.                             *)
UnlocksOnSuccess(w) ==
  /\ At(w, "unlock") \/ At(w, "raise")
  /\ proc' = [proc EXCEPT ![w] = AtRest(IF At(w, "unlock") /\ lock THEN "serve" ELSE "failed")]
  /\ lock' = (lock /\ At(w, "raise"))
  /\ UNCHANGED <<server, conf, secret, done, store, events, joined, disturbed>>

\* The finally clause removes the lock file, and raises if another worker has
\* removed it already.
Unlocks(w) ==
  /\ At(w, "unlock") \/ At(w, "raise")
  /\ proc' = [proc EXCEPT ![w] = AtRest(IF At(w, "unlock") /\ lock THEN "serve" ELSE "failed")]
  /\ lock' = FALSE
  /\ UNCHANGED <<server, conf, secret, done, store, events, joined, disturbed>>

-----------------------------------------------------------------------------
(* register_user, for a person with an invite and, in the initialisation,  *)
(* for the admin user, whose own invite nobody else ever sees.             *)

Serving == server = "up" /\ \E w \in Workers : At(w, "serve")
Request(t) == Serving /\ At(t, "idle") /\ Event

Closed(invite) == invite.used \/ invite.revoked
\* _authenticate_by_role: the role itself, or the admin role, whose rules are
\* a superset of those of all others.
Holds(u, r) == u \in roles[r] \/ u \in roles["admin-role"]

\* authenticate_jwt: the token is signed with the secret of the server.
Signed(n) == invites[n].secret = secret

\* The token must be accepted, and the invite still be open.
Registers(t, u, n) ==
  /\ Request(t)
  /\ Signed(n) /\ ~Closed(invites[n])
  /\ proc' = [proc EXCEPT ![t] = [AtRest("use") EXCEPT !.user = u, !.nonce = n]]
  /\ UNCHANGED <<server, files, store, joined, disturbed>>

\* What was read of the invite is written back with one flag set: the invite
\* is revoked if its inviter is gone, and otherwise used.
Uses(t) ==
  LET n == proc[t].nonce
      by == invites[n].by
  IN /\ At(t, "use")
     /\ \/ /\ by \notin users
           /\ invites' = [invites EXCEPT ![n].used = FALSE, ![n].revoked = TRUE]
           /\ Ends(t)
        \/ /\ by \in users /\ ~Holds(by, "inviter-role")
           /\ invites' = invites /\ Ends(t)
        \/ /\ by \in users /\ Holds(by, "inviter-role")
           /\ invites' = [invites EXCEPT ![n].used = TRUE, ![n].revoked = FALSE]
           /\ Goes(t, "find")
     /\ UNCHANGED <<server, files, users, roles, events, joined, disturbed>>

(* Mutant of Finds: the invite is given back when the name is taken.       *)
FindsAndReturns(p) ==
  /\ At(p, "find")
  /\ \/ proc[p].user \notin users /\ Goes(p, "create") /\ UNCHANGED invites
     \/ proc[p].user \in users /\ p \in Workers /\ Goes(p, "login") /\ UNCHANGED invites
     \/ /\ proc[p].user \in users /\ p \in Threads /\ Ends(p)
        /\ invites' = [invites EXCEPT ![proc[p].nonce].used = FALSE]
  /\ UNCHANGED <<server, files, users, roles, events, joined, disturbed>>

\* A user of this name: the request is refused, and the invite stays used.  The
\* hook ignores the refusal and goes on with the login of the admin user.
Finds(p) ==
  /\ At(p, "find")
  /\ \/ proc[p].user \notin users /\ Goes(p, "create")
     \/ proc[p].user \in users /\ p \in Workers /\ Goes(p, "login")
     \/ proc[p].user \in users /\ p \in Threads /\ Ends(p)
  /\ UNCHANGED <<server, files, store, events, joined, disturbed>>

Granted(p) == IF p \in Workers THEN <<"admin-role", "inviter-role">> ELSE invites[proc[p].nonce].roles
Creates(p) ==
  /\ At(p, "create")
  /\ users' = users \cup {proc[p].user}
  /\ proc' = [proc EXCEPT ![p].at = "grant", ![p].left = Granted(p)]
  /\ UNCHANGED <<server, files, roles, invites, events, joined, disturbed>>

MayGrant(p, r) == IF p \in Workers THEN TRUE ELSE Holds(invites[proc[p].nonce].by, r)

\* The roles are granted one by one; one that the inviter does not hold is
\* left out, and the registration succeeds all the same.
GrantReads(p) ==
  LET r == Head(proc[p].left)
  IN /\ At(p, "grant") /\ proc[p].left # << >>
     /\ proc' = IF MayGrant(p, r)
                THEN [proc EXCEPT ![p].at = "put", ![p].held = roles[r] \cup {proc[p].user}]
                ELSE [proc EXCEPT ![p].left = Tail(@)]
     /\ Disturb({d \in {"overlapped"} : /\ MayGrant(p, r)
                                       /\ \E q \in Procs : At(q, "put") /\ Head(proc[q].left) = r})
     /\ UNCHANGED <<server, files, store, events, joined>>

GrantPuts(p) ==
  /\ At(p, "put")
  /\ roles' = [roles EXCEPT ![Head(proc[p].left)] = proc[p].held]
  /\ proc' = [proc EXCEPT ![p].at = "grant", ![p].left = Tail(@), ![p].held = {}]
  /\ UNCHANGED <<server, files, users, invites, events, joined, disturbed>>

Registered(p) ==
  /\ At(p, "grant") /\ proc[p].left = << >>
  /\ \/ p \in Workers /\ Goes(p, "login") /\ UNCHANGED joined
     \/ p \in Threads /\ Ends(p) /\ joined' = joined \cup {<<proc[p].user, proc[p].nonce>>}
  /\ UNCHANGED <<server, files, store, events, disturbed>>

-----------------------------------------------------------------------------
(* _login_user: the new token goes to the configuration, which is read,    *)
(* truncated, and written.  The hook writes its current context so too.    *)

LogsIn(t) ==
  /\ Request(t) /\ users # {}
  /\ proc' = [proc EXCEPT ![t] = AtRest("login")]
  /\ UNCHANGED <<server, files, store, joined, disturbed>>

LoginReads(p) ==
  /\ At(p, "login")
  /\ \/ conf # "empty" /\ proc' = [proc EXCEPT ![p].at = "truncate", ![p].read = conf]
     \/ conf = "empty" /\ p \in Workers /\ Goes(p, "raise")
     \/ conf = "empty" /\ p \in Threads /\ Ends(p)
  /\ UNCHANGED <<server, files, store, events, joined, disturbed>>

Truncates(p) ==
  /\ \/ At(p, "truncate") /\ Goes(p, "fill")
     \/ At(p, "rewrite") /\ Goes(p, "refill")
  /\ conf' = "empty"
  /\ UNCHANGED <<server, secret, lock, done, store, events, joined, disturbed>>

\* What somebody else has written since may be longer: its end then remains.
Fills(p) ==
  /\ \/ At(p, "fill") /\ p \in Workers /\ Goes(p, "context")
     \/ At(p, "fill") /\ p \in Threads /\ Ends(p)
     \/ At(p, "refill") /\ Goes(p, "flag")
  /\ conf' \in {proc[p].read} \cup (IF conf = "empty" THEN {} ELSE {"empty"})
  /\ Disturb({d \in {"torn"} : conf # "empty"})
  /\ UNCHANGED <<server, secret, lock, done, store, events, joined>>

-----------------------------------------------------------------------------
(* create_invite, revoke_invite and delete_user.                           *)

(* Mutant of CreatesInvite: the roles of the inviter are not looked at.    *)
CreatesAnyInvite(u, list) ==
  /\ Serving /\ Len(invites) < MaxInvites /\ u \in users /\ conf # "empty" /\ Holds(u, "inviter-role")
  /\ invites' = Append(invites, [used |-> FALSE, revoked |-> FALSE, by |-> u,
                                 roles |-> list, secret |-> secret])
  /\ UNCHANGED <<server, files, users, roles, proc, events, joined, disturbed>>

\* Only what the inviter holds can be granted.  An invite whose token cannot
\* be signed, because the configuration is unreadable, is never heard of.
CreatesInvite(u, list) ==
  /\ Serving /\ Len(invites) < MaxInvites
  /\ u \in users /\ conf # "empty"
  /\ Holds(u, "inviter-role") /\ \A r \in ToSet(list) : Holds(u, r)
  /\ invites' = Append(invites, [used |-> FALSE, revoked |-> FALSE, by |-> u,
                                 roles |-> list, secret |-> secret])
  /\ UNCHANGED <<server, files, users, roles, proc, events, joined, disturbed>>

\* Only the inviter revokes, used or not; the rest is written as it was read.
ReadsToRevoke(t, n) ==
  /\ Request(t) /\ invites[n].by \in users /\ Signed(n)
  /\ proc' = [proc EXCEPT ![t] = [AtRest("revoke") EXCEPT !.nonce = n, !.used = invites[n].used]]
  /\ UNCHANGED <<server, files, store, joined, disturbed>>
Revokes(t) ==
  /\ At(t, "revoke")
  /\ invites' = [invites EXCEPT ![proc[t].nonce].revoked = TRUE,
                               ![proc[t].nonce].used = proc[t].used]
  /\ Ends(t)
  /\ UNCHANGED <<server, files, users, roles, events, joined, disturbed>>

\* Whoever holds the admin role deletes any user, the admin user included.  The
\* roles keep the name.
DeletesUser(u) ==
  /\ Serving /\ roles["admin-role"] # {} /\ Event
  /\ u \in users /\ users' = users \ {u}
  /\ joined' = {j \in joined : j[1] # u}
  /\ Disturb({d \in {"deposed"} : u = Admin})
  /\ UNCHANGED <<server, files, roles, invites, proc>>

-----------------------------------------------------------------------------

StartStep(w) == \/ Checks(w) \/ SeesNoLock(w) \/ Locks(w) \/ InstallsRole(w) \/ RegistersAdmin(w)
                \/ SetsContext(w) \/ Flags(w) \/ Unlocks(w)
CommonStep(p) == \/ Finds(p) \/ Creates(p) \/ GrantReads(p) \/ GrantPuts(p) \/ Registered(p)
                 \/ LoginReads(p) \/ Truncates(p) \/ Fills(p)
ThreadStep(t) == Uses(t) \/ Revokes(t)

NewRequest(t) ==
  \/ \E u \in People, n \in DOMAIN invites : Registers(t, u, n)
  \/ LogsIn(t)
  \/ \E n \in DOMAIN invites : ReadsToRevoke(t, n)

Next ==
  \/ \E elsewhere, reset \in BOOLEAN, started \in Crews :
        Launch(elsewhere, reset, started)
  \/ Kill \/ Stop \/ Down
  \/ \E w \in Workers : StartStep(w) \/ HookRaises(w) \/ Shutdown(w)
  \/ \E p \in Procs : CommonStep(p)
  \/ \E t \in Threads : ThreadStep(t) \/ NewRequest(t)
  \/ \E u \in People, list \in Grants : CreatesInvite(u, list)
  \/ \E u \in People : DeletesUser(u)

Spec == Init /\ [][Next]_vars

\* The startup of every worker goes on; nobody has to launch, kill, stop or
\* request anything, nothing has to fail, and no request has to end.
FairSpec == Spec /\ \A w \in Workers : WF_vars(StartStep(w) \/ CommonStep(w))

-----------------------------------------------------------------------------

\* Whoever reaches a worker that serves finds the admin user, its role and a
\* configuration with a current context, or one that a process has just
\* truncated and is about to fill: check_or_wait_initialization makes the
\* workers wait for that.  Unless two workers have been inside at once, or the
\* launcher has generated a new configuration while the flag of a killed server
\* was still there; unless somebody has deleted the admin user; and unless two
\* processes have written the configuration over one another, or one was killed
\* while it did.
ServingMeansInstalled ==
  Serving /\ disturbed \cap {"raced", "regenerated"} = {} =>
    /\ Admin \in users \/ "deposed" \in disturbed
    /\ Admin \in roles["admin-role"]
    /\ \/ conf = "ready"
       \/ conf = "empty" /\ ((\E p \in Procs : Writes(p)) \/ "torn" \in disturbed)

\* ... and all parts keep their types.
AccessIsSound == TypeOK /\ ServingMeansInstalled

\* An invite that is used or revoked stays so, whatever registrations and
\* revocations overlap: each of them puts back whole what it has read.
InvitesStayClosed ==
  [][\A n \in DOMAIN invites : Closed(invites[n]) => Closed(invites'[n])]_vars

\* Whoever has registered holds every role of the invite, also those that the
\* inviter had to hold at the time of the invitation and again at the time of
\* the registration.  Unless two of them were granted a role at the same time,
\* or a restart has rewritten the roles.  (Not who registers under the name of
\* a deleted admin user: the hook writes the roles of that name.)
RegistrationsGrantTheirRoles ==
  disturbed \cap {"overlapped", "reinstalled"} = {} =>
    \A j \in joined : j[1] # Admin => \A r \in ToSet(invites[j[2]].roles) : j[1] \in roles[r]

\* A worker that starts comes to serve, or fails and says so: the lock of the
\* worker it waits for is removed even if the hook raises.  Unless the server
\* was killed while the lock was there.
StartersGetThrough ==
  \A w \in Workers :
    At(w, "check") ~> (proc[w].at \in {"serve", "failed", "off"} \/ "stale" \in disturbed)
=============================================================================
