-------------------------------- MODULE Accounts --------------------------------
(***************************************************************************)
(* Signing in with one e-mail address: registration, login and OAuth       *)
(* (worker/database/services/AuthService.ts), which create the account and *)
(* then a session (SessionService.ts).  Every request is a sequence of D1  *)
(* statements without a transaction.                                       *)
(***************************************************************************)
EXTENDS Integers, FiniteSets

CONSTANTS
  Requests,      \* slots for sign-ins in progress
  MaxSessions,   \* SessionService.config.maxSessions
  MaxCreated, MaxTime, MaxTroubles   \* bounds

AccountsAssumption ==
  /\ MaxSessions \in Nat \ {0} /\ {MaxCreated, MaxTime, MaxTroubles} \subseteq Nat
  /\ IsFiniteSet(Requests)

VARIABLES
  account,   \* how the row of users was made
  rows,      \* the sessions table
  requests,
  now,       \* last_activity is kept in seconds
  laterFirst,   \* how the database orders sessions of one second
  created,   \* history: sessions ever created
  troubles

vars == <<account, rows, requests, now, laterFirst, created, troubles>>

Session == [id : 1..MaxCreated, at : 0..MaxTime]   \* ids in the order of insertion
Stages == {"off", "register", "oauth", "clean", "delete", "insert"}
NoRequest == [pc |-> "off", doomed |-> {}]

TypeOK ==
  /\ account \in {"none", "password", "oauth"}
  /\ rows \subseteq [session : Session, revoked : BOOLEAN]
  /\ requests \in [Requests -> [pc : Stages, doomed : SUBSET Session]]
  /\ now \in 0..MaxTime /\ laterFirst \in BOOLEAN /\ troubles \in 0..MaxTroubles
  /\ created \subseteq Session

Init ==
  /\ account = "none" /\ rows = {} /\ requests = [r \in Requests |-> NoRequest]
  /\ now = 0 /\ laterFirst \in BOOLEAN /\ created = {} /\ troubles = 0

Stored == {row.session : row \in rows}
To(r, pc) == requests' = [requests EXCEPT ![r].pc = pc]
Done(r) == requests' = [requests EXCEPT ![r] = NoRequest]
Tables == <<account, rows, laterFirst, created>>

(* ORDER BY last_activity DESC, with ties in the order of one query plan.  *)
Before(s, t) ==
  \/ s.at > t.at
  \/ s.at = t.at /\ IF laterFirst THEN s.id > t.id ELSE s.id < t.id

-----------------------------------------------------------------------------
(* register, up to its first await that matters: the address must be new.  *)
Register(r) ==
  /\ requests[r].pc = "off" /\ account = "none"
  /\ To(r, "register")
  /\ UNCHANGED <<Tables, now, troubles>>

(* The insertion, much later for a registration: the password is hashed    *)
(* first.  users.email is unique, so it fails if the account exists now.   *)
CreateAccount(r) ==
  /\ requests[r].pc \in {"register", "oauth"}
  /\ IF account = "none"
       THEN /\ account' = IF requests[r].pc = "register" THEN "password" ELSE "oauth"
            /\ To(r, "clean")
       ELSE Done(r) /\ UNCHANGED account
  /\ UNCHANGED <<rows, laterFirst, created, now, troubles>>

(* login needs an account with a password.                                 *)
Login(r) ==
  /\ requests[r].pc = "off" /\ account = "password"
  /\ To(r, "clean")
  /\ UNCHANGED <<Tables, now, troubles>>

(* handleOAuthCallback, findOrCreateOAuthUser: an account that exists is   *)
(* used, and keeps its password.                                           *)
OAuth(r) ==
  /\ requests[r].pc = "off"
  /\ To(r, IF account = "none" THEN "oauth" ELSE "clean")
  /\ UNCHANGED <<Tables, now, troubles>>

-----------------------------------------------------------------------------
\* Mutant: the sessions are not sorted.
CleanupUserSessions_Unsorted(r) ==
  /\ requests[r].pc = "clean"
  /\ \E kept \in SUBSET Stored :
       /\ Cardinality(kept) = (IF Cardinality(Stored) < MaxSessions THEN Cardinality(Stored)
                               ELSE MaxSessions)
       /\ requests' = [requests EXCEPT ![r] =
            [pc |-> IF kept = Stored THEN "insert" ELSE "delete", doomed |-> Stored \ kept]]
  /\ UNCHANGED <<Tables, now, troubles>>

(* createSession, cleanupUserSessions: the sessions are read, revoked ones *)
(* too, by their last activity.                                           *)
CleanupUserSessions(r) ==
  /\ requests[r].pc = "clean"
  /\ \E kept \in SUBSET Stored :
       /\ \A k \in kept, d \in Stored \ kept : Before(k, d)
       /\ Cardinality(kept) = (IF Cardinality(Stored) < MaxSessions THEN Cardinality(Stored)
                               ELSE MaxSessions)
       /\ requests' = [requests EXCEPT ![r] =
            [pc |-> IF kept = Stored THEN "insert" ELSE "delete", doomed |-> Stored \ kept]]
  /\ UNCHANGED <<Tables, now, troubles>>

(* The others are deleted one by one, the most recent first.               *)
DeleteSession(r) ==
  /\ requests[r].pc = "delete"
  /\ \E d \in requests[r].doomed :
       /\ \A e \in requests[r].doomed \ {d} : Before(d, e)
       /\ rows' = {row \in rows : row.session # d}
       /\ requests' = [requests EXCEPT ![r] =
            [pc |-> IF @.doomed = {d} THEN "insert" ELSE "delete", doomed |-> @.doomed \ {d}]]
  /\ UNCHANGED <<account, laterFirst, created, now, troubles>>

(* Errors of the cleanup are logged.                                       *)
CleanupFails(r) ==
  /\ requests[r].pc \in {"clean", "delete"} /\ troubles < MaxTroubles
  /\ troubles' = troubles + 1
  /\ requests' = [requests EXCEPT ![r] = [pc |-> "insert", doomed |-> {}]]
  /\ UNCHANGED <<Tables, now>>

InsertSession(r) ==
  /\ requests[r].pc = "insert"
  /\ Cardinality(created) < MaxCreated
  /\ LET s == [id |-> Cardinality(created) + 1, at |-> now]
     IN /\ rows' = rows \cup {[session |-> s, revoked |-> FALSE]}
        /\ created' = created \cup {s}
  /\ Done(r)
  /\ UNCHANGED <<account, laterFirst, now, troubles>>

(* A statement fails, and the sign-in with it: what it did stays.          *)
SignInFails(r) ==
  /\ requests[r].pc \in {"register", "oauth", "insert"} /\ troubles < MaxTroubles
  /\ troubles' = troubles + 1
  /\ Done(r)
  /\ UNCHANGED <<Tables, now>>

(* revokeSessionId at a logout, and revokeUserSession: an update by id.    *)
RevokeSession(i) ==
  /\ i \in {s.id : s \in created}
  /\ rows' = {IF row.session.id = i THEN [row EXCEPT !.revoked = TRUE] ELSE row : row \in rows}
  /\ UNCHANGED <<account, requests, now, laterFirst, created, troubles>>

Tick ==
  /\ now < MaxTime /\ now' = now + 1
  /\ UNCHANGED <<Tables, requests, troubles>>

Next ==
  \/ \E r \in Requests :
       \/ Register(r) \/ CreateAccount(r) \/ Login(r) \/ OAuth(r)
       \/ CleanupUserSessions(r) \/ DeleteSession(r) \/ CleanupFails(r)
       \/ InsertSession(r) \/ SignInFails(r)
  \/ \E i \in 1..MaxCreated : RevokeSession(i)
  \/ Tick

Spec == Init /\ [][Next]_vars

-----------------------------------------------------------------------------
(* A session is only ever deleted for MaxSessions others that are no older *)
(* and all still there, whatever sign-ins clean up at once.                *)
RecentSessionsKept ==
  \A s \in created \ Stored : Cardinality({t \in Stored : t.at >= s.at}) >= MaxSessions

(* The cleanup keeps maxSessions before one more is inserted, so there are *)
(* never more than that and one for each sign-in that runs at once and     *)
(* each that could not clean up.                                           *)
SessionsBounded == Cardinality(rows) <= MaxSessions + Cardinality(Requests) + troubles

(* Cleaning up deletes enough sessions and none too many, whatever         *)
(* sign-ins interleave (SessionService.ts:282, cleanupUserSessions).       *)
SessionsLimited == RecentSessionsKept /\ SessionsBounded
==================================================================================
