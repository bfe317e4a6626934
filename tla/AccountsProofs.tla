------------------------------ MODULE AccountsProofs ------------------------------
(***************************************************************************)
(* The sessions of an account stay limited whatever sign-ins clean up at   *)
(* once: a theorem for every number of sign-ins, sessions and failures.    *)
(***************************************************************************)
EXTENDS Accounts, FiniteSetTheorems, TLAPS

(* Sign-ins that still delete, and those about to insert a session.        *)
Deleting == {r \in Requests : requests[r].pc = "delete"}
Inserting == {r \in Requests : requests[r].pc = "insert"}
Doomed(X) == UNION {requests[r].doomed : r \in X}

Ahead(s) == {t \in Stored : Before(t, s)}

RequestsType ==
  /\ requests \in [Requests -> [pc : {"off", "register", "oauth", "clean", "delete", "insert"},
                                doomed : SUBSET Session]]
  /\ \A r \in Requests : requests[r].doomed \subseteq created

RowsType ==
  /\ rows \subseteq [session : Session, revoked : BOOLEAN]
  /\ IsFiniteSet(created) /\ created \subseteq Session /\ Stored \subseteq created
  /\ \A s \in created : s.id <= Cardinality(created)
  /\ \A x, y \in rows : x.session = y.session => x = y
  /\ now \in 0..MaxTime /\ laterFirst \in BOOLEAN /\ troubles \in Nat

(* Enough sessions are ahead of any that was deleted or is to be.          *)
Kept ==
  \A s \in (created \ Stored) \cup Doomed(Requests) : Cardinality(Ahead(s)) >= MaxSessions

(* What is left when any of the sign-ins that delete are through, and what *)
(* they and the others are about to insert.                                *)
Room ==
  \A X \in SUBSET Deleting :
    Cardinality(Stored \ Doomed(X)) + Cardinality(Inserting \cup X)
      <= MaxSessions + Cardinality(Requests) + troubles

IInv == RequestsType /\ RowsType /\ Kept /\ Room

-----------------------------------------------------------------------------
(* Counting.                                                               *)
LEMMA Fewer ==
  ASSUME NEW T, IsFiniteSet(T), NEW S, S \subseteq T
  PROVE  /\ IsFiniteSet(S) /\ Cardinality(S) \in Nat /\ Cardinality(T) \in Nat
         /\ Cardinality(S) <= Cardinality(T)
BY FS_Subset, FS_CardinalityType

LEMMA OneMore ==
  ASSUME NEW T, IsFiniteSet(T), NEW x, NEW S, S \subseteq T \cup {x}
  PROVE  /\ IsFiniteSet(S) /\ Cardinality(S) \in Nat /\ Cardinality(T) \in Nat
         /\ Cardinality(S) <= Cardinality(T) + 1
<1>1. IsFiniteSet(T \cup {x})
      /\ (Cardinality(T \cup {x}) = Cardinality(T)
            \/ Cardinality(T \cup {x}) = Cardinality(T) + 1)
  BY FS_AddElement
<1> QED
  BY <1>1, Fewer, FS_CardinalityType

LEMMA OneLess ==
  ASSUME NEW T, IsFiniteSet(T), NEW x \in T, NEW S, S \subseteq T \ {x}
  PROVE  /\ IsFiniteSet(S) /\ Cardinality(S) \in Nat /\ Cardinality(T) \in Nat
         /\ Cardinality(S) <= Cardinality(T) - 1
<1>1. IsFiniteSet(T \ {x}) /\ Cardinality(T \ {x}) = Cardinality(T) - 1
  BY FS_RemoveElement
<1> QED
  BY <1>1, Fewer, FS_CardinalityType

LEMMA BeforeOrder ==
  ASSUME NEW a \in Session, NEW b \in Session, NEW c \in Session
  PROVE  ~Before(a, a) /\ (Before(a, b) /\ Before(b, c) => Before(a, c))
<1>1. /\ a.at \in Int /\ b.at \in Int /\ c.at \in Int
      /\ a.id \in Int /\ b.id \in Int /\ c.id \in Int
  BY DEF Session
<1> QED
  BY <1>1 DEF Before

LEMMA StoredFinite ==
  ASSUME RowsType
  PROVE  IsFiniteSet(Stored) /\ Cardinality(Stored) \in Nat
BY Fewer DEF RowsType

-----------------------------------------------------------------------------
(* How Kept and Room survive a step.                                       *)

(* No row is lost, and nothing else is doomed.                             *)
LEMMA KeptGrows ==
  ASSUME AccountsAssumption, RowsType, RowsType', Kept, laterFirst' = laterFirst,
         Stored \subseteq Stored', created' \ Stored' \subseteq created \ Stored,
         Doomed(Requests)' \subseteq Doomed(Requests)
  PROVE  Kept'
<1> SUFFICES ASSUME NEW s \in ((created \ Stored) \cup Doomed(Requests))'
             PROVE  Cardinality(Ahead(s)') >= MaxSessions
  BY DEF Kept
<1>1. Cardinality(Ahead(s)) >= MaxSessions
  BY DEF Kept
<1>2. Ahead(s) \subseteq Ahead(s)'
  BY DEF Ahead, Before
<1>3. IsFiniteSet(Ahead(s)')
  BY StoredFinite, Fewer DEF RowsType, Ahead
<1>4. Cardinality(Ahead(s)) <= Cardinality(Ahead(s)')
      /\ Cardinality(Ahead(s)) \in Nat /\ Cardinality(Ahead(s)') \in Nat
  BY <1>2, <1>3, Fewer
<1>5. MaxSessions \in Nat
  BY DEF AccountsAssumption
<1> QED
  BY <1>1, <1>4, <1>5

(* A deletion takes a session with enough ahead of it that are not deleted *)
(* and that are ahead of whatever it was ahead of.                         *)
LEMMA KeptDeletes ==
  ASSUME AccountsAssumption, RowsType, RequestsType, Kept, laterFirst' = laterFirst,
         NEW d \in Doomed(Requests), Stored' = Stored \ {d}, created' = created,
         Doomed(Requests)' \subseteq Doomed(Requests)
  PROVE  Kept'
<1> SUFFICES ASSUME NEW s \in ((created \ Stored) \cup Doomed(Requests))'
             PROVE  Cardinality(Ahead(s)') >= MaxSessions
  BY DEF Kept
<1>1. s \in (created \ Stored) \cup Doomed(Requests) \cup {d} /\ s \in Session /\ d \in Session
  BY DEF RowsType, RequestsType, Doomed
<1>2. Cardinality(Ahead(s)) >= MaxSessions /\ Cardinality(Ahead(d)) >= MaxSessions
  BY <1>1 DEF Kept
<1>3. MaxSessions \in Nat
  BY DEF AccountsAssumption
<1>4. Stored \subseteq Session
  BY DEF RowsType
<1>5. Ahead(s)' = Ahead(s) \ {d}
  BY DEF Ahead, Before
<1>6. IsFiniteSet(Ahead(s))
  BY StoredFinite, Fewer DEF Ahead
<1>7. IsFiniteSet(Ahead(s)')
  BY <1>5, <1>6, Fewer
<1>8. CASE d \in Ahead(s)
  <2>1. Ahead(d) \subseteq Ahead(s)'
    <3> SUFFICES ASSUME NEW t \in Ahead(d) PROVE t \in Ahead(s) \ {d}
      BY <1>5
    <3>1. t \in Stored /\ t \in Session /\ Before(t, d) /\ Before(d, s)
      BY <1>4, <1>8 DEF Ahead
    <3>2. Before(t, s) /\ ~Before(d, d)
      BY <1>1, <3>1, BeforeOrder
    <3> QED
      BY <3>1, <3>2 DEF Ahead
  <2>2. Cardinality(Ahead(d)) <= Cardinality(Ahead(s)')
        /\ Cardinality(Ahead(d)) \in Nat /\ Cardinality(Ahead(s)') \in Nat
    BY <1>7, <2>1, Fewer
  <2> QED
    BY <1>2, <1>3, <2>2
<1>9. CASE d \notin Ahead(s)
  BY <1>2, <1>5, <1>9
<1> QED
  BY <1>8, <1>9

(* Nothing is added and no more is about to be, but for what cannot clean  *)
(* up.                                                                     *)
LEMMA RoomShrinks ==
  ASSUME AccountsAssumption, RowsType, troubles' \in Nat, troubles <= troubles', Room,
         \A X \in SUBSET Deleting' : \E Y \in SUBSET Deleting :
           /\ Stored' \ Doomed(X)' \subseteq Stored \ Doomed(Y)
           /\ Inserting' \cup X \subseteq Inserting \cup Y
  PROVE  Room'
<1> SUFFICES ASSUME NEW X \in SUBSET Deleting'
             PROVE  Cardinality(Stored' \ Doomed(X)') + Cardinality(Inserting' \cup X)
                      <= MaxSessions + Cardinality(Requests) + troubles'
  BY DEF Room
<1>1. PICK Y \in SUBSET Deleting :
        /\ Stored' \ Doomed(X)' \subseteq Stored \ Doomed(Y)
        /\ Inserting' \cup X \subseteq Inserting \cup Y
  OBVIOUS
<1> DEFINE left == Stored \ Doomed(Y)
           coming == Inserting \cup Y
<1>2. Cardinality(left) + Cardinality(coming) <= MaxSessions + Cardinality(Requests) + troubles
  BY DEF Room
<1>3. IsFiniteSet(left) /\ IsFiniteSet(coming)
  <2>1. IsFiniteSet(Requests) /\ coming \subseteq Requests
    BY DEF AccountsAssumption, Inserting, Deleting
  <2> QED
    BY <2>1, StoredFinite, Fewer
<1>4. /\ Cardinality(Stored' \ Doomed(X)') <= Cardinality(left)
      /\ Cardinality(Inserting' \cup X) <= Cardinality(coming)
      /\ Cardinality(Stored' \ Doomed(X)') \in Nat /\ Cardinality(left) \in Nat
      /\ Cardinality(Inserting' \cup X) \in Nat /\ Cardinality(coming) \in Nat
  BY <1>1, <1>3, Fewer
<1>5. MaxSessions \in Nat /\ Cardinality(Requests) \in Nat /\ troubles \in Nat
  BY FS_CardinalityType DEF AccountsAssumption, RowsType
<1> HIDE DEF left, coming
<1> QED
  BY <1>2, <1>4, <1>5

(* One that cannot clean up is about to insert.                            *)
LEMMA RoomFails ==
  ASSUME AccountsAssumption, RowsType, troubles' = troubles + 1, Room, NEW r,
         \A X \in SUBSET Deleting' : \E Y \in SUBSET Deleting :
           /\ Stored' \ Doomed(X)' \subseteq Stored \ Doomed(Y)
           /\ Inserting' \cup X \subseteq (Inserting \cup Y) \cup {r}
  PROVE  Room'
<1> SUFFICES ASSUME NEW X \in SUBSET Deleting'
             PROVE  Cardinality(Stored' \ Doomed(X)') + Cardinality(Inserting' \cup X)
                      <= MaxSessions + Cardinality(Requests) + troubles'
  BY DEF Room
<1>1. PICK Y \in SUBSET Deleting :
        /\ Stored' \ Doomed(X)' \subseteq Stored \ Doomed(Y)
        /\ Inserting' \cup X \subseteq (Inserting \cup Y) \cup {r}
  OBVIOUS
<1> DEFINE left == Stored \ Doomed(Y)
           coming == Inserting \cup Y
<1>2. Cardinality(left) + Cardinality(coming) <= MaxSessions + Cardinality(Requests) + troubles
  BY DEF Room
<1>3. IsFiniteSet(left) /\ IsFiniteSet(coming)
  <2>1. IsFiniteSet(Requests) /\ coming \subseteq Requests
    BY DEF AccountsAssumption, Inserting, Deleting
  <2> QED
    BY <2>1, StoredFinite, Fewer
<1>4. /\ Cardinality(Stored' \ Doomed(X)') <= Cardinality(left)
      /\ Cardinality(Stored' \ Doomed(X)') \in Nat /\ Cardinality(left) \in Nat
  BY <1>1, <1>3, Fewer
<1>5. /\ Cardinality(Inserting' \cup X) <= Cardinality(coming) + 1
      /\ Cardinality(Inserting' \cup X) \in Nat /\ Cardinality(coming) \in Nat
  BY <1>1, <1>3, OneMore
<1>6. MaxSessions \in Nat /\ Cardinality(Requests) \in Nat /\ troubles \in Nat
  BY FS_CardinalityType DEF AccountsAssumption, RowsType
<1> HIDE DEF left, coming
<1> QED
  BY <1>2, <1>4, <1>5, <1>6

(* A session is inserted by one that was about to.                         *)
LEMMA RoomInserts ==
  ASSUME AccountsAssumption, RowsType, troubles' = troubles, Room, NEW s,
         NEW r \in Inserting, Inserting' = Inserting \ {r}, Deleting' = Deleting,
         Stored' = Stored \cup {s}, \A X \in SUBSET Deleting : Doomed(X)' = Doomed(X)
  PROVE  Room'
<1> SUFFICES ASSUME NEW X \in SUBSET Deleting
             PROVE  Cardinality(Stored' \ Doomed(X)') + Cardinality(Inserting' \cup X)
                      <= MaxSessions + Cardinality(Requests) + troubles
  BY DEF Room
<1> DEFINE left == Stored \ Doomed(X)
           coming == Inserting \cup X
<1>1. Cardinality(left) + Cardinality(coming) <= MaxSessions + Cardinality(Requests) + troubles
  BY DEF Room
<1>2. IsFiniteSet(left) /\ IsFiniteSet(coming) /\ r \in coming
  <2>1. IsFiniteSet(Requests) /\ coming \subseteq Requests
    BY DEF AccountsAssumption, Inserting, Deleting
  <2> QED
    BY <2>1, StoredFinite, Fewer
<1>3. Stored' \ Doomed(X)' \subseteq left \cup {s}
  OBVIOUS
<1>4. Inserting' \cup X \subseteq coming \ {r}
  BY DEF Inserting, Deleting
<1> HIDE DEF left, coming
<1>5. /\ Cardinality(Stored' \ Doomed(X)') <= Cardinality(left) + 1
      /\ Cardinality(Stored' \ Doomed(X)') \in Nat /\ Cardinality(left) \in Nat
  BY <1>2, <1>3, OneMore
<1>6. /\ Cardinality(Inserting' \cup X) <= Cardinality(coming) - 1
      /\ Cardinality(Inserting' \cup X) \in Nat /\ Cardinality(coming) \in Nat
  BY <1>2, <1>4, OneLess
<1>7. MaxSessions \in Nat /\ Cardinality(Requests) \in Nat /\ troubles \in Nat
  BY FS_CardinalityType DEF AccountsAssumption, RowsType
<1> QED
  BY <1>1, <1>5, <1>6, <1>7

(* A cleanup leaves MaxSessions, and not more insert than there are.       *)
LEMMA RoomCleans ==
  ASSUME AccountsAssumption, RowsType, troubles' = troubles, Room, Stored' = Stored,
         NEW kept, IsFiniteSet(kept), Cardinality(kept) <= MaxSessions,
         \A X \in SUBSET Deleting' :
           \/ /\ X \subseteq Deleting /\ Inserting' = Inserting
              /\ Doomed(X)' = Doomed(X)
           \/ Stored \ Doomed(X)' \subseteq kept
  PROVE  Room'
<1> SUFFICES ASSUME NEW X \in SUBSET Deleting'
             PROVE  Cardinality(Stored' \ Doomed(X)') + Cardinality(Inserting' \cup X)
                      <= MaxSessions + Cardinality(Requests) + troubles
  BY DEF Room
<1>1. CASE X \subseteq Deleting /\ Inserting' = Inserting /\ Doomed(X)' = Doomed(X)
  <2>1. X \in SUBSET Deleting
    BY <1>1
  <2>2. Cardinality(Stored \ Doomed(X)) + Cardinality(Inserting \cup X)
          <= MaxSessions + Cardinality(Requests) + troubles
    BY <2>1 DEF Room
  <2> QED
    BY <1>1, <2>2
<1>2. CASE Stored \ Doomed(X)' \subseteq kept
  <2>1. /\ Cardinality(Stored' \ Doomed(X)') <= Cardinality(kept)
        /\ Cardinality(Stored' \ Doomed(X)') \in Nat /\ Cardinality(kept) \in Nat
    BY <1>2, Fewer
  <2>2. Inserting' \cup X \subseteq Requests /\ IsFiniteSet(Requests)
    BY DEF AccountsAssumption, Inserting, Deleting
  <2>3. /\ Cardinality(Inserting' \cup X) <= Cardinality(Requests)
        /\ Cardinality(Inserting' \cup X) \in Nat /\ Cardinality(Requests) \in Nat
    BY <2>2, Fewer
  <2>4. MaxSessions \in Nat /\ troubles \in Nat
    BY DEF AccountsAssumption, RowsType
  <2> QED
    BY <2>1, <2>3, <2>4
<1> QED
  BY <1>1, <1>2

-----------------------------------------------------------------------------
(* The steps.  A sign-in changes itself only.                              *)
LEMMA RequestChanges ==
  ASSUME RequestsType, NEW r \in Requests,
         NEW new \in [pc : {"off", "register", "oauth", "clean", "delete", "insert"},
                      doomed : SUBSET Session],
         new.doomed \subseteq created, created \subseteq created',
         requests' = [requests EXCEPT ![r] = new]
  PROVE  /\ RequestsType'
         /\ \A q \in Requests : requests'[q] = IF q = r THEN new ELSE requests[q]
         /\ Deleting' = IF new.pc = "delete" THEN Deleting \cup {r} ELSE Deleting \ {r}
         /\ Inserting' = IF new.pc = "insert" THEN Inserting \cup {r} ELSE Inserting \ {r}
         /\ \A X \in SUBSET (Requests \ {r}) : Doomed(X)' = Doomed(X)
         /\ \A X \in SUBSET Requests : r \in X => Doomed(X)' = Doomed(X \ {r}) \cup new.doomed
<1>1. /\ requests' \in [Requests -> [pc : {"off", "register", "oauth", "clean", "delete", "insert"},
                                     doomed : SUBSET Session]]
      /\ \A q \in Requests : requests'[q] = IF q = r THEN new ELSE requests[q]
  BY DEF RequestsType
<1>2. RequestsType'
  BY <1>1 DEF RequestsType
<1>3. /\ Deleting' = IF new.pc = "delete" THEN Deleting \cup {r} ELSE Deleting \ {r}
      /\ Inserting' = IF new.pc = "insert" THEN Inserting \cup {r} ELSE Inserting \ {r}
  BY <1>1 DEF Deleting, Inserting
<1>4. ASSUME NEW X \in SUBSET (Requests \ {r}) PROVE Doomed(X)' = Doomed(X)
  BY <1>1 DEF Doomed
<1>5. ASSUME NEW X \in SUBSET Requests, r \in X
      PROVE  Doomed(X)' = Doomed(X \ {r}) \cup new.doomed
  BY <1>1, <1>5 DEF Doomed
<1> QED
  BY <1>1, <1>2, <1>3, <1>4, <1>5

LEMMA InitInv ==
  ASSUME AccountsAssumption, Init
  PROVE  IInv
<1>1. /\ rows = {} /\ created = {} /\ troubles = 0 /\ now = 0 /\ laterFirst \in BOOLEAN
      /\ \A r \in Requests : requests[r].pc = "off" /\ requests[r].doomed = {}
  BY DEF Init, NoRequest
<1>2. Stored = {} /\ Deleting = {} /\ Inserting = {} /\ Doomed(Requests) = {}
  BY <1>1 DEF Stored, Deleting, Inserting, Doomed
<1>3. RequestsType
  BY <1>1 DEF Init, NoRequest, RequestsType
<1>4. RowsType
  <2>1. MaxTime \in Nat
    BY DEF AccountsAssumption
  <2> QED
    BY <1>1, <1>2, <2>1, FS_EmptySet DEF RowsType
<1>5. Kept
  BY <1>1, <1>2 DEF Kept
<1>6. Room
  <2> SUFFICES ASSUME NEW X \in SUBSET Deleting
               PROVE  Cardinality(Stored \ Doomed(X)) + Cardinality(Inserting \cup X)
                        <= MaxSessions + Cardinality(Requests) + troubles
    BY DEF Room
  <2>1. Stored \ Doomed(X) = {} /\ Inserting \cup X = {}
    BY <1>2
  <2>2. Cardinality({}) = 0
    BY FS_EmptySet
  <2>3. MaxSessions \in Nat /\ Cardinality(Requests) \in Nat
    BY FS_CardinalityType DEF AccountsAssumption
  <2>4. Cardinality(Stored \ Doomed(X)) = 0 /\ Cardinality(Inserting \cup X) = 0
    BY <2>1, <2>2, Zenon
  <2> QED
    BY <1>1, <2>3, <2>4
<1> QED
  BY <1>3, <1>4, <1>5, <1>6 DEF IInv

(* A sign-in that neither deletes nor goes on to insert.                   *)
LEMMA Quiet ==
  ASSUME AccountsAssumption, IInv, NEW r \in Requests, requests[r].pc # "delete",
         NEW new \in [pc : {"off", "register", "oauth", "clean"},
                      doomed : {{}, requests[r].doomed}],
         requests' = [requests EXCEPT ![r] = new],
         UNCHANGED <<rows, created, laterFirst, now>>, troubles' \in Nat, troubles <= troubles'
  PROVE  IInv'
<1> USE DEF IInv
<1>1. /\ new \in [pc : {"off", "register", "oauth", "clean", "delete", "insert"},
                  doomed : SUBSET Session]
      /\ new.doomed \subseteq created /\ new.pc # "delete" /\ new.pc # "insert"
      /\ created' = created /\ created \subseteq created' /\ Stored' = Stored
  BY DEF RequestsType, Stored
<1>2. /\ RequestsType' /\ Deleting' = Deleting \ {r} /\ Inserting' = Inserting \ {r}
      /\ \A q \in Requests : requests'[q] = IF q = r THEN new ELSE requests[q]
      /\ \A X \in SUBSET (Requests \ {r}) : Doomed(X)' = Doomed(X)
  BY <1>1, RequestChanges
<1>3. RowsType'
  BY <1>1 DEF RowsType
<1>4. Kept'
  <2>1. Doomed(Requests)' \subseteq Doomed(Requests)
    BY <1>2 DEF Doomed
  <2> QED
    BY <1>1, <1>3, <2>1, KeptGrows
<1>5. Room'
  <2>1. ASSUME NEW X \in SUBSET Deleting'
        PROVE  X \in SUBSET Deleting /\ Stored' \ Doomed(X)' \subseteq Stored \ Doomed(X)
               /\ Inserting' \cup X \subseteq Inserting \cup X
    <3>1. X \in SUBSET (Requests \ {r}) /\ X \in SUBSET Deleting
      BY <1>2 DEF Deleting
    <3> QED
      BY <1>1, <1>2, <3>1
  <2> QED
    BY <2>1, RoomShrinks
<1> QED
  BY <1>2, <1>3, <1>4, <1>5

LEMMA ToChanges ==
  ASSUME RequestsType, NEW r \in Requests,
         NEW pc \in {"off", "register", "oauth", "clean", "delete", "insert"}, To(r, pc)
  PROVE  requests' = [requests EXCEPT ![r] = [pc |-> pc, doomed |-> requests[r].doomed]]
<1> DEFINE Record == [pc : {"off", "register", "oauth", "clean", "delete", "insert"},
                      doomed : SUBSET Session]
           new == [pc |-> pc, doomed |-> requests[r].doomed]
<1>1. requests \in [Requests -> Record]
  BY DEF RequestsType
<1>2. requests' \in [Requests -> Record]
      /\ \A q \in Requests : q # r => requests'[q] = requests[q]
  BY <1>1 DEF To
<1>3. requests'[r].pc = pc /\ requests'[r].doomed = requests[r].doomed
  BY <1>1 DEF To
<1>4. requests'[r] = new
  BY <1>1, <1>2, <1>3
<1>5. [requests EXCEPT ![r] = new] \in [Requests -> Record]
      /\ \A q \in Requests : [requests EXCEPT ![r] = new][q] = IF q = r THEN new ELSE requests[q]
  BY <1>1
<1> HIDE DEF new, Record
<1> QED
  BY <1>2, <1>4, <1>5 DEF new

LEMMA Cleaning ==
  ASSUME AccountsAssumption, IInv, NEW r \in Requests, CleanupUserSessions(r)
  PROVE  IInv'
<1> USE DEF IInv
<1>1. PICK kept \in SUBSET Stored :
        /\ \A k \in kept, d \in Stored \ kept : Before(k, d)
        /\ Cardinality(kept) = (IF Cardinality(Stored) < MaxSessions THEN Cardinality(Stored)
                                ELSE MaxSessions)
        /\ requests' = [requests EXCEPT ![r] =
             [pc |-> IF kept = Stored THEN "insert" ELSE "delete", doomed |-> Stored \ kept]]
  BY DEF CleanupUserSessions
<1> DEFINE new == [pc |-> IF kept = Stored THEN "insert" ELSE "delete", doomed |-> Stored \ kept]
<1>2. /\ UNCHANGED <<rows, created, laterFirst, now, troubles>> /\ Stored' = Stored
      /\ requests[r].pc = "clean"
  BY DEF CleanupUserSessions, Tables, Stored
<1>3. /\ IsFiniteSet(kept) /\ Cardinality(kept) \in Nat /\ Cardinality(Stored) \in Nat
      /\ IsFiniteSet(Stored) /\ MaxSessions \in Nat
  BY StoredFinite, Fewer DEF AccountsAssumption
<1>4. Cardinality(kept) <= MaxSessions
  BY <1>1, <1>3
<1>5. kept # Stored => Cardinality(kept) = MaxSessions
  <2>1. Cardinality(Stored) = Cardinality(kept) => Stored = kept
    BY <1>3, FS_Subset
  <2> QED
    BY <1>1, <1>3, <2>1
<1>6. /\ new \in [pc : {"off", "register", "oauth", "clean", "delete", "insert"},
                  doomed : SUBSET Session]
      /\ new.doomed \subseteq created /\ created \subseteq created'
      /\ requests' = [requests EXCEPT ![r] = new]
  BY <1>1, <1>2 DEF RowsType
<1>7. new.doomed = Stored \ kept /\ (new.pc = "insert" => kept = Stored)
  OBVIOUS
<1> HIDE DEF new
<1>8. /\ RequestsType'
      /\ \A q \in Requests : requests'[q] = IF q = r THEN new ELSE requests[q]
      /\ Deleting' = IF new.pc = "delete" THEN Deleting \cup {r} ELSE Deleting \ {r}
      /\ Inserting' = IF new.pc = "insert" THEN Inserting \cup {r} ELSE Inserting \ {r}
      /\ \A X \in SUBSET (Requests \ {r}) : Doomed(X)' = Doomed(X)
      /\ \A X \in SUBSET Requests : r \in X => Doomed(X)' = Doomed(X \ {r}) \cup (Stored \ kept)
  <2>1. \A X \in SUBSET Requests : r \in X => Doomed(X)' = Doomed(X \ {r}) \cup new.doomed
    BY <1>6, RequestChanges
  <2>2. /\ RequestsType'
        /\ \A q \in Requests : requests'[q] = IF q = r THEN new ELSE requests[q]
        /\ Deleting' = IF new.pc = "delete" THEN Deleting \cup {r} ELSE Deleting \ {r}
        /\ Inserting' = IF new.pc = "insert" THEN Inserting \cup {r} ELSE Inserting \ {r}
        /\ \A X \in SUBSET (Requests \ {r}) : Doomed(X)' = Doomed(X)
    BY <1>6, RequestChanges
  <2> QED
    BY <1>7, <2>1, <2>2
<1>9. RowsType'
  BY <1>2 DEF RowsType
<1>10. Kept'
  <2> SUFFICES ASSUME NEW s \in ((created \ Stored) \cup Doomed(Requests))'
               PROVE  Cardinality(Ahead(s)') >= MaxSessions
    BY DEF Kept
  <2>1. Ahead(s)' = Ahead(s)
    BY <1>2 DEF Ahead, Before
  <2>2. CASE s \in (created \ Stored) \cup Doomed(Requests)
    BY <2>1, <2>2 DEF Kept
  <2>3. CASE s \in Stored \ kept
    <3>1. kept \subseteq Ahead(s) /\ kept # Stored
      BY <1>1, <2>3 DEF Ahead
    <3>2. IsFiniteSet(Ahead(s))
      BY <1>3, Fewer DEF Ahead
    <3>3. Cardinality(kept) <= Cardinality(Ahead(s))
      BY <3>1, <3>2, Fewer
    <3> QED
      BY <1>5, <2>1, <3>1, <3>3
  <2>4. s \in (created \ Stored) \cup Doomed(Requests) \cup (Stored \ kept)
    <3>1. Doomed(Requests)' = Doomed(Requests \ {r}) \cup (Stored \ kept)
      BY <1>8
    <3>2. Doomed(Requests \ {r}) \subseteq Doomed(Requests)
      BY DEF Doomed
    <3> QED
      BY <1>2, <3>1, <3>2
  <2> QED
    BY <2>2, <2>3, <2>4
<1>11. Room'
  <2>1. ASSUME NEW X \in SUBSET Deleting'
        PROVE  \/ X \subseteq Deleting /\ Inserting' = Inserting /\ Doomed(X)' = Doomed(X)
               \/ Stored \ Doomed(X)' \subseteq kept
    <3>1. X \in SUBSET Requests
      BY DEF Deleting
    <3>2. CASE r \in X
      BY <1>8, <3>1, <3>2
    <3>3. CASE new.pc = "insert"
      BY <1>7, <3>3
    <3>4. CASE r \notin X /\ new.pc # "insert"
      <4>1. X \in SUBSET (Requests \ {r}) /\ X \subseteq Deleting /\ Inserting' = Inserting
        BY <1>2, <1>8, <3>1, <3>4 DEF Inserting
      <4> QED
        BY <1>8, <4>1
    <3> QED
      BY <3>2, <3>3, <3>4
  <2> QED
    BY <1>2, <1>3, <1>4, <2>1, RoomCleans
<1> QED
  BY <1>8, <1>9, <1>10, <1>11

LEMMA Deletion ==
  ASSUME AccountsAssumption, IInv, NEW r \in Requests, DeleteSession(r)
  PROVE  IInv'
<1> USE DEF IInv
<1>1. PICK d \in requests[r].doomed :
        /\ rows' = {row \in rows : row.session # d}
        /\ requests' = [requests EXCEPT ![r] =
             [pc |-> IF requests[r].doomed = {d} THEN "insert" ELSE "delete",
              doomed |-> requests[r].doomed \ {d}]]
  BY DEF DeleteSession, RequestsType
<1>2. /\ UNCHANGED <<created, laterFirst, now, troubles>> /\ requests[r].pc = "delete"
  BY DEF DeleteSession
<1>3. Stored' = Stored \ {d} /\ rows' \subseteq rows
  BY <1>1 DEF Stored
<1> DEFINE new == [pc |-> IF requests[r].doomed = {d} THEN "insert" ELSE "delete",
                   doomed |-> requests[r].doomed \ {d}]
<1>4. /\ new \in [pc : {"off", "register", "oauth", "clean", "delete", "insert"},
                  doomed : SUBSET Session]
      /\ new.doomed \subseteq created /\ created \subseteq created'
      /\ requests' = [requests EXCEPT ![r] = new]
  BY <1>1, <1>2 DEF RequestsType
<1>5. /\ new.doomed = requests[r].doomed \ {d}
      /\ (new.pc = "insert" /\ requests[r].doomed = {d}) \/ new.pc = "delete"
  OBVIOUS
<1> HIDE DEF new
<1>6. /\ RequestsType'
      /\ \A q \in Requests : requests'[q] = IF q = r THEN new ELSE requests[q]
      /\ Deleting' = IF new.pc = "delete" THEN Deleting \cup {r} ELSE Deleting \ {r}
      /\ Inserting' = IF new.pc = "insert" THEN Inserting \cup {r} ELSE Inserting \ {r}
      /\ \A X \in SUBSET (Requests \ {r}) : Doomed(X)' = Doomed(X)
  BY <1>4, RequestChanges
<1>7. RowsType'
  BY <1>2, <1>3 DEF RowsType
<1>8. Kept'
  <2>1. Doomed(Requests)' \subseteq Doomed(Requests) /\ d \in Doomed(Requests)
    BY <1>5, <1>6 DEF Doomed
  <2> QED
    BY <1>2, <1>3, <2>1, KeptDeletes
<1>9. r \in Deleting /\ r \notin Inserting
  BY <1>2 DEF Deleting, Inserting
<1>10. Room'
  <2>1. ASSUME NEW X \in SUBSET Deleting'
        PROVE  \E Y \in SUBSET Deleting :
                 /\ Stored' \ Doomed(X)' \subseteq Stored \ Doomed(Y)
                 /\ Inserting' \cup X \subseteq Inserting \cup Y
    <3>1. X \in SUBSET Deleting /\ X \in SUBSET Requests
      BY <1>6, <1>9 DEF Deleting
    <3>2. CASE new.pc = "insert"
      <4>1. r \notin X /\ Inserting' = Inserting \cup {r} /\ requests[r].doomed = {d}
        BY <1>5, <1>6, <3>2
      <4>2. Doomed(X)' = Doomed(X)
        BY <1>6, <3>1, <4>1
      <4>3. Doomed(X \cup {r}) = Doomed(X) \cup {d}
        BY <4>1 DEF Doomed
      <4>4. X \cup {r} \in SUBSET Deleting
        BY <1>9, <3>1
      <4> QED
        BY <1>3, <4>1, <4>2, <4>3, <4>4
    <3>3. CASE new.pc # "insert"
      <4>1. Inserting' \cup X \subseteq Inserting \cup X
        BY <1>6, <3>3
      <4>2. Doomed(X) \subseteq Doomed(X)' \cup {d}
        BY <1>5, <1>6, <3>1 DEF Doomed
      <4> QED
        BY <1>3, <3>1, <4>1, <4>2
    <3> QED
      BY <3>2, <3>3
  <2>2. troubles' \in Nat /\ troubles <= troubles'
    BY <1>2 DEF RowsType
  <2> QED
    BY <2>1, <2>2, RoomShrinks
<1> QED
  BY <1>6, <1>7, <1>8, <1>10

LEMMA Failing ==
  ASSUME AccountsAssumption, IInv, NEW r \in Requests, CleanupFails(r)
  PROVE  IInv'
<1> USE DEF IInv
<1> DEFINE new == [pc |-> "insert", doomed |-> {}]
<1>1. /\ UNCHANGED <<rows, created, laterFirst, now>> /\ Stored' = Stored
      /\ troubles' = troubles + 1
      /\ requests' = [requests EXCEPT ![r] = new]
  BY DEF CleanupFails, Tables, Stored
<1>2. /\ new \in [pc : {"off", "register", "oauth", "clean", "delete", "insert"},
                  doomed : SUBSET Session]
      /\ new.doomed = {} /\ new.pc = "insert" /\ created \subseteq created'
  BY <1>1
<1> HIDE DEF new
<1>3. /\ RequestsType'
      /\ \A q \in Requests : requests'[q] = IF q = r THEN new ELSE requests[q]
      /\ Deleting' = Deleting \ {r} /\ Inserting' = Inserting \cup {r}
      /\ \A X \in SUBSET (Requests \ {r}) : Doomed(X)' = Doomed(X)
  BY <1>1, <1>2, RequestChanges
<1>4. RowsType'
  BY <1>1 DEF RowsType
<1>5. Kept'
  <2>1. Doomed(Requests)' \subseteq Doomed(Requests)
    BY <1>2, <1>3 DEF Doomed
  <2> QED
    BY <1>1, <1>4, <2>1, KeptGrows
<1>6. Room'
  <2>1. ASSUME NEW X \in SUBSET Deleting'
        PROVE  X \in SUBSET Deleting /\ Stored' \ Doomed(X)' \subseteq Stored \ Doomed(X)
               /\ Inserting' \cup X \subseteq (Inserting \cup X) \cup {r}
    <3>1. X \in SUBSET (Requests \ {r}) /\ X \in SUBSET Deleting
      BY <1>3 DEF Deleting
    <3> QED
      BY <1>1, <1>3, <3>1
  <2> QED
    BY <1>1, <2>1, RoomFails
<1> QED
  BY <1>3, <1>4, <1>5, <1>6

LEMMA Insertion ==
  ASSUME AccountsAssumption, IInv, NEW r \in Requests, InsertSession(r)
  PROVE  IInv'
<1> USE DEF IInv
<1> DEFINE n == Cardinality(created)
           s == [id |-> n + 1, at |-> now]
           row == [session |-> s, revoked |-> FALSE]
           new == [pc |-> "off", doomed |-> {}]
<1>1. /\ requests[r].pc = "insert" /\ n < MaxCreated
      /\ rows' = rows \cup {row}
      /\ created' = created \cup {s}
      /\ requests' = [requests EXCEPT ![r] = new]
      /\ UNCHANGED <<laterFirst, now, troubles>>
  BY DEF InsertSession, Done, NoRequest
<1>2. n \in Nat /\ MaxCreated \in Nat
  BY FS_CardinalityType DEF RowsType, AccountsAssumption
<1>3. s \in Session /\ s.id = n + 1
  BY <1>1, <1>2 DEF Session, RowsType
<1> HIDE DEF s
<1>4. row.session = s /\ row \in [session : Session, revoked : BOOLEAN]
  BY <1>3
<1> HIDE DEF row
<1>5. s \notin created /\ s \notin Stored
  BY <1>2, <1>3 DEF RowsType
<1>6. Stored' = Stored \cup {s}
  BY <1>4, <1>1 DEF Stored
<1>7. IsFiniteSet(created') /\ Cardinality(created') = n + 1
  BY <1>1, <1>5, FS_AddElement DEF RowsType
<1>8. RowsType'
  <2>1. rows' \subseteq [session : Session, revoked : BOOLEAN]
    BY <1>4, <1>1 DEF RowsType
  <2>2. \A x, y \in rows' : x.session = y.session => x = y
    BY <1>4, <1>1, <1>5 DEF RowsType, Stored
  <2>3. \A x \in created' : x.id <= n + 1
    <3>1. \A x \in created : x.id <= n /\ x.id \in Nat
      BY DEF RowsType, Session
    <3> QED
      BY <1>1, <1>2, <1>3, <3>1
  <2>4. created' \subseteq Session /\ Stored' \subseteq created'
    BY <1>1, <1>3, <1>6 DEF RowsType
  <2> QED
    BY <1>1, <1>7, <2>1, <2>2, <2>3, <2>4 DEF RowsType
<1>9. /\ new \in [pc : {"off", "register", "oauth", "clean", "delete", "insert"},
                  doomed : SUBSET Session]
      /\ new.doomed = {} /\ new.pc = "off" /\ new.doomed \subseteq created
      /\ created \subseteq created'
  BY <1>1
<1> HIDE DEF new
<1>10. /\ RequestsType'
       /\ \A q \in Requests : requests'[q] = IF q = r THEN new ELSE requests[q]
       /\ Deleting' = Deleting \ {r} /\ Inserting' = Inserting \ {r}
       /\ \A X \in SUBSET (Requests \ {r}) : Doomed(X)' = Doomed(X)
  BY <1>1, <1>9, RequestChanges
<1>11. r \in Inserting /\ Deleting' = Deleting
       /\ \A X \in SUBSET Deleting : X \in SUBSET (Requests \ {r})
  BY <1>1, <1>10 DEF Inserting, Deleting
<1>12. Kept'
  <2>1. Doomed(Requests)' \subseteq Doomed(Requests)
    BY <1>9, <1>10 DEF Doomed
  <2>2. Stored \subseteq Stored' /\ created' \ Stored' \subseteq created \ Stored
    BY <1>1, <1>6
  <2> QED
    BY <1>1, <1>8, <2>1, <2>2, KeptGrows
<1>13. Room'
  BY <1>1, <1>6, <1>10, <1>11, RoomInserts
<1> QED
  BY <1>8, <1>10, <1>12, <1>13

LEMMA Revocation ==
  ASSUME AccountsAssumption, IInv, NEW i, RevokeSession(i)
  PROVE  IInv'
<1> USE DEF IInv
<1> DEFINE Revoked(row) == IF row.session.id = i THEN [row EXCEPT !.revoked = TRUE] ELSE row
<1>1. rows' = {Revoked(row) : row \in rows}
      /\ UNCHANGED <<requests, now, laterFirst, created, troubles>>
  BY DEF RevokeSession
<1>2. \A row \in [session : Session, revoked : BOOLEAN] :
        Revoked(row).session = row.session
        /\ Revoked(row) \in [session : Session, revoked : BOOLEAN]
  OBVIOUS
<1>3. \A row \in rows : row \in [session : Session, revoked : BOOLEAN]
  BY DEF RowsType
<1> HIDE DEF Revoked
<1>4. Stored' = Stored
  BY <1>1, <1>2, <1>3 DEF Stored
<1>5. RowsType'
  <2>1. rows' \subseteq [session : Session, revoked : BOOLEAN]
    BY <1>1, <1>2, <1>3
  <2>2. \A x, y \in rows' : x.session = y.session => x = y
    BY <1>1, <1>2, <1>3 DEF RowsType
  <2> QED
    BY <1>1, <1>4, <2>1, <2>2 DEF RowsType
<1>6. RequestsType' /\ Deleting' = Deleting /\ Inserting' = Inserting
      /\ \A X \in SUBSET Requests : Doomed(X)' = Doomed(X)
  BY <1>1 DEF RequestsType, Deleting, Inserting, Doomed
<1>7. Kept'
  BY <1>1, <1>4, <1>5, <1>6, KeptGrows
<1>8. Room'
  <2>1. \A X \in SUBSET Deleting' : X \in SUBSET Deleting /\ X \in SUBSET Requests
    BY <1>6 DEF Deleting
  <2> QED
    BY <1>1, <1>4, <1>6, <2>1 DEF Room
<1> QED
  BY <1>5, <1>6, <1>7, <1>8

LEMMA NextInv ==
  ASSUME AccountsAssumption, IInv, [Next]_vars
  PROVE  IInv'
<1>1. RequestsType /\ troubles \in Nat
  BY DEF IInv, RowsType
<1>2. ASSUME NEW r \in Requests, Register(r) \/ Login(r) \/ OAuth(r) PROVE IInv'
  <2>1. PICK pc \in {"register", "oauth", "clean"} : To(r, pc)
    BY <1>2 DEF Register, Login, OAuth
  <2> DEFINE new == [pc |-> pc, doomed |-> requests[r].doomed]
  <2>2. requests' = [requests EXCEPT ![r] = new]
    BY <1>1, <2>1, ToChanges
  <2>3. new \in [pc : {"off", "register", "oauth", "clean"}, doomed : {{}, requests[r].doomed}]
    OBVIOUS
  <2>4. /\ requests[r].pc # "delete" /\ UNCHANGED <<rows, created, laterFirst, now>>
        /\ troubles' \in Nat /\ troubles <= troubles'
    BY <1>1, <1>2 DEF Register, Login, OAuth, Tables
  <2> HIDE DEF new
  <2> QED
    BY <2>2, <2>3, <2>4, Quiet
<1>3. ASSUME NEW r \in Requests, CreateAccount(r) \/ SignInFails(r) PROVE IInv'
  <2>1. To(r, "clean") \/ Done(r)
    BY <1>3 DEF CreateAccount, SignInFails
  <2>2. PICK new \in [pc : {"off", "register", "oauth", "clean"}, doomed : {{}, requests[r].doomed}] :
          requests' = [requests EXCEPT ![r] = new]
    <3>1. CASE To(r, "clean")
      <4> DEFINE new == [pc |-> "clean", doomed |-> requests[r].doomed]
      <4>1. requests' = [requests EXCEPT ![r] = new]
        BY <1>1, <3>1, ToChanges
      <4>2. new \in [pc : {"off", "register", "oauth", "clean"}, doomed : {{}, requests[r].doomed}]
        OBVIOUS
      <4> HIDE DEF new
      <4> QED
        BY <4>1, <4>2
    <3>2. CASE Done(r)
      <4>1. requests' = [requests EXCEPT ![r] = NoRequest]
        BY <3>2 DEF Done
      <4>2. NoRequest \in [pc : {"off", "register", "oauth", "clean"},
                           doomed : {{}, requests[r].doomed}]
        BY DEF NoRequest
      <4> QED
        BY <4>1, <4>2
    <3> QED
      BY <2>1, <3>1, <3>2
  <2>3. /\ requests[r].pc # "delete" /\ UNCHANGED <<rows, created, laterFirst, now>>
        /\ troubles' \in Nat /\ troubles <= troubles'
    BY <1>1, <1>3 DEF CreateAccount, SignInFails, Tables
  <2> QED
    BY <2>2, <2>3, Quiet
<1>4. ASSUME NEW r \in Requests,
             CleanupUserSessions(r) \/ DeleteSession(r) \/ CleanupFails(r) \/ InsertSession(r)
      PROVE  IInv'
  BY <1>4, Cleaning, Deletion, Failing, Insertion
<1>5. ASSUME NEW i \in 1..MaxCreated, RevokeSession(i) PROVE IInv'
  BY <1>5, Revocation
<1>6. CASE Tick \/ UNCHANGED vars
  <2>1. UNCHANGED <<rows, requests, laterFirst, created, troubles>> /\ now' \in 0..MaxTime
    <3>1. MaxTime \in Nat
      BY DEF AccountsAssumption
    <3> QED
      BY <1>6, <3>1 DEF Tick, Tables, vars, IInv, RowsType
  <2>2. RowsType' /\ RequestsType' /\ Stored' = Stored
    BY <2>1 DEF IInv, RowsType, RequestsType, Stored
  <2>3. Kept'
    BY <2>1, <2>2 DEF IInv, Kept, Doomed, Ahead, Before
  <2>4. Room'
    BY <2>1, <2>2 DEF IInv, Room, Doomed, Deleting, Inserting
  <2> QED
    BY <2>2, <2>3, <2>4 DEF IInv
<1> QED
  BY <1>2, <1>3, <1>4, <1>5, <1>6 DEF Next

-----------------------------------------------------------------------------
(* Cleaning up deletes enough sessions and none too many, for every number *)
(* of sign-ins at once, of sessions to keep and of failures                *)
(* (SessionService.ts: cleanupUserSessions, createSession).                *)
THEOREM SessionsStayLimited ==
  ASSUME AccountsAssumption
  PROVE  Spec => []SessionsLimited
<1>1. ASSUME IInv PROVE RecentSessionsKept
  <2> SUFFICES ASSUME NEW s \in created \ Stored
               PROVE  Cardinality({t \in Stored : t.at >= s.at}) >= MaxSessions
    BY DEF RecentSessionsKept
  <2> DEFINE younger == {t \in Stored : t.at >= s.at}
  <2>1. s \in Session /\ Stored \subseteq Session /\ IsFiniteSet(Stored)
    BY <1>1, StoredFinite DEF IInv, RowsType
  <2>2. \A t \in Session : t.at \in Int
    BY DEF Session
  <2>3. Ahead(s) \subseteq younger
    BY <2>1, <2>2 DEF Ahead, Before
  <2>4. IsFiniteSet(younger)
    BY <2>1, Fewer
  <2> HIDE DEF younger
  <2>5. /\ Cardinality(Ahead(s)) <= Cardinality(younger)
        /\ Cardinality(Ahead(s)) \in Nat /\ Cardinality(younger) \in Nat
    BY <2>3, <2>4, Fewer
  <2>6. Cardinality(Ahead(s)) >= MaxSessions /\ MaxSessions \in Nat
    BY <1>1 DEF IInv, Kept, AccountsAssumption
  <2>7. Cardinality(younger) >= MaxSessions
    BY <2>5, <2>6
  <2> QED
    BY <2>7 DEF younger
<1>2. ASSUME IInv PROVE SessionsBounded
  <2> DEFINE f == [row \in rows |-> row.session]
  <2>1. IsFiniteSet(Stored) /\ Cardinality(Stored) \in Nat
    BY <1>2, StoredFinite DEF IInv
  <2>2. f \in Injection(rows, Stored)
    BY <1>2 DEF Injection, IsInjective, IInv, RowsType, Stored
  <2> HIDE DEF f
  <2>3. IsFiniteSet(rows) /\ Cardinality(rows) <= Cardinality(Stored)
    BY <2>1, <2>2, FS_Injection
  <2>4. Cardinality(rows) \in Nat
    BY <2>3, FS_CardinalityType
  <2>5. Cardinality(Stored \ Doomed({})) + Cardinality(Inserting \cup {})
          <= MaxSessions + Cardinality(Requests) + troubles
    BY <1>2 DEF IInv, Room
  <2>6. Stored \ Doomed({}) = Stored /\ Inserting \cup {} = Inserting
    BY DEF Doomed
  <2>7. Cardinality(Inserting) \in Nat
    BY Fewer DEF AccountsAssumption, Inserting
  <2>8. MaxSessions \in Nat /\ Cardinality(Requests) \in Nat /\ troubles \in Nat
    BY <1>2, FS_CardinalityType DEF IInv, RowsType, AccountsAssumption
  <2>9. Cardinality(Stored) + Cardinality(Inserting)
          <= MaxSessions + Cardinality(Requests) + troubles
    BY <2>5, <2>6
  <2> QED
    BY <2>1, <2>3, <2>4, <2>7, <2>8, <2>9 DEF SessionsBounded
<1> QED
  BY <1>1, <1>2, InitInv, NextInv, PTL DEF Spec, SessionsLimited
===================================================================================
