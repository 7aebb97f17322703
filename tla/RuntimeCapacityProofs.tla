----------------------- MODULE RuntimeCapacityProofs -----------------------
(***************************************************************************)
(* The two books of the capacity controller agree, the limits hold and no  *)
(* reservation leaks, for every set of operations and keys.                *)
(***************************************************************************)
EXTENDS RuntimeCapacity, FiniteSetTheorems, TLAPS

(* The reserved keys are a finite set.                                     *)
LEMMA ReservedFinite ==
    /\ IsFiniteSet(Reserved)
    /\ Cardinality(Reserved) \in Nat
    /\ \A u : IsFiniteSet(ReservedBy(u)) /\ Cardinality(ReservedBy(u)) \in Nat
BY KeysFinite, FS_Subset, FS_CardinalityType DEF Reserved, ReservedBy

-----------------------------------------------------------------------------
(* claim_run and release_run, as operations on the two books.              *)

Books == TypeOK /\ UserCountExact /\ ReservationsBounded

(* A claim keeps the books: the new key is counted once, for its user, and *)
(* only below both limits (claim_run).                                     *)
LEMMA ClaimKeepsBooks ==
    ASSUME Books, NEW o \in Ops, ClaimRun(o)
    PROVE  /\ reservations' \in [Keys -> Users \cup {NoUser}]
           /\ runsByUser' \in [Users -> Nat]
           /\ created' \in [Ops -> BOOLEAN]
           /\ UserCountExact' /\ ReservationsBounded'
<1> DEFINE k == KeyOf[o]
           u == UserOf[o]
<1>0. k \in Keys /\ u \in Users /\ u # NoUser
  BY OpKeys, NoUserIsNoUser
<1>1. CASE ClaimExisting(o)
  BY <1>1, <1>0 DEF ClaimExisting, Books, TypeOK, UserCountExact, ReservationsBounded,
                    Reserved, ReservedBy
<1>2. CASE ClaimNew(o)
  <2>1. /\ reservations[k] = NoUser
        /\ Cardinality(Reserved) < ProcessLimit
        /\ runsByUser[u] < UserLimit
        /\ reservations' = [reservations EXCEPT ![k] = u]
        /\ runsByUser' = [runsByUser EXCEPT ![u] = @ + 1]
        /\ created' \in [Ops -> BOOLEAN]
    BY <1>2 DEF ClaimNew, HasRoom, Books, TypeOK
  <2>2. /\ reservations' \in [Keys -> Users \cup {NoUser}]
        /\ runsByUser' \in [Users -> Nat]
    BY <2>1, <1>0 DEF Books, TypeOK
  <2>3. /\ Reserved' = Reserved \cup {k} /\ k \notin Reserved
        /\ ReservedBy(u)' = ReservedBy(u) \cup {k} /\ k \notin ReservedBy(u)
        /\ \A v \in Users \ {u} : ReservedBy(v)' = ReservedBy(v)
    BY <2>1, <1>0, NoUserIsNoUser DEF Books, TypeOK, Reserved, ReservedBy
  <2>4. /\ Cardinality(Reserved') = Cardinality(Reserved) + 1
        /\ Cardinality(ReservedBy(u)') = Cardinality(ReservedBy(u)) + 1
    BY <2>3, ReservedFinite, FS_AddElement
  <2>5. UserCountExact'
    BY <2>1, <2>3, <2>4, <1>0 DEF Books, TypeOK, UserCountExact
  <2>6. ReservationsBounded'
    <3>1. Cardinality(Reserved)' =< ProcessLimit
      BY <2>1, <2>4, ReservedFinite, LimitsPositive
    <3>2. ASSUME NEW v \in Users PROVE Cardinality(ReservedBy(v))' =< UserLimit
      <4>1. CASE v = u
        BY <4>1, <2>1, <2>4, <1>0, ReservedFinite, LimitsPositive
           DEF Books, UserCountExact
      <4>2. CASE v # u
        BY <4>2, <2>3 DEF Books, ReservationsBounded
      <4> QED BY <4>1, <4>2
    <3> QED BY <3>1, <3>2 DEF ReservationsBounded
  <2> QED BY <2>1, <2>2, <2>5, <2>6
<1> QED BY <1>1, <1>2 DEF ClaimRun

(* A release keeps the books: the key goes out of both, or it was in none  *)
(* (release_run).                                                          *)
LEMMA ReleaseKeepsBooks ==
    ASSUME Books, NEW k \in Keys, ReleaseRun(k)
    PROVE  /\ reservations' \in [Keys -> Users \cup {NoUser}]
           /\ runsByUser' \in [Users -> Nat]
           /\ UserCountExact' /\ ReservationsBounded'
           /\ Reserved' = Reserved \ {k}
<1>1. CASE reservations[k] = NoUser
  BY <1>1 DEF ReleaseRun, Books, TypeOK, UserCountExact, ReservationsBounded,
              Reserved, ReservedBy
<1>2. CASE reservations[k] # NoUser
  <2>0. PICK u \in Users : u = reservations[k] /\ u # NoUser
    BY <1>2, NoUserIsNoUser DEF Books, TypeOK
  <2>1. /\ reservations' = [reservations EXCEPT ![k] = NoUser]
        /\ runsByUser' = [runsByUser EXCEPT ![u] = IF @ > 1 THEN @ - 1 ELSE 0]
    BY <1>2, <2>0 DEF ReleaseRun
  <2>2. /\ reservations' \in [Keys -> Users \cup {NoUser}]
        /\ runsByUser' \in [Users -> Nat]
    BY <2>0, <2>1 DEF Books, TypeOK
  <2>3. /\ Reserved' = Reserved \ {k} /\ k \in Reserved
        /\ ReservedBy(u)' = ReservedBy(u) \ {k} /\ k \in ReservedBy(u)
        /\ \A v \in Users \ {u} : ReservedBy(v)' = ReservedBy(v)
    BY <2>0, <2>1, NoUserIsNoUser DEF Books, TypeOK, Reserved, ReservedBy
  <2>4. /\ Cardinality(Reserved') = Cardinality(Reserved) - 1
        /\ Cardinality(ReservedBy(u)') = Cardinality(ReservedBy(u)) - 1
    BY <2>3, ReservedFinite, FS_RemoveElement
  <2>5. UserCountExact'
    <3>1. Cardinality(ReservedBy(u)) >= 1
      BY <2>3, ReservedFinite, FS_EmptySet
    <3>2. runsByUser'[u] = Cardinality(ReservedBy(u)')
      BY <3>1, <2>0, <2>1, <2>4, ReservedFinite DEF Books, TypeOK, UserCountExact
    <3>3. \A v \in Users \ {u} : runsByUser'[v] = Cardinality(ReservedBy(v)')
      BY <2>0, <2>1, <2>3 DEF Books, TypeOK, UserCountExact
    <3> QED BY <3>2, <3>3 DEF UserCountExact
  <2>6. ReservationsBounded'
    <3>1. Cardinality(Reserved)' =< ProcessLimit
      BY <2>4, ReservedFinite, LimitsPositive DEF Books, ReservationsBounded
    <3>2. ASSUME NEW v \in Users PROVE Cardinality(ReservedBy(v))' =< UserLimit
      BY <2>3, <2>4, <2>0, ReservedFinite, LimitsPositive DEF Books, ReservationsBounded
    <3> QED BY <3>1, <3>2 DEF ReservationsBounded
  <2> QED BY <2>2, <2>3, <2>5, <2>6
<1> QED BY <1>1, <1>2

-----------------------------------------------------------------------------
IInv == Books /\ NoLeak

LEMMA InitIInv == Init => IInv
<1> SUFFICES ASSUME Init PROVE IInv OBVIOUS
<1>1. Reserved = {} /\ \A u \in Users : ReservedBy(u) = {}
  BY NoUserIsNoUser DEF Init, Reserved, ReservedBy
<1>2. TypeOK
  BY DEF Init, TypeOK
<1>3. UserCountExact /\ ReservationsBounded
  BY <1>1, FS_EmptySet, LimitsPositive DEF Init, UserCountExact, ReservationsBounded
<1> QED BY <1>1, <1>2, <1>3 DEF IInv, Books, NoLeak

(* The attempt that created a reservation stands behind it.  Steps that    *)
(* leave pc[o] active, or release the key of the attempt that ends, keep   *)
(* NoLeak.                                                                 *)
LEMMA StepIInv == IInv /\ [Next]_vars => IInv'
<1> SUFFICES ASSUME IInv, [Next]_vars PROVE IInv' OBVIOUS
<1> USE DEF IInv
<1>1. ASSUME NEW t \in Tasks, ClaimTask(t) PROVE IInv'
  <2>0. t \in Ops BY DEF Ops
  <2>1. pc' \in [Ops -> {"idle", "claimed", "running", "finished", "done"}]
    BY <1>1 DEF ClaimTask, MoveTo, Books, TypeOK
  <2>2. Books'
    BY <1>1, <2>0, <2>1, ClaimKeepsBooks DEF ClaimTask, Books, TypeOK
  <2>3. NoLeak'
    <3>1. CASE ClaimExisting(t)
      <4>1. pc[t] = "idle" /\ pc' = [pc EXCEPT ![t] = "claimed"]
        BY <1>1 DEF ClaimTask, MoveTo
      <4>2. Reserved' = Reserved /\ created' = [created EXCEPT ![t] = FALSE]
        BY <3>1 DEF ClaimExisting, Reserved
      <4> QED BY <4>1, <4>2, <2>0 DEF NoLeak, Books, TypeOK
    <3>2. CASE ClaimNew(t)
      <4>1. pc[t] = "idle" /\ pc' = [pc EXCEPT ![t] = "claimed"]
        BY <1>1 DEF ClaimTask, MoveTo
      <4>2. Reserved' \subseteq Reserved \cup {KeyOf[t]} /\ created' = [created EXCEPT ![t] = TRUE]
        BY <3>2, <2>0, OpKeys DEF ClaimNew, Reserved, Books, TypeOK
      <4> QED BY <4>1, <4>2, <2>0 DEF NoLeak, Books, TypeOK
    <3> QED BY <1>1, <3>1, <3>2 DEF ClaimTask, ClaimRun
  <2> QED BY <2>2, <2>3
<1>2. ASSUME NEW t \in Tasks, StartTask(t) PROVE IInv'
  BY <1>2 DEF StartTask, MoveTo, Ops, Books, TypeOK, UserCountExact,
              ReservationsBounded, NoLeak, Reserved, ReservedBy
<1>3. ASSUME NEW t \in Tasks, RefuseTask(t) PROVE IInv'
  <2>0. t \in Ops /\ KeyOf[t] \in Keys BY OpKeys DEF Ops
  <2>1. /\ pc' = [pc EXCEPT ![t] = "done"] /\ created' = created
    BY <1>3 DEF RefuseTask, MoveTo
  <2>2. CASE created[t]
    <3>1. ReleaseRun(KeyOf[t]) BY <1>3, <2>2 DEF RefuseTask
    <3>2. Books'
      BY <3>1, <2>0, <2>1, ReleaseKeepsBooks DEF Books, TypeOK
    <3>3. Reserved' = Reserved \ {KeyOf[t]}
      BY <3>1, <2>0, ReleaseKeepsBooks
    <3> QED BY <3>2, <3>3, <2>0, <2>1 DEF NoLeak, Books, TypeOK
  <2>3. CASE ~created[t]
    BY <1>3, <2>0, <2>1, <2>3
       DEF RefuseTask, Books, TypeOK, UserCountExact, ReservationsBounded, NoLeak,
           Reserved, ReservedBy
  <2> QED BY <2>2, <2>3
<1>4. ASSUME NEW t \in Tasks, FinishTask(t) PROVE IInv'
  BY <1>4 DEF FinishTask, MoveTo, Ops, Books, TypeOK, UserCountExact,
              ReservationsBounded, NoLeak, Reserved, ReservedBy
<1>5. ASSUME NEW t \in Tasks, FinishBackgroundTask(t) PROVE IInv'
  <2>0. t \in Ops /\ KeyOf[t] \in Keys BY OpKeys DEF Ops
  <2>1. /\ pc' = [pc EXCEPT ![t] = "done"] /\ created' = created
        /\ ReleaseRun(KeyOf[t])
    BY <1>5 DEF FinishBackgroundTask, MoveTo
  <2>2. Books'
    BY <2>0, <2>1, ReleaseKeepsBooks DEF Books, TypeOK
  <2>3. Reserved' = Reserved \ {KeyOf[t]}
    BY <2>0, <2>1, ReleaseKeepsBooks
  <2> QED BY <2>0, <2>1, <2>2, <2>3 DEF NoLeak, Books, TypeOK
<1>6. ASSUME NEW r \in Resumes, BeginResume(r) PROVE IInv'
  <2>0. r \in Ops BY DEF Ops
  <2>1. pc[r] = "idle" /\ pc' = [pc EXCEPT ![r] = "running"] /\ ClaimRun(r)
    BY <1>6 DEF BeginResume, MoveTo
  <2>2. Books'
    BY <2>0, <2>1, ClaimKeepsBooks DEF Books, TypeOK
  <2>3. NoLeak'
    <3>1. CASE ClaimExisting(r)
      <4>2. Reserved' = Reserved /\ created' = [created EXCEPT ![r] = FALSE]
        BY <3>1 DEF ClaimExisting, Reserved
      <4> QED BY <2>1, <4>2, <2>0 DEF NoLeak, Books, TypeOK
    <3>2. CASE ClaimNew(r)
      <4>2. Reserved' \subseteq Reserved \cup {KeyOf[r]} /\ created' = [created EXCEPT ![r] = TRUE]
        BY <3>2, <2>0, OpKeys DEF ClaimNew, Reserved, Books, TypeOK
      <4> QED BY <2>1, <4>2, <2>0 DEF NoLeak, Books, TypeOK
    <3> QED BY <2>1, <3>1, <3>2 DEF ClaimRun
  <2> QED BY <2>2, <2>3
<1>7. ASSUME NEW r \in Resumes, EndResume(r) PROVE IInv'
  <2>0. r \in Ops /\ KeyOf[r] \in Keys BY OpKeys DEF Ops
  <2>1. /\ pc' = [pc EXCEPT ![r] = "done"] /\ created' = created
    BY <1>7 DEF EndResume, MoveTo
  <2>2. CASE created[r]
    <3>1. ReleaseRun(KeyOf[r]) BY <1>7, <2>2 DEF EndResume
    <3>2. Books'
      BY <3>1, <2>0, <2>1, ReleaseKeepsBooks DEF Books, TypeOK
    <3>3. Reserved' = Reserved \ {KeyOf[r]}
      BY <3>1, <2>0, ReleaseKeepsBooks
    <3> QED BY <3>2, <3>3, <2>0, <2>1 DEF NoLeak, Books, TypeOK
  <2>3. CASE ~created[r]
    BY <1>7, <2>0, <2>1, <2>3
       DEF EndResume, Books, TypeOK, UserCountExact, ReservationsBounded, NoLeak,
           Reserved, ReservedBy
  <2> QED BY <2>2, <2>3
<1>8. CASE UNCHANGED vars
  BY <1>8 DEF vars, Books, TypeOK, UserCountExact, ReservationsBounded, NoLeak,
              Reserved, ReservedBy
<1> QED BY <1>1, <1>2, <1>3, <1>4, <1>5, <1>6, <1>7, <1>8 DEF Next, TaskStep, AllDone

(* Type correctness of the controller and its operations.                  *)
THEOREM TypeCorrect == Spec => []TypeOK
<1>1. IInv => TypeOK BY DEF IInv, Books
<1> QED BY <1>1, InitIInv, StepIInv, PTL DEF Spec

(* Each user's counter is the number of keys reserved in the user's name   *)
(* (_runs_by_user against _run_reservations).                              *)
THEOREM CountsAgree == Spec => []UserCountExact
<1>1. IInv => UserCountExact BY DEF IInv, Books
<1> QED BY <1>1, InitIInv, StepIInv, PTL DEF Spec

(* The process limit and the user limit are never exceeded (claim_run).    *)
THEOREM LimitsHold == Spec => []ReservationsBounded
<1>1. IInv => ReservationsBounded BY DEF IInv, Books
<1> QED BY <1>1, InitIInv, StepIInv, PTL DEF Spec

(* Behind every reservation there is an operation that will release it.    *)
THEOREM ReservationsDoNotLeak == Spec => []NoLeak
<1>1. IInv => NoLeak BY DEF IInv
<1> QED BY <1>1, InitIInv, StepIInv, PTL DEF Spec
=============================================================================
