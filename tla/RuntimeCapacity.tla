-------------------------- MODULE RuntimeCapacity --------------------------
(***************************************************************************)
(* Run reservations of the process-local RuntimeCapacityController         *)
(* (agentmesh/runtime_capacity.py) together with the operations that take  *)
(* and give them back: background tasks started by the dispatch pump or by *)
(* a chat turn (on the event loop) and approval resumes (each on a thread  *)
(* of its own).                                                            *)
(*                                                                         *)
(* A reservation is kept under an operation key.  Operations that are      *)
(* repeats of one another share a key; only the claim that created the     *)
(* reservation is told so ("newly_reserved").                              *)
(***************************************************************************)
EXTENDS Integers, FiniteSets

CONSTANTS
    Users,          \* users that own runs
    Keys,           \* operation keys (a hash of user, thread, turn and kind)
    Tasks,          \* background task attempts
    Resumes,        \* approval resume attempts
    KeyOf,          \* the operation key of each attempt
    UserOf,         \* the user of each attempt
    ProcessLimit,   \* process_run_limit
    UserLimit,      \* user_run_limit
    NoUser          \* "no reservation under this key"

Ops == Tasks \cup Resumes

ASSUME LimitsPositive == /\ ProcessLimit \in Nat \ {0}
                         /\ UserLimit \in Nat \ {0}
ASSUME KeysFinite == IsFiniteSet(Keys)
ASSUME NoUserIsNoUser == NoUser \notin Users
\* The key hashes the user and the kind of operation: a task and a resume never
\* share one, and neither do two users.
ASSUME OpKeys == /\ Tasks \cap Resumes = {}
                 /\ KeyOf \in [Ops -> Keys]
                 /\ UserOf \in [Ops -> Users]
                 /\ \A t \in Tasks, r \in Resumes : KeyOf[t] # KeyOf[r]
                 /\ \A o, p \in Ops : KeyOf[o] = KeyOf[p] => UserOf[o] = UserOf[p]

VARIABLES
    reservations,   \* _run_reservations: operation key -> user
    runsByUser,     \* _runs_by_user, 0 where the dict has no entry
    pc,             \* what each operation is doing
    created         \* the "newly_reserved" answer each operation was given

vars == <<reservations, runsByUser, pc, created>>

TypeOK ==
    /\ reservations \in [Keys -> Users \cup {NoUser}]
    /\ runsByUser \in [Users -> Nat]
    /\ pc \in [Ops -> {"idle", "claimed", "running", "finished", "done"}]
    /\ created \in [Ops -> BOOLEAN]

Reserved == {k \in Keys : reservations[k] # NoUser}
ReservedBy(u) == {k \in Keys : reservations[k] = u}

Init ==
    /\ reservations = [k \in Keys |-> NoUser]
    /\ runsByUser = [u \in Users |-> 0]
    /\ pc = [o \in Ops |-> "idle"]
    /\ created = [o \in Ops |-> FALSE]

-----------------------------------------------------------------------------
(* claim_run: one critical section of the controller's lock.               *)

HasRoom(u) == /\ Cardinality(Reserved) < ProcessLimit
              /\ runsByUser[u] < UserLimit

\* A repeat of a reserved operation is accepted and creates nothing.
ClaimExisting(o) ==
    /\ reservations[KeyOf[o]] = UserOf[o]
    /\ created' = [created EXCEPT ![o] = FALSE]
    /\ UNCHANGED <<reservations, runsByUser>>

ClaimNew(o) ==
    /\ reservations[KeyOf[o]] = NoUser
    /\ HasRoom(UserOf[o])
    /\ reservations' = [reservations EXCEPT ![KeyOf[o]] = UserOf[o]]
    /\ runsByUser' = [runsByUser EXCEPT ![UserOf[o]] = @ + 1]
    /\ created' = [created EXCEPT ![o] = TRUE]

ClaimRun(o) == ClaimExisting(o) \/ ClaimNew(o)

\* Variant: the user's counter is dropped with the first of its keys.
ReleaseRunDropsCounter(k) ==
    IF reservations[k] = NoUser
      THEN UNCHANGED <<reservations, runsByUser>>
      ELSE /\ reservations' = [reservations EXCEPT ![k] = NoUser]
           /\ runsByUser' = [runsByUser EXCEPT ![reservations[k]] = 0]

\* release_run: dropping a key nobody holds is a no-op.
ReleaseRun(k) ==
    IF reservations[k] = NoUser
      THEN UNCHANGED <<reservations, runsByUser>>
      ELSE /\ reservations' = [reservations EXCEPT ![k] = NoUser]
           /\ runsByUser' =
                [runsByUser EXCEPT ![reservations[k]] = IF @ > 1 THEN @ - 1 ELSE 0]

MoveTo(o, l) == pc' = [pc EXCEPT ![o] = l]

-----------------------------------------------------------------------------
(* Background tasks.                                                       *)

\* A live task of the same turn (asyncio: not done()) turns the attempt away;
\* looking for it and claiming capacity happen in one step of the event loop.
NoLiveTask(t) == \A s \in Tasks : KeyOf[s] = KeyOf[t] => pc[s] \notin {"claimed", "running"}

ClaimTask(t) ==
    /\ pc[t] = "idle"
    /\ NoLiveTask(t)
    /\ ClaimRun(t)
    /\ MoveTo(t, "claimed")

\* claim_run_dispatch granted the receipt (pending, or already started by this
\* process): the asyncio task is created.
StartTask(t) ==
    /\ pc[t] = "claimed"
    /\ MoveTo(t, "running")
    /\ UNCHANGED <<reservations, runsByUser, created>>

\* claim_run_dispatch refused (settled receipt): a reservation this attempt
\* created is given back.
RefuseTask(t) ==
    /\ pc[t] = "claimed"
    /\ IF created[t] THEN ReleaseRun(KeyOf[t])
                     ELSE UNCHANGED <<reservations, runsByUser>>
    /\ MoveTo(t, "done")
    /\ UNCHANGED created

\* The coroutine returns: the asyncio task is done(), its done callback is
\* only queued on the event loop, other handlers may run before it.
FinishTask(t) ==
    /\ pc[t] = "running"
    /\ MoveTo(t, "finished")
    /\ UNCHANGED <<reservations, runsByUser, created>>

\* _finish_background_task releases the key whoever created it.
FinishBackgroundTask(t) ==
    /\ pc[t] = "finished"
    /\ ReleaseRun(KeyOf[t])
    /\ MoveTo(t, "done")
    /\ UNCHANGED created

-----------------------------------------------------------------------------
(* Approval resumes.                                                       *)

BeginResume(r) ==
    /\ pc[r] = "idle"
    /\ ClaimRun(r)
    /\ MoveTo(r, "running")

\* Variant: the finally clause with its test the wrong way round.
EndResumeWrongOwner(r) ==
    /\ pc[r] = "running"
    /\ IF created[r] THEN UNCHANGED <<reservations, runsByUser>>
                     ELSE ReleaseRun(KeyOf[r])
    /\ MoveTo(r, "done")
    /\ UNCHANGED created

\* The finally clause: only the attempt that created the reservation
\* releases it.
EndResume(r) ==
    /\ pc[r] = "running"
    /\ IF created[r] THEN ReleaseRun(KeyOf[r])
                     ELSE UNCHANGED <<reservations, runsByUser>>
    /\ MoveTo(r, "done")
    /\ UNCHANGED created

\* Every operation has come to its end (a refused claim leaves it idle: the
\* pump and the client try again).
AllDone == /\ \A o \in Ops : pc[o] = "done"
           /\ UNCHANGED vars

TaskStep(t) == ClaimTask(t) \/ StartTask(t) \/ RefuseTask(t) \/ FinishTask(t)
               \/ FinishBackgroundTask(t)

Next == \/ \E t \in Tasks : TaskStep(t)
        \/ \E r \in Resumes : BeginResume(r) \/ EndResume(r)
        \/ AllDone

\* The pump retries refused claims every half second and the event loop runs
\* tasks and callbacks; a resume that has begun comes to an end, one that was
\* refused is repeated only if its client does.
Fairness == /\ \A t \in Tasks : WF_vars(TaskStep(t))
            /\ \A r \in Resumes : WF_vars(EndResume(r))

Spec == Init /\ [][Next]_vars
FairSpec == Spec /\ Fairness

-----------------------------------------------------------------------------
(* Properties.                                                             *)

\* _run_reservations and _runs_by_user are two books of one fact: each
\* user's counter is the number of keys reserved in that user's name, at
\* every release and re-claim (claim_run, release_run).
UserCountExact == \A u \in Users : runsByUser[u] = Cardinality(ReservedBy(u))

\* Neither the process nor one user ever holds more reservations than its
\* limit (the two tests of claim_run).
ReservationsBounded ==
    /\ Cardinality(Reserved) =< ProcessLimit
    /\ \A u \in Users : Cardinality(ReservedBy(u)) =< UserLimit

\* Nothing stays reserved that nobody will release: behind every reservation
\* there is an operation that created it and has not come to its end, however
\* repeats share the key (the capacity_created tests, the finally clauses and
\* the done callback).
NoLeak ==
    \A k \in Reserved :
        \E o \in Ops : /\ KeyOf[o] = k
                       /\ created[o]
                       /\ pc[o] \in {"claimed", "running", "finished"}

\* A dispatch the pump keeps offering is started or refused in the end:
\* reservations are always given back in time for it
\* (_dispatch_pump_loop, recover_pending_dispatches).
TasksGetTheirTurn == \A t \in Tasks : <>(pc[t] = "done")
=============================================================================
