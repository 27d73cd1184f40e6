------------------------------ MODULE ShExLock ------------------------------
(***************************************************************************)
(* The shared/exclusive spinlock of writers (FShExLock in locks.h,         *)
(* lck_lock_sh .. _try_ex in locks.c) as SING_LM_FAST uses it: a write     *)
(* call takes the lock shared, sing_lock_W, sing_flush, sing_revert and    *)
(* sing_unload_set take it exclusively, and the thread that has it         *)
(* exclusively makes its own write calls through it.  The lock is in       *)
(* shared memory: threads of one process and of several are alike.         *)
(*                                                                         *)
(* A thread that finds the set deleted links the set that has the name     *)
(* now, or none: it is gone from this one.                                 *)
(***************************************************************************)
EXTENDS Naturals, FiniteSets

CONSTANTS
  Threads,   \* gettid() of the threads that have the set linked
  NoThread,  \* exclusive_lock = 0
  Deletes    \* somebody may unload or delete the set

ASSUME ThreadsAssumption ==
  /\ IsFiniteSet(Threads) /\ NoThread \notin Threads
  /\ Deletes \in BOOLEAN

VARIABLES
  shared,   \* shared_count
  excl,     \* exclusive_lock
  deleted,  \* bad_states.states.deleted
  pc,       \* where a thread is
  seen,     \* its copy of the word, shex_lock
  late      \* who works on a set that had been given up before it got in

vars == <<shared, excl, deleted, pc, seen, late>>

Word == [count : Nat, tid : Threads \cup {NoThread}]

Now == [count |-> shared, tid |-> excl]

\* "op" is a write call that counted itself in shared_count, "own" one of the
\* exclusive owner; "held" is between sing_lock_W and sing_unlock_*, and inside
\* sing_flush and sing_revert.
Places == {"idle", "sh_load", "sh_cas", "op", "own",
           "ex_load", "ex_cas", "try_load", "try_cas", "ex_wait", "held", "deleting", "gone"}

Init ==
  /\ shared = 0 /\ excl = NoThread /\ deleted = FALSE
  /\ pc = [t \in Threads |-> "idle"]
  /\ seen = [t \in Threads |-> [count |-> 0, tid |-> NoThread]]
  /\ late = {}

Go(t, place) == pc' = [pc EXCEPT ![t] = place]

Load(t) == seen' = [seen EXCEPT ![t] = Now]

\* A set is given up when its deleter has left the lock.
GivenUp == deleted /\ excl = NoThread

Enters(t) == late' = IF GivenUp THEN late \cup {t} ELSE late

-----------------------------------------------------------------------------
\* BAD_STATES_CHECK: the set that has been deleted is left for another.
Check(t, next) ==
  /\ Go(t, IF deleted THEN "gone" ELSE next)
  /\ UNCHANGED <<shared, excl, deleted, seen, late>>

\* A write call: lck_processLock checks the set, then calls lck_lock_sh.
OpBegin(t) == pc[t] = "idle" /\ Check(t, "sh_load")

\* A mistake: lck_lock_sh that only spins after a swap that failed.
ShLoadOnce(t) ==
  /\ pc[t] = "sh_load"
  /\ Load(t)
  /\ Go(t, IF excl = t THEN "own" ELSE "sh_cas")
  /\ UNCHANGED <<shared, excl, deleted, late>>

\* The owner of the exclusive lock goes through; any other thread spins
\* while there is an owner.
ShLoad(t) ==
  /\ pc[t] = "sh_load"
  /\ Load(t)
  /\ CASE excl = t -> Go(t, "own")
       [] excl = NoThread -> Go(t, "sh_cas")
       [] OTHER -> UNCHANGED pc
  /\ UNCHANGED <<shared, excl, deleted, late>>

\* The compare-and-swap counts the call in; when it fails it has loaded the
\* word, and the owner is looked at again.
ShCas(t) ==
  /\ pc[t] = "sh_cas"
  /\ \/ /\ seen[t] = Now
        /\ shared' = shared + 1
        /\ Go(t, "op") /\ Enters(t)
        /\ UNCHANGED seen
     \/ /\ seen[t] # Now
        /\ Load(t)
        /\ Go(t, IF excl = NoThread THEN "sh_cas" ELSE "sh_load")
        /\ UNCHANGED <<shared, late>>
  /\ UNCHANGED <<excl, deleted>>

\* lck_unlock_sh: the count goes down unless the lock is the thread's own.
OpEnd(t) ==
  /\ pc[t] \in {"op", "own"}
  /\ shared' = IF excl = t THEN shared ELSE shared - 1
  /\ Go(t, IF pc[t] = "own" THEN "held" ELSE "idle")
  /\ UNCHANGED <<excl, deleted, seen, late>>

-----------------------------------------------------------------------------
\* sing_lock_W, sing_flush, sing_revert and idx_unload_set: lck_lock_ex checks
\* the set once.  (The call of a thread that has the lock is refused and
\* changes nothing.)
ExBegin(t) == pc[t] = "idle" /\ Check(t, "ex_load")

ExLoad(t) ==
  /\ pc[t] = "ex_load"
  /\ Load(t)
  /\ IF excl = NoThread THEN Go(t, "ex_cas") ELSE UNCHANGED pc
  /\ UNCHANGED <<shared, excl, deleted, late>>

\* A mistake: the shared owners are not waited for.
TakeWordAtOnce(t) ==
  /\ seen[t] = Now
  /\ excl' = t
  /\ Go(t, "held") /\ Enters(t)
  /\ UNCHANGED <<shared, deleted, seen>>

\* Once the tid is in the word there are no new shared owners; those that are
\* there are waited for.  shex_lock keeps the count it was swapped with.
TakeWord(t) ==
  /\ seen[t] = Now
  /\ excl' = t
  /\ Go(t, IF shared = 0 THEN "held" ELSE "ex_wait") /\ Enters(t)
  /\ UNCHANGED <<shared, deleted, seen>>

ExCas(t) ==
  /\ pc[t] = "ex_cas"
  /\ \/ TakeWord(t)
     \/ /\ seen[t] # Now
        /\ Load(t)
        /\ Go(t, IF excl = NoThread THEN "ex_cas" ELSE "ex_load")
        /\ UNCHANGED <<shared, excl, deleted, late>>

ExWait(t) ==
  /\ pc[t] = "ex_wait"
  /\ Load(t)
  /\ IF shared = 0 THEN Go(t, "held") ELSE UNCHANGED pc
  /\ UNCHANGED <<shared, excl, deleted, late>>

\* sing_try_lock_W, _try_ex: SING_RESULT_LOCKED when there is an owner, and
\* also when the swap fails because a shared owner came or went.
TryBegin(t) == pc[t] = "idle" /\ Check(t, "try_load")

TryLoad(t) ==
  /\ pc[t] = "try_load"
  /\ Load(t)
  /\ Go(t, IF excl = NoThread THEN "try_cas" ELSE "idle")
  /\ UNCHANGED <<shared, excl, deleted, late>>

TryCas(t) ==
  /\ pc[t] = "try_cas"
  /\ \/ TakeWord(t)
     \/ /\ seen[t] # Now
        /\ Go(t, "idle")
        /\ UNCHANGED <<shared, excl, deleted, seen, late>>

\* A write call of the thread that has locked the set.
OwnBegin(t) ==
  /\ pc[t] = "held"
  /\ Go(t, "sh_load")
  /\ UNCHANGED <<shared, excl, deleted, seen, late>>

\* lck_manualUnlock, and the end of sing_flush and sing_revert.
ExUnlock(t) ==
  /\ pc[t] = "held"
  /\ excl' = NoThread /\ Go(t, "idle")
  /\ UNCHANGED <<shared, deleted, seen, late>>

\* idx_unload_set under the lock: lck_deinit_locks marks the set, then gives
\* the lock away; the set is unmapped.
Delete(t) ==
  /\ Deletes /\ pc[t] = "held" /\ ~deleted
  /\ deleted' = TRUE /\ Go(t, "deleting")
  /\ UNCHANGED <<shared, excl, seen, late>>

DeleteUnlock(t) ==
  /\ pc[t] = "deleting"
  /\ excl' = NoThread /\ Go(t, "gone")
  /\ UNCHANGED <<shared, deleted, seen, late>>

-----------------------------------------------------------------------------
\* What a thread goes on with once it has begun.
Goes(t) ==
  \/ ShLoad(t) \/ ShCas(t) \/ OpEnd(t)
  \/ ExLoad(t) \/ ExCas(t) \/ ExWait(t) \/ TryLoad(t) \/ TryCas(t)
  \/ DeleteUnlock(t)

\* What it may call.
Calls(t) ==
  OpBegin(t) \/ ExBegin(t) \/ TryBegin(t) \/ OwnBegin(t) \/ ExUnlock(t) \/ Delete(t)

Next == \E t \in Threads : Goes(t) \/ Calls(t)

Spec == Init /\ [][Next]_vars

\* A thread that is not stopped by the machine runs, and a lock that is taken
\* is given back: no call waits while it holds the lock.
FairSpec ==
  Spec /\ \A t \in Threads : WF_vars(Goes(t)) /\ WF_vars(ExUnlock(t) \/ Delete(t))

-----------------------------------------------------------------------------
TypeOK ==
  /\ shared \in Nat /\ excl \in Threads \cup {NoThread} /\ deleted \in BOOLEAN
  /\ pc \in [Threads -> Places] /\ seen \in [Threads -> Word]
  /\ late \subseteq Threads

\* From lck_lock_ex returning 0 until the lock is given back, the write calls
\* of the owner included.
HasLocked(t) ==
  pc[t] \in {"held", "own", "deleting"} \/ (pc[t] = "sh_load" /\ excl = t)

\* While one thread has the set locked (sing_lock_W, a flush, a revert) no
\* other thread is in a write call of it, and none has it locked too: what
\* locks.h says the lock is for.
Exclusive ==
  \A t, u \in Threads :
    t # u /\ HasLocked(t) => pc[u] # "op" /\ ~HasLocked(u)

\* shared_count is the number of write calls inside, so that it is 0 exactly
\* when a waiting owner may go on; it would be lost when a thread that had the
\* lock counted down what it had not counted up.
CountExact == shared = Cardinality({t \in Threads : pc[t] = "op"})

\* A thread that has put its tid into the word gets the set: new calls can not
\* keep the count from reaching 0 (the first loop of lck_lock_sh).
TakerEnters == \A t \in Threads : pc[t] = "ex_wait" ~> pc[t] = "held"

\* Nobody begins to write, flush or unload a set that has been deleted before:
\* such a call answers SING_ERROR_CONNECTION_LOST or goes to the new set
\* (API.md, the calls with a connection).  Not kept: `deleted' is looked at
\* before the wait for the lock.
DeletedIsLeft == late = {}
=============================================================================
