---------------------------- MODULE ProtectLock ----------------------------
(***************************************************************************)
(* The locks of a set in SING_LM_PROTECTED (locks.c).  One process at a    *)
(* time has process_lock, the robust mutex in shared memory.  The thread   *)
(* that took it opens the set to all threads of its process: it writes its *)
(* tid into manual_locked of the protect_lock, a word in the memory of the *)
(* process, and their write calls count themselves in locks_count of the   *)
(* same word.  To unlock, or to unload, it clears the tid and waits for    *)
(* the count.                                                              *)
(*                                                                         *)
(* A home is a connection of a process (an FSingSet) and holds the         *)
(* protect_lock.  A process may die at any point.  Of the program it is    *)
(* asked that a thread that unloads a set finds no other thread of its     *)
(* home waiting in a call, and that none starts one then: the unload frees *)
(* the connection.                                                         *)
(***************************************************************************)
EXTENDS Naturals, FiniteSets

CONSTANTS
  Workers,   \* gettid() of the threads
  NoTid,     \* manual_locked = 0
  Homes,
  HomeOf     \* the home of each thread

ThreadsHaveHomes ==
  IsFiniteSet(Workers) /\ NoTid \notin Workers /\ HomeOf \in [Workers -> Homes]

ASSUME HomesAssumption == ThreadsHaveHomes

VARIABLES
  process_lock,  \* the thread that has the mutex
  stale,         \* its last owner died: EOWNERDEAD
  locks,         \* locks_count of each home
  manual,        \* manual_locked of each home
  where,         \* where a thread is
  aim,           \* what it wants the mutex for
  word,          \* its copy of the protect_lock
  removed        \* bad_states.states.deleted

protectVars == <<process_lock, stale, locks, manual, where, aim, word, removed>>

Tids == Workers \cup {NoTid}
ProtectWord == [count : Nat, tid : Tids]

\* "op" is a write call inside the lock.  Who has called sing_lock_W is "idle"
\* again, and is told from the others by manual_locked.
Whereabouts == {"idle", "look", "cas", "op", "mutex", "recover", "check", "store",
           "wait", "sync", "drop", "last", "leave", "gone"}

Home(t) == HomeOf[t]

WordNow(t) == [count |-> locks[Home(t)], tid |-> manual[Home(t)]]

ProtectInit ==
  /\ process_lock = NoTid /\ stale = FALSE /\ removed = FALSE
  /\ locks = [h \in Homes |-> 0] /\ manual = [h \in Homes |-> NoTid]
  /\ where = [t \in Workers |-> "idle"] /\ aim = [t \in Workers |-> "none"]
  /\ word = [t \in Workers |-> [count |-> 0, tid |-> NoTid]]

Move(t, place) == where' = [where EXCEPT ![t] = place]
Turn(t, place, what) == Move(t, place) /\ aim' = [aim EXCEPT ![t] = what]

LoadWord(t) == word' = [word EXCEPT ![t] = WordNow(t)]
Manual(t, tid) == manual' = [manual EXCEPT ![Home(t)] = tid]

\* A call of a thread: its home is not being unloaded.
Starts(t) ==
  /\ where[t] = "idle"
  /\ \A u \in Workers : Home(u) = Home(t) => aim[u] # "unload"

Calm(t) == \A u \in Workers \ {t} : Home(u) = Home(t) => where[u] \in {"idle", "op"}

-----------------------------------------------------------------------------
\* lck_processLock
CallBegin(t) ==
  /\ Starts(t)
  /\ LoadWord(t) /\ Move(t, "look")
  /\ UNCHANGED <<process_lock, stale, locks, manual, aim, removed>>

\* BAD_STATES_CHECK, and a lighter spin until somebody of the process has
\* locked the set.
CallLook(t) ==
  /\ where[t] = "look"
  /\ LoadWord(t)
  /\ \/ removed /\ Move(t, "gone")
     \/ ~removed /\ word[t].tid = NoTid /\ UNCHANGED where
  /\ UNCHANGED <<process_lock, stale, locks, manual, aim, removed>>

CallGoesOn(t) ==
  /\ where[t] = "look" /\ ~removed /\ word[t].tid # NoTid
  /\ Move(t, "cas")
  /\ UNCHANGED <<process_lock, stale, locks, manual, aim, word, removed>>

\* The compare-and-swap that adds one to locks_count, over the whole word.
Swap(t, equal) ==
  /\ where[t] = "cas"
  /\ IF equal
     THEN /\ locks' = [locks EXCEPT ![Home(t)] = @ + 1]
          /\ Move(t, "op") /\ UNCHANGED word
     ELSE LoadWord(t) /\ Move(t, "look") /\ UNCHANGED locks
  /\ UNCHANGED <<process_lock, stale, manual, aim, removed>>

\* A mistake: locks_count alone is compared and swapped.
CallCasCount(t) == Swap(t, word[t].count = locks[Home(t)])

CallCas(t) == Swap(t, word[t] = WordNow(t))

\* lck_processUnlock
CallEnd(t) ==
  /\ where[t] = "op"
  /\ locks' = [locks EXCEPT ![Home(t)] = @ - 1]
  /\ Move(t, "idle")
  /\ UNCHANGED <<process_lock, stale, manual, aim, word, removed>>

-----------------------------------------------------------------------------
\* lck_manualLock, of sing_lock_W and of idx_unload_set; refused when a thread
\* of the process has locked the set.
Ask(t) ==
  /\ Starts(t) /\ manual[Home(t)] = NoTid
  /\ \/ Turn(t, "mutex", "lock")
     \/ Calm(t) /\ Turn(t, "mutex", "unload")
  /\ UNCHANGED <<process_lock, stale, locks, manual, word, removed>>

\* BAD_STATES_CHECK, once a millisecond.
MutexGone(t) ==
  /\ where[t] = "mutex" /\ removed
  /\ Turn(t, "gone", "none")
  /\ UNCHANGED <<process_lock, stale, locks, manual, word, removed>>

\* After EOWNERDEAD the copy on disk is finished or taken back.
MutexTake(t) ==
  /\ where[t] = "mutex" /\ process_lock = NoTid
  /\ process_lock' = t /\ stale' = FALSE
  /\ Move(t, IF stale THEN "recover" ELSE "check")
  /\ UNCHANGED <<locks, manual, aim, word, removed>>

\* lck_manualTry; a mutex that another thread has returns RESULT_LOCKED.
TryTake(t) ==
  /\ Starts(t) /\ manual[Home(t)] = NoTid
  /\ ~removed /\ process_lock = NoTid
  /\ process_lock' = t /\ stale' = FALSE
  /\ Turn(t, IF stale THEN "recover" ELSE "check", "try")
  /\ UNCHANGED <<locks, manual, word, removed>>

\* _mutexTry falls from EOWNERDEAD through to EBUSY: the call returns
\* RESULT_LOCKED and the mutex is kept, with no tid in manual_locked.
Recover(t) ==
  /\ where[t] = "recover"
  /\ IF aim[t] = "try" THEN Turn(t, "idle", "none") ELSE Move(t, "check") /\ UNCHANGED aim
  /\ UNCHANGED <<process_lock, stale, locks, manual, word, removed>>

RecoverFails(t) ==
  /\ where[t] = "recover"
  /\ process_lock' = NoTid /\ Turn(t, "idle", "none")
  /\ UNCHANGED <<stale, locks, manual, word, removed>>

\* A set that was deleted before the mutex was obtained is left.
MutexCheck(t) ==
  /\ where[t] = "check"
  /\ IF removed
     THEN process_lock' = NoTid /\ Turn(t, "gone", "none")
     ELSE Move(t, "store") /\ UNCHANGED <<process_lock, aim>>
  /\ UNCHANGED <<stale, locks, manual, word, removed>>

Store(t) ==
  /\ where[t] = "store"
  /\ Manual(t, t)
  /\ IF aim[t] = "unload" THEN Move(t, "drop") /\ UNCHANGED aim ELSE Turn(t, "idle", "none")
  /\ UNCHANGED <<process_lock, stale, locks, word, removed>>

-----------------------------------------------------------------------------
\* lck_manualUnlock and idx_unload_set of the thread that has locked the set;
\* both begin with lck_protectWait.
Release(t, tid) ==
  /\ Starts(t) /\ manual[Home(t)] = t
  /\ Manual(t, tid)
  /\ \/ Turn(t, "wait", "unlock")
     \/ Calm(t) /\ Turn(t, "wait", "unload")
  /\ UNCHANGED <<process_lock, stale, locks, word, removed>>

\* A mistake: lck_protectWait that looks at the count and leaves the tid.
ReleaseOpen(t) == Release(t, t)

\* lck_protectWait clears manual_locked ..
ReleaseClosed(t) == Release(t, NoTid)

\* .. and waits for the calls inside.
Drained(t) ==
  /\ where[t] = "wait" /\ locks[Home(t)] = 0
  /\ Move(t, "sync")
  /\ UNCHANGED <<process_lock, stale, locks, manual, aim, word, removed>>

\* cp_flush or idx_revert, and the mutex is given back unless the set is to be
\* unloaded.  An unload whose revert fails returns with the mutex.
Synced(t) ==
  /\ where[t] = "sync"
  /\ \/ aim[t] = "unlock" /\ process_lock' = NoTid /\ Turn(t, "idle", "none")
     \/ aim[t] = "unload" /\ Move(t, "drop") /\ UNCHANGED <<process_lock, aim>>
     \/ aim[t] = "unload" /\ Turn(t, "idle", "none") /\ UNCHANGED process_lock
  /\ UNCHANGED <<stale, locks, manual, word, removed>>

\* The names are unlinked, and lck_deinit_locks sets the flag, ..
Drop(t) ==
  /\ where[t] = "drop"
  /\ removed' = TRUE /\ Move(t, "last")
  /\ UNCHANGED <<process_lock, stale, locks, manual, aim, word>>

\* .. closes the home and waits once more ..
Last(t) ==
  /\ where[t] = "last"
  /\ Manual(t, NoTid) /\ Move(t, "leave")
  /\ UNCHANGED <<process_lock, stale, locks, aim, word, removed>>

\* .. and gives the mutex back; the home is no more.
Leave(t) ==
  /\ where[t] = "leave" /\ locks[Home(t)] = 0
  /\ process_lock' = NoTid
  /\ where' = [u \in Workers |-> IF Home(u) = Home(t) THEN "gone" ELSE where[u]]
  /\ aim' = [aim EXCEPT ![t] = "none"]
  /\ UNCHANGED <<stale, locks, manual, word, removed>>

-----------------------------------------------------------------------------
\* The process of a home dies; the kernel marks a mutex it had.
Dies(h) ==
  /\ \E t \in Workers : Home(t) = h /\ where[t] # "gone"
  /\ where' = [u \in Workers |-> IF Home(u) = h THEN "gone" ELSE where[u]]
  /\ aim' = [u \in Workers |-> IF Home(u) = h THEN "none" ELSE aim[u]]
  /\ locks' = [locks EXCEPT ![h] = 0] /\ manual' = [manual EXCEPT ![h] = NoTid]
  /\ IF process_lock # NoTid /\ Home(process_lock) = h
     THEN process_lock' = NoTid /\ stale' = TRUE
     ELSE UNCHANGED <<process_lock, stale>>
  /\ UNCHANGED <<word, removed>>

ProtectCalls(t) == CallBegin(t) \/ Ask(t) \/ TryTake(t) \/ ReleaseClosed(t)

ProtectGoes(t) ==
  \/ CallLook(t) \/ CallGoesOn(t) \/ CallCas(t) \/ CallEnd(t)
  \/ MutexGone(t) \/ MutexTake(t) \/ Recover(t) \/ RecoverFails(t) \/ MutexCheck(t) \/ Store(t)
  \/ Drained(t) \/ Synced(t) \/ Drop(t) \/ Last(t) \/ Leave(t)

ProtectNext == (\E t \in Workers : ProtectCalls(t) \/ ProtectGoes(t)) \/ (\E h \in Homes : Dies(h))

ProtectSpec == ProtectInit /\ [][ProtectNext]_protectVars

-----------------------------------------------------------------------------
ProtectTypeOK ==
  /\ process_lock \in Tids /\ stale \in BOOLEAN /\ removed \in BOOLEAN
  /\ locks \in [Homes -> Nat] /\ manual \in [Homes -> Tids]
  /\ where \in [Workers -> Whereabouts]
  /\ aim \in [Workers -> {"none", "lock", "try", "unlock", "unload"}]
  /\ word \in [Workers -> ProtectWord]

\* Where a thread that has the mutex takes the set to be at rest: it recovers,
\* checks, opens, flushes or reverts it.
Quiet == {"recover", "check", "store", "sync"}

\* A write call is inside only while a thread of its own process has the mutex
\* and neither recovers, flushes nor reverts the set: no call of a process that
\* has unlocked the set, or died, works beside the next owner.
Guarded ==
  \A t \in Workers : where[t] = "op" =>
    /\ process_lock # NoTid /\ Home(process_lock) = Home(t)
    /\ where[process_lock] \notin Quiet

\* Who waits for the calls inside, or for a set that has been deleted.
Waiting(t) ==
  \/ where[t] = "wait"
  \/ removed /\ where[t] \in {"look", "cas", "mutex"}

\* The wait of lck_protectWait ends, whatever calls the other threads make, and
\* who waits for a set that has been deleted is told.
WaitsEnd == \A t \in Workers : Waiting(t) ~> ~Waiting(t)
=============================================================================
