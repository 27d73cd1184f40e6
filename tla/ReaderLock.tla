------------------------------ MODULE ReaderLock ------------------------------
(***************************************************************************)
(* The lock of lock-free readers (locks.c, FRWLock): two 16-bit counters   *)
(* and a sequence in one 64-bit word that every party changes by           *)
(* compare-and-exchange.                                                   *)
(*                                                                         *)
(*   - A getter is a thread in a sing_get_* call: it looks up one or more  *)
(*     keys and keeps its lock from key to key (rlock.keep).               *)
(*   - A dumper is a thread in dump_hash_chain: it lets deletions in other *)
(*     chains pass after each key (lck_readerUnlockCond).                  *)
(*   - The writer is whoever holds the memory lock, so there is one: it    *)
(*     waits for the readers that started before it frees memory           *)
(*     (lck_waitForReaders) or shuts all of them out for a revert          *)
(*     (lck_fullReaderLock).                                               *)
(*                                                                         *)
(* A step is one atomic access to the word with the local computation that *)
(* follows it.  `sequence' is 32 bits wide and is taken not to wrap while  *)
(* a reader sleeps in its section: MaxSeq bounds it.                       *)
(***************************************************************************)
EXTENDS Integers, FiniteSets

CONSTANTS
  Getters,     \* threads that read keys
  Dumpers,     \* threads that dump chains
  Steady,      \* those that are scheduled; the others may sleep or die anywhere
  MaxKeys,     \* largest number of keys in one call; 1: no lock is ever kept
  Chains,      \* hashes of the chains
  NoDeletion,  \* LCK_NO_DELETION
  Full,        \* 0xFFFF: the largest value of a counter and the closed mark
  MaxSeq,      \* bound on the sequence
  MaxCalls,    \* bound on the calls made by one reader
  Revert,      \* TRUE if the writer reverts the set too
  NoXchg       \* no compare-and-exchange is pending

Readers == Getters \cup Dumpers
Word    == [cnt : [0..1 -> 0..Full], seq : 0..MaxSeq]
Xchg    == [old : Word, new : Word]

ASSUME ReaderLockAssumption ==
  /\ IsFiniteSet(Readers) /\ Getters \cap Dumpers = {}
  /\ MaxKeys \in Nat \ {0} /\ MaxSeq \in Nat /\ MaxCalls \in Nat
  /\ Full \in Nat /\ Cardinality(Readers) < Full
  /\ NoDeletion \notin Chains
  /\ Revert \in BOOLEAN /\ Steady \subseteq Readers
  /\ NoXchg \notin Xchg

VARIABLES
  rw,          \* lock_set->rw_lock
  delInChain,  \* lock_set->del_in_chain
  pc,          \* where each reader is
  keep,        \* rlock.keep
  keeped,      \* rlock.keeped
  readerSeq,   \* rlock.readerSeq
  xchg,        \* the value a reader loaded and the one it wants to store
  job,         \* keys left, whether the key is behind a link, answer, chain
  calls,       \* calls started by each reader
  wpc,         \* where the writer is
  wxchg,       \* the writer's loaded and wanted words
  birth,       \* history: the sequence when the reader's section began
  killed,      \* history: readers whose lock a timeout took away
  reclaimed    \* history: the sequence of the last finished grace period

local  == <<keep, keeped, job, calls>>
writer == <<delInChain, wpc, wxchg, reclaimed>>
vars   == <<rw, pc, readerSeq, xchg, birth, killed, local, writer>>

Answers == {"none", "found", "missing", "error"}
Job     == [left : 0..MaxKeys, deep : BOOLEAN, ans : Answers,
            chain : Chains \cup {NoDeletion}]
KeyJob(n, d) == [left |-> n, deep |-> d, ans |-> "none", chain |-> NoDeletion]
ChainJob(c)  == [left |-> 0, deep |-> FALSE, ans |-> "none", chain |-> c]
NoJob        == ChainJob(NoDeletion)

\* The points where a reader uses what it has read under its lock.
Reading == {"search", "unlock", "dump", "cond", "last", "final"}

-----------------------------------------------------------------------------
(* The word.  A counter is an unsigned short: it wraps.                     *)

Par(s) == s % 2
Put(w, p, n) == [cnt |-> [w.cnt EXCEPT ![p] = n], seq |-> w.seq]
Enter(w) ==
  LET p == Par(w.seq)
  IN  Put(w, p, IF w.cnt[p] = Full THEN 0 ELSE w.cnt[p] + 1)

Leave(w, s) ==
  LET p == Par(s)
  IN  Put(w, p, IF w.cnt[p] = 0 THEN Full ELSE w.cnt[p] - 1)
Switch(w, s) == Leave(Enter(w), s)
Closed(w) == w.cnt[Par(w.seq)] = Full

\* _check_reader_lock
Valid(w, s) == w.cnt[Par(s)] # 0 /\ (s = w.seq \/ s + 1 = w.seq)

Attempt(w, n) == [old |-> w, new |-> n]

-----------------------------------------------------------------------------
(* Calls.                                                                   *)

Idle(r) ==
  /\ pc'     = [pc EXCEPT ![r] = "idle"]
  /\ keep'   = [keep EXCEPT ![r] = FALSE]
  /\ keeped' = [keeped EXCEPT ![r] = FALSE]
  /\ job'    = [job EXCEPT ![r] = NoJob]

\* sing_get_values_n and its siblings: keep is set unless there is one key.
BeginGet(g) ==
  /\ pc[g] = "idle" /\ calls[g] < MaxCalls
  /\ \E n \in 1..MaxKeys, d \in BOOLEAN :
       /\ job'  = [job EXCEPT ![g] = KeyJob(n, d)]
       /\ keep' = [keep EXCEPT ![g] = n > 1]
  /\ pc'    = [pc EXCEPT ![g] = "enter"]
  /\ calls' = [calls EXCEPT ![g] = @ + 1]
  /\ UNCHANGED <<rw, keeped, readerSeq, xchg, birth, killed, writer>>

BeginDump(d) ==
  /\ pc[d] = "idle" /\ calls[d] < MaxCalls
  /\ \E c \in Chains : job' = [job EXCEPT ![d] = ChainJob(c)]
  /\ keep'  = [keep EXCEPT ![d] = TRUE]
  /\ pc'    = [pc EXCEPT ![d] = "enter"]
  /\ calls' = [calls EXCEPT ![d] = @ + 1]
  /\ UNCHANGED <<rw, keeped, readerSeq, xchg, birth, killed, writer>>

\* Where lck_readerLock returns to.
Body(r) == IF r \in Dumpers THEN "dump" ELSE "search"

\* lck_readerLock returns at once when the lock was kept.
EnterKeeped(r) ==
  /\ pc[r] = "enter" /\ keeped[r]
  /\ pc' = [pc EXCEPT ![r] = Body(r)]
  /\ UNCHANGED <<rw, readerSeq, xchg, birth, killed, local, writer>>

LockLoad(r) ==
  /\ pc[r] = "enter" /\ ~keeped[r] /\ xchg[r] = NoXchg
  /\ xchg' = [xchg EXCEPT ![r] = Attempt(rw, Enter(rw))]
  /\ UNCHANGED <<rw, pc, readerSeq, birth, killed, local, writer>>

LockTaken(r) ==
  /\ pc[r] = "enter" /\ xchg[r] # NoXchg
  /\ rw = xchg[r].old /\ ~Closed(rw)
  /\ rw'        = xchg[r].new
  /\ xchg'      = [xchg EXCEPT ![r] = NoXchg]
  /\ readerSeq' = [readerSeq EXCEPT ![r] = rw.seq]
  /\ birth'     = [birth EXCEPT ![r] = rw.seq]
  /\ killed'    = killed \ {r}
  /\ pc'        = [pc EXCEPT ![r] = Body(r)]
  /\ UNCHANGED <<local, writer>>

\* The exchange fails, or the word is closed and the reader sleeps and reloads.
LockRetry(r) ==
  /\ pc[r] = "enter" /\ xchg[r] # NoXchg
  /\ rw # xchg[r].old \/ Closed(xchg[r].old)
  /\ xchg' = [xchg EXCEPT ![r] = Attempt(rw, Enter(rw))]
  /\ UNCHANGED <<rw, pc, readerSeq, birth, killed, local, writer>>

-----------------------------------------------------------------------------
(* _key_search_R.  A key in the table is compared at once; before it goes   *)
(* on through a link the search asks lck_readerCheck, and starts again      *)
(* when the lock is lost.                                                   *)

Answer(g) == \E a \in Answers \ {"none"} :
               job' = [job EXCEPT ![g].ans = a]

SearchDone(g) ==
  /\ pc[g] = "search" /\ (job[g].deep => Valid(rw, readerSeq[g]))
  /\ Answer(g)
  /\ pc' = [pc EXCEPT ![g] = "unlock"]
  /\ UNCHANGED <<rw, keep, keeped, calls, readerSeq, xchg, birth, killed, writer>>

SearchAgain(g) ==
  /\ pc[g] = "search" /\ job[g].deep /\ ~Valid(rw, readerSeq[g])
  /\ pc' = [pc EXCEPT ![g] = "enter"]
  /\ UNCHANGED <<rw, readerSeq, xchg, birth, killed, local, writer>>

\* The lock is lost after the check: the link read is rubbish and leads out of
\* the set, lck_readerUnlock clears keeped and the search starts again.
SearchOutside(g) ==
  /\ pc[g] = "search" /\ job[g].deep /\ ~Valid(rw, readerSeq[g])
  /\ pc'     = [pc EXCEPT ![g] = "enter"]
  /\ keeped' = [keeped EXCEPT ![g] = FALSE]
  /\ UNCHANGED <<rw, readerSeq, xchg, birth, killed, keep, job, calls, writer>>

-----------------------------------------------------------------------------
(* What the callers of lck_readerUnlock do with its result.  kd is the      *)
(* keeped flag it leaves.                                                   *)

\* while (!lck_readerUnlock(...)): the key is looked up once more.
KeyAgain(r, kd) ==
  /\ pc'     = [pc EXCEPT ![r] = "enter"]
  /\ keeped' = [keeped EXCEPT ![r] = kd]
  /\ UNCHANGED <<keep, job>>

\* After an error, or for a last key that cannot be one:
\* if (rlock.keeped) rlock.keep = 0,lck_readerUnlock(...)
Bail(r, kd) ==
  IF kd THEN /\ pc'     = [pc EXCEPT ![r] = "bail"]
             /\ keep'   = [keep EXCEPT ![r] = FALSE]
             /\ keeped' = [keeped EXCEPT ![r] = TRUE]
             /\ UNCHANGED job
        ELSE Idle(r)

NextKey(r, kd) ==
  \/ job[r].left = 1 /\ Idle(r)
  \/ /\ job[r].left > 1
     /\ \E d \in BOOLEAN : job' = [job EXCEPT ![r] = KeyJob(job[r].left - 1, d)]
     /\ keep'   = [keep EXCEPT ![r] = job[r].left > 2]
     /\ keeped' = [keeped EXCEPT ![r] = kd]
     /\ pc'     = [pc EXCEPT ![r] = "enter"]
  \/ job[r].left = 2 /\ Bail(r, kd)

\* idx_dump_all: while (dump_hash_chain(...)) fbw_rollback(...)
DumpAgain(r) ==
  /\ pc'     = [pc EXCEPT ![r] = "enter"]
  /\ keep'   = [keep EXCEPT ![r] = TRUE]
  /\ keeped' = [keeped EXCEPT ![r] = FALSE]
  /\ UNCHANGED job

\* _key_search_R and the allocation failure drop the result of the unlock.
Unlocked(r, ok, kd) ==
  \/ pc[r] = "unlock" /\ job[r].ans = "found" /\ ~ok /\ KeyAgain(r, kd)
  \/ pc[r] = "unlock" /\ job[r].ans = "found" /\ ok /\ NextKey(r, kd)
  \/ pc[r] = "unlock" /\ job[r].ans = "missing" /\ NextKey(r, kd)
  \/ /\ pc[r] = "unlock" /\ job[r].ans = "error"
     /\ IF job[r].left = 1 THEN Idle(r) ELSE Bail(r, kd)
  \/ pc[r] = "bail" /\ Idle(r)
  \/ pc[r] = "final" /\ ok /\ Idle(r)
  \/ pc[r] \in {"last", "final"} /\ ~ok /\ DumpAgain(r)
  \/ /\ pc[r] = "last" /\ ok
     /\ pc'     = [pc EXCEPT ![r] = "final"]
     /\ keep'   = [keep EXCEPT ![r] = FALSE]
     /\ keeped' = [keeped EXCEPT ![r] = kd]
     /\ UNCHANGED job

-----------------------------------------------------------------------------
(* lck_readerUnlock                                                         *)

Unlocking == {"unlock", "bail", "last", "final"}
Loads(r)  == pc[r] \in Unlocking /\ xchg[r] = NoXchg
Stores(r) == pc[r] \in Unlocking /\ xchg[r] # NoXchg

\* No writer waits: a lock to be kept simply stays.
UnlockStay(r) ==
  /\ Loads(r) /\ Valid(rw, readerSeq[r]) /\ keep[r] /\ readerSeq[r] = rw.seq
  /\ Unlocked(r, TRUE, TRUE)
  /\ UNCHANGED <<rw, readerSeq, xchg, birth, killed, calls, writer>>

UnlockLoad(r) ==
  /\ Loads(r) /\ Valid(rw, readerSeq[r]) /\ ~(keep[r] /\ readerSeq[r] = rw.seq)
  /\ xchg' = [xchg EXCEPT ![r] = Attempt(rw,
       IF keep[r] /\ ~Closed(rw) THEN Switch(rw, readerSeq[r])
                                 ELSE Leave(rw, readerSeq[r]))]
  /\ keeped' = [keeped EXCEPT ![r] = IF keep[r] THEN ~Closed(rw) ELSE @]
  /\ UNCHANGED <<rw, pc, keep, job, calls, readerSeq, birth, killed, writer>>

UnlockDone(r) ==
  /\ Stores(r) /\ rw = xchg[r].old
  /\ rw'        = xchg[r].new
  /\ xchg'      = [xchg EXCEPT ![r] = NoXchg]
  /\ readerSeq' = [readerSeq EXCEPT ![r] = rw.seq]
  /\ birth'     = [birth EXCEPT ![r] = rw.seq]
  /\ Unlocked(r, TRUE, keeped[r])
  /\ UNCHANGED <<calls, killed, writer>>

\* The retry loop enters the current counter again without looking at it.
UnlockRetry(r) ==
  /\ Stores(r) /\ rw # xchg[r].old /\ Valid(rw, readerSeq[r])
  /\ xchg' = [xchg EXCEPT ![r] = Attempt(rw,
       IF keep[r] THEN Switch(rw, readerSeq[r]) ELSE Leave(rw, readerSeq[r]))]
  /\ UNCHANGED <<rw, pc, readerSeq, birth, killed, local, writer>>

UnlockLost(r) ==
  /\ \/ Loads(r)
     \/ Stores(r) /\ rw # xchg[r].old
  /\ ~Valid(rw, readerSeq[r])
  /\ xchg' = [xchg EXCEPT ![r] = NoXchg]
  /\ Unlocked(r, FALSE, FALSE)
  /\ UNCHANGED <<rw, readerSeq, birth, killed, calls, writer>>

-----------------------------------------------------------------------------
(* lck_readerUnlockCond, called by dump_hash_chain after each key.          *)

\* Wrong: a deletion in the chain being dumped may pass too.
CondLoadAnyChain(d) ==
  /\ pc[d] = "dump" /\ Valid(rw, readerSeq[d])
  /\ keeped' = [keeped EXCEPT ![d] = TRUE]
  /\ IF readerSeq[d] = rw.seq \/ Closed(rw)
     THEN UNCHANGED <<xchg, pc>>
     ELSE /\ xchg' = [xchg EXCEPT ![d] = Attempt(rw, Switch(rw, readerSeq[d]))]
          /\ pc'   = [pc EXCEPT ![d] = "cond"]
  /\ UNCHANGED <<rw, keep, job, calls, readerSeq, birth, killed, writer>>

CondLoad(d) ==
  /\ pc[d] = "dump" /\ Valid(rw, readerSeq[d])
  /\ keeped' = [keeped EXCEPT ![d] = TRUE]
  /\ IF readerSeq[d] = rw.seq \/ job[d].chain = delInChain \/ Closed(rw)
     THEN UNCHANGED <<xchg, pc>>
     ELSE /\ xchg' = [xchg EXCEPT ![d] = Attempt(rw, Switch(rw, readerSeq[d]))]
          /\ pc'   = [pc EXCEPT ![d] = "cond"]
  /\ UNCHANGED <<rw, keep, job, calls, readerSeq, birth, killed, writer>>

\* The lock moves to the new counter; readerSeq stays at the old sequence.
CondDone(d) ==
  /\ pc[d] = "cond" /\ rw = xchg[d].old
  /\ rw'    = xchg[d].new
  /\ xchg'  = [xchg EXCEPT ![d] = NoXchg]
  /\ birth' = [birth EXCEPT ![d] = rw.seq]
  /\ pc'    = [pc EXCEPT ![d] = "dump"]
  /\ UNCHANGED <<readerSeq, killed, local, writer>>

CondRetry(d) ==
  /\ pc[d] = "cond" /\ rw # xchg[d].old /\ Valid(rw, readerSeq[d])
  /\ xchg' = [xchg EXCEPT ![d] = Attempt(rw, Switch(rw, readerSeq[d]))]
  /\ UNCHANGED <<rw, pc, readerSeq, birth, killed, local, writer>>

CondLost(d) ==
  /\ \/ pc[d] = "dump"
     \/ pc[d] = "cond" /\ rw # xchg[d].old
  /\ ~Valid(rw, readerSeq[d])
  /\ xchg' = [xchg EXCEPT ![d] = NoXchg]
  /\ DumpAgain(d)
  /\ UNCHANGED <<rw, readerSeq, birth, killed, calls, writer>>

\* The end of the chain: a last header in the last place of its block is
\* left through lck_readerUnlock before the final one.
DumpEnd(d) ==
  /\ pc[d] = "dump"
  /\ \/ pc' = [pc EXCEPT ![d] = "last"] /\ UNCHANGED keep
     \/ /\ pc'   = [pc EXCEPT ![d] = "final"]
        /\ keep' = [keep EXCEPT ![d] = FALSE]
  /\ UNCHANGED <<rw, keeped, job, calls, readerSeq, xchg, birth, killed, writer>>

-----------------------------------------------------------------------------
(* lck_waitForReaders                                                       *)

OldPar == 1 - Par(rw.seq)
readers == <<pc, readerSeq, xchg, birth, local>>

MarkDelete(c) ==
  /\ wpc = "idle" /\ rw.seq < MaxSeq
  /\ delInChain' = c
  /\ wpc' = "incr"
  /\ UNCHANGED <<rw, wxchg, reclaimed, killed, readers>>

\* Wrong: the counter to wait for is not read.
NextSequenceNoWait ==
  /\ wpc = "incr"
  /\ rw' = [cnt |-> rw.cnt, seq |-> rw.seq + 1]
  /\ wpc' = "free"
  /\ UNCHANGED <<delInChain, wxchg, reclaimed, killed, readers>>

NextSequence ==
  /\ wpc = "incr"
  /\ rw' = [cnt |-> rw.cnt, seq |-> rw.seq + 1]
  /\ wpc' = IF rw.cnt[Par(rw.seq)] \in {0, Full} THEN "free" ELSE "wait"
  /\ UNCHANGED <<delInChain, wxchg, reclaimed, killed, readers>>

WaitZero ==
  /\ wpc = "wait" /\ rw.cnt[OldPar] = 0
  /\ wpc' = "free"
  /\ UNCHANGED <<rw, delInChain, wxchg, reclaimed, killed, readers>>

\* Wrong: the waiting ends and the counter stays.
WaitTimeoutNoClear ==
  /\ wpc = "wait" /\ rw.cnt[OldPar] # 0
  /\ wpc' = "free"
  /\ UNCHANGED <<rw, delInChain, wxchg, reclaimed, killed, readers>>

\* Wrong: the waiting has no end.
WaitForever ==
  /\ wpc = "wait" /\ rw.cnt[OldPar] # 0
  /\ UNCHANGED vars

WaitTimeout ==
  /\ wpc = "wait" /\ rw.cnt[OldPar] # 0
  /\ wpc' = "clear"
  /\ UNCHANGED <<rw, delInChain, wxchg, reclaimed, killed, readers>>

\* Readers whose lock is good until this step and not after it.
Victims(w) == {r \in Readers : Valid(rw, readerSeq[r]) /\ ~Valid(w, readerSeq[r])}

ClearCounter ==
  /\ wpc = "clear"
  /\ rw'     = Put(rw, OldPar, 0)
  /\ killed' = killed \cup Victims(Put(rw, OldPar, 0))
  /\ wpc'    = "free"
  /\ UNCHANGED <<delInChain, wxchg, reclaimed, readers>>

\* The caller frees or reuses what the readers could have been looking at.
Reclaim ==
  /\ wpc = "free"
  /\ reclaimed' = rw.seq
  /\ wpc' = "idle"
  /\ UNCHANGED <<rw, delInChain, wxchg, killed, readers>>

-----------------------------------------------------------------------------
(* lck_fullReaderLock and lck_fullReaderUnlock, around cp_revert            *)

Shut(s)  == [cnt |-> [p \in 0..1 |-> Full], seq |-> s]
Close(w) == [cnt |-> [w.cnt EXCEPT ![Par(w.seq + 1)] = Full], seq |-> w.seq + 1]

FullLoad ==
  /\ Revert /\ wpc = "idle" /\ rw.seq + 2 <= MaxSeq
  /\ wxchg' = Attempt(rw, Close(rw))
  /\ wpc' = "close"
  /\ UNCHANGED <<rw, delInChain, reclaimed, killed, readers>>

FullClosed ==
  /\ wpc = "close" /\ rw = wxchg.old
  /\ rw' = wxchg.new
  /\ wpc' = "drain"
  /\ UNCHANGED <<delInChain, wxchg, reclaimed, killed, readers>>

FullRetry ==
  /\ wpc = "close" /\ rw # wxchg.old
  /\ wxchg' = Attempt(rw, Close(rw))
  /\ UNCHANGED <<rw, delInChain, wpc, reclaimed, killed, readers>>

DrainZero ==
  /\ wpc = "drain" /\ rw.cnt[OldPar] = 0
  /\ wpc' = "seal"
  /\ UNCHANGED <<rw, delInChain, wxchg, reclaimed, killed, readers>>

\* Wrong: the sequence is not increased a second time.
DrainTimeoutSeals ==
  /\ wpc = "drain" /\ rw.cnt[OldPar] # 0
  /\ wpc' = "seal"
  /\ UNCHANGED <<rw, delInChain, wxchg, reclaimed, killed, readers>>

DrainTimeout ==
  /\ wpc = "drain" /\ rw.cnt[OldPar] # 0
  /\ wpc' = "force"
  /\ UNCHANGED <<rw, delInChain, wxchg, reclaimed, killed, readers>>

FullSeal ==
  /\ wpc = "seal"
  /\ rw' = Shut(rw.seq)
  /\ wpc' = "revert" /\ wxchg' = NoXchg
  /\ UNCHANGED <<delInChain, reclaimed, killed, readers>>

FullForce ==
  /\ wpc = "force"
  /\ rw' = Shut(wxchg.new.seq + 1)
  /\ killed' = killed \cup Victims(rw')
  /\ wpc' = "revert" /\ wxchg' = NoXchg
  /\ UNCHANGED <<delInChain, reclaimed, readers>>

\* Wrong: one counter stays closed.
FullUnlockHalf ==
  /\ wpc = "revert"
  /\ rw' = Put(rw, OldPar, 0)
  /\ wpc' = "idle"
  /\ UNCHANGED <<delInChain, wxchg, reclaimed, killed, readers>>

FullUnlock ==
  /\ wpc = "revert"
  /\ rw' = [cnt |-> [p \in 0..1 |-> 0], seq |-> rw.seq]
  /\ wpc' = "idle"
  /\ UNCHANGED <<delInChain, wxchg, reclaimed, killed, readers>>

-----------------------------------------------------------------------------
Init ==
  /\ rw = [cnt |-> [p \in 0..1 |-> 0], seq |-> 0]
  /\ delInChain = NoDeletion
  /\ pc        = [r \in Readers |-> "idle"]
  /\ keep      = [r \in Readers |-> FALSE]
  /\ keeped    = [r \in Readers |-> FALSE]
  /\ readerSeq = [r \in Readers |-> 0]
  /\ xchg      = [r \in Readers |-> NoXchg]
  /\ job       = [r \in Readers |-> NoJob]
  /\ calls     = [r \in Readers |-> 0]
  /\ wpc = "idle" /\ wxchg = NoXchg
  /\ birth     = [r \in Readers |-> 0]
  /\ killed = {} /\ reclaimed = 0

LockStep(r)   == EnterKeeped(r) \/ LockLoad(r) \/ LockTaken(r) \/ LockRetry(r)
SearchStep(g) == SearchDone(g) \/ SearchAgain(g) \/ SearchOutside(g)
UnlockStep(r) == \/ UnlockStay(r) \/ UnlockLoad(r) \/ UnlockDone(r)
                 \/ UnlockRetry(r) \/ UnlockLost(r)
CondStep(d)   == CondLoad(d) \/ CondDone(d) \/ CondRetry(d) \/ CondLost(d)
WaitStep      == NextSequence \/ WaitZero \/ WaitTimeout \/ ClearCounter \/ Reclaim
FullStep      == \/ FullClosed \/ FullRetry \/ DrainZero \/ DrainTimeout
                 \/ FullSeal \/ FullForce \/ FullUnlock

\* A step that finishes a call that was begun.
Progress(r) == \/ LockStep(r) \/ UnlockStep(r)
               \/ r \in Getters /\ SearchStep(r)
               \/ r \in Dumpers /\ (DumpEnd(r) \/ CondStep(r))
WriterProgress == WaitStep \/ FullStep

\* Every call was made and has returned.
Finished ==
  /\ \A r \in Readers : pc[r] = "idle" /\ calls[r] = MaxCalls
  /\ wpc = "idle" /\ rw.seq = MaxSeq
  /\ UNCHANGED vars

Next ==
  \/ \E r \in Readers : Progress(r)
  \/ \E g \in Getters : BeginGet(g)
  \/ \E d \in Dumpers : BeginDump(d)
  \/ \E c \in Chains \cup {NoDeletion} : MarkDelete(c)
  \/ FullLoad
  \/ WriterProgress
  \/ Finished

Spec == Init /\ [][Next]_vars

\* The writer spins a bounded number of times and nothing can stop it, so it
\* is scheduled; a reader may sleep or die anywhere, but for the steady ones.
FairSpec ==
  Spec /\ WF_vars(WriterProgress) /\ \A r \in Steady : WF_vars(Progress(r))

-----------------------------------------------------------------------------
TypeOK ==
  /\ rw \in Word
  /\ delInChain \in Chains \cup {NoDeletion}
  /\ pc \in [Readers -> Reading \cup {"idle", "enter", "bail"}]
  /\ keep \in [Readers -> BOOLEAN]
  /\ keeped \in [Readers -> BOOLEAN]
  /\ readerSeq \in [Readers -> 0..MaxSeq]
  /\ xchg \in [Readers -> Xchg \cup {NoXchg}]
  /\ job \in [Readers -> Job]
  /\ calls \in [Readers -> 0..MaxCalls]
  /\ wpc \in {"idle", "incr", "wait", "clear", "free",
              "close", "drain", "seal", "force", "revert"}
  /\ wxchg \in Xchg \cup {NoXchg}
  /\ birth \in [Readers -> 0..MaxSeq]
  /\ killed \subseteq Readers
  /\ reclaimed \in 0..MaxSeq

\* A reader that uses what it read, with a lock that the check accepts.
Trusting(r) == pc[r] \in Reading /\ Valid(rw, readerSeq[r])

\* lck_waitForReaders: once the writer has waited and freed, no reader whose
\* section began before that wait still passes the check of its lock.
GraceSafety == \A r \in Readers : Trusting(r) => birth[r] >= reclaimed

\* lck_fullReaderLock: while the set is being reverted no reader is in it.
FullExclusion == wpc = "revert" => \A r \in Readers : ~Trusting(r)

\* lck_readerUnlock: a lock is found destroyed only if a timeout took it away.
LostOnlyByTimeout ==
  \A r \in Readers : pc[r] \in Reading /\ ~Trusting(r) => r \in killed

\* A reader that occupies a place in a counter.
Occupied(r) == \/ pc[r] \in Reading \cup {"bail"}
               \/ pc[r] = "enter" /\ keeped[r]
Holding(r)  == Occupied(r) /\ r \notin killed

\* The counters count the readers and nothing else, so that a wait ends when
\* the last of them has left.
CountsExact ==
  \A p \in 0..1 : rw.cnt[p] # Full =>
    rw.cnt[p] = Cardinality({r \in Readers : Holding(r) /\ Par(readerSeq[r]) = p})

\* lck_readerUnlockCond: a dumper never lets a deletion in its own chain pass.
DumpKeepsChain ==
  [][\A d \in Dumpers :
       pc[d] = "cond" /\ pc'[d] = "dump"
       => ~(wpc \in {"wait", "clear"} /\ delInChain = job[d].chain)]_vars

\* lck_waitForReaders, lck_fullReaderLock: the writer is never stuck behind a
\* reader, sleeping and dead ones included.
WriterReturns == (wpc # "idle") ~> (wpc = "idle")

\* lck_readerLock and the searches: the read call of a thread that is scheduled
\* returns, whatever became of the other readers.
CallReturns == \A r \in Steady : (pc[r] # "idle") ~> (pc[r] = "idle")

-----------------------------------------------------------------------------
(* The promise kept: ReadSections, with a reader in its section from the    *)
(* exchange that counts it to the one that uncounts it.                     *)

Section == [r \in Readers |-> IF ~Occupied(r) THEN "out"
                              ELSE IF Valid(rw, readerSeq[r]) THEN "in" ELSE "lost"]

Mode == IF wpc \in {"wait", "clear", "free"} THEN "wait"
        ELSE IF wpc \in {"drain", "seal", "force"} THEN "closing"
        ELSE IF wpc = "revert" THEN "shut"
        ELSE "open"

Waited == IF Mode \in {"wait", "closing"}
          THEN {r \in Readers : Section[r] = "in" /\ readerSeq[r] # rw.seq}
          ELSE {}

Sections == INSTANCE ReadSections
              WITH section <- Section, mode <- Mode, waited <- Waited

\* locks.c as a whole: every step of the counters is a step of ReadSections or leaves it alone.
KeepsPromise == Sections!Spec
=============================================================================
