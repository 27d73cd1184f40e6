--------------------------- MODULE ReaderLockProofs ---------------------------
(***************************************************************************)
(* Theorems about ReaderLock, for any number of getters and dumpers below  *)
(* 0xFFFF and any bounds.  Of every behaviour: its types, that a dumper    *)
(* lets no deletion in its own chain pass, and, as long as no counter      *)
(* fills its 16 bits, that nobody reads what the writer has freed.  Of     *)
(* every behaviour up to the first step that counts wrong (Miscount): that *)
(* the counters are exact, a lock is lost only by timeout, nobody is in    *)
(* the set during a revert, and the promise of ReadSections is kept.       *)
(***************************************************************************)
EXTENDS ReaderLockInv, FiniteSetTheorems, TLAPS

-----------------------------------------------------------------------------
(* The operators on the word.                                               *)

LEMMA ParType == \A s \in Nat : Par(s) \in 0..1
BY DEF Par

LEMMA ParNext == \A s \in Nat : /\ Par(s + 1) = 1 - Par(s)
                                /\ Par(s) # Par(s + 1)
BY DEF Par

LEMMA PutType ==
  ASSUME NEW w \in Word, NEW p \in 0..1, NEW n \in 0..Full
  PROVE  Put(w, p, n) \in Word
BY DEF Put, Word

LEMMA EnterType == \A w \in Word : Enter(w) \in Word /\ Enter(w).seq = w.seq
<1> SUFFICES ASSUME NEW w \in Word
             PROVE  Enter(w) \in Word /\ Enter(w).seq = w.seq
  OBVIOUS
<1>1. w.seq \in Nat /\ MaxSeq \in Nat /\ Full \in Nat
  BY ReaderLockAssumption DEF Word
<1>2. Par(w.seq) \in 0..1
  BY <1>1, ParType
<1>3. w.cnt[Par(w.seq)] \in 0..Full
  BY <1>2 DEF Word
<1> DEFINE n == IF w.cnt[Par(w.seq)] = Full THEN 0 ELSE w.cnt[Par(w.seq)] + 1
<1>4. n \in 0..Full
  BY <1>1, <1>3
<1>5. Put(w, Par(w.seq), n) \in Word
  BY <1>2, <1>4, PutType
<1> QED
  BY <1>5 DEF Enter, Put

LEMMA LeaveType ==
  \A w \in Word, s \in Nat : Leave(w, s) \in Word /\ Leave(w, s).seq = w.seq
<1> SUFFICES ASSUME NEW w \in Word, NEW s \in Nat
             PROVE  Leave(w, s) \in Word /\ Leave(w, s).seq = w.seq
  OBVIOUS
<1>1. Full \in Nat
  BY ReaderLockAssumption
<1>2. Par(s) \in 0..1
  BY ParType
<1>3. w.cnt[Par(s)] \in 0..Full
  BY <1>2 DEF Word
<1> DEFINE n == IF w.cnt[Par(s)] = 0 THEN Full ELSE w.cnt[Par(s)] - 1
<1>4. n \in 0..Full
  BY <1>1, <1>3
<1>5. Put(w, Par(s), n) \in Word
  BY <1>2, <1>4, PutType
<1> QED
  BY <1>5 DEF Leave, Put

LEMMA SwitchType ==
  \A w \in Word, s \in Nat : Switch(w, s) \in Word /\ Switch(w, s).seq = w.seq
BY EnterType, LeaveType DEF Switch

LEMMA AttemptType ==
  \A w \in Word, n \in Word : Attempt(w, n) \in Xchg /\ Attempt(w, n) # NoXchg
BY ReaderLockAssumption DEF Attempt, Xchg

LEMMA CloseType ==
  \A w \in Word : w.seq + 2 <= MaxSeq => Close(w) \in Word /\ Close(w).seq = w.seq + 1
BY ReaderLockAssumption, ParType DEF Close, Word

LEMMA ShutType == \A s \in 0..MaxSeq : Shut(s) \in Word
BY ReaderLockAssumption DEF Shut, Word

-----------------------------------------------------------------------------
(* Type correctness, with dumpers and reverts.  The words a pending exchange *)
(* would store have the sequence of the words it loaded, and the writer      *)
(* starts only what fits under MaxSeq.                                       *)

PendingType ==
  \A r \in Readers :
    /\ xchg[r] # NoXchg => xchg[r].new.seq = xchg[r].old.seq
    /\ pc[r] = "cond" => xchg[r] # NoXchg

WriterType ==
  /\ wpc = "incr" => rw.seq < MaxSeq
  /\ wpc = "close" => /\ wxchg \in Xchg
                      /\ wxchg.old.seq = rw.seq /\ wxchg.new = Close(wxchg.old)
                      /\ rw.seq + 2 <= MaxSeq
  /\ wpc \in {"drain", "seal", "force"} =>
       /\ wxchg \in Xchg
       /\ wxchg.new.seq = rw.seq /\ rw.seq + 1 <= MaxSeq

TypeInv == TypeOK /\ PendingType /\ WriterType

LEMMA JobType ==
  /\ \A n \in 0..MaxKeys, d \in BOOLEAN : KeyJob(n, d) \in Job
  /\ \A c \in Chains \cup {NoDeletion} : ChainJob(c) \in Job
  /\ NoJob \in Job
BY ReaderLockAssumption DEF KeyJob, ChainJob, NoJob, Job, Answers

\* What a reader's caller does next keeps the types of what it changes.
LEMMA UnlockedType ==
  ASSUME NEW r \in Readers, NEW ok \in BOOLEAN, NEW kd \in BOOLEAN,
         TypeOK, Unlocked(r, ok, kd)
  PROVE  /\ pc' \in [Readers -> Reading \cup {"idle", "enter", "bail"}]
         /\ keep' \in [Readers -> BOOLEAN]
         /\ keeped' \in [Readers -> BOOLEAN]
         /\ job' \in [Readers -> Job]
         /\ pc'[r] # "cond"
         /\ \A q \in Readers \ {r} : pc'[q] = pc[q]
<1> DEFINE Kept == /\ pc' \in [Readers -> Reading \cup {"idle", "enter", "bail"}]
                   /\ keep' \in [Readers -> BOOLEAN]
                   /\ keeped' \in [Readers -> BOOLEAN]
                   /\ job' \in [Readers -> Job]
                   /\ pc'[r] # "cond"
                   /\ \A q \in Readers \ {r} : pc'[q] = pc[q]
<1>1. NoJob \in Job /\ MaxKeys \in Nat
  BY ReaderLockAssumption, JobType
<1>2. Idle(r) => Kept
  BY <1>1 DEF Idle, Reading, TypeOK
<1>3. Bail(r, kd) => Kept
  BY <1>2 DEF Bail, Reading, TypeOK
<1>4. KeyAgain(r, kd) => Kept
  BY DEF KeyAgain, Reading, TypeOK
<1>5. DumpAgain(r) => Kept
  BY DEF DumpAgain, Reading, TypeOK
<1>6. NextKey(r, kd) => Kept
  <2>1. ASSUME NEW d \in BOOLEAN, job[r].left > 1
        PROVE  KeyJob(job[r].left - 1, d) \in Job
    <3>1. job[r].left \in 0..MaxKeys
      BY DEF TypeOK, Job
    <3> QED
      BY <1>1, <2>1, <3>1, JobType
  <2>2. ASSUME job[r].left > 1, NEW d \in BOOLEAN,
               job' = [job EXCEPT ![r] = KeyJob(job[r].left - 1, d)],
               keep' = [keep EXCEPT ![r] = job[r].left > 2],
               keeped' = [keeped EXCEPT ![r] = kd],
               pc' = [pc EXCEPT ![r] = "enter"]
        PROVE  Kept
    BY <2>1, <2>2 DEF Reading, TypeOK
  <2> QED
    BY <1>2, <1>3, <2>2 DEF NextKey
<1> QED
  BY <1>2, <1>3, <1>4, <1>5, <1>6 DEF Unlocked, Reading, TypeOK

LEMMA InitType == Init => TypeInv
<1> SUFFICES ASSUME Init PROVE TypeInv
  OBVIOUS
<1>1. NoJob \in Job /\ MaxSeq \in Nat /\ Full \in Nat /\ MaxCalls \in Nat
  BY ReaderLockAssumption, JobType
<1>2. rw \in Word
  BY <1>1 DEF Init, Word
<1>3. TypeOK
  BY <1>1, <1>2 DEF Init, TypeOK
<1> QED
  BY <1>3 DEF Init, TypeInv, PendingType, WriterType

LEMMA BeginGetType ==
  ASSUME TypeInv, NEW g \in Getters, BeginGet(g)
  PROVE  TypeInv'
<1>1. MaxKeys \in Nat /\ MaxCalls \in Nat /\ g \in Readers
  BY ReaderLockAssumption DEF Readers
<1>2. PICK n \in 1..MaxKeys, d \in BOOLEAN :
        job' = [job EXCEPT ![g] = KeyJob(n, d)] /\ keep' = [keep EXCEPT ![g] = n > 1]
  BY DEF BeginGet
<1>3. KeyJob(n, d) \in Job
  BY <1>1, JobType
<1> QED
  BY <1>1, <1>2, <1>3
     DEF BeginGet, TypeInv, TypeOK, PendingType, WriterType, writer, Reading

LEMMA BeginDumpType ==
  ASSUME TypeInv, NEW d \in Dumpers, BeginDump(d)
  PROVE  TypeInv'
<1>1. MaxCalls \in Nat /\ d \in Readers
  BY ReaderLockAssumption DEF Readers
<1>2. PICK c \in Chains : job' = [job EXCEPT ![d] = ChainJob(c)]
  BY DEF BeginDump
<1>3. ChainJob(c) \in Job
  BY JobType
<1> QED
  BY <1>1, <1>2, <1>3
     DEF BeginDump, TypeInv, TypeOK, PendingType, WriterType, writer, Reading

LEMMA ReaderType ==
  ASSUME TypeInv, NEW r \in Readers, Progress(r)
  PROVE  TypeInv'
<1> USE DEF TypeInv
<1>1. MaxSeq \in Nat /\ Full \in Nat /\ MaxCalls \in Nat /\ MaxKeys \in Nat
  BY ReaderLockAssumption
<1>2. rw \in Word /\ rw.seq \in 0..MaxSeq /\ readerSeq[r] \in Nat
  BY <1>1 DEF TypeOK, Word
<1>3. /\ Attempt(rw, Enter(rw)) \in Xchg
      /\ Attempt(rw, Switch(rw, readerSeq[r])) \in Xchg
      /\ Attempt(rw, Leave(rw, readerSeq[r])) \in Xchg
      /\ Enter(rw).seq = rw.seq
      /\ Switch(rw, readerSeq[r]).seq = rw.seq
      /\ Leave(rw, readerSeq[r]).seq = rw.seq
  BY <1>2, EnterType, LeaveType, SwitchType, AttemptType
<1>4. ASSUME rw = xchg[r].old, xchg[r] # NoXchg
      PROVE  xchg[r].new \in Word /\ xchg[r].new.seq = rw.seq
  BY <1>4 DEF TypeOK, PendingType, Xchg
<1>8. ASSUME EnterKeeped(r) \/ SearchAgain(r) \/ SearchOutside(r) \/ DumpEnd(r)
      PROVE  TypeInv'
  BY ZenonT(30), <1>8 DEF EnterKeeped, SearchAgain, SearchOutside, DumpEnd, Body, TypeOK, PendingType,
              WriterType, writer, local, Reading
<1>9. ASSUME SearchDone(r) PROVE TypeInv'
  <2>1. \A a \in Answers : [job EXCEPT ![r].ans = a] \in [Readers -> Job]
    BY DEF TypeOK, Job
  <2> QED
    BY <1>9, <2>1 DEF SearchDone, Answer, TypeOK, PendingType, WriterType, writer, Reading
<1> DEFINE News == {Enter(rw), Switch(rw, readerSeq[r]), Leave(rw, readerSeq[r])}
           Pend == /\ xchg' \in [Readers -> Xchg \cup {NoXchg}]
                   /\ \A q \in Readers : xchg'[q] # NoXchg => xchg'[q].new.seq = xchg'[q].old.seq
                   /\ \A q \in Readers : xchg[q] # NoXchg => xchg'[q] # NoXchg
                   /\ xchg'[r] # NoXchg
<1>5. \A n \in News : /\ Attempt(rw, n) \in Xchg
                      /\ Attempt(rw, n).new.seq = Attempt(rw, n).old.seq
                      /\ Attempt(rw, n) # NoXchg
  BY <1>2, <1>3, EnterType, LeaveType, SwitchType, AttemptType DEF Attempt
<1>6. ASSUME NEW n \in News, xchg' = [xchg EXCEPT ![r] = Attempt(rw, n)] PROVE Pend
  BY <1>5, <1>6 DEF TypeOK, PendingType
<1>10. ASSUME LockLoad(r) \/ LockRetry(r) \/ UnlockRetry(r) \/ CondRetry(r)
       PROVE  TypeInv'
  <2>1. Pend
    BY <1>10, <1>6 DEF LockLoad, LockRetry, UnlockRetry, CondRetry
  <2> QED
    BY <1>10, <2>1 DEF LockLoad, LockRetry, UnlockRetry, CondRetry,
         TypeOK, PendingType, WriterType, writer, local
<1>11. ASSUME UnlockLoad(r) \/ CondLoad(r) PROVE TypeInv'
  <2>1. Pend \/ UNCHANGED <<xchg, pc>>
    BY <1>11, <1>6 DEF UnlockLoad, CondLoad
  <2> QED
    BY ZenonT(30), <1>11, <2>1 DEF UnlockLoad, CondLoad, Loads, Unlocking, Reading,
         TypeOK, PendingType, WriterType, writer, local
<1>12. ASSUME LockTaken(r) \/ CondDone(r) PROVE TypeInv'
  <2>1. xchg[r] # NoXchg /\ rw = xchg[r].old
    BY <1>12 DEF LockTaken, CondDone, PendingType
  <2>2. rw' \in Word /\ rw'.seq = rw.seq
    BY <1>12, <2>1, <1>4 DEF LockTaken, CondDone
  <2> QED
    BY <1>2, <1>12, <2>2 DEF LockTaken, CondDone, Body, Reading,
         TypeOK, PendingType, WriterType, writer, local
<1>13. ASSUME UnlockStay(r) \/ UnlockLost(r) PROVE TypeInv'
  <2>1. \E ok \in BOOLEAN, kd \in BOOLEAN : Unlocked(r, ok, kd)
    BY <1>13 DEF UnlockStay, UnlockLost
  <2>2. /\ pc' \in [Readers -> Reading \cup {"idle", "enter", "bail"}]
        /\ keep' \in [Readers -> BOOLEAN]
        /\ keeped' \in [Readers -> BOOLEAN]
        /\ job' \in [Readers -> Job]
        /\ pc'[r] # "cond"
        /\ \A q \in Readers \ {r} : pc'[q] = pc[q]
    BY <2>1, UnlockedType
  <2> QED
    BY ZenonT(30), <1>13, <2>2 DEF UnlockStay, UnlockLost, TypeOK, PendingType, WriterType, writer
<1>14. ASSUME UnlockDone(r) PROVE TypeInv'
  <2>1. keeped[r] \in BOOLEAN /\ Unlocked(r, TRUE, keeped[r])
    BY <1>14 DEF UnlockDone, TypeOK
  <2>2. /\ pc' \in [Readers -> Reading \cup {"idle", "enter", "bail"}]
        /\ keep' \in [Readers -> BOOLEAN]
        /\ keeped' \in [Readers -> BOOLEAN]
        /\ job' \in [Readers -> Job]
        /\ pc'[r] # "cond"
        /\ \A q \in Readers \ {r} : pc'[q] = pc[q]
    BY <2>1, UnlockedType
  <2>3. rw' \in Word /\ rw'.seq = rw.seq
    BY <1>14, <1>4 DEF UnlockDone, Stores
  <2> QED
    BY <1>14, <1>2, <2>2, <2>3 DEF UnlockDone, TypeOK, PendingType, WriterType, writer
<1>15. ASSUME CondLost(r) PROVE TypeInv'
  BY <1>15 DEF CondLost, DumpAgain, Reading, TypeOK, PendingType, WriterType, writer
<1> QED
  BY <1>8, <1>9, <1>10, <1>11, <1>12, <1>13, <1>14, <1>15
     DEF Progress, LockStep, SearchStep, UnlockStep, CondStep

LEMMA WriterStepType ==
  ASSUME TypeInv,
         WriterProgress \/ FullLoad \/ \E c \in Chains \cup {NoDeletion} : MarkDelete(c)
  PROVE  TypeInv'
<1> USE DEF TypeInv
<1>1. MaxSeq \in Nat /\ Full \in Nat /\ rw \in Word /\ rw.seq \in 0..MaxSeq
  BY ReaderLockAssumption DEF TypeOK, Word
<1>2. OldPar \in 0..1
  BY <1>1, ParType DEF OldPar
<1> USE DEF TypeOK, PendingType, WriterType, readers, local
<1>3. ASSUME NEW c \in Chains \cup {NoDeletion}, MarkDelete(c) PROVE TypeInv'
  BY <1>3, <1>1 DEF MarkDelete
<1>4. ASSUME NextSequence PROVE TypeInv'
  <2>1. rw' \in Word
    BY <1>1, <1>4 DEF NextSequence, Word
  <2> QED
    BY <2>1, <1>4 DEF NextSequence
<1>5. ASSUME WaitZero \/ WaitTimeout \/ Reclaim PROVE TypeInv'
  BY <1>1, <1>5 DEF WaitZero, WaitTimeout, Reclaim
<1>6. ASSUME ClearCounter PROVE TypeInv'
  <2>1. rw' \in Word
    BY <1>1, <1>2, <1>6, PutType DEF ClearCounter
  <2>2. killed' \subseteq Readers
    BY <1>6 DEF ClearCounter, Victims
  <2> QED
    BY <2>1, <2>2, <1>6 DEF ClearCounter
<1>7. ASSUME FullLoad PROVE TypeInv'
  <2>1. Attempt(rw, Close(rw)) \in Xchg
    BY <1>1, <1>7, CloseType, AttemptType DEF FullLoad
  <2> QED
    BY <1>7, <2>1, <1>1 DEF FullLoad, Attempt
<1>8. ASSUME FullClosed PROVE TypeInv'
  <2>1. rw' = Close(rw) /\ rw.seq + 2 <= MaxSeq
    BY <1>8 DEF FullClosed
  <2>2. rw' \in Word /\ rw'.seq = rw.seq + 1
    BY <2>1, <1>1, CloseType
  <2> QED
    BY <1>1, <1>8, <2>1, <2>2 DEF FullClosed
<1>9. ASSUME FullRetry PROVE TypeInv'
  <2>1. Attempt(rw, Close(rw)) \in Xchg
    BY <1>1, <1>9, CloseType, AttemptType DEF FullRetry
  <2> QED
    BY <1>9, <2>1, <1>1 DEF FullRetry, Attempt
<1>10. ASSUME DrainZero \/ DrainTimeout PROVE TypeInv'
  BY <1>10 DEF DrainZero, DrainTimeout
<1>11. ASSUME FullSeal PROVE TypeInv'
  <2>1. rw' \in Word
    BY <1>1, <1>11, ShutType DEF FullSeal
  <2> QED
    BY <1>11, <2>1 DEF FullSeal
<1>12. ASSUME FullForce PROVE TypeInv'
  <2>1. wxchg.new.seq + 1 \in 0..MaxSeq
    BY <1>1, <1>12 DEF FullForce
  <2>2. rw' \in Word
    BY <2>1, <1>12, ShutType DEF FullForce
  <2>3. killed' \subseteq Readers
    BY <1>12 DEF FullForce, Victims
  <2> QED
    BY <1>12, <2>2, <2>3 DEF FullForce
<1>13. ASSUME FullUnlock PROVE TypeInv'
  <2>1. rw' \in Word
    BY <1>1, <1>13 DEF FullUnlock, Word
  <2> QED
    BY <1>13, <2>1 DEF FullUnlock
<1> QED
  BY <1>3, <1>4, <1>5, <1>6, <1>7, <1>8, <1>9, <1>10, <1>11, <1>12, <1>13
     DEF WriterProgress, WaitStep, FullStep

LEMMA NextType == TypeInv /\ [Next]_vars => TypeInv'
<1> SUFFICES ASSUME TypeInv, [Next]_vars PROVE TypeInv'
  OBVIOUS
<1>1. ASSUME UNCHANGED vars PROVE TypeInv'
  BY <1>1 DEF vars, local, writer, TypeInv, TypeOK, PendingType, WriterType
<1>2. CASE Next
  <2>1. ASSUME NEW r \in Readers, Progress(r) PROVE TypeInv'
    BY <2>1, ReaderType
  <2>2. ASSUME NEW g \in Getters, BeginGet(g) PROVE TypeInv'
    BY <2>2, BeginGetType
  <2>3. ASSUME NEW d \in Dumpers, BeginDump(d) PROVE TypeInv'
    BY <2>3, BeginDumpType
  <2>4. ASSUME WriterProgress \/ FullLoad
               \/ \E c \in Chains \cup {NoDeletion} : MarkDelete(c)
        PROVE  TypeInv'
    BY <2>4, WriterStepType
  <2>5. CASE Finished
    BY <2>5, <1>1 DEF Finished
  <2> QED
    BY <1>2, <2>1, <2>2, <2>3, <2>4, <2>5 DEF Next
<1> QED
  BY <1>1, <1>2

\* Every reachable state has the types of the variables, whatever the
\* number of readers, of calls and of writer operations.
THEOREM TypeCorrect == Spec => []TypeOK
<1>1. Spec => []TypeInv
  BY InitType, NextType, PTL DEF Spec
<1>2. TypeInv => TypeOK
  BY DEF TypeInv
<1> QED
  BY <1>1, <1>2, PTL

-----------------------------------------------------------------------------
(* Dumpers.  The exchange of lck_readerUnlockCond is tried only while the   *)
(* sequence is the next one after the dumper's, and a writer that waits by  *)
(* then deletes in another chain: a deletion begun later raises the         *)
(* sequence before it waits, and the exchange fails.                        *)

OneBehind(d) == readerSeq[d] + 1 = rw.seq
CondOf(d) ==
  /\ xchg[d].old.seq = readerSeq[d] + 1
  /\ readerSeq[d] + 1 <= rw.seq
  /\ OneBehind(d) /\ wpc \in {"wait", "clear"} => delInChain # job[d].chain
CondInv == \A d \in Dumpers : pc[d] = "cond" => CondOf(d)

\* A step of one reader leaves alone the other readers and the sequence.
LEMMA OthersStay ==
  ASSUME TypeInv, NEW r \in Readers, Progress(r), NEW q \in Readers \ {r}
  PROVE  /\ pc'[q] = pc[q] /\ readerSeq'[q] = readerSeq[q]
         /\ xchg'[q] = xchg[q] /\ job'[q] = job[q] /\ keeped'[q] = keeped[q]
         /\ UNCHANGED <<delInChain, wpc>> /\ rw'.seq = rw.seq
<1> USE DEF TypeInv, writer, local
<1>1. rw \in Word /\ readerSeq[r] \in Nat /\ keeped[r] \in BOOLEAN
  BY ReaderLockAssumption DEF TypeOK
<1>2. ASSUME rw = xchg[r].old, xchg[r] # NoXchg
      PROVE  xchg[r].new.seq = rw.seq
  BY <1>2 DEF PendingType
<1>3. ASSUME NEW ok \in BOOLEAN, NEW kd \in BOOLEAN, Unlocked(r, ok, kd)
      PROVE  job'[q] = job[q] /\ pc'[q] = pc[q] /\ keeped'[q] = keeped[q]
  BY <1>3 DEF Unlocked, KeyAgain, NextKey, Bail, Idle, DumpAgain, TypeOK
<1>4. CASE \/ EnterKeeped(r) \/ LockLoad(r) \/ LockRetry(r) \/ SearchAgain(r)
           \/ SearchOutside(r) \/ DumpEnd(r)
  BY <1>4 DEF EnterKeeped, LockLoad, LockRetry, SearchAgain, SearchOutside,
              DumpEnd, TypeOK
<1>5. CASE SearchDone(r)
  BY <1>5 DEF SearchDone, Answer, TypeOK
<1>6. CASE LockTaken(r)
  BY <1>2, <1>6 DEF LockTaken, TypeOK
<1>7. CASE UnlockStay(r) \/ UnlockLost(r)
  BY <1>3, <1>7 DEF UnlockStay, UnlockLost, TypeOK
<1>8. CASE UnlockLoad(r) \/ UnlockRetry(r)
  BY <1>8 DEF UnlockLoad, UnlockRetry, TypeOK
<1>9. CASE UnlockDone(r)
  BY <1>1, <1>2, <1>3, <1>9 DEF UnlockDone, Stores, TypeOK
<1>10. CASE CondLoad(r) \/ CondRetry(r) \/ CondLost(r)
  BY <1>10 DEF CondLoad, CondRetry, CondLost, DumpAgain, TypeOK
<1>11. CASE CondDone(r)
  BY <1>2, <1>11 DEF CondDone, PendingType, TypeOK
<1> QED
  BY <1>4, <1>5, <1>6, <1>7, <1>8, <1>9, <1>10, <1>11
     DEF Progress, LockStep, SearchStep, UnlockStep, CondStep

\* Only a load or a reload leaves a dumper before the exchange.
LEMMA CondBegins ==
  ASSUME TypeInv, NEW r \in Readers, Progress(r), pc'[r] = "cond"
  PROVE  CondLoad(r) \/ CondRetry(r)
<1> USE DEF TypeInv
<1>1. ASSUME NEW ok \in BOOLEAN, NEW kd \in BOOLEAN, Unlocked(r, ok, kd)
      PROVE  FALSE
  BY <1>1, UnlockedType
<1>2. ~(UnlockStay(r) \/ UnlockLost(r) \/ UnlockDone(r))
  BY <1>1 DEF UnlockStay, UnlockLost, UnlockDone, TypeOK
<1>3. ~(EnterKeeped(r) \/ LockLoad(r) \/ LockTaken(r) \/ LockRetry(r))
  BY DEF EnterKeeped, LockLoad, LockTaken, LockRetry, Body, TypeOK
<1>4. ~(SearchDone(r) \/ SearchAgain(r) \/ SearchOutside(r) \/ DumpEnd(r))
  BY DEF SearchDone, SearchAgain, SearchOutside, DumpEnd, TypeOK
<1>5. ~(UnlockLoad(r) \/ UnlockRetry(r))
  BY DEF UnlockLoad, UnlockRetry, Loads, Stores, Unlocking, TypeOK
<1>6. ~(CondDone(r) \/ CondLost(r))
  BY DEF CondDone, CondLost, DumpAgain, TypeOK
<1> QED
  BY <1>2, <1>3, <1>4, <1>5, <1>6
     DEF Progress, LockStep, SearchStep, UnlockStep, CondStep

LEMMA CondLoadKeeps ==
  ASSUME TypeInv, CondInv, NEW d \in Dumpers, CondLoad(d), pc'[d] = "cond"
  PROVE  CondOf(d)'
<1> USE DEF TypeInv, writer
<1>1. d \in Readers /\ rw.seq \in Nat /\ readerSeq[d] \in Nat /\ pc[d] = "dump"
  BY ReaderLockAssumption DEF TypeOK, Word, Readers, CondLoad
<1>2. ~(readerSeq[d] = rw.seq \/ job[d].chain = delInChain \/ Closed(rw))
  BY <1>1 DEF CondLoad, TypeOK
<1>3. /\ xchg'[d] = Attempt(rw, Switch(rw, readerSeq[d]))
      /\ UNCHANGED <<rw, readerSeq, job, delInChain, wpc>>
  BY <1>1, <1>2 DEF CondLoad, TypeOK
<1>4. readerSeq[d] + 1 = rw.seq
  BY <1>2 DEF CondLoad, Valid
<1> QED
  BY <1>1, <1>2, <1>3, <1>4 DEF CondOf, OneBehind, Attempt

LEMMA CondRetryKeeps ==
  ASSUME TypeInv, CondInv, NEW d \in Dumpers, CondRetry(d)
  PROVE  CondOf(d)'
<1> USE DEF TypeInv, writer, local
<1>1. d \in Readers /\ rw.seq \in Nat /\ readerSeq[d] \in Nat /\ CondOf(d)
  BY ReaderLockAssumption DEF TypeOK, Word, Readers, CondRetry, CondInv
<1>2. /\ xchg'[d] = Attempt(rw, Switch(rw, readerSeq[d]))
      /\ UNCHANGED <<rw, readerSeq, job, delInChain, wpc>>
  BY <1>1 DEF CondRetry, TypeOK
<1>3. readerSeq[d] + 1 = rw.seq
  BY <1>1 DEF CondRetry, Valid, CondOf
<1> QED
  BY <1>1, <1>2, <1>3 DEF CondOf, OneBehind, Attempt

LEMMA CondReader ==
  ASSUME TypeInv, CondInv, NEW r \in Readers, Progress(r)
  PROVE  CondInv'
<1> SUFFICES ASSUME NEW d \in Dumpers, pc'[d] = "cond"
             PROVE  CondOf(d)'
  BY DEF CondInv
<1>1. d \in Readers
  BY DEF Readers
<1>2. CASE d # r
  BY <1>1, <1>2, OthersStay DEF CondInv, CondOf, OneBehind
<1>3. CASE d = r
  BY <1>3, CondBegins, CondLoadKeeps, CondRetryKeeps
<1> QED
  BY <1>2, <1>3

\* The writer only raises the sequence, and waits after it has raised it.
LEMMA CondWriter ==
  ASSUME TypeInv, CondInv,
         WriterProgress \/ FullLoad \/ \E c \in Chains \cup {NoDeletion} : MarkDelete(c)
  PROVE  CondInv'
<1> USE DEF TypeInv
<1>1. MaxSeq \in Nat /\ Full \in Nat /\ rw \in Word /\ rw.seq \in Nat
  BY ReaderLockAssumption DEF TypeOK, Word
<1>2. UNCHANGED <<pc, readerSeq, xchg, job>>
  BY DEF WriterProgress, WaitStep, FullStep, NextSequence, WaitZero, WaitTimeout,
         ClearCounter, Reclaim, FullClosed, FullRetry, DrainZero, DrainTimeout,
         FullSeal, FullForce, FullUnlock, FullLoad, MarkDelete, readers, local
<1> DEFINE Raised == rw'.seq = rw.seq + 1
           Stays  == /\ rw'.seq = rw.seq
                     /\ wpc' \in {"wait", "clear"} =>
                          wpc = "wait" /\ delInChain' = delInChain
<1>3. Raised \/ Stays
  <2>1. CASE \E c \in Chains \cup {NoDeletion} : MarkDelete(c)
    BY <2>1 DEF MarkDelete
  <2>2. CASE NextSequence
    BY <2>2 DEF NextSequence
  <2>3. CASE WaitZero \/ WaitTimeout \/ Reclaim \/ FullLoad \/ FullRetry
             \/ DrainZero \/ DrainTimeout
    BY <2>3 DEF WaitZero, WaitTimeout, Reclaim, FullLoad, FullRetry, DrainZero, DrainTimeout
  <2>4. CASE ClearCounter \/ FullSeal \/ FullUnlock
    BY <2>4 DEF ClearCounter, FullSeal, FullUnlock, Put, Shut
  <2>5. CASE FullClosed
    BY <2>5, <1>1, CloseType DEF FullClosed, WriterType
  <2>6. CASE FullForce
    BY <2>6 DEF FullForce, WriterType, Shut
  <2> QED
    BY <2>1, <2>2, <2>3, <2>4, <2>5, <2>6 DEF WriterProgress, WaitStep, FullStep
<1> SUFFICES ASSUME NEW d \in Dumpers, pc'[d] = "cond"
             PROVE  CondOf(d)'
  BY DEF CondInv
<1>4. d \in Readers /\ CondOf(d) /\ readerSeq[d] \in Nat
  BY <1>2, ReaderLockAssumption DEF CondInv, Readers, TypeOK
<1>5. CASE Raised
  BY <1>1, <1>2, <1>4, <1>5 DEF CondOf, OneBehind
<1>6. CASE Stays
  BY <1>1, <1>2, <1>4, <1>6 DEF CondOf, OneBehind
<1> QED
  BY <1>3, <1>5, <1>6

LEMMA CondNext == TypeInv /\ CondInv /\ [Next]_vars => CondInv'
<1> SUFFICES ASSUME TypeInv, CondInv, [Next]_vars PROVE CondInv'
  OBVIOUS
<1>1. ASSUME UNCHANGED vars PROVE CondInv'
  BY <1>1 DEF vars, local, writer, CondInv, CondOf, OneBehind
<1>2. ASSUME NEW r \in Readers, BeginGet(r) \/ BeginDump(r) PROVE CondInv'
  BY <1>2 DEF BeginGet, BeginDump, CondInv, CondOf, OneBehind, Readers, writer,
              TypeInv, TypeOK
<1>3. CASE Next
  BY <1>1, <1>2, <1>3, CondReader, CondWriter DEF Next, Finished, Readers
<1> QED
  BY <1>1, <1>3

\* lck_readerUnlockCond: a dumper lets a deletion pass only when it is in
\* another chain, whatever the other readers and the writer do meanwhile.
\* Nothing is assumed of kept locks or of reverts.
THEOREM DumpKeepsChainHolds == Spec => DumpKeepsChain
<1>1. Init => CondInv
  BY DEF Init, CondInv, Readers
<1>2. TypeInv /\ CondInv /\ [Next]_vars =>
        [\A d \in Dumpers :
           pc[d] = "cond" /\ pc'[d] = "dump"
           => ~(wpc \in {"wait", "clear"} /\ delInChain = job[d].chain)]_vars
  <2> SUFFICES ASSUME TypeInv, CondInv, Next,
                      NEW d \in Dumpers, pc[d] = "cond", pc'[d] = "dump"
               PROVE  ~(wpc \in {"wait", "clear"} /\ delInChain = job[d].chain)
    OBVIOUS
  <2>1. d \in Readers /\ CondOf(d) /\ pc \in [Readers -> Reading \cup {"idle", "enter", "bail"}]
    BY DEF Readers, CondInv, TypeInv, TypeOK
  <2>2. ~(\E r \in Readers : BeginGet(r) \/ BeginDump(r)) /\ ~Finished
    BY <2>1 DEF BeginGet, BeginDump, Finished, vars
  <2>3. ~(WriterProgress \/ FullLoad \/ \E c \in Chains \cup {NoDeletion} : MarkDelete(c))
    BY DEF WriterProgress, WaitStep, FullStep, NextSequence, WaitZero, WaitTimeout,
           ClearCounter, Reclaim, FullClosed, FullRetry, DrainZero, DrainTimeout,
           FullSeal, FullForce, FullUnlock, FullLoad, MarkDelete, readers
  <2>4. PICK r \in Readers : Progress(r)
    BY <2>2, <2>3 DEF Next, Readers
  <2>5. r = d
    BY <2>1, <2>4, OthersStay
  <2>6. rw = xchg[d].old
    <3>1. ~LockStep(d) /\ ~SearchStep(d) /\ ~DumpEnd(d)
      BY DEF LockStep, SearchStep, EnterKeeped, LockLoad, LockTaken, LockRetry,
             SearchDone, SearchAgain, SearchOutside, DumpEnd
    <3>2. ~UnlockStep(d)
      BY DEF UnlockStep, UnlockStay, UnlockLoad, UnlockDone, UnlockRetry, UnlockLost,
             Loads, Stores, Unlocking
    <3>3. ~CondLoad(d) /\ ~CondRetry(d) /\ ~CondLost(d)
      BY <2>1 DEF CondLoad, CondRetry, CondLost, DumpAgain
    <3> QED
      BY <2>4, <2>5, <3>1, <3>2, <3>3 DEF Progress, CondStep, CondDone
  <2> QED
    BY <2>1, <2>6 DEF CondOf, OneBehind
<1> QED
  BY <1>1, <1>2, CondNext, InitType, NextType, PTL DEF Spec, DumpKeepsChain

-----------------------------------------------------------------------------
(* The grace period, whatever became of the counters: when the writer goes  *)
(* on, the counter of the sequence before is zero, and nothing raises it    *)
(* until the sequence moves on.  It needs no count to be right, only that   *)
(* the 16 bits of a counter do not run full while the writer waits for its  *)
(* turn.                                                                    *)

\* lck_waitForReaders does not take a full counter for a closed one.
NotFull == wpc = "incr" => rw.cnt[Par(rw.seq)] # Full

PassedInv ==
  /\ reclaimed <= rw.seq
  /\ wpc \in {"wait", "clear", "free", "drain", "seal", "force", "revert"} =>
       reclaimed < rw.seq
  /\ wpc = "free" \/ reclaimed = rw.seq => rw.cnt[OldPar] = 0

\* A pending exchange takes a count only from a counter that it saw above zero.
TakesInv ==
  \A r \in Readers :
    /\ readerSeq[r] <= rw.seq /\ readerSeq[r] <= birth[r]
    /\ xchg[r] # NoXchg => pc[r] \in Unlocking \cup {"cond", "enter"}
    /\ pc[r] = "enter" /\ xchg[r] # NoXchg =>
         ~keeped[r] /\ xchg[r].new = Enter(xchg[r].old)
    /\ pc[r] \in Unlocking \cup {"cond"} /\ xchg[r] # NoXchg =>
         /\ Valid(xchg[r].old, readerSeq[r])
         /\ xchg[r].new \in {Switch(xchg[r].old, readerSeq[r]),
                             Leave(xchg[r].old, readerSeq[r])}

GraceInv == PassedInv /\ TakesInv

\* A change of the word by a reader leaves a zero of the old counter alone.
LEMMA EnterKeepsZero ==
  ASSUME NEW w \in Word, w.cnt[1 - Par(w.seq)] = 0
  PROVE  Enter(w).cnt[1 - Par(w.seq)] = 0
<1>1. PICK h \in 0..1 : h = Par(w.seq) /\ 1 - h # h /\ 1 - h \in 0..1
  BY ParType, ReaderLockAssumption DEF Word
<1> QED
  BY <1>1 DEF Enter, Put, Word

LEMMA LeaveKeepsZero ==
  ASSUME NEW w \in Word, NEW v \in Word, NEW s \in Nat, Valid(w, s), v.seq = w.seq,
         v.cnt[1 - Par(w.seq)] = 0, w.cnt[1 - Par(w.seq)] = 0
  PROVE  Leave(v, s).cnt[1 - Par(w.seq)] = 0
<1>1. PICK h \in 0..1, g \in 0..1 : h = Par(w.seq) /\ g = Par(s) /\ 1 - h \in 0..1
  BY ParType, ReaderLockAssumption DEF Word
<1>2. g # 1 - h
  BY <1>1 DEF Valid
<1> QED
  BY <1>1, <1>2 DEF Leave, Put, Word

LEMMA TakeKeepsZero ==
  ASSUME NEW w \in Word, NEW s \in Nat, Valid(w, s), w.cnt[1 - Par(w.seq)] = 0
  PROVE  /\ Leave(w, s).cnt[1 - Par(w.seq)] = 0
         /\ Switch(w, s).cnt[1 - Par(w.seq)] = 0
<1>1. Leave(w, s).cnt[1 - Par(w.seq)] = 0
  BY LeaveKeepsZero
<1>2. Enter(w) \in Word /\ Enter(w).seq = w.seq /\ Enter(w).cnt[1 - Par(w.seq)] = 0
  BY EnterType, EnterKeepsZero
<1>3. Leave(Enter(w), s).cnt[1 - Par(w.seq)] = 0
  BY <1>2, LeaveKeepsZero
<1> QED
  BY <1>1, <1>3 DEF Switch

\* A pending exchange that succeeds.
LEMMA StoreKeepsZero ==
  ASSUME TypeInv, GraceInv, NEW r \in Readers, xchg[r] # NoXchg, rw = xchg[r].old,
         pc[r] \in Unlocking \cup {"cond", "enter"}, rw.cnt[OldPar] = 0
  PROVE  xchg[r].new.cnt[OldPar] = 0
<1>1. rw \in Word /\ readerSeq[r] \in Nat
  BY ReaderLockAssumption DEF TypeInv, TypeOK
<1>2. CASE pc[r] = "enter"
  BY <1>1, <1>2, EnterKeepsZero DEF GraceInv, TakesInv, OldPar
<1>3. CASE pc[r] # "enter"
  <2>1. /\ Valid(rw, readerSeq[r])
        /\ xchg[r].new \in {Switch(rw, readerSeq[r]), Leave(rw, readerSeq[r])}
    BY <1>3 DEF GraceInv, TakesInv
  <2> QED
    BY <1>1, <2>1, TakeKeepsZero DEF OldPar
<1> QED
  BY <1>2, <1>3

LEMMA GraceReader ==
  ASSUME TypeInv, TypeInv', GraceInv, NEW r \in Readers, Progress(r)
  PROVE  GraceInv'
<1> USE DEF TypeInv, writer, local, Unlocking
<1>1. /\ rw \in Word /\ rw.seq \in Nat /\ readerSeq[r] \in Nat /\ r \in Readers
      /\ pc \in [Readers -> Reading \cup {"idle", "enter", "bail"}]
  BY ReaderLockAssumption DEF TypeOK, Word
<1>2. /\ \A q \in Readers \ {r} : pc'[q] = pc[q] /\ readerSeq'[q] = readerSeq[q]
                                  /\ xchg'[q] = xchg[q] /\ keeped'[q] = keeped[q]
  BY OthersStay
<1>0. /\ xchg[r] # NoXchg => pc[r] \in Unlocking \cup {"cond", "enter"}
      /\ pc[r] = "enter" /\ xchg[r] # NoXchg => ~keeped[r]
  BY DEF GraceInv, TakesInv
<1> DEFINE Local ==
      /\ rw' = rw /\ wpc' = wpc /\ reclaimed' = reclaimed /\ birth' = birth /\ readerSeq' = readerSeq
      /\ \/ xchg'[r] = NoXchg
         \/ pc'[r] = "enter" /\ ~keeped'[r] /\ xchg'[r] = Attempt(rw, Enter(rw))
         \/ /\ Valid(rw, readerSeq[r]) /\ pc'[r] \in Unlocking \cup {"cond"}
            /\ \/ xchg'[r] = Attempt(rw, Switch(rw, readerSeq[r]))
               \/ xchg'[r] = Attempt(rw, Leave(rw, readerSeq[r]))
    Store ==
      /\ xchg[r] # NoXchg /\ rw = xchg[r].old /\ rw' = xchg[r].new /\ wpc' = wpc
      /\ pc[r] \in Unlocking \cup {"cond", "enter"} /\ reclaimed' = reclaimed
      /\ xchg'[r] = NoXchg
      /\ birth' = [birth EXCEPT ![r] = rw.seq]
      /\ readerSeq'[r] \in {readerSeq[r], rw.seq}
<1>3. ASSUME Local PROVE GraceInv'
  <2>1. PassedInv'
    BY <1>2, <1>3 DEF GraceInv, PassedInv, OldPar
  <2>2. TakesInv'
    BY <1>1, <1>2, <1>3 DEF GraceInv, TakesInv, Attempt
  <2> QED
    BY <2>1, <2>2 DEF GraceInv
<1>4. ASSUME Store PROVE GraceInv'
  <2>0. rw'.seq = rw.seq
    BY <1>4 DEF PendingType
  <2>1. rw.cnt[OldPar] = 0 => rw'.cnt[OldPar'] = 0
    BY <1>4, <2>0, StoreKeepsZero DEF OldPar
  <2>2. PassedInv'
    BY <1>4, <2>0, <2>1 DEF GraceInv, PassedInv
  <2>3. TakesInv'
    BY <1>1, <1>2, <1>4, <2>0 DEF GraceInv, TakesInv, TypeOK
  <2> QED
    BY <2>2, <2>3 DEF GraceInv
<1> HIDE DEF Local, Store
<1>5. CASE LockTaken(r)
  BY <1>0, <1>1, <1>5, <1>4 DEF LockTaken, Store, TypeOK
<1>6. CASE UnlockDone(r)
  BY <1>0, <1>1, <1>6, <1>4 DEF UnlockDone, Stores, Store, TypeOK
<1>7. CASE CondDone(r)
  BY <1>0, <1>1, <1>7, <1>4 DEF CondDone, Store, PendingType, TypeOK
<1>8. CASE LockLoad(r) \/ LockRetry(r)
  BY <1>0, <1>1, <1>8, <1>3 DEF LockLoad, LockRetry, Local, TypeOK
<1>9. CASE UnlockLoad(r) \/ UnlockRetry(r)
  BY <1>0, <1>1, <1>9, <1>3 DEF UnlockLoad, UnlockRetry, Loads, Stores, Local, TypeOK
<1>10. CASE UnlockStay(r) \/ UnlockLost(r)
  BY <1>0, <1>1, <1>10, <1>3 DEF UnlockStay, UnlockLost, Loads, Local, TypeOK
<1>11. CASE CondRetry(r) \/ CondLost(r)
  BY <1>0, <1>1, <1>11, <1>3 DEF CondRetry, CondLost, Local, TypeOK
<1>12. CASE EnterKeeped(r) \/ SearchDone(r) \/ SearchAgain(r) \/ SearchOutside(r)
            \/ DumpEnd(r)
  BY <1>0, <1>12, <1>1, <1>3
     DEF EnterKeeped, SearchDone, SearchAgain, SearchOutside, DumpEnd, Local, TypeOK
<1>13. CASE CondLoad(r)
  BY <1>0, <1>1, <1>13, <1>3 DEF CondLoad, Local, TypeOK
<1> QED
  BY <1>5, <1>6, <1>7, <1>8, <1>9, <1>10, <1>11, <1>12, <1>13
     DEF Progress, LockStep, SearchStep, UnlockStep, CondStep

\* The writer goes on when the counter of the sequence before is zero, and
\* raises the sequence when it begins anew.
LEMMA GraceWriter ==
  ASSUME TypeInv, TypeInv', GraceInv, NotFull,
         WriterProgress \/ FullLoad \/ \E c \in Chains \cup {NoDeletion} : MarkDelete(c)
  PROVE  GraceInv'
<1> USE DEF TypeInv
<1>1. PICK s \in Nat, o \in 0..1, h \in 0..1 :
        /\ s = rw.seq /\ o = OldPar /\ h = Par(s) /\ o = 1 - h
        /\ Par(s + 1) = o
  BY ReaderLockAssumption, ParType, ParNext DEF TypeOK, Word, OldPar
<1>2. rw \in Word /\ MaxSeq \in Nat /\ reclaimed \in Nat
  BY ReaderLockAssumption DEF TypeOK
<1>3. UNCHANGED <<pc, readerSeq, xchg, birth, keeped>>
  BY DEF WriterProgress, WaitStep, FullStep, NextSequence, WaitZero, WaitTimeout,
         ClearCounter, Reclaim, FullClosed, FullRetry, DrainZero, DrainTimeout,
         FullSeal, FullForce, FullUnlock, FullLoad, MarkDelete, readers, local
<1> DEFINE Goal == PassedInv' /\ rw'.seq \in {s, s + 1}
<1>4. ASSUME (\E c \in Chains \cup {NoDeletion} : MarkDelete(c)) \/ WaitTimeout
             \/ FullLoad \/ FullRetry \/ DrainZero \/ DrainTimeout
      PROVE  Goal
  <2>1. /\ rw' = rw /\ reclaimed' = reclaimed /\ wpc' # "free"
        /\ wpc' \in {"wait", "clear", "free", "drain", "seal", "force", "revert"} =>
             wpc \in {"wait", "clear", "free", "drain", "seal", "force", "revert"}
    BY <1>4 DEF MarkDelete, WaitTimeout, FullLoad, FullRetry, DrainZero, DrainTimeout
  <2> QED
    BY <1>1, <2>1 DEF GraceInv, PassedInv, OldPar
<1>5. ASSUME NextSequence PROVE Goal
  <2>1. /\ rw'.seq = s + 1 /\ rw'.cnt = rw.cnt /\ reclaimed' = reclaimed /\ wpc = "incr"
        /\ wpc' \in {"free", "wait"} /\ (wpc' = "free" => rw.cnt[h] \in {0, Full})
    BY <1>1, <1>5 DEF NextSequence
  <2>2. rw.cnt[h] # Full /\ reclaimed <= s
    BY <1>1, <2>1 DEF NotFull, GraceInv, PassedInv
  <2>3. OldPar' = h
    BY <1>1, <2>1 DEF OldPar
  <2> QED
    BY <1>1, <1>2, <2>1, <2>2, <2>3 DEF PassedInv
<1>6. ASSUME WaitZero \/ Reclaim PROVE Goal
  <2>1. /\ rw' = rw
        /\ \/ wpc' = "free" /\ rw.cnt[OldPar] = 0 /\ wpc = "wait" /\ reclaimed' = reclaimed
           \/ wpc = "free" /\ wpc' = "idle" /\ reclaimed' = rw.seq
    BY <1>6 DEF WaitZero, Reclaim
  <2> QED
    BY <1>1, <2>1 DEF GraceInv, PassedInv, OldPar
<1>7. ASSUME ClearCounter PROVE Goal
  <2>1. rw'.seq = s /\ rw'.cnt[o] = 0 /\ reclaimed' = reclaimed /\ wpc = "clear"
    BY <1>1, <1>2, <1>7 DEF ClearCounter, Put, Word
  <2>2. OldPar' = o
    BY <1>1, <2>1 DEF OldPar
  <2> QED
    BY <1>1, <2>1, <2>2 DEF GraceInv, PassedInv
<1>8. ASSUME FullClosed \/ FullSeal \/ FullForce \/ FullUnlock PROVE Goal
  <2>1. /\ reclaimed' = reclaimed /\ rw'.seq \in {s, s + 1} /\ wpc' # "free"
        /\ wpc = "close" => rw'.seq = s + 1
        /\ wpc \in {"close", "seal", "force", "revert"}
    BY <1>1, <1>2, <1>8
       DEF FullClosed, FullSeal, FullForce, FullUnlock, WriterType, Close, Shut
  <2>2. reclaimed <= s /\ (wpc # "close" => reclaimed < s)
    BY <1>1, <2>1 DEF GraceInv, PassedInv
  <2> QED
    BY <1>1, <1>2, <2>1, <2>2 DEF PassedInv
<1>9. Goal
  BY <1>4, <1>5, <1>6, <1>7, <1>8 DEF WriterProgress, WaitStep, FullStep
<1>10. TakesInv'
  BY <1>1, <1>3, <1>9, ReaderLockAssumption DEF GraceInv, TakesInv, TypeOK
<1> QED
  BY <1>9, <1>10 DEF GraceInv

LEMMA GraceNext ==
  ASSUME TypeInv, TypeInv', GraceInv, NotFull, [Next]_vars
  PROVE  GraceInv'
<1>1. ASSUME UNCHANGED vars PROVE GraceInv'
  BY <1>1 DEF vars, local, writer, GraceInv, PassedInv, TakesInv, OldPar
<1>2. ASSUME NEW r \in Readers, BeginGet(r) \/ BeginDump(r) PROVE GraceInv'
  <2>1. /\ pc[r] = "idle" /\ pc' = [pc EXCEPT ![r] = "enter"]
        /\ UNCHANGED <<rw, keeped, readerSeq, xchg, birth, reclaimed, wpc>>
    BY <1>2 DEF BeginGet, BeginDump, writer
  <2>2. xchg[r] = NoXchg
    BY <2>1 DEF GraceInv, TakesInv, Unlocking
  <2> QED
    BY <2>1, <2>2 DEF GraceInv, PassedInv, TakesInv, OldPar, TypeInv, TypeOK
<1> QED
  BY <1>1, <1>2, GraceReader, GraceWriter DEF Next, Finished, Readers

\* No reader passes the check of its lock and uses what was freed after the
\* writer waited for it (lck_waitForReaders, _check_reader_lock): getters and
\* dumpers, with kept locks, timeouts and reverts, and after the steps that
\* count wrong, as long as no counter has filled its 16 bits.
THEOREM GraceSafetyHolds == Spec /\ []NotFull => []GraceSafety
<1>1. Init => GraceInv
  BY DEF Init, GraceInv, PassedInv, TakesInv, OldPar, Par, Unlocking
<1>2. TypeInv /\ TypeInv' /\ GraceInv /\ NotFull /\ [Next]_vars => GraceInv'
  BY GraceNext
<1>3. TypeInv /\ GraceInv => GraceSafety
  <2> SUFFICES ASSUME TypeInv, GraceInv, NEW r \in Readers, Trusting(r)
               PROVE  birth[r] >= reclaimed
    BY DEF GraceSafety
  <2>1. /\ rw.seq \in Nat /\ readerSeq[r] \in Nat /\ reclaimed \in Nat /\ birth[r] \in Nat
    BY ReaderLockAssumption DEF TypeInv, TypeOK, Word
  <2>2. readerSeq[r] <= birth[r] /\ reclaimed <= rw.seq
    BY DEF GraceInv, PassedInv, TakesInv
  <2>3. CASE readerSeq[r] = rw.seq
    BY <2>1, <2>2, <2>3
  <2>4. CASE readerSeq[r] + 1 = rw.seq
    <3>1. Par(readerSeq[r]) = OldPar
      BY <2>1, <2>4, ParNext, ParType DEF OldPar
    <3>2. rw.cnt[OldPar] # 0
      BY <3>1 DEF Trusting, Valid
    <3>3. reclaimed # rw.seq
      BY <3>2 DEF GraceInv, PassedInv
    <3> QED
      BY <2>1, <2>2, <2>4, <3>3
  <2> QED
    BY <2>3, <2>4 DEF Trusting, Valid
<1> QED
  BY <1>1, <1>2, <1>3, InitType, NextType, PTL DEF Spec

-----------------------------------------------------------------------------
(* Safety.                                                                  *)

-----------------------------------------------------------------------------
(* Counting readers.                                                        *)

LEMMA CountRange ==
  ASSUME NEW S \in SUBSET Readers
  PROVE  /\ IsFiniteSet(S)
         /\ Cardinality(S) \in Nat
         /\ Cardinality(S) < Full
<1>1. IsFiniteSet(Readers) /\ Cardinality(Readers) < Full /\ Full \in Nat
  BY ReaderLockAssumption
<1>2. IsFiniteSet(S) /\ Cardinality(S) <= Cardinality(Readers)
  BY <1>1, FS_Subset
<1>3. Cardinality(S) \in Nat /\ Cardinality(Readers) \in Nat
  BY <1>1, <1>2, FS_CardinalityType
<1> QED
  BY <1>1, <1>2, <1>3

LEMMA CountAdd ==
  ASSUME NEW S \in SUBSET Readers, NEW r \in Readers, r \notin S
  PROVE  Cardinality(S \cup {r}) = Cardinality(S) + 1
BY CountRange, FS_AddElement

LEMMA CountRemove ==
  ASSUME NEW S \in SUBSET Readers, NEW r \in S
  PROVE  Cardinality(S \ {r}) = Cardinality(S) - 1
BY CountRange, FS_RemoveElement

LEMMA CountZero ==
  ASSUME NEW S \in SUBSET Readers
  PROVE  Cardinality(S) = 0 <=> S = {}
BY CountRange, FS_EmptySet

-----------------------------------------------------------------------------
(* What the invariant says of one reader's lock.                            *)

\* A counter where somebody holds a lock and that is not closed is not zero,
\* and one where nobody does is zero.
LEMMA CounterValue ==
  ASSUME TypeInv, IInv, NEW p \in 0..1, ~Marked(p)
  PROVE  /\ rw.cnt[p] = Cardinality(Counted(p))
         /\ rw.cnt[p] < Full
         /\ rw.cnt[p] = 0 <=> Counted(p) = {}
<1>1. Counted(p) \in SUBSET Readers
  BY DEF Counted
<1> QED
  BY <1>1, CountRange, CountZero DEF IInv, CountInv

\* A reader in its section passes the check of its lock unless a timeout took
\* the lock away.
LEMMA GoodLock ==
  ASSUME TypeInv, IInv, NEW r \in Readers, Occupied(r)
  PROVE  Valid(rw, readerSeq[r]) <=> r \notin killed
<1>1. /\ rw.seq \in Nat /\ readerSeq[r] \in Nat
      /\ Par(rw.seq) \in 0..1 /\ Par(readerSeq[r]) \in 0..1
  BY ReaderLockAssumption, ParType DEF TypeInv, TypeOK, Word
<1>2. CASE r \notin killed
  <2>1. Holding(r)
    BY <1>2 DEF Holding
  <2>2. r \in Counted(Par(readerSeq[r]))
    BY <2>1 DEF Counted
  <2>3. ~Marked(Par(readerSeq[r]))
    BY <1>1, <2>1, ParNext DEF IInv, HolderInv, Marked
  <2>4. rw.cnt[Par(readerSeq[r])] # 0
    BY <1>1, <2>2, <2>3, CounterValue
  <2> QED
    BY <1>2, <2>1, <2>4 DEF IInv, HolderInv, Valid
<1>3. CASE r \in killed
  <2>1. /\ readerSeq[r] < rw.seq
        /\ readerSeq[r] + 1 = rw.seq => wpc \in {"idle", "incr", "free", "close"}
    BY <1>3 DEF IInv, KilledInv
  <2>2. CASE readerSeq[r] + 1 = rw.seq
    <3>1. ~Marked(Par(readerSeq[r]))
      BY <1>1, <2>1, <2>2 DEF Marked
    <3>2. ASSUME NEW q \in Counted(Par(readerSeq[r])) PROVE FALSE
      <4>1. q \in Readers /\ Holding(q) /\ Par(readerSeq[q]) = Par(readerSeq[r])
        BY <3>2 DEF Counted
      <4>2. readerSeq[q] = rw.seq
        BY <2>1, <2>2, <4>1 DEF IInv, HolderInv
      <4> QED
        BY <1>1, <2>2, <4>1, <4>2, ParNext
    <3>3. rw.cnt[Par(readerSeq[r])] = 0
      BY <1>1, <3>1, <3>2, CounterValue
    <3> QED
      BY <1>3, <3>3 DEF Valid
  <2>3. CASE readerSeq[r] + 1 # rw.seq
    BY <1>1, <1>3, <2>1, <2>3 DEF Valid
  <2> QED
    BY <2>2, <2>3
<1> QED
  BY <1>2, <1>3

-----------------------------------------------------------------------------
(* Steps of readers.                                                        *)

\* The part of the invariant about the word, the counters and the history.
CountersInv == CountInv /\ HolderInv /\ KilledInv /\ BirthInv /\ WriterInv

\* A step that leaves the word alone and gives up at most a lock that was
\* taken away already keeps the counters right.
LEMMA QuietStep ==
  ASSUME TypeInv, IInv, NEW r \in Readers,
         UNCHANGED <<rw, wpc, reclaimed, killed, readerSeq, birth>>,
         \A q \in Readers \ {r} : pc'[q] = pc[q] /\ keeped'[q] = keeped[q],
         Occupied(r)' => Occupied(r),
         Holding(r) => Occupied(r)'
  PROVE  CountersInv'
<1>1. \A q \in Readers \ {r} : Occupied(q)' <=> Occupied(q)
  BY DEF Occupied
<1>2. \A q \in Readers : Holding(q)' <=> Holding(q)
  BY <1>1 DEF Holding
<1>3. \A p \in 0..1 : Counted(p)' = Counted(p)
  BY <1>2 DEF Counted
<1>4. CountInv'
  BY <1>3 DEF CountInv, Marked, IInv
<1>5. HolderInv'
  BY <1>2 DEF HolderInv, IInv
<1>6. KilledInv' /\ BirthInv'
  BY <1>1 DEF KilledInv, BirthInv, IInv
<1>7. WriterInv'
  BY <1>2 DEF WriterInv, IInv
<1> QED
  BY <1>4, <1>5, <1>6, <1>7 DEF CountersInv

\* The word as a pending exchange loaded it, when the exchange will succeed.
LEMMA StillValid ==
  ASSUME TypeInv, IInv, NEW r \in Readers, Stores(r), rw = xchg[r].old
  PROVE  Valid(rw, readerSeq[r]) /\ Occupied(r) /\ r \notin killed
<1>1. Valid(rw, readerSeq[r]) /\ pc[r] \in Reading \cup {"bail"}
  BY DEF Stores, Unlocking, Reading, IInv, XchgInv
<1> QED
  BY <1>1, GoodLock DEF Occupied

\* A reader with a good lock of the sequence before meets the closed mark only
\* while it is being waited for.
LEMMA ClosedMeans ==
  ASSUME TypeInv, IInv, NEW r \in Readers, Holding(r), Closed(rw)
  PROVE  wpc \in {"drain", "force"}
<1>1. Par(rw.seq) \in 0..1 /\ Full \in Nat
  BY ReaderLockAssumption, ParType DEF TypeInv, TypeOK, Word
<1>2. Marked(Par(rw.seq))
  BY <1>1, CounterValue DEF Closed
<1>3. wpc \in {"revert", "drain", "seal", "force"}
  BY <1>2 DEF Marked
<1> QED
  BY <1>3 DEF IInv, HolderInv

\* What a call does after lck_readerUnlock, when it says whether the lock is
\* kept and says so only of a lock that goes on to the next key.
LEMMA AfterUnlock ==
  ASSUME TypeInv, IInv, NEW r \in Readers, NEW ok \in BOOLEAN, NEW kd \in BOOLEAN,
         Unlocked(r, ok, kd), kd => keep[r], pc[r] = "last" => (kd <=> ok)
  PROVE  /\ Phases' /\ JobInv'
         /\ \A q \in Readers \ {r} : pc'[q] = pc[q] /\ keeped'[q] = keeped[q]
                                     /\ keep'[q] = keep[q]
         /\ Occupied(r)' <=> kd
<1> DEFINE Goal == /\ Phases' /\ JobInv'
                   /\ \A q \in Readers \ {r} : pc'[q] = pc[q] /\ keeped'[q] = keeped[q]
                                               /\ keep'[q] = keep[q]
                   /\ Occupied(r)' <=> kd
<1>1. /\ job[r].left \in Nat /\ MaxKeys \in Nat
      /\ pc[r] = "unlock" => /\ job[r].left >= 1 /\ keep[r] = (job[r].left > 1)
                             /\ job[r].ans # "none"
      /\ pc[r] \in {"unlock", "bail"} => r \in Getters /\ r \notin Dumpers
      /\ pc[r] \in {"last", "final"}  => r \in Dumpers /\ r \notin Getters
      /\ pc[r] \in {"bail", "final"}  => ~kd
  BY ReaderLockAssumption DEF TypeInv, TypeOK, Job, IInv, JobInv, Phases
<1> USE DEF TypeInv, TypeOK, IInv, Phases, JobInv, Occupied, Reading
<1>2. ASSUME Idle(r), ~kd PROVE Goal
  BY <1>2 DEF Idle
<1>3. ASSUME Bail(r, kd), pc[r] = "unlock" PROVE Goal
  BY <1>1, <1>2, <1>3 DEF Bail
<1>4. ASSUME KeyAgain(r, kd), pc[r] = "unlock" PROVE Goal
  BY <1>1, <1>4 DEF KeyAgain
<1>5. ASSUME NextKey(r, kd), pc[r] = "unlock" PROVE Goal
  <2>1. CASE job[r].left = 1 /\ Idle(r)
    BY <1>1, <1>2, <1>5, <2>1
  <2>2. CASE job[r].left = 2 /\ Bail(r, kd)
    BY <1>3, <1>5, <2>2
  <2>3. ASSUME job[r].left > 1, NEW d \in BOOLEAN,
               job' = [job EXCEPT ![r] = KeyJob(job[r].left - 1, d)],
               keep' = [keep EXCEPT ![r] = job[r].left > 2],
               keeped' = [keeped EXCEPT ![r] = kd],
               pc' = [pc EXCEPT ![r] = "enter"]
        PROVE  Goal
    <3>1. job'[r].left = job[r].left - 1
      BY <2>3 DEF KeyJob
    <3> QED
      BY <1>1, <1>5, <2>3, <3>1
  <2> QED
    BY <1>5, <2>1, <2>2, <2>3 DEF NextKey
<1>6. ASSUME DumpAgain(r), r \in Dumpers, ~kd PROVE Goal
  BY <1>1, <1>6, ReaderLockAssumption DEF DumpAgain
<1>7. ASSUME pc[r] = "last", ok, pc' = [pc EXCEPT ![r] = "final"],
             keep' = [keep EXCEPT ![r] = FALSE],
             keeped' = [keeped EXCEPT ![r] = kd], UNCHANGED job
      PROVE  Goal
  BY <1>1, <1>7
<1>8. CASE pc[r] = "unlock"
  <2>1. ASSUME job[r].ans = "error" PROVE Idle(r) \/ Bail(r, kd)
    BY <1>8, <2>1 DEF Unlocked
  <2>2. ASSUME job[r].left = 1 PROVE ~kd
    BY <1>1, <1>8, <2>2
  <2>3. ASSUME job[r].ans = "error" PROVE Goal
    <3>1. CASE job[r].left = 1
      BY <1>2, <1>8, <2>2, <2>3, <3>1 DEF Unlocked
    <3>2. CASE job[r].left # 1
      BY <1>3, <1>8, <2>3, <3>2 DEF Unlocked
    <3> QED
      BY <3>1, <3>2
  <2>4. ASSUME job[r].ans # "error" PROVE KeyAgain(r, kd) \/ NextKey(r, kd)
    BY <1>8, <2>4 DEF Unlocked
  <2> QED
    BY <1>4, <1>5, <1>8, <2>3, <2>4
<1>9. CASE pc[r] = "bail"
  BY <1>1, <1>2, <1>9 DEF Unlocked
<1>10. CASE pc[r] = "last"
  BY <1>1, <1>6, <1>7, <1>10 DEF Unlocked
<1>11. CASE pc[r] = "final"
  BY <1>1, <1>2, <1>6, <1>11 DEF Unlocked
<1>12. pc[r] \in {"unlock", "bail", "last", "final"}
  BY DEF Unlocked
<1> QED
  BY <1>8, <1>9, <1>10, <1>11, <1>12

\* Steps without an exchange.
LEMMA LocalStep ==
  ASSUME TypeInv, IInv, NEW r \in Readers,
         EnterKeeped(r) \/ LockLoad(r) \/ LockRetry(r) \/ UnlockLoad(r) \/ UnlockRetry(r)
  PROVE  IInv'
<1>1. /\ rw.seq \in Nat /\ readerSeq[r] \in Nat
      /\ r \in Dumpers => r \notin Getters
  BY ReaderLockAssumption DEF TypeInv, TypeOK, Word
<1> USE DEF IInv, CountersInv, Phases, Occupied, Holding, Reading, local, writer
<1>2. CASE EnterKeeped(r)
  <2>1. pc[r] = "enter" /\ r \in Getters /\ Body(r) = "search"
    BY <1>1, <1>2 DEF EnterKeeped, JobInv, Body
  <2>2. CountersInv'
    BY <1>2, <2>1, QuietStep DEF EnterKeeped, TypeInv, TypeOK
  <2>3. Phases' /\ JobInv' /\ XchgInv'
    BY <1>1, <1>2, <2>1 DEF EnterKeeped, JobInv, XchgInv, TypeInv, TypeOK
  <2>4. ShutInv'
    BY <1>2, <2>1 DEF EnterKeeped, ShutInv, GivesUp, Unlocking, TypeInv, TypeOK
  <2> QED
    BY <2>2, <2>3, <2>4
<1>3. CASE LockLoad(r) \/ LockRetry(r)
  <2>1. CountersInv'
    BY <1>3, QuietStep DEF LockLoad, LockRetry
  <2>2. pc[r] = "enter" /\ ~keeped[r]
    BY <1>3 DEF LockLoad, LockRetry, XchgInv
  <2>3. XchgInv'
    BY <1>1, <1>3, <2>2
       DEF LockLoad, LockRetry, XchgInv, Attempt, Unlocking, TypeInv, TypeOK
  <2>4. ShutInv'
    BY <1>3, <2>2 DEF LockLoad, LockRetry, ShutInv, GivesUp, Unlocking, TypeInv, TypeOK
  <2> QED
    BY <1>3, <2>1, <2>3, <2>4 DEF LockLoad, LockRetry, JobInv
<1>4. CASE UnlockLoad(r)
  <2>1. pc[r] \in Unlocking /\ xchg[r] = NoXchg /\ Valid(rw, readerSeq[r])
    BY <1>4 DEF UnlockLoad, Loads
  <2>2. Occupied(r) /\ Holding(r)
    BY <2>1, GoodLock DEF Unlocking
  <2>3. CountersInv'
    BY <1>4, <2>1, QuietStep DEF UnlockLoad, Unlocking, TypeInv, TypeOK
  <2>4. keep[r] => readerSeq[r] + 1 = rw.seq
    BY <1>4, <2>1 DEF UnlockLoad, Valid
  <2>5. Phases' /\ JobInv'
    BY <1>4, <2>1 DEF UnlockLoad, JobInv, Unlocking, TypeInv, TypeOK
  <2>6. XchgInv'
    <3>1. /\ xchg'[r].old = rw /\ keep'[r] = keep[r]
          /\ xchg'[r].new = IF keep[r] /\ ~Closed(rw) THEN Switch(rw, readerSeq[r])
                                                      ELSE Leave(rw, readerSeq[r])
          /\ keep[r] /\ keeped'[r] => ~Closed(rw)
      BY <1>4 DEF UnlockLoad, Attempt, TypeInv, TypeOK
    <3>2. \A q \in Readers \ {r} : xchg'[q] = xchg[q] /\ keeped'[q] = keeped[q]
      BY <1>4 DEF UnlockLoad, TypeInv, TypeOK
    <3>3. UNCHANGED <<pc, rw, readerSeq, keep>>
      BY <1>4 DEF UnlockLoad
    <3> QED
      BY <1>1, <2>1, <2>4, <3>1, <3>2, <3>3 DEF XchgInv, Unlocking
  <2>7. ShutInv'
    <3>1. GivesUp(r)' => Closed(rw)
      BY <1>4 DEF UnlockLoad, GivesUp, TypeInv, TypeOK
    <3>2. Closed(rw) => wpc \in {"drain", "force"}
      BY <2>2, ClosedMeans
    <3> QED
      BY <1>4, <2>2, <3>1, <3>2 DEF UnlockLoad, ShutInv, GivesUp, TypeInv, TypeOK
  <2> QED
    BY <2>3, <2>5, <2>6, <2>7
<1>5. CASE UnlockRetry(r)
  <2>1. pc[r] \in Unlocking /\ xchg[r] # NoXchg /\ Valid(rw, readerSeq[r])
    BY <1>5 DEF UnlockRetry, Stores
  <2>2. CountersInv'
    BY <1>5, QuietStep DEF UnlockRetry
  <2>3. keep[r] => readerSeq[r] + 1 = rw.seq
    BY <1>1, <2>1 DEF XchgInv, Valid, TypeInv, TypeOK, Xchg, Word
  <2>4. XchgInv'
    BY <1>1, <1>5, <2>1, <2>3
       DEF UnlockRetry, XchgInv, Attempt, Unlocking, TypeInv, TypeOK
  <2>5. ShutInv'
    BY <1>5, <2>1 DEF UnlockRetry, ShutInv, GivesUp, TypeInv, TypeOK
  <2> QED
    BY <1>5, <2>2, <2>4, <2>5 DEF UnlockRetry, JobInv
<1> QED
  BY <1>2, <1>3, <1>4, <1>5

\* Steps of the searches.
LEMMA SearchKeeps ==
  ASSUME TypeInv, IInv, NEW r \in Getters, SearchStep(r)
  PROVE  IInv'
<1>1. r \in Readers /\ r \notin Dumpers
  BY ReaderLockAssumption DEF Readers
<1> USE DEF IInv, CountersInv, Phases, Occupied, Holding, Reading, local, writer, Unlocking
<1>2. CASE SearchDone(r)
  <2>1. PICK a \in Answers \ {"none"} : job' = [job EXCEPT ![r].ans = a]
    BY <1>2 DEF SearchDone, Answer
  <2>2. CountersInv'
    BY <1>1, <1>2, QuietStep DEF SearchDone, TypeInv, TypeOK
  <2>3. Phases' /\ JobInv'
    BY <1>1, <1>2, <2>1 DEF SearchDone, JobInv, TypeInv, TypeOK, Job
  <2>4. XchgInv'
    BY <1>1, <1>2 DEF SearchDone, XchgInv, TypeInv, TypeOK
  <2>5. ShutInv'
    BY <1>1, <1>2 DEF SearchDone, ShutInv, GivesUp, XchgInv, TypeInv, TypeOK
  <2> QED
    BY <2>2, <2>3, <2>4, <2>5
<1>3. CASE SearchAgain(r) \/ SearchOutside(r)
  <2>1. r \in killed
    BY <1>1, <1>3, GoodLock DEF SearchAgain, SearchOutside
  <2>2. CountersInv'
    BY <1>1, <1>3, <2>1, QuietStep DEF SearchAgain, SearchOutside, TypeInv, TypeOK
  <2>3. Phases' /\ JobInv'
    BY <1>1, <1>3 DEF SearchAgain, SearchOutside, JobInv, TypeInv, TypeOK
  <2>4. XchgInv'
    BY <1>1, <1>3 DEF SearchAgain, SearchOutside, XchgInv, TypeInv, TypeOK
  <2>5. ShutInv'
    BY <1>1, <1>3 DEF SearchAgain, SearchOutside, ShutInv, GivesUp, TypeInv, TypeOK
  <2> QED
    BY <2>2, <2>3, <2>4, <2>5
<1> QED
  BY <1>2, <1>3 DEF SearchStep

\* Steps of a dumper that do not move its count.
LEMMA DumpKeeps ==
  ASSUME TypeInv, IInv, NEW r \in Dumpers,
         DumpEnd(r) \/ CondLoad(r) \/ CondRetry(r) \/ CondLost(r)
  PROVE  IInv'
<1>1. r \in Readers /\ r \notin Getters /\ rw.seq \in Nat
  BY ReaderLockAssumption DEF Readers, TypeInv, TypeOK, Word
<1> USE DEF IInv, CountersInv, Phases, Occupied, Holding, Reading, local, writer, Unlocking
<1>2. CASE DumpEnd(r)
  <2>1. pc[r] = "dump" /\ xchg[r] = NoXchg
    BY <1>1, <1>2 DEF DumpEnd, XchgInv
  <2>2. CountersInv'
    BY <1>1, <1>2, QuietStep DEF DumpEnd, TypeInv, TypeOK
  <2>3. Phases' /\ JobInv'
    BY <1>1, <1>2 DEF DumpEnd, JobInv, TypeInv, TypeOK
  <2>4. XchgInv' /\ ShutInv'
    BY <1>1, <1>2, <2>1 DEF DumpEnd, XchgInv, ShutInv, GivesUp, TypeInv, TypeOK
  <2> QED
    BY <2>2, <2>3, <2>4
<1>3. CASE CondLoad(r)
  <2>1. /\ pc[r] = "dump" /\ pc'[r] \in {"dump", "cond"} /\ keeped'[r]
        /\ \A q \in Readers \ {r} : pc'[q] = pc[q] /\ keeped'[q] = keeped[q]
                                    /\ xchg'[q] = xchg[q]
        /\ UNCHANGED <<rw, keep, job, readerSeq, birth, killed, wpc, reclaimed>>
    BY <1>1, <1>3 DEF CondLoad, TypeInv, TypeOK
  <2>2. xchg'[r] # NoXchg => pc'[r] = "cond" /\ xchg'[r].old = rw
    BY <1>1, <1>3, <2>1 DEF CondLoad, Attempt, XchgInv, TypeInv, TypeOK
  <2>3. CountersInv'
    BY <1>1, <2>1, QuietStep
  <2>4. Phases' /\ JobInv'
    BY <1>1, <2>1 DEF JobInv
  <2>5. XchgInv' /\ ShutInv'
    BY <1>1, <2>1, <2>2 DEF XchgInv, ShutInv, GivesUp
  <2> QED
    BY <2>3, <2>4, <2>5
<1>4. CASE CondRetry(r)
  <2>1. CountersInv'
    BY <1>1, <1>4, QuietStep DEF CondRetry
  <2>2. Phases' /\ JobInv'
    BY <1>4 DEF CondRetry, JobInv
  <2>3. XchgInv' /\ ShutInv'
    BY <1>1, <1>4 DEF CondRetry, Attempt, XchgInv, ShutInv, GivesUp, TypeInv, TypeOK
  <2> QED
    BY <2>1, <2>2, <2>3
<1>5. CASE CondLost(r)
  <2>1. r \in killed
    BY <1>1, <1>5, GoodLock DEF CondLost
  <2>2. /\ pc' = [pc EXCEPT ![r] = "enter"] /\ keep' = [keep EXCEPT ![r] = TRUE]
        /\ keeped' = [keeped EXCEPT ![r] = FALSE] /\ job' = job
        /\ xchg' = [xchg EXCEPT ![r] = NoXchg]
        /\ UNCHANGED <<rw, readerSeq, birth, killed, wpc, reclaimed>>
    BY <1>5 DEF CondLost, DumpAgain
  <2>3. CountersInv'
    BY <1>1, <2>1, <2>2, QuietStep DEF TypeInv, TypeOK
  <2>4. Phases' /\ JobInv'
    BY <1>1, <2>2 DEF JobInv, TypeInv, TypeOK
  <2>5. XchgInv' /\ ShutInv'
    BY <1>1, <2>2 DEF XchgInv, ShutInv, GivesUp, TypeInv, TypeOK
  <2> QED
    BY <2>3, <2>4, <2>5
<1> QED
  BY <1>2, <1>3, <1>4, <1>5

\* The steps that end an unlock without an exchange.
LEMMA UnlockEnds ==
  ASSUME TypeInv, IInv, NEW r \in Readers, UnlockStay(r) \/ UnlockLost(r)
  PROVE  IInv'
<1>1. PICK kd \in BOOLEAN :
        /\ Unlocked(r, kd, kd)
        /\ kd => keep[r] /\ Valid(rw, readerSeq[r])
        /\ ~kd => ~Valid(rw, readerSeq[r])
  BY DEF UnlockStay, UnlockLost
<1>2. pc[r] \in Unlocking
  BY DEF UnlockStay, UnlockLost, Loads, Stores
<1>3. /\ Phases' /\ JobInv'
      /\ \A q \in Readers \ {r} : pc'[q] = pc[q] /\ keeped'[q] = keeped[q]
                                  /\ keep'[q] = keep[q]
      /\ Occupied(r)' <=> kd
  BY <1>1, AfterUnlock
<1>4. Occupied(r) /\ (Holding(r) <=> kd)
  BY <1>1, <1>2, GoodLock DEF Occupied, Holding, Reading, Unlocking
<1>5. CountersInv'
  BY <1>3, <1>4, QuietStep DEF UnlockStay, UnlockLost, writer
<1>6. xchg'[r] = NoXchg /\ \A q \in Readers \ {r} : xchg'[q] = xchg[q]
  BY DEF UnlockStay, UnlockLost, Loads, TypeInv, TypeOK
<1>7. UNCHANGED <<rw, readerSeq, wpc, killed>>
  BY DEF UnlockStay, UnlockLost, writer
<1>8. XchgInv' /\ ShutInv'
  BY <1>3, <1>6, <1>7 DEF IInv, XchgInv, ShutInv, GivesUp, Holding, Occupied
<1> QED
  BY <1>3, <1>5, <1>8 DEF IInv, CountersInv

-----------------------------------------------------------------------------
(* The two exchanges of a reader.                                           *)

LEMMA TakenStep ==
  ASSUME TypeInv, IInv, NEW r \in Readers, LockTaken(r)
  PROVE  IInv'
<1>0. PICK s \in Nat, h \in 0..1 : s = rw.seq /\ h = Par(s)
  BY ReaderLockAssumption, ParType DEF TypeInv, TypeOK, Word
<1> USE DEF IInv, Occupied, Holding, Reading
<1>1. /\ s = rw.seq /\ h = Par(rw.seq) /\ Full \in Nat /\ rw \in Word
      /\ Body(r) \in {"search", "dump"} /\ (Body(r) = "dump" <=> r \in Dumpers)
  BY <1>0, ReaderLockAssumption DEF TypeInv, TypeOK, Body
<1>2. /\ pc[r] = "enter" /\ ~keeped[r] /\ rw' = Enter(rw) /\ ~Closed(rw)
      /\ wpc' = wpc /\ reclaimed' = reclaimed /\ killed' = killed \ {r}
      /\ UNCHANGED <<keep, keeped, job>>
      /\ readerSeq' = [readerSeq EXCEPT ![r] = s] /\ birth' = [birth EXCEPT ![r] = s]
      /\ pc' = [pc EXCEPT ![r] = Body(r)] /\ xchg' = [xchg EXCEPT ![r] = NoXchg]
  BY <1>1 DEF LockTaken, XchgInv, local, writer
<1>3. ~Marked(h)
  BY <1>1, <1>2 DEF CountInv, Closed
<1>4. /\ \A q \in Readers \ {r} : /\ Holding(q)' <=> Holding(q)
                                  /\ Occupied(q)' <=> Occupied(q)
                                  /\ readerSeq'[q] = readerSeq[q]
                                  /\ birth'[q] = birth[q] /\ pc'[q] = pc[q]
                                  /\ xchg'[q] = xchg[q] /\ q \in killed' <=> q \in killed
      /\ ~Occupied(r) /\ Holding(r)' /\ readerSeq'[r] = s /\ birth'[r] = s
      /\ pc'[r] = Body(r) /\ xchg'[r] = NoXchg
  BY <1>1, <1>2 DEF TypeInv, TypeOK
<1>5. /\ Counted(h)' = Counted(h) \cup {r} /\ r \notin Counted(h)
      /\ \A p \in 0..1 \ {h} : Counted(p)' = Counted(p)
      /\ Counted(h) \in SUBSET Readers
  BY <1>1, <1>2, <1>4 DEF Counted
<1>6. /\ rw.cnt[h] = Cardinality(Counted(h)) /\ rw.cnt[h] < Full
      /\ Cardinality(Counted(h)') = Cardinality(Counted(h)) + 1
  BY <1>1, <1>3, <1>5, CounterValue, CountAdd
<1>7. rw'.seq = s /\ rw'.cnt = [rw.cnt EXCEPT ![h] = rw.cnt[h] + 1]
  BY <1>1, <1>2, <1>6 DEF Enter, Put
<1>8. CountInv'
  <2>1. \A p \in 0..1 : Marked(p)' <=> Marked(p)
    BY <1>1, <1>2, <1>7 DEF Marked
  <2>2. rw'.cnt[h] = Cardinality(Counted(h)')
    BY <1>1, <1>6, <1>7 DEF Word
  <2>3. ASSUME NEW p \in 0..1 \ {h}
        PROVE  rw'.cnt[p] = IF Marked(p) THEN Full ELSE Cardinality(Counted(p)')
    BY <1>1, <1>5, <1>7, <2>3 DEF CountInv, Word
  <2> QED
    BY <1>3, <2>1, <2>2, <2>3 DEF CountInv
<1>9. wpc \in {"idle", "incr", "wait", "clear", "free", "close"}
  <2>1. wpc # "seal" /\ wpc # "revert" /\ wpc # "drain" /\ wpc # "force"
    BY <1>1, <1>3 DEF Marked
  <2> QED
    BY <2>1 DEF TypeInv, TypeOK
<1>10. HolderInv'
  BY <1>1, <1>2, <1>4, <1>7, <1>9 DEF HolderInv
<1>11. KilledInv' /\ BirthInv'
  BY <1>1, <1>2, <1>4, <1>7 DEF KilledInv, BirthInv
<1>12. WriterInv'
  BY <1>1, <1>2, <1>4, <1>7, <1>9 DEF WriterInv
<1>13. XchgInv'
  BY <1>1, <1>2, <1>4, <1>7 DEF XchgInv
<1>14. Phases' /\ JobInv'
  BY <1>1, <1>2, <1>4, ReaderLockAssumption DEF Phases, JobInv, Readers
<1>15. ShutInv'
  BY <1>2, <1>4 DEF ShutInv, GivesUp
<1> QED
  BY <1>15, <1>8, <1>10, <1>11, <1>12, <1>13, <1>14

\* An exchange that counts right either moves the count of a lock that goes on
\* to the open counter of the current sequence, or takes it away.
LEMMA DoneKinds ==
  ASSUME TypeInv, IInv, NEW r \in Readers, UnlockDone(r), ~Miscount
  PROVE  \E kd \in BOOLEAN :
           /\ kd  => /\ keep[r] /\ readerSeq[r] + 1 = rw.seq /\ ~Closed(rw)
                    /\ rw' = Switch(rw, readerSeq[r])
           /\ ~kd => rw' = Leave(rw, readerSeq[r])
           /\ pc[r] = "last" => kd
           /\ Unlocked(r, TRUE, kd)
<1>1. /\ pc[r] \in Unlocking /\ xchg[r] # NoXchg /\ rw = xchg[r].old /\ rw' = xchg[r].new
      /\ Unlocked(r, TRUE, keeped[r]) /\ keeped[r] \in BOOLEAN /\ keep[r] \in BOOLEAN
  BY DEF UnlockDone, Stores, TypeInv, TypeOK
<1>2. Occupied(r) /\ r \notin killed /\ Holding(r)
  BY <1>1, StillValid DEF Stores, Holding
<1>3. ~EntersClosed(r) /\ ~LeavesTwice(r)
  BY DEF Miscount
<1>4. CASE keep[r] /\ keeped[r]
  <2>1. rw' = Switch(rw, readerSeq[r]) /\ readerSeq[r] + 1 = rw.seq
    BY <1>1, <1>4 DEF IInv, XchgInv
  <2>2. ~Closed(rw)
    BY <1>1, <1>3, <1>4, <2>1 DEF EntersClosed
  <2>3. Unlocked(r, TRUE, TRUE)
    <3>1. keeped[r] = TRUE
      BY <1>4
    <3> QED
      BY <1>1, <3>1
  <2> QED
    BY <1>4, <2>1, <2>2, <2>3
<1>5. CASE keep[r] /\ ~keeped[r]
  <2>1. pc[r] # "last"
    BY <1>3, <1>5 DEF LeavesTwice
  <2>2. wpc \in {"drain", "force"}
    BY <1>1, <1>2, <1>5 DEF IInv, ShutInv, GivesUp
  <2>3. Par(rw.seq) \in 0..1
    BY ReaderLockAssumption, ParType DEF TypeInv, TypeOK, Word
  <2>4. Closed(rw)
    BY <2>2, <2>3 DEF Closed, IInv, CountInv, Marked
  <2>5. xchg[r].new # Switch(rw, readerSeq[r])
    BY <1>3, <1>5, <2>4 DEF EntersClosed
  <2>6. rw' = Leave(rw, readerSeq[r])
    BY <1>1, <1>5, <2>5 DEF IInv, XchgInv
  <2>7. Unlocked(r, TRUE, FALSE)
    <3>1. keeped[r] = FALSE
      BY <1>1, <1>5
    <3> QED
      BY <1>1, <3>1
  <2> QED
    BY <2>1, <2>6, <2>7
<1>6. CASE ~keep[r]
  <2>1. rw' = Leave(rw, readerSeq[r]) /\ pc[r] # "last"
    BY <1>1, <1>6 DEF IInv, XchgInv, JobInv, Phases
  <2>2. Unlocked(r, TRUE, FALSE)
    <3>1. CASE pc[r] \in {"bail", "final"}
      BY <1>1, <3>1 DEF Unlocked
    <3>2. CASE pc[r] = "unlock"
      <4>1. job[r].left = 1
        BY <1>6, <3>2, ReaderLockAssumption
           DEF IInv, JobInv, Phases, TypeInv, TypeOK, Job
      <4>2. NextKey(r, keeped[r]) => Idle(r)
        BY <4>1 DEF NextKey
      <4>3. Idle(r) => NextKey(r, FALSE)
        BY <4>1 DEF NextKey
      <4> QED
        BY <1>1, <3>2, <4>1, <4>2, <4>3 DEF Unlocked
    <3> QED
      BY <1>1, <2>1, <3>1, <3>2 DEF Unlocking
  <2> QED
    BY <2>1, <2>2
<1> QED
  BY <1>1, <1>4, <1>5, <1>6

LEMMA DoneStep ==
  ASSUME TypeInv, IInv, NEW r \in Readers, UnlockDone(r), ~Miscount
  PROVE  IInv'
<1>0. PICK kd \in BOOLEAN :
        /\ kd  => /\ keep[r] /\ readerSeq[r] + 1 = rw.seq /\ ~Closed(rw)
                 /\ rw' = Switch(rw, readerSeq[r])
        /\ ~kd => rw' = Leave(rw, readerSeq[r])
        /\ pc[r] = "last" => kd
        /\ Unlocked(r, TRUE, kd)
  BY DoneKinds
<1>1. PICK s \in Nat, h \in 0..1, t \in Nat, g \in 0..1 :
        s = rw.seq /\ h = Par(rw.seq) /\ t = readerSeq[r] /\ g = Par(readerSeq[r])
  BY ReaderLockAssumption, ParType DEF TypeInv, TypeOK, Word
<1>2. /\ Full \in Nat /\ rw \in Word /\ Stores(r) /\ rw = xchg[r].old
      /\ kd  => keep[r] /\ t + 1 = s /\ ~Closed(rw) /\ rw' = Switch(rw, t)
      /\ ~kd => rw' = Leave(rw, t)
  BY <1>0, <1>1, ReaderLockAssumption DEF UnlockDone, TypeInv, TypeOK
<1>3. Valid(rw, t) /\ Occupied(r) /\ r \notin killed
  BY <1>1, <1>2, StillValid
<1>4. /\ Phases' /\ JobInv'
      /\ \A q \in Readers \ {r} : pc'[q] = pc[q] /\ keeped'[q] = keeped[q]
                                  /\ keep'[q] = keep[q]
      /\ Occupied(r)' <=> kd
  BY <1>0, AfterUnlock
<1>5. Occupied(r) /\ Holding(r) /\ r \notin killed
  BY <1>3 DEF Holding
<1>6. /\ UNCHANGED <<wpc, reclaimed, killed>>
      /\ readerSeq' = [readerSeq EXCEPT ![r] = s] /\ birth' = [birth EXCEPT ![r] = s]
      /\ xchg' = [xchg EXCEPT ![r] = NoXchg]
  BY <1>1 DEF UnlockDone, writer
<1>7. /\ \A q \in Readers \ {r} : /\ Holding(q)' <=> Holding(q)
                                  /\ Occupied(q)' <=> Occupied(q)
                                  /\ readerSeq'[q] = readerSeq[q]
                                  /\ birth'[q] = birth[q] /\ xchg'[q] = xchg[q]
      /\ Holding(r)' <=> kd
      /\ readerSeq'[r] = s /\ birth'[r] = s /\ xchg'[r] = NoXchg
  BY <1>4, <1>5, <1>6 DEF Occupied, Holding, TypeInv, TypeOK
<1>8. /\ ~Marked(g)
      /\ kd => ~Marked(h) /\ g # h
  <2>1. ~Marked(g)
    BY <1>1, <1>5, ParNext DEF IInv, HolderInv, Marked
  <2>2. ASSUME kd PROVE ~Marked(h) /\ g # h
    BY <1>1, <1>2, <2>2, ParNext DEF IInv, CountInv, Closed
  <2> QED
    BY <2>1, <2>2
<1>9. /\ rw.cnt[g] = Cardinality(Counted(g)) /\ rw.cnt[g] \in Nat /\ rw.cnt[g] # 0
      /\ kd => rw.cnt[h] = Cardinality(Counted(h)) /\ rw.cnt[h] < Full
               /\ rw.cnt[h] \in Nat
  BY <1>1, <1>2, <1>3, <1>8, CounterValue DEF Valid, Word
<1>10. /\ r \in Counted(g) /\ r \notin Counted(1 - g)
       /\ Counted(0) \in SUBSET Readers /\ Counted(1) \in SUBSET Readers
  BY <1>1, <1>5 DEF Counted
<1>11. CASE ~kd
  <2>1. rw'.seq = s /\ rw'.cnt = [rw.cnt EXCEPT ![g] = rw.cnt[g] - 1]
    BY <1>1, <1>2, <1>9, <1>11 DEF Leave, Put
  <2>2. Counted(g)' = Counted(g) \ {r} /\ \A p \in 0..1 \ {g} : Counted(p)' = Counted(p)
    BY <1>1, <1>5, <1>7, <1>11 DEF Counted
  <2>3. Cardinality(Counted(g)') = Cardinality(Counted(g)) - 1
    BY <1>1, <1>10, <2>2, CountRemove DEF Counted
  <2>4. \A p \in 0..1 : Marked(p)' <=> Marked(p)
    BY <1>1, <1>6, <2>1 DEF Marked
  <2>5. rw'.cnt[g] = Cardinality(Counted(g)')
    BY <1>1, <1>2, <1>9, <2>1, <2>3 DEF Word
  <2>6. ASSUME NEW p \in 0..1 \ {g}
        PROVE  rw'.cnt[p] = IF Marked(p) THEN Full ELSE Cardinality(Counted(p)')
    BY <1>1, <2>1, <2>2, <2>6 DEF IInv, CountInv, Word
  <2>7. CountInv'
    BY <1>8, <2>4, <2>5, <2>6 DEF CountInv
  <2> QED
    BY <1>1, <1>2, <1>4, <1>6, <1>7, <1>11, <2>1, <2>7
       DEF IInv, HolderInv, KilledInv, BirthInv, WriterInv, XchgInv, ShutInv, GivesUp,
           Holding
<1>12. CASE kd
  <2>1. rw'.seq = s /\ rw'.cnt = [rw.cnt EXCEPT ![h] = rw.cnt[h] + 1,
                                                ![g] = rw.cnt[g] - 1]
    BY <1>1, <1>2, <1>8, <1>9, <1>12 DEF Switch, Enter, Leave, Put, Word
  <2>2. Counted(g)' = Counted(g) \ {r} /\ Counted(h)' = Counted(h) \cup {r}
    BY <1>1, <1>5, <1>7, <1>8, <1>12 DEF Counted
  <2>3. /\ Cardinality(Counted(g)') = Cardinality(Counted(g)) - 1
        /\ Cardinality(Counted(h)') = Cardinality(Counted(h)) + 1
    BY <1>1, <1>8, <1>10, <1>12, <2>2, CountRemove, CountAdd DEF Counted
  <2>4. \A p \in 0..1 : Marked(p)' <=> Marked(p)
    BY <1>1, <1>6, <2>1 DEF Marked
  <2>5. rw'.cnt[g] = Cardinality(Counted(g)') /\ rw'.cnt[h] = Cardinality(Counted(h)')
    BY <1>1, <1>2, <1>8, <1>9, <1>12, <2>1, <2>3 DEF Word
  <2>6. \A p \in 0..1 : p = g \/ p = h
    BY <1>1, <1>8, <1>12
  <2>7. CountInv'
    BY <1>8, <1>12, <2>4, <2>5, <2>6 DEF CountInv
  <2>8. wpc \in {"wait", "clear"}
    BY <1>1, <1>2, <1>5, <1>8, <1>12 DEF IInv, HolderInv, Marked
  <2> QED
    BY <1>1, <1>2, <1>4, <1>6, <1>7, <1>12, <2>1, <2>7, <2>8
       DEF IInv, HolderInv, KilledInv, BirthInv, WriterInv, XchgInv, ShutInv, GivesUp,
           Holding
<1> QED
  BY <1>11, <1>12

-----------------------------------------------------------------------------
(* Steps of the writer.                                                     *)

\* The readers stay where they are while the writer works.
LEMMA WriterFrame ==
  ASSUME TypeInv, TypeInv', IInv, UNCHANGED readers, rw.seq <= rw'.seq
  PROVE  /\ Phases' /\ JobInv' /\ XchgInv' /\ BirthInv'
         /\ \A r \in Readers : Occupied(r)' <=> Occupied(r)
         /\ \A r \in Readers : GivesUp(r)' <=> GivesUp(r)
<1>1. rw.seq \in Nat /\ rw'.seq \in Nat
  BY ReaderLockAssumption DEF TypeInv, TypeOK, Word
<1>2. UNCHANGED <<pc, readerSeq, xchg, birth, keep, keeped, job>>
  BY DEF readers, local
<1>3. XchgInv'
  BY <1>1, <1>2 DEF IInv, XchgInv, TypeInv, TypeOK, Xchg, Word
<1> QED
  BY <1>2, <1>3 DEF IInv, Phases, JobInv, BirthInv, Occupied, GivesUp

\* Steps that change only where the writer is.
LEMMA WriterQuiet ==
  ASSUME TypeInv, TypeInv', IInv,
         (\E c \in Chains \cup {NoDeletion} : MarkDelete(c))
         \/ WaitZero \/ WaitTimeout \/ Reclaim \/ FullLoad \/ FullRetry
         \/ DrainZero \/ DrainTimeout
  PROVE  IInv'
<1> USE DEF MarkDelete, WaitZero, WaitTimeout, Reclaim, FullLoad, FullRetry,
            DrainZero, DrainTimeout
<1>0. PICK s \in Nat, o \in 0..1 : s = rw.seq /\ o = OldPar
  BY ReaderLockAssumption, ParType DEF TypeInv, TypeOK, Word, OldPar
<1>1. UNCHANGED <<rw, killed>> /\ UNCHANGED readers
  OBVIOUS
<1>2. /\ Phases' /\ JobInv' /\ XchgInv' /\ BirthInv'
      /\ \A r \in Readers : Occupied(r)' <=> Occupied(r)
      /\ \A r \in Readers : GivesUp(r)' <=> GivesUp(r)
  BY <1>0, <1>1, WriterFrame
<1>3. UNCHANGED readerSeq
  BY <1>1 DEF readers
<1>4. \A r \in Readers : Holding(r)' <=> Holding(r)
  BY <1>1, <1>2 DEF Holding
<1>5. \A p \in 0..1 : Counted(p)' = Counted(p) /\ (Marked(p)' <=> Marked(p))
  BY <1>1, <1>3, <1>4 DEF Counted, Marked
<1>6. CountInv'
  BY <1>1, <1>5 DEF IInv, CountInv
<1>7. ASSUME WaitZero \/ DrainZero, NEW r \in Readers, Holding(r)
      PROVE  readerSeq[r] = rw.seq
  <2>1. ~Marked(o)
    BY <1>0, <1>7 DEF Marked, OldPar, Par
  <2>2. r \notin Counted(o)
    BY <1>0, <1>7, <2>1, CounterValue
  <2>3. readerSeq[r] + 1 = rw.seq => Par(readerSeq[r]) = o
    BY <1>0, ParNext, ReaderLockAssumption DEF OldPar, Par, TypeInv, TypeOK
  <2> QED
    BY <1>7, <2>2, <2>3 DEF Counted, IInv, HolderInv
<1>8. HolderInv'
  <2>1. ASSUME NEW r \in Readers, Holding(r), readerSeq[r] + 1 = rw.seq
        PROVE  wpc' \in {"wait", "clear", "drain", "force"}
    <3>1. wpc \in {"wait", "clear", "drain", "force"}
      BY <1>0, <2>1 DEF IInv, HolderInv
    <3>2. ~(WaitZero \/ DrainZero)
      BY <1>0, <1>7, <2>1
    <3> QED
      BY <3>1, <3>2
  <2>2. ASSUME NEW r \in Readers, Holding(r), readerSeq[r] = rw.seq
        PROVE  wpc' \in {"idle", "incr", "wait", "clear", "free", "close"}
    <3>1. wpc \in {"idle", "incr", "wait", "clear", "free", "close"}
      BY <1>0, <2>2 DEF IInv, HolderInv
    <3> QED
      BY <3>1
  <2> QED
    BY <1>1, <1>3, <1>4, <2>1, <2>2 DEF IInv, HolderInv
<1>9. KilledInv'
  BY <1>1, <1>2, <1>3 DEF IInv, KilledInv
<1>10. WriterInv'
  <2>1. DrainZero => \A r \in Readers : ~Holding(r)
    BY <1>0, <1>7 DEF IInv, HolderInv
  <2>2. /\ reclaimed' <= rw'.seq
        /\ wpc' \in {"wait", "clear", "free", "drain", "seal", "force"} => reclaimed' < rw'.seq
    BY <1>0 DEF IInv, WriterInv
  <2>3. wpc' = "seal" => wpc = "seal" \/ DrainZero
    OBVIOUS
  <2> QED
    BY <1>4, <2>1, <2>2, <2>3 DEF IInv, WriterInv
<1>11. ShutInv'
  <2>1. DrainZero => \A r \in Readers : ~Holding(r)
    BY <1>0, <1>7 DEF IInv, HolderInv
  <2>2. wpc \in {"drain", "force"} => wpc' \in {"drain", "force"} \/ DrainZero
    OBVIOUS
  <2> QED
    BY <1>2, <1>4, <2>1, <2>2 DEF IInv, ShutInv
<1> QED
  BY <1>2, <1>6, <1>8, <1>9, <1>10, <1>11 DEF IInv

LEMMA NextSequenceStep ==
  ASSUME TypeInv, TypeInv', IInv, NextSequence
  PROVE  IInv'
<1>1. PICK s \in Nat, h \in 0..1 : s = rw.seq /\ h = Par(s) /\ h # Par(s + 1)
  BY ReaderLockAssumption, ParType, ParNext DEF TypeInv, TypeOK, Word
<1>2. /\ rw'.cnt = rw.cnt /\ rw'.seq = s + 1 /\ UNCHANGED <<killed, reclaimed>>
      /\ UNCHANGED readers
      /\ wpc' \in {"wait", "free"} /\ (wpc' = "free" => rw.cnt[h] \in {0, Full})
  BY <1>1 DEF NextSequence
<1>3. /\ Phases' /\ JobInv' /\ XchgInv' /\ BirthInv'
      /\ \A r \in Readers : Occupied(r)' <=> Occupied(r)
      /\ \A r \in Readers : GivesUp(r)' <=> GivesUp(r)
  BY <1>1, <1>2, WriterFrame
<1>4. /\ \A r \in Readers : Holding(r)' <=> Holding(r)
      /\ UNCHANGED readerSeq
  BY <1>2, <1>3 DEF Holding, readers
<1>5. \A p \in 0..1 : Counted(p)' = Counted(p) /\ ~Marked(p) /\ ~Marked(p)'
  BY <1>2, <1>4 DEF Counted, Marked, NextSequence
<1>6. CountInv'
  BY <1>2, <1>5 DEF IInv, CountInv
<1>7. HolderInv'
  <2>1. ASSUME NEW r \in Readers, Holding(r)
        PROVE  readerSeq[r] = s /\ wpc' = "wait"
    <3>1. readerSeq[r] = s
      BY <1>1, <2>1 DEF IInv, HolderInv, NextSequence
    <3>2. r \in Counted(h)
      BY <1>1, <2>1, <3>1 DEF Counted
    <3>3. rw.cnt[h] # 0 /\ rw.cnt[h] # Full
      BY <1>5, <3>2, CounterValue, ReaderLockAssumption
    <3> QED
      BY <1>2, <3>1, <3>3
  <2> QED
    BY <1>2, <1>4, <2>1 DEF HolderInv
<1>8. KilledInv'
  BY <1>1, <1>2, <1>3, <1>4 DEF IInv, KilledInv, TypeInv, TypeOK
<1>9. WriterInv'
  BY <1>1, <1>2, ReaderLockAssumption DEF IInv, WriterInv, TypeInv, TypeOK
<1>10. ShutInv'
  BY <1>3, <1>4 DEF IInv, ShutInv, NextSequence
<1> QED
  BY <1>3, <1>6, <1>7, <1>8, <1>9, <1>10 DEF IInv

LEMMA ClearStep ==
  ASSUME TypeInv, TypeInv', IInv, ClearCounter
  PROVE  IInv'
<1>1. PICK s \in Nat, o \in 0..1 : s = rw.seq /\ o = OldPar /\ o = 1 - Par(s)
  BY ReaderLockAssumption, ParType DEF TypeInv, TypeOK, Word, OldPar, Par
<1>2. /\ rw' = Put(rw, o, 0) /\ killed' = killed \cup Victims(rw')
      /\ wpc = "clear" /\ wpc' = "free" /\ reclaimed' = reclaimed
      /\ UNCHANGED readers
  BY <1>1 DEF ClearCounter
<1>3. rw'.seq = s /\ rw'.cnt[o] = 0 /\ rw'.cnt[1 - o] = rw.cnt[1 - o]
  BY <1>1, <1>2 DEF Put, TypeInv, TypeOK, Word
<1>4. /\ Phases' /\ JobInv' /\ XchgInv' /\ BirthInv'
      /\ \A r \in Readers : Occupied(r)' <=> Occupied(r)
      /\ \A r \in Readers : GivesUp(r)' <=> GivesUp(r)
  BY <1>1, <1>2, <1>3, WriterFrame
<1>5. UNCHANGED readerSeq /\ readerSeq \in [Readers -> Nat]
  BY <1>2, ReaderLockAssumption DEF readers, TypeInv, TypeOK
<1>6. ASSUME NEW r \in Readers
      PROVE  r \in Victims(rw') => readerSeq[r] + 1 = s
  <2>1. CASE readerSeq[r] = s
    BY <1>1, <1>3, <2>1 DEF Victims, Valid, Par
  <2>2. CASE readerSeq[r] # s
    BY <1>1, <2>2 DEF Victims, Valid
  <2> QED
    BY <2>1, <2>2
<1>7. ASSUME NEW r \in Readers, Occupied(r)
      PROVE  Holding(r)' <=> Holding(r) /\ readerSeq[r] = s
  <2>1. CASE Holding(r) /\ readerSeq[r] = s
    BY <1>1, <1>2, <1>4, <1>5, <1>6, <1>7, <2>1 DEF Holding
  <2>2. CASE Holding(r) /\ readerSeq[r] + 1 = s
    <3>1. Par(readerSeq[r]) = o
      BY <1>1, <1>5, <2>2, ParNext, ParType
    <3>2. r \in Victims(rw')
      BY <1>3, <1>7, <2>2, <3>1, GoodLock DEF Holding, Victims, Valid
    <3> QED
      BY <1>2, <1>5, <2>2, <3>2 DEF Holding
  <2>3. CASE ~Holding(r)
    BY <1>2, <1>7, <2>3 DEF Holding
  <2> QED
    BY <1>1, <2>1, <2>2, <2>3 DEF IInv, HolderInv
<1>8. \A r \in Readers : Holding(r)' <=> Holding(r) /\ readerSeq[r] = s
  BY <1>4, <1>7 DEF Holding
<1>9. Counted(o)' = {} /\ Counted(1 - o)' = Counted(1 - o)
  <2>1. ASSUME NEW r \in Readers, readerSeq[r] = s PROVE Par(readerSeq[r]) # o
    BY <1>1, <2>1, ParType
  <2>2. ASSUME NEW r \in Readers, Holding(r), Par(readerSeq[r]) = 1 - o
        PROVE  readerSeq[r] = s
    BY <1>1, <1>5, <2>2, ParNext, ParType DEF IInv, HolderInv
  <2> QED
    BY <1>5, <1>8, <2>1, <2>2 DEF Counted
<1>10. \A p \in 0..1 : ~Marked(p) /\ ~Marked(p)'
  BY <1>2 DEF Marked
<1>11. CountInv'
  <2>1. Cardinality(Counted(o)') = 0
    BY <1>9, FS_EmptySet
  <2>2. rw'.cnt[1 - o] = Cardinality(Counted(1 - o)')
    BY <1>1, <1>3, <1>9, <1>10 DEF IInv, CountInv
  <2> QED
    BY <1>1, <1>3, <1>10, <2>1, <2>2 DEF CountInv
<1>12. HolderInv'
  BY <1>2, <1>3, <1>5, <1>8 DEF HolderInv
<1>13. KilledInv'
  BY <1>1, <1>2, <1>3, <1>4, <1>5, <1>6 DEF IInv, KilledInv
<1>14. WriterInv'
  BY <1>1, <1>2, <1>3 DEF IInv, WriterInv
<1>15. ShutInv'
  BY <1>2, <1>4, <1>8 DEF IInv, ShutInv
<1> QED
  BY <1>4, <1>11, <1>12, <1>13, <1>14, <1>15 DEF IInv

LEMMA ClosedStep ==
  ASSUME TypeInv, TypeInv', IInv, FullClosed
  PROVE  IInv'
<1>1. PICK s \in Nat, h \in 0..1 :
        s = rw.seq /\ h = Par(s) /\ Par(s + 1) = 1 - h
  BY ReaderLockAssumption, ParType, ParNext DEF TypeInv, TypeOK, Word
<1>2. /\ rw' = Close(rw) /\ wpc = "close" /\ wpc' = "drain"
      /\ UNCHANGED <<killed, reclaimed>> /\ UNCHANGED readers
  BY DEF FullClosed, TypeInv, WriterType
<1>3. rw'.seq = s + 1 /\ rw'.cnt[1 - h] = Full /\ rw'.cnt[h] = rw.cnt[h]
  BY <1>1, <1>2 DEF Close, TypeInv, TypeOK, Word
<1>4. /\ Phases' /\ JobInv' /\ XchgInv' /\ BirthInv'
      /\ \A r \in Readers : Occupied(r)' <=> Occupied(r)
      /\ \A r \in Readers : GivesUp(r)' <=> GivesUp(r)
  BY <1>1, <1>2, <1>3, WriterFrame
<1>5. /\ \A r \in Readers : Holding(r)' <=> Holding(r)
      /\ UNCHANGED readerSeq
  BY <1>2, <1>4 DEF Holding, readers
<1>6. \A p \in 0..1 : /\ Counted(p)' = Counted(p)
                      /\ ~Marked(p) /\ (Marked(p)' <=> p = 1 - h)
  BY <1>1, <1>2, <1>3, <1>5 DEF Counted, Marked
<1>7. CountInv'
  BY <1>1, <1>3, <1>6 DEF IInv, CountInv
<1>8. HolderInv' /\ KilledInv'
  BY <1>1, <1>2, <1>3, <1>4, <1>5 DEF IInv, HolderInv, KilledInv, TypeInv, TypeOK
<1>9. WriterInv'
  BY <1>1, <1>2, <1>3, ReaderLockAssumption DEF IInv, WriterInv, TypeInv, TypeOK
<1>10. ShutInv'
  BY <1>2 DEF ShutInv
<1> QED
  BY <1>4, <1>7, <1>8, <1>9, <1>10 DEF IInv

\* Sealing the set, at once or by force, leaves no good lock.
LEMMA SealStep ==
  ASSUME TypeInv, TypeInv', IInv, FullSeal \/ FullForce
  PROVE  IInv'
<1>1. PICK s \in Nat, n \in Nat :
        /\ s = rw.seq /\ rw' = Shut(n)
        /\ (FullSeal /\ n = s) \/ (FullForce /\ n = s + 1)
  <2>1. rw.seq \in Nat
    BY ReaderLockAssumption DEF TypeInv, TypeOK, Word
  <2>2. CASE FullSeal
    BY <2>1, <2>2 DEF FullSeal
  <2>3. CASE FullForce
    <3>1. rw' = Shut(rw.seq + 1)
      BY <2>3 DEF FullForce, TypeInv, WriterType
    <3> QED
      BY <2>1, <2>3, <3>1
  <2> QED
    BY <2>2, <2>3
<1>2. /\ rw'.seq = n /\ \A p \in 0..1 : rw'.cnt[p] = Full
      /\ wpc' = "revert" /\ reclaimed' = reclaimed /\ UNCHANGED readers
  BY <1>1 DEF Shut, FullSeal, FullForce
<1>3. /\ Phases' /\ JobInv' /\ XchgInv' /\ BirthInv'
      /\ \A r \in Readers : Occupied(r)' <=> Occupied(r)
      /\ \A r \in Readers : GivesUp(r)' <=> GivesUp(r)
  BY <1>1, <1>2, WriterFrame
<1>4. UNCHANGED readerSeq /\ readerSeq \in [Readers -> Nat]
  BY <1>2, ReaderLockAssumption DEF readers, TypeInv, TypeOK
<1>5. ASSUME NEW r \in Readers, r \in killed', r \notin killed, Occupied(r)
      PROVE  readerSeq[r] + 1 = s /\ n = s + 1
  BY <1>1, <1>5 DEF FullSeal, FullForce, IInv, HolderInv, Holding
<1>6. \A r \in Readers : ~Holding(r)'
  <2>1. CASE FullSeal
    BY <1>3, <2>1 DEF FullSeal, IInv, WriterInv, Holding
  <2>2. CASE FullForce
    <3>1. ASSUME NEW r \in Readers, Holding(r) PROVE r \in Victims(rw')
      <4>1. readerSeq[r] + 1 = s /\ n = s + 1
        BY <1>1, <2>2, <3>1 DEF IInv, HolderInv, FullForce, FullSeal
      <4>2. Valid(rw, readerSeq[r])
        BY <3>1, GoodLock DEF Holding
      <4> QED
        BY <1>2, <1>4, <4>1, <4>2 DEF Victims, Valid
    <3>2. killed' = killed \cup Victims(rw')
      BY <2>2 DEF FullForce
    <3> QED
      BY <1>3, <3>1, <3>2 DEF Holding
  <2> QED
    BY <2>1, <2>2
<1>7. CountInv' /\ HolderInv'
  BY <1>2, <1>6 DEF CountInv, Marked, HolderInv
<1>8. KilledInv'
  <2>1. ASSUME NEW r \in Readers, Occupied(r), r \in killed'
        PROVE  readerSeq[r] + 1 < n
    <3>1. CASE r \in killed
      BY <1>1, <1>4, <2>1, <3>1 DEF IInv, KilledInv, FullSeal, FullForce
    <3>2. CASE r \notin killed
      BY <1>4, <1>5, <2>1, <3>2
    <3> QED
      BY <3>1, <3>2
  <2> QED
    BY <1>2, <1>3, <1>4, <2>1 DEF KilledInv
<1>9. WriterInv'
  BY <1>1, <1>2, ReaderLockAssumption
     DEF IInv, WriterInv, TypeInv, TypeOK, FullSeal, FullForce
<1>10. ShutInv'
  BY <1>6 DEF ShutInv
<1> QED
  BY <1>3, <1>7, <1>8, <1>9, <1>10 DEF IInv

LEMMA FullUnlockStep ==
  ASSUME TypeInv, TypeInv', IInv, FullUnlock
  PROVE  IInv'
<1>1. PICK s \in Nat : s = rw.seq
  BY ReaderLockAssumption DEF TypeInv, TypeOK, Word
<1>2. /\ rw'.seq = s /\ \A p \in 0..1 : rw'.cnt[p] = 0
      /\ wpc = "revert" /\ wpc' = "idle" /\ UNCHANGED <<killed, reclaimed>>
      /\ UNCHANGED readers
  BY <1>1 DEF FullUnlock
<1>3. /\ Phases' /\ JobInv' /\ XchgInv' /\ BirthInv'
      /\ \A r \in Readers : Occupied(r)' <=> Occupied(r)
      /\ \A r \in Readers : GivesUp(r)' <=> GivesUp(r)
  BY <1>1, <1>2, WriterFrame
<1>4. (\A r \in Readers : ~Holding(r)') /\ UNCHANGED readerSeq
  BY <1>2, <1>3 DEF IInv, HolderInv, Holding, readers
<1>5. \A p \in 0..1 : Cardinality(Counted(p)') = 0 /\ ~Marked(p)'
  BY <1>2, <1>4, FS_EmptySet DEF Counted, Marked
<1>6. CountInv' /\ HolderInv'
  BY <1>2, <1>4, <1>5 DEF CountInv, HolderInv
<1>7. KilledInv' /\ WriterInv'
  BY <1>1, <1>2, <1>3, <1>4 DEF IInv, KilledInv, WriterInv
<1>8. ShutInv'
  BY <1>4 DEF ShutInv
<1> QED
  BY <1>3, <1>6, <1>7, <1>8 DEF IInv

-----------------------------------------------------------------------------
(* The invariant, and what it gives.                                        *)

LEMMA InitInv == Init => IInv
<1> SUFFICES ASSUME Init PROVE IInv
  OBVIOUS
<1>1. \A r \in Readers : ~Occupied(r) /\ ~Holding(r)
  BY DEF Init, Occupied, Holding, Reading
<1>2. \A p \in 0..1 : Cardinality(Counted(p)) = 0 /\ ~Marked(p)
  BY <1>1, FS_EmptySet DEF Counted, Marked, Init
<1>3. CountInv /\ HolderInv /\ KilledInv /\ BirthInv
  BY <1>1, <1>2 DEF CountInv, HolderInv, KilledInv, BirthInv, Init
<1> QED
  <2>1. Phases /\ JobInv
    BY DEF Phases, JobInv, Init, Readers
  <2>2. XchgInv /\ ShutInv /\ WriterInv
    BY <1>1 DEF XchgInv, ShutInv, WriterInv, Init
  <2> QED
    BY <1>3, <2>1, <2>2 DEF IInv

LEMMA NextInv ==
  ASSUME TypeInv, TypeInv', IInv, [Next]_vars, [~Miscount]_vars
  PROVE  IInv'
<1>1. ASSUME NEW r \in Readers, Progress(r), ~Miscount PROVE IInv'
  <2>1. CASE LockTaken(r)
    BY <2>1, TakenStep
  <2>2. CASE UnlockDone(r)
    BY <1>1, <2>2, DoneStep
  <2>3. CASE UnlockStay(r) \/ UnlockLost(r)
    BY <2>3, UnlockEnds
  <2>4. CASE EnterKeeped(r) \/ LockLoad(r) \/ LockRetry(r) \/ UnlockLoad(r)
             \/ UnlockRetry(r)
    BY <2>4, LocalStep
  <2>5. CASE r \in Getters /\ SearchStep(r)
    BY <2>5, SearchKeeps
  <2>6. CASE r \in Dumpers /\ (DumpEnd(r) \/ CondStep(r))
    <3>1. ~CondDone(r)
      BY <1>1 DEF Miscount
    <3> QED
      BY <2>6, <3>1, DumpKeeps DEF CondStep
  <2> QED
    BY <1>1, <2>1, <2>2, <2>3, <2>4, <2>5, <2>6 DEF Progress, LockStep, UnlockStep
<1>2. ASSUME NEW g \in Getters, BeginGet(g) PROVE IInv'
  <2>1. g \in Readers /\ g \notin Dumpers /\ MaxKeys \in Nat
    BY ReaderLockAssumption DEF Readers
  <2>2. PICK n \in 1..MaxKeys, d \in BOOLEAN :
          job' = [job EXCEPT ![g] = KeyJob(n, d)] /\ keep' = [keep EXCEPT ![g] = n > 1]
    BY <1>2 DEF BeginGet
  <2>3. pc[g] = "idle" /\ ~keeped[g] /\ xchg[g] = NoXchg
    BY <1>2, <2>1 DEF BeginGet, IInv, JobInv, XchgInv, Unlocking
  <2>4. CountersInv'
    BY <1>2, <2>1, <2>3, QuietStep
       DEF BeginGet, Occupied, Holding, Reading, writer, TypeInv, TypeOK
  <2>5. JobInv'
    BY <1>2, <2>1, <2>2, <2>3
       DEF BeginGet, IInv, JobInv, KeyJob, TypeInv, TypeOK
  <2>6. Phases' /\ XchgInv' /\ ShutInv'
    BY <1>2, <2>1, <2>3
       DEF BeginGet, IInv, Phases, XchgInv, ShutInv, GivesUp, Unlocking, Holding,
           Occupied, writer, TypeInv, TypeOK
  <2> QED
    BY <2>4, <2>5, <2>6 DEF IInv, CountersInv
<1>3. ASSUME NEW d \in Dumpers, BeginDump(d) PROVE IInv'
  <2>1. d \in Readers /\ d \notin Getters
    BY ReaderLockAssumption DEF Readers
  <2>2. pc[d] = "idle" /\ ~keeped[d] /\ xchg[d] = NoXchg
    BY <1>3, <2>1 DEF BeginDump, IInv, JobInv, XchgInv, Unlocking
  <2>3. PICK c \in Chains : job' = [job EXCEPT ![d] = ChainJob(c)]
    BY <1>3 DEF BeginDump
  <2>4. CountersInv'
    BY <1>3, <2>1, <2>2, QuietStep
       DEF BeginDump, Occupied, Holding, Reading, writer, TypeInv, TypeOK
  <2>5. JobInv'
    BY <1>3, <2>1, <2>2, <2>3 DEF BeginDump, IInv, JobInv, TypeInv, TypeOK
  <2>6. Phases' /\ XchgInv' /\ ShutInv'
    BY <1>3, <2>1, <2>2
       DEF BeginDump, IInv, Phases, XchgInv, ShutInv, GivesUp, Unlocking, Holding,
           Occupied, writer, TypeInv, TypeOK
  <2> QED
    BY <2>4, <2>5, <2>6 DEF IInv, CountersInv
<1>4. ASSUME WriterProgress \/ FullLoad
             \/ \E c \in Chains \cup {NoDeletion} : MarkDelete(c)
      PROVE  IInv'
  BY <1>4, WriterQuiet, NextSequenceStep, ClearStep, ClosedStep, SealStep,
     FullUnlockStep DEF WriterProgress, WaitStep, FullStep
<1>5. ASSUME UNCHANGED vars PROVE IInv'
  BY <1>5 DEF vars, local, writer, IInv, Phases, JobInv, XchgInv, CountInv, Marked,
     Counted, Holding, Occupied, HolderInv, ShutInv, GivesUp, KilledInv, BirthInv, WriterInv
<1> QED
  BY <1>1, <1>2, <1>3, <1>4, <1>5 DEF Next, Finished

\* The reader lock works as the invariant says, for any number of getters and
\* dumpers, with kept locks and reverts, until the first step that counts
\* wrong: the retry of lck_readerUnlock (locks.c), the second unlock of
\* dump_hash_chain (index.c) or the exchange of lck_readerUnlockCond.
THEOREM InvariantHolds == Spec /\ [][~Miscount]_vars => [](TypeInv /\ IInv)
<1>1. Init => TypeInv /\ IInv
  BY InitType, InitInv
<1>2. (TypeInv /\ IInv) /\ [Next]_vars /\ [~Miscount]_vars => (TypeInv /\ IInv)'
  BY NextType, NextInv
<1> QED
  BY <1>1, <1>2, PTL DEF Spec

\* lck_waitForReaders never meets a full counter, as long as no step has
\* counted wrong: what GraceSafetyHolds asks for is then given.
THEOREM NotFullHolds == Spec /\ [][~Miscount]_vars => []NotFull
<1>1. TypeInv /\ IInv => NotFull
  <2> SUFFICES ASSUME TypeInv, IInv, wpc = "incr"
               PROVE  rw.cnt[Par(rw.seq)] # Full
    BY DEF NotFull
  <2>1. Par(rw.seq) \in 0..1 /\ Full \in Nat /\ ~Marked(Par(rw.seq))
    BY ReaderLockAssumption, ParType DEF TypeInv, TypeOK, Word, Marked
  <2>2. rw.cnt[Par(rw.seq)] < Full /\ rw.cnt[Par(rw.seq)] \in Nat
    BY <2>1, CounterValue DEF TypeInv, TypeOK, Word
  <2> QED
    BY <2>1, <2>2
<1> QED
  BY <1>1, InvariantHolds, PTL

\* While the set is reverted no reader is in it (lck_fullReaderLock), as long
\* as no step has counted wrong.
THEOREM FullExclusionHolds == Spec /\ [][~Miscount]_vars => []FullExclusion
<1>1. TypeInv /\ IInv => FullExclusion
  <2> SUFFICES ASSUME TypeInv, IInv, wpc = "revert",
                      NEW r \in Readers, Trusting(r)
               PROVE  FALSE
    BY DEF FullExclusion
  <2>1. Occupied(r) /\ r \notin killed
    BY GoodLock DEF Trusting, Occupied
  <2> QED
    BY <2>1 DEF Holding, IInv, HolderInv
<1> QED
  BY <1>1, InvariantHolds, PTL

\* A reader finds its lock destroyed only if a timeout took it away
\* (lck_readerUnlock), as long as no step has counted wrong.
THEOREM LostOnlyByTimeoutHolds == Spec /\ [][~Miscount]_vars => []LostOnlyByTimeout
<1>1. TypeInv /\ IInv => LostOnlyByTimeout
  BY GoodLock DEF LostOnlyByTimeout, Trusting, Occupied
<1> QED
  BY <1>1, InvariantHolds, PTL

\* A counter is the number of readers with a good lock of its parity, so a
\* wait ends with the last of them (lck_readerLock, lck_readerUnlock), as long
\* as no step has counted wrong.
THEOREM CountsExactHolds == Spec /\ [][~Miscount]_vars => []CountsExact
<1>1. TypeInv /\ IInv => CountsExact
  BY DEF CountsExact, IInv, CountInv, Counted
<1> QED
  BY <1>1, InvariantHolds, PTL

-----------------------------------------------------------------------------
(* The refinement: every step of the counters enters or leaves a section,   *)
(* begins or ends a wait, takes the locks of those waited for away, or      *)
(* changes nothing that ReadSections sees.                                  *)

\* What the map to ReadSections is when the invariant holds: the lock of a
\* section is good unless a timeout took it away, and the readers waited for
\* are those with a good lock of the old sequence.
MapInv ==
  /\ Section = [r \in Readers |-> IF ~Occupied(r) THEN "out"
                                  ELSE IF r \in killed THEN "lost" ELSE "in"]
  /\ Waited = IF Mode \in {"wait", "closing"}
              THEN {r \in Readers : Holding(r) /\ readerSeq[r] # rw.seq} ELSE {}

LEMMA MapHolds == TypeInv /\ IInv => MapInv
<1> SUFFICES ASSUME TypeInv, IInv PROVE MapInv
  OBVIOUS
<1>1. \A r \in Readers : Occupied(r) => (Valid(rw, readerSeq[r]) <=> r \notin killed)
  BY GoodLock
<1>2. \A r \in Readers : Section[r] = IF ~Occupied(r) THEN "out"
                                      ELSE IF r \in killed THEN "lost" ELSE "in"
  BY <1>1 DEF Section
<1>3. Section = [r \in Readers |-> IF ~Occupied(r) THEN "out"
                                   ELSE IF r \in killed THEN "lost" ELSE "in"]
  BY <1>1 DEF Section
<1>4. {r \in Readers : Section[r] = "in" /\ readerSeq[r] # rw.seq}
        = {r \in Readers : Holding(r) /\ readerSeq[r] # rw.seq}
  BY <1>2 DEF Holding
<1> QED
  BY <1>3, <1>4 DEF MapInv, Waited

\* What ReadSections sees after a step.
LEMMA MapNext == TypeInv' /\ IInv' => MapInv'
BY MapHolds, PTL

-----------------------------------------------------------------------------
(* Steps of readers.                                                        *)

\* A step of one reader that leaves the writer alone: what ReadSections sees of
\* the others does not change.
LEMMA OneReader ==
  ASSUME MapInv, MapInv', NEW r \in Readers,
         wpc' = wpc, rw'.seq = rw.seq, killed' \subseteq killed,
         \A q \in Readers \ {r} :
           /\ Occupied(q)' <=> Occupied(q)
           /\ readerSeq'[q] = readerSeq[q] /\ (q \in killed' <=> q \in killed)
  PROVE  /\ Mode' = Mode
         /\ Section' = [Section EXCEPT ![r] = Section'[r]]
         /\ \A q \in Readers \ {r} : q \in Waited' <=> q \in Waited
         /\ Section[r] = IF ~Occupied(r) THEN "out"
                         ELSE IF r \in killed THEN "lost" ELSE "in"
         /\ Section'[r] = IF ~Occupied(r)' THEN "out"
                          ELSE IF r \in killed' THEN "lost" ELSE "in"
         /\ r \in Waited <=> /\ Mode \in {"wait", "closing"}
                             /\ Holding(r) /\ readerSeq[r] # rw.seq
         /\ r \in Waited' <=> /\ Mode \in {"wait", "closing"}
                              /\ Holding(r)' /\ readerSeq'[r] # rw.seq
         /\ Waited \subseteq Readers /\ Waited' \subseteq Readers
<1>1. Mode' = Mode
  BY DEF Mode
<1>2. \A q \in Readers \ {r} : Section'[q] = Section[q]
  BY DEF MapInv
<1>3. Section' = [Section EXCEPT ![r] = Section'[r]]
  BY <1>2 DEF MapInv
<1>4. \A q \in Readers \ {r} : Holding(q)' <=> Holding(q)
  BY DEF Holding
<1>5. \A q \in Readers \ {r} : q \in Waited' <=> q \in Waited
  BY <1>1, <1>4 DEF MapInv
<1> QED
  BY <1>1, <1>3, <1>5 DEF MapInv

\* The section of the reader stays what it is.
LEMMA StaysSame ==
  ASSUME MapInv, MapInv', NEW r \in Readers,
         UNCHANGED <<rw, wpc, killed, readerSeq>>,
         \A q \in Readers \ {r} : Occupied(q)' <=> Occupied(q),
         Occupied(r)' <=> Occupied(r)
  PROVE  UNCHANGED Sections!vars
<1>1. (Holding(r)' <=> Holding(r)) /\ Mode' = Mode
  BY DEF Holding, Mode
<1>2. Section' = Section
  BY DEF MapInv
<1>3. \A q \in Readers : Holding(q)' <=> Holding(q)
  BY DEF Holding
<1>4. Waited' = Waited
  BY <1>1, <1>3 DEF MapInv
<1> QED
  BY <1>1, <1>2, <1>4 DEF Sections!vars

\* A reader that has lost its lock leaves.
LEMMA LosesSection ==
  ASSUME MapInv, MapInv', NEW r \in Readers,
         UNCHANGED <<rw, wpc, killed, readerSeq>>,
         \A q \in Readers \ {r} : Occupied(q)' <=> Occupied(q),
         Occupied(r), ~Occupied(r)', r \in killed
  PROVE  Sections!Leave(r)
<1>1. /\ Mode' = Mode /\ Section' = [Section EXCEPT ![r] = Section'[r]]
      /\ \A q \in Readers \ {r} : q \in Waited' <=> q \in Waited
      /\ Section[r] = "lost" /\ Section'[r] = "out"
      /\ r \notin Waited /\ r \notin Waited'
      /\ Waited \subseteq Readers /\ Waited' \subseteq Readers
  BY OneReader DEF Holding
<1>2. Waited' = Waited \ {r}
  BY <1>1
<1> QED
  BY <1>1, <1>2 DEF Sections!Leave

\* lck_readerLock: the exchange that counts the reader is where it enters.
LEMMA TakenMaps ==
  ASSUME TypeInv, IInv, IInv', MapInv, MapInv',
         NEW r \in Readers, LockTaken(r)
  PROVE  Sections!Enter(r)
<1>1. /\ pc[r] = "enter" /\ ~keeped[r] /\ wpc' = wpc /\ killed' = killed \ {r}
      /\ ~Closed(rw) /\ rw.seq \in Nat /\ rw'.seq = rw.seq
      /\ Body(r) \in {"search", "dump"} /\ pc' = [pc EXCEPT ![r] = Body(r)] /\ keeped' = keeped
      /\ readerSeq' = [readerSeq EXCEPT ![r] = rw.seq]
  BY EnterType, ReaderLockAssumption
     DEF LockTaken, IInv, XchgInv, local, writer, Body,
         TypeInv, TypeOK, Word
<1>2. \A q \in Readers \ {r} :
        /\ Occupied(q)' <=> Occupied(q)
        /\ readerSeq'[q] = readerSeq[q] /\ (q \in killed' <=> q \in killed)
  BY <1>1 DEF Occupied, TypeInv, TypeOK
<1>3. ~Occupied(r) /\ Occupied(r)' /\ r \notin killed' /\ readerSeq'[r] = rw.seq
  BY <1>1 DEF Occupied, Reading, TypeInv, TypeOK
<1>4. /\ Mode' = Mode /\ Section' = [Section EXCEPT ![r] = Section'[r]]
      /\ \A q \in Readers \ {r} : q \in Waited' <=> q \in Waited
      /\ Section[r] = "out" /\ Section'[r] = "in"
      /\ r \notin Waited /\ r \notin Waited'
      /\ Waited \subseteq Readers /\ Waited' \subseteq Readers
  BY <1>1, <1>2, <1>3, OneReader DEF Holding
<1>5. Waited' = Waited
  BY <1>4
<1>6. ~Marked(Par(rw.seq))
  BY <1>1, ParType DEF IInv, CountInv, Closed
<1>7. Mode \in {"open", "wait"}
  BY <1>6 DEF Marked, Mode
<1> QED
  BY <1>4, <1>5, <1>7 DEF Sections!Enter

\* lck_readerUnlock: the exchange that uncounts the reader is where it leaves,
\* or, when it keeps its lock, where it goes over to a new section.
LEMMA DoneMaps ==
  ASSUME TypeInv, TypeInv', IInv, IInv', MapInv, MapInv',
         NEW r \in Readers, UnlockDone(r), ~Miscount
  PROVE  Sections!Leave(r) \/ Sections!Renew(r)
<1>1. PICK kd \in BOOLEAN :
        /\ kd  => /\ keep[r] /\ readerSeq[r] + 1 = rw.seq /\ ~Closed(rw)
                 /\ rw' = Switch(rw, readerSeq[r])
        /\ ~kd => rw' = Leave(rw, readerSeq[r])
        /\ pc[r] = "last" => kd
        /\ Unlocked(r, TRUE, kd)
  BY DoneKinds
<1>2. rw \in Word /\ readerSeq[r] \in Nat /\ readerSeq[r] \in 0..MaxSeq
  BY ReaderLockAssumption DEF TypeInv, TypeOK
<1>3. rw'.seq = rw.seq
  BY <1>1, <1>2, SwitchType, LeaveType
<1>4. Occupied(r) /\ r \notin killed
  BY StillValid DEF UnlockDone
<1>5. /\ UNCHANGED <<wpc, killed>>
      /\ readerSeq' = [readerSeq EXCEPT ![r] = rw.seq]
  BY DEF UnlockDone, writer
<1>6. /\ \A q \in Readers \ {r} : Occupied(q)' <=> Occupied(q)
      /\ Occupied(r)' <=> kd
  BY <1>1, AfterUnlock DEF Occupied
<1>7. \A q \in Readers \ {r} :
        /\ Occupied(q)' <=> Occupied(q)
        /\ readerSeq'[q] = readerSeq[q] /\ (q \in killed' <=> q \in killed)
  BY <1>5, <1>6 DEF TypeInv, TypeOK
<1>8. /\ Mode' = Mode /\ Section' = [Section EXCEPT ![r] = Section'[r]]
      /\ \A q \in Readers \ {r} : q \in Waited' <=> q \in Waited
      /\ Section[r] = "in" /\ Section'[r] = IF Occupied(r)' THEN "in" ELSE "out"
      /\ r \notin Waited'
      /\ Waited \subseteq Readers /\ Waited' \subseteq Readers
      /\ Section \in [Readers -> {"out", "in", "lost"}]
  <2>1. readerSeq'[r] = rw.seq
    BY <1>5 DEF TypeInv, TypeOK
  <2>2. Section \in [Readers -> {"out", "in", "lost"}]
    BY DEF MapInv
  <2> QED
    BY <1>3, <1>4, <1>5, <1>7, <2>1, <2>2, OneReader
<1>9. Waited' = Waited \ {r}
  BY <1>8
<1>10. CASE ~Occupied(r)'
  BY <1>8, <1>9, <1>10 DEF Sections!Leave
<1>11. CASE Occupied(r)'
  <2>1. Section' = Section
    BY <1>8, <1>11
  <2>2. ~Closed(rw)
    BY <1>1, <1>6, <1>11
  <2>3. ~Marked(Par(rw.seq))
    BY <1>2, <2>2, ParType DEF IInv, CountInv, Closed, Word
  <2>4. Mode \in {"open", "wait"}
    BY <2>3 DEF Marked, Mode
  <2> QED
    BY <1>8, <1>9, <2>1, <2>4 DEF Sections!Renew
<1> QED
  BY <1>10, <1>11

LEMMA ReaderMaps ==
  ASSUME TypeInv, TypeInv', IInv, IInv', MapInv, MapInv',
         NEW r \in Readers, Progress(r), ~Miscount
  PROVE  \/ Sections!Enter(r) \/ Sections!Leave(r) \/ Sections!Renew(r)
         \/ UNCHANGED Sections!vars
<1>1. r \in Getters => r \notin Dumpers
  BY ReaderLockAssumption
<1>2. ASSUME UNCHANGED <<rw, wpc, killed, readerSeq>>,
             \A q \in Readers \ {r} : pc'[q] = pc[q] /\ keeped'[q] = keeped[q],
             Occupied(r) => Occupied(r)' \/ r \in killed,
             Occupied(r)' => Occupied(r)
      PROVE  Sections!Leave(r) \/ UNCHANGED Sections!vars
  <2>1. \A q \in Readers \ {r} : Occupied(q)' <=> Occupied(q)
    BY <1>2 DEF Occupied
  <2> QED
    BY <1>2, <2>1, StaysSame, LosesSection
<1>3. CASE LockTaken(r)
  BY <1>3, TakenMaps
<1>4. CASE UnlockDone(r)
  BY <1>4, DoneMaps
<1>5. CASE UnlockStay(r) \/ UnlockLost(r)
  <2>1. PICK kd \in BOOLEAN :
          /\ Unlocked(r, kd, kd)
          /\ kd => keep[r] /\ Valid(rw, readerSeq[r])
          /\ ~kd => ~Valid(rw, readerSeq[r])
    BY <1>5 DEF UnlockStay, UnlockLost
  <2>2. pc[r] \in Unlocking
    BY <1>5 DEF UnlockStay, UnlockLost, Loads, Stores
  <2>3. /\ \A q \in Readers \ {r} : pc'[q] = pc[q] /\ keeped'[q] = keeped[q]
        /\ Occupied(r)' <=> kd
    BY <2>1, AfterUnlock
  <2>4. Occupied(r) /\ (r \in killed <=> ~kd)
    BY <2>1, <2>2, GoodLock DEF Occupied, Reading, Unlocking
  <2>5. UNCHANGED <<rw, wpc, killed, readerSeq>>
    BY <1>5 DEF UnlockStay, UnlockLost, writer
  <2> QED
    BY <1>2, <2>3, <2>4, <2>5
<1>6. CASE SearchAgain(r) \/ SearchOutside(r) \/ CondLost(r)
  <2>1. Occupied(r) /\ r \in killed
    BY <1>6, GoodLock DEF SearchAgain, SearchOutside, CondLost, Occupied, Reading
  <2>2. \A q \in Readers \ {r} : pc'[q] = pc[q] /\ keeped'[q] = keeped[q]
    BY <1>6 DEF SearchAgain, SearchOutside, CondLost, DumpAgain, local, TypeInv, TypeOK
  <2>3. UNCHANGED <<rw, wpc, killed, readerSeq>>
    BY <1>6 DEF SearchAgain, SearchOutside, CondLost, writer
  <2> QED
    BY <1>2, <2>1, <2>2, <2>3
<1>7. CASE EnterKeeped(r) \/ LockLoad(r) \/ LockRetry(r) \/ SearchDone(r)
           \/ UnlockLoad(r) \/ UnlockRetry(r)
  <2>1. UNCHANGED <<rw, wpc, killed, readerSeq>>
    BY <1>7 DEF EnterKeeped, LockLoad, LockRetry, SearchDone, UnlockLoad, UnlockRetry,
                writer
  <2>2. \A q \in Readers \ {r} : pc'[q] = pc[q] /\ keeped'[q] = keeped[q]
    BY <1>7 DEF EnterKeeped, LockLoad, LockRetry, SearchDone, UnlockLoad, UnlockRetry,
                local, TypeInv, TypeOK
  <2>3. Occupied(r)' <=> Occupied(r)
    BY <1>7
       DEF EnterKeeped, LockLoad, LockRetry, SearchDone, UnlockLoad, UnlockRetry,
           Loads, Stores, Unlocking, Body, Occupied, Reading, local, TypeInv, TypeOK
  <2> QED
    BY <1>2, <2>1, <2>2, <2>3
<1>8. CASE CondLoad(r) \/ CondRetry(r) \/ DumpEnd(r)
  <2>1. UNCHANGED <<rw, wpc, killed, readerSeq>>
    BY <1>8 DEF CondLoad, CondRetry, DumpEnd, writer
  <2>2. \A q \in Readers \ {r} : pc'[q] = pc[q] /\ keeped'[q] = keeped[q]
    BY <1>8 DEF CondLoad, CondRetry, DumpEnd, local, TypeInv, TypeOK
  <2>3. pc[r] \in Reading /\ pc'[r] \in Reading
    BY <1>8 DEF CondLoad, CondRetry, DumpEnd, Reading, local, TypeInv, TypeOK
  <2> QED
    BY <1>2, <2>1, <2>2, <2>3 DEF Occupied
<1>9. ~CondDone(r)
  BY DEF Miscount
<1> QED
  BY <1>3, <1>4, <1>5, <1>6, <1>7, <1>8, <1>9
     DEF Progress, LockStep, SearchStep, UnlockStep, CondStep

-----------------------------------------------------------------------------
(* Steps of the writer.                                                     *)

\* The readers stay where they are: only the locks taken away are lost.
LEMMA WriterSees ==
  ASSUME TypeInv, TypeInv', IInv, MapInv, MapInv', UNCHANGED readers,
         rw.seq <= rw'.seq, killed \subseteq killed'
  PROVE  /\ \A r \in Readers : Occupied(r)' <=> Occupied(r)
         /\ readerSeq' = readerSeq
         /\ \A r \in Readers : Holding(r)' <=> Holding(r) /\ r \notin killed'
         /\ Section' = [r \in Readers |-> IF Holding(r) /\ r \in killed' THEN "lost"
                                          ELSE Section[r]]
         /\ Sections!Inside = {r \in Readers : Holding(r)}
<1>1. \A r \in Readers : Occupied(r)' <=> Occupied(r)
  BY WriterFrame
<1>2. readerSeq' = readerSeq
  BY DEF readers
<1>3. \A r \in Readers : Holding(r)' <=> Holding(r) /\ r \notin killed'
  BY <1>1 DEF Holding
<1>4. Section' = [r \in Readers |-> IF Holding(r) /\ r \in killed' THEN "lost"
                                    ELSE Section[r]]
  BY <1>1, <1>3 DEF MapInv, Holding
<1>5. Sections!Inside = {r \in Readers : Holding(r)}
  BY DEF Sections!Inside, MapInv, Holding
<1> QED
  BY <1>1, <1>2, <1>3, <1>4, <1>5

\* The ends of a wait, early or late, and the steps around it.
LEMMA WaitMaps ==
  ASSUME TypeInv, TypeInv', IInv, IInv', MapInv, MapInv', WaitStep
  PROVE  \/ Sections!BeginWait \/ Sections!EndWait \/ Sections!Expire
         \/ UNCHANGED Sections!vars
<1>1. rw.seq \in Nat /\ rw \in Word /\ readerSeq \in [Readers -> Nat]
  BY ReaderLockAssumption DEF TypeInv, TypeOK, Word
<1>2. CASE NextSequence
  <2>1. /\ wpc = "incr" /\ rw'.seq = rw.seq + 1 /\ killed' = killed
        /\ wpc' \in {"free", "wait"} /\ UNCHANGED readers
    BY <1>2 DEF NextSequence
  <2>2. /\ readerSeq' = readerSeq
        /\ \A r \in Readers : Holding(r)' <=> Holding(r)
        /\ Section' = Section
        /\ Sections!Inside = {r \in Readers : Holding(r)}
    BY <1>1, <2>1, WriterSees DEF MapInv, Holding
  <2>3. \A r \in Readers : Holding(r) => readerSeq[r] # rw'.seq
    BY <1>1, <2>1 DEF IInv, HolderInv
  <2>4. Waited' = Sections!Inside /\ Mode = "open" /\ Mode' = "wait"
    BY <2>1, <2>2, <2>3 DEF MapInv, Mode
  <2> QED
    BY <2>2, <2>4 DEF Sections!BeginWait
<1>3. CASE ClearCounter
  <2>1. /\ wpc = "clear" /\ wpc' = "free" /\ rw'.seq = rw.seq
        /\ rw' = Put(rw, OldPar, 0) /\ killed' = killed \cup Victims(rw')
        /\ UNCHANGED readers
    BY <1>3 DEF ClearCounter, Put
  <2>2. /\ readerSeq' = readerSeq
        /\ \A r \in Readers : Holding(r)' <=> Holding(r) /\ r \notin killed'
        /\ Section' = [r \in Readers |-> IF Holding(r) /\ r \in killed' THEN "lost"
                                         ELSE Section[r]]
    BY <1>1, <2>1, WriterSees
  <2>3. Mode = "wait" /\ Mode' = "wait"
    BY <2>1 DEF Mode
  <2>4. Waited = {r \in Readers : Holding(r) /\ readerSeq[r] # rw.seq}
    BY <2>3 DEF MapInv
  <2>5. \A r \in Readers : Holding(r)' => readerSeq[r] = rw.seq
    BY <2>1, <2>2 DEF IInv, HolderInv
  <2>6. ASSUME NEW r \in Readers, Holding(r)
        PROVE  r \in killed' <=> readerSeq[r] # rw.seq
    <3>1. CASE readerSeq[r] # rw.seq
      BY <2>2, <2>5, <2>6, <3>1
    <3>2. CASE readerSeq[r] = rw.seq
      <4>1. Par(rw.seq) \in 0..1 /\ OldPar \in 0..1 /\ OldPar # Par(rw.seq)
        BY <1>1, ParType DEF OldPar
      <4>2. rw'.cnt[Par(rw.seq)] = rw.cnt[Par(rw.seq)]
        BY <1>1, <2>1, <4>1 DEF Put, Word
      <4>3. Valid(rw, readerSeq[r])
        BY <2>6, GoodLock DEF Holding
      <4>4. Valid(rw', readerSeq[r])
        BY <2>1, <3>2, <4>2, <4>3 DEF Valid
      <4> QED
        BY <2>1, <2>6, <3>2, <4>4 DEF Victims, Holding
    <3> QED
      BY <3>1, <3>2
  <2>7. Waited' = {}
    BY <2>1, <2>2, <2>5 DEF MapInv
  <2>8. Section' = [r \in Readers |-> IF r \in Waited THEN "lost" ELSE Section[r]]
    BY <2>2, <2>4, <2>6
  <2> QED
    BY <2>3, <2>7, <2>8 DEF Sections!Expire
<1>4. CASE Reclaim
  <2>1. /\ wpc = "free" /\ wpc' = "idle" /\ UNCHANGED <<rw, killed>>
        /\ UNCHANGED readers
    BY <1>4 DEF Reclaim
  <2>2. Section' = Section
    BY <1>1, <2>1, WriterSees DEF MapInv, Holding
  <2>3. Mode = "wait" /\ Mode' = "open" /\ Waited' = {}
    BY <2>1 DEF Mode, MapInv
  <2>4. Waited = {}
    BY <2>1, <2>3 DEF MapInv, IInv, HolderInv
  <2> QED
    BY <2>2, <2>3, <2>4 DEF Sections!EndWait
<1>5. CASE WaitZero \/ WaitTimeout
  <2>1. /\ wpc = "wait" /\ wpc' \in {"free", "clear"} /\ UNCHANGED <<rw, killed>>
        /\ UNCHANGED readers
    BY <1>5 DEF WaitZero, WaitTimeout
  <2>2. /\ readerSeq' = readerSeq
        /\ \A r \in Readers : Holding(r)' <=> Holding(r)
        /\ Section' = Section
    BY <1>1, <2>1, WriterSees DEF MapInv, Holding
  <2>3. Mode' = Mode /\ Waited' = Waited
    BY <2>1, <2>2 DEF Mode, MapInv
  <2> QED
    BY <2>2, <2>3 DEF Sections!vars
<1> QED
  BY <1>2, <1>3, <1>4, <1>5 DEF WaitStep

\* Shutting everybody out for a revert, and letting them in again.
LEMMA FullMaps ==
  ASSUME TypeInv, TypeInv', IInv, IInv', MapInv, MapInv', FullStep
  PROVE  \/ Sections!BeginClose \/ Sections!EndClose \/ Sections!Open
         \/ Sections!Expire \/ UNCHANGED Sections!vars
<1>1. rw.seq \in Nat /\ readerSeq \in [Readers -> Nat]
  BY ReaderLockAssumption DEF TypeInv, TypeOK, Word
<1>2. CASE FullClosed
  <2>1. /\ wpc = "close" /\ wpc' = "drain" /\ rw'.seq = rw.seq + 1
        /\ killed' = killed /\ UNCHANGED readers
    BY <1>2 DEF FullClosed, TypeInv, WriterType, Close
  <2>2. /\ readerSeq' = readerSeq
        /\ \A r \in Readers : Holding(r)' <=> Holding(r)
        /\ Section' = Section
        /\ Sections!Inside = {r \in Readers : Holding(r)}
    BY <1>1, <2>1, WriterSees DEF MapInv, Holding
  <2>3. \A r \in Readers : Holding(r) => readerSeq[r] # rw'.seq
    BY <1>1, <2>1 DEF IInv, HolderInv
  <2>4. Waited' = Sections!Inside /\ Mode = "open" /\ Mode' = "closing"
    BY <2>1, <2>2, <2>3 DEF MapInv, Mode
  <2> QED
    BY <2>2, <2>4 DEF Sections!BeginClose
<1>3. CASE FullSeal
  <2>1. /\ wpc = "seal" /\ wpc' = "revert" /\ rw'.seq = rw.seq
        /\ killed' = killed /\ UNCHANGED readers
    BY <1>3 DEF FullSeal, Shut
  <2>2. Section' = Section
    BY <1>1, <2>1, WriterSees DEF MapInv, Holding
  <2>3. Mode = "closing" /\ Mode' = "shut" /\ Waited' = {}
    BY <2>1 DEF Mode, MapInv
  <2>4. Waited = {}
    BY <2>1, <2>3 DEF MapInv, IInv, WriterInv
  <2> QED
    BY <2>2, <2>3, <2>4 DEF Sections!EndClose
<1>4. CASE FullForce
  <2>1. /\ wpc = "force" /\ wpc' = "revert" /\ rw'.seq = rw.seq + 1
        /\ killed \subseteq killed' /\ UNCHANGED readers
    BY <1>4 DEF FullForce, TypeInv, WriterType, Shut
  <2>2. /\ \A r \in Readers : Holding(r)' <=> Holding(r) /\ r \notin killed'
        /\ Section' = [r \in Readers |-> IF Holding(r) /\ r \in killed' THEN "lost"
                                         ELSE Section[r]]
    BY <1>1, <2>1, WriterSees
  <2>3. Mode = "closing" /\ Mode' = "shut" /\ Waited' = {}
    BY <2>1 DEF Mode, MapInv
  <2>4. Waited = {r \in Readers : Holding(r)}
    BY <1>1, <2>1, <2>3 DEF MapInv, IInv, HolderInv
  <2>5. \A r \in Readers : ~Holding(r)'
    BY <2>1 DEF IInv, HolderInv
  <2>6. Section' = [r \in Readers |-> IF r \in Waited THEN "lost" ELSE Section[r]]
    BY <2>2, <2>4, <2>5
  <2> QED
    BY <2>3, <2>6 DEF Sections!Expire
<1>5. CASE FullUnlock
  <2>1. /\ wpc = "revert" /\ wpc' = "idle" /\ rw'.seq = rw.seq
        /\ killed' = killed /\ UNCHANGED readers
    BY <1>5 DEF FullUnlock
  <2>2. Section' = Section
    BY <1>1, <2>1, WriterSees DEF MapInv, Holding
  <2>3. Mode = "shut" /\ Mode' = "open" /\ Waited' = {} /\ Waited = {}
    BY <2>1 DEF Mode, MapInv
  <2> QED
    BY <2>2, <2>3 DEF Sections!Open
<1>6. CASE FullRetry \/ DrainZero \/ DrainTimeout
  <2>1. /\ \/ wpc = "close" /\ wpc' = "close"
           \/ wpc = "drain" /\ wpc' \in {"seal", "force"}
        /\ UNCHANGED <<rw, killed>> /\ UNCHANGED readers
    BY <1>6 DEF FullRetry, DrainZero, DrainTimeout
  <2>2. /\ readerSeq' = readerSeq
        /\ \A r \in Readers : Holding(r)' <=> Holding(r)
        /\ Section' = Section
    BY <1>1, <2>1, WriterSees DEF MapInv, Holding
  <2>3. Mode' = Mode /\ Waited' = Waited
    BY <2>1, <2>2 DEF Mode, MapInv
  <2> QED
    BY <2>2, <2>3 DEF Sections!vars
<1> QED
  BY <1>2, <1>3, <1>4, <1>5, <1>6 DEF FullStep

-----------------------------------------------------------------------------
LEMMA NextMaps ==
  ASSUME TypeInv, TypeInv', IInv, IInv', MapInv, MapInv',
         [Next]_vars, [~Miscount]_vars
  PROVE  [Sections!Next]_(Sections!vars)
<1>1. ASSUME NEW r \in Readers, Progress(r), ~Miscount PROVE [Sections!Next]_(Sections!vars)
  BY <1>1, ReaderMaps DEF Sections!Next
<1>2. ASSUME NEW g \in Readers, BeginGet(g) \/ BeginDump(g)
      PROVE  UNCHANGED Sections!vars
  <2>1. g \in Readers /\ pc[g] = "idle" /\ ~keeped[g]
    BY <1>2 DEF BeginGet, BeginDump, IInv, JobInv
  <2>2. /\ UNCHANGED <<rw, wpc, killed, readerSeq, keeped>>
        /\ pc' = [pc EXCEPT ![g] = "enter"]
    BY <1>2 DEF BeginGet, BeginDump, writer
  <2>3. \A q \in Readers : Occupied(q)' <=> Occupied(q)
    BY <2>1, <2>2 DEF Occupied, Reading, TypeInv, TypeOK
  <2> QED
    BY <2>1, <2>2, <2>3, StaysSame
<1>3. ASSUME FullLoad \/ \E c \in Chains \cup {NoDeletion} : MarkDelete(c)
      PROVE  UNCHANGED Sections!vars
  <2>1. /\ wpc = "idle" /\ wpc' \in {"incr", "close"}
        /\ UNCHANGED <<rw, killed, pc, keeped, readerSeq>>
    BY <1>3 DEF FullLoad, MarkDelete, readers, local
  <2>2. \A q \in Readers : Occupied(q)' <=> Occupied(q)
    BY <2>1 DEF Occupied
  <2>3. Section' = Section /\ Mode = "open" /\ Mode' = "open"
    BY <2>1, <2>2 DEF MapInv, Mode
  <2>4. Waited' = Waited
    BY <2>3 DEF MapInv
  <2> QED
    BY <2>3, <2>4 DEF Sections!vars
<1>4. ASSUME WriterProgress PROVE [Sections!Next]_(Sections!vars)
  BY <1>4, WaitMaps, FullMaps DEF WriterProgress, Sections!Next
<1>5. ASSUME UNCHANGED vars PROVE UNCHANGED Sections!vars
  <2>1. UNCHANGED <<rw, wpc, killed, pc, keeped, readerSeq>>
    BY <1>5 DEF vars, local, writer
  <2> QED
    BY <2>1 DEF Sections!vars, Section, Mode, Waited, Occupied, Valid
<1> QED
  BY <1>1, <1>2, <1>3, <1>4, <1>5 DEF Next, Finished, Readers

\* Every behaviour of the counters, the waits and their timeouts (locks.c) is
\* one that ReadSections allows: nobody enters a closed set, a wait ends when
\* exactly those who were in at its beginning have left, renewed or lost
\* their locks, and nobody else loses one.  This is so, with dumpers, kept
\* locks and reverts, until a step counts wrong.
THEOREM KeepsPromiseHolds == Spec /\ [][~Miscount]_vars => KeepsPromise
<1>1. Init => Sections!Init
  <2> SUFFICES ASSUME Init PROVE Sections!Init
    OBVIOUS
  <2>1. \A r \in Readers : ~Occupied(r)
    BY DEF Init, Occupied, Reading
  <2>2. Mode = "open" /\ Section = [r \in Readers |-> "out"]
    BY <2>1 DEF Mode, Section, Init
  <2> QED
    BY <2>2 DEF Sections!Init, Waited
<1>2. (TypeInv /\ IInv) /\ (TypeInv /\ IInv)' /\ [Next]_vars /\ [~Miscount]_vars
        => [Sections!Next]_(Sections!vars)
  BY MapHolds, MapNext, NextMaps
<1> QED
  BY <1>1, <1>2, InvariantHolds, PTL DEF Spec, KeepsPromise, Sections!Spec
=============================================================================
