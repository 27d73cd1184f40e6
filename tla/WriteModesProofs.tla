-------------------------- MODULE WriteModesProofs --------------------------
(***************************************************************************)
(* Theorems about the modes in which threads change a set together, for    *)
(* any threads, processes, keys and words.                                 *)
(*   ShExLock: an owner is alone and the count of the others exact.        *)
(*   ChainLock: the locks of the chains do what they are for in the pairs  *)
(* whose bit an unsigned can hold, and who has the set exclusively finds   *)
(* none of them taken.                                                     *)
(*   ProtectLock: a write call is inside only beside its own owner.        *)
(*   WriteModes does what its two modes do, so that all of this holds of   *)
(* it.                                                                     *)
(***************************************************************************)
EXTENDS WriteModes, FiniteSetTheorems, TLAPS

-----------------------------------------------------------------------------
(* The shared/exclusive lock.                                               *)

\* The calls that have counted themselves in shared_count.
InOps == {t \in Threads : pc[t] = "op"}

\* Who has put its tid into the word.
OwnerPlaces == {"ex_wait", "held", "own", "deleting"}

\* What makes Exclusive inductive: the word names the one thread that is in an
\* owner's place (it may also be on its way into a write call of its own), a
\* thread about to swap has seen no owner, and past its wait the owner is alone.
ExInv ==
  /\ TypeOK
  /\ CountExact
  /\ \A t \in Threads : pc[t] \in OwnerPlaces => excl = t
  /\ \A t \in Threads : excl = t => pc[t] \in OwnerPlaces \cup {"sh_load"}
  /\ \A t \in Threads :
       pc[t] \in {"sh_cas", "ex_cas", "try_cas"} => seen[t].tid = NoThread
  /\ \A t \in Threads : HasLocked(t) => shared = 0

\* Nobody is counted exactly when nobody is inside.
LEMMA InOpsEmpty ==
  ASSUME ExInv, shared = 0
  PROVE  \A t \in Threads : pc[t] # "op"
<1>1. IsFiniteSet(InOps)
  BY ThreadsAssumption, FS_Subset DEF InOps
<1>2. Cardinality(InOps) = 0
  BY DEF ExInv, CountExact, InOps
<1>3. InOps = {}
  BY <1>1, <1>2, FS_EmptySet
<1> QED
  BY <1>3 DEF InOps

\* A write call that goes in adds one to the number of those inside.
LEMMA CountUp ==
  ASSUME ExInv, NEW t \in Threads, pc[t] # "op", pc' = [pc EXCEPT ![t] = "op"]
  PROVE  Cardinality({u \in Threads : pc'[u] = "op"}) = shared + 1
<1>1. IsFiniteSet(InOps) /\ t \notin InOps
  BY ThreadsAssumption, FS_Subset DEF InOps
<1>2. {u \in Threads : pc'[u] = "op"} = InOps \cup {t}
  BY DEF InOps, ExInv, TypeOK
<1>3. Cardinality(InOps \cup {t}) = Cardinality(InOps) + 1
  BY <1>1, FS_AddElement
<1> QED
  BY <1>2, <1>3 DEF ExInv, CountExact, InOps

\* A write call that leaves takes one away.
LEMMA CountDown ==
  ASSUME ExInv, NEW t \in Threads, pc[t] = "op", NEW q, q # "op",
         pc' = [pc EXCEPT ![t] = q]
  PROVE  /\ Cardinality({u \in Threads : pc'[u] = "op"}) = shared - 1
         /\ shared - 1 \in Nat
<1>1. IsFiniteSet(InOps) /\ t \in InOps
  BY ThreadsAssumption, FS_Subset DEF InOps
<1>2. {u \in Threads : pc'[u] = "op"} = InOps \ {t}
  BY DEF InOps, ExInv, TypeOK
<1>3. Cardinality(InOps \ {t}) = Cardinality(InOps) - 1
  BY <1>1, FS_RemoveElement
<1>4. Cardinality(InOps \ {t}) \in Nat
  BY <1>1, FS_RemoveElement, FS_CardinalityType
<1> QED
  BY <1>2, <1>3, <1>4 DEF ExInv, CountExact, InOps

\* Nothing else changes the number of those inside.
LEMMA CountSame ==
  ASSUME ExInv, NEW t \in Threads, NEW q, q # "op", pc[t] # "op",
         pc' = [pc EXCEPT ![t] = q] \/ pc' = pc, shared' = shared
  PROVE  CountExact'
<1>1. {u \in Threads : pc'[u] = "op"} = {u \in Threads : pc[u] = "op"}
  BY DEF ExInv, TypeOK
<1> QED
  BY <1>1 DEF ExInv, CountExact

LEMMA ExInit == Init => ExInv
<1> SUFFICES ASSUME Init PROVE ExInv
  OBVIOUS
<1>1. {t \in Threads : pc[t] = "op"} = {}
  BY DEF Init
<1>2. CountExact
  BY <1>1, FS_EmptySet DEF CountExact, Init
<1> QED
  BY <1>2, ThreadsAssumption DEF ExInv, Init, TypeOK, Places, Word, OwnerPlaces, HasLocked

\* A step that only moves one thread, and loads the word at most, keeps the
\* invariant when it goes neither into a call nor to an owner's place.
LEMMA CheckKeeps ==
  ASSUME ExInv, NEW t \in Threads,
         pc[t] = "idle", \E n \in {"sh_load", "ex_load", "try_load"} : Check(t, n)
  PROVE  ExInv'
<1>1. PICK q \in {"gone", "sh_load", "ex_load", "try_load"} : pc' = [pc EXCEPT ![t] = q]
  BY DEF Check, Go
<1>2. CountExact'
  BY <1>1, CountSame DEF Check
<1>3. excl # t
  BY DEF ExInv, OwnerPlaces
<1> QED
  BY <1>1, <1>2, <1>3, ThreadsAssumption DEF ExInv, Check, TypeOK, Places, Word, OwnerPlaces, HasLocked

LEMMA LoadKeeps ==
  ASSUME ExInv, NEW t \in Threads,
         ShLoad(t) \/ ExLoad(t) \/ TryLoad(t) \/ ExWait(t)
  PROVE  ExInv'
<1>1. PICK q \in {"own", "sh_cas", "ex_cas", "try_cas", "idle", "held", pc[t]} :
        pc' = [pc EXCEPT ![t] = q] \/ (pc' = pc /\ q = pc[t])
  BY DEF ShLoad, ExLoad, TryLoad, ExWait, Go
<1>2. pc[t] # "op" /\ q # "op" /\ shared' = shared
  BY <1>1 DEF ShLoad, ExLoad, TryLoad, ExWait
<1>3. CountExact'
  BY <1>1, <1>2, CountSame
<1>4. CASE ShLoad(t)
  BY <1>4, <1>3, ThreadsAssumption DEF ShLoad, Go, Load, Now, ExInv, TypeOK, Places, Word, OwnerPlaces, HasLocked
<1>5. CASE ExLoad(t)
  BY <1>5, <1>3, ThreadsAssumption DEF ExLoad, Go, Load, Now, ExInv, TypeOK, Places, Word, OwnerPlaces, HasLocked
<1>6. CASE TryLoad(t)
  BY <1>6, <1>3, ThreadsAssumption DEF TryLoad, Go, Load, Now, ExInv, TypeOK, Places, Word, OwnerPlaces, HasLocked
<1>7. CASE ExWait(t)
  BY <1>7, <1>3, ThreadsAssumption DEF ExWait, Go, Load, Now, ExInv, TypeOK, Places, Word, OwnerPlaces, HasLocked
<1> QED
  BY <1>4, <1>5, <1>6, <1>7

LEMMA ShCasKeeps ==
  ASSUME ExInv, NEW t \in Threads, ShCas(t)
  PROVE  ExInv'
<1>1. CASE seen[t] = Now
  <2>1. excl = NoThread
    BY <1>1 DEF Now, ExInv, ShCas
  <2>2. shared' = shared + 1 /\ pc' = [pc EXCEPT ![t] = "op"]
    BY <1>1 DEF ShCas, Go
  <2>3. CountExact'
    BY <2>2, CountUp DEF ShCas, CountExact
  <2>4. \A u \in Threads : ~HasLocked(u)
    BY <2>1, ThreadsAssumption DEF HasLocked, ExInv, OwnerPlaces
  <2> QED
    BY <1>1, <2>1, <2>2, <2>3, <2>4, ThreadsAssumption
    DEF ShCas, Enters, ExInv, TypeOK, Places, Word, OwnerPlaces, HasLocked
<1>2. CASE seen[t] # Now
  <2>1. CountExact'
    BY <1>2, CountSame DEF ShCas, Go
  <2> QED
    BY <1>2, <2>1, ThreadsAssumption
    DEF ShCas, Go, Load, Now, ExInv, TypeOK, Places, Word, OwnerPlaces, HasLocked
<1> QED
  BY <1>1, <1>2

LEMMA OpEndKeeps ==
  ASSUME ExInv, NEW t \in Threads, OpEnd(t)
  PROVE  ExInv'
<1>1. CASE pc[t] = "op"
  <2>1. excl # t
    BY <1>1 DEF ExInv, OwnerPlaces
  <2>2. shared' = shared - 1 /\ pc' = [pc EXCEPT ![t] = "idle"]
    BY <1>1, <2>1 DEF OpEnd, Go
  <2>3. CountExact' /\ shared' \in Nat
    BY <1>1, <2>2, CountDown DEF CountExact
  <2>4. shared # 0
    BY <1>1, InOpsEmpty
  <2> QED
    BY <1>1, <2>1, <2>2, <2>3, <2>4, ThreadsAssumption
    DEF OpEnd, ExInv, TypeOK, Places, Word, OwnerPlaces, HasLocked
<1>2. CASE pc[t] = "own"
  <2>1. excl = t /\ shared' = shared /\ pc' = [pc EXCEPT ![t] = "held"]
    BY <1>2 DEF OpEnd, Go, ExInv, OwnerPlaces
  <2>2. CountExact'
    BY <1>2, <2>1, CountSame
  <2> QED
    BY <1>2, <2>1, <2>2, ThreadsAssumption
    DEF OpEnd, ExInv, TypeOK, Places, Word, OwnerPlaces, HasLocked
<1> QED
  BY <1>1, <1>2 DEF OpEnd

\* Taking the word: nobody had it, and the taker is alone when the count is 0.
LEMMA TakeKeeps ==
  ASSUME ExInv, NEW t \in Threads, pc[t] \in {"ex_cas", "try_cas"}, TakeWord(t)
  PROVE  ExInv'
<1>1. excl = NoThread
  BY DEF TakeWord, Now, ExInv
<1>2. PICK q \in {"held", "ex_wait"} : pc' = [pc EXCEPT ![t] = q] /\ (q = "held" => shared = 0)
  BY DEF TakeWord, Go
<1>3. CountExact'
  BY <1>2, CountSame DEF TakeWord
<1>4. \A u \in Threads : ~HasLocked(u) /\ pc[u] \notin OwnerPlaces
  BY <1>1, ThreadsAssumption DEF HasLocked, ExInv, OwnerPlaces
<1>5. TypeOK'
  BY <1>2 DEF TakeWord, Enters, ExInv, TypeOK, Places, Word
<1>6. (\A u \in Threads : pc[u] \in OwnerPlaces => excl = u)'
  BY <1>2, <1>4 DEF TakeWord, OwnerPlaces, ExInv, TypeOK
<1>7. (\A u \in Threads : excl = u => pc[u] \in OwnerPlaces \cup {"sh_load"})'
  BY <1>2 DEF TakeWord, OwnerPlaces, ExInv, TypeOK
<1>8. (\A u \in Threads :
        pc[u] \in {"sh_cas", "ex_cas", "try_cas"} => seen[u].tid = NoThread)'
  BY <1>2 DEF TakeWord, ExInv, TypeOK
<1>9. (\A u \in Threads : HasLocked(u) => shared = 0)'
  <2> SUFFICES ASSUME NEW u \in Threads, HasLocked(u)' PROVE shared = 0
    BY DEF TakeWord
  <2>1. CASE u = t
    BY <2>1, <1>2 DEF HasLocked, ExInv, TypeOK
  <2>2. CASE u # t
    BY <2>2, <1>2, <1>4 DEF HasLocked, ExInv, TypeOK, TakeWord, OwnerPlaces
  <2> QED
    BY <2>1, <2>2
<1> QED
  BY <1>3, <1>5, <1>6, <1>7, <1>8, <1>9 DEF ExInv

LEMMA CasKeeps ==
  ASSUME ExInv, NEW t \in Threads, ExCas(t) \/ TryCas(t)
  PROVE  ExInv'
<1>1. CASE TakeWord(t)
  BY <1>1, TakeKeeps DEF ExCas, TryCas
<1>2. CASE ~TakeWord(t)
  <2>1. PICK q \in {"ex_cas", "ex_load", "idle"} : pc' = [pc EXCEPT ![t] = q] /\ pc[t] \in {"ex_cas", "try_cas"}
                          /\ (q = "ex_cas" => seen'[t].tid = NoThread)
    BY <1>2 DEF ExCas, TryCas, Go, Load, Now, ExInv, TypeOK
  <2>2. CountExact'
    BY <1>2, <2>1, CountSame DEF ExCas, TryCas
  <2>3. excl # t
    BY <2>1 DEF ExInv, OwnerPlaces
  <2> QED
    BY <1>2, <2>1, <2>2, <2>3, ThreadsAssumption
    DEF ExCas, TryCas, Load, Now, ExInv, TypeOK, Places, Word, OwnerPlaces, HasLocked
<1> QED
  BY <1>1, <1>2

LEMMA OwnerKeeps ==
  ASSUME ExInv, NEW t \in Threads,
         OwnBegin(t) \/ ExUnlock(t) \/ Delete(t) \/ DeleteUnlock(t)
  PROVE  ExInv'
<1>1. PICK q \in {"sh_load", "idle", "deleting", "gone"} :
        /\ pc' = [pc EXCEPT ![t] = q] /\ pc[t] \in {"held", "deleting"}
        /\ excl' = IF q \in {"idle", "gone"} THEN NoThread ELSE excl
  BY DEF OwnBegin, ExUnlock, Delete, DeleteUnlock, Go
<1>2. excl = t /\ shared = 0 /\ shared' = shared
  BY <1>1 DEF ExInv, OwnerPlaces, HasLocked, OwnBegin, ExUnlock, Delete, DeleteUnlock
<1>3. CountExact'
  BY <1>1, <1>2, CountSame
<1> QED
  BY <1>1, <1>2, <1>3, ThreadsAssumption
  DEF OwnBegin, ExUnlock, Delete, DeleteUnlock, ExInv, TypeOK, Places, Word, OwnerPlaces, HasLocked

LEMMA ExNext == ExInv /\ [Next]_vars => ExInv'
<1> SUFFICES ASSUME ExInv, [Next]_vars PROVE ExInv'
  OBVIOUS
<1>1. CASE UNCHANGED vars
  BY <1>1 DEF vars, ExInv, TypeOK, CountExact, HasLocked
<1>2. ASSUME NEW t \in Threads, Goes(t) PROVE ExInv'
  BY <1>2, LoadKeeps, ShCasKeeps, OpEndKeeps, CasKeeps, OwnerKeeps DEF Goes
<1>3. ASSUME NEW t \in Threads, Calls(t) PROVE ExInv'
  BY <1>3, CheckKeeps, OwnerKeeps DEF Calls, OpBegin, ExBegin, TryBegin
<1> QED
  BY <1>1, <1>2, <1>3 DEF Next

\* Under any number of threads, while one thread has the set locked no other
\* is in a write call and none has it locked too (lck_lock_sh, lck_lock_ex).
THEOREM ExclusiveHolds == Spec => []Exclusive
<1>1. ExInv => Exclusive
  <2> SUFFICES ASSUME ExInv, NEW t \in Threads, NEW u \in Threads, t # u, HasLocked(t)
               PROVE  pc[u] # "op" /\ ~HasLocked(u)
    BY DEF Exclusive
  <2>1. shared = 0 /\ excl = t
    BY DEF ExInv, HasLocked, OwnerPlaces
  <2>2. pc[u] # "op"
    BY <2>1, InOpsEmpty
  <2>3. ~HasLocked(u)
    BY <2>1 DEF ExInv, HasLocked, OwnerPlaces
  <2> QED
    BY <2>2, <2>3
<1> QED
  BY <1>1, ExInit, ExNext, PTL DEF Spec

\* shared_count is the number of write calls inside: none is counted twice and
\* none is counted down that was not counted up (lck_unlock_sh).
THEOREM CountExactHolds == Spec => []CountExact
<1>1. ExInv => CountExact
  BY DEF ExInv
<1> QED
  BY <1>1, ExInit, ExNext, PTL DEF Spec

-----------------------------------------------------------------------------
(* The set in fast mode.                                                    *)

\* Every key is in a pair whose mask is not empty.
AllLocked == \A k \in Keys : PairOf[k][2] < IntBits

\* Who is inside has set the bit.
BitsSet == \A t \in Threads : Inside(t) => Pair(t)[2] \in hash_locks[Pair(t)[1]]

\* What a thread is about to build on is still what the chain is.
SeenFresh ==
  \A t \in Threads :
    at[t] \in {"memory", "write"} =>
      /\ looked[t] = chain[Pair(t)]
      /\ (key[t] \in looked[t]) = (op[t] = "del")

ChainInv ==
  ChainsTypeOK /\ BitsSet /\ Exclusion /\ SeenFresh /\ KeysKept /\ KeysCounted

\* An empty set and no locks.
LEMMA ChainInit == ChainsInit => ChainInv
<1> SUFFICES ASSUME ChainsInit PROVE ChainInv
  OBVIOUS
<1>1. ChainsTypeOK
  <2>1. hash_locks \in [Words -> SUBSET (0 .. WordBits - 1)]
    BY DEF ChainsInit
  <2>2. chain \in [Pairs -> SUBSET Keys] /\ looked \in [Threads -> SUBSET Keys]
    BY DEF ChainsInit
  <2>3. at \in [Threads -> {"idle", "lock", "look", "memory", "write", "finalize", "unlock"}]
    BY DEF ChainsInit
  <2>4. count \in Int /\ calls \in Nat /\ held \subseteq Keys
    BY DEF ChainsInit
  <2>5. memory_lock \in BOOLEAN
    BY Zenon DEF ChainsInit
  <2>6. op \in [Threads -> {"add", "del"}] /\ key \in [Threads -> Keys]
    BY ChainLockAssumption DEF ChainsInit
  <2> QED
    BY <2>1, <2>2, <2>3, <2>4, <2>5, <2>6, Zenon DEF ChainsInit, ChainsTypeOK
<1>2. BitsSet /\ Exclusion /\ SeenFresh
  BY DEF ChainsInit, BitsSet, Exclusion, SeenFresh, Inside
<1>3. KeysKept
  BY DEF ChainsInit, KeysKept
<1>4. KeysCounted
  BY FS_EmptySet DEF ChainsInit, KeysCounted
<1> QED
  BY <1>1, <1>2, <1>3, <1>4 DEF ChainInv

\* The pair of a thread's key.
LEMMA PairType ==
  ASSUME ChainsTypeOK, NEW t \in Threads
  PROVE  /\ Pair(t) \in Pairs /\ Pair(t)[1] \in Words
         /\ Pair(t)[2] \in 0 .. WordBits - 1
         /\ Pair(t) = <<Pair(t)[1], Pair(t)[2]>>
BY ChainLockAssumption DEF ChainsTypeOK, Pair, Pairs

\* Two pairs with the same word and the same bit are one.
LEMMA PairEq ==
  ASSUME ChainsTypeOK, NEW t \in Threads, NEW u \in Threads,
         Pair(t)[1] = Pair(u)[1], Pair(t)[2] = Pair(u)[2]
  PROVE  Pair(t) = Pair(u)
BY PairType

\* Types are kept, whatever the masks.
LEMMA TypeStep == ChainsTypeOK /\ [SetNext]_setVars => ChainsTypeOK'
<1> SUFFICES ASSUME ChainsTypeOK, [SetNext]_setVars PROVE ChainsTypeOK'
  OBVIOUS
<1> USE ChainLockAssumption DEF ChainsTypeOK, Reach
<1>1. ASSUME NEW t \in Threads, NEW o \in {"add", "del"}, NEW k \in Keys, Call(t, o, k)
      PROVE  ChainsTypeOK'
  BY <1>1 DEF Call, set
<1>2. ASSUME NEW t \in Threads, ChainLocked(t) PROVE ChainsTypeOK'
  <2>1. Mask(Pair(t)) \subseteq 0 .. WordBits - 1
    BY PairType DEF Mask
  <2> QED
    BY <1>2, <2>1 DEF ChainLocked, call, set
<1>3. ASSUME NEW t \in Threads, Look(t) PROVE ChainsTypeOK'
  BY <1>3, PairType DEF Look, call, set
<1>4. ASSUME NEW t \in Threads, MemoryLock(t) PROVE ChainsTypeOK'
  BY <1>4 DEF MemoryLock, call, set
<1>5. ASSUME NEW t \in Threads, Write(t) PROVE ChainsTypeOK'
  <2>1. Pair(t) \in Pairs /\ key[t] \in Keys /\ looked[t] \subseteq Keys
    BY PairType
  <2>2. chain' \in [Pairs -> SUBSET Keys] /\ held' \subseteq Keys /\ count' \in Int
    BY <1>5, <2>1 DEF Write
  <2>3. at' \in [Threads -> {"idle", "lock", "look", "memory", "write", "finalize", "unlock"}]
    BY <1>5 DEF Write
  <2> QED
    BY <1>5, <2>2, <2>3, Zenon DEF Write, call
<1>6. ASSUME NEW t \in Threads, Finalize(t) PROVE ChainsTypeOK'
  BY <1>6 DEF Finalize, call, set
<1>7. ASSUME NEW t \in Threads, ChainUnlock(t) PROVE ChainsTypeOK'
  BY <1>7 DEF ChainUnlock, call, set
<1>8. CASE UNCHANGED chains
  BY <1>8 DEF chains, call, set
<1> QED
  BY <1>1, <1>2, <1>3, <1>4, <1>5, <1>6, <1>7, <1>8 DEF SetNext, ChainNext, ChainStep, LockNext, setVars

\* A thread comes inside only when nobody is there with its pair, and leaves
\* the bits of the others alone.
LEMMA LockStep ==
  ASSUME AllLocked, ChainInv, [SetNext]_setVars
  PROVE  BitsSet' /\ Exclusion'
<1> USE DEF ChainInv, BitsSet, Exclusion, Inside, Reach
<1>0. \A t \in Threads : Pair(t)[2] < IntBits
  BY DEF AllLocked, Pair, ChainsTypeOK
<1>1. ASSUME NEW t \in Threads, NEW o \in {"add", "del"}, NEW k \in Keys, Call(t, o, k)
      PROVE  BitsSet' /\ Exclusion'
  BY <1>1 DEF Call, set, Pair, ChainsTypeOK
<1>2. ASSUME NEW t \in Threads, ChainLocked(t) PROVE BitsSet' /\ Exclusion'
  <2>1. Mask(Pair(t)) = {Pair(t)[2]}
    BY <1>0 DEF Mask
  <2>2. \A u \in Threads : Pair(u)' = Pair(u)
    BY <1>2 DEF ChainLocked, call, Pair
  <2>3. \A u \in Threads : Inside(u) => Pair(u) # Pair(t)
    BY <1>2, <2>1 DEF ChainLocked
  <2>4. \A u \in Threads : Inside(u)' => u = t \/ Inside(u)
    BY <1>2 DEF ChainLocked, ChainsTypeOK
  <2>5. \A u \in Threads :
          Inside(u)' => Pair(u)[2] \in hash_locks'[Pair(u)[1]]
    BY <1>2, <2>1, <2>4, PairType DEF ChainLocked, ChainsTypeOK
  <2> QED
    BY <2>2, <2>3, <2>4, <2>5
<1>3. ASSUME NEW t \in Threads,
             Look(t) \/ MemoryLock(t) \/ Write(t) \/ Finalize(t)
      PROVE  BitsSet' /\ Exclusion'
  BY <1>3 DEF Look, MemoryLock, Write, Finalize, call, set, Pair, ChainsTypeOK
<1>4. ASSUME NEW t \in Threads, ChainUnlock(t) PROVE BitsSet' /\ Exclusion'
  <2>1. Mask(Pair(t)) = {Pair(t)[2]}
    BY <1>0 DEF Mask
  <2>2. \A u \in Threads : Pair(u)' = Pair(u)
    BY <1>4 DEF ChainUnlock, call, Pair
  <2>3. Inside(t) /\ ~Inside(t)'
    BY <1>4 DEF ChainUnlock, ChainsTypeOK
  <2>4. \A u \in Threads : Inside(u)' => u # t /\ Inside(u)
    BY <1>4, <2>3 DEF ChainUnlock, ChainsTypeOK
  <2>5. ASSUME NEW u \in Threads, Inside(u)'
        PROVE  Pair(u)[2] \in hash_locks'[Pair(u)[1]]
    <3>1. Pair(u) # Pair(t)
      BY <2>3, <2>4, <2>5
    <3>2. Pair(u)[1] # Pair(t)[1] \/ Pair(u)[2] # Pair(t)[2]
      BY <3>1, PairEq
    <3>3. Pair(u)[2] \in hash_locks[Pair(u)[1]]
      BY <2>4, <2>5
    <3>4. CASE Pair(u)[1] # Pair(t)[1]
      BY <1>4, <3>3, <3>4, PairType DEF ChainUnlock, ChainsTypeOK
    <3>5. CASE Pair(u)[1] = Pair(t)[1] /\ Pair(u)[2] # Pair(t)[2]
      BY <1>0, <1>4, <2>1, <3>3, <3>5, PairType DEF ChainUnlock, ChainsTypeOK
    <3> QED
      BY <3>2, <3>4, <3>5
  <2> QED
    BY <2>2, <2>4, <2>5
<1>5. CASE UNCHANGED chains
  BY <1>5 DEF chains, call, Pair
<1> QED
  BY <1>1, <1>2, <1>3, <1>4, <1>5 DEF SetNext, ChainNext, ChainStep, LockNext, setVars

\* Nobody but the thread inside changes a chain, so that what it has looked is
\* fresh when it writes.
LEMMA KeysStep ==
  ASSUME ChainInv, [SetNext]_setVars
  PROVE  SeenFresh' /\ KeysKept' /\ KeysCounted'
<1> USE DEF ChainInv, SeenFresh, KeysKept, KeysCounted, Reach
<1>1. ASSUME NEW t \in Threads, NEW o \in {"add", "del"}, NEW k \in Keys, Call(t, o, k)
      PROVE  SeenFresh' /\ KeysKept' /\ KeysCounted'
  BY <1>1 DEF Call, set, Pair, ChainsTypeOK
<1>2. ASSUME NEW t \in Threads,
             ChainLocked(t) \/ MemoryLock(t) \/ Finalize(t) \/ ChainUnlock(t)
      PROVE  SeenFresh' /\ KeysKept' /\ KeysCounted'
  BY <1>2 DEF ChainLocked, MemoryLock, Finalize, ChainUnlock, call, set, Pair, ChainsTypeOK
<1>3. ASSUME NEW t \in Threads, Look(t) PROVE SeenFresh' /\ KeysKept' /\ KeysCounted'
  BY <1>3 DEF Look, call, set, Pair, ChainsTypeOK
<1>4. ASSUME NEW t \in Threads, Write(t) PROVE SeenFresh' /\ KeysKept' /\ KeysCounted'
  <2>1. /\ Inside(t) /\ at[t] = "write"
        /\ looked[t] = chain[Pair(t)] /\ (key[t] \in looked[t]) = (op[t] = "del")
    BY <1>4 DEF Write, Inside
  <2>2. \A u \in Threads : Pair(u)' = Pair(u) /\ looked'[u] = looked[u] /\ op'[u] = op[u]
                           /\ key'[u] = key[u]
    BY <1>4 DEF Write, call, Pair
  <2>3. \A u \in Threads : u # t /\ Inside(u) => Pair(u) # Pair(t)
    BY <2>1 DEF Exclusion
  <2>4. \A p \in Pairs : p # Pair(t) => chain'[p] = chain[p]
    BY <1>4 DEF Write, ChainsTypeOK
  <2>5. SeenFresh'
    <3> SUFFICES ASSUME NEW u \in Threads, at'[u] \in {"memory", "write"}
                 PROVE  /\ looked'[u] = chain'[Pair(u)']
                        /\ (key'[u] \in looked'[u]) = (op'[u] = "del")
      OBVIOUS
    <3>1. u # t /\ at[u] \in {"memory", "write"}
      BY <1>4 DEF Write, ChainsTypeOK
    <3>2. Pair(u) # Pair(t) /\ Pair(u) \in Pairs
      BY <2>3, <3>1, PairType DEF Inside
    <3> QED
      BY <2>2, <2>4, <3>1, <3>2
  <2>6. key[t] \in Keys /\ PairOf[key[t]] = Pair(t) /\ Pair(t) \in Pairs
    BY PairType DEF ChainsTypeOK, Pair
  <2>7. key[t] \in held <=> op[t] = "del"
    BY <2>1, <2>6
  <2>8. IsFiniteSet(held)
    BY ChainLockAssumption, FS_Subset DEF ChainsTypeOK
  <2>9. CASE op[t] = "add"
    <3>1. chain'[Pair(t)] = chain[Pair(t)] \cup {key[t]} /\ held' = held \cup {key[t]}
      BY <1>4, <2>1, <2>6, <2>9 DEF Write, ChainsTypeOK
    <3>2. KeysKept'
      BY <2>4, <2>6, <3>1 DEF ChainsTypeOK
    <3>3. KeysCounted'
      BY <1>4, <2>7, <2>8, <2>9, <3>1, FS_AddElement, FS_CardinalityType DEF Write
    <3> QED
      BY <2>5, <3>2, <3>3
  <2>10. CASE op[t] = "del"
    <3>1. chain'[Pair(t)] = chain[Pair(t)] \ {key[t]} /\ held' = held \ {key[t]}
      BY <1>4, <2>1, <2>6, <2>10 DEF Write, ChainsTypeOK
    <3>2. KeysKept'
      BY <2>4, <2>6, <3>1 DEF ChainsTypeOK
    <3>3. KeysCounted'
      BY <1>4, <2>7, <2>8, <2>10, <3>1, FS_RemoveElement, FS_CardinalityType DEF Write
    <3> QED
      BY <2>5, <3>2, <3>3
  <2> QED
    BY <2>9, <2>10 DEF ChainsTypeOK
<1>5. CASE UNCHANGED chains
  BY <1>5 DEF chains, call, set, Pair
<1> QED
  BY <1>1, <1>2, <1>3, <1>4, <1>5 DEF SetNext, ChainNext, ChainStep, LockNext, setVars

\* One thread at a time has a pair of chains, as long as the pair's number
\* modulo 64 is below 32 (locks.c:408).
THEOREM ExclusionHolds ==
  ASSUME AllLocked
  PROVE  SetSpec => []Exclusion
<1>1. ChainInv /\ [SetNext]_setVars => ChainInv'
  BY TypeStep, LockStep, KeysStep DEF ChainInv
<1>2. ChainInv => Exclusion
  BY DEF ChainInv
<1> QED
  BY ChainInit, <1>1, <1>2, PTL DEF SetSpec, SetInit

\* Under the same condition no key that was added is lost and no deleted one
\* comes back, and head->count is exact, for any number of threads.
THEOREM KeysKeptHolds ==
  ASSUME AllLocked
  PROVE  SetSpec => []KeysKept /\ []KeysCounted
<1>1. ChainInv /\ [SetNext]_setVars => ChainInv'
  BY TypeStep, LockStep, KeysStep DEF ChainInv
<1>2. ChainInv => KeysKept /\ KeysCounted
  BY DEF ChainInv
<1> QED
  BY ChainInit, <1>1, <1>2, PTL DEF SetSpec, SetInit

-----------------------------------------------------------------------------
\* A thread is in a call of the chains only inside the shared lock, and every
\* bit and the memory lock are some thread's that is in a call.
RestInv ==
  /\ \A t \in Threads : at[t] # "idle" => pc[t] \in {"op", "own"}
  /\ \A w \in Words : \A i \in hash_locks[w] :
       \E t \in Threads : Inside(t) /\ Pair(t) = <<w, i>>
  /\ memory_lock => \E t \in Threads : at[t] \in {"write", "finalize"}

\* A step of the shared lock moves one thread.
LEMMA LockMoves ==
  ASSUME TypeOK, NEW t \in Threads, Goes(t) \/ Calls(t), NEW u \in Threads, u # t
  PROVE  pc'[u] = pc[u]
<1>1. CASE Goes(t)
  BY <1>1 DEF Goes, ShLoad, ShCas, OpEnd, ExLoad, ExCas, ExWait, TryLoad, TryCas,
     DeleteUnlock, TakeWord, Go, TypeOK
<1>2. CASE Calls(t)
  BY <1>2 DEF Calls, OpBegin, ExBegin, TryBegin, OwnBegin, ExUnlock, Delete, Check, Go, TypeOK
<1> QED
  BY <1>1, <1>2

LEMMA RestStep ==
  ASSUME AllLocked, ChainsTypeOK, TypeOK, RestInv, [SetNext]_setVars
  PROVE  RestInv'
<1> USE DEF RestInv, Inside, Reach
<1>0. \A t \in Threads : Pair(t)[2] < IntBits
  BY DEF AllLocked, Pair, ChainsTypeOK
<1>1. ASSUME NEW t \in Threads, NEW o \in {"add", "del"}, NEW k \in Keys, Call(t, o, k),
             UNCHANGED vars
      PROVE  RestInv'
  BY <1>1 DEF Call, set, Pair, ChainsTypeOK, vars
<1>2. ASSUME NEW t \in Threads, ChainLocked(t), UNCHANGED vars PROVE RestInv'
  <2>1. Mask(Pair(t)) = {Pair(t)[2]} /\ \A u \in Threads : Pair(u)' = Pair(u)
    BY <1>0, <1>2 DEF Mask, ChainLocked, call, Pair
  <2>2. /\ at[t] = "lock" /\ at' = [at EXCEPT ![t] = "look"]
        /\ hash_locks' = [hash_locks EXCEPT ![Pair(t)[1]] = @ \cup {Pair(t)[2]}]
        /\ UNCHANGED <<memory_lock, pc>>
    BY <1>2, <2>1 DEF ChainLocked, vars
  <2>3. ASSUME NEW w \in Words, NEW i \in hash_locks'[w]
        PROVE  \E u \in Threads : Inside(u)' /\ Pair(u)' = <<w, i>>
    <3>1. CASE i \in hash_locks[w]
      BY <2>1, <2>2, <3>1 DEF ChainsTypeOK
    <3>2. CASE i \notin hash_locks[w]
      <4>1. <<w, i>> = Pair(t)
        BY <2>2, <3>2, PairType DEF ChainsTypeOK
      <4> QED
        BY <2>1, <2>2, <4>1 DEF ChainsTypeOK
    <3> QED
      BY <3>1, <3>2
  <2> QED
    BY <2>2, <2>3 DEF ChainsTypeOK
<1>3. ASSUME NEW t \in Threads, Look(t) \/ MemoryLock(t) \/ Write(t) \/ Finalize(t),
             UNCHANGED vars
      PROVE  RestInv'
  <2>1. /\ \A u \in Threads : Pair(u)' = Pair(u) /\ (Inside(u) => Inside(u)')
                                /\ (at[u] = "idle" => at'[u] = "idle")
        /\ UNCHANGED <<hash_locks, pc>>
    BY <1>3 DEF Look, MemoryLock, Write, Finalize, call, Pair, ChainsTypeOK, vars
  <2>2. memory_lock' => \E u \in Threads : at'[u] \in {"write", "finalize"}
    BY <1>3 DEF Look, MemoryLock, Write, Finalize, ChainsTypeOK
  <2> QED
    BY <2>1, <2>2
<1>4. ASSUME NEW t \in Threads, ChainUnlock(t), UNCHANGED vars PROVE RestInv'
  <2>1. Mask(Pair(t)) = {Pair(t)[2]} /\ \A u \in Threads : Pair(u)' = Pair(u)
    BY <1>0, <1>4 DEF Mask, ChainUnlock, call, Pair
  <2>2. at[t] = "unlock" /\ at' = [at EXCEPT ![t] = "idle"] /\ UNCHANGED <<memory_lock, pc>>
    BY <1>4 DEF ChainUnlock, vars
  <2>3. ASSUME NEW w \in Words, NEW i \in hash_locks'[w]
        PROVE  i \in hash_locks[w] /\ <<w, i>> # Pair(t)
    BY <1>4, <2>1, <2>3, PairType DEF ChainUnlock, ChainsTypeOK
  <2> QED
    BY <2>1, <2>2, <2>3 DEF ChainsTypeOK
<1>5. ASSUME NEW t \in Threads, LockNext(t) PROVE RestInv'
  BY <1>5, LockMoves DEF LockNext, chains, call, Pair
<1>6. CASE UNCHANGED setVars
  BY <1>6 DEF setVars, vars, chains, call, Pair
<1> QED
  BY <1>1, <1>2, <1>3, <1>4, <1>5, <1>6 DEF SetNext, ChainNext, ChainStep

\* While a thread has the set to itself nobody holds a lock of a chain or the
\* memory lock, and nobody is between a look and its write (lck_lock_ex and
\* the calls inside lck_lock_sh).
THEOREM SettledHolds ==
  ASSUME AllLocked
  PROVE  SetSpec => []Settled
<1> DEFINE Inv == ExInv /\ ChainInv /\ RestInv
<1>1. SetInit => Inv
  <2>1. SetInit => RestInv
    BY DEF SetInit, ChainsInit, RestInv, Inside
  <2> QED
    BY <2>1, ExInit, ChainInit DEF SetInit
<1>2. Inv /\ [SetNext]_setVars => Inv'
  <2>1. [SetNext]_setVars => [Next]_vars
    BY DEF SetNext, ChainNext, LockNext, Next, setVars
  <2>2. ExInv => TypeOK
    BY DEF ExInv
  <2> QED
    BY <2>1, <2>2, ExNext, TypeStep, LockStep, KeysStep, RestStep DEF ChainInv
<1>3. Inv => Settled
  <2> SUFFICES ASSUME Inv, NEW t \in Threads, pc[t] = "held"
               PROVE  /\ hash_locks = [w \in Words |-> {}] /\ ~memory_lock
                      /\ \A u \in Threads : at[u] = "idle"
    BY DEF Settled
  <2>1. \A u \in Threads : pc[u] # "op" /\ pc[u] # "own"
    BY InOpsEmpty DEF ExInv, HasLocked, OwnerPlaces
  <2>2. \A u \in Threads : at[u] = "idle"
    BY <2>1 DEF RestInv
  <2>3. hash_locks = [w \in Words |-> {}] /\ ~memory_lock
    BY <2>2 DEF RestInv, Inside, ChainInv, ChainsTypeOK
  <2> QED
    BY <2>2, <2>3
<1> QED
  BY <1>1, <1>2, <1>3, PTL DEF SetSpec

\* The set in SING_LM_FAST implements the shared lock alone, so that what is
\* proved of the lock holds of the set (lck_processLock, lck_processUnlock).
THEOREM ImplementsLock == SetSpec => Spec /\ []Exclusive /\ []CountExact
<1>1. SetInit => Init
  BY DEF SetInit
<1>2. [SetNext]_setVars => [Next]_vars
  BY DEF SetNext, ChainNext, LockNext, Next, setVars
<1>3. SetSpec => Spec
  BY <1>1, <1>2, PTL DEF SetSpec, Spec
<1> QED
  BY <1>3, ExclusiveHolds, CountExactHolds, PTL

-----------------------------------------------------------------------------
(* The protected mode.                                                       *)

\* The calls of a home that have counted themselves in its locks_count.
OpsOf(h) == {t \in Workers : Home(t) = h /\ where[t] = "op"}

\* Where a thread has the mutex, whatever manual_locked says.
Having == Quiet \cup {"wait", "drop", "last", "leave"}

\* Where the home of the thread that has the mutex is closed.
Closed == Quiet \cup {"mutex", "wait", "leave"}

CountsExact == \A h \in Homes : locks[h] = Cardinality(OpsOf(h))

HaveMutex == \A t \in Workers : where[t] \in Having => process_lock = t

\* Only the home of the thread that has the mutex is open, and not while that
\* thread is where the set must be at rest.
OneOpen ==
  \A h \in Homes : manual[h] # NoTid =>
    /\ process_lock = manual[h] /\ Home(manual[h]) = h
    /\ where[manual[h]] \notin Closed

\* A thread about to swap has seen its home open.
SeenOpen == \A t \in Workers : where[t] = "cas" => word[t].tid # NoTid

\* What makes Guarded inductive.
GuardInv ==
  /\ ProtectTypeOK /\ CountsExact /\ HaveMutex /\ OneOpen /\ SeenOpen /\ Guarded

LEMMA OpsFinite ==
  ASSUME ThreadsHaveHomes, NEW h
  PROVE  IsFiniteSet(OpsOf(h)) /\ Cardinality(OpsOf(h)) \in Nat
BY FS_Subset, FS_CardinalityType DEF ThreadsHaveHomes, OpsOf

\* A count of zero says that no call of the home is inside.
LEMMA NobodyInside ==
  ASSUME ThreadsHaveHomes, CountsExact, NEW h \in Homes, locks[h] = 0
  PROVE  \A t \in Workers : Home(t) = h => where[t] # "op"
<1>1. Cardinality(OpsOf(h)) = 0
  BY DEF CountsExact
<1>2. OpsOf(h) = {}
  BY <1>1, OpsFinite, FS_EmptySet
<1> QED
  BY <1>2 DEF OpsOf

\* Steps that take no thread into a call or out of one.
LEMMA CountsSame ==
  ASSUME CountsExact, UNCHANGED locks,
         \A t \in Workers : where'[t] = "op" <=> where[t] = "op"
  PROVE  CountsExact'
<1>1. \A h \in Homes : OpsOf(h)' = OpsOf(h)
  BY DEF OpsOf, Home
<1> QED
  BY <1>1 DEF CountsExact

LEMMA CountsUp ==
  ASSUME ThreadsHaveHomes, ProtectTypeOK, CountsExact, NEW t \in Workers, where[t] = "cas",
         where' = [where EXCEPT ![t] = "op"],
         locks' = [locks EXCEPT ![Home(t)] = @ + 1]
  PROVE  CountsExact'
<1>1. Home(t) \in Homes
  BY DEF ThreadsHaveHomes, Home
<1>2. OpsOf(Home(t))' = OpsOf(Home(t)) \cup {t}
  BY DEF ProtectTypeOK, OpsOf, Home
<1>3. Cardinality(OpsOf(Home(t)) \cup {t}) = Cardinality(OpsOf(Home(t))) + 1
  <2>1. t \notin OpsOf(Home(t))
    BY DEF OpsOf
  <2> QED
    BY <2>1, OpsFinite, FS_AddElement
<1>4. \A h \in Homes \ {Home(t)} : OpsOf(h)' = OpsOf(h)
  BY DEF ProtectTypeOK, OpsOf, Home
<1> QED
  BY <1>1, <1>2, <1>3, <1>4 DEF CountsExact, ProtectTypeOK

LEMMA CountsDown ==
  ASSUME ThreadsHaveHomes, ProtectTypeOK, CountsExact, NEW t \in Workers, where[t] = "op",
         where' = [where EXCEPT ![t] = "idle"],
         locks' = [locks EXCEPT ![Home(t)] = @ - 1]
  PROVE  CountsExact' /\ locks[Home(t)] - 1 \in Nat
<1>1. Home(t) \in Homes
  BY DEF ThreadsHaveHomes, Home
<1>2. OpsOf(Home(t))' = OpsOf(Home(t)) \ {t}
  BY DEF ProtectTypeOK, OpsOf, Home
<1>3. /\ Cardinality(OpsOf(Home(t)) \ {t}) = Cardinality(OpsOf(Home(t))) - 1
      /\ Cardinality(OpsOf(Home(t)) \ {t}) \in Nat
  <2>1. t \in OpsOf(Home(t))
    BY DEF OpsOf
  <2> QED
    BY <2>1, OpsFinite, FS_RemoveElement, FS_CardinalityType
<1>4. \A h \in Homes \ {Home(t)} : OpsOf(h)' = OpsOf(h)
  BY DEF ProtectTypeOK, OpsOf, Home
<1> QED
  BY <1>1, <1>2, <1>3, <1>4 DEF CountsExact, ProtectTypeOK

-----------------------------------------------------------------------------
LEMMA GuardInit == ASSUME ThreadsHaveHomes, ProtectInit PROVE GuardInv
<1>1. ProtectTypeOK
  BY DEF ThreadsHaveHomes, ProtectInit, ProtectTypeOK, Tids, ProtectWord, Whereabouts
<1>2. CountsExact
  <2>1. \A h \in Homes : OpsOf(h) = {}
    BY DEF ProtectInit, OpsOf
  <2> QED
    BY <2>1, FS_EmptySet DEF ProtectInit, CountsExact
<1> QED
  BY <1>1, <1>2 DEF ProtectInit, GuardInv, HaveMutex, OneOpen, SeenOpen, Guarded, Having, Quiet

\* The write calls.
LEMMA OpStep ==
  ASSUME ThreadsHaveHomes, GuardInv, NEW t \in Workers,
         CallBegin(t) \/ CallLook(t) \/ CallGoesOn(t) \/ CallCas(t) \/ CallEnd(t)
  PROVE  GuardInv'
<1> USE DEF GuardInv
<1>h. Home(t) \in Homes /\ NoTid \notin Workers
  BY DEF ThreadsHaveHomes, Home
<1>1. CASE CallBegin(t) \/ CallLook(t) \/ CallGoesOn(t)
  <2>1. ProtectTypeOK'
    BY <1>1, <1>h DEF ProtectTypeOK, CallBegin, CallLook, CallGoesOn, LoadWord, WordNow, Move, Starts, Whereabouts, ProtectWord
  <2>2. CountsExact'
    BY <1>1, CountsSame DEF ProtectTypeOK, CallBegin, CallLook, CallGoesOn, Move, Starts
  <2>0. /\ \A u \in Workers \ {t} : where'[u] = where[u]
        /\ where'[t] \in {"look", "cas", "gone"}
        /\ UNCHANGED <<process_lock, manual>>
    BY <1>1 DEF ProtectTypeOK, CallBegin, CallLook, CallGoesOn, Move
  <2>3. HaveMutex' /\ OneOpen' /\ Guarded'
    <3>1. HaveMutex'
      BY <2>0 DEF HaveMutex, Having, Quiet
    <3>2. OneOpen'
      BY <2>0, <1>h DEF ProtectTypeOK, OneOpen, Closed, Quiet, Tids
    <3>3. Guarded'
      BY <2>0 DEF ProtectTypeOK, Guarded, Quiet, Home, Tids
    <3> QED
      BY <3>1, <3>2, <3>3
  <2>4. SeenOpen'
    BY <1>1 DEF ProtectTypeOK, SeenOpen, CallBegin, CallLook, CallGoesOn, Move, LoadWord, Starts
  <2> QED
    BY <2>1, <2>2, <2>3, <2>4
<1>2. CASE CallCas(t) /\ word[t] = WordNow(t)
  <2>0. /\ where[t] = "cas" /\ where' = [where EXCEPT ![t] = "op"]
        /\ locks' = [locks EXCEPT ![Home(t)] = @ + 1]
        /\ UNCHANGED <<process_lock, stale, manual, aim, word, removed>>
    BY <1>2 DEF CallCas, Swap, Move
  <2>1. ProtectTypeOK'
    BY <2>0, <1>h DEF ProtectTypeOK, Whereabouts
  <2>2. CountsExact'
    BY <2>0, CountsUp
  <2>3. HaveMutex' /\ OneOpen' /\ SeenOpen'
    BY <2>0 DEF ProtectTypeOK, HaveMutex, OneOpen, SeenOpen, Having, Closed, Quiet, Home
  <2>4. manual[Home(t)] # NoTid
    BY <1>2, <2>0 DEF SeenOpen, WordNow
  <2>5. Guarded'
    BY <2>0, <2>4, <1>h DEF ProtectTypeOK, Guarded, OneOpen, Closed, Quiet, Home, Tids
  <2> QED
    BY <2>1, <2>2, <2>3, <2>5
<1>3. CASE CallCas(t) /\ word[t] # WordNow(t)
  <2>0. /\ where[t] = "cas" /\ where' = [where EXCEPT ![t] = "look"]
        /\ word' = [word EXCEPT ![t] = WordNow(t)]
        /\ UNCHANGED <<process_lock, stale, locks, manual, aim, removed>>
    BY <1>3 DEF CallCas, Swap, Move, LoadWord
  <2>1. ProtectTypeOK'
    BY <2>0, <1>h DEF ProtectTypeOK, Whereabouts, WordNow, ProtectWord
  <2>2. CountsExact'
    BY <2>0, CountsSame DEF ProtectTypeOK
  <2>3. HaveMutex' /\ OneOpen' /\ SeenOpen' /\ Guarded'
    BY <2>0 DEF ProtectTypeOK, HaveMutex, OneOpen, SeenOpen, Guarded, Having, Closed, Quiet, Home
  <2> QED
    BY <2>1, <2>2, <2>3
<1>4. CASE CallEnd(t)
  <2>0. /\ where[t] = "op" /\ where' = [where EXCEPT ![t] = "idle"]
        /\ locks' = [locks EXCEPT ![Home(t)] = @ - 1]
        /\ UNCHANGED <<process_lock, stale, manual, aim, word, removed>>
    BY <1>4 DEF CallEnd, Move
  <2>1. CountsExact' /\ locks[Home(t)] - 1 \in Nat
    BY <2>0, CountsDown
  <2>2. ProtectTypeOK'
    BY <2>0, <2>1, <1>h DEF ProtectTypeOK, Whereabouts
  <2>3. HaveMutex' /\ OneOpen' /\ SeenOpen' /\ Guarded'
    BY <2>0 DEF ProtectTypeOK, HaveMutex, OneOpen, SeenOpen, Guarded, Having, Closed, Quiet, Home
  <2> QED
    BY <2>1, <2>2, <2>3
<1> QED
  BY <1>1, <1>2, <1>3, <1>4

\* A thread asks for the mutex, gets it, and opens its home.
LEMMA TakeStep ==
  ASSUME ThreadsHaveHomes, GuardInv, NEW t \in Workers,
         \/ Ask(t) \/ MutexGone(t) \/ MutexTake(t) \/ TryTake(t)
         \/ Recover(t) \/ RecoverFails(t) \/ MutexCheck(t) \/ Store(t)
  PROVE  GuardInv'
<1> USE DEF GuardInv
<1>h. Home(t) \in Homes /\ NoTid \notin Workers
  BY DEF ThreadsHaveHomes, Home
<1>1. CASE Ask(t) \/ MutexGone(t)
  <2>1. ProtectTypeOK'
    BY <1>1 DEF ProtectTypeOK, Ask, MutexGone, Turn, Move, Starts, Whereabouts
  <2>2. CountsExact'
    BY <1>1, CountsSame DEF ProtectTypeOK, Ask, MutexGone, Turn, Move, Starts
  <2>0. /\ \A u \in Workers \ {t} : where'[u] = where[u]
        /\ where'[t] \in {"mutex", "gone"}
        /\ UNCHANGED <<process_lock, word>>
    BY <1>1 DEF ProtectTypeOK, Ask, MutexGone, Turn, Move
  <2>3. HaveMutex' /\ SeenOpen' /\ Guarded'
    <3>1. HaveMutex' /\ SeenOpen'
      BY <2>0 DEF HaveMutex, SeenOpen, Having, Quiet
    <3>2. Guarded'
      BY <2>0 DEF ProtectTypeOK, Guarded, Quiet, Home, Tids
    <3> QED
      BY <3>1, <3>2
  <2>4. OneOpen'
    BY <1>1, <1>h DEF ProtectTypeOK, OneOpen, Closed, Quiet, Home, Ask, MutexGone, Turn, Move, Starts, Tids
  <2> QED
    BY <2>1, <2>2, <2>3, <2>4
<1>2. CASE MutexTake(t) \/ TryTake(t)
  <2>1. ProtectTypeOK'
    BY <1>2 DEF ProtectTypeOK, MutexTake, TryTake, Turn, Move, Starts, Whereabouts, Tids
  <2>2. CountsExact'
    BY <1>2, CountsSame DEF ProtectTypeOK, MutexTake, TryTake, Turn, Move, Starts
  <2>3. process_lock = NoTid /\ UNCHANGED manual
    BY <1>2 DEF MutexTake, TryTake
  <2>0. /\ \A u \in Workers \ {t} : where'[u] = where[u]
        /\ where'[t] \in {"recover", "check"}
        /\ process_lock' = t /\ UNCHANGED word
    BY <1>2 DEF ProtectTypeOK, MutexTake, TryTake, Turn, Move
  <2>4. HaveMutex' /\ SeenOpen' /\ Guarded'
    <3>1. \A u \in Workers : where[u] \notin Having /\ where[u] # "op"
      BY <2>3, <1>h DEF HaveMutex, Guarded
    <3>2. \A u \in Workers : where'[u] \in Having \/ where'[u] = "op" => u = t
      BY <2>0, <3>1
    <3>3. HaveMutex' /\ SeenOpen'
      BY <2>0, <3>2 DEF HaveMutex, SeenOpen
    <3>4. Guarded'
      BY <2>0, <3>2 DEF Guarded
    <3> QED
      BY <3>3, <3>4
  <2>5. OneOpen'
    BY <2>3 DEF OneOpen
  <2> QED
    BY <2>1, <2>2, <2>4, <2>5
<1>3. CASE Recover(t) \/ RecoverFails(t) \/ MutexCheck(t)
  <2>0. where[t] \in Quiet /\ process_lock = t /\ UNCHANGED manual
    BY <1>3 DEF HaveMutex, Having, Quiet, Recover, RecoverFails, MutexCheck
  <2>1. ProtectTypeOK'
    BY <1>3 DEF ProtectTypeOK, Recover, RecoverFails, MutexCheck, Turn, Move, Whereabouts, Tids
  <2>2. CountsExact'
    BY <1>3, CountsSame DEF ProtectTypeOK, Recover, RecoverFails, MutexCheck, Turn, Move
  <2>3. HaveMutex' /\ SeenOpen'
    BY <1>3, <2>0 DEF ProtectTypeOK, HaveMutex, SeenOpen, Having, Quiet,
                Recover, RecoverFails, MutexCheck, Turn, Move
  <2>4. \A h \in Homes : manual[h] = NoTid
    BY <2>0, <1>h DEF OneOpen, Closed
  <2>5. OneOpen'
    BY <2>0, <2>4 DEF OneOpen
  <2>6. Guarded'
    BY <1>3, <2>0, <1>h DEF ProtectTypeOK, Guarded, Quiet, Home, Recover, RecoverFails, MutexCheck, Turn, Move
  <2> QED
    BY <2>1, <2>2, <2>3, <2>5, <2>6
<1>4. CASE Store(t)
  <2>0. where[t] \in Quiet /\ process_lock = t
    BY <1>4 DEF HaveMutex, Having, Quiet, Store
  <2>1. ProtectTypeOK'
    BY <1>4, <1>h DEF ProtectTypeOK, Store, Manual, Turn, Move, Whereabouts, Tids
  <2>2. CountsExact'
    BY <1>4, CountsSame DEF ProtectTypeOK, Store, Turn, Move
  <2>3. HaveMutex' /\ SeenOpen'
    BY <1>4, <2>0 DEF ProtectTypeOK, HaveMutex, SeenOpen, Having, Quiet, Store, Turn, Move
  <2>4. \A h \in Homes : manual[h] = NoTid
    BY <2>0, <1>h DEF OneOpen, Closed
  <2>5. OneOpen'
    BY <1>4, <2>0, <2>4 DEF ProtectTypeOK, OneOpen, Closed, Quiet, Home, Store, Manual, Turn, Move
  <2>6. Guarded'
    BY <1>4, <2>0, <1>h DEF ProtectTypeOK, Guarded, Quiet, Home, Store, Turn, Move
  <2> QED
    BY <2>1, <2>2, <2>3, <2>5, <2>6
<1> QED
  BY <1>1, <1>2, <1>3, <1>4

\* A thread closes its home, waits, and gives the mutex back or unloads the set.
LEMMA UnlockStep ==
  ASSUME ThreadsHaveHomes, GuardInv, NEW t \in Workers,
         ReleaseClosed(t) \/ Drained(t) \/ Synced(t) \/ Drop(t) \/ Last(t) \/ Leave(t)
  PROVE  GuardInv'
<1> USE DEF GuardInv
<1>h. Home(t) \in Homes /\ NoTid \notin Workers
  BY DEF ThreadsHaveHomes, Home
<1>1. CASE ReleaseClosed(t)
  <2>0. where[t] = "idle" /\ process_lock = t
    BY <1>1, <1>h DEF ReleaseClosed, Release, Starts, OneOpen
  <2>1. ProtectTypeOK'
    BY <1>1, <1>h DEF ProtectTypeOK, ReleaseClosed, Release, Starts, Manual, Turn, Move, Whereabouts, Tids
  <2>2. CountsExact'
    BY <1>1, <2>0, CountsSame DEF ProtectTypeOK, ReleaseClosed, Release, Turn, Move
  <2>3. HaveMutex' /\ SeenOpen' /\ Guarded'
    BY <1>1, <2>0 DEF ProtectTypeOK, HaveMutex, SeenOpen, Guarded, Having, Quiet, Home,
                ReleaseClosed, Release, Turn, Move
  <2>4. OneOpen'
    BY <1>1, <2>0 DEF ProtectTypeOK, OneOpen, Home, ReleaseClosed, Release, Manual
  <2> QED
    BY <2>1, <2>2, <2>3, <2>4
<1>2. CASE Drained(t)
  <2>0. process_lock = t /\ where[t] = "wait"
    BY <1>2 DEF Drained, HaveMutex, Having
  <2>1. ProtectTypeOK'
    BY <1>2 DEF ProtectTypeOK, Drained, Move, Whereabouts
  <2>2. CountsExact'
    BY <1>2, CountsSame DEF ProtectTypeOK, Drained, Move
  <2>3. HaveMutex' /\ SeenOpen'
    BY <1>2, <2>0 DEF ProtectTypeOK, HaveMutex, SeenOpen, Having, Quiet, Drained, Move
  <2>4. \A h \in Homes : manual[h] = NoTid
    BY <2>0, <1>h DEF OneOpen, Closed
  <2>5. OneOpen'
    BY <1>2, <2>4 DEF OneOpen, Drained
  <2>6. \A u \in Workers : where[u] # "op"
    BY <1>2, <2>0, <1>h, NobodyInside DEF Drained, Guarded
  <2>7. Guarded'
    BY <1>2, <2>6 DEF ProtectTypeOK, Guarded, Drained, Move
  <2> QED
    BY <2>1, <2>2, <2>3, <2>5, <2>7
<1>3. CASE Synced(t)
  <2>0. where[t] = "sync" /\ process_lock = t /\ UNCHANGED manual
    BY <1>3 DEF HaveMutex, Having, Quiet, Synced
  <2>1. ProtectTypeOK'
    BY <1>3 DEF ProtectTypeOK, Synced, Turn, Move, Whereabouts, Tids
  <2>2. CountsExact'
    BY <1>3, CountsSame DEF ProtectTypeOK, Synced, Turn, Move
  <2>3. HaveMutex' /\ SeenOpen'
    BY <1>3, <2>0 DEF ProtectTypeOK, HaveMutex, SeenOpen, Having, Quiet, Synced, Turn, Move
  <2>4. \A h \in Homes : manual[h] = NoTid
    BY <2>0, <1>h DEF OneOpen, Closed, Quiet
  <2>5. OneOpen'
    BY <2>0, <2>4 DEF OneOpen
  <2>6. Guarded'
    BY <1>3, <2>0 DEF ProtectTypeOK, Guarded, Quiet, Home, Synced, Turn, Move
  <2> QED
    BY <2>1, <2>2, <2>3, <2>5, <2>6
<1>4. CASE Drop(t)
  <2>0. process_lock = t /\ where[t] = "drop"
    BY <1>4 DEF Drop, HaveMutex, Having
  <2>1. ProtectTypeOK'
    BY <1>4 DEF ProtectTypeOK, Drop, Move, Whereabouts
  <2>2. CountsExact'
    BY <1>4, CountsSame DEF ProtectTypeOK, Drop, Move
  <2>3. HaveMutex' /\ SeenOpen' /\ OneOpen' /\ Guarded'
    BY <1>4, <2>0 DEF ProtectTypeOK, HaveMutex, SeenOpen, OneOpen, Guarded, Having, Closed, Quiet, Home,
                Drop, Move
  <2> QED
    BY <2>1, <2>2, <2>3
<1>5. CASE Last(t)
  <2>0. process_lock = t /\ where[t] = "last"
    BY <1>5 DEF Last, HaveMutex, Having
  <2>1. ProtectTypeOK'
    BY <1>5, <1>h DEF ProtectTypeOK, Last, Manual, Move, Whereabouts, Tids
  <2>2. CountsExact'
    BY <1>5, CountsSame DEF ProtectTypeOK, Last, Move
  <2>3. HaveMutex' /\ SeenOpen' /\ Guarded'
    BY <1>5, <2>0 DEF ProtectTypeOK, HaveMutex, SeenOpen, Guarded, Having, Quiet, Home, Last, Move
  <2>4. OneOpen'
    BY <1>5, <2>0 DEF ProtectTypeOK, OneOpen, Home, Last, Manual
  <2> QED
    BY <2>1, <2>2, <2>3, <2>4
<1>6. CASE Leave(t)
  <2>0. process_lock = t /\ where[t] = "leave" /\ UNCHANGED <<manual, locks, word>>
    BY <1>6 DEF Leave, HaveMutex, Having
  <2>1. ProtectTypeOK'
    BY <1>6 DEF ProtectTypeOK, Leave, Whereabouts, Tids
  <2>2. \A u \in Workers : where[u] # "op"
    BY <1>6, <2>0, <1>h, NobodyInside DEF Leave, Guarded
  <2>3. \A u \in Workers : where'[u] = "gone" \/ where'[u] = where[u]
    BY <1>6 DEF Leave
  <2>4. CountsExact'
    BY <2>0, <2>2, <2>3, CountsSame
  <2>5. HaveMutex'
    <3>1. \A u \in Workers \ {t} : where[u] \notin Having
      BY <2>0 DEF HaveMutex
    <3>2. where'[t] = "gone"
      BY <1>6 DEF Leave
    <3> QED
      BY <2>3, <3>1, <3>2 DEF HaveMutex, Having, Quiet
  <2>6. SeenOpen' /\ Guarded'
    BY <2>0, <2>2, <2>3 DEF SeenOpen, Guarded
  <2>7. \A h \in Homes : manual[h] = NoTid
    BY <2>0, <1>h DEF OneOpen, Closed
  <2>8. OneOpen'
    BY <2>0, <2>7 DEF OneOpen
  <2> QED
    BY <2>1, <2>4, <2>5, <2>6, <2>8
<1> QED
  BY <1>1, <1>2, <1>3, <1>4, <1>5, <1>6

\* A process dies: its calls, and what was open, are no more.
LEMMA DiesStep ==
  ASSUME ThreadsHaveHomes, GuardInv, NEW h \in Homes, Dies(h)
  PROVE  GuardInv'
<1> USE DEF GuardInv
<1>h. NoTid \notin Workers /\ \A t \in Workers : Home(t) \in Homes
  BY DEF ThreadsHaveHomes, Home
<1>1. ProtectTypeOK'
  BY DEF ProtectTypeOK, Dies, Whereabouts, Tids
<1>2. CountsExact'
  <2>1. OpsOf(h)' = {}
    BY DEF OpsOf, Dies, Home
  <2>2. \A g \in Homes \ {h} : OpsOf(g)' = OpsOf(g)
    BY DEF OpsOf, Dies, Home
  <2> QED
    BY <2>1, <2>2, FS_EmptySet DEF CountsExact, Dies, ProtectTypeOK
<1>3. \A t \in Workers : IF Home(t) = h THEN where'[t] = "gone" ELSE where'[t] = where[t]
  BY DEF Dies
<1>4. HaveMutex' /\ SeenOpen'
  BY <1>3 DEF HaveMutex, SeenOpen, Having, Quiet, Dies
<1>5. OneOpen'
  BY <1>3, <1>h DEF ProtectTypeOK, OneOpen, Dies, Home, Tids
<1>6. Guarded'
  BY <1>3, <1>h DEF ProtectTypeOK, Guarded, Dies, Home, Tids
<1> QED
  BY <1>1, <1>2, <1>4, <1>5, <1>6

\* For any number of threads and processes: a write call is inside only while
\* a thread of its own process has the mutex and neither recovers, flushes nor
\* reverts the set.
THEOREM GuardedHolds == ProtectSpec => []Guarded
<1> USE HomesAssumption
<1>1. ProtectInit => GuardInv
  BY GuardInit
<1>2. GuardInv /\ [ProtectNext]_protectVars => GuardInv'
  <2> SUFFICES ASSUME GuardInv, [ProtectNext]_protectVars PROVE GuardInv'
    OBVIOUS
  <2>1. CASE UNCHANGED protectVars
    <3>1. CountsExact'
      BY <2>1, CountsSame DEF protectVars, GuardInv
    <3> QED
      BY <2>1, <3>1 DEF protectVars, GuardInv, ProtectTypeOK, HaveMutex, OneOpen, SeenOpen, Guarded, Home
  <2>2. CASE \E t \in Workers : ProtectCalls(t) \/ ProtectGoes(t)
    BY <2>2, OpStep, TakeStep, UnlockStep DEF ProtectCalls, ProtectGoes
  <2>3. CASE \E h \in Homes : Dies(h)
    BY <2>3, DiesStep
  <2> QED
    BY <2>1, <2>2, <2>3 DEF ProtectNext
<1>3. GuardInv => Guarded
  BY DEF GuardInv
<1> QED
  BY <1>1, <1>2, <1>3, PTL DEF ProtectSpec

-----------------------------------------------------------------------------
\* Whatever its mode is, a set does only what the two locks allow: the theorems
\* above hold of sets in either mode (lock_mode, which lck_processLock and
\* lck_manualLock look at first).
THEOREM ModesHold == FairModesSpec => SetSpec /\ ProtectSpec /\ []Guarded
<1>1. ModesInit => SetInit /\ ProtectInit
  BY DEF ModesInit
<1>2. [ModesNext]_modesVars => [SetNext]_setVars /\ [ProtectNext]_protectVars
  BY DEF ModesNext, Fast, Protected, modesVars
<1> QED
  BY <1>1, <1>2, GuardedHolds, PTL DEF FairModesSpec, SetSpec, ProtectSpec
=============================================================================
