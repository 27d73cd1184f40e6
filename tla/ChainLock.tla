----------------------------- MODULE ChainLock -----------------------------
(***************************************************************************)
(* A set in SING_LM_FAST, where threads of any processes change it at the  *)
(* same time.  Inside the shared lock of ShExLock a call takes a bit for   *)
(* its pair of chains (hash_locks, locks.c:405-431) and one lock for the   *)
(* allocator, the counters and the waits for readers (locks.h:122-140),    *)
(* which idx_key_try_set and idx_key_del leave set for idx_op_finalize.    *)
(*                                                                         *)
(* A pair of chains, hash >> 1, is given as <<word, bit>>: its quotient    *)
(* and remainder by 64.  The bit mask is kept in an unsigned.  A change of *)
(* a chain is the look at it and, later, the write that builds on what was *)
(* seen; the places of keys in a chain are in HashChain.                   *)
(***************************************************************************)
EXTENDS ShExLock, Integers

CONSTANTS
  Words,     \* of hash_locks
  WordBits,  \* of an uint64_t
  IntBits,   \* of an unsigned
  Keys,
  PairOf,    \* [Keys -> Words \X 0 .. WordBits - 1]
  MaxCalls   \* bound: calls in all

Pairs == Words \X (0 .. WordBits - 1)

ASSUME ChainLockAssumption ==
  /\ IsFiniteSet(Keys) /\ Keys # {}
  /\ {WordBits, IntBits, MaxCalls} \subseteq Nat
  /\ PairOf \in [Keys -> Pairs]

VARIABLES
  hash_locks,   \* the bits that are set in each word
  memory_lock,
  at,           \* where each thread is
  op,           \* "add" or "del"
  key,          \* and its key
  looked,       \* the chain as the thread has seen it
  chain,        \* the keys of each pair of chains
  count,        \* head->count
  held,         \* the keys that the calls have added and not deleted
  calls

call    == <<op, key>>
set     == <<chain, count, held>>
chains  == <<hash_locks, memory_lock, at, call, looked, set, calls>>
setVars == <<vars, chains>>

Pair(t) == PairOf[key[t]]

\* unsigned bitmask = 1LL << (hash % 64)
Mask(p) == IF p[2] < IntBits THEN {p[2]} ELSE {}

ChainsInit ==
  /\ hash_locks = [w \in Words |-> {}] /\ memory_lock = FALSE
  /\ at = [t \in Threads |-> "idle"]
  /\ op = [t \in Threads |-> "add"] /\ key = [t \in Threads |-> CHOOSE k \in Keys : TRUE]
  /\ looked = [t \in Threads |-> {}]
  /\ chain = [p \in Pairs |-> {}] /\ count = 0 /\ held = {} /\ calls = 0

Reach(t, place) == at' = [at EXCEPT ![t] = place]

-----------------------------------------------------------------------------
\* sing_set_key and sing_del_key inside lck_processLock.
Call(t, o, k) ==
  /\ pc[t] \in {"op", "own"} /\ at[t] = "idle" /\ calls < MaxCalls
  /\ op' = [op EXCEPT ![t] = o] /\ key' = [key EXCEPT ![t] = k]
  /\ calls' = calls + 1 /\ Reach(t, "lock")
  /\ UNCHANGED <<hash_locks, memory_lock, looked, set>>

\* A mistake: the bit is set and the old one not looked at.
ChainLockBlind(t) ==
  /\ at[t] = "lock"
  /\ hash_locks' = [hash_locks EXCEPT ![Pair(t)[1]] = @ \cup Mask(Pair(t))]
  /\ Reach(t, "look")
  /\ UNCHANGED <<memory_lock, call, looked, set, calls>>

\* The round of _lck_chainLock that finds the bit clear; the others set what is set.
ChainLocked(t) ==
  /\ at[t] = "lock"
  /\ hash_locks[Pair(t)[1]] \cap Mask(Pair(t)) = {}
  /\ hash_locks' = [hash_locks EXCEPT ![Pair(t)[1]] = @ \cup Mask(Pair(t))]
  /\ Reach(t, "look")
  /\ UNCHANGED <<memory_lock, call, looked, set, calls>>

\* A key to add that is there, or one to delete that is not, ends the call.
Look(t) ==
  /\ at[t] = "look"
  /\ looked' = [looked EXCEPT ![t] = chain[Pair(t)]]
  /\ Reach(t, IF (key[t] \in chain[Pair(t)]) = (op[t] = "add") THEN "unlock" ELSE "memory")
  /\ UNCHANGED <<hash_locks, memory_lock, call, set, calls>>

MemoryLock(t) ==
  /\ at[t] = "memory" /\ ~memory_lock
  /\ memory_lock' = TRUE /\ Reach(t, "write")
  /\ UNCHANGED <<hash_locks, call, looked, set, calls>>

\* The chain, and _change_counter.
Write(t) ==
  /\ at[t] = "write"
  /\ IF op[t] = "add"
     THEN /\ chain' = [chain EXCEPT ![Pair(t)] = looked[t] \cup {key[t]}]
          /\ held' = held \cup {key[t]} /\ count' = count + 1
     ELSE /\ chain' = [chain EXCEPT ![Pair(t)] = looked[t] \ {key[t]}]
          /\ held' = held \ {key[t]} /\ count' = count - 1
  /\ Reach(t, "finalize")
  /\ UNCHANGED <<hash_locks, memory_lock, call, looked, calls>>

\* A mistake: only KS_DELETED and not KS_CHANGED is asked for.
FinalizeDeleted(t) ==
  /\ at[t] = "finalize"
  /\ memory_lock' = (op[t] = "add") /\ Reach(t, "unlock")
  /\ UNCHANGED <<hash_locks, call, looked, set, calls>>

\* idx_op_finalize
Finalize(t) ==
  /\ at[t] = "finalize"
  /\ memory_lock' = FALSE /\ Reach(t, "unlock")
  /\ UNCHANGED <<hash_locks, call, looked, set, calls>>

\* The complement of the mask, an unsigned, has no bits beyond those of the
\* lower half, which nothing sets.
ChainUnlock(t) ==
  /\ at[t] = "unlock"
  /\ hash_locks' = [hash_locks EXCEPT ![Pair(t)[1]] =
       {b \in @ : b < IntBits} \ Mask(Pair(t))]
  /\ Reach(t, "idle") /\ looked' = [looked EXCEPT ![t] = {}]
  /\ UNCHANGED <<memory_lock, call, set, calls>>

ChainStep(t) ==
  \/ ChainLocked(t) \/ Look(t) \/ MemoryLock(t) \/ Write(t)
  \/ Finalize(t) \/ ChainUnlock(t)

ChainNext(t) ==
  /\ \/ \E o \in {"add", "del"}, k \in Keys : Call(t, o, k)
     \/ ChainStep(t)
  /\ UNCHANGED vars

\* What a thread does with the shared lock: never inside a call.
LockGoes(t) == at[t] = "idle" /\ Goes(t) /\ UNCHANGED chains
LockGiven(t) == at[t] = "idle" /\ (ExUnlock(t) \/ Delete(t)) /\ UNCHANGED chains
LockNext(t) == at[t] = "idle" /\ (Goes(t) \/ Calls(t)) /\ UNCHANGED chains

SetInit == Init /\ ChainsInit

SetNext == \E t \in Threads : ChainNext(t) \/ LockNext(t)

SetSpec == SetInit /\ [][SetNext]_setVars

\* Every thread runs, and a set that is locked is given back.
FairSetSpec ==
  /\ SetSpec
  /\ \A t \in Threads :
       /\ WF_setVars(ChainStep(t) /\ UNCHANGED vars)
       /\ WF_setVars(LockGoes(t)) /\ WF_setVars(LockGiven(t))

-----------------------------------------------------------------------------
Inside(t) == at[t] \in {"look", "memory", "write", "finalize", "unlock"}

ChainsTypeOK ==
  /\ hash_locks \in [Words -> SUBSET (0 .. WordBits - 1)] /\ memory_lock \in BOOLEAN
  /\ at \in [Threads -> {"idle", "lock", "look", "memory", "write", "finalize", "unlock"}]
  /\ op \in [Threads -> {"add", "del"}] /\ key \in [Threads -> Keys]
  /\ looked \in [Threads -> SUBSET Keys]
  /\ chain \in [Pairs -> SUBSET Keys] /\ held \subseteq Keys
  /\ count \in Int /\ calls \in Nat

\* One thread at a time changes a pair of chains (locks.c:405-412).
Exclusion ==
  \A t, u \in Threads : t # u /\ Inside(t) /\ Inside(u) => Pair(t) # Pair(u)

\* A key that a call has added stays until a call deletes it, whatever other
\* threads do meanwhile to its chain, and a deleted one does not come back.
KeysKept == \A p \in Pairs : chain[p] = {k \in held : PairOf[k] = p}

\* head->count, which is changed under memory_lock, is the number of keys.
KeysCounted == count = Cardinality(held)

\* Who has the set to itself (sing_lock_W, sing_flush, sing_revert) finds it at
\* rest: no chain and no memory is locked, and no other thread is between its
\* look at a chain and the write that builds on it.
Settled ==
  \A t \in Threads : pc[t] = "held" =>
    /\ hash_locks = [w \in Words |-> {}] /\ ~memory_lock
    /\ \A u \in Threads : at[u] = "idle"

\* No call waits for ever: a thread that has the memory lock never waits for a
\* chain, and every way through a call gives both locks back (index.h:257-267).
CallsEnd == \A t \in Threads : (at[t] # "idle") ~> (at[t] = "idle")
=============================================================================
