------------------------------ MODULE Pipeline ------------------------------
(***************************************************************************)
(* How the keys of a file or of a call for several keys go through the     *)
(* set (pipelines.c).  Every key is visited up to twice: the first visit   *)
(* ends with the hash table or only finds where the chain goes on, the     *)
(* second is made a step later, when the chain is in the cache.            *)
(*                                                                         *)
(* pl_pipeline2 has a thread of its own for the visits; the caller fills   *)
(* blocks of entries and hands them over through their `state'.            *)
(* pl_pipeline1 does all in the caller, over four entries.                 *)
(*                                                                         *)
(* An item of the source is a number; Bucket says which pair of chains its *)
(* key belongs to.  What the callback does to the set is in HashChain.     *)
(***************************************************************************)
EXTENDS Naturals, Sequences, FiniteSets

CONSTANTS
  Items,      \* the source is the items 1 .. Items
  BucketOf,   \* [1 .. Items -> hash >> 1]
  Minus,      \* items that begin with `-', where the callback does not do them
  ChainSize,  \* TWO_CORE_CHAIN_SIZE
  SingleSize, \* SINGLE_CHAIN_SIZE
  Chains,     \* TWO_CORE_CHAINS_COUNT
  Errors,     \* a visit may run out of memory
  Setups      \* the calls and the sets that are looked at

CallsFit ==
  /\ Items \in Nat /\ Minus \subseteq 1 .. Items /\ Errors \in BOOLEAN
  /\ {ChainSize, SingleSize, Chains} \subseteq Nat \ {0}
  /\ Chains >= 2 /\ SingleSize >= 3
  /\ Setups \subseteq [multicore : BOOLEAN,  \* pl_pipeline2
                      file : BOOLEAN,       \* sing_add_file, else sing_add_keys
                      minus : BOOLEAN,      \* sing_diff_file and the like
                      spin : BOOLEAN]       \* head->use_spin

VARIABLES
  setup,   \* which of them
  slot,    \* tdata of a chain: the item that was put there last, or 0
  seen,    \* the slots whose chain_idx_ref is set
  count,   \* ctdata
  state,   \* 0 is being filled, 1 is being processed, 2 an error
  fat,     \* where the caller is
  fchain,  \* its chain
  next,    \* the next item of the source
  pat,     \* where the visits are
  wchain,  \* their chain
  pos,     \* and their place in it
  stage,   \* tdatas[1], before its first visit, and tdatas[2], before its second
  todo,    \* the visits left in pchain_step, as places of stage
  need,    \* need_release
  done,    \* the items that are finished, in that order
  failed,  \* a visit has failed
  result   \* what the call did with the copy on disk

caller  == <<fat, fchain, next>>
visits  == <<pat, wchain, pos, stage, todo, need>>
outcome == <<done, failed, result>>
vars    == <<setup, slot, seen, count, state, caller, visits, outcome>>

NoSlot  == <<0, 0>>
NoChain == 0
\* Both pipelines use the same chains here, pl_pipeline1 only the first one.
Width   == IF ChainSize < SingleSize THEN SingleSize ELSE ChainSize
Slots   == (1 .. Chains) \X (1 .. Width)
Empty   == [k \in 1 .. 2 |-> NoSlot]

After(c) == (c % Chains) + 1

Bucket(s) == BucketOf[slot[s]]

Ignored == IF setup.minus THEN Minus ELSE {}

\* Where the caller and the visits begin, with the source at item n.
InitAt(f, p, n) ==
  /\ setup \in Setups
  /\ slot = [s \in Slots |-> 0] /\ seen = {}
  /\ count = [c \in 1 .. Chains |-> 0] /\ state = [c \in 1 .. Chains |-> 0]
  /\ fat = f /\ fchain = 1 /\ next = n /\ pat = p
  /\ wchain = 1 /\ pos = 1 /\ stage = Empty /\ todo = <<>> /\ need = NoChain
  /\ done = [i \in 1 .. n - 1 |-> i] /\ failed = FALSE /\ result = "none"

Init ==
  \/ InitAt("first", "off", 1) /\ setup.multicore
  \/ InitAt("join", "single", 1) /\ ~setup.multicore

\* A call that has returned, one for all.
InitReturned ==
  InitAt("returned", "ended", Items + 1) /\ setup = CHOOSE s \in Setups : TRUE

-----------------------------------------------------------------------------
\* get_cb and encode: the entry gets the next item, its reference is reset.
Put(s) ==
  /\ slot' = [slot EXCEPT ![s] = next]
  /\ seen' = seen \ {s}
  /\ next' = next + 1

Fill(c) ==
  /\ next <= Items
  /\ Put(<<c, count[c] + 1>>)
  /\ count' = [count EXCEPT ![c] = @ + 1]

\* The first chain is filled before the thread is there.
FillFirst ==
  /\ fat = "first" /\ Fill(1)
  /\ fat' = IF count'[1] = ChainSize THEN "start" ELSE "first"
  /\ UNCHANGED <<state, fchain, visits, outcome>>

FirstEnds ==
  /\ fat = "first" /\ next > Items /\ fat' = "start"
  /\ UNCHANGED <<slot, seen, count, state, fchain, next, visits, outcome>>

Start ==
  /\ fat = "start"
  /\ IF count[1] = 0
     THEN fat' = "join" /\ pat' = "ended" /\ UNCHANGED <<state, fchain>>
     ELSE /\ state' = [state EXCEPT ![1] = 1] /\ fchain' = After(1)
          /\ fat' = "fill" /\ pat' = "top"
  /\ UNCHANGED <<slot, seen, count, next, wchain, pos, stage, todo, need, outcome>>

HandOver(c) == state' = [state EXCEPT ![c] = 1]

FillNext ==
  /\ fat = "fill" /\ Fill(fchain)
  /\ IF count'[fchain] = ChainSize
     THEN HandOver(fchain) /\ fchain' = After(fchain) /\ fat' = "wait"
     ELSE UNCHANGED <<state, fchain, fat>>
  /\ UNCHANGED <<visits, outcome>>

\* A mistake: the next chain is taken without waiting for it.
WaitNot ==
  /\ fat = "wait" /\ fat' = "fill"
  /\ count' = [count EXCEPT ![fchain] = 0]
  /\ UNCHANGED <<slot, seen, state, fchain, next, visits, outcome>>

Wait ==
  /\ fat = "wait" /\ state[fchain] # 1
  /\ IF state[fchain] = 2
     THEN fat' = "join" /\ UNCHANGED count
     ELSE fat' = "fill" /\ count' = [count EXCEPT ![fchain] = 0]
  /\ UNCHANGED <<slot, seen, state, fchain, next, visits, outcome>>

\* A mistake: the last chain is not followed by an empty one.
FillEndsShort ==
  /\ fat = "fill" /\ next > Items
  /\ HandOver(fchain) /\ fat' = "join"
  /\ UNCHANGED <<slot, seen, count, fchain, next, visits, outcome>>

\* An empty chain ends the work; the last one may be it.
FillEnds ==
  /\ fat = "fill" /\ next > Items
  /\ HandOver(fchain)
  /\ IF count[fchain] > 0
     THEN fchain' = After(fchain) /\ fat' = "wait_last"
     ELSE fat' = "join" /\ UNCHANGED fchain
  /\ UNCHANGED <<slot, seen, count, next, visits, outcome>>

WaitLast ==
  /\ fat = "wait_last" /\ state[fchain] # 1 /\ fat' = "join"
  /\ IF state[fchain] = 2
     THEN UNCHANGED <<count, state>>
     ELSE count' = [count EXCEPT ![fchain] = 0] /\ HandOver(fchain)
  /\ UNCHANGED <<slot, seen, fchain, next, visits, outcome>>

\* The thread is joined and the set unlocked.  pl_pipeline answers 1 for an
\* error: sing_add_keys makes a negative code of it and the set is taken back,
\* sing_add_file does not, and lck_processUnlock flushes.
Join ==
  /\ fat = "join" /\ pat \in {"ended", "failed"} /\ fat' = "returned"
  /\ result' = IF pat = "failed" /\ ~setup.file THEN "reverted" ELSE "flushed"
  /\ UNCHANGED <<slot, seen, count, state, fchain, next, visits, done, failed>>

-----------------------------------------------------------------------------
\* A mistake: the chains are not compared.
OrderNew(st) == SelectSeq(<<1, 2>>, LAMBDA k : st[k] # NoSlot)

\* The visits of one pchain_step: the new entry first, except when it could
\* only wait for the chain that the older one has locked.
Order(st) ==
  IF st[1] = NoSlot THEN (IF st[2] = NoSlot THEN <<>> ELSE <<2>>)
  ELSE IF st[2] = NoSlot THEN <<1>>
  ELSE IF Bucket(st[1]) = Bucket(st[2]) THEN <<2, 1>> ELSE <<1, 2>>

\* lck_tryChainLock calls itself when spinlocks are in use, and never returns:
\* no action leaves "try".
Tries(st) == setup.spin /\ Len(Order(st)) = 2 /\ Order(st)[1] = 1

\* Take st as the stage, make the visits and go on at `place'.
Step(st, place) ==
  /\ stage' = st
  /\ todo' = Order(st)
  /\ pat' = IF Tries(st) THEN "try" ELSE place

Idle == todo = <<>>

Finish(k) ==
  /\ done' = Append(done, slot[stage[k]])
  /\ stage' = [stage EXCEPT ![k] = NoSlot]
  /\ todo' = Tail(todo)

\* The callback is done with the item.
VisitDone(k) ==
  /\ slot[stage[k]] \notin Ignored
  /\ Finish(k)
  /\ UNCHANGED <<pat, seen, state, failed>>

\* It goes on behind the hash table, which only a first visit finds.
VisitLater(k) ==
  /\ stage[k] \notin seen /\ slot[stage[k]] \notin Ignored
  /\ seen' = seen \cup {stage[k]} /\ todo' = Tail(todo)
  /\ UNCHANGED <<pat, stage, state, done, failed>>

\* It answers 0 for an operation that it does not do, and the reference of
\* the chain, which is NULL, is followed.
VisitNothing(k) ==
  /\ slot[stage[k]] \in Ignored
  /\ pat' = "crashed" /\ todo' = <<>>
  /\ UNCHANGED <<stage, seen, state, done, failed>>

\* No memory: the chain that cannot be released any more is marked.
VisitFails(k) ==
  /\ Errors /\ slot[stage[k]] \notin Ignored
  /\ failed' = TRUE /\ pat' = "failed" /\ todo' = <<>>
  /\ state' = IF ~setup.multicore THEN state
              ELSE [state EXCEPT ![IF pat = "shift" THEN wchain ELSE need] = 2]
  /\ UNCHANGED <<stage, seen, done>>

Visit ==
  /\ todo # <<>> /\ pat # "try"
  /\ LET k == Head(todo) IN
       VisitDone(k) \/ VisitLater(k) \/ VisitNothing(k) \/ VisitFails(k)
  /\ UNCHANGED <<slot, count, caller, wchain, pos, need, result>>

-----------------------------------------------------------------------------
Shifted(new) == [k \in 1 .. 2 |-> IF k = 1 THEN new ELSE stage[1]]

\* process_thread looks at its chain: while it waits, what is left of the
\* chain before is finished and that chain given back.
Top ==
  /\ pat = "top" /\ Idle
  /\ \/ state[wchain] = 0 /\ need # NoChain /\ Step(stage, "tail")
     \/ state[wchain] # 0 /\ pos' = 1 /\ pat' = "begin" /\ UNCHANGED <<stage, todo>>
  /\ state[wchain] = 0 => UNCHANGED pos
  /\ UNCHANGED <<slot, seen, count, state, caller, wchain, need, outcome>>

TailShift ==
  /\ pat = "tail" /\ Idle
  /\ Step(Shifted(NoSlot), "tail_end")
  /\ UNCHANGED <<slot, seen, count, state, caller, wchain, pos, need, outcome>>

TailEnd ==
  /\ pat = "tail_end" /\ Idle
  /\ stage' = Empty
  /\ IF ~setup.multicore \/ count[need] = 0
     THEN pat' = "ended" /\ UNCHANGED <<state, need>>
     ELSE /\ state' = [state EXCEPT ![need] = 0] /\ need' = NoChain
          /\ pat' = "top"
  /\ UNCHANGED <<slot, seen, count, caller, wchain, pos, todo, outcome>>

\* The first two entries of a chain push the last two of the chain before out.
Entry(n) == IF n <= count[wchain] THEN <<wchain, n>> ELSE NoSlot

Begin ==
  /\ pat = "begin" /\ Idle
  /\ IF need = NoChain
     THEN pat' = "loop" /\ UNCHANGED <<stage, todo>>
     ELSE Step(stage, "carry")
  /\ UNCHANGED <<slot, seen, count, state, caller, wchain, pos, need, outcome>>

\* A mistake: the chain before is given back after one step.
CarryGives ==
  /\ pat = "carry" /\ Idle
  /\ Step(Shifted(Entry(1)), "carried")
  /\ state' = [state EXCEPT ![need] = 0]
  /\ UNCHANGED <<slot, seen, count, caller, wchain, pos, need, outcome>>

Carry ==
  /\ pat = "carry" /\ Idle
  /\ Step(Shifted(Entry(1)), "carried")
  /\ UNCHANGED <<slot, seen, count, state, caller, wchain, pos, need, outcome>>

Carried ==
  /\ pat = "carried" /\ Idle
  /\ stage' = Shifted(Entry(2))
  /\ state' = [state EXCEPT ![need] = 0]
  /\ pos' = 3 /\ pat' = "loop"
  /\ UNCHANGED <<slot, seen, count, caller, wchain, todo, need, outcome>>

Loop ==
  /\ pat = "loop" /\ Idle /\ pos <= count[wchain]
  /\ Step(stage, "shift")
  /\ UNCHANGED <<slot, seen, count, state, caller, wchain, pos, need, outcome>>

Shift ==
  /\ pat = "shift" /\ Idle
  /\ stage' = Shifted(<<wchain, pos>>) /\ pos' = pos + 1 /\ pat' = "loop"
  /\ UNCHANGED <<slot, seen, count, state, caller, wchain, todo, need, outcome>>

LoopEnds ==
  /\ pat = "loop" /\ Idle /\ pos > count[wchain]
  /\ need' = wchain /\ wchain' = After(wchain)
  /\ IF count[wchain] = 0
     THEN Step(stage, "tail")
     ELSE pat' = "top" /\ UNCHANGED <<stage, todo>>
  /\ UNCHANGED <<slot, seen, count, state, caller, pos, outcome>>

-----------------------------------------------------------------------------
\* pl_pipeline1: one entry is read and one step made, in turn.
SingleGet ==
  /\ pat = "single" /\ Idle /\ next <= Items
  /\ Put(<<1, pos>>)
  /\ Step(stage, "single_shift")
  /\ UNCHANGED <<count, state, fat, fchain, wchain, pos, need, outcome>>

SingleShift ==
  /\ pat = "single_shift" /\ Idle
  /\ stage' = Shifted(<<1, pos>>) /\ pos' = (pos % SingleSize) + 1
  /\ pat' = "single"
  /\ UNCHANGED <<slot, seen, count, state, caller, wchain, todo, need, outcome>>

SingleEnds ==
  /\ pat = "single" /\ Idle /\ next > Items
  /\ Step(stage, "tail")
  /\ UNCHANGED <<slot, seen, count, state, caller, wchain, pos, need, outcome>>

-----------------------------------------------------------------------------
Caller == FillFirst \/ FirstEnds \/ Start \/ FillNext \/ Wait \/ FillEnds
          \/ WaitLast \/ Join

Worker == Visit \/ Top \/ TailShift \/ TailEnd \/ Begin \/ Carry \/ Carried
          \/ Loop \/ Shift \/ LoopEnds \/ SingleGet \/ SingleShift \/ SingleEnds

Next == (Caller \/ Worker) /\ UNCHANGED setup

Spec == Init /\ [][Next]_vars

\* Both threads run; neither ever waits for more than the other's store.
Fairness == WF_vars(Caller /\ UNCHANGED setup) /\ WF_vars(Worker /\ UNCHANGED setup)

-----------------------------------------------------------------------------
TypeOK ==
  /\ setup \in Setups
  /\ slot \in [Slots -> 0 .. Items] /\ seen \subseteq Slots
  /\ count \in [1 .. Chains -> 0 .. ChainSize] /\ state \in [1 .. Chains -> 0 .. 2]
  /\ fchain \in 1 .. Chains /\ next \in 1 .. Items + 1
  /\ wchain \in 1 .. Chains /\ pos \in 1 .. Width + 2
  /\ stage \in [1 .. 2 -> Slots \cup {NoSlot}]
  /\ todo \in {<<>>, <<1>>, <<2>>, <<1, 2>>, <<2, 1>>}
  /\ need \in 0 .. Chains
  /\ failed \in BOOLEAN /\ result \in {"none", "flushed", "reverted"}

DoneItems == {done[i] : i \in 1 .. Len(done)}

\* Every item is done once, and when a call returns without an error all of
\* them are: no block is filled again before its entries are finished.  A call
\* for several keys that fails takes the set back to its copy on disk
\* (sing_add_keys, lck_processUnlock); a call for a file that fails does not.
DoneOnce ==
  /\ Len(done) = Cardinality(DoneItems) /\ DoneItems \subseteq 1 .. next - 1
  /\ fat = "returned" /\ ~failed => DoneItems = 1 .. Items
  /\ fat = "returned" /\ failed /\ ~setup.file => result = "reverted"

\* Two operations on the keys of a chain are done in the order of the source,
\* whatever overtakes them ("-key" and "+key" of a file).
InOrder ==
  \A i, j \in 1 .. Len(done) :
    i < j /\ BucketOf[done[i]] = BucketOf[done[j]] => done[i] < done[j]

\* The entry of an item that is still to be visited is not filled again, and
\* not by a block that the other thread works on.
EntriesKept ==
  [][\A k \in 1 .. 2 :
       stage[k] # NoSlot => slot'[stage[k]] = slot[stage[k]]]_vars

\* No visit follows a reference that was never set.  Not kept where lines with
\* `-' are skipped.
NeverCrashes == pat # "crashed"

\* The call ends, with an error too: nobody waits for a block that is not
\* given back.  It takes a set without spinlocks and a source without `-'.
PipelineEnds == ~setup.spin /\ ~setup.minus => <>(fat = "returned")
=============================================================================
