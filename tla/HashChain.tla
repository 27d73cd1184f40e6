------------------------------ MODULE HashChain ------------------------------
(***************************************************************************)
(* One chain of the hash table (index.c), read without locks while it is   *)
(* changed.                                                                *)
(*                                                                         *)
(* A chain begins with headers in the slots of a table block, which it     *)
(* shares with the chain that grows from the other end.  The slot after    *)
(* them holds the reference to its first piece outside.  A piece is a run  *)
(* of headers in a block of Last + 1 places: the last header of the chain  *)
(* carries chain_stop; a piece that fills its block and is not the last    *)
(* holds the reference to the next one in its last place.                  *)
(*                                                                         *)
(* The writer has the lock of the chain and the memory lock.  An operation *)
(* is the sequence of its stores, each one visible to the readers at once, *)
(* with the waits for readers in between.  The lock of the readers is      *)
(* ReadSections, which ReaderLock implements.                              *)
(***************************************************************************)
EXTENDS Integers, Sequences, FiniteSets

CONSTANTS
  Keys,       \* keys of this chain
  Readers,    \* threads that read the chain
  Slots,      \* headers in a table block (KEYHEADS_IN_BLOCK)
  Blocks,     \* numbers of the header blocks
  Setups,     \* what goes on: see setup
  NoRef,      \* KH_ZERO_REF
  Hole,       \* what a free place holds
  Other,      \* a header of another chain
  Nothing     \* no header in hand

ASSUME HashChainAssumption ==
  /\ Slots \in Nat \ {0}
  /\ \A s \in Setups :
       /\ s.keys \subseteq Keys /\ Cardinality(s.keys) > 1
       /\ s.reads \subseteq {"get", "dump"} /\ s.deletes \subseteq {"del", "unmarked"}
       /\ s.last \in Nat \ {0} /\ s.taken \subseteq Blocks \X (0..s.last)
       /\ s.others \in 0..(Slots - 1) /\ s.timeouts \in BOOLEAN

VARIABLES
  setup,    \* one of Setups: the keys that are used, what readers do (reads), the
            \* last place of a block (last, KH_BLOCK_LAST), the places of other
            \* chains (taken), a bound of the table slots that the other chain
            \* takes (others), the deletions that are used (deletes), and
            \* whether the writer's patience may end (timeouts)
  tab,      \* the headers in the table block
  link,     \* the reference in the slot after them
  others,   \* slots the other chain has taken from the other end
  mem,      \* the header blocks
  live,     \* <<key, rest>> whose memory is allocated
  todo,     \* what is left of the writer's operation
  section, mode, waited,  \* the lock of the readers
  pc,       \* where each reader is
  at,       \* the slot or place it reads next
  held,     \* the header it has read
  out,      \* what a dumper has written
  torn,     \* history: readers that used the key or value of a freed header
  stray,    \* history: readers that read what is no header of the chain
  asked, always, ever, answer  \* history: see KeySet

chain    == <<tab, link, mem>>
lock     == <<section, mode, waited>>
readers  == <<pc, at, held, out, answer, asked>>
vars     == <<setup, chain, others, live, todo, lock, readers, torn, stray, always, ever>>

Lock == INSTANCE ReadSections

Last    == setup.last
Places  == Blocks \X (0..Last)
Header  == [key : setup.keys, rest : 0..1, stop : BOOLEAN]
Link    == [next : Places \cup {NoRef}]

-----------------------------------------------------------------------------
(* The chain as the writer sees it.                                         *)

\* The places from reference ref to the end of the chain.
PlacesFrom(ref) ==
  LET f[p \in Places \cup {NoRef}, n \in 0..Cardinality(Places)] ==
        IF p = NoRef \/ n = 0 THEN <<>>
        ELSE IF mem[p] \in Link THEN f[mem[p].next, n - 1]
        ELSE IF mem[p] \notin Header \/ mem[p].stop \/ p[2] = Last THEN <<p>>
        ELSE <<p>> \o f[<<p[1], p[2] + 1>>, n - 1]
  IN  f[ref, Cardinality(Places)]

Path == PlacesFrom(link)
End  == Path[Len(Path)]
LastHeader == IF Path = <<>> THEN tab[Len(tab)] ELSE mem[End]

\* The last piece: how long it is, where it starts and what refers to it.
Piece     == Cardinality({i \in DOMAIN Path : Path[i][1] = End[1]})
PieceNum  == End[2] + 1 - Piece
PrevPlace == <<Path[Len(Path) - Piece][1], Last>>
HasPrev   == Len(Path) > Piece

\* What a search finds, in the table and behind it.
TableKeys   == {tab[i].key : i \in DOMAIN tab}
InTable(k)  == k \in TableKeys
PathKeys    == LET path  == Path
                   heads == {i \in DOMAIN path : mem[path[i]] \in Header}
               IN  {mem[path[i]].key : i \in heads}
Content     == TableKeys \cup PathKeys

SlotOf(k)   == CHOOSE i \in DOMAIN tab : tab[i].key = k
PlaceOf(k)  == CHOOSE p \in Places : mem[p] \in Header /\ mem[p].key = k

NewHeader(k) ==
  [key |-> k, rest |-> CHOOSE i \in 0..1 : <<k, i>> \notin live, stop |-> TRUE]
Rest(h) == <<h.key, h.rest>>

\* A dump is about all keys, a search about one.
Dumps(r) == asked[r] = setup.keys

-----------------------------------------------------------------------------
(* The steps of an operation.                                               *)

PutSlot(i, w) == [do |-> "slot", at |-> i, word |-> w]
CutSlot       == [do |-> "cut", at |-> NoRef, word |-> NoRef]
PutLink(ref)  == [do |-> "link", at |-> NoRef, word |-> ref]
Put(p, w)     == [do |-> "put", at |-> p, word |-> w]
Stop(p)       == [do |-> "stop", at |-> p, word |-> TRUE]
Unstop(p)     == [do |-> "stop", at |-> p, word |-> FALSE]
Free(ps)      == [do |-> "free", at |-> ps, word |-> Hole]
FreeRest(h)   == [do |-> "rest", at |-> NoRef, word |-> Rest(h)]
\* lck_waitForReaders with the hash of the chain and with LCK_NO_DELETION
WaitHash      == [do |-> "wait", at |-> NoRef, word |-> TRUE]
Wait          == [do |-> "wait", at |-> NoRef, word |-> FALSE]

PutRef(ref) == IF HasPrev THEN Put(PrevPlace, [next |-> ref]) ELSE PutLink(ref)

Doing(d)     == todo # <<>> /\ Head(todo).do = d

Store ==
  /\ todo # <<>>
  /\ LET s == Head(todo)
     IN  \/ /\ s.do = "slot"
            /\ tab' = IF s.at > Len(tab) THEN Append(tab, s.word)
                                         ELSE [tab EXCEPT ![s.at] = s.word]
            /\ UNCHANGED <<link, mem>>
         \/ s.do = "cut" /\ tab' = SubSeq(tab, 1, Len(tab) - 1) /\ UNCHANGED <<link, mem>>
         \/ s.do = "link" /\ link' = s.word /\ UNCHANGED <<tab, mem>>
         \/ s.do = "put" /\ mem' = [mem EXCEPT ![s.at] = s.word] /\ UNCHANGED <<tab, link>>
         \/ s.do = "stop" /\ mem' = [mem EXCEPT ![s.at].stop = s.word] /\ UNCHANGED <<tab, link>>
         \/ /\ s.do = "free"
            /\ mem' = [p \in Places |-> IF p \in s.at THEN Hole ELSE mem[p]]
            /\ UNCHANGED <<tab, link>>
  /\ todo' = Tail(todo)
  /\ UNCHANGED <<others, live, lock, readers, torn, stray>>

\* _del_key_rest, or idx_general_free of an old value: who still holds the
\* header with a good lock reads freed memory.
StoreRest ==
  /\ Doing("rest")
  /\ live' = live \ {Head(todo).word}
  /\ torn' = torn \cup {r \in Readers : section[r] = "in" /\ held[r] # Nothing
                                        /\ Rest(held[r]) = Head(todo).word}
  /\ todo' = Tail(todo)
  /\ UNCHANGED <<chain, others, lock, readers, stray>>

BeginWait ==
  /\ Doing("wait") /\ Lock!BeginWait
  /\ UNCHANGED <<chain, others, live, todo, readers, torn, stray>>

EndWait ==
  /\ Doing("wait") /\ Lock!EndWait
  /\ todo' = Tail(todo)
  /\ UNCHANGED <<chain, others, live, readers, torn, stray>>

WaitTimeout ==
  /\ setup.timeouts /\ Doing("wait") /\ waited # {} /\ Lock!Expire
  /\ UNCHANGED <<chain, others, live, todo, readers, torn, stray>>

Quiet == UNCHANGED <<chain, others, lock, readers, torn, stray>>

-----------------------------------------------------------------------------
(* idx_key_try_set and idx_key_set.  The new header was filled with         *)
(* chain_stop set; Runs are the free places the allocator may return.       *)

Runs(n) == {ps \in {[i \in 1..n |-> <<b, s + i - 1>>] : b \in Blocks, s \in 0..(Last + 1 - n)} :
              \A i \in 1..n : mem[ps[i]] = Hole}

\* _replace_value, _append_phantom, _remove_phantom: the header gets its new
\* rest by one store, idx_op_finalize frees the old one.
SetFound(k) ==
  /\ k \in Content
  /\ LET old == IF InTable(k) THEN tab[SlotOf(k)] ELSE mem[PlaceOf(k)]
         new == [old EXCEPT !.rest = 1 - @]
     IN  /\ todo' = <<IF InTable(k) THEN PutSlot(SlotOf(k), new) ELSE Put(PlaceOf(k), new),
                    Wait, FreeRest(old)>>
         /\ live' = live \cup {Rest(new)}
  /\ Quiet

New(k, steps) ==
  /\ k \notin Content
  /\ todo' = steps
  /\ live' = live \cup {Rest(NewHeader(k))}
  /\ Quiet

CanGrow == link = NoRef /\ Len(tab) + 2 <= Slots - others

SetInTable(k) == CanGrow /\ New(k, <<PutSlot(Len(tab) + 1, NewHeader(k))>>)

\* Wrong: the reference is stored before the header it leads to.
SetFirstLinkFirst(k) ==
  /\ link = NoRef /\ ~CanGrow
  /\ \E run \in Runs(1) : New(k, <<PutLink(run[1]), Put(run[1], NewHeader(k))>>)

SetFirst(k) ==
  /\ link = NoRef /\ ~CanGrow
  /\ \E run \in Runs(1) : New(k, <<Put(run[1], NewHeader(k)), PutLink(run[1])>>)

IsHole(num) == num \in 0..Last /\ mem[<<End[1], num>>] = Hole
Below  == <<End[1], PieceNum - 1>>
Above  == <<End[1], End[2] + 1>>
DownFirst == PieceNum = 1 /\ IsHole(0)

ExpandUp(k) ==
  /\ Path # <<>> /\ ~DownFirst /\ IsHole(End[2] + 1)
  /\ New(k, <<Put(Above, NewHeader(k)), Unstop(End)>>)

\* Wrong: chain_stop of the header that becomes the first stays set.
ExpandDownStopped(k) ==
  /\ Path # <<>> /\ (DownFirst \/ ~IsHole(End[2] + 1)) /\ IsHole(PieceNum - 1)
  /\ New(k, <<Put(Below, NewHeader(k)), PutRef(Below)>>)

ExpandDown(k) ==
  /\ Path # <<>> /\ (DownFirst \/ ~IsHole(End[2] + 1)) /\ IsHole(PieceNum - 1)
  /\ New(k, <<Put(Below, [NewHeader(k) EXCEPT !.stop = FALSE]), PutRef(Below)>>)

\* The last piece as it is copied to run, with the new header behind it.
Copied(run, k) ==
  [i \in 1..(Piece + 1) |->
     Put(run[i], IF i > Piece THEN NewHeader(k)
                 ELSE [mem[<<End[1], PieceNum + i - 1>>] EXCEPT !.stop = FALSE])]

PiecePlaces == {<<End[1], n>> : n \in PieceNum..End[2]}

\* Wrong: the old place is free at once.
MoveChainNoWait(k) ==
  /\ Path # <<>> /\ Piece <= Last /\ ~IsHole(End[2] + 1) /\ ~IsHole(PieceNum - 1)
  /\ \E run \in Runs(Piece + 1) :
       New(k, Copied(run, k) \o <<PutRef(run[1]), Free(PiecePlaces)>>)

MoveChain(k) ==
  /\ Path # <<>> /\ Piece <= Last /\ ~IsHole(End[2] + 1) /\ ~IsHole(PieceNum - 1)
  /\ \E run \in Runs(Piece + 1) :
       New(k, Copied(run, k) \o <<PutRef(run[1]), Wait, Free(PiecePlaces)>>)

AppendToFull(k) ==
  /\ Path # <<>> /\ Piece = Last + 1
  /\ \E run \in Runs(2) :
       New(k, <<Put(run[1], [mem[End] EXCEPT !.stop = FALSE]), Put(run[2], NewHeader(k)),
                Put(End, [next |-> run[1]])>>)

-----------------------------------------------------------------------------
(* idx_key_del.  The last header of the chain is copied over the one to     *)
(* delete; when the readers that could miss it are gone, its old place goes *)
(* too.                                                                     *)

Drop(k, steps) == k \in Content /\ todo' = steps /\ UNCHANGED live /\ Quiet

Victim(k) == IF InTable(k) THEN tab[SlotOf(k)] ELSE mem[PlaceOf(k)]
Gone(k)   == FreeRest(Victim(k))

CopyOver(k, stop) ==
  LET w == [LastHeader EXCEPT !.stop = stop]
  IN  IF InTable(k) THEN PutSlot(SlotOf(k), w) ELSE Put(PlaceOf(k), w)

IsLast(k) == LastHeader.key = k
Before    == <<End[1], End[2] - 1>>
Block2    == HasPrev /\ Piece = 2

\* The header that stays of a last piece of two takes the place of the reference.
Fold(h) == Put(PrevPlace, [h EXCEPT !.stop = TRUE])

DelFromHashTable(k) ==
  /\ Path = <<>> /\ InTable(k)
  /\ Drop(k, IF IsLast(k) THEN <<CutSlot, Wait, Gone(k)>>
             ELSE <<CopyOver(k, TRUE), WaitHash, CutSlot, Gone(k)>>)

\* Wrong: the reference in the table is left.
DelOneAfterHashTableLinked(k) ==
  /\ Len(Path) = 1 /\ InTable(k)
  /\ Drop(k, <<CopyOver(k, TRUE), WaitHash, Wait, Free({End}), Gone(k)>>)

DelOneAfterHashTable(k) ==
  /\ Len(Path) = 1 /\ InTable(k)
  /\ Drop(k, <<CopyOver(k, TRUE), WaitHash, PutLink(NoRef), Wait, Free({End}), Gone(k)>>)

DelLastAfterHashTable(k) ==
  /\ Len(Path) = 1 /\ ~InTable(k)
  /\ Drop(k, <<PutLink(NoRef), Wait, Free({End}), Gone(k)>>)

DelLastInBlock2(k) ==
  /\ Len(Path) > 1 /\ Block2 /\ IsLast(k)
  /\ Drop(k, <<Fold(mem[Before]), WaitHash, Free({Before, End}), Gone(k)>>)

DelLastInChain(k) ==
  /\ Len(Path) > 1 /\ ~Block2 /\ IsLast(k)
  /\ Drop(k, <<Stop(Before), Wait, Free({End}), Gone(k)>>)

DelFromChainBlock2(k) ==
  /\ Len(Path) > 1 /\ Block2 /\ ~IsLast(k)
  /\ LET stays == IF ~InTable(k) /\ PlaceOf(k) = Before THEN LastHeader ELSE mem[Before]
     IN  Drop(k, <<CopyOver(k, FALSE), WaitHash, Fold(stays), Gone(k), Wait,
                   Free({Before, End})>>)

DelFromChain(k) ==
  /\ Len(Path) > 1 /\ ~Block2 /\ ~IsLast(k)
  /\ Drop(k, <<CopyOver(k, FALSE), WaitHash, Stop(Before), Gone(k), Wait, Free({End})>>)

\* del_unmarked_from_hash_chain: a header that is the last one is waited for
\* before it is taken out of the chain.
DelUnmarked(k) ==
  /\ k \in Content
  /\ LET first == IF IsLast(k) THEN <<Wait>> ELSE <<CopyOver(k, FALSE), WaitHash>>
         stays == IF ~InTable(k) /\ ~IsLast(k) /\ PlaceOf(k) = Before
                  THEN LastHeader ELSE mem[Before]
     IN  Drop(k, first \o
           (IF Path = <<>> THEN <<CutSlot, Gone(k)>>
            ELSE IF Len(Path) = 1 THEN <<PutLink(NoRef), Gone(k), Wait, Free({End})>>
            ELSE IF Block2 THEN <<Fold(stays), Gone(k), Wait, Free({Before, End})>>
            ELSE <<Stop(Before), Gone(k), Wait, Free({End})>>))

-----------------------------------------------------------------------------
(* The chain at the other end of the table block, under the memory lock.    *)

OtherGrows ==
  /\ others < setup.others /\ Len(tab) + others + 2 <= Slots
  /\ others' = others + 1
  /\ UNCHANGED <<chain, live, todo, lock, readers, torn, stray>>

OtherShrinks ==
  /\ others > 0
  /\ others' = others - 1
  /\ UNCHANGED <<chain, live, todo, lock, readers, torn, stray>>

-----------------------------------------------------------------------------
(* What a reader loads by one access to a slot or a place.                  *)

Slot(i) == IF i <= Len(tab) THEN tab[i]
           ELSE IF i > Slots - others THEN Other
           ELSE [next |-> IF i = Len(tab) + 1 THEN link ELSE NoRef]

\* Slot i of the table block is <<0, i>>.
TableStart == <<0, 1>>
Next1(a)   == <<a[1], a[2] + 1>>

Goto(r, p, a) ==
  /\ pc' = [pc EXCEPT ![r] = p]
  /\ at' = [at EXCEPT ![r] = a]
  /\ held' = [held EXCEPT ![r] = Nothing]
  /\ UNCHANGED torn

Hold(r, p, a, h) ==
  /\ pc' = [pc EXCEPT ![r] = p]
  /\ at' = [at EXCEPT ![r] = a]
  /\ held' = [held EXCEPT ![r] = h]
  /\ torn' = IF section[r] = "in" /\ Rest(h) \notin live THEN torn \cup {r} ELSE torn

\* A reader whose lock is good reads a free place or another chain.
Strayed(r) == stray' = IF section[r] = "in" THEN stray \cup {r} ELSE stray

ReaderOnly == UNCHANGED <<chain, others, live, todo>>
Still      == UNCHANGED <<lock, out, answer, asked>>

Ask(r, keys) ==
  /\ pc[r] = "idle" /\ Lock!Enter(r)
  /\ asked' = [asked EXCEPT ![r] = keys]
  /\ answer' = [answer EXCEPT ![r] = {}]
  /\ Goto(r, "slot", TableStart)
  /\ UNCHANGED <<out, stray>> /\ ReaderOnly

Retry(r) ==
  /\ pc[r] = "lock" /\ Lock!Enter(r)
  /\ Goto(r, "slot", TableStart)
  /\ UNCHANGED <<out, answer, asked, stray>> /\ ReaderOnly

\* The end of a call.
Tell(r, found) ==
  /\ Lock!Leave(r)
  /\ answer' = [answer EXCEPT ![r] = found]
  /\ asked'  = [asked EXCEPT ![r] = {}]
  /\ out'    = [out EXCEPT ![r] = <<>>]
  /\ Goto(r, "idle", TableStart)

\* The lock was lost: once more from the beginning.
Again(r) ==
  /\ Lock!Leave(r)
  /\ out' = [out EXCEPT ![r] = <<>>]
  /\ Goto(r, "lock", TableStart)
  /\ UNCHANGED <<answer, asked>>

-----------------------------------------------------------------------------
(* _key_search_R                                                            *)

Sought(g) == CHOOSE k \in asked[g] : TRUE

SearchSlot(g) ==
  /\ pc[g] = "slot"
  /\ LET w == Slot(at[g][2])
     IN  \/ w \in Header /\ w.key = Sought(g) /\ Hold(g, "value", at[g], w) /\ UNCHANGED stray
         \/ w \in Header /\ w.key # Sought(g) /\ Goto(g, "slot", Next1(at[g])) /\ UNCHANGED stray
         \/ w = Other /\ Goto(g, "missing", at[g]) /\ Strayed(g)
         \/ w \in Link /\ w.next = NoRef /\ Goto(g, "missing", at[g]) /\ UNCHANGED stray
         \/ w \in Link /\ w.next # NoRef /\ Goto(g, "check", w.next) /\ UNCHANGED stray
  /\ Still /\ ReaderOnly

\* lck_readerCheck before a reference is followed
SearchCheck(g) ==
  /\ pc[g] = "check"
  /\ \/ section[g] = "in" /\ Goto(g, "place", at[g]) /\ Still
     \/ section[g] = "lost" /\ Again(g)
  /\ UNCHANGED stray /\ ReaderOnly

SearchPlace(g) ==
  /\ pc[g] = "place"
  /\ LET p == at[g]
         w == mem[p]
     IN  \/ w \in Header /\ w.key = Sought(g) /\ Hold(g, "value", p, w) /\ UNCHANGED stray
         \/ /\ w \in Header /\ w.key # Sought(g)
            /\ IF w.stop \/ p[2] = Last THEN Goto(g, "missing", at[g])
                                        ELSE Goto(g, "place", Next1(p))
            /\ UNCHANGED stray
         \/ w \in Link /\ Goto(g, "check", w.next) /\ UNCHANGED stray
         \/ w \in {Hole, Other} /\ Strayed(g) /\ \E next \in {"missing", "value"} :
              Goto(g, next, p)
  /\ Still /\ ReaderOnly

\* Wrong: the result of the unlock is not looked at.
FoundBlind(g) ==
  /\ pc[g] = "value" /\ Tell(g, asked[g])
  /\ UNCHANGED stray /\ ReaderOnly

\* idx_key_search, idx_key_get, idx_key_compare and idx_key_get_cb unlock when
\* they have used the value, and search again when the lock was lost.
Found(g) ==
  /\ pc[g] = "value"
  /\ \/ section[g] = "in" /\ Tell(g, asked[g])
     \/ section[g] = "lost" /\ Again(g)
  /\ UNCHANGED stray /\ ReaderOnly

\* A search that finds nothing unlocks by itself and drops the result.
Missing(g) ==
  /\ pc[g] = "missing" /\ Tell(g, {})
  /\ UNCHANGED stray /\ ReaderOnly

-----------------------------------------------------------------------------
(* dump_hash_chain, called by idx_dump_all until it succeeds                *)

DumpSlot(d) ==
  /\ pc[d] = "slot"
  /\ LET w == Slot(at[d][2])
     IN  \/ w \in Header /\ Hold(d, "write", at[d], w) /\ UNCHANGED stray
         \/ w = Other /\ Goto(d, "end", at[d]) /\ Strayed(d)
         \/ w \in Link /\ w.next = NoRef /\ Goto(d, "end", at[d]) /\ UNCHANGED stray
         \/ w \in Link /\ w.next # NoRef /\ Goto(d, "place", w.next) /\ UNCHANGED stray
  /\ Still /\ ReaderOnly

DumpPlace(d) ==
  /\ pc[d] = "place"
  /\ LET w == mem[at[d]]
     IN  \/ w \in Header /\ Hold(d, "write", at[d], w) /\ UNCHANGED stray
         \/ w \in Link /\ Goto(d, "place", w.next) /\ UNCHANGED stray
         \/ w \in {Hole, Other} /\ Goto(d, "end", at[d]) /\ Strayed(d)
  /\ Still /\ ReaderOnly

\* key_output and the remembering of the header
DumpWrite(d) ==
  /\ pc[d] = "write"
  /\ out' = [out EXCEPT ![d] = Append(@, held[d])]
  /\ IF at[d][1] = 0 THEN Goto(d, "cond", Next1(at[d]))
     ELSE IF at[d][2] = Last THEN Goto(d, "last", at[d])
     ELSE IF held[d].stop THEN Goto(d, "end", at[d])
     ELSE Goto(d, "cond", Next1(at[d]))
  /\ UNCHANGED <<lock, answer, asked, stray>> /\ ReaderOnly

\* The lock moves on so that the writer need not wait for this reader.
PassWriter(d) == IF d \in waited THEN Lock!Renew(d) ELSE UNCHANGED lock

\* Wrong: the writer may pass whatever it deletes.
DumpCondAny(d) ==
  /\ pc[d] = "cond"
  /\ \/ section[d] = "lost" /\ Again(d)
     \/ /\ section[d] = "in" /\ PassWriter(d)
        /\ Goto(d, IF at[d][1] = 0 THEN "slot" ELSE "place", at[d])
        /\ UNCHANGED <<out, answer, asked>>
  /\ UNCHANGED stray /\ ReaderOnly

\* lck_readerUnlockCond: del_in_chain is compared with the hash.
DumpCond(d) ==
  /\ pc[d] = "cond"
  /\ \/ section[d] = "lost" /\ Again(d)
     \/ /\ section[d] = "in"
        /\ IF Doing("wait") /\ Head(todo).word THEN UNCHANGED lock ELSE PassWriter(d)
        /\ Goto(d, IF at[d][1] = 0 THEN "slot" ELSE "place", at[d])
        /\ UNCHANGED <<out, answer, asked>>
  /\ UNCHANGED stray /\ ReaderOnly

DumpLast(d) ==
  /\ pc[d] = "last"
  /\ \/ section[d] = "lost" /\ Again(d)
     \/ /\ section[d] = "in" /\ PassWriter(d)
        /\ Goto(d, "end", at[d])
        /\ UNCHANGED <<out, answer, asked>>
  /\ UNCHANGED stray /\ ReaderOnly

\* A last key that was written before, because it has been copied over a
\* deleted one meanwhile, is taken back; key_data is the reference if the
\* chain ended in the table.
Output(d) ==
  LET n    == Len(out[d])
      same == {i \in 1..(n - 1) : out[d][i] = out[d][n]}
  IN  IF at[d][1] = 0 \/ n <= 2 THEN out[d]
      ELSE SubSeq(out[d], 1, n - Cardinality(same))

DumpEnd(d) ==
  /\ pc[d] = "end"
  /\ \/ section[d] = "lost" /\ Again(d)
     \/ /\ section[d] = "in"
        /\ Tell(d, {Output(d)[i].key : i \in DOMAIN Output(d)})
  /\ UNCHANGED stray /\ ReaderOnly

-----------------------------------------------------------------------------
Set(k) == \/ SetFound(k) \/ SetInTable(k) \/ SetFirst(k) \/ ExpandUp(k)
          \/ ExpandDown(k) \/ MoveChain(k) \/ AppendToFull(k)
Del(k) == \/ DelFromHashTable(k) \/ DelOneAfterHashTable(k) \/ DelLastAfterHashTable(k)
          \/ DelLastInBlock2(k) \/ DelLastInChain(k)
          \/ DelFromChainBlock2(k) \/ DelFromChain(k)
WriterStep == Store \/ StoreRest \/ BeginWait \/ EndWait \/ WaitTimeout

SearchStep(g) ==
  /\ ~Dumps(g)
  /\ SearchSlot(g) \/ SearchCheck(g) \/ SearchPlace(g) \/ Found(g) \/ Missing(g)
DumpStep(d) ==
  /\ Dumps(d)
  /\ \/ DumpSlot(d) \/ DumpPlace(d) \/ DumpWrite(d)
     \/ DumpCond(d) \/ DumpLast(d) \/ DumpEnd(d)

\* The locks are free for the next operation on this chain or the other one.
Operation ==
  /\ todo = <<>>
  /\ \/ \E k \in setup.keys : \/ Set(k)
                              \/ "del" \in setup.deletes /\ Del(k)
                              \/ "unmarked" \in setup.deletes /\ DelUnmarked(k)
     \/ OtherGrows \/ OtherShrinks

Step ==
  \/ Operation \/ WriterStep
  \/ \E r \in Readers : \/ SearchStep(r) \/ DumpStep(r) \/ Retry(r)
                        \/ "get" \in setup.reads /\ \E k \in setup.keys : Ask(r, {k})
                        \/ "dump" \in setup.reads /\ Ask(r, setup.keys)

Record ==
  /\ always' = [r \in Readers |-> IF asked[r] = {} THEN asked'[r] \cap Content'
                                  ELSE always[r] \cap asked'[r] \cap Content']
  /\ ever'   = [r \in Readers |-> (ever[r] \cup Content') \cap asked'[r]]

Next == Step /\ UNCHANGED setup /\ Record

Init ==
  /\ setup \in Setups
  /\ tab = <<>> /\ link = NoRef /\ others = 0
  /\ mem = [p \in Places |-> IF p \in setup.taken THEN Other ELSE Hole]
  /\ live = {} /\ todo = <<>>
  /\ Lock!Init
  /\ pc   = [r \in Readers |-> "idle"]
  /\ at   = [r \in Readers |-> TableStart]
  /\ held = [r \in Readers |-> Nothing]
  /\ out  = [r \in Readers |-> <<>>]
  /\ torn = {} /\ stray = {}
  /\ asked  = [r \in Readers |-> {}]
  /\ always = [r \in Readers |-> {}]
  /\ ever   = [r \in Readers |-> {}]
  /\ answer = [r \in Readers |-> {}]

Spec == Init /\ [][Next]_vars

-----------------------------------------------------------------------------
TypeOK ==
  /\ setup \in Setups
  /\ tab \in Seq(Header) /\ Len(tab) + others < Slots
  /\ link \in Places \cup {NoRef} /\ others \in 0..setup.others
  /\ mem \in [Places -> Header \cup Link \cup {Hole, Other}]
  /\ live \subseteq setup.keys \X (0..1)
  /\ section \in [Readers -> {"in", "out", "lost"}]
  /\ mode \in {"open", "wait"} /\ waited \subseteq Readers
  /\ held \in [Readers -> Header \cup {Nothing}]
  /\ torn \subseteq Readers /\ stray \subseteq Readers

\* idx_key_try_set, idx_key_set, idx_key_del: between two operations the chain
\* holds every key once, its last header and no other outside the table says
\* so, nothing free is in it and nothing else is allocated.
ChainSound ==
  todo = <<>> =>
    LET heads == tab \o [i \in DOMAIN Path |-> mem[Path[i]]]
    IN  /\ \A i \in DOMAIN Path : mem[Path[i]] \in Header
        /\ \A i, j \in DOMAIN heads : heads[i].key = heads[j].key => i = j
        /\ \A i \in DOMAIN Path : mem[Path[i]].stop = (i = Len(Path))
        /\ {p \in Places : mem[p] \in Header} = {Path[i] : i \in DOMAIN Path}
        /\ live = {Rest(heads[i]) : i \in DOMAIN heads}

\* What a search with a good lock follows and copies is of its chain and still
\* allocated, whatever the writer does to the chain meanwhile: the order of
\* stores, waits and frees in idx_key_set and idx_key_del.  Not kept by dumps,
\* which let the writer pass before they have read on (lck_readerUnlockCond), nor
\* beside del_unmarked_from_hash_chain, which waits too early.
OnlySearched == setup.reads = {"get"} /\ setup.deletes = {"del"} /\ ~setup.timeouts

ReadsSound == OnlySearched => stray = {} /\ torn = {}

\* dump_hash_chain: what is committed to the file has no key twice.  Not kept:
\* a deletion copies the last header before it removes it.
DumpOnce ==
  \A d \in Readers : pc[d] = "end" /\ section[d] = "in" =>
    \A i, j \in DOMAIN Output(d) : Output(d)[i].key = Output(d)[j].key => i = j

\* _key_search_R: nothing is found only if the key was not there all the time.
\* Not kept after a timeout: the result of lck_readerUnlock is dropped.
MissingRight ==
  \A g \in Readers : pc[g] = "missing" => Sought(g) \notin always[g]

\* Every store of an operation leaves the old set of keys or makes the new one,
\* and every search answers for a set that was there.  With timeouts and dumps
\* half of it is left: a search whose lock was taken away may miss a key but
\* finds none that was not there, and a dump that went on to a header that is
\* freed may find too much but misses no key that was there all the time.
Kept == INSTANCE KeySet WITH content <- Content, keys <- setup.keys, loose <- ~OnlySearched
KeepsSet == Kept!Spec
=============================================================================
