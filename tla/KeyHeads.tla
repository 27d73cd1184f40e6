------------------------------ MODULE KeyHeads ------------------------------
(***************************************************************************)
(* The allocator of key headers (keyhead.c): runs of headers for the       *)
(* chains of the hash table, cut out of blocks of BlockLen headers.  A     *)
(* hole of two or more headers is a member of the doubly linked list of    *)
(* its size; a hole of one header is marked `reserved' in place.           *)
(*                                                                         *)
(* A header is its number: a multiple of BlockLen begins a block.  The     *)
(* callers (idx_key_set, _del_from_chain) hold memory_lock, so a call is   *)
(* one step.  `runs' is what they own: the runs that were given to them.   *)
(*                                                                         *)
(* A page that the zone takes is not cleared: one that was another's has   *)
(* any bits.  The headers of a block are cleared when they are made a hole *)
(* of two or more, and filled when a run has them; a rest of one header is *)
(* neither.                                                                *)
(***************************************************************************)
EXTENDS Integers, FiniteSets, SequencesExt

CONSTANTS
  BlockLen,    \* KEYHEADS_IN_BLOCK: 8 in the code
  PageBlocks,  \* blocks in a page
  MaxPages     \* pages that the set can give to headers

SizesFit ==
  /\ BlockLen \in Nat \ {0, 1} /\ PageBlocks \in Nat \ {0} /\ MaxPages \in Nat

VARIABLES
  m,        \* the headers, the lists of holes and the zone of unused blocks
  runs,     \* the runs the callers have: <<first, length>>
  dirty,    \* the blocks whose page is marked as changed since the last flush
  worn,     \* whether the page of the zone was another's before
  leaked,   \* history: headers whose space_used is from then, and that no run has
  recycled  \* of the pages: whether the one that is taken next was another's

past == <<worn, leaked>>

vars == <<m, runs, dirty, past>>

Zero == 0   \* KH_ZERO_REF; no page of headers is page 0

PageLen == PageBlocks * BlockLen

Headers == PageLen .. (MaxPages + 1) * PageLen - 1

BlockOf(h) == h - (h % BlockLen)

NumOf(h) == h % BlockLen

Blocks == {h \in Headers : NumOf(h) = 0}

Sizes == 2 .. BlockLen

Run(h, n) == h .. h + n - 1

Init ==
  /\ m = [used     |-> {},                        \* space_used of what was cut
          reserved |-> {},                        \* space.reserved of what is not used
          next     |-> [h \in Headers |-> Zero],  \* links.next
          prev     |-> [h \in Headers |-> Zero],  \* links.prev
          holes    |-> [n \in Sizes |-> Zero],    \* key_holes
          mask     |-> {},                        \* kh_mask
          zone     |-> Zero,                      \* kh_alloc_zone
          pages    |-> 0]
  /\ runs = {} /\ dirty = {} /\ worn = FALSE /\ leaked = {}

-----------------------------------------------------------------------------
\* The helpers take the memory to what it is afterwards, together with the
\* blocks they mark: [m |-> ..., dirty |-> ...].

State(mm, blocks) == [m |-> mm, dirty |-> blocks]

\* A hole goes to the front of the list of its size; the prev of the first
\* hole is not set, and is not looked at.
IndexHole(s, h, n) ==
  IF n = 1 THEN [s EXCEPT !.m.reserved = @ \cup {h}]
  ELSE LET old == s.m.holes[n] IN
       State([s.m EXCEPT
                !.next[h] = old,
                !.prev = IF old = Zero THEN @ ELSE [@ EXCEPT ![old] = h],
                !.holes[n] = h,
                !.mask = @ \cup {n}],
             s.dirty \cup IF old = Zero THEN {} ELSE {BlockOf(old)})

\* The first hole of a list leaves it.
ShiftList(s, n) ==
  LET second == s.m.next[s.m.holes[n]] IN
  [s EXCEPT !.m.holes[n] = second,
            !.m.mask = IF second = Zero THEN @ \ {n} ELSE @]

DeindexHole(s, h, n) ==
  IF s.m.holes[n] = h THEN ShiftList(s, n)
  ELSE LET p == s.m.prev[h]
           q == s.m.next[h]
       IN  State([s.m EXCEPT
                    !.next[p] = q,
                    !.prev = IF q = Zero THEN @ ELSE [@ EXCEPT ![q] = p]],
                 s.dirty \cup {BlockOf(p)} \cup IF q = Zero THEN {} ELSE {BlockOf(q)})

\* _kh_shift_hole takes the first hole of size n and marks its block.
ShiftHole(s, n) ==
  LET t == ShiftList(s, n) IN [t EXCEPT !.dirty = @ \cup {BlockOf(s.m.holes[n])}]

\* The next block of the zone, or the first one of a new page.
ZoneBlock(mm) == IF mm.zone # Zero THEN mm.zone ELSE (mm.pages + 1) * PageLen

ZoneEmpty(mm) == mm.zone = Zero /\ mm.pages = MaxPages   \* idx_alloc_page fails

AllocFromZone(s) ==
  LET b == ZoneBlock(s.m)
      z == b + BlockLen
  IN  State([s.m EXCEPT
               !.zone = IF z % PageLen = 0 THEN Zero ELSE z,
               !.pages = IF s.m.zone = Zero THEN @ + 1 ELSE @],
            s.dirty \cup {b})

\* What a caller is given: the memory, and where its run begins.
Given(s, h) == [s |-> s, at |-> h]

\* A hole of size hole serves a run of n: away from the start of its block the
\* first header is reserved for the run before it, and the rest is a hole again.
Split(s, hole, n) ==
  LET h == s.m.holes[hole]
      t == ShiftHole(s, hole)
      keep == [t EXCEPT !.m.reserved = @ \cup {h}]
  IN  CASE NumOf(h) = 0                    -> Given(IndexHole(t, h + n, hole - n), h)
        [] NumOf(h) # 0 /\ hole - 1 = n    -> Given(keep, h + 1)
        [] OTHER                           -> Given(IndexHole(keep, h + 1 + n, hole - 1 - n), h + 1)

\* The rest of a new block is emptied and is a hole, but one header is not emptied;
\* where its old space_used is set, it is no hole for anyone, and the bit that is
\* set to reserve it is one of its size.
NewBlock(s, n, old) ==
  LET b == ZoneBlock(s.m)
      t == [AllocFromZone(s) EXCEPT !.m.used = @ \cup old]
      rest == Run(b + n, BlockLen - n)
      e == IF BlockLen - n <= 1 THEN t
           ELSE [t EXCEPT !.m.used = @ \ rest, !.m.reserved = @ \ rest,
                          !.m.next = [x \in Headers |-> IF x \in rest THEN Zero ELSE @[x]],
                          !.m.prev = [x \in Headers |-> IF x \in rest THEN Zero ELSE @[x]]]
  IN  Given(IF b + n \in e.m.used THEN e ELSE IndexHole(e, b + n, BlockLen - n), b)

Smallest(S) == CHOOSE x \in S : \A y \in S : x <= y   \* __builtin_ffs

\* kh_alloc_one: a hole of three when there is one, else the smallest.
AllocOne(s, old) ==
  CASE 3 \in s.m.mask                      -> Split(s, 3, 1)
    [] 3 \notin s.m.mask /\ s.m.mask # {} -> Split(s, Smallest(s.m.mask), 1)
    [] OTHER                               -> NewBlock(s, 1, old)

\* kh_alloc_block: the smallest hole that is large enough; one that fits
\* exactly is taken as it is.
AllocBlock(s, n, old) ==
  LET fit == {k \in s.m.mask : k >= n} IN
  CASE fit = {}             -> NewBlock(s, n, old)
    [] n \in fit            -> Given(ShiftHole(s, n), s.m.holes[n])
    [] OTHER                -> Split(s, Smallest(fit), n)

\* kh_alloc_full_block: the caller fills all of a new block, whatever it held.
AllocFullBlock(s) ==
  IF BlockLen \in s.m.mask THEN Given(ShiftHole(s, BlockLen), s.m.holes[BlockLen])
  ELSE Given(AllocFromZone(s), ZoneBlock(s.m))

\* What holes they need to find, else there is no page for the zone.
Found(n) ==
  CASE n = 1 -> m.mask # {}
    [] OTHER -> \E k \in m.mask : k >= n

\* The length of the hole that ends below h, or begins at h, as the code counts
\* it in the bits of the headers.
Below(s, h) ==
  IF NumOf(h) = 0 \/ h - 1 \in s.m.used THEN 0
  ELSE IF h - 1 \in s.m.reserved THEN 1
  ELSE Smallest({k \in 2 .. NumOf(h) : k = NumOf(h) \/ h - k - 1 \in s.m.used})

Above(s, h) ==
  IF NumOf(h) = 0 \/ h \in s.m.used THEN 0
  ELSE IF h \in s.m.reserved THEN 1
  ELSE Smallest({k \in 2 .. BlockLen - NumOf(h) :
                   k = BlockLen - NumOf(h) \/ h + k \in s.m.used})

\* A mistake: a hole of one stays reserved inside the larger one.
TakeHoleLazy(s, h, n) == IF n < 2 THEN s ELSE DeindexHole(s, h, n)

\* _kh_merge_hole_down, _kh_merge_hole_up: the neighbouring hole of n headers
\* that begins at h is taken out of its list, or is reserved no more.
TakeHole(s, h, n) ==
  CASE n = 0 -> s
    [] n = 1 -> [s EXCEPT !.m.reserved = @ \ {h}]
    [] OTHER -> DeindexHole(s, h, n)

ClearRun(s, h, n) ==
  [s EXCEPT !.m.used = @ \ Run(h, n), !.m.reserved = @ \ Run(h, n),
            !.dirty = @ \cup {BlockOf(h)}]

FreeBlock(s, h, n) ==
  LET c == ClearRun(s, h, n)
      below == Below(c, h)
      above == Above(c, h + n)
      t == TakeHole(TakeHole(c, h - below, below), h + n, above)
  IN  IndexHole(t, h - below, n + below + above)

\* kh_free_last_from_chain: the header before is one of the same run.
FreeLast(s, h) ==
  LET c == ClearRun(s, h, 1)
      above == Above(c, h + 1)
  IN  IndexHole(TakeHole(c, h + 1, above), h, above + 1)

\* A run takes the header behind it or before it: a hole gets shorter.
Write(s, h) ==
  [s EXCEPT !.m.used = @ \cup {h}, !.m.reserved = @ \ {h}, !.dirty = @ \cup {BlockOf(h)}]

ExpandUp(s, h) ==
  IF h \in s.m.reserved THEN Write(s, h)
  ELSE LET n == Above(s, h)
       IN  Write(IndexHole(DeindexHole(s, h, n), h + 1, n - 1), h)

ExpandDown(s, h) ==
  IF h \in s.m.reserved THEN Write(s, h)
  ELSE LET n == Below(s, h + 1)
           start == h + 1 - n
       IN  Write(IndexHole(DeindexHole(s, start, n), start, n - 1), h)

-----------------------------------------------------------------------------
Here == State(m, dirty)

Becomes(s) == m' = s.m /\ dirty' = s.dirty

\* The caller fills what it was given: the headers are in use and hold data.
Take(g, n) ==
  /\ Becomes([g.s EXCEPT !.m.used = @ \cup Run(g.at, n), !.m.reserved = @ \ Run(g.at, n)])
  /\ runs' = runs \cup {<<g.at, n>>}

\* What the next block of the zone can have of its page's last use, as far as it is
\* ever looked at: the space_used of its last header.
Leftovers ==
  IF (m.zone # Zero /\ worn) \/ (m.zone = Zero /\ recycled)
  THEN SUBSET {ZoneBlock(m) + BlockLen - 1} ELSE {{}}

\* A chain outgrows the hash table, or its block, or starts another block.
Alloc(n) ==
  /\ Found(n) \/ ~ZoneEmpty(m)
  /\ \E old \in Leftovers :
       /\ Take(CASE n = 1        -> AllocOne(Here, old)
                 [] n = BlockLen -> AllocFullBlock(Here)
                 [] OTHER        -> AllocBlock(Here, n, old), n)
       /\ leaked' = IF Found(n) \/ n # BlockLen - 1 THEN leaked ELSE leaked \cup old
  /\ worn' = IF m'.pages = m.pages THEN worn ELSE recycled

\* No hole and no page: NULL, and nothing has changed.
AllocFails(n) ==
  /\ ~Found(n) /\ ZoneEmpty(m)
  /\ UNCHANGED vars

Free(r) ==
  /\ Becomes(FreeBlock(Here, r[1], r[2]))
  /\ runs' = runs \ {r}
  /\ UNCHANGED past

\* The last header of a run goes.
Shrink(r) ==
  /\ r[2] > 1
  /\ Becomes(FreeLast(Here, r[1] + r[2] - 1))
  /\ runs' = (runs \ {r}) \cup {<<r[1], r[2] - 1>>}
  /\ UNCHANGED past

\* idx_key_set: the run has less than a block, and the header after it (before
\* it) is in the same block and not in use.
GrowUp(r) ==
  LET h == r[1] + r[2] IN
  /\ r[2] < BlockLen /\ NumOf(h) # 0 /\ h \notin m.used
  /\ Becomes(ExpandUp(Here, h))
  /\ runs' = (runs \ {r}) \cup {<<r[1], r[2] + 1>>}
  /\ UNCHANGED past

GrowDown(r) ==
  /\ r[2] < BlockLen /\ NumOf(r[1]) # 0 /\ r[1] - 1 \notin m.used
  /\ Becomes(ExpandDown(Here, r[1] - 1))
  /\ runs' = (runs \ {r}) \cup {<<r[1] - 1, r[2] + 1>>}
  /\ UNCHANGED past

\* cp_flush writes the marked pages.
Flush == dirty # {} /\ dirty' = {} /\ UNCHANGED <<m, runs, past>>

Next ==
  \/ \E n \in 1 .. BlockLen : Alloc(n) \/ AllocFails(n)
  \/ \E r \in runs : Free(r) \/ Shrink(r) \/ GrowUp(r) \/ GrowDown(r)
  \/ Flush

Spec == Init /\ [][Next]_vars

-----------------------------------------------------------------------------
TypeOK ==
  /\ m.used \subseteq Headers /\ m.reserved \subseteq Headers
  /\ m.next \in [Headers -> Headers \cup {Zero}]
  /\ m.prev \in [Headers -> Headers \cup {Zero}]
  /\ m.holes \in [Sizes -> Headers \cup {Zero}] /\ m.mask \subseteq Sizes
  /\ m.zone \in Blocks \cup {Zero} /\ m.pages \in 0 .. MaxPages
  /\ runs \subseteq Headers \X (1 .. BlockLen) /\ dirty \subseteq Blocks
  /\ worn \in BOOLEAN /\ leaked \subseteq Headers

\* What the zone has given out so far.
Cut == {h \in Headers : h < IF m.zone # Zero THEN m.zone ELSE (m.pages + 1) * PageLen}

\* The runs of two callers never share a header, none crosses a block, and the
\* headers in use are those of the runs: a header given out twice would be the
\* key of two chains (kh_alloc_*, kh_expand_chain_*).  Those that were the whole
\* rest of a block, and were not cleared, are in use for good and in no run.
RunsApart ==
  /\ \A r, q \in runs : r # q => Run(r[1], r[2]) \cap Run(q[1], q[2]) = {}
  /\ \A r \in runs : NumOf(r[1]) + r[2] <= BlockLen
  /\ leaked \subseteq m.used
  /\ m.used \ leaked = UNION {Run(r[1], r[2]) : r \in runs}

\* The holes: the longest runs of headers that are not in use.
Free1(h) == h \in Cut \ m.used

IsHole(h, n) ==
  /\ NumOf(h) + n <= BlockLen /\ \A x \in Run(h, n) : Free1(x)
  /\ NumOf(h) = 0 \/ h - 1 \in m.used
  /\ NumOf(h) + n = BlockLen \/ h + n \in m.used

Holes(n) == {h \in Cut : IsHole(h, n)}

\* The list of size n, walked no further than it can be long.
ListOf(n) ==
  LET walk[k \in 0 .. Cardinality(Headers)] ==
        IF k = 0 THEN IF m.holes[n] = Zero THEN <<>> ELSE <<m.holes[n]>>
        ELSE LET w == walk[k - 1] IN
             IF w = <<>> \/ m.next[w[Len(w)]] = Zero \/ Len(w) < k THEN w
             ELSE Append(w, m.next[w[Len(w)]])
  IN  walk[Cardinality(Headers)]

\* What check_head_holes_chains looks for, and what it can not see: every hole
\* of two or more headers is in the list of its size once and nothing else is,
\* every hole of one is reserved and nothing else is, so that no header is lost
\* but the leaked ones and none is found twice, however the callers cut and merge.
HolesIndexed ==
  /\ \A n \in Sizes :
       LET l == ListOf(n) IN
       /\ (n \in m.mask) = (l # <<>>)
       /\ ToSet(l) = Holes(n) /\ IsInjective(l)
       /\ \A i \in 2 .. Len(l) : m.prev[l[i]] = l[i - 1]
  /\ m.reserved = Holes(1)

\* A block with a header or a link that an operation changes is marked; the links
\* of other blocks' holes change too (_index_kh_hole, _deindex_kh_hole).
BlocksMarked ==
  \A b \in Blocks :
    (\E h \in Run(b, BlockLen) :
       \/ (h \in m.used) # (h \in m'.used)
       \/ (h \in m.reserved) # (h \in m'.reserved)
       \/ m.next[h] # m'.next[h] \/ m.prev[h] # m'.prev[h]) => b \in dirty'
=============================================================================
