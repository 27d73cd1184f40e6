---------------------------- MODULE GeneralAlloc ----------------------------
(***************************************************************************)
(* The general allocator (allocator.c): pages of words, pieces of          *)
(* MinHole words and more cut out of general pages (idx_large_alloc,       *)
(* idx_large_free), and smaller ones out of the subpages of special pages  *)
(* (idx_small_alloc, idx_small_free), a subpage for each size.             *)
(*                                                                         *)
(* A word is its number; the callers (idx_key_set, idx_op_finalize) hold   *)
(* memory_lock, so a call is one step.  A hole has its header in its first *)
(* word and its footer in its last one; both have a word that says that    *)
(* the place is not empty, and the piece beside a hole is told from a hole *)
(* by this word alone.  `pieces' is what the callers own.                  *)
(***************************************************************************)
EXTENDS Integers, FiniteSets, SequencesExt

CONSTANTS
  MinHole,      \* MIN_HOLE_SIZE: 5 in the code
  Indexed,      \* INDEXED_HOLESIZE_CNT: holes up to it have a list for each size
  PageSize,     \* words in a page
  SubSize,      \* DISK_PAGE_SIZE: words in a subpage, the unit of the disk too
  PageHead,     \* SPEC_PAGE_HEAD_SIZE
  SubHead,      \* SUB_PAGE_HEAD_SIZE
  MaxPages,     \* MAX_PAGES
  OffsetPages,  \* pages that csize, an offset of 32 bits, can tell apart
  Asks          \* what is asked of it: [sizes, pages, most, headers, revert]

ASSUME AllocAssumption ==
  /\ MinHole \in Nat \ {0, 1} /\ Indexed >= MinHole /\ PageSize % SubSize = 0
  /\ SubSize >= PageHead + SubHead + 2 * (MinHole - 1) /\ OffsetPages \in Nat \ {0}
  /\ \A a \in Asks : /\ a.sizes \subseteq 1 .. PageSize /\ a.pages \in 1 .. MaxPages
                     /\ a.most \in Nat /\ a.revert \in BOOLEAN

VARIABLES
  ask,     \* one of Asks: sizes of pieces, pages there are, bound of the pieces
  m,       \* the words, the lists and what the head knows of them
  pieces,  \* what the callers have: <<first, length>>
  marked,  \* the disk pages that the last call has marked as changed
  saved,   \* the memory and the pieces of the last flush
  lost     \* a call has failed after it had made a hole of the rest of a page

general == <<ask, m, pieces, marked, saved, lost>>

Zero   == 0   \* ZERO_REF
NoPage == -1  \* NO_PAGE

PageNums == 0 .. MaxPages - 1

Words == 0 .. MaxPages * PageSize - 1

PageOf(w) == w \div PageSize

Offset(w) == w % PageSize

DiskOf(w) == w \div SubSize

\* The words of a subpage that pieces can have, and its head.
Subs == 0 .. MaxPages * (PageSize \div SubSize) - 1

HeadOf(b) == b * SubSize + IF Offset(b * SubSize) = 0 THEN PageHead ELSE 0

FirstOf(b) == HeadOf(b) + SubHead

SubsOf(p) == {b \in Subs : PageOf(b * SubSize) = p}

Piece(w, n) == w .. w + n - 1

\* LOG_BIN
Log[n \in 1 .. 2 * PageSize] == IF n = 1 THEN 0 ELSE 1 + Log[n \div 2]

\* HOLESIZE_IDX: the list of holes of n words.
ListFor(n) == IF n <= Indexed THEN n - 1 ELSE Indexed + Log[n - 1] - Log[Indexed]

Lists == MinHole - 1 .. ListFor(PageSize)

Small == 1 .. MinHole - 1

NoSub == [total |-> 0, used |-> 0, hole |-> Zero, prev |-> Zero, next |-> Zero, chunk |-> 0]

GeneralInit ==
  /\ ask \in Asks
  /\ m = [pcnt |-> 1, empty |-> NoPage,                 \* first_empty_page
          link |-> [p \in PageNums |-> NoPage],         \* word 0 of an empty page
          type |-> [p \in PageNums |-> IF p = 0 THEN "general" ELSE "none"],
          file |-> 1,                                   \* length of the page file
          unlocated |-> 1,
          holes |-> [l \in Lists |-> Zero], mask |-> {},
          next  |-> [w \in Words |-> Zero], prev |-> [w \in Words |-> Zero],
          size  |-> [w \in Words |-> 0],                \* of a header or a footer
          full  |-> {0},                                \* nonempty_signature # 0
          pf    |-> NoPage,                             \* first_pf_spec_page
          pnext |-> [p \in PageNums |-> NoPage], pprev |-> [p \in PageNums |-> NoPage],
          use   |-> [p \in PageNums |-> {}],            \* use_mask
          sub   |-> [b \in Subs |-> NoSub],
          zone  |-> [n \in Small |-> Zero],             \* alloc_zones
          subs  |-> [n \in Small |-> Zero]]             \* holes of the small sizes
  /\ pieces = {} /\ marked = {} /\ lost = FALSE
  /\ saved = [m |-> m, pieces |-> {}]

-----------------------------------------------------------------------------
\* A state s is [m, dirty]; the operators take it to what it is afterwards.

Mark(s, w, n) == [s EXCEPT !.dirty = @ \cup {DiskOf(x) : x \in Piece(w, n)}]

Given(s, w) == [s |-> s, at |-> w]

Smallest(S) == CHOOSE x \in S : \A y \in S : x <= y

(***************************************************************************)
(* Pages.                                                                  *)
(***************************************************************************)

\* idx_alloc_page: an empty page, or one more at the end of the page file;
\* csize is an element_type, which counts bytes up to 2^32.
AllocPage(s, t) ==
  CASE s.m.empty # NoPage ->
         Given([s EXCEPT !.m.empty = s.m.link[s.m.empty], !.m.type[s.m.empty] = t], s.m.empty)
    [] s.m.empty = NoPage /\ s.m.pcnt < ask.pages ->
         Given([s EXCEPT !.m.pcnt = @ + 1, !.m.type[s.m.pcnt] = t,
                         !.m.file = (s.m.pcnt % OffsetPages) + 1], s.m.pcnt)
    [] OTHER -> Given(s, NoPage)

\* A mistake: the first word of the page is not marked.
FreePageUnmarked(s, p) ==
  [s EXCEPT !.m.link[p] = s.m.empty, !.m.empty = p, !.m.type[p] = "empty"]

FreePage(s, p) ==
  Mark([s EXCEPT !.m.link[p] = s.m.empty, !.m.empty = p, !.m.type[p] = "empty"],
       p * PageSize, 1)

(***************************************************************************)
(* Pieces of MinHole words and more.                                       *)
(***************************************************************************)

DeindexFirst(s, h, l) ==
  [s EXCEPT !.m.holes[l] = s.m.next[h],
            !.m.mask = IF s.m.next[h] = Zero THEN @ \ {l} ELSE @]

DeindexHole(s, h, l) ==
  LET p == s.m.prev[h]
      q == s.m.next[h]
      unlinked == Mark([s EXCEPT !.m.next[p] = q], p, 1)
  IN  CASE s.m.holes[l] = h -> DeindexFirst(s, h, l)
        [] s.m.holes[l] # h /\ q = Zero -> unlinked
        [] OTHER -> Mark([unlinked EXCEPT !.m.prev[q] = p], q, 1)

\* The hole goes to the front of its list; its own prev is not set.
IndexHole(s, h, n) ==
  LET l == ListFor(n)
      old == s.m.holes[l]
      e == h + n - 1
      linked == IF old = Zero THEN s ELSE Mark([s EXCEPT !.m.prev[old] = h], old, 1)
      indexed == [linked EXCEPT !.m.next[h] = old, !.m.holes[l] = h, !.m.mask = @ \cup {l},
                                !.m.size = [@ EXCEPT ![h] = n, ![e] = n],
                                !.m.full = @ \ {h, e}]
  IN  Mark(Mark(indexed, h, 1), e, 1)

\* What is left of the current page.
Rest(mm) == (PageSize - Offset(mm.unlocated)) % PageSize

\* The first list all of whose holes can be split.
FirstFit(n) == ListFor(n + MinHole) + IF n + MinHole > Indexed THEN 1 ELSE 0

LargeAlloc(s, n) ==
  LET exact == IF n <= Indexed THEN s.m.holes[n - 1] ELSE Zero
      fit == {l \in s.m.mask : l >= FirstFit(n)}
      hole == s.m.holes[Smallest(fit)]
      here == s.m.unlocated
      left == IF Rest(s.m) >= MinHole THEN IndexHole(s, here, Rest(s.m)) ELSE s
      new == AllocPage(left, "general")
      at == new.at * PageSize
  IN  CASE exact # Zero -> Given(Mark(DeindexFirst(s, exact, n - 1), exact, n), exact)
        [] exact = Zero /\ fit # {} ->
             Given(Mark(IndexHole(DeindexHole(s, hole, Smallest(fit)),
                                  hole + n, s.m.size[hole] - n), hole, n), hole)
        [] exact = Zero /\ fit = {} /\ Rest(s.m) >= n ->
             Given(Mark([s EXCEPT !.m.unlocated = @ + n], here, n), here)
        [] exact = Zero /\ fit = {} /\ Rest(s.m) < n /\ new.at # NoPage ->
             Given(Mark([new.s EXCEPT !.m.unlocated = at + n], at, n), at)
        [] OTHER -> Given(left, Zero)   \* NULL, and the hole stays

\* The word that ends below w belongs to a hole.
EmptyBelow(s, w) == Offset(w) >= MinHole /\ w - 1 \notin s.m.full

\* A mistake: the end of the page behind the last piece is left out of the hole.
MergeUpShort(s, n, after) ==
  IF Offset(after) # 0 /\ PageSize - Offset(after) >= MinHole /\ after \notin s.m.full
  THEN [s |-> DeindexHole(s, after, ListFor(s.m.size[after])), n |-> n + s.m.size[after]]
  ELSE [s |-> s, n |-> n]

\* The hole behind is taken in, or an end of the page too short for a hole.
MergeUp(s, n, after) ==
  LET rest == (PageSize - Offset(after)) % PageSize IN
  CASE rest < MinHole -> [s |-> s, n |-> n + rest]
    [] rest >= MinHole /\ after \notin s.m.full ->
         [s |-> DeindexHole(s, after, ListFor(s.m.size[after])), n |-> n + s.m.size[after]]
    [] OTHER -> [s |-> s, n |-> n]

LargeFree(s, w, n) ==
  LET below == IF EmptyBelow(s, w) THEN s.m.size[w - 1] ELSE 0
      d == w - below
      t == IF below = 0 THEN s ELSE DeindexHole(s, d, ListFor(below))
      up == MergeUp(t, n + below, w + n)
      back == [t EXCEPT !.m.unlocated = d]
  IN  CASE w + n = s.m.unlocated /\ Offset(d) # 0 -> back
        [] w + n = s.m.unlocated /\ Offset(d) = 0 ->
             FreePage([back EXCEPT !.m.unlocated = 0], PageOf(d))
        [] w + n # s.m.unlocated /\ up.n = PageSize -> FreePage(up.s, PageOf(d))
        [] OTHER -> IndexHole(up.s, d, up.n)

(***************************************************************************)
(* Pieces of less than MinHole words.                                      *)
(***************************************************************************)

SubOf(w) == w \div SubSize

MarkSub(s, b)  == Mark(s, HeadOf(b), SubHead)
MarkPage(s, p) == Mark(s, p * PageSize, PageHead)

\* The first hole of the first subpage with holes; a subpage that has no more
\* leaves the list.
TakeHole(s, n) ==
  LET b == SubOf(s.m.subs[n])
      h == s.m.sub[b].hole
      t == [s EXCEPT !.m.sub[b].hole = s.m.next[h], !.m.sub[b].used = @ + 1,
                     !.m.subs[n] = IF s.m.sub[b].used + 1 = s.m.sub[b].total
                                   THEN s.m.sub[b].next ELSE @]
  IN  Given(Mark(MarkSub(t, b), h, n), h)

\* The next piece of the zone, if the subpage has room for it.
ZoneAfter(w, n) == IF (w % SubSize) + 2 * n > SubSize THEN Zero ELSE w + n

TakeZone(s, n) ==
  LET w == s.m.zone[n]
      b == SubOf(w)
      t == [s EXCEPT !.m.sub[b].used = @ + 1, !.m.sub[b].total = @ + 1,
                     !.m.zone[n] = ZoneAfter(w, n)]
  IN  Given(Mark(MarkSub(t, b), w, n), w)

\* The first unused subpage of a page, which leaves the list of pages with
\* unused ones when it has no other.
OpenSub(s, p, n) ==
  LET b == Smallest(SubsOf(p) \ s.m.use[p])
      w == FirstOf(b)
      last == s.m.use[p] \cup {b} = SubsOf(p)
      t == [s EXCEPT !.m.use[p] = @ \cup {b},
                     !.m.pf = IF last THEN s.m.pnext[p] ELSE @,
                     !.m.sub[b] = [NoSub EXCEPT !.total = 1, !.used = 1,
                                                !.prev = s.m.sub[b].prev, !.chunk = n],
                     !.m.zone[n] = w + n]
  IN  Given(Mark(Mark(MarkPage(t, p), HeadOf(b), SubHead), w, n), w)

SmallAlloc(s, n) ==
  LET new == AllocPage(s, "special")
      page == [new.s EXCEPT !.m.pf = new.at, !.m.use[new.at] = {}, !.m.pnext[new.at] = NoPage]
  IN  CASE s.m.subs[n] # Zero -> TakeHole(s, n)
        [] s.m.subs[n] = Zero /\ s.m.zone[n] # Zero -> TakeZone(s, n)
        [] s.m.subs[n] = Zero /\ s.m.zone[n] = Zero /\ s.m.pf # NoPage ->
             OpenSub(s, s.m.pf, n)
        [] s.m.subs[n] = Zero /\ s.m.zone[n] = Zero /\ s.m.pf = NoPage /\ new.at # NoPage ->
             OpenSub(page, new.at, n)
        [] OTHER -> Given(s, Zero)

\* A subpage leaves the list of those with holes.
UnlinkSub(s, b, n) ==
  LET p == SubOf(s.m.sub[b].prev)
      q == SubOf(s.m.sub[b].next)
      back == MarkSub([s EXCEPT !.m.sub[p].next = s.m.sub[b].next], p)
  IN  CASE s.m.subs[n] = HeadOf(b) -> [s EXCEPT !.m.subs[n] = s.m.sub[b].next]
        [] s.m.subs[n] # HeadOf(b) /\ s.m.sub[b].next = Zero -> back
        [] OTHER -> MarkSub([back EXCEPT !.m.sub[q].prev = s.m.sub[b].prev], q)

\* A page leaves the list of those with unused subpages.
UnlinkPage(s, p) ==
  LET before == s.m.pprev[p]
      after == s.m.pnext[p]
      back == MarkPage([s EXCEPT !.m.pnext[before] = after], before)
  IN  CASE s.m.pf = p -> [s EXCEPT !.m.pf = after]
        [] s.m.pf # p /\ after = NoPage -> back
        [] OTHER -> MarkPage([back EXCEPT !.m.pprev[after] = before], after)

\* A full page comes to the front of that list.
LinkPage(s, p) ==
  LET old == s.m.pf
      t == IF old = NoPage THEN s ELSE MarkPage([s EXCEPT !.m.pprev[old] = p], old)
  IN  [t EXCEPT !.m.pnext[p] = old, !.m.pf = p]

\* A mistake: the zone of a subpage that is given back stays.
CloseZoneNever(s, b, n) == s

CloseZone(s, b, n) == IF SubOf(s.m.zone[n]) = b THEN [s EXCEPT !.m.zone[n] = Zero] ELSE s

\* The last piece of a subpage goes, and with the last subpage its page.
CloseSub(s, b, n) ==
  LET p == PageOf(b * SubSize)
      unlinked == IF s.m.sub[b].total = 1 THEN s ELSE UnlinkSub(s, b, n)
      t == CloseZone(unlinked, b, n)
      linked == IF s.m.use[p] = SubsOf(p) THEN LinkPage(t, p) ELSE t
      freed == [linked EXCEPT !.m.use[p] = @ \ {b}]
  IN  IF freed.m.use[p] = {} THEN FreePage(UnlinkPage(freed, p), p) ELSE MarkPage(freed, p)

\* A piece is a hole of its subpage, which enters the list with its first one.
AddHole(s, b, w, n) ==
  LET old == s.m.subs[n]
      first == s.m.sub[b].used = s.m.sub[b].total
      linked == IF old = Zero THEN s
                ELSE MarkSub([s EXCEPT !.m.sub[SubOf(old)].prev = HeadOf(b)], SubOf(old))
      t == IF ~first THEN s
           ELSE [linked EXCEPT !.m.sub[b].next = old, !.m.subs[n] = HeadOf(b)]
  IN  MarkSub(Mark([t EXCEPT !.m.sub[b].used = @ - 1, !.m.sub[b].hole = w,
                             !.m.next[w] = s.m.sub[b].hole], w, 1), b)

SmallFree(s, w, n) ==
  LET b == SubOf(w) IN
  CASE s.m.sub[b].used = 1 -> CloseSub(s, b, n)
    [] s.m.sub[b].used # 1 /\ w + n = s.m.zone[n] ->
         MarkSub([s EXCEPT !.m.sub[b].used = @ - 1, !.m.sub[b].total = @ - 1,
                           !.m.zone[n] = w], b)
    [] OTHER -> AddHole(s, b, w, n)

-----------------------------------------------------------------------------
Here == [m |-> m, dirty |-> {}]

Becomes(s) == m' = s.m /\ marked' = s.dirty

\* The caller fills the piece; the last byte of what it writes is never zero,
\* nor is the first word.
Fill(s, w, n) ==
  LET in == Piece(w, n)
      gone(f, x) == [v \in Words |-> IF v \in in THEN x ELSE f[v]]
  IN  [s EXCEPT !.m.full = @ \cup {w, w + n - 1}, !.m.next = gone(@, Zero),
                !.m.prev = gone(@, Zero), !.m.size = gone(@, 0)]

Allocated(n) == IF n < MinHole THEN SmallAlloc(Here, n) ELSE LargeAlloc(Here, n)

\* idx_general_alloc
Alloc(n) ==
  LET g == Allocated(n) IN
  /\ Cardinality(pieces) < ask.most /\ g.at # Zero
  /\ Becomes(Fill(g.s, g.at, n))
  /\ pieces' = pieces \cup {<<g.at, n>>}
  /\ UNCHANGED <<ask, saved, lost>>

\* No page is left.
AllocFails(n) ==
  LET g == Allocated(n) IN
  /\ Cardinality(pieces) < ask.most /\ g.at = Zero
  /\ Becomes(g.s)
  /\ lost' = (lost \/ g.s.m.mask # m.mask \/ g.s.m.holes # m.holes)
  /\ UNCHANGED <<ask, pieces, saved>>

\* idx_general_free, once nobody reads the piece any more.
Free(p) ==
  /\ Becomes(IF p[2] < MinHole THEN SmallFree(Here, p[1], p[2]) ELSE LargeFree(Here, p[1], p[2]))
  /\ pieces' = pieces \ {p}
  /\ UNCHANGED <<ask, saved, lost>>

\* _kh_alloc_from_zone: a page for key headers, which never comes back.
HeaderPage ==
  LET g == AllocPage(Here, "headers") IN
  /\ g.at # NoPage
  /\ Becomes(g.s)
  /\ UNCHANGED <<ask, pieces, saved, lost>>

\* cp_flush
Flush ==
  /\ ask.revert /\ saved.m # m
  /\ saved' = [m |-> m, pieces |-> pieces] /\ marked' = {}
  /\ UNCHANGED <<ask, m, pieces, lost>>

\* idx_revert: what is marked is read back; pages added since are empty ones.
Revert ==
  /\ ask.revert
  /\ LET new == saved.m.pcnt .. m.pcnt - 1
         back == [m |-> [saved.m EXCEPT !.pcnt = m.pcnt, !.file = m.file], dirty |-> {}]
         add[k \in Nat] == IF k = 0 THEN back ELSE FreePage(add[k - 1], saved.m.pcnt + k - 1)
     IN  Becomes(add[Cardinality(new)])
  /\ pieces' = saved.pieces
  /\ UNCHANGED <<ask, saved, lost>>

Calls ==
  \/ \E n \in ask.sizes : Alloc(n) \/ AllocFails(n)
  \/ \E p \in pieces : Free(p)
  \/ Flush \/ Revert

-----------------------------------------------------------------------------
GeneralTypeOK ==
  /\ ask \in Asks /\ lost \in BOOLEAN /\ marked \subseteq Subs
  /\ pieces \subseteq Words \X (1 .. PageSize)
  /\ m.pcnt \in 1 .. MaxPages /\ m.empty \in PageNums \cup {NoPage}
  /\ m.link \in [PageNums -> PageNums \cup {NoPage}]
  /\ m.type \in [PageNums -> {"none", "general", "special", "headers", "empty"}]
  /\ m.unlocated \in Words \cup {MaxPages * PageSize}
  /\ m.holes \in [Lists -> Words] /\ m.mask \subseteq Lists
  /\ m.next \in [Words -> Words] /\ m.prev \in [Words -> Words]
  /\ m.size \in [Words -> 0 .. PageSize] /\ m.full \subseteq Words
  /\ m.pf \in PageNums \cup {NoPage} /\ m.use \in [PageNums -> SUBSET Subs]
  /\ m.zone \in [Small -> Words] /\ m.subs \in [Small -> Words]

OfType(t) == {p \in 0 .. m.pcnt - 1 : m.type[p] = t}

\* A list from its first member on, walked no further than it can be long.
Walk(first, none, Next1(_), bound) ==
  LET walk[k \in 0 .. bound] ==
        IF k = 0 THEN IF first = none THEN <<>> ELSE <<first>>
        ELSE LET w == walk[k - 1] IN
             IF Len(w) < k \/ Next1(w[Len(w)]) = none THEN w
             ELSE Append(w, Next1(w[Len(w)]))
  IN  walk[bound]

\* The members of S, each once, and each but the first knows the one before.
Linked(list, S, prev) ==
  /\ ToSet(list) = S /\ IsInjective(list)
  /\ \A i \in 2 .. Len(list) : prev[list[i]] = list[i - 1]

Owned == UNION {Piece(p[1], p[2]) : p \in pieces}

Ahead == Piece(m.unlocated, Rest(m))

\* The words of general pages that nobody has and nobody has had in this turn.
Loose == {w \in Words : PageOf(w) \in OfType("general")} \ (Owned \cup Ahead \cup {0})

\* The longest runs of them.
Runs ==
  LET loose == Loose
      end(h) == Smallest({w \in h + 1 .. (PageOf(h) + 1) * PageSize :
                            w \notin loose \/ Offset(w) = 0})
  IN  {<<h, end(h) - h>> : h \in {x \in loose : Offset(x) = 0 \/ x - 1 \notin loose}}

\* No word belongs to two callers, a piece lies in a page of its kind.
PiecesApart ==
  /\ \A p, q \in pieces : p # q => Piece(p[1], p[2]) \cap Piece(q[1], q[2]) = {}
  /\ \A p \in pieces :
       /\ Offset(p[1]) + p[2] <= PageSize
       /\ PageOf(p[1]) \in OfType(IF p[2] < MinHole THEN "special" ELSE "general")
  /\ Owned \cap (Ahead \cup {0}) = {}

\* Every run of loose words is a hole of the list of its size and nothing else
\* is; shorter runs than a hole are at the end of a page, where the piece before
\* them will take them in; a page with nothing but a run is given back.
HolesListed ==
  LET runs == Runs
      holes == {r \in runs : r[2] >= MinHole}
  IN
  /\ \A l \in Lists :
       LET list == Walk(m.holes[l], Zero, LAMBDA w : m.next[w], Cardinality(holes)) IN
       /\ Linked(list, {r[1] : r \in {x \in holes : ListFor(x[2]) = l}}, m.prev)
       /\ (l \in m.mask) = (list # <<>>)
  /\ \A r \in runs \ holes : Offset(r[1] + r[2]) = 0
  /\ \A r \in holes :
       /\ r[2] < PageSize /\ m.size[r[1]] = r[2] /\ m.size[r[1] + r[2] - 1] = r[2]
       /\ {r[1], r[1] + r[2] - 1} \cap m.full = {}

\* Each page has one use, and the empty ones are all in their list.
PagesListed ==
  LET list == Walk(m.empty, NoPage, LAMBDA p : m.link[p], MaxPages) IN
  /\ ToSet(list) = OfType("empty") /\ IsInjective(list)
  /\ OfType("none") = {}

\* The places of a subpage that were cut so far: holes and pieces of one size.
PlacesIn(b) == {FirstOf(b) + k * m.sub[b].chunk : k \in 0 .. m.sub[b].total - 1}

InSub(b) == {p \in pieces : SubOf(p[1]) = b}

Holed(n) == {b \in Subs : /\ PageOf(b * SubSize) \in OfType("special")
                          /\ b \in m.use[PageOf(b * SubSize)]
                          /\ m.sub[b].chunk = n /\ m.sub[b].used < m.sub[b].total}

Subs1(n) == Walk(m.subs[n], Zero, LAMBDA w : m.sub[SubOf(w)].next, Cardinality(Subs))

\* The subpages in use hold pieces of one size, their holes and the rest of the
\* zone of this size; no place is lost, the lists of subpages with holes and of
\* pages with unused subpages have those and no others.
SubpagesSound ==
  /\ \A p \in OfType("special") :
       m.use[p] = {b \in SubsOf(p) : InSub(b) # {}} /\ m.use[p] # {}
  /\ \A p \in OfType("special") : \A b \in m.use[p] :
       LET head == m.sub[b]
           holes == Walk(head.hole, Zero, LAMBDA w : m.next[w], SubSize)
           end == FirstOf(b) + head.total * head.chunk
       IN  /\ \A q \in InSub(b) : q[2] = head.chunk /\ q[1] \in PlacesIn(b)
           /\ head.used = Cardinality(InSub(b))
           /\ ToSet(holes) = PlacesIn(b) \ {q[1] : q \in InSub(b)} /\ IsInjective(holes)
           /\ end <= (b + 1) * SubSize
           /\ m.zone[head.chunk] = end \/ end + head.chunk > (b + 1) * SubSize
  /\ \A n \in Small :
       /\ Linked([i \in DOMAIN Subs1(n) |-> SubOf(Subs1(n)[i])], Holed(n),
                 [b \in Subs |-> SubOf(m.sub[b].prev)])
       /\ m.zone[n] # Zero => \E q \in pieces : SubOf(q[1]) = SubOf(m.zone[n]) /\ q[2] = n
  /\ Linked(Walk(m.pf, NoPage, LAMBDA p : m.pnext[p], MaxPages),
            {p \in OfType("special") : m.use[p] # SubsOf(p)}, m.pprev)
=============================================================================
