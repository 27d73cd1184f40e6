------------------------------ MODULE MCMemory ------------------------------
EXTENDS Memory

A(sizes, pages, most, heads0, revert) ==
  [sizes |-> sizes, pages |-> pages, most |-> most, headers |-> heads0, revert |-> revert]

MCAsks ==
  {A({3, 5}, 3, 5, "none", FALSE),     \* holes of every size, merged on both sides
   A({2}, 3, 9, "none", FALSE),        \* subpages of one size
   A({1, 2}, 2, 6, "none", FALSE),     \* of two
   A({2, 3}, 3, 5, "blocks", FALSE),   \* pages of every type
   A({4, 8}, 2, 2, "none", TRUE),      \* with flushes and reverts
   A({1, 8}, 3, 2, "none", TRUE),
   A({12}, 2, 1, "all", FALSE)}        \* all that headers do, on a new and a used page

MCWide == {A({12}, 4, 4, "none", FALSE)}

NotLost == ~lost

\* What an operation can depend on.  The rest is left over: links of words that
\* are no hole's, the prev of what is first in its list.
HoleHeads == {r[1] : r \in {x \in Runs : x[2] >= MinHole}}

FirstOfList(w) == \E l \in Lists : m.holes[l] = w

SubView(b) ==
  LET h == m.sub[b] IN
  <<h.total, h.used, h.hole, h.chunk,
    IF h.used = h.total THEN <<>>
    ELSE <<h.next, IF m.subs[h.chunk] = HeadOf(b) THEN Zero ELSE h.prev>>,
    [w \in PlacesIn(b) \ {q[1] : q \in pieces} |-> m.next[w]]>>

PageView(p) ==
  <<m.use[p],
    IF m.use[p] = SubsOf(p) THEN <<>>
    ELSE <<m.pnext[p], IF m.pf = p THEN NoPage ELSE m.pprev[p]>>,
    [b \in m.use[p] |-> SubView(b)]>>

HeaderView ==
  LET lists == [n \in H!Sizes |-> IF n \in heads.mask THEN H!ListOf(n) ELSE <<>>] IN
  <<heads.used, heads.reserved, lists, heads.mask, heads.zone, heads.pages, runs, touched,
    heads.zone # H!Zero /\ worn, leaked, {n \in H!Sizes : heads.holes[n] # H!Zero},
    [n \in H!Sizes |-> [i \in 2 .. Len(lists[n]) |-> heads.prev[lists[n][i]]]]>>

View ==
  <<ask, pieces, lost, saved, HeaderView,
    m.pcnt, m.empty, m.type, m.unlocated, m.holes, m.pf, m.zone, m.subs,
    [p \in OfType("empty") |-> m.link[p]],
    [h \in HoleHeads |-> <<m.next[h], IF FirstOfList(h) THEN Zero ELSE m.prev[h]>>],
    [p \in OfType("special") |-> PageView(p)]>>
=============================================================================
