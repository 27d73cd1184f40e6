--------------------------- MODULE MCComparison ---------------------------
(* Comparison with three keys, two of which share a counter.               *)
EXTENDS Comparison
CONSTANT c1

MCChainOf == <<1, 2, 3>>
MCPartOf  == <<1, 1, 2>>

Line(k, v) == [key |-> k, value |-> v]

\* Files that have nothing, some and all keys, one twice, and other values.
MCFiles ==
  {<<>>, <<Line(1, 0)>>, <<Line(1, 0), Line(1, 1)>>, <<Line(3, 1), Line(2, 0)>>,
   <<Line(1, 0), Line(2, 1), Line(3, 0)>>}

\* One process at a time, with and without counters, over a copy on disk, whose
\* owners die.
Turns(counted) ==
  [parallel |-> FALSE, counted |-> counted, kept |-> TRUE, comparers |-> {c1}, ops |-> Ops,
   files |-> MCFiles, calls |-> {"file"}, deletes |-> TRUE, last |-> {}, fails |-> FALSE]

\* The same with calls for one key, and with a header in a last place.
Single == [Turns(FALSE) EXCEPT !.calls = {"file", "single"}, !.last = {2}]

\* Comparisons without memory.
Failing == [Turns(TRUE) EXCEPT !.fails = TRUE]

\* Threads side by side, in memory; with counters they delete nothing.
Beside(counted) ==
  [Turns(counted) EXCEPT !.parallel = TRUE, !.kept = FALSE, !.deletes = ~counted,
                         !.ops = Ops \ {"intersect"},
                         !.files = {<<Line(1, 0), Line(1, 1)>>, <<Line(3, 1), Line(2, 0)>>}]

\* Two of them compare.
Both ==
  [Beside(FALSE) EXCEPT !.comparers = Comparers, !.calls = {},
                         !.ops = Ops, !.files = MCFiles]

MCUsages == {Turns(TRUE), Single, Failing, Beside(TRUE), Beside(FALSE), Both}
===========================================================================
