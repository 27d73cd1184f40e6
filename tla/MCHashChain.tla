---------------------------- MODULE MCHashChain ----------------------------
(* HashChain with blocks of two or three places instead of eight: the full  *)
(* piece, the last piece of two behind it and the moves between them fit.   *)
EXTENDS HashChain, FiniteSetsExt, TLC

MCTwoBlocks == 1..2

\* Searches while four keys come and go, with a neighbour in both places.
Searching ==
  [keys |-> Keys, reads |-> {"get"}, last |-> 2, taken |-> {<<1, 2>>},
   others |-> 1, deletes |-> {"del"}, timeouts |-> FALSE]

\* Dumps beside both deletions.
Dumping(keys) ==
  [keys |-> keys, reads |-> {"dump"}, last |-> 1, taken |-> {},
   others |-> 0, deletes |-> {"del", "unmarked"}, timeouts |-> FALSE]

\* Reads that lose their locks.
Losing(keys, reads) ==
  [Dumping(keys) EXCEPT !.reads = reads, !.deletes = {"del"}, !.timeouts = TRUE]

MCSetups ==
  {Searching}
    \cup {Dumping(ks) : ks \in kSubset(3, Keys)}
    \cup {Losing(ks, {"get", "dump"}) : ks \in kSubset(2, Keys)}

Symmetry  == Permutations(Keys)

\* What the chain and the lock depend on, and of the histories what the
\* properties look at: of a promise that is half kept the other half is not, and
\* what a dump has put together is thrown away when its lock is lost.
Written(r) == IF section[r] = "in" THEN {out[r][i].key : i \in DOMAIN out[r]} ELSE {}

View ==
  <<setup, tab, link, others, mem, live, todo, lock, pc, at, held, asked,
    IF OnlySearched THEN <<torn, stray>> ELSE <<>>,
    [r \in Readers |-> IF OnlySearched THEN <<always[r], ever[r]>>
                       ELSE IF Dumps(r) THEN <<always[r], Written(r)>> ELSE <<ever[r]>>]>>

=============================================================================
