---------------------------- MODULE MCFileCalls ----------------------------
EXTENDS FileCalls
\* Two buckets, with neighbours in the same one and in different ones.
Mixed == [i \in 1 .. Items |-> IF i % 3 = 0 THEN 1 ELSE i % 2]
\* Both kinds of calls in both pipelines, a file with a line that is skipped,
\* and a set with spinlocks.
MCSetups ==
  [multicore : BOOLEAN, file : BOOLEAN, minus : {FALSE}, spin : {FALSE}]
    \cup [multicore : BOOLEAN, file : {TRUE}, minus : {TRUE}, spin : {FALSE}]
    \cup [multicore : BOOLEAN, file : {FALSE}, minus : {FALSE}, spin : {TRUE}]
=============================================================================
