----------------------------- MODULE MCPageLoad -----------------------------
EXTENDS PageLoad, TLC
CONSTANTS t1, t2, t3, c1, c2, c3
MCPages == {1, 2}
\* Processes with a connection and a thread each.
Apart == [t \in Threads |-> CASE t = t1 -> c1 [] t = t2 -> c2 [] OTHER -> c3]
\* A process with two threads.
Together == [t \in Threads |-> c1]
=============================================================================
