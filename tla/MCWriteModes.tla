--------------------------- MODULE MCWriteModes ---------------------------
EXTENDS WriteModes, MCChainLock
CONSTANTS w1, w2, w3, h1, h2
\* Two threads of one process and one of another.
TwoAndOne == w1 :> h1 @@ w2 :> h1 @@ w3 :> h2
=============================================================================
