---------------------------- MODULE MCChainLock ----------------------------
EXTENDS ChainLock, TLC
CONSTANTS a, b, c, d
\* Two keys of one pair, one of another pair of the same word, and one of
\* another word.
LowerHalf == [k \in Keys |-> (a :> <<0, 0>> @@ b :> <<0, 0>> @@ c :> <<0, 1>> @@ d :> <<1, 0>>)[k]]
\* A pair whose number modulo WordBits is IntBits.
UpperHalf == [k \in Keys |-> (a :> <<0, 2>> @@ b :> <<0, 2>> @@ c :> <<0, 1>> @@ d :> <<1, 0>>)[k]]
=============================================================================
