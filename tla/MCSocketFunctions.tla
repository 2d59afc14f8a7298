------------------------- MODULE MCSocketFunctions -------------------------
(* Arrays of up to three buffers, empty ones among them.                   *)
EXTENDS SocketFunctions

Buffer(base, len) == [base |-> base, len |-> len]

MCArrays ==
  {<<Buffer(0, a)>> : a \in {0, 1, 4}} \union
  {<<Buffer(0, a), Buffer(a, b), Buffer(a + b, c)>> : a, b, c \in 0..2}
=============================================================================
