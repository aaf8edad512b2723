----------------------------- MODULE MCChannel -----------------------------
\* Instance of Channel: bodies of no and of one byte, and one that is cut.
EXTENDS Channel
CONSTANTS empty, short, huge
Sizes == [m \in Message |-> CASE m = empty -> 0 [] m = short -> 1 [] OTHER -> 2]
=============================================================================
