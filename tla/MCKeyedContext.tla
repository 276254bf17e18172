--------------------------- MODULE MCKeyedContext ---------------------------
(* Two coroutines in one process and a third in another.                   *)
EXTENDS KeyedContext

CONSTANTS p1, p2, c3

MCHome == [c \in Coroutine |-> IF c = c3 THEN p2 ELSE p1]
=============================================================================
