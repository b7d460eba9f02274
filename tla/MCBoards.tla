----------------------------- MODULE MCBoards ------------------------------
(* A small instance of Boards: the whole of a board, its rest with a view   *)
(* that does not decode, the whole again; and a read that waits.          *)
EXTENDS Boards, TLC

CONSTANTS a1, a2, a3, i1, i2, bad, r1, r2

ViewsMixed == [a \in Attempts |->
                 CASE a = a1 -> <<i1, i2>> [] a = a2 -> <<i2, bad>> [] a = a3 -> <<i2, i1>>]
=============================================================================
