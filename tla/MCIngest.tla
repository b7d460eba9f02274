------------------------------ MODULE MCIngest ------------------------------
(* A small instance of Ingest: a client that retries sends everything again. *)
EXTENDS Ingest, TLC

CONSTANTS a1, a2, i1, i2, bad

ViewsRetry == [a \in Attempts |-> <<i1, i2>>]
=============================================================================
