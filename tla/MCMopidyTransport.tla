------------------------- MODULE MCMopidyTransport -------------------------
(***************************************************************************)
(* MopidyTransport for TLC: two tasks, a channel that one frame fills, and *)
(* a backoff that overflows at its third failure in a row.                 *)
(***************************************************************************)
EXTENDS MopidyTransport
=============================================================================
