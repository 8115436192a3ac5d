----------------------------- MODULE MCTickPath -----------------------------
(***************************************************************************)
(* The ticks up to MaxQuotes.                                              *)
(***************************************************************************)
EXTENDS TickPath

TickItems == [n : 0 .. MaxQuotes, ms : 0 .. MaxQuotes]
=============================================================================
