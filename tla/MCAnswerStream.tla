---------------------------- MODULE MCAnswerStream ----------------------------
(***************************************************************************)
(* An instance of AnswerStream for TLC: one answer of a few text events.   *)
(***************************************************************************)
EXTENDS AnswerStream
=============================================================================
