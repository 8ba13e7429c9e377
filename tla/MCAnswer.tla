------------------------------ MODULE MCAnswer ------------------------------
(* An instance of AnswerStream for TLC. *)
EXTENDS AnswerStream
=============================================================================
