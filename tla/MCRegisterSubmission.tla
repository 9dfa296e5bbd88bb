---- MODULE MCRegisterSubmission ----
(* A small instance of RegisterSubmission for TLC. *)
EXTENDS RegisterSubmission
====
