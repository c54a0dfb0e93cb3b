----------------------------- MODULE MCEnrollment -----------------------------
(* Two hosts that race for tokens, with a failure and the requests of users. *)
EXTENDS Enrollment
=============================================================================
