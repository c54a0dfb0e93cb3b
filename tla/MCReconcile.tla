----------------------------- MODULE MCReconcile -----------------------------
(***************************************************************************)
(* Small instances of Reconcile.                                           *)
(***************************************************************************)
EXTENDS Reconcile, TLC

\* Every runner has every label from its token, and all or none of them in its
\* configuration.
MCLabels == [r \in Runners |-> Labels]
MCNoLabels == [r \in Runners |-> {}]

MCSymmetry == Permutations(Schedules) \cup Permutations(Runners)
=============================================================================
