---------------------------- MODULE MCCaseListing -----------------------------
(***************************************************************************)
(* One listing of two cases that two other threads create and change.       *)
(***************************************************************************)
EXTENDS CaseListing, TLC

MCSymmetry == Permutations(Requests)

\* Cases that other calls have left.
MCRows ==
    [severity : {3}, isOpen : BOOLEAN, isExecutiveEscalation : {FALSE}, version : {1}]
=============================================================================
