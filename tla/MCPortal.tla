------------------------------- MODULE MCPortal -------------------------------
(***************************************************************************)
(* Two tabs of one browser and other clients, on one case.                  *)
(***************************************************************************)
EXTENDS Portal, TLC

MCSymmetry == Permutations(Tabs) \cup Permutations(Requests)

\* A case as it was created.
MCCreated ==
    {[severity |-> 5, isOpen |-> TRUE, isExecutiveEscalation |-> FALSE, version |-> 1]}
=============================================================================
