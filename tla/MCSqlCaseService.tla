---------------------------- MODULE MCSqlCaseService ----------------------------
(***************************************************************************)
(* Small instances of SqlCaseService: one case number, because rows of      *)
(* different numbers never meet in a statement.                             *)
(***************************************************************************)
EXTENDS SqlCaseService, TLC

MCSymmetry == Permutations(Requests)

\* A case as it was created; severity 3 is a change, and then a no-op.
MCCreated ==
    {[severity |-> 5, isOpen |-> TRUE, isExecutiveEscalation |-> FALSE, version |-> 1]}

\* Cases that have been changed before, so that every rule has a case to refuse.
MCWorked ==
    MCCreated \cup
    [severity : {5}, isOpen : BOOLEAN, isExecutiveEscalation : BOOLEAN, version : {2}]

=============================================================================
