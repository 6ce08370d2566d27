------------------------- MODULE MCInMemoryCaseService -------------------------
(***************************************************************************)
(* Small instances of InMemoryCaseService: one case number, because objects *)
(* share nothing but the dictionary.                                        *)
(***************************************************************************)
EXTENDS InMemoryCaseService, TLC

MCSymmetry == Permutations(Requests)

\* Cases that other calls have left, so that every rule has a case to refuse.
MCWorked ==
    [severity : {5}, isOpen : BOOLEAN, isExecutiveEscalation : BOOLEAN, version : {1}]

\* A case as it was created.
MCCreated ==
    {[severity |-> 5, isOpen |-> TRUE, isExecutiveEscalation |-> FALSE, version |-> 1]}
=============================================================================
