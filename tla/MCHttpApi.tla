------------------------------- MODULE MCHttpApi -------------------------------
(***************************************************************************)
(* Two requests of any kind race on one case; two tags name the two         *)
(* versions, a third is weak.                                               *)
(***************************************************************************)
EXTENDS HttpApi

MCInitialRows ==
    [severity : {5}, isOpen : {TRUE}, isExecutiveEscalation : {FALSE}, version : {1}]

MCRoles == {"CaseManager", "Viewer", "Auditor"}

MCIfMatches ==
    {NoHeader, Format(1), Format(2), <<"W", "/", "\"", "1", "\"">>}

\* One valid value, one that is not, and the valid one twice.
MCSupplied == {<<"id1">>, <<"!">>, <<"id1", "id1">>}
=============================================================================
