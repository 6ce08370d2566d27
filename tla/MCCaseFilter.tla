----------------------------- MODULE MCCaseFilter -----------------------------
(***************************************************************************)
(* Two rows, and every text of up to two letters out of a letter in both    *)
(* cases and one without case.                                              *)
(***************************************************************************)
EXTENDS CaseFilter, SequencesExt

MCLetters == {"a", "A", "7"}

MCLowerCase == [letter \in MCLetters |-> IF letter = "A" THEN "a" ELSE letter]

MCTexts == BoundedSeq(MCLetters, 2)
=============================================================================
