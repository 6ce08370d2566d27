------------------------------- MODULE MCIfMatch -------------------------------
(***************************************************************************)
(* Every header of up to five letters out of those that parsing tells       *)
(* apart; with a largest version of 12 they hold its neighbours, leading    *)
(* zeros, lists, weak tags, signs and white space in and around the quotes. *)
(***************************************************************************)
EXTENDS IfMatch

MCHeaders == BoundedSeq({Quote, "0", "1", "2", "W", "/", ",", Space, "-"}, 5)
=============================================================================
