------------------------------ MODULE CaseFilter ------------------------------
(***************************************************************************)
(* The list of cases in the browser: the rows the server delivered, the     *)
(* filter field above them and the script that hides the rows without the   *)
(* text typed (CasePriority.Web/wwwroot/js/site.js, with the field and the  *)
(* table of Pages/Cases/Index.cshtml).                                      *)
(*                                                                          *)
(* The script runs on one thread and an event handler runs to its end, so   *)
(* one event is one step.  The field and the script are not created         *)
(* together: the user can type before the page is ready, and a browser that *)
(* loads the page again may put back what was typed without any event.      *)
(*                                                                          *)
(* A row's text is that of all its cells, its link included, in one         *)
(* sequence.  Letters whose lower case depends on their neighbours or has   *)
(* another length (the final sigma, the dotted capital I) are left out.     *)
(***************************************************************************)
EXTENDS Sequences, Integers

CONSTANTS
    Rows,       \* the rows of the table body
    Letters,    \* the letters of texts and queries
    LowerCase,  \* letter -> its lower case
    Texts       \* what a row, and the field, may contain

ASSUME LowerCaseAssumption == LowerCase \in [Letters -> Letters]
ASSUME TextsAssumption == Texts \subseteq Seq(Letters) /\ <<>> \in Texts

VARIABLES
    texts,    \* row -> its text as delivered
    field,    \* what the filter field contains
    ready,    \* whether the page-ready handler has run
    visible   \* the rows that are not hidden

vars == <<texts, field, ready, visible>>

TypeOK ==
    /\ texts \in [Rows -> Texts]
    /\ field \in Texts
    /\ ready \in BOOLEAN
    /\ visible \subseteq Rows

-----------------------------------------------------------------------------
ToLowerCase(s) == [i \in DOMAIN s |-> LowerCase[s[i]]]

\* String.prototype.includes: the query begins after the first k letters, for some k.
Includes(text, query) ==
    \E k \in 0..(Len(text) - Len(query)) :
        \A j \in 1..Len(query) : text[k + j] = query[j]

\* Mutant: the query is searched for the text.
MatchesSwapped(text, query) == Includes(ToLowerCase(query), ToLowerCase(text))

Matches(text, query) == Includes(ToLowerCase(text), ToLowerCase(query))

\* Mutant: a row that matches is not shown again.
OnlyHide(query) == {row \in visible : Matches(texts[row], query)}

\* toggle(...) on every row of the table body, hidden before or not.
Toggled(query) == {row \in Rows : Matches(texts[row], query)}

-----------------------------------------------------------------------------
Init ==
    /\ texts \in [Rows -> Texts]
    /\ field = <<>>
    /\ ready = FALSE
    /\ visible = Rows

\* A response of the server replaces the page; the browser may put back what was typed.
Load ==
    /\ texts' \in [Rows -> Texts]
    /\ field' \in {<<>>, field}
    /\ ready' = FALSE
    /\ visible' = Rows

\* The handler is attached; what the field contains already is not looked at.
Ready ==
    /\ ~ready
    /\ ready' = TRUE
    /\ UNCHANGED <<texts, field, visible>>

\* An input event: a key, a paste, a deletion.
Input ==
    /\ field' \in Texts \ {field}
    /\ visible' = IF ready THEN Toggled(field') ELSE visible
    /\ UNCHANGED <<texts, ready>>

Next == Load \/ Ready \/ Input

Spec == Init /\ [][Next]_vars

-----------------------------------------------------------------------------
\* The filter loses no row: one that contains the query letter by letter is never
\* hidden, whatever was typed before and whenever the script became ready.  An
\* empty field, which every text contains, therefore shows every row.
VerbatimMatchShown == \A row \in Rows : Includes(texts[row], field) => row \in visible

\* On one page, typing more, at either end of the field, never brings a hidden row back.
NarrowingOnly ==
    [][ready' = ready /\ texts' = texts /\ Includes(field', field) => visible' \subseteq visible]_vars
=============================================================================
