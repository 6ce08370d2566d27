--------------------------- MODULE CaseFilterProofs ---------------------------
(***************************************************************************)
(* The properties of the case filter for every table, alphabet and text.    *)
(*                                                                          *)
(* What is shown is either everything or what the current query matches;    *)
(* the rest are facts about includes: it survives lower case, and it is     *)
(* transitive.                                                              *)
(***************************************************************************)
EXTENDS CaseFilter, TLAPS

\* Either no event has been filtered since the page came, or the last one decides.
Filtered == visible = Rows \/ (ready /\ visible = Toggled(field))

IInv == TypeOK /\ Filtered

-----------------------------------------------------------------------------
LEMMA TextsAreTexts ==
    ASSUME NEW s \in Texts
    PROVE  s \in Seq(Letters) /\ Len(s) \in Nat /\ DOMAIN s = 1..Len(s)
  BY TextsAssumption

LEMMA LowerCaseKeepsLength ==
    ASSUME NEW s \in Texts
    PROVE  /\ ToLowerCase(s) \in Seq(Letters)
           /\ Len(ToLowerCase(s)) = Len(s)
           /\ \A i \in 1..Len(s) : ToLowerCase(s)[i] = LowerCase[s[i]]
  <1>1. s \in Seq(Letters) /\ Len(s) \in Nat /\ DOMAIN s = 1..Len(s)
    BY TextsAreTexts
  <1>2. \A i \in 1..Len(s) : LowerCase[s[i]] \in Letters
    BY <1>1, LowerCaseAssumption
  <1>3. ToLowerCase(s) = [i \in 1..Len(s) |-> LowerCase[s[i]]]
    BY <1>1 DEF ToLowerCase
  <1>4. ToLowerCase(s) \in [1..Len(s) -> Letters]
    BY <1>2, <1>3
  <1> QED
    BY <1>1, <1>3, <1>4

\* A text that contains a query contains it in lower case.
LEMMA LowerCaseKeepsIncludes ==
    ASSUME NEW text \in Texts, NEW query \in Texts, Includes(text, query)
    PROVE  Matches(text, query)
  <1>1. PICK k \in 0..(Len(text) - Len(query)) :
            \A j \in 1..Len(query) : text[k + j] = query[j]
    BY DEF Includes
  <1>2. Len(text) \in Nat /\ Len(query) \in Nat
    BY TextsAreTexts
  <1>3. ASSUME NEW j \in 1..Len(query)
        PROVE  ToLowerCase(text)[k + j] = ToLowerCase(query)[j]
    <2>1. k + j \in 1..Len(text)
      BY <1>1, <1>2
    <2>2. ToLowerCase(text)[k + j] = LowerCase[text[k + j]]
      BY <2>1, LowerCaseKeepsLength
    <2>3. ToLowerCase(query)[j] = LowerCase[query[j]]
      BY <1>3, LowerCaseKeepsLength
    <2> QED
      BY <1>1, <1>3, <2>2, <2>3
  <1> QED
    BY <1>1, <1>3, LowerCaseKeepsLength DEF Matches, Includes

\* includes is transitive.
LEMMA IncludesTransitive ==
    ASSUME NEW a, NEW b, NEW c,
           Len(a) \in Nat, Len(b) \in Nat, Len(c) \in Nat,
           Includes(a, b), Includes(b, c)
    PROVE  Includes(a, c)
  <1>1. PICK k \in 0..(Len(a) - Len(b)) : \A j \in 1..Len(b) : a[k + j] = b[j]
    BY DEF Includes
  <1>2. PICK m \in 0..(Len(b) - Len(c)) : \A j \in 1..Len(c) : b[m + j] = c[j]
    BY DEF Includes
  <1>3. k + m \in 0..(Len(a) - Len(c))
    BY <1>1, <1>2
  <1>4. ASSUME NEW j \in 1..Len(c)
        PROVE  a[(k + m) + j] = c[j]
    <2>1. m + j \in 1..Len(b)
      BY <1>2
    <2>2. a[k + (m + j)] = b[m + j]
      BY <1>1, <2>1
    <2>3. k + (m + j) = (k + m) + j
      BY <1>1, <1>2
    <2> QED
      BY <1>2, <2>2, <2>3
  <1> QED
    BY <1>3, <1>4 DEF Includes

\* A text that matches a query matches every part of it.
LEMMA MatchesPart ==
    ASSUME NEW text \in Texts, NEW query \in Texts, NEW part \in Texts,
           Matches(text, query), Includes(query, part)
    PROVE  Matches(text, part)
  <1>1. Includes(ToLowerCase(query), ToLowerCase(part))
    BY LowerCaseKeepsIncludes DEF Matches
  <1>2. Includes(ToLowerCase(text), ToLowerCase(query))
    BY DEF Matches
  <1>3. /\ Len(ToLowerCase(text)) \in Nat
        /\ Len(ToLowerCase(query)) \in Nat
        /\ Len(ToLowerCase(part)) \in Nat
    BY LowerCaseKeepsLength, TextsAreTexts
  <1>4. Includes(ToLowerCase(text), ToLowerCase(part))
    BY <1>1, <1>2, <1>3, IncludesTransitive
  <1> QED
    BY <1>4 DEF Matches

-----------------------------------------------------------------------------
LEMMA FilteredInitially == Init => IInv
  BY TextsAssumption DEF Init, IInv, TypeOK, Filtered

LEMMA FilteredKept == IInv /\ [Next]_vars => IInv'
  <1> SUFFICES ASSUME IInv, [Next]_vars
               PROVE  IInv'
    OBVIOUS
  <1> USE DEF IInv, TypeOK, Filtered
  <1>1. CASE Load
    BY <1>1, TextsAssumption DEF Load
  <1>2. CASE Ready
    BY <1>2 DEF Ready
  <1>3. CASE Input
    BY <1>3 DEF Input, Toggled
  <1>4. CASE UNCHANGED vars
    BY <1>4 DEF vars, Toggled
  <1> QED
    BY <1>1, <1>2, <1>3, <1>4 DEF Next

LEMMA FilterInvariance == Spec => []IInv
  BY FilteredInitially, FilteredKept, PTL DEF Spec

\* A row that contains the query as it was typed is never hidden.
THEOREM NoRowIsLost == Spec => []VerbatimMatchShown
  <1>1. IInv => VerbatimMatchShown
    <2> SUFFICES ASSUME IInv, NEW row \in Rows, Includes(texts[row], field)
                 PROVE  row \in visible
      BY DEF VerbatimMatchShown
    <2>1. Matches(texts[row], field)
      BY LowerCaseKeepsIncludes DEF IInv, TypeOK
    <2> QED
      BY <2>1 DEF IInv, Filtered, Toggled
  <1> QED
    BY <1>1, FilterInvariance, PTL

\* A longer query shows no row that a part of it hid.
THEOREM TypingNarrows == Spec => NarrowingOnly
  <1>1. ASSUME IInv, IInv', [Next]_vars,
               ready' = ready, texts' = texts, Includes(field', field)
        PROVE  visible' \subseteq visible
    <2>1. CASE visible = Rows
      BY <1>1, <2>1 DEF IInv, TypeOK
    <2>2. CASE visible # Rows
      <3>1. ready /\ visible = Toggled(field)
        BY <1>1, <2>2 DEF IInv, Filtered
      <3>2. CASE Input
        <4>1. visible' = Toggled(field')
          BY <3>1, <3>2 DEF Input
        <4> SUFFICES ASSUME NEW row \in visible'
                     PROVE  row \in visible
          OBVIOUS
        <4>2. row \in Rows /\ Matches(texts[row], field')
          BY <1>1, <4>1 DEF Toggled
        <4>3. texts[row] \in Texts /\ field \in Texts /\ field' \in Texts
          BY <1>1, <4>2 DEF IInv, TypeOK
        <4>4. Matches(texts[row], field)
          BY <1>1, <4>2, <4>3, MatchesPart
        <4> QED
          BY <3>1, <4>2, <4>4 DEF Toggled
      <3>3. CASE Load \/ Ready
        BY <1>1, <3>1, <3>3 DEF Load, Ready
      <3>4. CASE UNCHANGED vars
        BY <3>4 DEF vars
      <3> QED
        BY <1>1, <3>2, <3>3, <3>4 DEF Next
    <2> QED
      BY <2>1, <2>2
  <1>2. IInv /\ IInv' /\ [Next]_vars =>
            [ready' = ready /\ texts' = texts /\ Includes(field', field)
                => visible' \subseteq visible]_vars
    BY <1>1
  <1> QED
    BY <1>2, FilterInvariance, PTL DEF Spec, NarrowingOnly
=============================================================================
