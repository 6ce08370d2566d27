--------------------------- MODULE EntityTagVersion ---------------------------
(***************************************************************************)
(* The codec between a version and the entity tag that names it             *)
(* (CasePriority.Api/Http/EntityTagVersion.cs), as operators.               *)
(*                                                                          *)
(* A header is a sequence of one-letter strings.  MaxVersion stands for the *)
(* largest 64-bit number; what matters is that it is neither 0 nor of the   *)
(* form 99...9, so that numbers of its own length overflow.                 *)
(***************************************************************************)
EXTENDS Integers, SequencesExt

CONSTANTS
    MaxVersion,  \* long.MaxValue
    NoHeader     \* a header that is not there

ASSUME MaxVersionAssumption == MaxVersion \in Nat \ {0}

Quote == "\""
Space == " "
Digits == <<"0", "1", "2", "3", "4", "5", "6", "7", "8", "9">>

\* Every tag that Format writes is one of these.
Tags == Seq({Quote} \cup ToSet(Digits))

ASSUME NoHeaderAssumption == NoHeader \notin Tags

Version(version) == [status |-> 200, version |-> version]
Problem(status) == [status |-> status, version |-> 0]
Unparsed == Problem(0)

-----------------------------------------------------------------------------
\* A number in decimal, without leading zeros.
Decimal[n \in Nat] ==
    IF n < 10
    THEN <<Digits[n + 1]>>
    ELSE Append(Decimal[n \div 10], Digits[(n % 10) + 1])

\* Mutant: a weak validator.
FormatWeak(version) == <<"W", "/", Quote>> \o Decimal[version] \o <<Quote>>

Format(version) == <<Quote>> \o Decimal[version] \o <<Quote>>

\* string.Trim: nothing but white space before the first and after the last letter kept.
Trim(s) ==
    LET kept == {i \in DOMAIN s : s[i] # Space}
    IN  IF kept = {} THEN <<>> ELSE SubSeq(s, Min(kept), Max(kept))

DigitValue(digit) == (CHOOSE i \in DOMAIN Digits : Digits[i] = digit) - 1

\* The number a sequence of digits denotes.
Number[digits \in Seq(ToSet(Digits))] ==
    IF digits = <<>>
    THEN 0
    ELSE 10 * Number[Front(digits)] + DigitValue(Last(digits))

\* Mutant: a number that is too long for 64 bits is accepted.
TryParseUnbounded(s) == s # <<>> /\ ToSet(s) \subseteq ToSet(Digits)

\* long.TryParse with NumberStyles.None: digits only, and no overflow.
TryParse(s) ==
    /\ s # <<>>
    /\ ToSet(s) \subseteq ToSet(Digits)
    /\ Number[s] <= MaxVersion

WellFormed(value) ==
    /\ ~IsPrefix(<<"W", "/">>, value)
    /\ Len(value) >= 3
    /\ Head(value) = Quote
    /\ Last(value) = Quote
    /\ ~Contains(value, ",")

\* Mutant: version 0 is accepted.
ParseRequiredFromZero(raw) ==
    IF raw = NoHeader \/ Trim(raw) = <<>>
    THEN Problem(428)
    ELSE LET value == Trim(raw)
             versionText == SubSeq(value, 2, Len(value) - 1)
         IN  IF WellFormed(value) /\ TryParse(versionText)
             THEN Version(Number[versionText])
             ELSE Problem(400)

\* A version, or the status of the exception: PreconditionRequired or Argument.
ParseRequired(raw) ==
    IF raw = NoHeader \/ Trim(raw) = <<>>
    THEN Problem(428)
    ELSE LET value == Trim(raw)
             versionText == SubSeq(value, 2, Len(value) - 1)
         IN  IF WellFormed(value) /\ TryParse(versionText) /\ Number[versionText] >= 1
             THEN Version(Number[versionText])
             ELSE Problem(400)
=============================================================================
