-------------------------------- MODULE IfMatch --------------------------------
(***************************************************************************)
(* One PATCH that brings a tag back: what EntityTagVersion.ParseRequired    *)
(* makes of every header a client may send.                                 *)
(***************************************************************************)
EXTENDS EntityTagVersion

CONSTANT Headers    \* values clients send in If-Match

\* They are sequences, of any letters.
ASSUME HeadersAssumption == \A header \in Headers : header \in Seq(ToSet(header))

VARIABLES
    ifMatch,  \* the header of the request
    parsed    \* what ParseRequired made of it

vars == <<ifMatch, parsed>>

Init ==
    /\ ifMatch \in Headers \cup {NoHeader} \cup {Format(version) : version \in 1..MaxVersion}
    /\ parsed = Unparsed

Parse ==
    /\ parsed = Unparsed
    /\ parsed' = ParseRequired(ifMatch)
    /\ UNCHANGED ifMatch

Next == Parse

Spec == Init /\ [][Next]_vars

-----------------------------------------------------------------------------
\* Around the first and the last quote of a header there is white space only, and between
\* them the version in decimal, after any number of zeros.
IsStrongTag(header, version) ==
    \E before, zeros \in 0..Len(header) :
        LET after == Len(header) - before - zeros - Len(Decimal[version]) - 2
        IN  /\ after >= 0
            /\ header = [i \in 1..before |-> Space]
                            \o <<Quote>> \o [i \in 1..zeros |-> "0"] \o Decimal[version] \o <<Quote>>
                            \o [i \in 1..after |-> Space]

(***************************************************************************)
(* The class "Deliberately supports exactly ONE strong ETag" (line 7): the  *)
(* headers that are accepted are those with the quoted decimal of a version *)
(* from 1 to the largest 64-bit number, and each is taken for that version; *)
(* a request without a tag is a 428 and any other a 400.                    *)
(***************************************************************************)
OneStrongTag ==
    parsed # Unparsed =>
        /\ parsed.status = 200 =>
              parsed.version \in 1..MaxVersion /\ IsStrongTag(ifMatch, parsed.version)
        /\ parsed.status = 428 <=> ifMatch = NoHeader \/ ToSet(ifMatch) \subseteq {Space}
        /\ parsed.status = 400 =>
              \A version \in 1..MaxVersion : ~IsStrongTag(ifMatch, version)

\* The tag of every version, sent back, is that version again.
RoundTrip ==
    \A version \in 1..MaxVersion :
        parsed # Unparsed /\ ifMatch = Format(version) => parsed = Version(version)
=============================================================================
