------------------------------ MODULE CaseListing ------------------------------
(***************************************************************************)
(* GetAllCasesAsync and GetOpenCasesBySeverityAsync over the in-memory      *)
(* repository, while other threads create and change cases.  The list of    *)
(* objects is taken at one instant; each object's snapshot is taken later,  *)
(* one after the other, inside the object's lock.                           *)
(*                                                                          *)
(* Case numbers are integers here, in the order of ThenBy.  A token that is *)
(* cancelled when a listing starts ends it before anything is read.         *)
(***************************************************************************)
EXTENDS InMemoryCaseService, Sequences, FiniteSets

ASSUME NumbersAssumption == Numbers \subseteq Int

VARIABLES
    stage,     \* where the listing is
    openOnly,  \* whether it is GetOpenCasesBySeverityAsync
    unread,    \* numbers of the listed objects whose snapshot is not taken yet
    rows,      \* the snapshots, in the order they were taken; then the result
    begun,     \* (history) numbers that were stored when the listing began
    lived      \* number -> (history) what the case has been since then

listing == <<stage, openOnly, unread, rows, begun, lived>>

Stages == {"idle", "reading", "returned"}

ListingInit ==
    /\ Init
    /\ stage = "idle"
    /\ openOnly \in BOOLEAN
    /\ unread = {}
    /\ rows = <<>>
    /\ begun = {}
    /\ lived = [n \in Numbers |-> {}]

Stored == {n \in Numbers : cases[n] # NoRow}

\* GetAllAsync: the dictionary's values.
GetAll ==
    /\ stage = "idle"
    /\ stage' = "reading"
    /\ unread' = Stored
    /\ begun' = Stored
    /\ lived' = [n \in Numbers |-> {settled[n]}]
    /\ UNCHANGED <<vars, openOnly, rows>>

\* Mutant: the fields are read without the lock.
SnapshotUnlocked(n) ==
    /\ stage = "reading"
    /\ n \in unread
    /\ unread' = unread \ {n}
    /\ rows' = Append(rows, [number |-> n, case |-> cases[n]])
    /\ UNCHANGED <<vars, stage, openOnly, begun, lived>>

\* ToSnapshot of one object; it waits for the object's lock and leaves it.
Snapshot(n) ==
    /\ stage = "reading"
    /\ n \in unread
    /\ holders[n] = {}
    /\ unread' = unread \ {n}
    /\ rows' = Append(rows, [number |-> n, case |-> cases[n]])
    /\ UNCHANGED <<vars, stage, openOnly, begun, lived>>

\* Mutant: closed cases are listed too.
ListedAll(row) == TRUE

Listed(row) == openOnly => row.case.isOpen

\* Mutant: the objects are compared, which go on changing, and not their snapshots.
ComesBeforeByObject(a, b) ==
    \/ cases[a.number].severity > cases[b.number].severity
    \/ cases[a.number].severity = cases[b.number].severity /\ a.number < b.number

ComesBefore(a, b) ==
    \/ a.case.severity > b.case.severity
    \/ a.case.severity = b.case.severity /\ a.number < b.number

\* The rows that Where keeps, by their place, and those of them that OrderByDescending
\* and ThenBy, whose sort is stable, put before the row at i.
Kept == {i \in 1..Len(rows) : Listed(rows[i])}

Ahead(i) ==
    {j \in Kept : \/ ComesBefore(rows[j], rows[i])
                  \/ ~ComesBefore(rows[i], rows[j]) /\ j < i}

Sorted ==
    [k \in 1..Cardinality(Kept) |-> rows[CHOOSE i \in Kept : Cardinality(Ahead(i)) = k - 1]]

Return ==
    /\ stage = "reading"
    /\ unread = {}
    /\ stage' = "returned"
    /\ rows' = IF openOnly THEN Sorted ELSE rows
    /\ UNCHANGED <<vars, openOnly, unread, begun, lived>>

\* The other threads, and what becomes of the cases meanwhile.
Others ==
    /\ Next
    /\ lived' = IF stage = "reading"
                THEN [n \in Numbers |-> lived[n] \cup {settled'[n]}]
                ELSE lived
    /\ UNCHANGED <<stage, openOnly, unread, rows, begun>>

ListingNext ==
    \/ GetAll
    \/ \E n \in Numbers : Snapshot(n)
    \/ Return
    \/ Others

ListingSpec == ListingInit /\ [][ListingNext]_<<vars, listing>>

-----------------------------------------------------------------------------
RowsOf(n) == {i \in 1..Len(rows) : rows[i].number = n}

(***************************************************************************)
(* A row is its case as it was at one moment between the call and the       *)
(* return, in every field, however many threads write it field by field.    *)
(* (Two rows need not be of the same moment.)                               *)
(***************************************************************************)
ListingIsCurrent ==
    \A i \in 1..Len(rows) : rows[i].case \in lived[rows[i].number] \ {NoRow}

(***************************************************************************)
(* A listing has each case stored when it began once and no other, and the  *)
(* listing of open cases has every case that was open all the while and     *)
(* none that was closed all the while.                                      *)
(***************************************************************************)
ListingIsComplete ==
    stage = "returned" =>
        \A n \in Numbers :
            LET wasListed == RowsOf(n) # {}
            IN  /\ \A i, j \in RowsOf(n) : i = j
                /\ wasListed => n \in begun
                /\ n \in begun /\ ~openOnly => wasListed
                /\ n \in begun /\ (\A case \in lived[n] : case.isOpen) => wasListed
                /\ openOnly /\ (\A case \in lived[n] : case # NoRow /\ ~case.isOpen) => ~wasListed

\* Open cases come "sorted by raw severity (highest first), with case number as a stable
\* tie-breaker" (CaseService.cs:67), as the caller sees them: by the rows returned and not by
\* what has become of the cases meanwhile.
OpenListingInOrder ==
    stage = "returned" /\ openOnly =>
        \A i, j \in 1..Len(rows) :
            i < j =>
                LET a == rows[i]
                    b == rows[j]
                IN  /\ a.case.severity >= b.case.severity
                    /\ a.case.severity = b.case.severity => a.number < b.number
=============================================================================
