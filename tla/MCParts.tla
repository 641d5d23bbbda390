------------------------------ MODULE MCParts ------------------------------
(* Seven parts that share no state, in one run: which of them moves is chosen *)
(* at the start, so the states are those of each part on its own, and their   *)
(* number is the sum and not the product.                                     *)
EXTENDS Research, Sessions, TokenKeys, Reports, Chunker, DeadlineDates, AuditLog

CONSTANTS d1, d2, d3

VARIABLE part

partVars == <<part, researchVars, sessionVars, keyVars, reportVars, chunkerVars, datesVars,
              auditVars>>

\* d1 and d2 have one filename, in two workspaces.
MCDocs == {d1, d2, d3}
MCNameOf == [d \in MCDocs |-> IF d = d3 THEN "lease.pdf" ELSE "nda.pdf"]
MCHomeOf == [d \in MCDocs |-> IF d = d2 THEN "other" ELSE "home"]
MCChunks == [d \in MCDocs |-> IF d = d1 THEN 2 ELSE 1]
MCSelections == {{}, {d1}, {d1, d3}}
MCChosen == {{}, {d1}}

Date(y, m, d) == [y |-> y, m |-> m, d |-> d]
Obligation(type, words, unit, count, on) ==
    [type |-> type, words |-> words, unit |-> unit, count |-> count, on |-> on]
\* Month-ends, a Friday, two dates that do not exist, and a date that business
\* days are counted from.
MCExecutionDates ==
    {NoDate, Date(2024, 1, 31), Date(2023, 12, 29), Date(2023, 11, 30), Date(2023, 2, 29)}
MCItems ==
    {Obligation("PAYMENT", {1, 2, 3}, "business", 3, NoDate),
     Obligation("PAYMENT", {1, 2, 4, 5}, "months", 1, NoDate),
     Obligation("PAYMENT", {6, 7, 8}, "date", 0, Date(2024, 2, 30)),
     Obligation("PAYMENT", {1, 2, 3, 9, 10}, "weeks", 2, NoDate),
     Obligation("RESPONSE", {1, 2, 3}, "business", 5, Date(2024, 1, 15)),
     Obligation("NOTICE", {1}, "immediate", 0, NoDate)}

Init ==
    /\ part \in {"research", "sessions", "keys", "reports",
                 "chunker", "dates", "audit"}
    /\ ResearchInit /\ SessionsInit /\ KeysInit /\ ReportsInit
    /\ ChunkerInit /\ DatesInit /\ AuditInit

ResearchPart ==
    /\ part = "research" /\ ResearchNext
    /\ UNCHANGED <<part, sessionVars, keyVars,
                   reportVars, chunkerVars, datesVars, auditVars>>
SessionsPart ==
    /\ part = "sessions" /\ SessionsNext
    /\ UNCHANGED <<part, researchVars, keyVars,
                   reportVars, chunkerVars, datesVars, auditVars>>
KeysPart ==
    /\ part = "keys" /\ KeysNext
    /\ UNCHANGED <<part, researchVars, sessionVars,
                   reportVars, chunkerVars, datesVars, auditVars>>
ReportsPart ==
    /\ part = "reports" /\ ReportsNext
    /\ UNCHANGED <<part, researchVars, sessionVars, keyVars,
                   chunkerVars, datesVars, auditVars>>
ChunkerPart ==
    /\ part = "chunker" /\ ChunkerNext
    /\ UNCHANGED <<part, researchVars, sessionVars, keyVars,
                   reportVars, datesVars, auditVars>>
DatesPart ==
    /\ part = "dates" /\ DatesNext
    /\ UNCHANGED <<part, researchVars, sessionVars, keyVars,
                   reportVars, chunkerVars, auditVars>>
Others ==
    UNCHANGED <<part, researchVars, sessionVars, keyVars,
                reportVars, chunkerVars, datesVars>>
AuditPart == part = "audit" /\ AuditNext /\ Others

Next ==
    \/ ResearchPart \/ SessionsPart \/ KeysPart \/ ReportsPart
    \/ ChunkerPart \/ DatesPart \/ AuditPart

\* The fairness of AuditFairSpec.
Spec ==
    /\ Init /\ [][Next]_partVars
    /\ WF_partVars(part = "audit" /\ Consumer /\ Others)
=============================================================================
