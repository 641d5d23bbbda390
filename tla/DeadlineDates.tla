--------------------------- MODULE DeadlineDates ---------------------------
(* DeadlineExtractor.extract_and_store: the obligations a model finds in the  *)
(* chunks of one document, the dates they are resolved to, and the conflicts  *)
(* among them.  The chunks are answered concurrently, in any order.           *)
EXTENDS Integers, Sequences, FiniteSets

CONSTANTS
    Parts,           \* the chunks that are sent to the model
    ExecutionDates,  \* what the document may be dated; NoDate if it is not
    Items,           \* the obligations a chunk may have
    MaxItems         \* bound: in one chunk

AnyDate == [y : Nat, m : Nat, d : Nat]

(* An obligation: its type, the words of its description, and of the          *)
(* expression for its date the unit and the count, and the date it names, as  *)
(* both "by January 15, 2024" and "within 5 business days of January 15,      *)
(* 2024" do; NoDate if it names none.                                         *)
ASSUME DeadlineDatesAssumption ==
    /\ MaxItems \in Nat /\ ExecutionDates \subseteq AnyDate
    /\ \A a \in Items :
        /\ DOMAIN a = {"type", "words", "unit", "count", "on"}
        /\ a.words # {} /\ IsFiniteSet(a.words)
        /\ a.count \in Nat /\ a.on \in AnyDate

VARIABLES
    execution,   \* execution_date, Unread before it is looked for
    waiting,     \* the chunks whose answer is awaited
    collected,   \* collected_obligations, in the order of the answers
    registry     \* the committed rows, as indices of collected; flagged, partner

datesVars == <<execution, waiting, collected, registry>>

-----------------------------------------------------------------------------
(* The calendar (datetime).                                                   *)

NoDate == [y |-> 0, m |-> 0, d |-> 0]
Unread == [y |-> 0, m |-> 0, d |-> 1]
Leap(y) == y % 4 = 0 /\ (y % 100 # 0 \/ y % 400 = 0)
MonthDays(y, m) ==
    CASE m = 2 -> IF Leap(y) THEN 29 ELSE 28
      [] m \in {4, 6, 9, 11} -> 30
      [] OTHER -> 31

(* datetime() raises for any other.                                           *)
Exists(t) == t.m \in 1..12 /\ t.d \in 1..MonthDays(t.y, t.m)

(* toordinal; Monday is 0.                                                    *)
DaysBeforeMonth == <<0, 31, 59, 90, 120, 151, 181, 212, 243, 273, 304, 334>>
Ordinal(t) ==
    LET y == t.y - 1 IN
    365 * y + y \div 4 - y \div 100 + y \div 400
        + DaysBeforeMonth[t.m] + (IF t.m > 2 /\ Leap(t.y) THEN 1 ELSE 0) + t.d
Weekday(t) == (Ordinal(t) + 6) % 7

NextDay(t) ==
    IF t.d < MonthDays(t.y, t.m) THEN [t EXCEPT !.d = @ + 1]
    ELSE IF t.m < 12 THEN [t EXCEPT !.m = @ + 1, !.d = 1]
    ELSE [y |-> t.y + 1, m |-> 1, d |-> 1]

PlusDays(t, n) ==
    LET after[k \in 0..n] == IF k = 0 THEN t ELSE NextDay(after[k - 1])
    IN  after[n]

-----------------------------------------------------------------------------
(* _resolve_relative_date.                                                    *)

(* Mutant: a Saturday counts.                                                 *)
IsBusinessDayBug(t) == Weekday(t) <= 5

IsBusinessDay(t) == Weekday(t) < 5

NextBusinessDay(t) ==
    LET ahead == {k \in 1..3 : IsBusinessDay(PlusDays(t, k))}
    IN  PlusDays(t, CHOOSE k \in ahead : \A j \in ahead : k <= j)

PlusBusinessDays(t, n) ==
    LET after[k \in 0..n] == IF k = 0 THEN t ELSE NextBusinessDay(after[k - 1])
    IN  after[n]

(* The same day of the month, whether the month has it or not.                *)
PlusMonths(t, n) ==
    [t EXCEPT !.y = @ + (t.m + n - 1) \div 12, !.m = ((t.m + n - 1) % 12) + 1]

(* What the event is that the days run from does not matter: it is the        *)
(* execution date.  Other wordings are not resolved.                          *)
Relative(item) ==
    CASE item.unit = "immediate" -> execution
      [] item.unit = "days" -> PlusDays(execution, item.count)
      [] item.unit = "weeks" -> PlusDays(execution, 7 * item.count)
      [] item.unit = "months" -> PlusMonths(execution, item.count)
      [] item.unit = "business" -> PlusBusinessDays(execution, item.count)
      [] OTHER -> NoDate

(* _validate_date: with an impossible month or a day above 31 it is no date.  *)
Validated(t) == t.m \in 1..12 /\ t.d \in 1..31

(* Mutant: a count of days goes before a date.                                *)
ResolveBug(item) ==
    IF execution = NoDate THEN NoDate
    ELSE IF Relative(item) # NoDate THEN Relative(item)
    ELSE IF Validated(item.on) THEN item.on
    ELSE NoDate

(* Without an execution date nothing is resolved, not even a plain date.  A   *)
(* date in the expression (_find_absolute_date) goes before what is counted   *)
(* from it.                                                                   *)
Resolve(item) ==
    IF execution = NoDate THEN NoDate
    ELSE IF Validated(item.on) THEN item.on
    ELSE Relative(item)

(* datetime() raises on the resolved date.                                    *)
Raises(item) == Resolve(item) # NoDate /\ ~Exists(Resolve(item))

-----------------------------------------------------------------------------
(* extract_and_store.                                                         *)

DatesInit ==
    /\ execution = Unread
    /\ waiting = Parts
    /\ collected = <<>>
    /\ registry = [rows |-> {}, flagged |-> {}, partner |-> <<>>]

(* _extract_execution_date: the first date in one of up to five chunks, or    *)
(* what the model makes of them.  An impossible one ends the extraction.      *)
FindExecutionDate(t) ==
    /\ execution = Unread
    /\ t = NoDate \/ Exists(t)
    /\ execution' = t
    /\ UNCHANGED <<waiting, collected, registry>>

(* An exception ends the chunk; what was added of it before is kept.          *)
Kept(items) ==
    LET bad == {k \in DOMAIN items : Raises(items[k])}
    IN  IF bad = {} THEN items
        ELSE SubSeq(items, 1, (CHOOSE k \in bad : \A j \in bad : k <= j) - 1)

Answered(c, items) ==
    /\ execution # Unread /\ c \in waiting
    /\ waiting' = waiting \ {c}
    /\ collected' = collected \o
          [k \in DOMAIN Kept(items) |->
              [item |-> items[k], chunk |-> c, deadline |-> Resolve(items[k])]]
    /\ UNCHANGED <<execution, registry>>

(* The model fails, or its answer is no JSON.                                 *)
Unanswered(c) ==
    /\ execution # Unread /\ c \in waiting
    /\ waiting' = waiting \ {c}
    /\ UNCHANGED <<execution, collected, registry>>

(* _obligations_conflict: another date, and two fifths of the words in common,*)
(* or all of them if they are two or fewer.                                   *)
SameDuty(v, w) ==
    LET longer == IF Cardinality(v) > Cardinality(w) THEN Cardinality(v) ELSE Cardinality(w)
    IN  IF Cardinality(v) < 3 \/ Cardinality(w) < 3 THEN v = w
        ELSE 10 * Cardinality(v \cap w) >= 4 * longer
SameDate(a, b) == <<a.unit, a.count, a.on>> = <<b.unit, b.count, b.on>>

Conflicting(i, j) ==
    LET a == collected[i].item
        b == collected[j].item
    IN  a.type = b.type /\ ~SameDate(a, b) /\ SameDuty(a.words, b.words)

(* The two loops, in their order.                                             *)
Pairs ==
    {p \in (DOMAIN collected) \X (DOMAIN collected) : p[1] < p[2] /\ Conflicting(p[1], p[2])}
NotBefore(p, q) == p[1] > q[1] \/ (p[1] = q[1] /\ p[2] >= q[2])

(* Mutant: of a pair, only the later one is flagged.                          *)
FlaggedBug == {p[2] : p \in Pairs}

Flagged == UNION {{p[1], p[2]} : p \in Pairs}

(* source_clause_b: the last pair with an entry decides.                      *)
Partner(i) ==
    LET mine == {p \in Pairs : i \in {p[1], p[2]}}
        last == CHOOSE p \in mine : \A q \in mine : NotBefore(p, q)
    IN  collected[IF last[1] = i THEN last[2] ELSE last[1]].chunk

(* One commit, after all chunks.                                              *)
StoreObligations ==
    /\ waiting = {} /\ collected # <<>> /\ registry.rows = {}
    /\ registry' = [rows |-> DOMAIN collected, flagged |-> Flagged,
                    partner |-> [i \in Flagged |-> Partner(i)]]
    /\ UNCHANGED <<execution, waiting, collected>>

(* The worker is lost, or the commit fails.                                   *)
ExtractionLost ==
    /\ registry.rows = {}
    /\ execution # Unread
    /\ waiting' = Parts /\ collected' = <<>>
    /\ execution' = Unread
    /\ UNCHANGED registry

Answers == UNION {[1..n -> Items] : n \in 0..MaxItems}

DatesNext ==
    \/ \E c \in Parts : Unanswered(c) \/ \E items \in Answers : Answered(c, items)
    \/ \E t \in ExecutionDates : FindExecutionDate(t)
    \/ StoreObligations \/ ExtractionLost

DatesSpec == DatesInit /\ [][DatesNext]_datesVars

-----------------------------------------------------------------------------
(* Properties.                                                                *)

(* Every variable has its type.                                               *)
DatesTypeOK ==
    /\ execution \in ExecutionDates \cup {Unread}
    /\ waiting \subseteq Parts
    /\ collected \in Seq([item : Items, chunk : Parts, deadline : AnyDate])
    /\ DOMAIN registry = {"rows", "flagged", "partner"}
    /\ registry.flagged \subseteq registry.rows /\ registry.rows \subseteq DOMAIN collected
    /\ DOMAIN registry.partner = registry.flagged
    /\ \A i \in registry.flagged : registry.partner[i] \in Parts

(* What is stored of an obligation is a date that exists: the one its         *)
(* expression names, whatever it says beside it, and the one it counts to if  *)
(* it names none.  Then so many weekdays lie between it and the execution     *)
(* date, or it is the same day of the month so many months later              *)
(* (_find_absolute_date, _resolve_relative_date).                             *)
DeadlinesAreDue ==
    \A i \in registry.rows :
        LET item == collected[i].item
            due == collected[i].deadline
            between == Ordinal(execution) + 1 .. Ordinal(due)
        IN  due # NoDate =>
              /\ Exists(due)
              /\ Validated(item.on) => due = item.on
              /\ ~Validated(item.on) /\ item.unit = "business" =>
                    /\ Cardinality({n \in between : (n + 6) % 7 < 5}) = item.count
                    /\ item.count > 0 => Weekday(due) \notin {5, 6}
              /\ ~Validated(item.on) /\ item.unit = "months" =>
                    /\ due.d = execution.d
                    /\ 12 * (due.y - execution.y) + due.m - execution.m = item.count

(* In whatever order the chunks are answered, exactly the obligations that    *)
(* another one of the document contradicts are flagged, each with the clause  *)
(* of one that does (conflict_flag, source_clause_b).                         *)
FlaggedIffConflicting ==
    registry.rows # {} =>
        LET Against(i) == {j \in registry.rows \ {i} : Conflicting(i, j)} IN
        /\ registry.flagged = {i \in registry.rows : Against(i) # {}}
        /\ \A i \in registry.flagged : \E j \in Against(i) : registry.partner[i] = collected[j].chunk

-----------------------------------------------------------------------------
(* Strengthening of DeadlinesAreDue and FlaggedIffConflicting.                *)

(* An answer is collected with the dates of the execution date at hand.       *)
Resolved ==
    \A i \in DOMAIN collected :
        /\ execution # Unread
        /\ collected[i].deadline = Resolve(collected[i].item)
        /\ ~Raises(collected[i].item)

(* The rows are of all answers, and none comes after them.                    *)
StoredOnce ==
    registry.rows # {} => waiting = {} /\ registry.rows = DOMAIN collected

(* An execution date is one.                                                  *)
ExecutionIsDate == execution \in {Unread, NoDate} \/ Exists(execution)

DatesInv == Resolved /\ StoredOnce /\ ExecutionIsDate /\ FlaggedIffConflicting
=============================================================================
