----------------------------- MODULE Deadlines -----------------------------
(* The deadline registry and the task deadline_scanner (tasks.py), which Beat *)
(* sends every 15 minutes: it reads the active deadlines in one transaction,  *)
(* computes their urgency and writes by id in a second one, so that time      *)
(* passes and other scans run in between.                                     *)
(*                                                                            *)
(* No row of the actions table ever gets a deadline_id, so that the scores    *)
(* the scanner passes on to actions reach none, and its two notifications     *)
(* are log lines: both are left out.                                          *)
EXTENDS Integers, FiniteSets

CONSTANTS
    Deadlines,    \* identities for rows of deadline_registry
    Scanners,     \* worker processes running the task
    DueTimes,     \* the dates extracted from documents
    NoDate,       \* a date expression that could not be resolved
    TicksPerDay,  \* the grain of time
    MaxTime,      \* bound: the clock
    MaxFaults     \* bound: scans that fail or are lost

ASSUME DeadlinesAssumption ==
    /\ IsFiniteSet(Deadlines)
    /\ DueTimes \subseteq Int
    /\ NoDate \notin Int
    /\ TicksPerDay \in Nat \ {0}
    /\ MaxTime \in Nat
    /\ MaxFaults \in Nat

VARIABLES
    now,
    row,      \* row[d]: status, resolved_deadline and urgency_score in percent
    scanner,  \* scanner[s]: what its first transaction has read and made of it
    faults,   \* used part of the budget
    \* History.
    scored,   \* deadlines that a scan has written
    raced     \* deadlines two scans had read before one of them wrote

vars == <<now, row, scanner, faults, scored, raced>>

Absent == [status |-> "ABSENT", due |-> NoDate, score |-> 0]

Idle == [pc |-> "idle", read |-> {}, score |-> [d \in Deadlines |-> 0], overdue |-> {}]

Init ==
    /\ now = 0
    /\ row = [d \in Deadlines |-> Absent]
    /\ scanner = [s \in Scanners |-> Idle]
    /\ faults = 0
    /\ scored = {}
    /\ raced = {}

(* (resolved - now).days, rounded down: a day that has begun does not count.  *)
DaysRemaining(d) == (row[d].due - now) \div TicksPerDay

(* Mutant: a week and a fortnight are swapped.                                *)
UrgencyBug(days) ==
    IF days <= 0 THEN 100
    ELSE IF days <= 1 THEN 95
    ELSE IF days <= 3 THEN 85
    ELSE IF days <= 7 THEN 50
    ELSE IF days <= 14 THEN 70
    ELSE IF days <= 30 THEN 30
    ELSE 10

(* calculate_urgency.                                                         *)
Urgency(days) ==
    IF days <= 0 THEN 100
    ELSE IF days <= 1 THEN 95
    ELSE IF days <= 3 THEN 85
    ELSE IF days <= 7 THEN 70
    ELSE IF days <= 14 THEN 50
    ELSE IF days <= 30 THEN 30
    ELSE 10

(* extract_and_store inserts an obligation: ACTIVE with score 0.5, its date   *)
(* resolved or not.                                                           *)
Store(d) ==
    /\ row[d] = Absent
    /\ \E due \in DueTimes \cup {NoDate} :
         row' = [row EXCEPT ![d] = [status |-> "ACTIVE", due |-> due, score |-> 50]]
    /\ UNCHANGED <<now, scanner, faults, scored, raced>>

Tick ==
    /\ now < MaxTime
    /\ now' = now + 1
    /\ UNCHANGED <<row, scanner, faults, scored, raced>>

(* Mutant: deadlines that have passed are left out.                           *)
ScannedBug == {d \in Deadlines : row[d].status = "ACTIVE" /\ row[d].due # NoDate
                                  /\ row[d].due >= now}

(* The rows of the first transaction.                                         *)
Scanned == {d \in Deadlines : row[d].status = "ACTIVE" /\ row[d].due # NoDate}

(* Mutant: a deadline is overdue on the day before, too.                      *)
OverdueBug == {d \in Scanned : DaysRemaining(d) <= 1}

(* Those of them that the second transaction will mark.                       *)
Overdue == {d \in Scanned : DaysRemaining(d) <= 0}

(* The first transaction, and the scores by the clock as it is then.          *)
ReadDeadlines(s) ==
    /\ scanner[s].pc = "idle"
    /\ Scanned # {}
    /\ scanner' = [scanner EXCEPT ![s] =
          [pc |-> "write", read |-> Scanned,
           score |-> [d \in Deadlines |->
                        IF d \in Scanned THEN Urgency(DaysRemaining(d)) ELSE 0],
           overdue |-> Overdue]]
    /\ raced' = raced \cup (Scanned \cap UNION {scanner[t].read : t \in Scanners})
    /\ UNCHANGED <<now, row, faults, scored>>

(* Mutant: the score of an overdue deadline is not written.                   *)
WriteScoresBug(s) ==
    /\ scanner[s].pc = "write"
    /\ row' = [d \in Deadlines |->
          IF d \in scanner[s].overdue
          THEN [row[d] EXCEPT !.status = "OVERDUE"]
          ELSE IF d \in scanner[s].read
          THEN [row[d] EXCEPT !.score = scanner[s].score[d]]
          ELSE row[d]]
    /\ scored' = scored \cup scanner[s].read
    /\ scanner' = [scanner EXCEPT ![s] = Idle]
    /\ UNCHANGED <<now, faults, raced>>

(* The second transaction: every score and the overdue marks, by id.          *)
WriteScores(s) ==
    /\ scanner[s].pc = "write"
    /\ row' = [d \in Deadlines |->
          IF d \notin scanner[s].read THEN row[d]
          ELSE [row[d] EXCEPT
                  !.score = scanner[s].score[d],
                  !.status = IF d \in scanner[s].overdue THEN "OVERDUE" ELSE @]]
    /\ scored' = scored \cup scanner[s].read
    /\ scanner' = [scanner EXCEPT ![s] = Idle]
    /\ UNCHANGED <<now, faults, raced>>

(* An exception rolls back and is retried, a lost worker's message delivered  *)
(* again, and the next run comes in any case: the scan starts afresh.         *)
ScanFails(s) ==
    /\ scanner[s].pc = "write"
    /\ faults < MaxFaults
    /\ faults' = faults + 1
    /\ scanner' = [scanner EXCEPT ![s] = Idle]
    /\ UNCHANGED <<now, row, scored, raced>>

Scan(s) == ReadDeadlines(s) \/ WriteScores(s)

Next ==
    \/ \E d \in Deadlines : Store(d)
    \/ \E s \in Scanners : Scan(s) \/ ScanFails(s)
    \/ Tick

Spec == Init /\ [][Next]_vars

(* Beat sends the task, a worker runs it.                                     *)
FairSpec == Spec /\ \A s \in Scanners : WF_vars(Scan(s))

-----------------------------------------------------------------------------
(* Properties.                                                                *)

(* Every variable has its type.                                               *)
TypeOK ==
    /\ now \in Nat
    /\ row \in [Deadlines -> [status : {"ABSENT", "ACTIVE", "OVERDUE"},
                              due : Int \cup {NoDate}, score : 0..100]]
    /\ scanner \in [Scanners -> [pc : {"idle", "write"}, read : SUBSET Deadlines,
                                 score : [Deadlines -> 0..100],
                                 overdue : SUBSET Deadlines]]
    /\ faults \in Nat
    /\ scored \subseteq Deadlines
    /\ raced \subseteq Deadlines

(* Once scanned, a deadline only becomes more urgent, and an overdue one      *)
(* keeps the highest score for ever, since no scan reads it again.  Two scans *)
(* that have both read a deadline may write in the other order.               *)
UrgencyNeverFalls ==
    [][\A d \in scored \ raced' : row'[d].score >= row[d].score]_vars

(* The registry is listed by urgency_score.  Of two deadlines that have been  *)
(* scanned the earlier never comes after the later, although they may have    *)
(* been scored by different scans.                                            *)
ListedByDate ==
    \A d, e \in scored \ raced :
        row[d].due <= row[e].due => row[d].score >= row[e].score

(* Days are rounded down, so a deadline is marked overdue before it has       *)
(* passed, by less than a day at most, however late a scan writes.            *)
OverdueWithinDay ==
    \A d \in Deadlines :
        row[d].status = "OVERDUE" => row[d].due - now < TicksPerDay

(* A deadline that has passed is marked in the end, whatever scans fail, race *)
(* or decide about it early.                                                  *)
PassedIsMarked ==
    \A d \in Deadlines :
        (row[d].status = "ACTIVE" /\ row[d].due # NoDate /\ row[d].due < now)
          ~> (row[d].status = "OVERDUE")
=============================================================================
