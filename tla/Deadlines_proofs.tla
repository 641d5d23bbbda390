-------------------------- MODULE Deadlines_proofs --------------------------
(* Proofs about Deadlines, for any deadlines, any number of scans and any     *)
(* grain of time.                                                             *)
EXTENDS Deadlines, TLAPS

-----------------------------------------------------------------------------
(* Days and scores.                                                           *)

(* Days are counted down one at a time, and 0 is reached within a day.        *)
LEMMA DaysDown ==
  ASSUME NEW a \in Int, NEW T \in Nat \ {0}
  PROVE  /\ a \div T \in Int
         /\ (a - 1) \div T <= a \div T
         /\ a \div T <= 0 => a < T
  BY SMT

LEMMA DaysOrder ==
  ASSUME NEW a \in Int, NEW b \in Int, NEW T \in Nat \ {0}, a <= b
  PROVE  /\ a \div T <= b \div T
         /\ b < T => a \div T <= 0
  BY SMT

LEMMA UrgencyType == ASSUME NEW n \in Int PROVE Urgency(n) \in 0..100
  BY DEF Urgency

(* Fewer days, higher score (calculate_urgency).                              *)
LEMMA UrgencyRises ==
  ASSUME NEW m \in Int, NEW n \in Int, m <= n
  PROVE  /\ Urgency(n) <= Urgency(m)
         /\ n <= 0 => Urgency(n) = 100
  BY DEF Urgency

-----------------------------------------------------------------------------
(* Type correctness.                                                          *)

Registry ==
    [Deadlines -> [status : {"ABSENT", "ACTIVE", "OVERDUE"}, due : Int \cup {NoDate},
                   score : 0..100]]
Scans ==
    [Scanners -> [pc : {"idle", "write"}, read : SUBSET Deadlines,
                  score : [Deadlines -> 0..100], overdue : SUBSET Deadlines]]

LEMMA TypesInit == Init => TypeOK
  BY DEF Init, TypeOK, Absent, Idle

LEMMA ScannedDays ==
  ASSUME TypeOK, NEW d \in Scanned
  PROVE  /\ d \in Deadlines
         /\ row[d].status = "ACTIVE"
         /\ row[d].due \in Int
         /\ row[d].due - now \in Int
         /\ DaysRemaining(d) \in Int
<1>1. row[d].due \in Int /\ now \in Int /\ TicksPerDay \in Nat \ {0}
  BY DeadlinesAssumption DEF TypeOK, Scanned
<1>. QED
  BY <1>1, DaysDown DEF Scanned, DaysRemaining

LEMMA ReadTypes ==
  ASSUME TypeOK, NEW s \in Scanners, ReadDeadlines(s)
  PROVE  TypeOK'
<1> DEFINE new == [pc |-> "write", read |-> Scanned,
                   score |-> [d \in Deadlines |->
                                IF d \in Scanned THEN Urgency(DaysRemaining(d)) ELSE 0],
                   overdue |-> Overdue]
<1>1. new.score \in [Deadlines -> 0..100]
  BY ScannedDays, UrgencyType
<1>2. new.read \subseteq Deadlines /\ new.overdue \subseteq Deadlines
  BY DEF Scanned, Overdue
<1>3. scanner' = [scanner EXCEPT ![s] = new]
  BY DEF ReadDeadlines
<1>4. scanner' \in Scans
  BY <1>1, <1>2, <1>3 DEF TypeOK, Scans
<1>5. raced' \subseteq Deadlines
  BY <1>2 DEF ReadDeadlines, TypeOK
<1>. QED
  BY <1>4, <1>5 DEF ReadDeadlines, TypeOK, Scans

LEMMA IdleType == ASSUME TypeOK, NEW s \in Scanners PROVE [scanner EXCEPT ![s] = Idle] \in Scans
  BY DEF TypeOK, Scans, Idle

(* What a scan leaves in a row.                                               *)
LEMMA WrittenRow ==
  ASSUME TypeOK, NEW s \in Scanners, WriteScores(s), NEW d \in Deadlines
  PROVE  /\ row'[d].due = row[d].due
         /\ row'[d].score = IF d \in scanner[s].read THEN scanner[s].score[d]
                            ELSE row[d].score
         /\ row'[d].status = IF d \in scanner[s].read /\ d \in scanner[s].overdue
                             THEN "OVERDUE" ELSE row[d].status
         /\ row'[d] \in [status : {"ABSENT", "ACTIVE", "OVERDUE"},
                         due : Int \cup {NoDate}, score : 0..100]
<1> DEFINE status == IF d \in scanner[s].overdue THEN "OVERDUE" ELSE row[d].status
           score == scanner[s].score[d]
<1>1. row[d] \in [status : {"ABSENT", "ACTIVE", "OVERDUE"},
                 due : Int \cup {NoDate}, score : 0..100]
  BY DEF TypeOK
<1>2. row'[d] = IF d \notin scanner[s].read THEN row[d]
                ELSE [row[d] EXCEPT !.score = score, !.status = status]
  BY DEF WriteScores
<1>3. score \in 0..100 /\ status \in {"ABSENT", "ACTIVE", "OVERDUE"}
  <2>1. scanner[s].score \in [Deadlines -> 0..100]
    BY DEF TypeOK
  <2>. QED
    BY <1>1, <2>1
<1>4. /\ d \in scanner[s].overdue => status = "OVERDUE"
      /\ d \notin scanner[s].overdue => status = row[d].status
  OBVIOUS
<1>. HIDE DEF status
<1>. QED
  BY <1>1, <1>2, <1>3, <1>4

LEMMA WriteTypes ==
  ASSUME TypeOK, NEW s \in Scanners, WriteScores(s)
  PROVE  TypeOK'
<1>1. row' \in Registry
  <2>1. row' = [d \in Deadlines |-> row'[d]]
    BY DEF WriteScores
  <2>. QED
    BY <2>1, WrittenRow DEF Registry
<1>2. scored' \subseteq Deadlines
  BY DEF WriteScores, TypeOK
<1>. QED
  BY <1>1, <1>2, IdleType DEF WriteScores, TypeOK, Registry, Scans

LEMMA StoreTypes ==
  ASSUME TypeOK, NEW d \in Deadlines, Store(d)
  PROVE  TypeOK'
<1>1. row' \in Registry
  BY DeadlinesAssumption DEF Store, TypeOK, Registry
<1>. QED
  BY <1>1 DEF Store, TypeOK, Registry

LEMMA TypesNext == TypeOK /\ [Next]_vars => TypeOK'
<1>1. ASSUME TypeOK, NEW s \in Scanners, ScanFails(s) PROVE TypeOK'
  BY <1>1, IdleType DEF ScanFails, TypeOK, Scans
<1>2. TypeOK /\ Tick => TypeOK'
  BY DEF Tick, TypeOK
<1>3. TypeOK /\ UNCHANGED vars => TypeOK'
  BY DEF TypeOK, vars
<1>. QED
  BY <1>1, <1>2, <1>3, ReadTypes, WriteTypes, StoreTypes DEF Next, Scan

(* Every variable keeps its type.                                             *)
THEOREM TypeCorrect == Spec => []TypeOK
  BY TypesInit, TypesNext, PTL DEF Spec

-----------------------------------------------------------------------------
(* What the rows and the scans know of the dates: a scan holds rows that      *)
(* exist, and marks none that is not due within a day of its first            *)
(* transaction, nor then later on, as the clock only moves towards the date.  *)

DueInv ==
    /\ \A s \in Scanners, d \in Deadlines : d \in scanner[s].read =>
          row[d].status # "ABSENT" /\ row[d].due \in Int
    /\ \A s \in Scanners, d \in Deadlines : d \in scanner[s].overdue =>
          d \in scanner[s].read /\ row[d].due - now < TicksPerDay
    /\ \A d \in Deadlines : row[d].status = "OVERDUE" =>
          row[d].due \in Int /\ row[d].due - now < TicksPerDay

LEMMA DueInit == Init => DueInv
  BY DEF Init, DueInv, Absent, Idle

LEMMA DueRead ==
  ASSUME TypeOK, DueInv, NEW s \in Scanners, ReadDeadlines(s)
  PROVE  DueInv'
<1>1. ASSUME NEW d \in Overdue PROVE d \in Scanned /\ row[d].due - now < TicksPerDay
  BY ScannedDays, DaysDown, DeadlinesAssumption DEF Overdue, DaysRemaining
<1>2. /\ scanner'[s].read = Scanned /\ scanner'[s].overdue = Overdue
      /\ \A t \in Scanners \ {s} : scanner'[t] = scanner[t]
      /\ UNCHANGED <<row, now>>
  BY DEF ReadDeadlines, TypeOK
<1>. QED
  BY <1>1, <1>2, ScannedDays DEF DueInv

LEMMA DueWrite ==
  ASSUME TypeOK, DueInv, NEW s \in Scanners, WriteScores(s)
  PROVE  DueInv'
<1>1. \A d \in Deadlines :
        /\ row'[d].due = row[d].due
        /\ row'[d].status = IF d \in scanner[s].read /\ d \in scanner[s].overdue
                            THEN "OVERDUE" ELSE row[d].status
  BY WrittenRow
<1>2. /\ scanner'[s] = Idle
      /\ \A t \in Scanners \ {s} : scanner'[t] = scanner[t]
      /\ UNCHANGED now
  BY DEF WriteScores, TypeOK
<1>. QED
  BY <1>1, <1>2 DEF DueInv, Idle

LEMMA DueNext == TypeOK /\ DueInv /\ [Next]_vars => DueInv'
<1>1. ASSUME TypeOK, DueInv, NEW d \in Deadlines, Store(d) PROVE DueInv'
  <2>1. row[d].status = "ABSENT" /\ row'[d].status = "ACTIVE"
    BY <1>1 DEF Store, Absent, TypeOK
  <2>2. \A e \in Deadlines \ {d} : row'[e] = row[e]
    BY <1>1 DEF Store, TypeOK
  <2>. QED
    BY <1>1, <2>1, <2>2 DEF Store, DueInv
<1>2. ASSUME TypeOK, DueInv, Tick PROVE DueInv'
  BY <1>2, DeadlinesAssumption DEF Tick, DueInv, TypeOK
<1>3. ASSUME TypeOK, DueInv, NEW s \in Scanners, ScanFails(s) PROVE DueInv'
  BY <1>3 DEF ScanFails, DueInv, TypeOK, Idle
<1>4. DueInv /\ UNCHANGED vars => DueInv'
  BY DEF DueInv, vars
<1>. QED
  BY <1>1, <1>2, <1>3, <1>4, DueRead, DueWrite DEF Next, Scan

LEMMA DueAlways == Spec => []DueInv
  BY DueInit, DueNext, TypeCorrect, PTL DEF Spec

(* However late a scan writes and whatever other scans, failures and retries  *)
(* there are, nothing is marked overdue a day or more before its date.        *)
THEOREM MarkedWithinDay == Spec => []OverdueWithinDay
<1>1. DueInv => OverdueWithinDay
  BY DEF DueInv, OverdueWithinDay
<1>. QED
  BY <1>1, DueAlways, PTL

-----------------------------------------------------------------------------
(* Urgency only rises.  A deadline that no two scans had read at once has its *)
(* last score and the one on its way in the order of the clock.               *)

ScoreInv ==
    /\ \A s \in Scanners : scanner[s].pc = "idle" => scanner[s].read = {}
    /\ \A s \in Scanners, d \in Deadlines \ raced : d \in scanner[s].read =>
          /\ \A t \in Scanners : d \in scanner[t].read => t = s
          /\ row[d].status = "ACTIVE"
          /\ scanner[s].score[d] <= Urgency(DaysRemaining(d))
          /\ d \in scored => row[d].score <= scanner[s].score[d]
          /\ d \in scanner[s].overdue => scanner[s].score[d] = 100
    /\ \A d \in scored : row[d].status # "ABSENT" /\ row[d].due \in Int
    /\ \A d \in scored \ raced :
          /\ row[d].status = "OVERDUE" => row[d].score = 100
          /\ row[d].status = "ACTIVE" => row[d].score <= Urgency(DaysRemaining(d))

(* What is left of the days, now and after a step.                            *)
LEMMA DaysType ==
  ASSUME TypeOK, NEW d \in Deadlines, row[d].due \in Int
  PROVE  DaysRemaining(d) \in Int /\ Urgency(DaysRemaining(d)) \in 0..100
<1>1. row[d].due - now \in Int
  BY DEF TypeOK
<1>. QED
  BY <1>1, DaysDown, UrgencyType, DeadlinesAssumption DEF DaysRemaining

LEMMA ScoreTick ==
  ASSUME TypeOK, DueInv, ScoreInv, Tick
  PROVE  ScoreInv'
<1>1. ASSUME NEW d \in Deadlines, row[d].due \in Int
      PROVE  /\ Urgency(DaysRemaining(d)) \in Int
             /\ Urgency(DaysRemaining(d))' \in Int
             /\ Urgency(DaysRemaining(d)) <= Urgency(DaysRemaining(d))'
  <2>1. row[d].due - now \in Int /\ row[d].due - (now + 1) = (row[d].due - now) - 1
    BY <1>1 DEF TypeOK
  <2>2. now' = now + 1 /\ row' = row
    BY DEF Tick
  <2> DEFINE left == (row[d].due - (now + 1)) \div TicksPerDay
  <2>3. /\ DaysRemaining(d) \in Int
        /\ DaysRemaining(d)' = left
        /\ left \in Int
        /\ left <= DaysRemaining(d)
    BY <2>1, <2>2, DaysDown, DeadlinesAssumption DEF DaysRemaining
  <2>4. Urgency(DaysRemaining(d))' = Urgency(left)
    BY <2>3 DEF Urgency
  <2>. HIDE DEF left
  <2>. QED
    BY <2>3, <2>4, UrgencyRises, UrgencyType
<1>2. \A d \in Deadlines : row[d].score \in Int
  BY DEF TypeOK
<1>3. \A s \in Scanners : scanner[s].score \in [Deadlines -> 0..100]
  BY DEF TypeOK
<1>4. UNCHANGED <<row, scanner, scored, raced>>
  BY DEF Tick
<1>5. ASSUME NEW s \in Scanners, NEW d \in Deadlines \ raced, d \in scanner[s].read
      PROVE  scanner[s].score[d] <= Urgency(DaysRemaining(d))'
  <2>1. row[d].due \in Int /\ scanner[s].score[d] <= Urgency(DaysRemaining(d))
    BY <1>5 DEF DueInv, ScoreInv
  <2>2. scanner[s].score[d] \in Int
    BY <1>3
  <2>. QED
    BY <1>1, <2>1, <2>2
<1>6. ASSUME NEW d \in scored \ raced, row[d].status = "ACTIVE"
      PROVE  row[d].score <= Urgency(DaysRemaining(d))'
  <2>1. d \in Deadlines /\ row[d].due \in Int
    BY DEF TypeOK, ScoreInv
  <2>2. row[d].score <= Urgency(DaysRemaining(d))
    BY <1>6 DEF ScoreInv
  <2>. QED
    BY <1>1, <1>2, <2>1, <2>2
<1>. QED
  BY <1>4, <1>5, <1>6 DEF ScoreInv

LEMMA ScoreRead ==
  ASSUME TypeOK, DueInv, ScoreInv, NEW s \in Scanners, ReadDeadlines(s)
  PROVE  ScoreInv'
<1>1. /\ scanner'[s].pc = "write"
      /\ scanner'[s].read = Scanned /\ scanner'[s].overdue = Overdue
      /\ \A d \in Scanned : scanner'[s].score[d] = Urgency(DaysRemaining(d))
      /\ \A t \in Scanners \ {s} : scanner'[t] = scanner[t]
  BY DEF ReadDeadlines, TypeOK, Scanned
<1>2. /\ UNCHANGED <<row, now, scored>>
      /\ raced \subseteq raced'
      /\ \A t \in Scanners, d \in Scanned : d \in scanner[t].read => d \in raced'
  BY DEF ReadDeadlines
<1>3. \A d \in Deadlines : DaysRemaining(d)' = DaysRemaining(d)
  BY <1>2 DEF DaysRemaining
<1>4. ASSUME NEW d \in Scanned
      PROVE  /\ d \in Deadlines /\ row[d].status = "ACTIVE"
             /\ Urgency(DaysRemaining(d)) \in Int
             /\ d \in scored \ raced => row[d].score <= Urgency(DaysRemaining(d))
             /\ d \in Overdue => Urgency(DaysRemaining(d)) = 100
  <2>1. d \in Deadlines /\ row[d].status = "ACTIVE" /\ DaysRemaining(d) \in Int
    BY ScannedDays
  <2>. QED
    BY <2>1, UrgencyType, UrgencyRises DEF ScoreInv, Overdue
<1>5. ASSUME NEW d \in Deadlines \ raced', d \in Scanned
      PROVE  \A t \in Scanners : d \in scanner'[t].read => t = s
  BY <1>1, <1>2, <1>5
<1>6. ASSUME NEW t \in Scanners, NEW d \in Deadlines \ raced', d \in scanner'[t].read
      PROVE  /\ \A u \in Scanners : d \in scanner'[u].read => u = t
             /\ row[d].status = "ACTIVE"
             /\ scanner'[t].score[d] <= Urgency(DaysRemaining(d))
             /\ d \in scored => row[d].score <= scanner'[t].score[d]
             /\ d \in scanner'[t].overdue => scanner'[t].score[d] = 100
  <2>1. CASE t = s
    BY <1>1, <1>2, <1>4, <1>5, <1>6, <2>1
  <2>2. CASE t # s
    <3>1. d \in scanner[t].read /\ d \notin Scanned
      BY <1>1, <1>5, <1>6, <2>2
    <3>. QED
      BY <1>1, <1>2, <2>2, <3>1 DEF ScoreInv
  <2>. QED
    BY <2>1, <2>2
<1>7. \A t \in Scanners : scanner'[t].pc = "idle" => scanner'[t].read = {}
  BY <1>1 DEF ScoreInv
<1>8. \A d \in scored \ raced' :
          /\ row[d].status = "OVERDUE" => row[d].score = 100
          /\ row[d].status = "ACTIVE" => row[d].score <= Urgency(DaysRemaining(d))
  BY <1>2 DEF ScoreInv
<1>9. \A d \in Deadlines : Urgency(DaysRemaining(d))' = Urgency(DaysRemaining(d))
  BY <1>3 DEF Urgency
<1>10. scored \subseteq Deadlines
  BY DEF TypeOK
<1>. QED
  BY <1>2, <1>6, <1>7, <1>8, <1>9, <1>10 DEF ScoreInv

LEMMA ScoreWrite ==
  ASSUME TypeOK, DueInv, ScoreInv, NEW s \in Scanners, WriteScores(s)
  PROVE  ScoreInv'
<1>1. /\ scanner'[s] = Idle
      /\ \A t \in Scanners \ {s} : scanner'[t] = scanner[t]
      /\ UNCHANGED <<now, raced>>
      /\ scored' = scored \cup scanner[s].read
      /\ scored' \subseteq Deadlines
  BY DEF WriteScores, TypeOK
<1>2. \A d \in Deadlines : DaysRemaining(d)' = DaysRemaining(d)
  BY <1>1, WrittenRow DEF DaysRemaining
<1>3. ASSUME NEW t \in Scanners, NEW d \in Deadlines \ raced, d \in scanner'[t].read
      PROVE  /\ t # s /\ d \in scanner[t].read /\ d \notin scanner[s].read
             /\ \A u \in Scanners : d \in scanner'[u].read => u = t
             /\ row'[d].status = row[d].status /\ row'[d].score = row[d].score
  <2>1. t # s /\ d \in scanner[t].read
    BY <1>1, <1>3 DEF Idle
  <2>2. \A u \in Scanners : d \in scanner[u].read => u = t
    BY <2>1 DEF ScoreInv
  <2>3. d \notin scanner[s].read
    BY <2>1, <2>2
  <2>4. row'[d].status = row[d].status /\ row'[d].score = row[d].score
    BY <2>3, WrittenRow
  <2>. QED
    BY <1>1, <2>1, <2>2, <2>3, <2>4 DEF Idle
<1>4. ASSUME NEW d \in scored'
      PROVE  row'[d].status # "ABSENT" /\ row'[d].due \in Int
  BY <1>1, WrittenRow DEF DueInv, ScoreInv
<1>5. ASSUME NEW d \in scored' \ raced
      PROVE  /\ row'[d].status = "OVERDUE" => row'[d].score = 100
             /\ row'[d].status = "ACTIVE" => row'[d].score <= Urgency(DaysRemaining(d))
  <2>1. d \in Deadlines
    BY <1>1
  <2>2. CASE d \in scanner[s].read
    <3>1. /\ row[d].status = "ACTIVE"
          /\ scanner[s].score[d] <= Urgency(DaysRemaining(d))
          /\ d \in scanner[s].overdue => scanner[s].score[d] = 100
      BY <2>1, <2>2 DEF ScoreInv
    <3>. QED
      BY <2>1, <2>2, <3>1, WrittenRow
  <2>3. CASE d \notin scanner[s].read
    BY <1>1, <2>1, <2>3, WrittenRow DEF ScoreInv
  <2>. QED
    BY <2>2, <2>3
<1>. QED
  BY <1>1, <1>2, <1>3, <1>4, <1>5 DEF ScoreInv, Idle

LEMMA ScoreStore ==
  ASSUME TypeOK, DueInv, ScoreInv, NEW d \in Deadlines, Store(d)
  PROVE  ScoreInv'
<1>1. \A e \in Deadlines \ {d} : row'[e] = row[e] /\ DaysRemaining(e)' = DaysRemaining(e)
  BY DEF Store, TypeOK, DaysRemaining
<1>2. row[d].status = "ABSENT"
  BY DEF Store, Absent
<1>3. d \notin scored /\ \A s \in Scanners : d \notin scanner[s].read
  BY <1>2 DEF ScoreInv, DueInv
<1>4. UNCHANGED <<scanner, scored, raced>> /\ scored \subseteq Deadlines
  BY DEF Store, TypeOK
<1>. QED
  BY <1>1, <1>3, <1>4 DEF ScoreInv

LEMMA ScoreNext == TypeOK /\ DueInv /\ ScoreInv /\ [Next]_vars => ScoreInv'
<1>1. ASSUME TypeOK, ScoreInv, NEW s \in Scanners, ScanFails(s) PROVE ScoreInv'
  <2>1. /\ scanner'[s] = Idle
        /\ \A t \in Scanners \ {s} : scanner'[t] = scanner[t]
        /\ UNCHANGED <<now, row, scored, raced>>
    BY <1>1 DEF ScanFails, TypeOK
  <2>2. \A d \in Deadlines : DaysRemaining(d)' = DaysRemaining(d)
    BY <2>1 DEF DaysRemaining
  <2>3. \A d \in Deadlines : Urgency(DaysRemaining(d))' = Urgency(DaysRemaining(d))
    BY <2>2 DEF Urgency
  <2>4. scored \subseteq Deadlines
    BY <1>1 DEF TypeOK
  <2>5. Idle.read = {}
    BY DEF Idle
  <2>. HIDE DEF Urgency, DaysRemaining
  <2>. QED
    BY <1>1, <2>1, <2>3, <2>4, <2>5 DEF ScoreInv
<1>2. ScoreInv /\ UNCHANGED vars => ScoreInv'
  BY DEF ScoreInv, DaysRemaining, vars
<1>. QED
  BY <1>1, <1>2, ScoreTick, ScoreRead, ScoreWrite, ScoreStore DEF Next, Scan

LEMMA ScoreAlways == Spec => []ScoreInv
<1>1. Init => ScoreInv
  BY DEF Init, ScoreInv, Idle
<1>. QED
  BY <1>1, ScoreNext, DueAlways, TypeCorrect, PTL DEF Spec

LEMMA UrgencyStep ==
  ASSUME TypeOK, ScoreInv, [Next]_vars, NEW d \in scored \ raced'
  PROVE  row'[d].score >= row[d].score
<1>1. d \in Deadlines /\ row[d].score \in Int
  BY DEF TypeOK
<1>2. ASSUME NEW s \in Scanners, WriteScores(s) PROVE row'[d].score >= row[d].score
  <2>1. CASE d \in scanner[s].read
    <3>1. d \notin raced
      BY <1>2 DEF WriteScores
    <3>2. row[d].score <= scanner[s].score[d]
      BY <1>1, <2>1, <3>1 DEF ScoreInv
    <3>3. scanner[s].score \in [Deadlines -> 0..100]
      BY DEF TypeOK
    <3>. QED
      BY <1>1, <1>2, <2>1, <3>2, <3>3, WrittenRow
  <2>2. CASE d \notin scanner[s].read
    BY <1>1, <1>2, <2>2, WrittenRow
  <2>. QED
    BY <2>1, <2>2
<1>3. ASSUME NEW e \in Deadlines, Store(e) PROVE row'[d] = row[d]
  <2>1. d # e
    BY <1>3 DEF Store, Absent, ScoreInv
  <2>. QED
    BY <1>1, <1>3, <2>1 DEF Store, TypeOK
<1>4. ASSUME NEW s \in Scanners, ReadDeadlines(s) \/ ScanFails(s) PROVE row' = row
  BY <1>4 DEF ReadDeadlines, ScanFails
<1>5. Tick \/ UNCHANGED vars => row' = row
  BY DEF Tick, vars
<1>. QED
  BY <1>1, <1>2, <1>3, <1>4, <1>5 DEF Next, Scan

(* A deadline that has been scanned, and by no two scans at once, never falls *)
(* in the list, whatever fails and however long a scan waits to write.        *)
THEOREM UrgencyRisesOnly == Spec => UrgencyNeverFalls
<1>1. TypeOK /\ ScoreInv /\ [Next]_vars
        => [\A d \in scored \ raced' : row'[d].score >= row[d].score]_vars
  BY UrgencyStep
<1>. QED
  BY <1>1, ScoreAlways, TypeCorrect, PTL DEF Spec, UrgencyNeverFalls

-----------------------------------------------------------------------------
(* The list is in order of date.  Of deadlines that no two scans had read at  *)
(* once, one scan at most is about to write any, since a second one would     *)
(* have found them active still; and what it did not read of those scored     *)
(* before was overdue by then.                                                *)

OrderInv ==
    /\ \A s, t \in Scanners, d, e \in Deadlines \ raced :
          d \in scanner[s].read /\ e \in scanner[t].read => s = t
    /\ \A s \in Scanners, d, e \in Deadlines \ raced :
          d \in scanner[s].read /\ e \in scanner[s].read /\ row[d].due <= row[e].due
            => scanner[s].score[d] >= scanner[s].score[e]
    /\ \A s \in Scanners, d, e \in Deadlines \ raced :
          d \in scanner[s].read /\ e \in scored \ scanner[s].read =>
            /\ row[e].status = "OVERDUE"
            /\ row[d].due <= row[e].due => scanner[s].score[d] = 100
    /\ ListedByDate

(* A step that only forgets scans, or learns nothing new of the rows.         *)
LEMMA OrderKept ==
  ASSUME TypeOK, OrderInv, raced' = raced, scored' = scored,
         \A s \in Scanners :
            scanner'[s].read = {} \/ scanner'[s] = scanner[s],
         \A d \in Deadlines : row'[d] = row[d] \/
            (d \notin scored /\ \A s \in Scanners : d \notin scanner[s].read)
  PROVE  OrderInv'
<1>1. scored \subseteq Deadlines
  BY DEF TypeOK
<1>. QED
  BY <1>1 DEF OrderInv, ListedByDate

LEMMA OrderRead ==
  ASSUME TypeOK, DueInv, ScoreInv, OrderInv, NEW s \in Scanners, ReadDeadlines(s)
  PROVE  OrderInv'
<1>1. /\ scanner'[s].read = Scanned
      /\ \A d \in Scanned : scanner'[s].score[d] = Urgency(DaysRemaining(d))
      /\ \A t \in Scanners \ {s} : scanner'[t] = scanner[t]
  BY DEF ReadDeadlines, TypeOK, Scanned
<1>2. /\ UNCHANGED <<row, now, scored>>
      /\ raced \subseteq raced'
      /\ \A t \in Scanners, d \in Scanned : d \in scanner[t].read => d \in raced'
  BY DEF ReadDeadlines
<1>3. ASSUME NEW t \in Scanners \ {s}, NEW d \in Deadlines \ raced', d \in scanner[t].read
      PROVE  FALSE
  <2>1. row[d].status = "ACTIVE" /\ row[d].due \in Int
    BY <1>2, <1>3 DEF ScoreInv, DueInv
  <2>2. d \in Scanned
    BY <2>1, DeadlinesAssumption DEF Scanned
  <2>. QED
    BY <1>2, <1>3, <2>2
<1>4. ASSUME NEW d \in Scanned, NEW e \in Deadlines, row[e].due \in Int,
             row[d].due <= row[e].due
      PROVE  /\ e \in Scanned => Urgency(DaysRemaining(d)) >= Urgency(DaysRemaining(e))
             /\ row[e].status = "OVERDUE" => Urgency(DaysRemaining(d)) = 100
  <2>1. /\ row[d].due - now \in Int /\ row[e].due - now \in Int
        /\ row[d].due - now <= row[e].due - now
    BY <1>4, ScannedDays DEF TypeOK
  <2>2. /\ DaysRemaining(d) \in Int /\ DaysRemaining(e) \in Int
        /\ DaysRemaining(d) <= DaysRemaining(e)
        /\ row[e].due - now < TicksPerDay => DaysRemaining(d) <= 0
    BY <2>1, DaysOrder, DaysDown, DeadlinesAssumption DEF DaysRemaining
  <2>3. /\ Urgency(DaysRemaining(e)) <= Urgency(DaysRemaining(d))
        /\ DaysRemaining(d) <= 0 => Urgency(DaysRemaining(d)) = 100
    BY <2>2, UrgencyRises
  <2>4. /\ Urgency(DaysRemaining(d)) \in Int
        /\ Urgency(DaysRemaining(e)) \in Int
    BY <2>2, UrgencyType
  <2>. QED
    BY <2>2, <2>3, <2>4 DEF DueInv
<1>5. ASSUME NEW e \in scored, e \notin Scanned
      PROVE  e \in Deadlines /\ row[e].status = "OVERDUE" /\ row[e].due \in Int
  <2>1. e \in Deadlines /\ row[e].status # "ABSENT" /\ row[e].due \in Int
    BY DEF ScoreInv, TypeOK
  <2>. QED
    BY <1>5, <2>1, DeadlinesAssumption DEF Scanned, TypeOK
<1>6. \A d \in Scanned : d \in Deadlines /\ row[d].due \in Int
  BY ScannedDays
<1>7. ListedByDate'
  BY <1>2 DEF OrderInv, ListedByDate
<1>8. ASSUME NEW t \in Scanners, NEW d \in Deadlines \ raced', d \in scanner'[t].read
      PROVE  t = s
  BY <1>1, <1>3, <1>8
<1>. QED
  BY <1>1, <1>2, <1>4, <1>5, <1>6, <1>7, <1>8 DEF OrderInv

LEMMA OrderWrite ==
  ASSUME TypeOK, DueInv, ScoreInv, OrderInv, NEW s \in Scanners, WriteScores(s)
  PROVE  OrderInv'
<1>1. /\ scanner'[s].read = {}
      /\ \A t \in Scanners \ {s} : scanner'[t] = scanner[t]
      /\ raced' = raced /\ scored' = scored \cup scanner[s].read
      /\ scored \subseteq Deadlines /\ scanner[s].read \subseteq Deadlines
  BY DEF WriteScores, TypeOK, Idle
<1>2. /\ \A d \in Deadlines : row[d].score \in Int /\ row[d].score <= 100
      /\ \A d \in Deadlines : scanner[s].score[d] \in Int /\ scanner[s].score[d] <= 100
  <2>1. scanner[s].score \in [Deadlines -> 0..100]
    BY DEF TypeOK
  <2>2. \A d \in Deadlines : row[d].score \in 0..100
    BY DEF TypeOK
  <2>. QED
    BY <2>1, <2>2
<1>3. ASSUME NEW d \in scored' \ raced, NEW e \in scored' \ raced, row[d].due <= row[e].due
      PROVE  row'[d].score >= row'[e].score
  <2>1. d \in Deadlines /\ e \in Deadlines
    BY <1>1
  <2>2. CASE d \in scanner[s].read /\ e \in scanner[s].read
    BY <1>3, <2>1, <2>2, WrittenRow DEF OrderInv
  <2>3. CASE d \in scanner[s].read /\ e \notin scanner[s].read
    <3>1. scanner[s].score[d] = 100
      BY <1>1, <1>3, <2>1, <2>3 DEF OrderInv
    <3>. QED
      BY <1>2, <2>1, <2>3, <3>1, WrittenRow
  <2>4. CASE d \notin scanner[s].read /\ e \in scanner[s].read
    <3>1. row[d].status = "OVERDUE"
      BY <1>1, <2>1, <2>4 DEF OrderInv
    <3>2. row[d].score = 100
      BY <1>1, <2>4, <3>1 DEF ScoreInv
    <3>. QED
      BY <1>2, <2>1, <2>4, <3>2, WrittenRow
  <2>5. CASE d \notin scanner[s].read /\ e \notin scanner[s].read
    BY <1>1, <1>3, <2>1, <2>5, WrittenRow DEF OrderInv, ListedByDate
  <2>. QED
    BY <2>2, <2>3, <2>4, <2>5
<1>4. \A d \in Deadlines : row'[d].due = row[d].due
  BY WrittenRow
<1>5. ListedByDate'
  BY <1>1, <1>3, <1>4 DEF ListedByDate
<1>6. ASSUME NEW t \in Scanners, NEW d \in Deadlines \ raced, d \in scanner'[t].read
      PROVE  /\ t # s /\ scanner'[t] = scanner[t]
             /\ \A e \in Deadlines \ raced : e \notin scanner[s].read
  BY <1>1, <1>6 DEF OrderInv
<1>7. \A e \in Deadlines \ scanner[s].read : row'[e].status = row[e].status
  BY WrittenRow
<1>. QED
  BY <1>1, <1>4, <1>5, <1>6, <1>7 DEF OrderInv

LEMMA OrderNext == TypeOK /\ DueInv /\ ScoreInv /\ OrderInv /\ [Next]_vars => OrderInv'
<1>1. ASSUME TypeOK, DueInv, ScoreInv, OrderInv, NEW d \in Deadlines, Store(d)
      PROVE  OrderInv'
  <2>1. row[d].status = "ABSENT"
    BY <1>1 DEF Store, Absent
  <2>2. d \notin scored /\ \A s \in Scanners : d \notin scanner[s].read
    BY <1>1, <2>1 DEF ScoreInv, DueInv
  <2>3. /\ \A e \in Deadlines \ {d} : row'[e] = row[e]
        /\ UNCHANGED <<scanner, scored, raced>>
    BY <1>1 DEF Store, TypeOK
  <2>. QED
    BY <1>1, <2>2, <2>3, OrderKept
<1>2. ASSUME TypeOK, OrderInv, NEW s \in Scanners, ScanFails(s) PROVE OrderInv'
  <2>1. /\ \A t \in Scanners : scanner'[t].read = {} \/ scanner'[t] = scanner[t]
        /\ UNCHANGED <<row, scored, raced>>
    BY <1>2 DEF ScanFails, TypeOK, Idle
  <2>. QED
    BY <1>2, <2>1, OrderKept
<1>3. TypeOK /\ OrderInv /\ Tick => OrderInv'
  BY OrderKept DEF Tick
<1>4. OrderInv /\ UNCHANGED vars => OrderInv'
  BY DEF OrderInv, ListedByDate, vars
<1>. QED
  BY <1>1, <1>2, <1>3, <1>4, OrderRead, OrderWrite DEF Next, Scan

(* Of two deadlines that have been scanned, and by no two scans at once, the  *)
(* earlier is never listed after the later, whatever fails in between and     *)
(* whichever scans scored them.                                               *)
THEOREM ListInOrder == Spec => []ListedByDate
<1>1. Init => OrderInv
  BY DEF Init, OrderInv, ListedByDate, Idle
<1>2. OrderInv => ListedByDate
  BY DEF OrderInv
<1>. QED
  BY <1>1, <1>2, OrderNext, ScoreAlways, DueAlways, TypeCorrect, PTL DEF Spec
=============================================================================
