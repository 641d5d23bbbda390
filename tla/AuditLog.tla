------------------------------ MODULE AuditLog ------------------------------
(* The audit log of one process (services/audit): any thread puts events into *)
(* a bounded queue, and one daemon thread moves them in batches to MongoDB.   *)
(* The thread dies with the process and may never get as far as its loop.     *)
(*                                                                            *)
(* An event is its number in the order of emission, so that the queue and the *)
(* batch, which are first in first out, are sets of numbers.                  *)
EXTENDS Naturals, FiniteSets

CONSTANTS
    MaxEvents,   \* bound: events ever emitted
    QueueSize,   \* 5000 in the code
    BatchSize,   \* AUDIT_BATCH_SIZE, 100
    MaxFaults    \* bound: outages of MongoDB and crashes of the process

ASSUME AuditLogAssumption ==
    /\ MaxEvents \in Nat
    /\ QueueSize \in Nat \ {0}
    /\ BatchSize \in Nat \ {0}
    /\ MaxFaults \in Nat

VARIABLES
    emitted,     \* how many events there were
    kind,        \* kind[e]: the collection the event is for
    queue, batch,
    pc,          \* where the consumer thread is
    mongo,       \* MongoDB answers
    faults,      \* used part of the budget
    stored,      \* the events in MongoDB
    \* History.
    lost,        \* the events that are neither there nor on their way
    dropped      \* those of them that found the queue full

auditVars == <<emitted, kind, queue, batch, pc, mongo, faults, stored, lost, dropped>>

(* One event per call of an emitter (events.py), to either collection.        *)
Events == 1..MaxEvents
Kinds == {"audit", "debug"}
Of(k) == {e \in batch : kind[e] = k}

AuditInit ==
    /\ emitted = 0
    /\ kind = [e \in Events |-> "none"]
    /\ queue = {} /\ batch = {}
    /\ pc = "connect"
    /\ mongo = TRUE
    /\ faults = 0
    /\ stored = {} /\ lost = {} /\ dropped = {}

-----------------------------------------------------------------------------
(* Any thread of the process.                                                 *)

(* AuditLogger.audit and debug: put_nowait, and a full queue drops the event. *)
Emit(k) ==
    LET e == emitted + 1 IN
    /\ emitted < MaxEvents
    /\ emitted' = e
    /\ kind' = [kind EXCEPT ![e] = k]
    /\ IF Cardinality(queue) < QueueSize
       THEN queue' = queue \cup {e} /\ UNCHANGED <<lost, dropped>>
       ELSE /\ lost' = lost \cup {e}
            /\ dropped' = dropped \cup {e}
            /\ UNCHANGED queue
    /\ UNCHANGED <<batch, pc, mongo, faults, stored>>

-----------------------------------------------------------------------------
(* The consumer thread.                                                       *)

Goto(to) ==
    /\ pc' = to
    /\ UNCHANGED <<emitted, kind, queue, mongo, faults, dropped>>

Quiet == UNCHANGED <<batch, stored, lost>>

(* init_audit_db.  A ping that fails is forgiven: the handle, made before it, *)
(* stays, and its client reconnects by itself.                                *)
Connect ==
    /\ pc = "connect"
    /\ Goto(IF mongo THEN "index" ELSE "take")
    /\ Quiet

(* An index that cannot be made is not: the thread returns without a loop.    *)
CreateIndexes ==
    /\ pc = "index"
    /\ Goto(IF mongo THEN "take" ELSE "ended")
    /\ Quiet

(* get_nowait, until the batch is full.                                       *)
Take(e) ==
    /\ pc = "take"
    /\ e \in queue /\ \A f \in queue : e <= f
    /\ Cardinality(batch) < BatchSize
    /\ queue' = queue \ {e}
    /\ batch' = batch \cup {e}
    /\ UNCHANGED <<emitted, kind, pc, mongo, faults, stored, lost, dropped>>

(* Mutant: only a full batch is flushed.                                      *)
FlushBug ==
    /\ pc = "take"
    /\ Cardinality(batch) = BatchSize
    /\ Goto(IF Of("audit") # {} THEN "audit" ELSE "debug")
    /\ Quiet

(* A full batch, or queue.Empty: _flush_batch divides it by collection.       *)
Flush ==
    /\ pc = "take"
    /\ batch # {}
    /\ Cardinality(batch) = BatchSize \/ queue = {}
    /\ Goto(IF Of("audit") # {} THEN "audit" ELSE "debug")
    /\ Quiet

(* Mutant: the batch is cleared after the first collection.                   *)
InsertBug(k) ==
    /\ pc = k
    /\ mongo
    /\ stored' = stored \cup Of(k)
    /\ lost' = lost \cup (batch \ Of(k))
    /\ batch' = {}
    /\ Goto("take")

(* insert_many into one collection: audit_events first.                       *)
Insert(k) ==
    /\ pc = k
    /\ mongo
    /\ stored' = stored \cup Of(k)
    /\ batch' = batch \ Of(k)
    /\ UNCHANGED lost
    /\ Goto(IF batch' = {} THEN "take" ELSE "debug")

(* Mutant: the batch is kept and sent again.                                  *)
InsertFailsBug(k) ==
    /\ pc = k
    /\ ~mongo
    /\ \E S \in SUBSET Of(k) : stored' = stored \cup S
    /\ UNCHANGED <<batch, lost>>
    /\ Goto("take")

(* MongoDB went away, before it had any of the documents or after it had some *)
(* or all.  What it did not get is given up, with the rest of the batch.      *)
InsertFails(k) ==
    /\ pc = k
    /\ ~mongo
    /\ \E S \in SUBSET Of(k) :
        /\ stored' = stored \cup S
        /\ lost' = lost \cup (batch \ S)
    /\ batch' = {}
    /\ Goto("take")

Consumer ==
    \/ Connect \/ CreateIndexes
    \/ \E e \in Events : Take(e)
    \/ Flush
    \/ \E k \in Kinds : Insert(k) \/ InsertFails(k)

-----------------------------------------------------------------------------
(* The environment.                                                           *)

MongoFails ==
    /\ mongo
    /\ faults < MaxFaults
    /\ mongo' = FALSE
    /\ faults' = faults + 1
    /\ UNCHANGED <<emitted, kind, queue, batch, pc, stored, lost, dropped>>

MongoRecovers ==
    /\ ~mongo
    /\ mongo' = TRUE
    /\ UNCHANGED <<emitted, kind, queue, batch, pc, faults, stored, lost, dropped>>

(* The process ends, perhaps in the middle of an insert_many, and is started  *)
(* again: start_consumer runs in main.py and in every worker process.         *)
Crash ==
    /\ faults < MaxFaults
    /\ faults' = faults + 1
    /\ \E S \in SUBSET (IF pc \in Kinds THEN Of(pc) ELSE {}) :
        /\ stored' = stored \cup S
        /\ lost' = lost \cup queue \cup (batch \ S)
    /\ queue' = {} /\ batch' = {}
    /\ pc' = "connect"
    /\ UNCHANGED <<emitted, kind, mongo, dropped>>

AuditNext ==
    \/ \E k \in Kinds : Emit(k)
    \/ Consumer
    \/ MongoFails \/ MongoRecovers \/ Crash

AuditSpec == AuditInit /\ [][AuditNext]_auditVars

(* The thread is scheduled, and no call of it waits for ever: Motor gives up  *)
(* after five seconds.  Nothing is assumed of MongoDB.                        *)
AuditFairSpec == AuditSpec /\ WF_auditVars(Consumer)

-----------------------------------------------------------------------------
(* Properties.                                                                *)

(* Every variable has its type.                                               *)
AuditTypeOK ==
    /\ emitted \in 0..MaxEvents
    /\ kind \in [Events -> Kinds \cup {"none"}]
    /\ queue \subseteq 1..emitted /\ batch \subseteq 1..emitted
    /\ pc \in {"connect", "index", "take", "audit", "debug", "ended"}
    /\ mongo \in BOOLEAN
    /\ faults \in Nat
    /\ stored \subseteq 1..emitted
    /\ lost \subseteq 1..emitted /\ dropped \subseteq lost

(* The log keeps the promise of LossyLog, whatever fails: nothing is stored   *)
(* twice or out of order, and no more than a queue and a batch is at risk.    *)
Log == INSTANCE LossyLog WITH
    Capacity <- QueueSize + BatchSize,
    pending <- queue \cup batch

KeepsPromise == Log!Spec

(* Without an outage or a crash only a full queue loses events.               *)
LostByOverflow == faults = 0 => lost = dropped

(* An event that was accepted is stored or given up in the end, outage or     *)
(* not.  Only a thread that could not make its indexes leaves events lying.   *)
AcceptedIsSettled ==
    \A e \in Events : (e \in queue \cup batch) ~> (e \in stored \cup lost \/ pc = "ended")
=============================================================================
