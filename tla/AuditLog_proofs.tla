-------------------------- MODULE AuditLog_proofs --------------------------
(* Theorems about AuditLog: its types, what it loses without a fault, and     *)
(* that it implements LossyLog, for any size of queue and batch and any       *)
(* number of events and faults.                                               *)
EXTENDS AuditLog, FiniteSetTheorems, TLAPS

(* The batch is older than the queue, both fit, and only a fault stops        *)
(* MongoDB.                                                                   *)
Ordered == \A e \in batch, f \in queue : e < f
Fits == Cardinality(queue) <= QueueSize /\ Cardinality(batch) <= BatchSize
Faulted == (mongo = FALSE) => faults > 0

IInv == AuditTypeOK /\ Ordered /\ Fits /\ Faulted /\ LostByOverflow

USE DEF Events, Kinds

(* The numbers of events are finite sets of naturals.                         *)
LEMMA FiniteEvents ==
    ASSUME AuditTypeOK
    PROVE  /\ IsFiniteSet(queue) /\ IsFiniteSet(batch)
           /\ queue \subseteq Nat /\ batch \subseteq Nat
           /\ Cardinality(queue) \in Nat /\ Cardinality(batch) \in Nat
<1>1. emitted \in Nat
  BY AuditLogAssumption DEF AuditTypeOK
<1>2. IsFiniteSet(1..emitted)
  BY <1>1, FS_Interval
<1>3. IsFiniteSet(queue) /\ IsFiniteSet(batch)
  BY <1>2, FS_Subset DEF AuditTypeOK
<1>4. queue \subseteq Nat /\ batch \subseteq Nat
  BY <1>1 DEF AuditTypeOK
<1> QED
  BY <1>3, <1>4, FS_CardinalityType

LEMMA InitInv == AuditInit => IInv
<1> SUFFICES ASSUME AuditInit PROVE IInv
  OBVIOUS
<1>1. Cardinality({}) = 0
  BY FS_EmptySet
<1>2. AuditTypeOK
  BY AuditLogAssumption DEF AuditInit, AuditTypeOK
<1> QED
  BY <1>1, <1>2, AuditLogAssumption DEF AuditInit, IInv, Ordered, Fits, Faulted, LostByOverflow

LEMMA EmitInv ==
    ASSUME IInv, NEW k \in Kinds, Emit(k)
    PROVE  IInv'
<1> DEFINE e == emitted + 1
<1>1. e \in Events /\ emitted \in Nat /\ e \notin queue /\ 1..emitted \subseteq 1..e
  BY AuditLogAssumption DEF IInv, AuditTypeOK, Emit
<1>2. IsFiniteSet(queue) /\ Cardinality(queue) \in Nat
  BY FiniteEvents DEF IInv
<1>3. kind' \in [Events -> Kinds \cup {"none"}]
  BY <1>1 DEF IInv, AuditTypeOK, Emit
<1>4. queue' \subseteq 1..emitted' /\ lost' \subseteq 1..emitted' /\ dropped' \subseteq lost'
  <2>1. emitted' = e /\ e \in 1..e
    BY <1>1 DEF Emit
  <2>2. \/ queue' = queue \cup {e} /\ lost' = lost /\ dropped' = dropped
        \/ queue' = queue /\ lost' = lost \cup {e} /\ dropped' = dropped \cup {e}
    BY DEF Emit
  <2>3. queue \subseteq 1..emitted /\ lost \subseteq 1..emitted /\ dropped \subseteq lost
    BY DEF IInv, AuditTypeOK
  <2> HIDE DEF e
  <2> QED
    BY <1>1, <2>1, <2>2, <2>3
<1>5. AuditTypeOK'
  BY <1>1, <1>3, <1>4 DEF IInv, AuditTypeOK, Emit
<1>6. Ordered'
  <2>1. \A b \in batch : b < e
    BY <1>1 DEF IInv, AuditTypeOK
  <2>2. batch' = batch /\ queue' \subseteq queue \cup {e}
    BY DEF Emit
  <2> QED
    BY <2>1, <2>2 DEF IInv, Ordered
<1>7. Fits'
  <2>1. CASE Cardinality(queue) < QueueSize
    <3>1. Cardinality(queue \cup {e}) = Cardinality(queue) + 1
      BY <1>1, <1>2, FS_AddElement
    <3> QED
      BY <2>1, <3>1, <1>2, AuditLogAssumption DEF IInv, Fits, Emit
  <2>2. CASE ~(Cardinality(queue) < QueueSize)
    BY <2>2 DEF IInv, Fits, Emit
  <2> QED
    BY <2>1, <2>2
<1>8. Faulted' /\ LostByOverflow'
  BY DEF IInv, Faulted, LostByOverflow, Emit
<1> QED
  BY <1>5, <1>6, <1>7, <1>8 DEF IInv

LEMMA TakeInv ==
    ASSUME IInv, NEW e \in Events, Take(e)
    PROVE  IInv'
<1>1. /\ IsFiniteSet(queue) /\ IsFiniteSet(batch)
      /\ queue \subseteq Nat /\ batch \subseteq Nat
      /\ Cardinality(queue) \in Nat /\ Cardinality(batch) \in Nat
  BY FiniteEvents DEF IInv
<1>2. e \in queue /\ e \notin batch
  BY <1>1 DEF IInv, Ordered, Take
<1>3. Cardinality(batch \cup {e}) = Cardinality(batch) + 1
  BY <1>1, <1>2, FS_AddElement
<1>4. Cardinality(queue \ {e}) = Cardinality(queue) - 1
  BY <1>1, <1>2, FS_RemoveElement
<1>5. Fits'
  BY <1>1, <1>3, <1>4, AuditLogAssumption DEF IInv, Fits, Take
<1>6. Ordered'
  BY <1>1, <1>2 DEF IInv, Ordered, Take
<1>7. AuditTypeOK'
  BY <1>2 DEF IInv, AuditTypeOK, Take
<1> QED
  BY <1>5, <1>6, <1>7 DEF IInv, Faulted, LostByOverflow, Take

(* A step that takes events out of the batch and adds nothing anywhere but to *)
(* what is stored or lost.                                                    *)
LEMMA ShrinkFits ==
    ASSUME IInv, batch' \subseteq batch, queue' \subseteq queue
    PROVE  Fits' /\ Ordered'
<1>1. /\ IsFiniteSet(queue) /\ IsFiniteSet(batch)
      /\ queue \subseteq Nat /\ batch \subseteq Nat
      /\ Cardinality(queue) \in Nat /\ Cardinality(batch) \in Nat
  BY FiniteEvents DEF IInv
<1>2. /\ Cardinality(queue') <= Cardinality(queue) /\ Cardinality(queue') \in Nat
      /\ Cardinality(batch') <= Cardinality(batch) /\ Cardinality(batch') \in Nat
  BY <1>1, FS_Subset, FS_CardinalityType
<1> QED
  BY <1>1, <1>2, AuditLogAssumption DEF IInv, Fits, Ordered

LEMMA InsertInv ==
    ASSUME IInv, NEW k \in Kinds, Insert(k)
    PROVE  IInv'
<1>1. batch' \subseteq batch /\ queue' = queue
  BY DEF Insert, Goto, Of
<1>2. Fits' /\ Ordered'
  BY <1>1, ShrinkFits
<1>3. Of(k) \subseteq 1..emitted
  BY DEF IInv, AuditTypeOK, Of
<1>4. AuditTypeOK'
  BY <1>1, <1>3 DEF IInv, AuditTypeOK, Insert, Goto
<1> QED
  BY <1>2, <1>4 DEF IInv, Faulted, LostByOverflow, Insert, Goto

LEMMA InsertFailsInv ==
    ASSUME IInv, NEW k \in Kinds, InsertFails(k)
    PROVE  IInv'
<1>1. batch' \subseteq batch /\ queue' = queue
  BY DEF InsertFails, Goto
<1>2. Fits' /\ Ordered'
  BY <1>1, ShrinkFits
<1>3. PICK S \in SUBSET Of(k) : stored' = stored \cup S /\ lost' = lost \cup (batch \ S)
  BY DEF InsertFails
<1>4. S \subseteq 1..emitted
  BY <1>3 DEF IInv, AuditTypeOK, Of
<1>5. AuditTypeOK'
  BY <1>3, <1>4 DEF IInv, AuditTypeOK, InsertFails, Goto
<1>6. faults > 0 /\ faults' = faults /\ mongo' = mongo
  BY DEF IInv, Faulted, InsertFails, Goto
<1>7. faults # 0
  BY <1>6 DEF IInv, AuditTypeOK
<1> QED
  BY <1>2, <1>5, <1>6, <1>7 DEF IInv, Faulted, LostByOverflow

LEMMA CrashInv ==
    ASSUME IInv, Crash
    PROVE  IInv'
<1>1. batch' \subseteq batch /\ queue' \subseteq queue
  BY DEF Crash
<1>2. Fits' /\ Ordered'
  BY <1>1, ShrinkFits
<1>3. PICK S \in SUBSET (IF pc \in Kinds THEN Of(pc) ELSE {}) :
         stored' = stored \cup S /\ lost' = lost \cup queue \cup (batch \ S)
  BY DEF Crash
<1>4. S \subseteq 1..emitted
  BY <1>3 DEF IInv, AuditTypeOK, Of
<1>5. AuditTypeOK'
  BY <1>3, <1>4 DEF IInv, AuditTypeOK, Crash
<1>6. faults' > 0 /\ faults' # 0
  BY DEF IInv, AuditTypeOK, Crash
<1> QED
  BY <1>2, <1>5, <1>6 DEF IInv, Faulted, LostByOverflow

LEMMA QuietInv ==
    ASSUME IInv, Connect \/ CreateIndexes \/ Flush \/ MongoFails \/ MongoRecovers
                 \/ UNCHANGED auditVars
    PROVE  IInv'
<1>1. queue' = queue /\ batch' = batch
  BY DEF Connect, CreateIndexes, Flush, MongoFails, MongoRecovers, Goto, Quiet, auditVars
<1>2. Fits' /\ Ordered'
  BY <1>1, ShrinkFits
<1>3. AuditTypeOK'
  <2>1. CASE Connect \/ CreateIndexes
    BY <2>1 DEF IInv, AuditTypeOK, Connect, CreateIndexes, Goto, Quiet
  <2>2. CASE Flush
    BY <2>2 DEF IInv, AuditTypeOK, Flush, Goto, Quiet
  <2>3. CASE MongoFails \/ MongoRecovers
    <3>1. mongo' \in BOOLEAN
      BY <2>3 DEF MongoFails, MongoRecovers
    <3>2. faults' \in Nat
      BY <2>3 DEF IInv, AuditTypeOK, MongoFails, MongoRecovers
    <3>3. UNCHANGED <<emitted, kind, queue, batch, pc, stored, lost, dropped>>
      BY <2>3 DEF MongoFails, MongoRecovers
    <3> QED
      BY <3>1, <3>2, <3>3 DEF IInv, AuditTypeOK
  <2>4. CASE UNCHANGED auditVars
    BY <2>4 DEF IInv, AuditTypeOK, auditVars
  <2> QED
    BY <2>1, <2>2, <2>3, <2>4
<1>4. Faulted' /\ LostByOverflow'
  BY DEF IInv, AuditTypeOK, Faulted, LostByOverflow, Connect, CreateIndexes, Flush,
         MongoFails, MongoRecovers, Goto, Quiet, auditVars
<1> QED
  BY <1>2, <1>3, <1>4 DEF IInv

LEMMA NextInv == IInv /\ [AuditNext]_auditVars => IInv'
  BY EmitInv, TakeInv, InsertInv, InsertFailsInv, CrashInv, QuietInv DEF AuditNext, Consumer

LEMMA Invariance == AuditSpec => []IInv
  BY InitInv, NextInv, PTL DEF AuditSpec

(* The tables, the queue and the thread keep their types.                     *)
THEOREM AuditLogTypes == AuditSpec => []AuditTypeOK
<1>1. IInv => AuditTypeOK
  BY DEF IInv
<1> QED
  BY <1>1, Invariance, PTL

(* No outage and no crash: what is lost found the queue full.                 *)
THEOREM AuditLogLosses == AuditSpec => []LostByOverflow
<1>1. IInv => LostByOverflow
  BY DEF IInv
<1> QED
  BY <1>1, Invariance, PTL

-----------------------------------------------------------------------------
(* The refinement: an event that enters the queue or finds it full is emitted *)
(* in LossyLog, the end of an insert, well or not, and a crash settle events, *)
(* and everything else stutters.                                              *)

LEMMA RefineInit == AuditInit => Log!Init
  BY DEF AuditInit, Log!Init

LEMMA RefineEmit ==
    ASSUME IInv, NEW k \in Kinds, Emit(k)
    PROVE  Log!Emit(k)
<1> DEFINE e == emitted + 1
<1>1. /\ IsFiniteSet(queue) /\ IsFiniteSet(batch)
      /\ queue \subseteq Nat /\ batch \subseteq Nat
      /\ Cardinality(queue) \in Nat /\ Cardinality(batch) \in Nat
  BY FiniteEvents DEF IInv
<1>2. queue \cap batch = {}
  BY <1>1 DEF IInv, Ordered
<1>3. Cardinality(queue \cup batch) = Cardinality(queue) + Cardinality(batch)
  <2>1. Cardinality(queue \cap batch) = 0
    BY <1>2, FS_EmptySet
  <2>2. Cardinality(queue \cup batch)
          = Cardinality(queue) + Cardinality(batch) - Cardinality(queue \cap batch)
    BY <1>1, FS_Union
  <2> QED
    BY <1>1, <2>1, <2>2
<1>4. \/ /\ Cardinality(queue \cup batch) < QueueSize + BatchSize
         /\ (queue \cup batch)' = (queue \cup batch) \cup {e}
         /\ UNCHANGED lost
      \/ /\ lost' = lost \cup {e}
         /\ UNCHANGED (queue \cup batch)
  <2>1. CASE Cardinality(queue) < QueueSize
    BY <2>1, <1>1, <1>3, AuditLogAssumption DEF IInv, Fits, Emit
  <2>2. CASE ~(Cardinality(queue) < QueueSize)
    BY <2>2 DEF Emit
  <2> QED
    BY <2>1, <2>2
<1>5. /\ emitted < MaxEvents /\ emitted' = e
      /\ kind' = [kind EXCEPT ![e] = k]
      /\ UNCHANGED stored
  BY DEF Emit
<1>6. Log!Cardinality(queue \cup batch) = Cardinality(queue \cup batch)
  BY Zenon DEF Log!Cardinality, Cardinality
<1> QED
  BY <1>4, <1>5, <1>6 DEF Log!Emit

(* Events that leave the queue or the batch, without an older one of their    *)
(* kind staying behind, are settled.                                          *)
LEMMA RefineSettle ==
    ASSUME NEW T \in SUBSET (queue \cup batch), NEW S \in SUBSET T,
           Log!Settle(T, S)
    PROVE  Log!Next
  BY DEF Log!Next

LEMMA RefineInsert ==
    ASSUME IInv, NEW k \in Kinds, Insert(k)
    PROVE  Log!Next
<1>1. queue \subseteq Nat /\ batch \subseteq Nat
  BY FiniteEvents DEF IInv
<1>2. \A e \in Of(k), f \in queue \cup batch : f < e /\ kind[f] = kind[e] => f \in Of(k)
  BY <1>1 DEF IInv, Ordered, Of
<1>3. (queue \cup batch)' = (queue \cup batch) \ Of(k)
  <2>1. queue' = queue /\ batch' = batch \ Of(k)
    BY DEF Insert, Goto
  <2>2. queue \cap batch = {}
    BY <1>1 DEF IInv, Ordered
  <2>3. Of(k) \subseteq batch
    BY DEF Of
  <2> QED
    BY <2>1, <2>2, <2>3
<1>4. Log!Settle(Of(k), Of(k))
  BY <1>2, <1>3 DEF Insert, Goto, Log!Settle
<1>5. Of(k) \subseteq queue \cup batch
  BY DEF Of
<1> QED
  BY <1>4, <1>5, RefineSettle

LEMMA RefineInsertFails ==
    ASSUME IInv, NEW k \in Kinds, InsertFails(k)
    PROVE  Log!Next
<1>1. queue \subseteq Nat /\ batch \subseteq Nat
  BY FiniteEvents DEF IInv
<1>2. PICK S \in SUBSET Of(k) : stored' = stored \cup S /\ lost' = lost \cup (batch \ S)
  BY DEF InsertFails
<1>3. S \subseteq batch
  BY <1>2 DEF Of
<1>4. \A e \in batch, f \in queue \cup batch : f < e /\ kind[f] = kind[e] => f \in batch
  BY <1>1 DEF IInv, Ordered
<1>5. (queue \cup batch)' = (queue \cup batch) \ batch
  <2>1. queue' = queue /\ batch' = {}
    BY DEF InsertFails, Goto
  <2>2. queue \cap batch = {}
    BY <1>1 DEF IInv, Ordered
  <2> QED
    BY <2>1, <2>2
<1>6. Log!Settle(batch, S)
  BY <1>2, <1>3, <1>4, <1>5 DEF InsertFails, Goto, Log!Settle
<1> QED
  BY <1>3, <1>6, RefineSettle

LEMMA RefineCrash ==
    ASSUME IInv, Crash
    PROVE  Log!Next
<1>1. queue \subseteq Nat /\ batch \subseteq Nat
  BY FiniteEvents DEF IInv
<1>2. PICK S \in SUBSET (IF pc \in Kinds THEN Of(pc) ELSE {}) :
         stored' = stored \cup S /\ lost' = lost \cup queue \cup (batch \ S)
  BY DEF Crash
<1>3. S \subseteq batch
  BY <1>2 DEF Of
<1>4. queue \cap batch = {}
  BY <1>1 DEF IInv, Ordered
<1>5. lost' = lost \cup ((queue \cup batch) \ S)
  BY <1>2, <1>3, <1>4
<1>6. Log!Settle(queue \cup batch, S)
  BY <1>2, <1>3, <1>5 DEF Crash, Log!Settle
<1> QED
  BY <1>3, <1>6, RefineSettle

LEMMA RefineQuiet ==
    ASSUME Connect \/ CreateIndexes \/ Flush \/ MongoFails \/ MongoRecovers
           \/ (\E e \in Events : Take(e)) \/ UNCHANGED auditVars
    PROVE  UNCHANGED Log!vars
<1>1. CASE \E e \in Events : Take(e)
  BY <1>1 DEF Take, Log!vars
<1>2. CASE Connect \/ CreateIndexes \/ Flush
  BY <1>2 DEF Connect, CreateIndexes, Flush, Goto, Quiet, Log!vars
<1>3. CASE MongoFails \/ MongoRecovers \/ UNCHANGED auditVars
  BY <1>3 DEF MongoFails, MongoRecovers, auditVars, Log!vars
<1> QED
  BY <1>1, <1>2, <1>3

LEMMA RefineNext == IInv /\ [AuditNext]_auditVars => [Log!Next]_(Log!vars)
<1> SUFFICES ASSUME IInv, [AuditNext]_auditVars PROVE Log!Next \/ UNCHANGED Log!vars
  OBVIOUS
<1>1. CASE \E k \in Kinds : Emit(k)
  BY <1>1, RefineEmit DEF Log!Next, Log!Kinds
<1>2. CASE \E k \in Kinds : Insert(k) \/ InsertFails(k)
  BY <1>2, RefineInsert, RefineInsertFails
<1>3. CASE Crash
  BY <1>3, RefineCrash
<1>4. CASE \/ Connect \/ CreateIndexes \/ Flush \/ MongoFails \/ MongoRecovers
           \/ (\E e \in Events : Take(e)) \/ UNCHANGED auditVars
  BY <1>4, RefineQuiet
<1> QED
  BY <1>1, <1>2, <1>3, <1>4 DEF AuditNext, Consumer

(* The audit log implements the lossy log, whatever fails: an event is stored *)
(* at most once, never after it was given up and never after a younger one of *)
(* its kind, and at most a queue and a batch of them is at risk.              *)
THEOREM AuditLogRefines == AuditSpec => KeepsPromise
  BY RefineInit, RefineNext, Invariance, PTL DEF AuditSpec, KeepsPromise, Log!Spec
=============================================================================
