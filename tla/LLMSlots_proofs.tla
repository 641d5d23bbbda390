--------------------------- MODULE LLMSlots_proofs ---------------------------
(* Proofs about LLMSlots, for every finite set of callers, any lease and key  *)
(* times, any number of lost callers and any delay inside acquire_llm_slot.   *)
EXTENDS LLMSlots, FiniteSetTheorems, TLAPS

-----------------------------------------------------------------------------
(* Type correctness.                                                          *)

LEMMA GotoType ==
  ASSUME TypeOK, NEW c \in Callers, NEW s \in Steps, Goto(c, s)
  PROVE  pc' \in [Callers -> Steps]
BY DEF TypeOK, Goto

(* Removing members leaves a sorted set of the rest.                          *)
LEMMA RemainsType ==
  ASSUME TypeOK, NEW set \in SUBSET Slots, Remains(set)
  PROVE  /\ Slots' = set /\ Slots' \subseteq Leases
         /\ age' \in [Slots' -> Nat] /\ ttl' \in Nat
<1>1. Slots' = set
  BY DEF Remains, Slots
<1>2. age' \in [set -> Nat]
  BY DEF TypeOK, Remains
<1>. QED
  BY <1>1, <1>2 DEF TypeOK, Remains

LEMMA OlderType ==
  ASSUME NEW n \in Nat
  PROVE  Older(n) \in Nat
BY SlotsAssumption DEF Older, MaxAge

LEMMA TickType ==
  ASSUME TypeOK, Tick
  PROVE  TypeOK' /\ Slots' \subseteq Slots
<1>1. age' \in [Slots' -> Nat] /\ Slots' \subseteq Slots
  <2>1. CASE ttl = 1
    BY <2>1 DEF Tick, Slots
  <2>2. CASE ttl # 1
    <3>1. age' = [l \in Slots |-> Older(age[l])]
      BY <2>2 DEF Tick
    <3>2. \A l \in Slots : Older(age[l]) \in Nat
      BY OlderType DEF TypeOK
    <3>. QED
      BY <3>1, <3>2 DEF Slots
  <2>. QED
    BY <2>1, <2>2
<1>2. ttl' \in Nat
  BY DEF TypeOK, Tick
<1>3. since' \in [Callers -> Nat]
  <2>1. \A c \in Callers : Older(since[c]) \in Nat
    BY OlderType DEF TypeOK
  <2>. QED
    BY <2>1 DEF Tick
<1>. QED
  BY <1>1, <1>2, <1>3 DEF TypeOK, Tick

LEMMA AddType ==
  ASSUME TypeOK, NEW c \in Callers, Add(c)
  PROVE  /\ TypeOK'
         /\ \E l \in Leases \ Slots : Slots' = Slots \cup {l}
<1>1. PICK l \in Leases \ Slots :
         /\ age' = [m \in Slots \cup {l} |-> IF m = l THEN since[c] ELSE age[m]]
         /\ lease' = [lease EXCEPT ![c] = l]
  BY DEF Add
<1>2. Slots' = Slots \cup {l}
  BY <1>1 DEF Slots
<1>3. age' \in [Slots \cup {l} -> Nat]
  BY <1>1 DEF TypeOK
<1>4. lease' \in [Callers -> Leases \cup {NoLease}]
  BY <1>1 DEF TypeOK
<1>5. pc' \in [Callers -> Steps]
  BY GotoType DEF Add, Steps
<1>. QED
  BY <1>2, <1>3, <1>4, <1>5 DEF TypeOK, Add

LEMMA InitType == Init => TypeOK
BY SlotsAssumption DEF Init, TypeOK, Slots, Steps

LEMMA NextType ==
  ASSUME TypeOK, [Next]_vars
  PROVE  TypeOK'
<1>1. ASSUME NEW c \in Callers, Want(c) PROVE TypeOK'
  <2>1. pc' \in [Callers -> Steps]
    BY <1>1, GotoType DEF Want, Steps
  <2>. QED
    BY <1>1, <2>1 DEF TypeOK, Want, Slots
<1>2. ASSUME NEW c \in Callers, ReadClock(c) PROVE TypeOK'
  <2>1. pc' \in [Callers -> Steps]
    BY <1>2, GotoType DEF ReadClock, Steps
  <2>2. since' \in [Callers -> Nat]
    BY <1>2 DEF ReadClock, TypeOK
  <2>. QED
    BY <1>2, <2>1, <2>2 DEF TypeOK, ReadClock, Slots
<1>3. ASSUME NEW c \in Callers, Purge(c) PROVE TypeOK'
  <2>1. pc' \in [Callers -> Steps]
    BY <1>3, GotoType DEF Purge, Steps
  <2>2. /\ Slots' \subseteq Leases /\ age' \in [Slots' -> Nat] /\ ttl' \in Nat
    BY <1>3, RemainsType DEF Purge
  <2>. QED
    BY <1>3, <2>1, <2>2 DEF TypeOK, Purge
<1>4. ASSUME NEW c \in Callers, Count(c) PROVE TypeOK'
  <2>1. pc' \in [Callers -> Steps]
    BY <1>4, GotoType DEF Count, Steps
  <2>. QED
    BY <1>4, <2>1 DEF TypeOK, Count, Slots
<1>5. ASSUME NEW c \in Callers, Expire(c) PROVE TypeOK'
  <2>1. pc' \in [Callers -> Steps]
    BY <1>5, GotoType DEF Expire, Steps
  <2>2. ttl' \in Nat
    BY <1>5, SlotsAssumption DEF Expire
  <2>. QED
    BY <1>5, <2>1, <2>2 DEF TypeOK, Expire, Slots
<1>6. ASSUME NEW c \in Callers, Return(c) PROVE TypeOK'
  <2>1. pc' \in [Callers -> Steps]
    BY <1>6, GotoType DEF Return, Steps
  <2>. QED
    BY <1>6, <2>1 DEF TypeOK, Return, Slots
<1>7. ASSUME NEW c \in Callers, Release(c) PROVE TypeOK'
  <2>1. pc' \in [Callers -> Steps]
    BY <1>7, GotoType DEF Release, Steps
  <2>2. /\ Slots' \subseteq Leases /\ age' \in [Slots' -> Nat] /\ ttl' \in Nat
    BY <1>7, RemainsType DEF Release
  <2>3. /\ lease' \in [Callers -> Leases \cup {NoLease}]
        /\ since' \in [Callers -> Nat]
    BY <1>7 DEF Release, TypeOK
  <2>. QED
    BY <1>7, <2>1, <2>2, <2>3 DEF TypeOK, Release
<1>8. ASSUME NEW c \in Callers, Lost(c) PROVE TypeOK'
  <2>1. pc' \in [Callers -> Steps]
    BY <1>8, GotoType DEF Lost, Steps
  <2>2. /\ lease' \in [Callers -> Leases \cup {NoLease}]
        /\ since' \in [Callers -> Nat]
    BY <1>8 DEF Lost, TypeOK
  <2>. QED
    BY <1>8, <2>1, <2>2 DEF TypeOK, Lost, Slots
<1>9. CASE UNCHANGED vars
  BY <1>9 DEF TypeOK, vars, Slots
<1>. QED
  BY <1>1, <1>2, <1>3, <1>4, <1>5, <1>6, <1>7, <1>8, <1>9, AddType, TickType
     DEF Next, Caller

(* Every variable keeps its type: redis_client.py's acquire and release and   *)
(* the extractors' loop.                                                      *)
THEOREM TypeCorrect == Spec => []TypeOK
<1>. QED
  BY InitType, NextType, PTL DEF Spec

-----------------------------------------------------------------------------
(* The bound on the slots.                                                    *)

LEMMA AddingFinite ==
  /\ IsFiniteSet(Adding) /\ Cardinality(Adding) \in Nat
  /\ IsFiniteSet(Callers) /\ Cardinality(Callers) \in Nat
  /\ Cardinality(Adding) <= Cardinality(Callers)
<1>1. Adding \in SUBSET Callers
  BY DEF Adding
<1>. QED
  BY <1>1, SlotsAssumption, FS_Subset, FS_CardinalityType

(* The inductive invariant: finitely many slots, and no more of them, with    *)
(* those about to be taken, than the bound.                                   *)
Inv == TypeOK /\ IsFiniteSet(Slots) /\ SlotInv

(* A step that adds no slot and lets no caller see a free one.                *)
LEMMA ShrinkingKeepsInv ==
  ASSUME Inv, TypeOK', Slots' \subseteq Slots, Adding' \subseteq Adding
  PROVE  Inv'
<1>1. IsFiniteSet(Slots') /\ Cardinality(Slots') <= Cardinality(Slots)
  BY FS_Subset DEF Inv
<1>2. Cardinality(Adding') <= Cardinality(Adding) /\ IsFiniteSet(Adding')
  BY FS_Subset, AddingFinite
<1>3. /\ Cardinality(Slots) \in Nat /\ Cardinality(Slots') \in Nat
      /\ Cardinality(Adding) \in Nat /\ Cardinality(Adding') \in Nat
      /\ Cardinality(Callers) \in Nat
  BY <1>1, <1>2, FS_CardinalityType, AddingFinite DEF Inv
<1>. QED
  BY <1>1, <1>2, <1>3, SlotsAssumption DEF Inv, SlotInv

(* Leaving for a step other than zadd adds no caller to Adding.               *)
LEMMA GotoAdding ==
  ASSUME TypeOK, NEW c \in Callers, NEW s \in Steps \ {"add"}, Goto(c, s)
  PROVE  Adding' \subseteq Adding
BY DEF TypeOK, Goto, Adding

(* A caller that sees a free slot: the slots were fewer than MaxSlots.        *)
LEMMA CountKeepsInv ==
  ASSUME Inv, NEW c \in Callers, Count(c), TypeOK'
  PROVE  Inv'
<1>1. Slots' = Slots
  BY DEF Count, Slots
<1>2. CASE Cardinality(Slots) >= MaxSlots
  <2>1. Adding' \subseteq Adding
    BY <1>2, GotoAdding DEF Count, Inv, Steps
  <2>. QED
    BY <1>1, <2>1, ShrinkingKeepsInv
<1>3. CASE ~(Cardinality(Slots) >= MaxSlots)
  <2>1. Adding' \in SUBSET Callers
    BY DEF Adding
  <2>2. /\ Cardinality(Adding') <= Cardinality(Callers)
        /\ IsFiniteSet(Adding')
    BY <2>1, FS_Subset, AddingFinite
  <2>3. /\ Cardinality(Slots) \in Nat /\ Cardinality(Adding') \in Nat
        /\ Cardinality(Callers) \in Nat
    BY <2>2, FS_CardinalityType, AddingFinite DEF Inv
  <2>4. Cardinality(Slots) + Cardinality(Adding')
          <= MaxSlots - 1 + Cardinality(Callers)
    BY <1>3, <2>2, <2>3, SlotsAssumption
  <2>. QED
    BY <1>1, <2>4 DEF Inv, SlotInv
<1>. QED
  BY <1>2, <1>3

(* zadd turns a caller about to take a slot into a slot.                      *)
LEMMA AddKeepsInv ==
  ASSUME Inv, NEW c \in Callers, Add(c)
  PROVE  Inv'
<1>1. PICK l \in Leases \ Slots : Slots' = Slots \cup {l}
  BY AddType DEF Inv
<1>2. /\ IsFiniteSet(Slots')
      /\ Cardinality(Slots') = Cardinality(Slots) + 1
  BY <1>1, FS_AddElement DEF Inv
<1>3. c \in Adding /\ Adding' = Adding \ {c}
  BY DEF Inv, TypeOK, Add, Goto, Adding
<1>4. Cardinality(Adding') = Cardinality(Adding) - 1
  BY <1>3, FS_RemoveElement, AddingFinite
<1>5. /\ Cardinality(Slots) \in Nat /\ Cardinality(Adding) \in Nat
      /\ Cardinality(Callers) \in Nat
  BY FS_CardinalityType, AddingFinite DEF Inv
<1>6. SlotInv'
  BY <1>2, <1>4, <1>5, SlotsAssumption DEF Inv, SlotInv
<1>. QED
  BY <1>2, <1>6, AddType DEF Inv

LEMMA InitInv == Init => Inv
<1>. SUFFICES ASSUME Init PROVE Inv
  OBVIOUS
<1>1. Slots = {} /\ Adding = {}
  BY DEF Init, Slots, Adding
<1>2. IsFiniteSet(Slots) /\ Cardinality(Slots) = 0 /\ Cardinality(Adding) = 0
  BY <1>1, FS_EmptySet
<1>. QED
  BY <1>2, InitType, SlotsAssumption, AddingFinite DEF Inv, SlotInv

LEMMA NextInv ==
  ASSUME Inv, [Next]_vars
  PROVE  Inv'
<1>0. TypeOK /\ TypeOK'
  BY NextType DEF Inv
<1>1. ASSUME NEW c \in Callers, Want(c) \/ ReadClock(c) \/ Expire(c) \/ Return(c)
      PROVE  Inv'
  <2>1. Slots' = Slots
    BY <1>1 DEF Want, ReadClock, Expire, Return, Slots
  <2>2. Adding' \subseteq Adding
    BY <1>0, <1>1, GotoAdding DEF Want, ReadClock, Expire, Return, Steps
  <2>. QED
    BY <1>0, <2>1, <2>2, ShrinkingKeepsInv
<1>2. ASSUME NEW c \in Callers, Purge(c) \/ Release(c) \/ Lost(c)
      PROVE  Inv'
  <2>1. Slots' \subseteq Slots
    <3>1. CASE Purge(c)
      BY <1>0, <3>1, RemainsType DEF Purge
    <3>2. CASE Release(c)
      BY <1>0, <3>2, RemainsType DEF Release
    <3>3. CASE Lost(c)
      BY <3>3 DEF Lost, Slots
    <3>. QED
      BY <1>2, <3>1, <3>2, <3>3
  <2>2. Adding' \subseteq Adding
    BY <1>0, <1>2, GotoAdding DEF Purge, Release, Lost, Steps
  <2>. QED
    BY <1>0, <2>1, <2>2, ShrinkingKeepsInv
<1>3. ASSUME Tick PROVE Inv'
  <2>1. Adding' = Adding
    BY <1>3 DEF Tick, Adding
  <2>. QED
    BY <1>0, <1>3, <2>1, TickType, ShrinkingKeepsInv
<1>4. ASSUME UNCHANGED vars PROVE Inv'
  <2>1. Slots' = Slots /\ Adding' = Adding
    BY <1>4 DEF vars, Slots, Adding
  <2>. QED
    BY <1>0, <2>1, ShrinkingKeepsInv
<1>. QED
  BY <1>0, <1>1, <1>2, <1>3, <1>4, CountKeepsInv, AddKeepsInv DEF Next, Caller

LEMMA InvBound == Inv => SlotBound
<1>. SUFFICES ASSUME Inv PROVE SlotBound
  OBVIOUS
<1>1. /\ Cardinality(Slots) \in Nat /\ Cardinality(Adding) \in Nat
      /\ Cardinality(Callers) \in Nat
  BY FS_CardinalityType, AddingFinite DEF Inv
<1>. QED
  BY <1>1, SlotsAssumption DEF Inv, SlotInv, SlotBound

(* n extractors that race between zcard and zadd in acquire_llm_slot exceed   *)
(* max_slots by at most n - 1, however long they stall, whatever leases lost  *)
(* callers leave behind and whenever Redis drops the key.                     *)
THEOREM SlotsBounded == Spec => []SlotBound
<1>. QED
  BY InitInv, NextInv, InvBound, PTL DEF Spec

-----------------------------------------------------------------------------
(* The lease of a call that is young is held.                                 *)

Holding == {"expire", "call", "release"}

(* Time: the cap on ages is above every comparison.                           *)
LEMMA OlderAge ==
  ASSUME NEW n \in Nat
  PROVE  /\ MaxAge \in Nat /\ LeaseTime <= MaxAge
         /\ n # MaxAge /\ n < MaxAge => Older(n) = n + 1
         /\ n < LeaseTime => Older(n) = n + 1
         /\ n < MaxStall => Older(n) = n + 1
         /\ n = MaxAge => Older(n) = MaxAge
BY SlotsAssumption DEF Older, MaxAge

(* One lost caller more costs LeaseTime + MaxStall - 1 ticks.                 *)
LEMMA LifeType ==
  ASSUME TypeOK
  PROVE  /\ LeastLife \in Int /\ LeastLife <= KeyTime
         /\ crashes' = crashes + 1
              => LeastLife' = LeastLife - (LeaseTime + MaxStall - 1)
<1>. DEFINE M == LeaseTime + MaxStall - 1
<1>1. M \in Nat /\ KeyTime \in Nat /\ crashes \in Nat
  BY SlotsAssumption DEF TypeOK
<1>2. \A m, n \in Nat : n * m \in Nat /\ (n + 1) * m = n * m + m
  BY Z3
<1>3. crashes * M \in Nat /\ (crashes + 1) * M = crashes * M + M
  BY <1>1, <1>2
<1>. HIDE DEF M
<1>4. LeastLife = KeyTime - crashes * M
  BY DEF LeastLife, M
<1>5. crashes' = crashes + 1 => LeastLife' = KeyTime - (crashes + 1) * M
  BY DEF LeastLife, M
<1>. QED
  BY <1>1, <1>3, <1>4, <1>5 DEF M

(* As long as the budget of lost callers lasts, a key lives past a lease.     *)
LEMMA LifeEnough ==
  ASSUME TypeOK, crashes <= MaxCrashes, KeyOutlives
  PROVE  LeastLife >= LeaseTime + MaxStall
<1>. DEFINE M == LeaseTime + MaxStall - 1
<1>1. M \in Nat /\ KeyTime \in Nat /\ crashes \in Nat /\ MaxCrashes \in Nat
      /\ LeaseTime \in Nat /\ MaxStall \in Nat
  BY SlotsAssumption DEF TypeOK
<1>2. \A k, m, n \in Nat : k <= n => n * m \in Nat /\ k * m \in Nat /\ k * m <= n * m
  <2>1. SUFFICES ASSUME NEW k \in Nat, NEW m \in Nat, NEW n \in Nat, k <= n
                 PROVE  n * m \in Nat /\ k * m \in Nat /\ k * m <= n * m
    OBVIOUS
  <2>2. n - k \in Nat /\ n = k + (n - k)
    BY <2>1
  <2>3. k * m \in Nat /\ (n - k) * m \in Nat /\ n * m = k * m + (n - k) * m
    BY <2>2, Z3
  <2>. QED
    BY <2>3
<1>3. MaxCrashes * M \in Nat /\ crashes * M \in Nat /\ crashes * M <= MaxCrashes * M
  BY <1>1, <1>2
<1>. HIDE DEF M
<1>4. LeastLife = KeyTime - crashes * M /\ KeyTime >= LeaseTime + MaxStall + MaxCrashes * M
  BY DEF LeastLife, KeyOutlives, M
<1>. QED
  BY <1>1, <1>3, <1>4

LEMMA HeldInit == Init => HeldInv
BY SlotsAssumption DEF Init, HeldInv, StallBound, OwnLease, LeaseOutlived, PurgeFound,
   YoungLeaseHeld, Slots, Acquiring

(* A step of one caller that leaves the set, its life, the leases and the     *)
(* crashes alone, and takes nobody away from expire.                          *)
LEMMA HeldQuiet ==
  ASSUME TypeOK, HeldInv, NEW c \in Callers,
         pc' = [pc EXCEPT ![c] = pc'[c]],
         \/ pc[c] = "idle" /\ pc'[c] = "poll" /\ since' = since
         \/ pc[c] = "poll" /\ pc'[c] = "purge" /\ since' = [since EXCEPT ![c] = 0]
         \/ pc[c] = "count" /\ pc'[c] \in {"poll", "add"} /\ since' = since
         \/ pc[c] = "call" /\ pc'[c] = "release" /\ since' = since,
         UNCHANGED <<age, ttl, lease, crashes>>
  PROVE  HeldInv'
<1>. Slots' = Slots /\ Expiring' = Expiring /\ LeastLife' = LeastLife
  BY DEF Slots, Expiring, LeastLife, TypeOK
<1>1. StallBound'
  BY SlotsAssumption DEF TypeOK, HeldInv, StallBound, Acquiring
<1>2. OwnLease'
  BY DEF TypeOK, HeldInv, OwnLease
<1>3. LeaseOutlived'
  BY DEF HeldInv, LeaseOutlived, MaxAge
<1>4. PurgeFound'
  <2>1. \A d \in Callers : pc'[d] \in {"count", "add", "expire"}
          => pc[d] \in {"count", "add", "expire"}
    BY DEF TypeOK
  <2>2. \A d \in Callers : pc'[d] \in {"count", "add", "expire"} => since'[d] = since[d]
    BY DEF TypeOK
  <2>3. \A d \in Expiring : d \in Callers /\ since'[d] = since[d]
    BY DEF TypeOK, Expiring
  <2>. QED
    BY <2>1, <2>2, <2>3 DEF HeldInv, PurgeFound
<1>5. YoungLeaseHeld'
  BY DEF TypeOK, HeldInv, YoungLeaseHeld
<1>. QED
  BY <1>1, <1>2, <1>3, <1>4, <1>5 DEF HeldInv

(* The purge leaves leases younger than LeaseTime by the caller's clock.      *)
LEMMA HeldPurge ==
  ASSUME TypeOK, HeldInv, NEW c \in Callers, Purge(c)
  PROVE  HeldInv'
<1>. DEFINE kept == {l \in Slots : age[l] < since[c] + LeaseTime}
<1>1. /\ Slots' = kept /\ \A l \in kept : age'[l] = age[l]
      /\ ttl' = IF kept = {} THEN 0 ELSE ttl
  BY RemainsType DEF Purge, Remains
<1>2. /\ pc[c] = "purge" /\ pc' = [pc EXCEPT ![c] = "count"]
      /\ UNCHANGED <<lease, since, crashes>>
  BY DEF Purge, Goto
<1>3. Expiring' = Expiring /\ LeastLife' = LeastLife
  BY <1>2 DEF Expiring, LeastLife, TypeOK
<1>4. since[c] <= MaxStall /\ MaxStall \in Nat /\ LeaseTime \in Nat \ {0}
  BY <1>2, SlotsAssumption DEF HeldInv, StallBound, Acquiring
<1>5. StallBound'
  BY <1>2 DEF TypeOK, HeldInv, StallBound, Acquiring
<1>6. OwnLease'
  BY <1>1, <1>2 DEF TypeOK, HeldInv, OwnLease
<1>7. LeaseOutlived'
  <2>1. SUFFICES ASSUME ttl' > 0, NEW l \in Slots'
                 PROVE  \/ \E d \in Expiring' : lease'[d] = l
                        \/ age'[l] = MaxAge \/ ttl' + age'[l] >= LeastLife'
    BY DEF LeaseOutlived, MaxAge
  <2>2. ttl' = ttl /\ l \in Slots /\ age'[l] = age[l]
    BY <1>1, <2>1
  <2>. QED
    BY <1>2, <1>3, <2>1, <2>2 DEF HeldInv, LeaseOutlived
<1>8. PurgeFound'
  <2>1. SUFFICES ASSUME ttl' > 0, NEW d \in Callers,
                        pc'[d] \in {"count", "add", "expire"}
                 PROVE  \E e \in Expiring \cup {d} :
                          ttl + since[e] >= LeastLife - LeaseTime + 1
    <3>1. ttl' > 0 => ttl' = ttl
      BY <1>1
    <3>. QED
      BY <1>2, <1>3, <2>1, <3>1 DEF PurgeFound
  <2>2. ttl > 0 /\ kept # {}
    BY <1>1, <2>1
  <2>3. CASE d # c
    BY <1>2, <2>1, <2>2, <2>3 DEF TypeOK, HeldInv, PurgeFound
  <2>4. CASE d = c
    <3>1. PICK l \in kept : TRUE
      BY <2>2
    <3>2. age[l] \in Nat /\ since[c] \in Nat /\ ttl \in Nat /\ age[l] < MaxAge
      BY <1>4, <3>1 DEF TypeOK, MaxAge
    <3>3. CASE \E e \in Expiring : lease[e] = l
      BY <2>2, <3>3 DEF HeldInv, PurgeFound, Expiring
    <3>4. CASE ttl + age[l] >= LeastLife
      BY <1>4, <2>4, <3>1, <3>2, <3>4, LifeType
    <3>. QED
      BY <2>2, <3>1, <3>2, <3>3, <3>4, OlderAge DEF HeldInv, LeaseOutlived
  <2>. QED
    BY <2>3, <2>4
<1>9. YoungLeaseHeld'
  <2>1. SUFFICES ASSUME NEW d \in Callers, pc[d] \in Holding, since[d] < LeaseTime
                 PROVE  lease[d] \in kept
    BY <1>1, <1>2 DEF TypeOK, YoungLeaseHeld, Holding
  <2>2. lease[d] \in Slots /\ age[lease[d]] = since[d]
    BY <2>1 DEF HeldInv, YoungLeaseHeld, OwnLease, Holding
  <2>. QED
    BY <1>4, <2>1, <2>2 DEF TypeOK
<1>. QED
  BY <1>2, <1>5, <1>6, <1>7, <1>8, <1>9 DEF HeldInv

(* The new lease is its caller's alone, and as old as the caller's clock.     *)
LEMMA HeldAdd ==
  ASSUME TypeOK, HeldInv, NEW c \in Callers, Add(c)
  PROVE  HeldInv'
<1>1. PICK l \in Leases \ Slots :
         /\ \A d \in Callers : lease[d] # l
         /\ age' = [m \in Slots \cup {l} |-> IF m = l THEN since[c] ELSE age[m]]
         /\ lease' = [lease EXCEPT ![c] = l]
  BY DEF Add
<1>2. /\ pc[c] = "add" /\ pc' = [pc EXCEPT ![c] = "expire"]
      /\ UNCHANGED <<ttl, since, crashes>>
  BY DEF Add, Goto
<1>3. /\ Slots' = Slots \cup {l} /\ age'[l] = since[c]
      /\ \A m \in Slots : age'[m] = age[m] /\ m # l
      /\ lease'[c] = l /\ \A d \in Callers \ {c} : lease'[d] = lease[d]
  BY <1>1 DEF Slots, TypeOK
<1>4. Expiring' = Expiring \cup {c} /\ c \notin Expiring /\ LeastLife' = LeastLife
  BY <1>2 DEF Expiring, LeastLife, TypeOK
<1>5. StallBound'
  BY <1>2 DEF TypeOK, HeldInv, StallBound, Acquiring
<1>6. OwnLease'
  BY <1>1, <1>2, <1>3 DEF TypeOK, HeldInv, OwnLease
<1>7. LeaseOutlived'
  <2>1. SUFFICES ASSUME ttl > 0, NEW m \in Slots
                 PROVE  \/ \E d \in Expiring' : lease'[d] = m
                        \/ age'[m] = MaxAge \/ ttl + age'[m] >= LeastLife
    BY <1>2, <1>3, <1>4 DEF LeaseOutlived, MaxAge
  <2>2. \/ \E d \in Expiring : lease[d] = m
        \/ age[m] = MaxAge \/ ttl + age[m] >= LeastLife
    BY <2>1 DEF HeldInv, LeaseOutlived
  <2>. QED
    BY <1>3, <1>4, <2>2 DEF Expiring
<1>8. PurgeFound'
  <2>1. \A d \in Callers : pc'[d] \in {"count", "add", "expire"}
          => pc[d] \in {"count", "add", "expire"}
    BY <1>2 DEF TypeOK
  <2>. QED
    BY <1>2, <1>4, <2>1 DEF HeldInv, PurgeFound
<1>9. YoungLeaseHeld'
  BY <1>2, <1>3 DEF TypeOK, HeldInv, YoungLeaseHeld
<1>. QED
  BY <1>2, <1>5, <1>6, <1>7, <1>8, <1>9 DEF HeldInv

(* The key is given its whole life, unless it is gone.                        *)
LEMMA HeldExpire ==
  ASSUME TypeOK, HeldInv, NEW c \in Callers, Expire(c)
  PROVE  HeldInv'
<1>1. /\ pc[c] = "expire" /\ pc' = [pc EXCEPT ![c] = "call"]
      /\ UNCHANGED <<age, lease, since, crashes>>
      /\ ttl' = IF Slots = {} THEN 0 ELSE KeyTime
  BY DEF Expire, Goto
<1>2. Slots' = Slots /\ LeastLife' = LeastLife
  BY <1>1 DEF Slots, LeastLife
<1>3. /\ LeastLife \in Int /\ LeastLife <= KeyTime /\ KeyTime \in Nat
      /\ LeaseTime \in Nat \ {0}
  BY LifeType, SlotsAssumption
<1>4. StallBound'
  BY <1>1 DEF TypeOK, HeldInv, StallBound, Acquiring
<1>5. OwnLease'
  BY <1>1, <1>2 DEF TypeOK, HeldInv, OwnLease
<1>6. LeaseOutlived'
  <2>1. SUFFICES ASSUME ttl' > 0, NEW l \in Slots PROVE ttl' + age[l] >= LeastLife
    BY <1>1, <1>2 DEF LeaseOutlived, MaxAge
  <2>. QED
    BY <1>1, <1>3, <2>1 DEF TypeOK
<1>7. PurgeFound'
  <2>1. SUFFICES ASSUME ttl' > 0, NEW d \in Callers
                 PROVE  ttl' + since[d] >= LeastLife - LeaseTime + 1
    BY <1>1, <1>2 DEF PurgeFound
  <2>. QED
    BY <1>1, <1>3, <2>1 DEF TypeOK
<1>8. YoungLeaseHeld'
  BY <1>1, <1>2 DEF TypeOK, HeldInv, YoungLeaseHeld
<1>. QED
  BY <1>1, <1>4, <1>5, <1>6, <1>7, <1>8 DEF HeldInv

(* zrem takes the caller's own lease, and nobody else's.                      *)
LEMMA HeldRelease ==
  ASSUME TypeOK, HeldInv, NEW c \in Callers, Release(c)
  PROVE  HeldInv'
<1>. DEFINE kept == Slots \ {lease[c]}
<1>1. /\ Slots' = kept /\ \A l \in kept : age'[l] = age[l]
      /\ ttl' = IF kept = {} THEN 0 ELSE ttl
  BY RemainsType DEF Release, Remains
<1>2. /\ pc[c] = "release" /\ pc' = [pc EXCEPT ![c] = "idle"]
      /\ lease' = [lease EXCEPT ![c] = NoLease] /\ since' = [since EXCEPT ![c] = 0]
      /\ crashes' = crashes
  BY DEF Release, Goto
<1>3. /\ Expiring' = Expiring /\ c \notin Expiring /\ LeastLife' = LeastLife
      /\ \A d \in Callers \ {c} :
           lease'[d] = lease[d] /\ since'[d] = since[d] /\ pc'[d] = pc[d]
      /\ lease'[c] = NoLease /\ pc'[c] = "idle"
  BY <1>2 DEF Expiring, LeastLife, TypeOK
<1>4. StallBound'
  BY <1>3 DEF HeldInv, StallBound, Acquiring
<1>5. OwnLease'
  BY <1>1, <1>3 DEF HeldInv, OwnLease
<1>6. LeaseOutlived'
  <2>1. SUFFICES ASSUME ttl' > 0, NEW l \in kept
                 PROVE  \/ \E d \in Expiring : lease'[d] = l
                        \/ age[l] = MaxAge \/ ttl + age[l] >= LeastLife
    BY <1>1, <1>3 DEF LeaseOutlived, MaxAge
  <2>. QED
    BY <1>1, <1>3, <2>1 DEF HeldInv, LeaseOutlived, Expiring
<1>7. PurgeFound'
  <2>1. SUFFICES ASSUME ttl' > 0, NEW d \in Callers \ {c},
                        pc[d] \in {"count", "add", "expire"}
                 PROVE  \E e \in Expiring \cup {d} :
                          ttl + since'[e] >= LeastLife - LeaseTime + 1
    BY <1>1, <1>3 DEF PurgeFound
  <2>. QED
    BY <1>1, <1>3, <2>1 DEF HeldInv, PurgeFound, Expiring
<1>8. YoungLeaseHeld'
  <2>1. SUFFICES ASSUME NEW d \in Callers \ {c}, pc[d] \in Holding, since[d] < LeaseTime
                 PROVE  lease[d] \in kept
    BY <1>1, <1>3 DEF YoungLeaseHeld, Holding
  <2>2. lease[d] \in Slots /\ lease[d] # NoLease
    BY <2>1, SlotsAssumption DEF TypeOK, HeldInv, YoungLeaseHeld, Holding
  <2>. QED
    BY <2>1, <2>2 DEF HeldInv, OwnLease
<1>. QED
  BY <1>2, <1>4, <1>5, <1>6, <1>7, <1>8 DEF HeldInv

(* A caller lost at expire leaves a lease that nobody will renew the key's    *)
(* life for; and it may have been the one another caller had found.           *)
LEMMA HeldLost ==
  ASSUME TypeOK, HeldInv, NEW c \in Callers, Lost(c)
  PROVE  HeldInv'
<1>1. /\ lease' = [lease EXCEPT ![c] = NoLease] /\ since' = [since EXCEPT ![c] = 0]
      /\ pc' = [pc EXCEPT ![c] = "idle"] /\ crashes' = crashes + 1
      /\ crashes < MaxCrashes /\ UNCHANGED <<age, ttl>>
  BY DEF Lost, Goto
<1>2. /\ \A d \in Callers \ {c} :
           lease'[d] = lease[d] /\ since'[d] = since[d] /\ pc'[d] = pc[d]
      /\ lease'[c] = NoLease /\ pc'[c] = "idle" /\ Slots' = Slots
  BY <1>1 DEF TypeOK, Slots
<1>3. Expiring' = Expiring \ {c}
  BY <1>2 DEF Expiring
<1>4. /\ LeastLife \in Int /\ LeaseTime \in Nat \ {0} /\ MaxStall \in Nat
      /\ LeastLife' = LeastLife - (LeaseTime + MaxStall - 1)
  BY <1>1, LifeType, SlotsAssumption
<1>5. \A d \in Expiring : since[d] \in Nat /\ since[d] <= MaxStall
  BY DEF TypeOK, HeldInv, StallBound, Expiring, Acquiring
<1>6. /\ ttl \in Nat /\ \A l \in Slots : age[l] \in Nat
      /\ \A d \in Callers : since[d] \in Nat
      /\ crashes \in Nat /\ MaxCrashes \in Nat
  BY SlotsAssumption DEF TypeOK
(* Whoever is at expire, the key lives this long.                             *)
<1>7. ASSUME ttl > 0, Expiring # {} PROVE ttl >= LeastLife'
  <2>1. PICK d \in Expiring : TRUE
    BY <1>7
  <2>2. PICK e \in Expiring : ttl + since[e] >= LeastLife - LeaseTime + 1
    BY <1>7, <2>1 DEF HeldInv, PurgeFound, Expiring
  <2>. QED
    BY <1>4, <1>5, <1>6, <2>2
<1>8. StallBound'
  BY <1>2 DEF HeldInv, StallBound, Acquiring
<1>9. OwnLease'
  BY <1>1, <1>2 DEF HeldInv, OwnLease
<1>10. LeaseOutlived'
  <2>1. SUFFICES ASSUME ttl > 0, NEW l \in Slots
                 PROVE  \/ \E d \in Expiring' : lease'[d] = l
                        \/ age[l] = MaxAge \/ ttl + age[l] >= LeastLife'
    BY <1>1, <1>2 DEF LeaseOutlived, MaxAge
  <2>2. CASE \E d \in Expiring : lease[d] = l
    BY <1>6, <1>7, <2>1, <2>2, <1>4
  <2>3. CASE ttl + age[l] >= LeastLife
    BY <1>4, <1>6, <2>3
  <2>. QED
    BY <2>1, <2>2, <2>3 DEF HeldInv, LeaseOutlived
<1>11. PurgeFound'
  <2>1. SUFFICES ASSUME ttl > 0, NEW d \in Callers \ {c},
                        pc[d] \in {"count", "add", "expire"}
                 PROVE  ttl + since[d] >= LeastLife' - LeaseTime + 1
    BY <1>1, <1>2 DEF PurgeFound
  <2>2. PICK e \in Expiring \cup {d} : ttl + since[e] >= LeastLife - LeaseTime + 1
    BY <2>1 DEF HeldInv, PurgeFound
  <2>3. CASE e \in Expiring
    BY <1>4, <1>6, <1>7, <2>1, <2>3
  <2>4. CASE e = d
    BY <1>4, <1>6, <2>2, <2>4
  <2>. QED
    BY <2>3, <2>4
<1>12. YoungLeaseHeld'
  BY <1>2 DEF HeldInv, YoungLeaseHeld
<1>13. crashes' <= MaxCrashes
  BY <1>1, <1>6
<1>. QED
  BY <1>8, <1>9, <1>10, <1>11, <1>12, <1>13 DEF HeldInv

(* The key is not dropped under a young lease: either the key's life has been *)
(* renewed since, or its caller, being at expire, has not stalled that long.  *)
LEMMA DroppedIsOld ==
  ASSUME TypeOK, HeldInv, KeyOutlives, ttl = 1, Tick,
         NEW c \in Callers, pc[c] \in Holding, since[c] < LeaseTime
  PROVE  Older(since[c]) >= LeaseTime
<1>. DEFINE l == lease[c]
<1>1. l \in Slots /\ age[l] = since[c] /\ since[c] \in Nat
  BY DEF TypeOK, HeldInv, YoungLeaseHeld, OwnLease, Holding
<1>2. /\ LeastLife \in Int /\ LeastLife >= LeaseTime + MaxStall
      /\ LeaseTime \in Nat \ {0} /\ MaxStall \in Nat
  BY LifeType, LifeEnough, SlotsAssumption DEF HeldInv
<1>3. ASSUME NEW d \in Expiring, lease[d] = l PROVE FALSE
  <2>1. PICK e \in Expiring : ttl + since[e] >= LeastLife - LeaseTime + 1
    BY <1>3 DEF HeldInv, PurgeFound, Expiring
  <2>2. since[e] < MaxStall /\ since[e] \in Nat
    BY DEF Tick, TypeOK, Expiring, Acquiring
  <2>. QED
    BY <1>2, <2>1, <2>2
<1>4. CASE age[l] = MaxAge
  BY <1>1, <1>2, <1>4, OlderAge
<1>5. CASE ttl + age[l] >= LeastLife
  BY <1>1, <1>2, <1>5, OlderAge
<1>. QED
  BY <1>1, <1>3, <1>4, <1>5 DEF HeldInv, LeaseOutlived

(* Time passes for the key, the leases and their callers alike.               *)
LEMMA HeldTick ==
  ASSUME TypeOK, HeldInv, KeyOutlives, Tick
  PROVE  HeldInv'
<1>1. /\ \A c \in Callers : pc[c] \in Acquiring => since[c] < MaxStall
      /\ age' = IF ttl = 1 THEN <<>> ELSE [l \in Slots |-> Older(age[l])]
      /\ ttl' = IF ttl = 0 THEN 0 ELSE ttl - 1
      /\ since' = [c \in Callers |->
                     IF pc[c] \in {"idle", "poll"} THEN 0 ELSE Older(since[c])]
      /\ UNCHANGED <<pc, lease, crashes>>
  BY DEF Tick
<1>2. Expiring' = Expiring /\ LeastLife' = LeastLife
  BY <1>1 DEF Expiring, LeastLife
<1>3. /\ ttl \in Nat /\ \A l \in Slots : age[l] \in Nat
      /\ \A c \in Callers : since[c] \in Nat
      /\ LeaseTime \in Nat \ {0} /\ MaxStall \in Nat /\ LeastLife \in Int
  BY LifeType, SlotsAssumption DEF TypeOK
<1>4. \A c \in Callers : pc[c] \in Acquiring => since'[c] = since[c] + 1
  BY <1>1, <1>3, OlderAge DEF Acquiring
<1>5. StallBound'
  BY <1>1, <1>3, <1>4 DEF StallBound
<1>6. PurgeFound'
  <2>1. SUFFICES ASSUME ttl' > 0, NEW c \in Callers,
                        pc[c] \in {"count", "add", "expire"}
                 PROVE  \E d \in Expiring \cup {c} :
                          ttl' + since'[d] >= LeastLife - LeaseTime + 1
    BY <1>1, <1>2 DEF PurgeFound
  <2>2. PICK d \in Expiring \cup {c} : ttl + since[d] >= LeastLife - LeaseTime + 1
    BY <1>1, <1>3, <2>1 DEF HeldInv, PurgeFound
  <2>3. d \in Callers /\ pc[d] \in {"count", "add", "expire"}
    BY <2>1, <2>2 DEF Expiring
  <2>4. since'[d] = since[d] + 1 /\ since[d] \in Nat /\ ttl' = ttl - 1
    BY <1>1, <1>3, <1>4, <2>1, <2>3 DEF Acquiring
  <2>. QED
    BY <1>3, <2>2, <2>4
<1>7. CASE ttl = 1
  <2>1. Slots' = {} /\ ttl' = 0
    BY <1>1, <1>7 DEF Slots
  <2>2. OwnLease' /\ LeaseOutlived'
    BY <1>1, <2>1 DEF HeldInv, OwnLease, LeaseOutlived
  <2>3. YoungLeaseHeld'
    <3>1. SUFFICES ASSUME NEW c \in Callers, pc[c] \in Holding, since'[c] < LeaseTime
                   PROVE  FALSE
      BY <1>1 DEF YoungLeaseHeld, Holding
    <3>2. since'[c] = Older(since[c]) /\ since[c] \in Nat
      BY <1>1, <1>3, <3>1 DEF Holding
    <3>3. since[c] < LeaseTime
      BY <1>3, <3>1, <3>2 DEF Older, MaxAge
    <3>. QED
      BY <1>3, <1>7, <3>1, <3>2, <3>3, DroppedIsOld, OlderType
  <2>. QED
    BY <1>1, <1>5, <1>6, <2>2, <2>3 DEF HeldInv
<1>8. CASE ttl # 1
  <2>1. Slots' = Slots /\ \A l \in Slots : age'[l] = Older(age[l])
    BY <1>1, <1>8 DEF Slots
  <2>2. OwnLease'
    BY <1>1, <2>1 DEF HeldInv, OwnLease
  <2>3. LeaseOutlived'
    <3>1. SUFFICES ASSUME ttl' > 0, NEW l \in Slots
                   PROVE  \/ \E d \in Expiring : lease[d] = l
                          \/ Older(age[l]) = MaxAge
                          \/ ttl' + Older(age[l]) >= LeastLife
      BY <1>1, <1>2, <2>1 DEF LeaseOutlived, MaxAge
    <3>2. ttl > 0 /\ ttl' = ttl - 1
      BY <1>1, <1>3, <3>1
    <3>3. CASE age[l] = MaxAge
      BY <1>3, <3>3, OlderAge
    <3>4. CASE ttl + age[l] >= LeastLife
      <4>1. Older(age[l]) = MaxAge \/ Older(age[l]) = age[l] + 1
        BY DEF Older
      <4>. QED
        BY <1>3, <3>2, <3>4, <4>1
    <3>. QED
      BY <3>2, <3>3, <3>4 DEF HeldInv, LeaseOutlived
  <2>4. YoungLeaseHeld'
    <3>1. SUFFICES ASSUME NEW c \in Callers, pc[c] \in Holding, since'[c] < LeaseTime
                   PROVE  lease[c] \in Slots
      BY <1>1, <2>1 DEF YoungLeaseHeld, Holding
    <3>2. since'[c] = Older(since[c]) /\ since[c] \in Nat
      BY <1>1, <1>3, <3>1 DEF Holding
    <3>3. since[c] < LeaseTime
      BY <1>3, <3>1, <3>2 DEF Older, MaxAge
    <3>. QED
      BY <3>1, <3>3 DEF HeldInv, YoungLeaseHeld, Holding
  <2>. QED
    BY <1>1, <1>5, <1>6, <2>2, <2>3, <2>4 DEF HeldInv
<1>. QED
  BY <1>7, <1>8

LEMMA HeldNext ==
  ASSUME TypeOK, HeldInv, KeyOutlives, [Next]_vars
  PROVE  HeldInv'
<1>1. ASSUME NEW c \in Callers, Want(c) \/ ReadClock(c) \/ Count(c) \/ Return(c)
      PROVE  HeldInv'
  <2>1. UNCHANGED <<age, ttl, lease, crashes>> /\ pc' = [pc EXCEPT ![c] = pc'[c]]
    BY <1>1 DEF Want, ReadClock, Count, Return, Goto, TypeOK
  <2>2. \/ pc[c] = "idle" /\ pc'[c] = "poll" /\ since' = since
        \/ pc[c] = "poll" /\ pc'[c] = "purge" /\ since' = [since EXCEPT ![c] = 0]
        \/ pc[c] = "count" /\ pc'[c] \in {"poll", "add"} /\ since' = since
        \/ pc[c] = "call" /\ pc'[c] = "release" /\ since' = since
    BY <1>1 DEF Want, ReadClock, Count, Return, Goto, TypeOK
  <2>. QED
    BY <2>1, <2>2, HeldQuiet
<1>2. ASSUME UNCHANGED vars PROVE HeldInv'
  BY <1>2 DEF vars, HeldInv, StallBound, OwnLease, LeaseOutlived, PurgeFound,
     YoungLeaseHeld, Slots, Expiring, LeastLife
<1>. QED
  BY <1>1, <1>2, HeldPurge, HeldAdd, HeldExpire, HeldRelease, HeldLost, HeldTick
     DEF Next, Caller

(* acquire_llm_slot's purge and expire never take the lease of a call that is *)
(* younger than 120 s, provided the key's 300 s outlive a lease once more for *)
(* every caller that is lost between zadd and expire.                         *)
THEOREM YoungLeasesHeld == KeyOutlives => (Spec => []YoungLeaseHeld)
<1>1. ASSUME KeyOutlives PROVE HeldInv /\ TypeOK /\ [Next]_vars => HeldInv'
  BY <1>1, HeldNext
<1>2. HeldInv => YoungLeaseHeld
  BY DEF HeldInv
<1>3. CASE KeyOutlives
  <2>1. HeldInv /\ TypeOK /\ [Next]_vars => HeldInv'
    BY <1>1, <1>3
  <2>. QED
    BY <2>1, <1>2, HeldInit, TypeCorrect, PTL DEF Spec
<1>. QED
  BY <1>3

=============================================================================
