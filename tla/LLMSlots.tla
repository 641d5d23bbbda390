------------------------------ MODULE LLMSlots ------------------------------
(* The semaphore that limits the model calls of one organisation: the sorted  *)
(* set llm_slots:<org> in Redis, acquire_llm_slot and release_llm_slot        *)
(* (redis_client.py), and the loop around them with which the extractors of   *)
(* the ingestion pipeline take a slot for every chunk.                        *)
(*                                                                            *)
(* Every Redis command is atomic, the commands of one caller are not.  Time   *)
(* passes in ticks.  The score of a lease is kept as its age, the reading of  *)
(* the clock a caller made as the ticks since, so that no clock need grow.    *)
EXTENDS Integers, FiniteSets

CONSTANTS
    Callers,     \* extractor coroutines that want a slot
    Leases,      \* lease ids (uuid4)
    NoLease,     \* no id
    MaxSlots,    \* max_slots, 5 in the code
    LeaseTime,   \* ticks in the 120 s after which a lease is purged
    KeyTime,     \* ticks in the 300 s after which Redis drops the whole key
    MaxStall,    \* bound: ticks one acquire_llm_slot takes
    MaxCrashes   \* bound: callers lost with their worker process

ASSUME SlotsAssumption ==
    /\ NoLease \notin Leases
    /\ IsFiniteSet(Callers)
    /\ MaxSlots \in Nat \ {0}
    /\ LeaseTime \in Nat \ {0}
    /\ MaxStall \in Nat
    /\ MaxCrashes \in Nat
    /\ KeyTime \in Nat \ {0}

VARIABLES
    age,      \* the sorted set: ticks since the score of each member
    ttl,      \* ticks the key has left, 0 when it has no time to live
    pc,       \* the next Redis command of each caller
    lease,    \* the caller's lease_id
    since,    \* ticks since the caller read the clock for its last attempt
    crashes   \* used part of the budget

vars == <<age, ttl, pc, lease, since, crashes>>

Steps == {"idle", "poll", "purge", "count", "add", "expire", "call", "release"}

(* Inside acquire_llm_slot, the clock read.                                   *)
Acquiring == {"purge", "count", "add", "expire"}

(* In the extractor's loop, without a slot yet.                               *)
Waiting(c) == pc[c] \in {"poll", "purge", "count"}

Slots == DOMAIN age

(* An age beyond this makes no difference to any comparison.                  *)
MaxAge == LeaseTime + MaxStall

Older(n) == IF n < MaxAge THEN n + 1 ELSE MaxAge

Init ==
    /\ age = <<>>
    /\ ttl = 0
    /\ pc = [c \in Callers |-> "idle"]
    /\ lease = [c \in Callers |-> NoLease]
    /\ since = [c \in Callers |-> 0]
    /\ crashes = 0

Goto(c, s) == pc' = [pc EXCEPT ![c] = s]

(* Redis deletes an empty sorted set, and its time to live with it.           *)
Remains(set) ==
    /\ age' = [l \in set |-> age[l]]
    /\ ttl' = IF set = {} THEN 0 ELSE ttl

-----------------------------------------------------------------------------
(* One chunk wants the model.                                                 *)
Want(c) ==
    /\ pc[c] = "idle"
    /\ Goto(c, "poll")
    /\ UNCHANGED <<age, ttl, lease, since, crashes>>

(* acquire_llm_slot reads the clock.                                          *)
ReadClock(c) ==
    /\ pc[c] = "poll"
    /\ since' = [since EXCEPT ![c] = 0]
    /\ Goto(c, "purge")
    /\ UNCHANGED <<age, ttl, lease, crashes>>

(* Mutant: expired leases are never removed.                                  *)
PurgeBug(c) ==
    /\ pc[c] = "purge"
    /\ Goto(c, "count")
    /\ UNCHANGED <<age, ttl, lease, since, crashes>>

(* zremrangebyscore(key, 0, now - 120), by the caller's reading of the clock. *)
Purge(c) ==
    /\ pc[c] = "purge"
    /\ Remains({l \in Slots : age[l] < since[c] + LeaseTime})
    /\ Goto(c, "count")
    /\ UNCHANGED <<lease, since, crashes>>

(* Mutant: the comparison is off by one.                                      *)
CountBug(c) ==
    /\ pc[c] = "count"
    /\ Goto(c, IF Cardinality(Slots) > MaxSlots THEN "poll" ELSE "add")
    /\ UNCHANGED <<age, ttl, lease, since, crashes>>

(* zcard: full means None, and the extractor sleeps half a second.            *)
Count(c) ==
    /\ pc[c] = "count"
    /\ Goto(c, IF Cardinality(Slots) >= MaxSlots THEN "poll" ELSE "add")
    /\ UNCHANGED <<age, ttl, lease, since, crashes>>

(* zadd of a new lease, scored with the reading of the clock.                 *)
Add(c) ==
    /\ pc[c] = "add"
    /\ \E l \in Leases \ Slots :
         /\ \A d \in Callers : lease[d] # l
         /\ age' = [m \in Slots \cup {l} |-> IF m = l THEN since[c] ELSE age[m]]
         /\ lease' = [lease EXCEPT ![c] = l]
    /\ Goto(c, "expire")
    /\ UNCHANGED <<ttl, since, crashes>>

(* Mutant: the key lives no longer than a lease.                              *)
ExpireBug(c) ==
    /\ pc[c] = "expire"
    /\ ttl' = IF Slots = {} THEN 0 ELSE LeaseTime - 1
    /\ Goto(c, "call")
    /\ UNCHANGED <<age, lease, since, crashes>>

(* expire(key, 300); a key that is gone stays gone.                           *)
Expire(c) ==
    /\ pc[c] = "expire"
    /\ ttl' = IF Slots = {} THEN 0 ELSE KeyTime
    /\ Goto(c, "call")
    /\ UNCHANGED <<age, lease, since, crashes>>

(* The model answers, or the call raises: the finally clause releases.        *)
Return(c) ==
    /\ pc[c] = "call"
    /\ Goto(c, "release")
    /\ UNCHANGED <<age, ttl, lease, since, crashes>>

(* zrem of the caller's own lease.                                            *)
Release(c) ==
    /\ pc[c] = "release"
    /\ Remains(Slots \ {lease[c]})
    /\ lease' = [lease EXCEPT ![c] = NoLease]
    /\ since' = [since EXCEPT ![c] = 0]
    /\ Goto(c, "idle")
    /\ UNCHANGED crashes

(* The worker process dies and the lease stays behind.  An exception of zadd  *)
(* or expire does the same: the extractor never learns the lease_id.          *)
Lost(c) ==
    /\ pc[c] # "idle"
    /\ crashes < MaxCrashes
    /\ crashes' = crashes + 1
    /\ lease' = [lease EXCEPT ![c] = NoLease]
    /\ since' = [since EXCEPT ![c] = 0]
    /\ Goto(c, "idle")
    /\ UNCHANGED <<age, ttl>>

(* Time passes for everybody; Redis drops the key whose time is up.           *)
Tick ==
    /\ \A c \in Callers : pc[c] \in Acquiring => since[c] < MaxStall
    /\ age' = IF ttl = 1 THEN <<>> ELSE [l \in Slots |-> Older(age[l])]
    /\ ttl' = IF ttl = 0 THEN 0 ELSE ttl - 1
    /\ since' = [c \in Callers |->
                   IF pc[c] \in {"idle", "poll"} THEN 0 ELSE Older(since[c])]
    /\ UNCHANGED <<pc, lease, crashes>>

Caller(c) ==
    \/ ReadClock(c) \/ Purge(c) \/ Count(c) \/ Add(c) \/ Expire(c)
    \/ Return(c) \/ Release(c)

Next ==
    \/ \E c \in Callers : Want(c) \/ Caller(c) \/ Lost(c)
    \/ Tick

Spec == Init /\ [][Next]_vars

(* The coroutines run on, the model answers or times out, time passes.        *)
Fairness == WF_vars(Tick) /\ \A c \in Callers : WF_vars(Caller(c))

FairSpec == Spec /\ Fairness

-----------------------------------------------------------------------------
(* Properties.                                                                *)

(* Every variable has its type.                                               *)
TypeOK ==
    /\ Slots \subseteq Leases /\ age \in [Slots -> Nat]
    /\ ttl \in Nat
    /\ pc \in [Callers -> Steps]
    /\ lease \in [Callers -> Leases \cup {NoLease}]
    /\ since \in [Callers -> Nat]
    /\ crashes \in Nat

(* zcard and zadd are two commands: n concurrent callers exceed the limit,    *)
(* by n - 1 at most, whatever leases are leaked, purged or dropped meanwhile. *)
SlotBound == Cardinality(Slots) <= MaxSlots - 1 + Cardinality(Callers)

(* A lease is not taken away early: neither a purge with another caller's     *)
(* clock nor the expiry of the whole key ends the lease of a call younger     *)
(* than LeaseTime, although the key's time to live is set in a command of its *)
(* own that a lost caller never sends.  So it is as long as the key outlives  *)
(* its leases (KeyOutlives, below): with 300 s against 120 s for one caller   *)
(* lost between zadd and expire, not for two.                                 *)
YoungLeaseHeld ==
    \A c \in Callers :
       pc[c] \in {"expire", "call", "release"} /\ since[c] < LeaseTime
         => lease[c] \in Slots

(* Slots leaked by lost callers come back: it is not possible that somebody   *)
(* waits for a slot for ever while nobody calls the model.                    *)
SlotsComeBack ==
    (\E c \in Callers : Waiting(c))
      ~> (\E c \in Callers : pc[c] = "call") \/ (\A c \in Callers : ~Waiting(c))

-----------------------------------------------------------------------------
(* Strengthening of SlotBound: callers that have seen a free slot count too.  *)
Adding == {c \in Callers : pc[c] = "add"}

SlotInv ==
    Cardinality(Slots) + Cardinality(Adding)
      <= MaxSlots - 1 + Cardinality(Callers)

-----------------------------------------------------------------------------
(* Strengthening of YoungLeaseHeld.                                           *)

(* The key outlives a lease, once more for every caller that may be lost      *)
(* between zadd and expire: 300 s against 120 s allow for one.                *)
KeyOutlives ==
    KeyTime >= LeaseTime + MaxStall + MaxCrashes * (LeaseTime + MaxStall - 1)

(* What a key still lives when a lease of age 0 is added to it, at least.     *)
LeastLife == KeyTime - crashes * (LeaseTime + MaxStall - 1)

Expiring == {c \in Callers : pc[c] = "expire"}

(* A caller inside acquire_llm_slot has not stalled longer than MaxStall.     *)
StallBound == \A c \in Callers : pc[c] \in Acquiring => since[c] <= MaxStall

(* Nobody holds another's lease, and a lease is as old as its caller's clock. *)
OwnLease ==
    \A c \in Callers :
       /\ \A d \in Callers \ {c} : lease[c] = lease[d] => lease[c] = NoLease
       /\ pc[c] \in {"expire", "call", "release"} /\ lease[c] \in Slots
            => age[lease[c]] = since[c]

(* A lease that is not about to renew the key's life was added, or has        *)
(* renewed it, when the key had LeastLife before it.                          *)
LeaseOutlived ==
    ttl > 0 => \A l \in Slots :
       \/ \E c \in Expiring : lease[c] = l
       \/ age[l] = MaxAge
       \/ ttl + age[l] >= LeastLife

(* Whoever has purged found such a lease, no older than LeaseTime, or one     *)
(* whose caller is about to renew the key's life and has found one.           *)
PurgeFound ==
    ttl > 0 => \A c \in Callers : pc[c] \in {"count", "add", "expire"} =>
       \E d \in Expiring \cup {c} : ttl + since[d] >= LeastLife - LeaseTime + 1

HeldInv ==
    /\ crashes <= MaxCrashes
    /\ StallBound /\ OwnLease /\ LeaseOutlived /\ PurgeFound /\ YoungLeaseHeld

=============================================================================
