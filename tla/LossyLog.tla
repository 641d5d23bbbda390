------------------------------ MODULE LossyLog ------------------------------
(* What the audit log promises to the code that emits events: it holds a      *)
(* bounded number of them, it may lose any, but it stores none twice, and     *)
(* none before an older event of its kind is stored or given up.              *)
EXTENDS Naturals, FiniteSets

CONSTANTS
    MaxEvents,   \* bound: events ever emitted
    Capacity     \* events held at once

VARIABLES
    emitted,     \* how many events there were, which number them
    kind,        \* kind[e]: "audit" or "debug"
    pending,     \* the events held
    stored, lost

vars == <<emitted, kind, pending, stored, lost>>

Kinds == {"audit", "debug"}

Init ==
    /\ emitted = 0
    /\ kind = [e \in 1..MaxEvents |-> "none"]
    /\ pending = {} /\ stored = {} /\ lost = {}

Emit(k) ==
    LET e == emitted + 1 IN
    /\ emitted < MaxEvents
    /\ emitted' = e
    /\ kind' = [kind EXCEPT ![e] = k]
    /\ \/ /\ Cardinality(pending) < Capacity
          /\ pending' = pending \cup {e}
          /\ UNCHANGED lost
       \/ /\ lost' = lost \cup {e}
          /\ UNCHANGED pending
    /\ UNCHANGED stored

(* The events of T are settled: some stored, the others lost.                 *)
Settle(T, S) ==
    /\ S \subseteq T
    /\ \A e \in T, f \in pending : f < e /\ kind[f] = kind[e] => f \in T
    /\ pending' = pending \ T
    /\ stored' = stored \cup S
    /\ lost' = lost \cup (T \ S)
    /\ UNCHANGED <<emitted, kind>>

Next ==
    \/ \E k \in Kinds : Emit(k)
    \/ \E T \in SUBSET pending : \E S \in SUBSET T : Settle(T, S)

Spec == Init /\ [][Next]_vars
=============================================================================
