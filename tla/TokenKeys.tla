----------------------------- MODULE TokenKeys -----------------------------
(* The signing keys of Supabase that a web process caches for an hour to      *)
(* verify tokens with (dependencies.py).  Requests refresh the cache          *)
(* concurrently, each fetching in a thread of its own, and every one verifies *)
(* with what the cache holds when its own await is over.                      *)
EXTENDS Naturals, FiniteSets

CONSTANTS
    Requests,
    TTL,         \* _JWKS_TTL_SECONDS, in units of the timeout of a fetch
    MaxRotations \* bound: changes of the signing key

ASSUME TokenKeysAssumption == TTL \in Nat /\ MaxRotations \in Nat

VARIABLES
    signing,     \* the key Supabase signs with; the set it publishes is {signing}
    published,   \* history: how long it has published it
    cache,       \* the cached key, 0 if none
    age,         \* since _supabase_jwks_fetched_at
    check        \* check[r]: the verification of one token

keyVars == <<signing, published, cache, age, check>>

NoCheck == [at |-> "idle", kid |-> 0, got |-> 0, took |-> 0, verdict |-> "none"]

\* No clock runs beyond what is compared with it.
Old == TTL + 3
Tick(n) == IF n < Old THEN n + 1 ELSE n

KeysInit ==
    /\ signing = 1 /\ published = 0
    /\ cache = 0 /\ age = 0
    /\ check = [r \in Requests |-> NoCheck]

(* Mutant: a cache of any age will do.                                        *)
FreshBug == cache # 0

(* cache is not None and now - fetched_at <= TTL.                             *)
Fresh == cache # 0 /\ age <= TTL

(* A request with a token that is signed with the current key.                *)
Verify(r) ==
    /\ check[r] = NoCheck
    /\ check' = [check EXCEPT ![r] = [NoCheck EXCEPT
                    !.at = IF Fresh THEN "look" ELSE "fetch", !.kid = signing]]
    /\ UNCHANGED <<signing, published, cache, age>>

(* Supabase answers the thread of r; the event loop has not resumed r yet.    *)
Fetched(r) ==
    /\ check[r].at = "fetch"
    /\ check' = [check EXCEPT ![r].at = "store", ![r].got = signing]
    /\ UNCHANGED <<signing, published, cache, age>>

(* Timeout or error: 503, whatever the cache still holds.                     *)
FetchFails(r) ==
    /\ check[r].at = "fetch"
    /\ check' = [check EXCEPT ![r].at = "done", ![r].verdict = "unavailable"]
    /\ UNCHANGED <<signing, published, cache, age>>

(* The slower answer of two wins, even if it is the older one.                *)
Store(r) ==
    /\ check[r].at = "store"
    /\ cache' = check[r].got
    /\ age' = 0
    /\ check' = [check EXCEPT ![r].at = "look"]
    /\ UNCHANGED <<signing, published>>

(* No key of that id in the cache: 401, and no refresh.                       *)
Look(r) ==
    /\ check[r].at = "look"
    /\ check' = [check EXCEPT ![r].at = "done",
                    ![r].verdict = IF cache = check[r].kid THEN "accepted" ELSE "refused"]
    /\ UNCHANGED <<signing, published, cache, age>>

Forget(r) ==
    /\ check[r].at = "done"
    /\ check' = [check EXCEPT ![r] = NoCheck]
    /\ UNCHANGED <<signing, published, cache, age>>

Rotate ==
    /\ signing < MaxRotations + 1
    /\ signing' = signing + 1
    /\ published' = 0
    /\ UNCHANGED <<cache, age, check>>

(* A fetch and the way of its answer to the request take one unit at most;    *)
(* all else takes no time to speak of.                                        *)
Waiting == {r \in Requests : check[r].at \in {"fetch", "store"}}
TimePasses ==
    /\ \A r \in Requests : check[r] = NoCheck \/ (r \in Waiting /\ check[r].took = 0)
    /\ published' = Tick(published)
    /\ age' = Tick(age)
    /\ check' = [r \in Requests |-> IF r \in Waiting THEN [check[r] EXCEPT !.took = 1]
                                    ELSE check[r]]
    /\ UNCHANGED <<signing, cache>>

KeysNext ==
    \/ \E r \in Requests :
        Verify(r) \/ Fetched(r) \/ FetchFails(r) \/ Store(r) \/ Look(r) \/ Forget(r)
    \/ Rotate \/ TimePasses

KeysSpec == KeysInit /\ [][KeysNext]_keyVars

-----------------------------------------------------------------------------
(* Properties.                                                                *)

Checks ==
    [at : {"idle", "fetch", "store", "look", "done"}, kid : Nat, got : Nat,
     took : {0, 1}, verdict : {"none", "unavailable", "accepted", "refused"}]

(* Every variable has its type.                                               *)
KeysTypeOK ==
    /\ signing \in Nat \ {0} /\ cache \in Nat
    /\ published \in 0..Old /\ age \in 0..Old
    /\ check \in [Requests -> Checks]

(* However refreshes overtake each other, a good token is refused only in the *)
(* TTL after the keys changed: a process never sticks to an old key.          *)
RefusedOnlyAfterRotation ==
    \A r \in Requests :
        check[r].verdict = "refused" => check[r].kid # signing \/ published <= TTL + 1

-----------------------------------------------------------------------------
(* Strengthening of RefusedOnlyAfterRotation.                                 *)

(* An old key in the cache was stored within a unit of the rotation, so it is *)
(* not much younger than that; one in hand is no older than its fetch.        *)
StaleIsYoung ==
    /\ cache \notin {0, signing} => published <= age + 1
    /\ \A r \in Requests :
         check[r].at = "store" /\ check[r].got # signing => published <= check[r].took

(* No token is signed with a key to come, and one about to be looked for is   *)
(* looked for in good time.                                                   *)
LooksInTime ==
    \A r \in Requests :
        /\ check[r].kid <= signing
        /\ check[r].at = "look" /\ check[r].kid = signing
             => cache = signing \/ published <= TTL + 1

(* A verdict stands as long as its request, which takes no time.              *)
VerdictStands ==
    \A r \in Requests : check[r].verdict = "refused" => check[r].at = "done"

KeysInv == StaleIsYoung /\ LooksInTime /\ VerdictStands /\ RefusedOnlyAfterRotation
=============================================================================
