----------------------------- MODULE Parts_proofs -----------------------------
(* Proofs about the parts that stand alone, one after the other: sessions,    *)
(* signing keys, reports, the vector index and the searches in it, the dates  *)
(* of deadlines, the chunks of a section and the clause paths they go under.  *)
(* Each is for its own specification and any values of the constants.         *)
EXTENDS Sessions, Research, TokenKeys, Reports, DeadlineDates, Chunker,
        SequenceTheorems, FiniteSetTheorems, WellFoundedInduction, TLAPS

-----------------------------------------------------------------------------
(* Sessions: type correctness.                                                *)

LEMMA TypesInit == SessionsInit => SessionsTypeOK
  BY DEF SessionsInit, SessionsTypeOK, NoRow, NoKey, Request

(* The actions that move the row and its requests.                            *)
LEMMA RowTypes ==
  ASSUME SessionsTypeOK, NEW c \in Clients,
         \/ \E D \in Selections : ReadPatch(c, D)
         \/ ReadClose(c) \/ CommitPatch(c) \/ CommitClose(c) \/ RequestLost(c)
  PROVE  SessionsTypeOK'
<1>1. ASSUME NEW D \in Selections, ReadPatch(c, D) PROVE SessionsTypeOK'
  <2>1. [at |-> "patch", read |-> pg.docs, docs |-> D] \in Request
    BY DEF SessionsTypeOK, Request
  <2>. QED
    BY <1>1, <2>1 DEF SessionsTypeOK, ReadPatch
<1>2. CASE ReadClose(c)
  <2>1. [at |-> "close"] \in Request
    BY DEF Request
  <2>. QED
    BY <1>2, <2>1 DEF SessionsTypeOK, ReadClose
<1>3. CASE CommitPatch(c)
  <2>1. req[c].docs \in Selections
    BY <1>3 DEF SessionsTypeOK, CommitPatch, Request, NoRequest
  <2>2. pg' \in [docs : Selections \cup {{}}, open : BOOLEAN, closed : BOOLEAN,
                 idle : BOOLEAN]
    BY <1>3, <2>1 DEF SessionsTypeOK, CommitPatch
  <2>3. req' \in [Clients -> Request]
    BY <1>3 DEF SessionsTypeOK, CommitPatch, Request
  <2>. QED
    BY <1>3, <2>2, <2>3 DEF SessionsTypeOK, CommitPatch
<1>4. CASE CommitClose(c) \/ RequestLost(c)
  <2>1. req' \in [Clients -> Request]
    BY <1>4 DEF SessionsTypeOK, CommitClose, RequestLost, Request
  <2>. QED
    BY <1>4, <2>1 DEF SessionsTypeOK, CommitClose, RequestLost
<1>. QED
  BY <1>1, <1>2, <1>3, <1>4

(* The others.                                                                *)
LEMMA OtherTypes ==
  ASSUME SessionsTypeOK,
         \/ \E D \in Selections : CreateWorkspaceSession(D) \/ CreateSession(D)
         \/ QuarterPasses \/ ArchiveStaleSessions
         \/ \E kind \in {"pg", "redis"} : UseSession(kind)
         \/ CreateExpire \/ CreatorLost \/ SessionExpires
         \/ UNCHANGED sessionVars
  PROVE  SessionsTypeOK'
<1>1. ASSUME NEW D \in Selections, CreateSession(D) PROVE SessionsTypeOK'
  BY <1>1 DEF SessionsTypeOK, CreateSession
<1>6. ASSUME NEW D \in Selections, CreateWorkspaceSession(D) PROVE SessionsTypeOK'
  BY <1>6 DEF SessionsTypeOK, CreateWorkspaceSession, NoRow
<1>2. CASE QuarterPasses \/ ArchiveStaleSessions
  BY <1>2 DEF SessionsTypeOK, QuarterPasses, ArchiveStaleSessions
<1>3. ASSUME NEW kind \in {"pg", "redis"}, UseSession(kind) PROVE SessionsTypeOK'
  BY <1>3 DEF SessionsTypeOK, UseSession, Refreshed
<1>4. CASE CreateExpire
  BY <1>4 DEF SessionsTypeOK, CreateExpire
<1>5. CASE CreatorLost \/ SessionExpires \/ UNCHANGED sessionVars
  BY <1>5 DEF SessionsTypeOK, CreatorLost, SessionExpires, NoKey, sessionVars
<1>. QED
  BY <1>1, <1>2, <1>3, <1>4, <1>5, <1>6

LEMMA TypesNext == SessionsTypeOK /\ [SessionsNext]_sessionVars => SessionsTypeOK'
  BY RowTypes, OtherTypes DEF SessionsNext

(* Every variable of the sessions keeps its type.                             *)
THEOREM SessionsTypes == SessionsSpec => []SessionsTypeOK
  BY TypesInit, TypesNext, PTL DEF SessionsSpec

-----------------------------------------------------------------------------
(* A closed session stays closed (closed_at): no handler writes the column    *)
(* but to set it, and a new row is made only where there is none.             *)

LEMMA ClosedHasRow ==
  (pg.closed => pg # NoRow)
  BY DEF NoRow

LEMMA ClosedStep ==
  ASSUME SessionsTypeOK, [SessionsNext]_sessionVars, pg.closed
  PROVE  pg'.closed
<1>1. ASSUME NEW D \in Selections, CreateWorkspaceSession(D) PROVE FALSE
  BY <1>1, ClosedHasRow DEF CreateWorkspaceSession
<1>2. ASSUME NEW c \in Clients, CommitPatch(c) \/ CommitClose(c) PROVE pg'.closed
  BY <1>2 DEF CommitPatch, CommitClose, SessionsTypeOK
<1>3. CASE QuarterPasses \/ ArchiveStaleSessions
  BY <1>3 DEF QuarterPasses, ArchiveStaleSessions, SessionsTypeOK
<1>4. ASSUME pg' = pg PROVE pg'.closed
  BY <1>4
<1>5. ASSUME NEW c \in Clients, NEW D \in Selections,
             ReadPatch(c, D) \/ ReadClose(c) \/ RequestLost(c)
      PROVE  pg' = pg
  BY <1>5 DEF ReadPatch, ReadClose, RequestLost
<1>6. ASSUME NEW D \in Selections, CreateSession(D) PROVE pg' = pg
  BY <1>6 DEF CreateSession
<1>7. ASSUME NEW kind \in {"pg", "redis"}, UseSession(kind) PROVE pg' = pg
  BY <1>7 DEF UseSession
<1>8. ASSUME CreateExpire \/ CreatorLost \/ SessionExpires \/ UNCHANGED sessionVars
      PROVE  pg' = pg
  BY <1>8 DEF CreateExpire, CreatorLost, SessionExpires, sessionVars
<1>9. ASSUME NEW c \in Clients, ReadClose(c) \/ RequestLost(c) PROVE pg' = pg
  BY <1>9 DEF ReadClose, RequestLost
<1>. QED
  BY <1>1, <1>2, <1>3, <1>4, <1>5, <1>6, <1>7, <1>8, <1>9 DEF SessionsNext

(* No sequence of requests, however they overlap, opens a closed session.     *)
THEOREM ClosedForGood == SessionsSpec => ClosedStays
<1>1. SessionsTypeOK /\ [SessionsNext]_sessionVars
        => [pg.closed => pg'.closed]_sessionVars
  BY ClosedStep
<1>. QED
  BY <1>1, SessionsTypes, PTL DEF SessionsSpec, ClosedStays

-----------------------------------------------------------------------------
(* A key without an expiry: by induction, its creator is still between hset   *)
(* and expire, or was lost there.                                             *)

LEMMA ExpiresStep ==
  ASSUME SessionsTypeOK, KeyExpires, [SessionsNext]_sessionVars
  PROVE  KeyExpires'
<1>1. ASSUME NEW D \in Selections, CreateSession(D) PROVE KeyExpires'
  BY <1>1 DEF CreateSession, KeyExpires
<1>2. CASE CreateExpire
  <2>1. redis'.ttl # "none"
    BY <1>2 DEF CreateExpire, SessionsTypeOK
  <2>. QED
    BY <2>1 DEF KeyExpires
<1>3. CASE CreatorLost
  BY <1>3 DEF CreatorLost, KeyExpires
<1>4. ASSUME NEW kind \in {"pg", "redis"}, UseSession(kind) PROVE KeyExpires'
  BY <1>4 DEF UseSession, Refreshed, KeyExpires, SessionsTypeOK
<1>5. CASE SessionExpires
  BY <1>5 DEF SessionExpires, NoKey, KeyExpires
<1>6. CASE UNCHANGED <<redis, creator>>
  BY <1>6 DEF KeyExpires
<1>7. ASSUME NEW c \in Clients, NEW D \in Selections,
             ReadPatch(c, D) \/ CreateWorkspaceSession(D)
      PROVE  UNCHANGED <<redis, creator>>
  BY <1>7 DEF ReadPatch, CreateWorkspaceSession
<1>8. ASSUME NEW c \in Clients,
             ReadClose(c) \/ CommitPatch(c) \/ CommitClose(c) \/ RequestLost(c)
      PROVE  UNCHANGED <<redis, creator>>
  BY <1>8 DEF ReadClose, CommitPatch, CommitClose, RequestLost
<1>9. ASSUME \/ QuarterPasses \/ ArchiveStaleSessions
             \/ \E D \in Selections : CreateWorkspaceSession(D)
             \/ UNCHANGED sessionVars
      PROVE  UNCHANGED <<redis, creator>>
  BY <1>9 DEF QuarterPasses, ArchiveStaleSessions, CreateWorkspaceSession, sessionVars
<1>. QED
  BY <1>1, <1>2, <1>3, <1>4, <1>5, <1>6, <1>7, <1>8, <1>9 DEF SessionsNext

(* Only a creator that was lost between the two calls leaves a session that   *)
(* never expires, and only until a goal uses it.                              *)
THEOREM KeysExpire == SessionsSpec => []KeyExpires
<1>1. SessionsInit => KeyExpires
  BY DEF SessionsInit, NoKey, KeyExpires
<1>. QED
  BY <1>1, ExpiresStep, SessionsTypes, PTL DEF SessionsSpec

-----------------------------------------------------------------------------
(* TokenKeys: the signing keys.                                               *)

LEMMA KeysTypesInit == KeysInit => KeysTypeOK
  BY TokenKeysAssumption DEF KeysInit, KeysTypeOK, NoCheck, Checks, Old

(* A clock runs up to Old, which nothing it is compared with exceeds.         *)
LEMMA TickUp ==
  ASSUME NEW n \in 0..Old
  PROVE  Tick(n) \in 0..Old /\ n <= Tick(n) /\ Tick(n) <= n + 1
  BY TokenKeysAssumption DEF Tick, Old

LEMMA TickMonotone ==
  ASSUME NEW m \in 0..Old, NEW n \in 0..Old, m <= n + 1
  PROVE  Tick(m) <= Tick(n) + 1
  BY TokenKeysAssumption DEF Tick, Old

(* A step of one request: its record keeps its type, the others keep theirs.  *)
LEMMA CheckTypes ==
  ASSUME KeysTypeOK, NEW r \in Requests,
         \/ Verify(r) \/ Fetched(r) \/ FetchFails(r)
         \/ Store(r) \/ Look(r) \/ Forget(r)
  PROVE  /\ KeysTypeOK'
         /\ \A s \in Requests \ {r} : check'[s] = check[s]
<1>1. check[r] \in Checks /\ signing \in Nat
  BY DEF KeysTypeOK
<1>2. CASE Verify(r)
  BY <1>1, <1>2 DEF Verify, KeysTypeOK, Checks, NoCheck
<1>3. CASE Fetched(r)
  BY <1>1, <1>3 DEF Fetched, KeysTypeOK, Checks
<1>4. CASE FetchFails(r)
  BY <1>1, <1>4 DEF FetchFails, KeysTypeOK, Checks
<1>5. CASE Store(r)
  BY <1>1, <1>5, TokenKeysAssumption DEF Store, KeysTypeOK, Checks, Old
<1>6. CASE Look(r)
  BY <1>1, <1>6 DEF Look, KeysTypeOK, Checks
<1>7. CASE Forget(r)
  BY <1>1, <1>7 DEF Forget, KeysTypeOK, Checks, NoCheck
<1>. QED
  BY <1>2, <1>3, <1>4, <1>5, <1>6, <1>7

LEMMA TimeTypes == KeysTypeOK /\ TimePasses => KeysTypeOK'
<1>. SUFFICES ASSUME KeysTypeOK, TimePasses PROVE KeysTypeOK'
  OBVIOUS
<1>1. check' \in [Requests -> Checks]
  BY DEF TimePasses, KeysTypeOK, Checks
<1>2. published' \in 0..Old /\ age' \in 0..Old
  BY TickUp DEF TimePasses, KeysTypeOK
<1>. QED
  BY <1>1, <1>2 DEF TimePasses, KeysTypeOK

LEMMA KeysTypesNext == KeysTypeOK /\ [KeysNext]_keyVars => KeysTypeOK'
<1>1. KeysTypeOK /\ Rotate => KeysTypeOK'
  BY TokenKeysAssumption DEF Rotate, KeysTypeOK, Old
<1>2. KeysTypeOK /\ UNCHANGED keyVars => KeysTypeOK'
  BY DEF KeysTypeOK, keyVars
<1>. QED
  BY <1>1, <1>2, CheckTypes, TimeTypes DEF KeysNext

(* Every variable of the key cache keeps its type.                            *)
THEOREM KeysTypes == KeysSpec => []KeysTypeOK
  BY KeysTypesInit, KeysTypesNext, PTL DEF KeysSpec

LEMMA KeysInvInit == KeysInit => KeysInv
  BY DEF KeysInit, KeysInv, StaleIsYoung, LooksInTime, VerdictStands,
         RefusedOnlyAfterRotation, NoCheck

(* A step that moves one request alone: what it must leave true of it.        *)
LEMMA OneCheck ==
  ASSUME KeysInv, NEW r \in Requests,
         \A s \in Requests \ {r} : check'[s] = check[s],
         UNCHANGED <<signing, published, cache, age>>,
         check'[r].at = "store" /\ check'[r].got # signing
           => published <= check'[r].took,
         check'[r].kid <= signing,
         check'[r].at = "look" /\ check'[r].kid = signing
           => cache = signing \/ published <= TTL + 1,
         check'[r].verdict = "refused" => /\ check'[r].at = "done"
                                          /\ \/ check'[r].kid # signing
                                             \/ published <= TTL + 1
  PROVE  KeysInv'
<1>1. StaleIsYoung'
  BY DEF KeysInv, StaleIsYoung
<1>2. LooksInTime'
  BY DEF KeysInv, LooksInTime
<1>3. VerdictStands' /\ RefusedOnlyAfterRotation'
  BY DEF KeysInv, VerdictStands, RefusedOnlyAfterRotation
<1>. QED
  BY <1>1, <1>2, <1>3 DEF KeysInv

(* A request that starts looks at a fresh cache, or fetches.                  *)
LEMMA VerifyKeeps ==
  ASSUME KeysTypeOK, KeysInv, NEW r \in Requests, Verify(r)
  PROVE  KeysInv'
<1>1. /\ check'[r].at = IF Fresh THEN "look" ELSE "fetch"
      /\ check'[r].kid = signing /\ check'[r].verdict = "none"
  BY DEF Verify, KeysTypeOK, NoCheck
<1>2. \A s \in Requests \ {r} : check'[s] = check[s]
  BY CheckTypes
<1>3. UNCHANGED <<signing, published, cache, age>>
  BY DEF Verify
<1>4. Fresh /\ cache # signing => published <= TTL + 1
  BY TokenKeysAssumption DEF Fresh, KeysInv, StaleIsYoung, KeysTypeOK
<1>. QED
  BY <1>1, <1>2, <1>3, <1>4, OneCheck DEF KeysTypeOK

(* What the cache holds after a store was signed with a unit ago, or still is.*)
LEMMA StoreKeeps ==
  ASSUME KeysTypeOK, KeysInv, NEW r \in Requests, Store(r)
  PROVE  KeysInv'
<1>1. /\ check[r].at = "store" /\ cache' = check[r].got /\ age' = 0
      /\ check'[r] = [check[r] EXCEPT !.at = "look"]
      /\ UNCHANGED <<signing, published>>
  BY DEF Store, KeysTypeOK
<1>2. \A s \in Requests \ {r} : check'[s] = check[s]
  BY CheckTypes
<1>3. check[r] \in Checks /\ published \in Nat /\ signing \in Nat
  BY TokenKeysAssumption DEF KeysTypeOK, Old
<1>4. cache' # signing => published <= 1
  BY <1>1, <1>3 DEF KeysInv, StaleIsYoung, Checks
<1>5. StaleIsYoung'
  <2>1. cache' \notin {0, signing'} => published' <= age' + 1
    BY <1>1, <1>4
  <2>2. ASSUME NEW s \in Requests, check'[s].at = "store", check'[s].got # signing'
        PROVE  published' <= check'[s].took
    BY <1>1, <1>2, <1>3, <2>2 DEF KeysInv, StaleIsYoung, Checks
  <2>. QED
    BY <2>1, <2>2 DEF StaleIsYoung
<1>6. LooksInTime'
  BY <1>1, <1>2, <1>3, <1>4, TokenKeysAssumption DEF KeysInv, LooksInTime, Checks
<1>7. VerdictStands' /\ RefusedOnlyAfterRotation'
  BY <1>1, <1>2, <1>3
     DEF KeysInv, VerdictStands, RefusedOnlyAfterRotation, Checks
<1>. QED
  BY <1>5, <1>6, <1>7 DEF KeysInv

(* The other steps of a request.                                              *)
LEMMA CheckKeeps ==
  ASSUME KeysTypeOK, KeysInv, NEW r \in Requests,
         Fetched(r) \/ FetchFails(r) \/ Look(r) \/ Forget(r)
  PROVE  KeysInv'
<1>1. \A s \in Requests \ {r} : check'[s] = check[s]
  BY CheckTypes
<1>2. check[r] \in Checks /\ signing \in Nat
  BY DEF KeysTypeOK
<1>3. UNCHANGED <<signing, published, cache, age>>
  BY DEF Fetched, FetchFails, Look, Forget
<1>4. /\ check[r].kid <= signing
      /\ check[r].verdict = "refused" => check[r].at = "done"
  BY DEF KeysInv, LooksInTime, VerdictStands
<1>5. CASE Fetched(r)
  <2>1. check'[r] = [check[r] EXCEPT !.at = "store", !.got = signing]
    BY <1>5 DEF Fetched, KeysTypeOK
  <2>2. check[r].verdict # "refused"
    BY <1>4, <1>5 DEF Fetched
  <2>. QED
    BY <1>1, <1>2, <1>3, <1>4, <2>1, <2>2, OneCheck DEF Checks
<1>6. CASE FetchFails(r)
  <2>1. check'[r] = [check[r] EXCEPT !.at = "done", !.verdict = "unavailable"]
    BY <1>6 DEF FetchFails, KeysTypeOK
  <2>. QED
    BY <1>1, <1>2, <1>3, <1>4, <2>1, OneCheck DEF Checks
<1>7. CASE Look(r)
  <2>1. check'[r] = [check[r] EXCEPT !.at = "done",
                       !.verdict = IF cache = check[r].kid THEN "accepted" ELSE "refused"]
    BY <1>7 DEF Look, KeysTypeOK
  <2>2. check[r].kid = signing => cache = check[r].kid \/ published <= TTL + 1
    BY <1>7 DEF Look, KeysInv, LooksInTime
  <2>. QED
    BY <1>1, <1>2, <1>3, <1>4, <2>1, <2>2, OneCheck DEF Checks
<1>8. CASE Forget(r)
  <2>1. check'[r] = NoCheck
    BY <1>8 DEF Forget, KeysTypeOK
  <2>. QED
    BY <1>1, <1>2, <1>3, <2>1, OneCheck DEF NoCheck
<1>. QED
  BY <1>5, <1>6, <1>7, <1>8

(* No key is older than the rotation that has just been.                      *)
LEMMA RotateKeeps == KeysTypeOK /\ KeysInv /\ Rotate => KeysInv'
<1>. SUFFICES ASSUME KeysTypeOK, KeysInv, Rotate PROVE KeysInv'
  OBVIOUS
<1>1. signing' = signing + 1 /\ published' = 0 /\ UNCHANGED <<cache, age, check>>
  BY DEF Rotate
<1>2. signing \in Nat /\ age \in Nat /\ \A r \in Requests : check[r] \in Checks
  BY TokenKeysAssumption DEF KeysTypeOK, Old
<1>3. StaleIsYoung'
  BY <1>1, <1>2 DEF StaleIsYoung, Checks
<1>4. LooksInTime' /\ RefusedOnlyAfterRotation'
  BY <1>1, <1>2, TokenKeysAssumption
     DEF KeysInv, LooksInTime, RefusedOnlyAfterRotation, Checks
<1>5. VerdictStands'
  BY <1>1 DEF KeysInv, VerdictStands
<1>. QED
  BY <1>3, <1>4, <1>5 DEF KeysInv

(* Time passes when nobody is about to look and no verdict is out.            *)
LEMMA TimeKeeps == KeysTypeOK /\ KeysInv /\ TimePasses => KeysInv'
<1>. SUFFICES ASSUME KeysTypeOK, KeysInv, TimePasses PROVE KeysInv'
  OBVIOUS
<1>1. UNCHANGED <<signing, cache>>
  BY DEF TimePasses
<1>2. \A r \in Requests :
        \/ check[r].at = "idle" /\ check'[r] = check[r] /\ check[r].verdict = "none"
        \/ /\ check[r].at \in {"fetch", "store"} /\ check[r].took = 0
           /\ check'[r] = [check[r] EXCEPT !.took = 1]
  <2>. SUFFICES ASSUME NEW r \in Requests
                PROVE  \/ check[r].at = "idle" /\ check'[r] = check[r] /\ check[r].verdict = "none"
                       \/ /\ check[r].at \in {"fetch", "store"} /\ check[r].took = 0
                          /\ check'[r] = [check[r] EXCEPT !.took = 1]
    OBVIOUS
  <2>1. check'[r] = IF r \in Waiting THEN [check[r] EXCEPT !.took = 1] ELSE check[r]
    BY DEF TimePasses
  <2>2. CASE r \in Waiting /\ check[r].took = 0
    BY <2>1, <2>2 DEF Waiting
  <2>3. CASE check[r] = NoCheck
    BY <2>1, <2>3 DEF Waiting, NoCheck
  <2>. QED
    BY <2>2, <2>3 DEF TimePasses
<1>3. \A r \in Requests : check[r] \in Checks
  BY DEF KeysTypeOK
<1>4. published' = Tick(published) /\ age' = Tick(age)
  BY DEF TimePasses
<1>5. published' <= published + 1 /\ published \in Nat /\ published' \in Nat
  BY <1>4, TickUp, TokenKeysAssumption DEF KeysTypeOK, Old
<1>6. cache \notin {0, signing} => published' <= age' + 1
  BY <1>4, TickMonotone DEF KeysTypeOK, KeysInv, StaleIsYoung
<1>7. StaleIsYoung'
  <2>1. ASSUME NEW r \in Requests, check'[r].at = "store", check'[r].got # signing'
        PROVE  published' <= check'[r].took
    <3>1. /\ check[r].at = "store" /\ check[r].took = 0 /\ check'[r].took = 1
          /\ check[r].got # signing
      BY <1>1, <1>2, <1>3, <2>1 DEF Checks
    <3>2. published <= 0
      BY <3>1 DEF KeysInv, StaleIsYoung
    <3>. QED
      BY <1>5, <3>1, <3>2
  <2>. QED
    BY <1>1, <1>6, <2>1 DEF StaleIsYoung
<1>8. LooksInTime' /\ RefusedOnlyAfterRotation' /\ VerdictStands'
  BY <1>1, <1>2, <1>3
     DEF KeysInv, LooksInTime, RefusedOnlyAfterRotation, VerdictStands, Checks
<1>. QED
  BY <1>7, <1>8 DEF KeysInv

LEMMA KeysInvNext == KeysTypeOK /\ KeysInv /\ [KeysNext]_keyVars => KeysInv'
<1>1. KeysInv /\ UNCHANGED keyVars => KeysInv'
  BY DEF keyVars, KeysInv, StaleIsYoung, LooksInTime, VerdictStands,
         RefusedOnlyAfterRotation
<1>. QED
  BY <1>1, VerifyKeeps, StoreKeeps, CheckKeeps, RotateKeeps, TimeKeeps DEF KeysNext

(* A good token is refused in the TTL after a rotation only, for any number   *)
(* of requests whose fetches overtake each other, and any TTL.                *)
THEOREM RefusedInTime == KeysSpec => []RefusedOnlyAfterRotation
<1>1. KeysInv => RefusedOnlyAfterRotation
  BY DEF KeysInv
<1>. QED
  BY <1>1, KeysInvInit, KeysInvNext, KeysTypes, PTL DEF KeysSpec

-----------------------------------------------------------------------------
(* Reports: what is shown of workflows that go on.                            *)

(* The plans: each names a few tables, and which one comes when.              *)
LEMMA PlansAreSequences ==
  ASSUME NEW kind \in Reported
  PROVE  Plan(kind) \in Seq(Tables) /\ Len(Plan(kind)) \in 1..3
<1>1. CASE kind = "research" \/ kind = "summary"
  <2>1. Plan(kind) = <<"logs">>
    BY <1>1 DEF Plan, ResearchPlan, SummaryPlan
  <2>2. "logs" \in Tables
    BY DEF Tables
  <2>. QED
    BY <2>1, <2>2
<1>2. CASE kind = "export"
  BY <1>2 DEF Plan, ExportPlan, Tables
<1>3. CASE kind = "list" \/ kind = "detail"
  <2>1. Plan(kind) = <<"goals", "workflows">>
    BY <1>3 DEF Plan, ListPlan, DetailPlan
  <2>2. "goals" \in Tables /\ "workflows" \in Tables
    BY DEF Tables
  <2>. QED
    BY <2>1, <2>2
<1>4. CASE kind = "trail"
  BY <1>4 DEF Plan, TrailPlan, Tables
<1>5. CASE kind = "result"
  BY <1>5 DEF Plan, ResultPlan, Tables
<1>. QED
  BY <1>1, <1>2, <1>3, <1>4, <1>5 DEF Reported

LEMMA ExportReads ==
  /\ Len(Plan("export")) = 2
  /\ Plan("export")[1] = "workflows" /\ Plan("export")[2] = "logs"
  BY DEF Plan, ExportPlan

LEMMA TrailReads ==
  /\ Len(Plan("trail")) = 3 /\ Plan("trail")[1] = "goals"
  /\ Plan("trail")[2] = "logs" /\ Plan("trail")[3] = "workflows"
  BY DEF Plan, TrailPlan

(* A report that has a SELECT to do is at some place of its plan.             *)
LEMMA NextSelect ==
  ASSUME ReportsTypeOK, SelectNext
  PROVE  \E k \in 1..Len(Plan(report.kind)) :
           /\ report.kind \in Reported
           /\ Head(report.plan) = Plan(report.kind)[k]
           /\ Len(report.plan) = Len(Plan(report.kind)) - k + 1
           /\ Len(report'.plan) = Len(Plan(report.kind)) - k
           /\ report'.plan = SubSeq(Plan(report.kind), k + 1, Len(Plan(report.kind)))
           /\ report'.plan = <<>> <=> k = Len(Plan(report.kind))
<1>. DEFINE p == Plan(report.kind)
<1>1. report.kind \in Reported /\ report.plan \in Rest(report.kind)
  BY DEF ReportsTypeOK, SelectNext, NoReport
<1>2. p \in Seq(Tables) /\ Len(p) \in 1..3
  BY <1>1, PlansAreSequences
<1>3. PICK k \in 1..Len(p) + 1 : report.plan = SubSeq(p, k, Len(p))
  BY <1>1 DEF Rest
<1>4. k # Len(p) + 1
  <2>1. SubSeq(p, Len(p) + 1, Len(p)) = <<>>
    BY <1>2, SubSeqEmpty
  <2>. QED
    BY <1>3, <2>1 DEF SelectNext
<1>5. k \in 1..Len(p)
  BY <1>2, <1>4
<1>6. report'.plan = Tail(report.plan)
  BY DEF SelectNext, ReportsTypeOK
<1>7. Head(report.plan) = p[k] /\ report'.plan = SubSeq(p, k + 1, Len(p))
  BY <1>2, <1>3, <1>5, <1>6, HeadTailOfSubSeq
<1>8. \A i \in 1..Len(p) : p[i] \in Tables
  BY <1>2
<1>9. Len(report.plan) = Len(p) - k + 1
  BY <1>2, <1>3, <1>5, <1>8, SubSeqProperties
<1>10. Len(report'.plan) = Len(p) - k /\ report'.plan \in Seq(Tables)
  BY <1>2, <1>5, <1>7, <1>8, SubSeqProperties
<1>11. report'.plan = <<>> <=> k = Len(p)
  BY <1>2, <1>5, <1>10, EmptySeq
<1>. QED
  BY <1>1, <1>5, <1>7, <1>9, <1>10, <1>11

LEMMA ReportsTypesInit == ReportsInit => ReportsTypeOK
  BY EmptySeq DEF ReportsInit, ReportsTypeOK, Nothing, NoReport

(* A goal's steps leave the report alone.                                     *)
LEMMA GoalTypes ==
  ASSUME ReportsTypeOK, NEW g \in Goals, GoalStep(g)
  PROVE  ReportsTypeOK' /\ UNCHANGED report
<1>. USE DEF GoalStep, CreateGoalRow, CreateWorkflowRow, LogIntent, DispatchGoal, LogOverride,
             StoreFinding, TaskCompletes, Reopened, ResolveEscalation, Create, LaterRow, End
<1>1. UNCHANGED report
  OBVIOUS
<1>2. rows' \in [Tables -> SUBSET Goals]
  <2>1. rows' = rows \/ \E t \in Tables : AddRow(t, g)
    BY DEF Tables
  <2>2. ASSUME NEW t \in Tables, AddRow(t, g) PROVE rows' \in [Tables -> SUBSET Goals]
    BY <2>2 DEF AddRow, ReportsTypeOK
  <2>. QED
    BY <2>1, <2>2 DEF ReportsTypeOK
<1>3. creating' \in [Goals -> {"goal", "workflow", "log", "send", "done"}]
  BY DEF ReportsTypeOK
<1>4. forgone' \subseteq Goals /\ sent' \subseteq Goals
  BY DEF ReportsTypeOK
<1>5. ended' \in [Goals -> {"no", "task", "admin"}]
  BY DEF ReportsTypeOK
<1>. QED
  BY <1>1, <1>2, <1>3, <1>4, <1>5 DEF ReportsTypeOK

LEMMA ReportTypes ==
  ASSUME ReportsTypeOK,
         (\E kind \in Reported : StartReport(kind)) \/ SelectNext \/ Respond
  PROVE  ReportsTypeOK' /\ UNCHANGED workflowVars
<1>1. UNCHANGED <<rows, creating, forgone, sent, ended>>
  BY DEF StartReport, SelectNext, Respond, workflowVars
<1>2. ASSUME NEW kind \in Reported, StartReport(kind) PROVE ReportsTypeOK'
  <2>1. report' = [NoReport EXCEPT !.kind = kind, !.plan = Plan(kind)]
    BY <1>2 DEF StartReport
  <2>2. Plan(kind) \in Seq(Tables) /\ Plan(kind) = SubSeq(Plan(kind), 1, Len(Plan(kind)))
    BY PlansAreSequences, SubSeqFull
  <2>3. Plan(kind) \in Rest(kind)
    BY <2>2, PlansAreSequences DEF Rest
  <2>4. kind # "none"
    BY DEF Reported
  <2>. QED
    BY <1>1, <2>1, <2>2, <2>3, <2>4 DEF ReportsTypeOK, NoReport, Nothing
<1>3. CASE SelectNext
  <2>1. PICK k \in 1..Len(Plan(report.kind)) :
          /\ report.kind \in Reported
          /\ Head(report.plan) = Plan(report.kind)[k]
          /\ report'.plan = SubSeq(Plan(report.kind), k + 1, Len(Plan(report.kind)))
    BY <1>3, NextSelect
  <2>2. Plan(report.kind) \in Seq(Tables) /\ Len(Plan(report.kind)) \in 1..3
    BY <2>1, PlansAreSequences
  <2>3. report'.plan \in Rest(report.kind) /\ Head(report.plan) \in Tables
    <3>1. k + 1 \in 1..Len(Plan(report.kind)) + 1
      BY <2>2
    <3>2. Plan(report.kind)[k] \in Tables
      BY <2>2
    <3>. QED
      BY <2>1, <3>1, <3>2 DEF Rest
  <2>4. \A i \in 1..Len(Plan(report.kind)) : Plan(report.kind)[i] \in Tables
    BY <2>2
  <2>5. report'.plan \in Seq(Tables)
    BY <2>1, <2>2, <2>4, SubSeqProperties
  <2>6. /\ report'.kind = report.kind
        /\ report'.saw \in [Tables -> SUBSET Goals] /\ report'.completed \subseteq Goals
        /\ DOMAIN report' = {"kind", "plan", "saw", "completed"}
    BY <1>3, <2>3 DEF SelectNext, ReportsTypeOK
  <2>7. report' \in [kind : Reported \cup {"none"}, plan : Seq(Tables),
                     saw : [Tables -> SUBSET Goals], completed : SUBSET Goals]
    BY <1>3, <2>1, <2>5, <2>6 DEF SelectNext, ReportsTypeOK
  <2>8. report'.kind # "none"
    BY <2>1, <2>6 DEF Reported
  <2>9. report'.plan \in Rest(report'.kind)
    BY <2>3, <2>6
  <2>10. /\ rows' \in [Tables -> SUBSET Goals]
         /\ creating' \in [Goals -> {"goal", "workflow", "log", "send", "done"}]
         /\ forgone' \subseteq Goals /\ sent' \subseteq Goals
         /\ ended' \in [Goals -> {"no", "task", "admin"}]
    BY <1>1 DEF ReportsTypeOK
  <2>. QED
    BY <1>1, <2>7, <2>8, <2>9, <2>10 DEF ReportsTypeOK, workflowVars
<1>4. CASE Respond
  BY <1>1, <1>4, EmptySeq DEF Respond, ReportsTypeOK, NoReport, Nothing
<1>. QED
  BY <1>1, <1>2, <1>3, <1>4 DEF workflowVars

LEMMA ReportsTypesNext == ReportsTypeOK /\ [ReportsNext]_reportVars => ReportsTypeOK'
<1>1. ReportsTypeOK /\ UNCHANGED reportVars => ReportsTypeOK'
  BY DEF ReportsTypeOK, reportVars, workflowVars
<1>. QED
  BY <1>1, GoalTypes, ReportTypes DEF ReportsNext

(* Every variable of the reports keeps its type.                              *)
THEOREM ReportsTypes == ReportsSpec => []ReportsTypeOK
  BY ReportsTypesInit, ReportsTypesNext, PTL DEF ReportsSpec

LEMMA ReportsInvInit == ReportsInit => ReportsInv
  BY DEF ReportsInit, ReportsInv, WrittenBefore, ReadBefore, ReportIsWhole, Logged,
         NoReport, Nothing, Tables

(* Rows are never taken away, and those of one table wait for another's.      *)
LEMMA GoalGoesOn ==
  ASSUME ReportsTypeOK, WrittenBefore, NEW g \in Goals, GoalStep(g)
  PROVE  /\ WrittenBefore'
         /\ rows["workflows"] \subseteq rows'["workflows"]
         /\ forgone \subseteq forgone' /\ sent \subseteq sent'
<1>. USE DEF AddRow, Create, LaterRow, End
<1>1. {"goals", "workflows", "logs", "overrides", "findings"} = Tables
  BY DEF Tables
<1>2. CASE CreateGoalRow(g)
  <2>1. /\ \A t \in Tables \ {"goals"} : rows'[t] = rows[t]
        /\ creating[g] = "goal" /\ creating' = [creating EXCEPT ![g] = "workflow"]
        /\ UNCHANGED <<forgone, sent, ended>>
    BY <1>2 DEF CreateGoalRow, ReportsTypeOK
  <2>. QED
    BY <1>1, <2>1 DEF WrittenBefore, Logged, ReportsTypeOK
<1>3. CASE CreateWorkflowRow(g)
  <2>1. /\ \A t \in Tables \ {"workflows"} : rows'[t] = rows[t]
        /\ rows'["workflows"] = rows["workflows"] \cup {g}
        /\ creating' = [creating EXCEPT ![g] = "log"]
        /\ UNCHANGED <<forgone, sent, ended>>
    BY <1>1, <1>3 DEF CreateWorkflowRow, ReportsTypeOK
  <2>. QED
    BY <1>1, <2>1 DEF WrittenBefore, Logged, ReportsTypeOK
<1>4. CASE LogIntent(g)
  <2>1. /\ \A t \in Tables \ {"logs"} : rows'[t] = rows[t]
        /\ rows'["logs"] \cup forgone' = rows["logs"] \cup forgone \cup {g}
        /\ rows["logs"] \subseteq rows'["logs"] /\ rows'["logs"] \subseteq rows["logs"] \cup {g}
        /\ forgone \subseteq forgone'
        /\ creating[g] = "log" /\ creating' = [creating EXCEPT ![g] = "send"]
        /\ UNCHANGED <<sent, ended>>
    BY <1>1, <1>4 DEF LogIntent, ReportsTypeOK
  <2>2. g \in rows["workflows"]
    BY <2>1 DEF WrittenBefore
  <2>. QED
    BY <1>1, <2>1, <2>2 DEF WrittenBefore, Logged, ReportsTypeOK
<1>5. CASE DispatchGoal(g)
  <2>1. /\ UNCHANGED <<rows, forgone, ended>>
        /\ sent \subseteq sent' /\ sent' \subseteq sent \cup {g}
        /\ creating[g] = "send" /\ creating' = [creating EXCEPT ![g] = "done"]
    BY <1>5 DEF DispatchGoal
  <2>2. g \in rows["workflows"] \cap Logged
    BY <2>1 DEF WrittenBefore
  <2>. QED
    BY <1>1, <2>1, <2>2 DEF WrittenBefore, Logged, ReportsTypeOK
<1>6. CASE LogOverride(g)
  <2>1. /\ \A t \in Tables \ {"overrides"} : rows'[t] = rows[t]
        /\ rows'["overrides"] = rows["overrides"] \cup {g} /\ g \in rows["workflows"]
        /\ UNCHANGED <<creating, forgone, sent, ended>>
    BY <1>1, <1>6 DEF LogOverride, ReportsTypeOK
  <2>. QED
    BY <1>1, <2>1 DEF WrittenBefore, Logged
<1>7. CASE StoreFinding(g)
  <2>1. /\ \A t \in Tables \ {"findings"} : rows'[t] = rows[t]
        /\ UNCHANGED <<creating, forgone, sent, ended>>
    BY <1>1, <1>7 DEF StoreFinding, ReportsTypeOK
  <2>. QED
    BY <1>1, <2>1 DEF WrittenBefore, Logged
<1>8. CASE TaskCompletes(g) \/ Reopened(g) \/ ResolveEscalation(g)
  <2>1. /\ UNCHANGED <<rows, creating, forgone, sent>>
        /\ \/ g \in sent /\ ended' = [ended EXCEPT ![g] = "task"]
           \/ ended' = [ended EXCEPT ![g] = "no"] \/ ended' = [ended EXCEPT ![g] = "admin"]
    BY <1>8 DEF TaskCompletes, Reopened, ResolveEscalation
  <2>2. \A h \in Goals : ended'[h] = "task" => h \in sent
    BY <2>1 DEF WrittenBefore, ReportsTypeOK
  <2>. QED
    BY <2>1, <2>2 DEF WrittenBefore, Logged
<1>. QED
  BY <1>2, <1>3, <1>4, <1>5, <1>6, <1>7, <1>8 DEF GoalStep

LEMMA GoalKeeps ==
  ASSUME ReportsTypeOK, ReportsInv, NEW g \in Goals, GoalStep(g)
  PROVE  ReportsInv'
<1>1. report' = report
  BY GoalTypes
<1>2. /\ WrittenBefore' /\ rows["workflows"] \subseteq rows'["workflows"]
      /\ forgone \subseteq forgone' /\ sent \subseteq sent'
  BY GoalGoesOn DEF ReportsInv
<1>3. ReadBefore'
  BY <1>1, <1>2 DEF ReportsInv, ReadBefore
<1>4. ReportIsWhole'
  BY <1>1, <1>2 DEF ReportsInv, ReportIsWhole
<1>. QED
  BY <1>2, <1>3, <1>4 DEF ReportsInv

(* A SELECT, by the report it is of.                                          *)
LEMMA SelectKeeps ==
  ASSUME ReportsTypeOK, ReportsInv, SelectNext
  PROVE  ReportsInv'
<1>. DEFINE t == Head(report.plan)
<1>1. PICK k \in 1..Len(Plan(report.kind)) :
        /\ report.kind \in Reported /\ t = Plan(report.kind)[k]
        /\ Len(report.plan) = Len(Plan(report.kind)) - k + 1
        /\ Len(report'.plan) = Len(Plan(report.kind)) - k
        /\ report'.plan = <<>> <=> k = Len(Plan(report.kind))
  BY NextSelect
<1>2. Len(Plan(report.kind)) \in 1..3 /\ t \in Tables
  BY <1>1, PlansAreSequences
<1>3. /\ UNCHANGED <<rows, creating, forgone, sent, ended>> /\ report'.kind = report.kind
      /\ \A s \in Tables : report'.saw[s] = IF s \in Read(t) THEN rows[s] \cap Named(t)
                                                             ELSE report.saw[s]
      /\ report'.completed = IF t = "workflows"
                             THEN {g \in rows[t] \cap Named(t) : ended[g] = "task"}
                             ELSE report.completed
  BY DEF SelectNext, ReportsTypeOK, workflowVars
<1>4. WrittenBefore'
  BY <1>3 DEF ReportsInv, WrittenBefore, Logged
<1>5. report'.completed \subseteq sent
  BY <1>3 DEF ReportsInv, ReadBefore, WrittenBefore, ReportsTypeOK, Tables
<1>6. /\ {"goals", "workflows", "logs", "overrides", "findings"} = Tables
      /\ rows["workflows"] \subseteq Goals
  BY DEF ReportsTypeOK, Tables
<1>7. CASE report.kind = "export"
  <2>1. \/ k = 1 /\ t = "workflows" /\ report'.plan # <<>>
        \/ k = 2 /\ t = "logs"
    BY <1>1, <1>7, ExportReads
  <2>2. Named("workflows") = Goals /\ Named("logs") = report.saw["workflows"]
    BY <1>7 DEF Named
  <2>3. report'.completed \subseteq report'.saw["workflows"]
    BY <1>3, <1>6, <1>7, <2>1, <2>2 DEF ReportsInv, ReadBefore, Read
  <2>4. ReadBefore'
    BY <1>3, <1>5, <1>7, <2>3 DEF ReadBefore
  <2>5. t = "logs" => report'.completed \subseteq report'.saw["logs"] \cup forgone
    <3>. SUFFICES ASSUME t = "logs"
                  PROVE  report'.completed \subseteq report'.saw["logs"] \cup forgone
      OBVIOUS
    <3>1. /\ report'.completed = report.completed
          /\ report'.saw["logs"] = rows["logs"] \cap Named("logs")
      BY <1>3, <1>6 DEF Read
    <3>2. report.completed \subseteq sent /\ report.completed \subseteq Named("logs")
      BY <1>7, <2>2 DEF ReportsInv, ReadBefore
    <3>3. sent \subseteq rows["logs"] \cup forgone
      BY DEF ReportsInv, WrittenBefore, Logged
    <3>. QED
      BY <3>1, <3>2, <3>3
  <2>6. ReportIsWhole'
    BY <1>3, <1>7, <2>1, <2>5 DEF ReportIsWhole
  <2>. QED
    BY <1>4, <2>4, <2>6 DEF ReportsInv
<1>8. CASE report.kind = "trail"
  <2>1. \/ k = 1 /\ t = "goals" /\ Len(report'.plan) = 2 /\ report'.plan # <<>>
        \/ k = 2 /\ t = "logs" /\ Len(report'.plan) = 1 /\ report'.plan # <<>>
        \/ k = 3 /\ t = "workflows" /\ Len(report'.plan) = 0
    <3>1. Len(Plan(report.kind)) = 3
      BY <1>8, TrailReads
    <3>2. k = 1 \/ k = 2 \/ k = 3
      BY <1>1, <3>1
    <3>3. CASE k = 1
      BY <1>1, <1>8, <3>1, <3>3, TrailReads
    <3>4. CASE k = 2
      BY <1>1, <1>8, <3>1, <3>4, TrailReads
    <3>5. CASE k = 3
      BY <1>1, <1>8, <3>1, <3>5, TrailReads
    <3>. QED
      BY <3>2, <3>3, <3>4, <3>5
  <2>2. Named("workflows") = Goals /\ Named("logs") = Goals
    BY <1>8 DEF Named
  <2>. DEFINE entries == report.saw["logs"] \cup report.saw["overrides"]
              entriesNext == report'.saw["logs"] \cup report'.saw["overrides"]
  <2>3. k = 1 => entries = {}
    BY <1>1, <1>8, TrailReads DEF ReportsInv, ReadBefore
  <2>4. /\ entriesNext \subseteq rows["workflows"]
        /\ t = "goals" => entriesNext = entries
        /\ t = "workflows" => report'.saw["workflows"] = rows["workflows"]
    <3>1. entries \subseteq rows["workflows"]
      BY <1>8 DEF ReportsInv, ReadBefore
    <3>2. CASE t = "goals"
      BY <1>3, <1>6, <3>1, <3>2 DEF Read
    <3>3. CASE t = "workflows"
      BY <1>3, <1>6, <2>2, <3>1, <3>3 DEF Read
    <3>4. CASE t = "logs"
      <4>1. entriesNext \subseteq rows["logs"] \cup rows["overrides"]
        BY <1>3, <1>6, <3>4 DEF Read
      <4>. QED
        BY <3>4, <4>1 DEF ReportsInv, WrittenBefore
    <3>. QED
      BY <2>1, <3>2, <3>3, <3>4
  <2>5. ReadBefore'
    <3>1. Len(report'.plan) > 1 => entriesNext = {}
      <4>1. CASE k = 1 /\ t = "goals"
        BY <2>3, <2>4, <4>1
      <4>2. \A n : n = 1 \/ n = 0 => ~(n > 1)
        OBVIOUS
      <4>3. CASE Len(report'.plan) = 1 \/ Len(report'.plan) = 0
        BY <4>2, <4>3
      <4>. QED
        BY <2>1, <4>1, <4>3
    <3>. QED
      BY <1>3, <1>5, <1>8, <2>4, <3>1 DEF ReadBefore
  <2>6. ReportIsWhole'
    <3>1. report'.plan = <<>> => t = "workflows"
      BY <2>1
    <3>. QED
      BY <1>3, <1>8, <2>4, <3>1 DEF ReportIsWhole
  <2>. QED
    BY <1>4, <2>5, <2>6 DEF ReportsInv
<1>9. CASE report.kind \notin {"export", "trail"}
  BY <1>3, <1>4, <1>5, <1>9 DEF ReportsInv, ReadBefore, ReportIsWhole
<1>. QED
  BY <1>7, <1>8, <1>9

LEMMA ReportsInvNext ==
  ReportsTypeOK /\ ReportsInv /\ [ReportsNext]_reportVars => ReportsInv'
<1>. SUFFICES ASSUME ReportsTypeOK, ReportsInv, [ReportsNext]_reportVars
              PROVE  ReportsInv'
  OBVIOUS
<1>1. ASSUME NEW kind \in Reported, StartReport(kind) PROVE ReportsInv'
  <2>1. /\ UNCHANGED <<rows, creating, forgone, sent, ended>>
        /\ report'.kind = kind /\ report'.plan = Plan(kind)
        /\ report'.saw = Nothing /\ report'.completed = {}
    BY <1>1 DEF StartReport, NoReport, workflowVars
  <2>2. Plan(kind) # <<>>
    BY PlansAreSequences, EmptySeq
  <2>3. WrittenBefore'
    BY <2>1 DEF ReportsInv, WrittenBefore, Logged
  <2>. QED
    BY <2>1, <2>2, <2>3 DEF ReportsInv, ReadBefore, ReportIsWhole, Nothing, Tables
<1>2. CASE Respond
  <2>1. UNCHANGED <<rows, creating, forgone, sent, ended>> /\ report' = NoReport
    BY <1>2 DEF Respond, workflowVars
  <2>2. WrittenBefore'
    BY <2>1 DEF ReportsInv, WrittenBefore, Logged
  <2>. QED
    BY <2>1, <2>2 DEF ReportsInv, ReadBefore, ReportIsWhole, NoReport, Nothing, Tables
<1>3. CASE UNCHANGED reportVars
  BY <1>3 DEF reportVars, workflowVars, ReportsInv, WrittenBefore, Logged, ReadBefore, ReportIsWhole
<1>. QED
  BY <1>1, <1>2, <1>3, GoalKeeps, SelectKeeps DEF ReportsNext

(* Whatever goals and their tasks do between the SELECTs of a report, an      *)
(* export that shows a task's COMPLETED shows the classification it was run   *)
(* for, and a trail no entry without its workflow.                            *)
THEOREM ReportsAreWhole == ReportsSpec => []ReportIsWhole
<1>1. ReportsInv => ReportIsWhole
  BY DEF ReportsInv
<1>. QED
  BY <1>1, ReportsInvInit, ReportsInvNext, ReportsTypes, PTL DEF ReportsSpec

-----------------------------------------------------------------------------
(* SearchIndex: what is indexed is found, and once per interpreter.           *)

LEMMA RunFields ==
  ASSUME IndexTypeOK, NEW d \in Docs, job[d] # NoJob
  PROVE  /\ job[d].on \in Interpreters /\ job[d].batch \in Nat
         /\ job[d].vectors \in Seq(Nat) /\ job[d].at = "embed"
  BY DEF IndexTypeOK

LEMMA NoRunIsIdle ==
  ASSUME NEW d \in Docs, job[d].at = "embed"
  PROVE  job[d] # NoJob
  BY DEF NoJob

(* A group of texts gives its vector or is passed over.                       *)
LEMMA BatchVectors ==
  ASSUME IndexTypeOK, NEW d \in Docs, job[d] # NoJob,
         NEW got \in {<<job[d].batch>>, <<>>}
  PROVE  LET v == job[d].vectors IN
         /\ v \o got \in Seq(Nat)
         /\ Len(v \o got) = Len(v) + Len(got) /\ Len(got) \in {0, 1}
         /\ \A i \in 1..Len(v) : (v \o got)[i] = v[i]
         /\ Len(got) = 1 => (v \o got)[Len(v) + 1] = job[d].batch
<1>. DEFINE v == job[d].vectors
<1>1. v \in Seq(Nat) /\ job[d].batch \in Nat
  BY RunFields
<1>2. /\ got \in Seq(Nat) /\ Len(got) \in {0, 1}
      /\ Len(got) = 1 => got[1] = job[d].batch
  <2>1. CASE got = <<job[d].batch>>
    BY <1>1, <2>1
  <2>2. CASE got = <<>>
    BY <2>2, EmptySeq
  <2>. QED
    BY <2>1, <2>2
<1>3. v \o got \in Seq(Nat) /\ Len(v \o got) = Len(v) + Len(got)
  BY <1>1, <1>2, ConcatProperties
<1>4. \A i \in 1..Len(v) + Len(got) :
        (v \o got)[i] = IF i <= Len(v) THEN v[i] ELSE got[i - Len(v)]
  BY <1>1, <1>2, ConcatProperties
<1>5. Len(v) \in Nat /\ Len(got) \in Nat
  BY <1>1, <1>2
<1>6. \A i \in 1..Len(v) : (v \o got)[i] = v[i]
  BY <1>4, <1>5
<1>7. ASSUME Len(got) = 1 PROVE (v \o got)[Len(v) + 1] = job[d].batch
  <2>1. Len(v) + 1 \in 1..Len(v) + Len(got) /\ ~(Len(v) + 1 <= Len(v))
        /\ Len(v) + 1 - Len(v) = 1
    BY <1>5, <1>7
  <2>2. (v \o got)[Len(v) + 1] = got[Len(v) + 1 - Len(v)]
    BY <1>4, <2>1
  <2>. QED
    BY <1>2, <1>7, <2>1, <2>2
<1>. QED
  BY <1>2, <1>3, <1>6, <1>7

(* What the upsert of a run with all its vectors writes.                      *)
AllPoints(d, s) ==
    {[id |-> PointId(d, s, i), doc |-> d, chunk |-> i, vector |-> i] : i \in 1..Chunks[d]}

LEMMA UpsertWrites ==
  ASSUME IndexTypeOK, VectorsInOrder, NEW d \in Docs, Upsert(d), AllEmbedded(d)
  PROVE  \E s \in Interpreters :
           /\ points' = {p \in points : \A q \in AllPoints(d, s) : q.id # p.id}
                          \cup AllPoints(d, s)
           /\ indexed' = [indexed EXCEPT ![d] = @ \cup {s}]
<1>. DEFINE v == job[d].vectors  s == job[d].on
<1>1. job[d] # NoJob
  BY NoRunIsIdle DEF Upsert
<1>2. s \in Interpreters /\ v \in Seq(Nat) /\ job[d].batch \in Nat
  BY <1>1, RunFields
<1>3. Chunks[d] \in Nat
  BY SearchIndexAssumption
<1>4. Len(v) = Chunks[d] /\ Len(v) = job[d].batch - 1
  BY <1>1, <1>2, <1>3 DEF AllEmbedded, VectorsInOrder, Upsert
<1>5. DOMAIN v = 1..Chunks[d] /\ \A i \in 1..Chunks[d] : v[i] = i
  BY <1>1, <1>2, <1>4 DEF VectorsInOrder
<1>6. PointsOf(d, s, v) = AllPoints(d, s)
  BY <1>5 DEF PointsOf, AllPoints
<1>. QED
  BY <1>2, <1>6 DEF Upsert

LEMMA IndexTypesInit == IndexInit => IndexTypeOK
  BY FS_EmptySet DEF IndexInit, IndexTypeOK

LEMMA IndexTypesNext ==
  IndexTypeOK /\ VectorsInOrder /\ [IndexNext]_indexVars => IndexTypeOK'
<1>. SUFFICES ASSUME IndexTypeOK, VectorsInOrder, [IndexNext]_indexVars
              PROVE  IndexTypeOK'
  OBVIOUS
<1>1. ASSUME NEW d \in Docs, NEW s \in Interpreters, IndexDocument(d, s)
      PROVE  IndexTypeOK'
  <2>1. [at |-> "embed", on |-> s, batch |-> 1, vectors |-> <<>>]
          \in [at : {"embed"}, on : Interpreters, batch : Nat, vectors : Seq(Nat)]
    BY EmptySeq
  <2>. QED
    BY <1>1, <2>1 DEF IndexDocument, IndexTypeOK
<1>2. ASSUME NEW d \in Docs, EmbedBatch(d) PROVE IndexTypeOK'
  <2>1. job[d] # NoJob
    BY <1>2, NoRunIsIdle DEF EmbedBatch
  <2>2. PICK got \in {<<job[d].batch>>, <<>>} :
          job' = [job EXCEPT ![d].batch = @ + 1, ![d].vectors = @ \o got]
    BY <1>2 DEF EmbedBatch
  <2>3. job[d].vectors \o got \in Seq(Nat)
    BY <2>1, BatchVectors
  <2>4. job[d] \in [at : {"embed"}, on : Interpreters, batch : Nat, vectors : Seq(Nat)]
    BY <2>1 DEF IndexTypeOK
  <2>5. job' = [job EXCEPT ![d] = [job[d] EXCEPT !.batch = @ + 1, !.vectors = @ \o got]]
    BY <2>2 DEF IndexTypeOK
  <2>6. [job[d] EXCEPT !.batch = @ + 1, !.vectors = @ \o got]
          \in [at : {"embed"}, on : Interpreters, batch : Nat, vectors : Seq(Nat)]
    <3>1. job[d].batch + 1 \in Nat
      BY <2>4
    <3>. DEFINE w == job[d].vectors \o got
    <3>2. w \in Seq(Nat)
      BY <2>3
    <3>. HIDE DEF w
    <3>3. [job[d] EXCEPT !.batch = @ + 1, !.vectors = w]
            \in [at : {"embed"}, on : Interpreters, batch : Nat, vectors : Seq(Nat)]
      BY <2>4, <3>1, <3>2
    <3>. QED
      BY <3>3 DEF w
  <2>7. UNCHANGED <<points, indexed>>
    BY <1>2 DEF EmbedBatch
  <2>. QED
    BY <2>5, <2>6, <2>7 DEF IndexTypeOK
<1>3. ASSUME NEW d \in Docs, IndexingFails(d) PROVE IndexTypeOK'
  BY <1>3 DEF IndexingFails, IndexTypeOK
<1>4. ASSUME NEW d \in Docs, Upsert(d) PROVE IndexTypeOK'
  <2>1. job' = [job EXCEPT ![d] = NoJob]
    BY <1>4 DEF Upsert
  <2>2. CASE ~AllEmbedded(d)
    BY <1>4, <2>1, <2>2 DEF Upsert, IndexTypeOK
  <2>3. CASE AllEmbedded(d)
    <3>1. PICK s \in Interpreters :
            /\ points' \subseteq points \cup AllPoints(d, s)
            /\ indexed' = [indexed EXCEPT ![d] = @ \cup {s}]
      BY <1>4, <2>3, UpsertWrites
    <3>2. AllPoints(d, s) \subseteq [id : Interpreters \X {NameOf[e] : e \in Docs} \X Nat,
                                     doc : Docs, chunk : Nat, vector : Nat]
      BY SearchIndexAssumption DEF AllPoints, PointId
    <3>3. IsFiniteSet(indexed[d] \cup {s}) /\ indexed[d] \cup {s} \subseteq Interpreters
      BY FS_AddElement DEF IndexTypeOK
    <3>. QED
      BY <2>1, <3>1, <3>2, <3>3 DEF IndexTypeOK
  <2>. QED
    BY <2>2, <2>3
<1>5. CASE UNCHANGED indexVars
  BY <1>5 DEF indexVars, IndexTypeOK
<1>. QED
  BY <1>1, <1>2, <1>3, <1>4, <1>5 DEF IndexNext

LEMMA IndexInvInit == IndexInit => IndexInv
  BY DEF IndexInit, IndexInv, VectorsInOrder, PointsAreChunks, NoChunkMissing

LEMMA CountStep ==
  ASSUME NEW b \in Nat, NEW l \in Nat, NEW g \in {0, 1}, l < b
  PROVE  /\ l + g < b + 1
         /\ l + g = (b + 1) - 1 => g = 1 /\ l = b - 1
  OBVIOUS

LEMMA VectorsStay ==
  IndexTypeOK /\ VectorsInOrder /\ [IndexNext]_indexVars => VectorsInOrder'
<1>. SUFFICES ASSUME IndexTypeOK, VectorsInOrder, [IndexNext]_indexVars
              PROVE  VectorsInOrder'
  OBVIOUS
<1>1. ASSUME NEW d \in Docs, NEW s \in Interpreters, IndexDocument(d, s)
      PROVE  VectorsInOrder'
  <2>1. job' = [job EXCEPT ![d] = [at |-> "embed", on |-> s, batch |-> 1, vectors |-> <<>>]]
    BY <1>1 DEF IndexDocument
  <2>2. Len(<<>>) = 0 /\ 1 <= Chunks[d] + 1
    BY EmptySeq, SearchIndexAssumption
  <2>. QED
    BY <2>1, <2>2 DEF VectorsInOrder, IndexTypeOK
<1>2. ASSUME NEW d \in Docs, EmbedBatch(d) PROVE VectorsInOrder'
  <2>1. job[d] # NoJob /\ job[d].batch <= Chunks[d]
    BY <1>2, NoRunIsIdle DEF EmbedBatch
  <2>2. PICK got \in {<<job[d].batch>>, <<>>} :
          job' = [job EXCEPT ![d].batch = @ + 1, ![d].vectors = @ \o got]
    BY <1>2 DEF EmbedBatch
  <2>. DEFINE v == job[d].vectors
              w == v \o got
  <2>3. /\ w \in Seq(Nat) /\ Len(w) = Len(v) + Len(got) /\ Len(got) \in {0, 1}
        /\ \A i \in 1..Len(v) : w[i] = v[i]
        /\ Len(got) = 1 => w[Len(v) + 1] = job[d].batch
    BY <2>1, BatchVectors
  <2>4. /\ job'[d].batch = job[d].batch + 1 /\ job'[d].vectors = w
        /\ \A e \in Docs \ {d} : job'[e] = job[e]
    BY <2>1, <2>2 DEF IndexTypeOK
  <2>5. job[d].batch \in Nat /\ Chunks[d] \in Nat /\ Len(v) \in Nat
    BY <2>1, RunFields, SearchIndexAssumption
  <2>. HIDE DEF v, w
  <2>6. job'[d].batch <= Chunks[d] + 1 /\ Len(w) < job'[d].batch
    <3>1. Len(v) < job[d].batch
      BY <2>1 DEF VectorsInOrder, v
    <3>2. Len(v) + Len(got) < job[d].batch + 1
      BY <2>3, <2>5, <3>1, CountStep
    <3>3. job[d].batch + 1 <= Chunks[d] + 1
      BY <2>1, <2>5
    <3>. QED
      BY <2>3, <2>4, <2>5, <3>2, <3>3
  <2>7. ASSUME Len(w) = job'[d].batch - 1, NEW i \in 1..Len(w) PROVE w[i] = i
    <3>1. Len(got) = 1 /\ Len(v) = job[d].batch - 1
      <4>1. Len(v) < job[d].batch
        BY <2>1 DEF VectorsInOrder, v
      <4>2. Len(v) + Len(got) = (job[d].batch + 1) - 1
        BY <2>3, <2>4, <2>7, Zenon
      <4>. QED
        BY <2>3, <2>5, <4>1, <4>2, CountStep
    <3>2. CASE i \in 1..Len(v)
      BY <2>1, <2>3, <3>1, <3>2 DEF VectorsInOrder, v
    <3>3. CASE i = Len(v) + 1
      BY <2>3, <2>5, <3>1, <3>3
    <3>. QED
      BY <2>3, <2>5, <2>7, <3>1, <3>2, <3>3
  <2>. QED
    BY <2>4, <2>6, <2>7 DEF VectorsInOrder
<1>3. ASSUME NEW d \in Docs, IndexingFails(d) \/ Upsert(d) PROVE VectorsInOrder'
  <2>1. job' = [job EXCEPT ![d] = NoJob]
    BY <1>3 DEF IndexingFails, Upsert
  <2>. QED
    BY <2>1 DEF VectorsInOrder, IndexTypeOK
<1>4. CASE UNCHANGED indexVars
  BY <1>4 DEF indexVars, VectorsInOrder
<1>. QED
  BY <1>1, <1>2, <1>3, <1>4 DEF IndexNext

(* Only an upsert of a whole document writes, and it replaces by id.          *)
LEMMA PointsStay ==
  IndexTypeOK /\ IndexInv /\ [IndexNext]_indexVars => PointsAreChunks' /\ NoChunkMissing'
<1>. SUFFICES ASSUME IndexTypeOK, IndexInv, [IndexNext]_indexVars
              PROVE  PointsAreChunks' /\ NoChunkMissing'
  OBVIOUS
<1>1. CASE UNCHANGED <<points, indexed>>
  BY <1>1 DEF IndexInv, PointsAreChunks, NoChunkMissing
<1>2. ASSUME NEW d \in Docs, Upsert(d), AllEmbedded(d)
      PROVE  PointsAreChunks' /\ NoChunkMissing'
  <2>. DEFINE new(s) == AllPoints(d, s)
  <2>1. PICK s \in Interpreters :
          /\ points' = {p \in points : \A q \in new(s) : q.id # p.id} \cup new(s)
          /\ indexed' = [indexed EXCEPT ![d] = @ \cup {s}]
    BY <1>2, UpsertWrites DEF IndexInv
  <2>2. /\ \A e \in Docs : indexed[e] \subseteq indexed'[e]
        /\ \A e \in Docs \ {d} : indexed'[e] = indexed[e]
        /\ s \in indexed'[d]
    BY <2>1 DEF IndexTypeOK
  <2>3. \A q \in new(s) :
          /\ q.doc = d /\ q.chunk \in 1..Chunks[d] /\ q.vector = q.chunk
          /\ q.id = PointId(d, s, q.chunk)
          /\ q = [id |-> PointId(d, s, q.chunk), doc |-> d, chunk |-> q.chunk,
                  vector |-> q.chunk]
    BY DEF AllPoints
  <2>4. \A i \in 1..Chunks[d] : \E q \in new(s) :
          q.doc = d /\ q.chunk = i /\ q.id = PointId(d, s, i)
    <3>. SUFFICES ASSUME NEW i \in 1..Chunks[d]
                  PROVE  \E q \in new(s) :
                           q.doc = d /\ q.chunk = i /\ q.id = PointId(d, s, i)
      OBVIOUS
    <3>. DEFINE q == [id |-> PointId(d, s, i), doc |-> d, chunk |-> i, vector |-> i]
    <3>1. q \in new(s)
      BY DEF AllPoints
    <3>. QED
      BY <3>1
  <2>5. ASSUME NEW p \in points'
        PROVE  /\ p.chunk \in 1..Chunks[p.doc] /\ p.vector = p.chunk
               /\ \E z \in indexed'[p.doc] : p.id = PointId(p.doc, z, p.chunk)
    <3>1. CASE p \in new(s)
      BY <2>2, <2>3, <3>1
    <3>2. CASE p \in points
      <4>1. p.doc \in Docs
        BY <3>2 DEF IndexTypeOK
      <4>. QED
        BY <2>2, <3>2, <4>1 DEF IndexInv, PointsAreChunks
    <3>. QED
      BY <2>1, <3>1, <3>2
  <2>6. ASSUME NEW p \in points', NEW q \in points', p.id = q.id PROVE p = q
    <3>1. CASE p \in new(s) /\ q \in new(s)
      <4>1. p.chunk = q.chunk
        BY <2>3, <2>6, <3>1 DEF PointId
      <4>. QED
        BY <2>3, <3>1, <4>1
    <3>2. CASE p \notin new(s) /\ q \notin new(s)
      BY <2>1, <2>6, <3>2 DEF IndexInv, PointsAreChunks
    <3>3. CASE p \in new(s) /\ q \notin new(s)
      BY <2>1, <2>6, <3>3
    <3>4. CASE p \notin new(s) /\ q \in new(s)
      BY <2>1, <2>6, <3>4
    <3>. QED
      BY <3>1, <3>2, <3>3, <3>4
  <2>7. PointsAreChunks'
    BY <2>5, <2>6 DEF PointsAreChunks, PointId
  <2>8. ASSUME NEW e \in Docs, OwnName(e), indexed'[e] # {}, NEW i \in 1..Chunks[e]
        PROVE  \E p \in points' : p.doc = e /\ p.chunk = i
    <3>1. CASE e = d
      BY <2>1, <2>4, <3>1
    <3>2. CASE e # d
      <4>1. PICK p \in points : p.doc = e /\ p.chunk = i
        BY <2>2, <2>8, <3>2 DEF IndexInv, NoChunkMissing
      <4>2. PICK z \in indexed[e] : p.id = PointId(e, z, i)
        BY <4>1 DEF IndexInv, PointsAreChunks
      <4>3. NameOf[d] # NameOf[e]
        BY <2>8, <3>2 DEF OwnName
      <4>4. \A q \in new(s) : q.id # p.id
        BY <2>3, <4>2, <4>3 DEF PointId
      <4>. QED
        BY <2>1, <4>1, <4>4
    <3>. QED
      BY <3>1, <3>2
  <2>9. NoChunkMissing'
    BY <2>8 DEF NoChunkMissing, OwnName
  <2>. QED
    BY <2>7, <2>9
<1>3. ASSUME NEW d \in Docs, Upsert(d), ~AllEmbedded(d)
      PROVE  UNCHANGED <<points, indexed>>
  BY <1>3 DEF Upsert
<1>4. ASSUME NEW d \in Docs,
             (\E s \in Interpreters : IndexDocument(d, s)) \/ EmbedBatch(d) \/ IndexingFails(d)
      PROVE  UNCHANGED <<points, indexed>>
  BY <1>4 DEF IndexDocument, EmbedBatch, IndexingFails
<1>5. UNCHANGED indexVars => UNCHANGED <<points, indexed>>
  BY DEF indexVars
<1>. QED
  BY <1>1, <1>2, <1>3, <1>4, <1>5 DEF IndexNext

LEMMA IndexInvNext ==
  IndexTypeOK /\ IndexInv /\ [IndexNext]_indexVars => IndexTypeOK' /\ IndexInv'
  BY IndexTypesNext, VectorsStay, PointsStay DEF IndexInv

(* The variables of the index keep their types.                               *)
THEOREM IndexTypes == IndexSpec => [](IndexTypeOK /\ IndexInv)
<1>1. IndexInit => IndexTypeOK /\ IndexInv
  BY IndexTypesInit, IndexInvInit
<1>. QED
  BY <1>1, IndexInvNext, PTL DEF IndexSpec

LEMMA FoundByInv == IndexTypeOK /\ IndexInv => IndexedIsFound
<1>. SUFFICES ASSUME IndexTypeOK, IndexInv,
                     NEW d \in Docs, OwnName(d), indexed[d] # {}
              PROVE  {p.chunk : p \in {q \in points : q.doc = d /\ q.vector = q.chunk}}
                       = 1..Chunks[d]
  BY DEF IndexedIsFound
<1>1. \A p \in points : p.vector = p.chunk /\ p.chunk \in 1..Chunks[p.doc]
  BY DEF IndexInv, PointsAreChunks
<1>2. \A i \in 1..Chunks[d] : \E p \in points : p.doc = d /\ p.chunk = i
  BY DEF IndexInv, NoChunkMissing
<1>. QED
  BY <1>1, <1>2

(* The copies of a chunk are of different interpreters.                       *)
LEMMA CopiesByInv == IndexTypeOK /\ IndexInv => CopiesBounded
<1>. SUFFICES ASSUME IndexTypeOK, IndexInv, NEW d \in Docs, NEW i \in 1..Chunks[d]
              PROVE  Cardinality({p \in points : p.doc = d /\ p.chunk = i})
                       <= Cardinality(indexed[d])
  BY DEF CopiesBounded
<1>. DEFINE C == {p \in points : p.doc = d /\ p.chunk = i}
            f == [p \in C |-> p.id[1]]
<1>1. ASSUME NEW p \in C PROVE f[p] \in indexed[d] /\ p.id = PointId(d, f[p], i)
  <2>1. PICK s \in indexed[d] : p.id = PointId(d, s, i)
    BY DEF IndexInv, PointsAreChunks
  <2>2. p.id[1] = s
    BY <2>1 DEF PointId
  <2>. QED
    BY <2>1, <2>2
<1>2. \A p, q \in C : f[p] = f[q] => p = q
  <2>. SUFFICES ASSUME NEW p \in C, NEW q \in C, f[p] = f[q] PROVE p = q
    OBVIOUS
  <2>1. p.id = q.id
    BY <1>1 DEF PointId
  <2>. QED
    BY <2>1 DEF IndexInv, PointsAreChunks
<1>3. f \in Injection(C, indexed[d])
  <2>1. f \in [C -> indexed[d]]
    BY <1>1
  <2>. QED
    BY <1>2, <2>1 DEF Injection, IsInjective
<1>4. IsFiniteSet(indexed[d])
  BY DEF IndexTypeOK
<1>. HIDE DEF C, f
<1>5. Cardinality(C) <= Cardinality(indexed[d])
  BY <1>3, <1>4, FS_Injection
<1>. QED
  BY <1>5 DEF C

(* What was indexed keeps all its chunks, whatever is indexed after it.       *)
THEOREM IndexedStaysFound == IndexSpec => []IndexedIsFound
  BY IndexTypes, FoundByInv, PTL

(* There are as many copies of a chunk as interpreters that made one.         *)
THEOREM CopiesAreOfInterpreters == IndexSpec => []CopiesBounded
  BY IndexTypes, CopiesByInv, PTL

-----------------------------------------------------------------------------
(* Research: what a search gives is of the workspaces and filenames it names. *)

LEMMA HybridMatches ==
  ASSUME NEW w, NEW names, NEW R \in SearchHybrid(w, names)
  PROVE  R \subseteq Matching(w, names)
<1>1. PICK heard \in SUBSET names : R \in Best(Matching(w, heard), TopK)
  BY DEF SearchHybrid
<1>2. R \subseteq Matching(w, heard)
  BY <1>1 DEF Best
<1>. QED
  BY <1>2 DEF Matching

LEMMA AllMatches ==
  ASSUME NEW w, NEW R \in SearchAll(w)
  PROVE  R \subseteq Matching(w, {NameOf[d] : d \in Docs})
  BY DEF SearchAll, Best

LEMMA ToolMatches ==
  ASSUME NEW w, NEW names, NEW R \in SearchTool(w, names)
  PROVE  R \subseteq Matching(w, names)
<1>. DEFINE found == {f \in [names -> SUBSET points] :
                        \A n \in names : f[n] \in SearchHybrid(w, {n})}
<1>1. PICK f \in found :
        \E Q \in OncePerText(UNION {f[n] : n \in names}) : R \in Best(Q, TopK)
  BY DEF SearchTool
<1>2. R \subseteq UNION {f[n] : n \in names}
  BY <1>1 DEF OncePerText, Best
<1>3. ASSUME NEW p \in R PROVE p \in Matching(w, names)
  <2>1. PICK n \in names : p \in f[n]
    BY <1>2, <1>3
  <2>2. f[n] \subseteq Matching(w, {n})
    BY <1>1, HybridMatches
  <2>. QED
    BY <2>1, <2>2 DEF Matching
<1>. QED
  BY <1>3

(* What a goal is answered with is indexed, and with filenames of one of them *)
LEMMA AnalyzeMatches ==
  ASSUME NEW names, NEW R \in Analyze(names), NEW p \in R
  PROVE  p \in points /\ (names # {} => NameOf[p.doc] \in names)
<1>1. CASE names = {}
  <2>1. PICK Q \in SearchAll(Workspaces) : R \in OncePerText(Q)
    BY <1>1 DEF Analyze
  <2>2. R \subseteq Q
    BY <2>1 DEF OncePerText
  <2>. QED
    BY <1>1, <2>1, <2>2, AllMatches DEF Matching
<1>2. CASE names # {}
  <2>1. R \in SearchTool(Workspaces, names)
    BY <1>2 DEF Analyze
  <2>. QED
    BY <2>1, ToolMatches DEF Matching
<1>. QED
  BY <1>1, <1>2

(* ... and what the task retrieves is of its workspace.                       *)
LEMMA RetrieveMatches ==
  ASSUME NEW names, NEW R \in Retrieve(names), NEW p \in R
  PROVE  /\ p \in points /\ HomeOf[p.doc] = Workspace
         /\ names # {} => NameOf[p.doc] \in names
<1>1. CASE names = {}
  <2>1. R \in SearchAll({Workspace})
    BY <1>1 DEF Retrieve
  <2>. QED
    BY <1>1, <2>1, AllMatches DEF Matching
<1>2. CASE names # {}
  <2>1. R \in SearchHybrid({Workspace}, names)
    BY <1>2 DEF Retrieve
  <2>. QED
    BY <2>1, HybridMatches DEF Matching
<1>. QED
  BY <1>1, <1>2

ResearchInv == ResearchTypeOK /\ IndexInv /\ ScopeInv

LEMMA ResearchBegins == ResearchInit => ResearchInv
<1>. SUFFICES ASSUME ResearchInit PROVE ResearchInv
  OBVIOUS
<1>1. IndexTypeOK /\ IndexInv
  BY IndexTypesInit, IndexInvInit DEF ResearchInit
<1>. QED
  BY <1>1 DEF ResearchInit, ResearchInv, ResearchTypeOK, GoalTypeOK, ScopeInv, NamesAreTheSessions,
              AnswerInScope, NoGoal

(* The search at the end of a goal.                                           *)
LEMMA AnswerKeeps ==
  ASSUME ResearchTypeOK, ScopeInv, Answer
  PROVE  GoalTypeOK' /\ ScopeInv'
<1>1. PICK R : /\ R \in IF goal.path = "ANALYZE" THEN Analyze(goal.names)
                                                 ELSE Retrieve(goal.names)
               /\ goal' = [goal EXCEPT !.at = "done", !.answer = R]
  BY DEF Answer
<1>2. R \in Analyze(goal.names) \/ R \in Retrieve(goal.names)
  BY <1>1
<1>3. \A p \in R : p \in points /\ (goal.names # {} => NameOf[p.doc] \in goal.names)
  BY <1>2, AnalyzeMatches, RetrieveMatches
<1>4. goal.path = "REASON" => \A p \in R : HomeOf[p.doc] = Workspace
  <2>. SUFFICES ASSUME goal.path = "REASON", NEW p \in R PROVE HomeOf[p.doc] = Workspace
    OBVIOUS
  <2>1. R \in Retrieve(goal.names)
    BY <1>1
  <2>. QED
    BY <2>1, RetrieveMatches
<1>5. R \subseteq [id : Interpreters \X Names \X Nat, doc : Docs, chunk : Nat, vector : Nat]
  BY <1>3 DEF ResearchTypeOK, GoalTypeOK, IndexTypeOK, Names
<1>6. ~goal.failed => goal.names = {NameOf[d] : d \in goal.ids}
  BY DEF Answer, ScopeInv, NamesAreTheSessions, ResearchTypeOK, GoalTypeOK
<1>7. /\ goal'.at = "done" /\ goal'.answer = R /\ goal'.path = goal.path
      /\ goal'.ids = goal.ids /\ goal'.names = goal.names /\ goal'.failed = goal.failed
  BY <1>1 DEF ResearchTypeOK, GoalTypeOK
<1>8. GoalTypeOK'
  BY <1>1, <1>5 DEF ResearchTypeOK, GoalTypeOK
<1>9. NamesAreTheSessions'
  BY <1>6, <1>7 DEF NamesAreTheSessions
<1>10. ASSUME NEW p \in R, goal.ids # {}, ~goal.failed
       PROVE  \E d \in goal.ids : NameOf[p.doc] = NameOf[d]
  BY <1>3, <1>6, <1>10
<1>11. AnswerInScope'
  BY <1>4, <1>7, <1>10 DEF AnswerInScope
<1>. QED
  BY <1>8, <1>9, <1>11 DEF ScopeInv

LEMMA ResearchGoesOn ==
  ResearchInv /\ [ResearchNext]_researchVars => ResearchInv'
<1>. SUFFICES ASSUME ResearchInv, [ResearchNext]_researchVars
              PROVE  ResearchInv'
  OBVIOUS
<1>. USE DEF ResearchInv
<1>1. IndexTypeOK' /\ IndexInv'
  <2>1. [IndexNext]_indexVars
    BY DEF ResearchNext, researchVars, CreateGoal, ReadNames, NamesFail, GetEmbedding,
           GetVoyageQueryVector, Answer, SearchFails, NextGoal
  <2>. QED
    BY <2>1, IndexInvNext DEF ResearchTypeOK, GoalTypeOK
<1>2. GoalTypeOK' /\ ScopeInv' => ResearchInv'
  BY <1>1 DEF ResearchTypeOK, GoalTypeOK
<1>3. UNCHANGED goal => GoalTypeOK' /\ ScopeInv'
  BY DEF ResearchTypeOK, GoalTypeOK, ScopeInv, NamesAreTheSessions, AnswerInScope
<1>4. goal' = NoGoal => GoalTypeOK' /\ ScopeInv'
  BY DEF NoGoal, GoalTypeOK, ScopeInv, NamesAreTheSessions, AnswerInScope
<1>5. ASSUME NEW path \in {"ANALYZE", "REASON"}, NEW D \in Chosen, CreateGoal(path, D)
      PROVE  GoalTypeOK' /\ ScopeInv'
  <2>1. goal' = [NoGoal EXCEPT !.at = "names", !.path = path, !.ids = D]
        /\ D \in SUBSET Docs
    BY <1>5, ResearchAssumption DEF CreateGoal
  <2>. QED
    BY <2>1 DEF NoGoal, GoalTypeOK, ScopeInv, NamesAreTheSessions, AnswerInScope
<1>6. ASSUME ReadNames PROVE GoalTypeOK' /\ ScopeInv'
  <2>1. {NameOf[d] : d \in goal.ids} \subseteq Names
    BY DEF ResearchTypeOK, GoalTypeOK, Names
  <2>2. goal' = [goal EXCEPT !.at = "embed", !.names = {NameOf[d] : d \in goal.ids}]
    BY <1>6 DEF ReadNames
  <2>3. GoalTypeOK'
    BY <2>1, <2>2 DEF ResearchTypeOK, GoalTypeOK
  <2>. QED
    BY <2>2, <2>3 DEF ResearchTypeOK, GoalTypeOK, ScopeInv, NamesAreTheSessions, AnswerInScope
<1>7. ASSUME goal.at # "names",
             \E a \in {"search", "done"} : goal' = [goal EXCEPT !.at = a],
             goal.at \in {"embed", "search"}
      PROVE  GoalTypeOK' /\ ScopeInv'
  BY <1>7 DEF ResearchTypeOK, GoalTypeOK, ScopeInv, NamesAreTheSessions, AnswerInScope
<1>8. ASSUME NamesFail PROVE GoalTypeOK' /\ ScopeInv'
  <2>1. ASSUME goal' = [goal EXCEPT !.at = "embed", !.failed = TRUE]
        PROVE  GoalTypeOK' /\ ScopeInv'
    BY <2>1 DEF ResearchTypeOK, GoalTypeOK, ScopeInv, NamesAreTheSessions, AnswerInScope
  <2>. QED
    BY <1>4, <1>8, <2>1 DEF NamesFail
<1>9. ASSUME GetEmbedding \/ GetVoyageQueryVector \/ SearchFails
      PROVE  GoalTypeOK' /\ ScopeInv'
  BY <1>4, <1>7, <1>9 DEF GetEmbedding, GetVoyageQueryVector, SearchFails
<1>10. ASSUME Answer PROVE GoalTypeOK' /\ ScopeInv'
  BY <1>10, AnswerKeeps DEF ResearchTypeOK, GoalTypeOK
<1>11. ASSUME NextGoal PROVE GoalTypeOK' /\ ScopeInv'
  BY <1>4, <1>11 DEF NextGoal
<1>. QED
  BY <1>2, <1>3, <1>5, <1>6, <1>8, <1>9, <1>10, <1>11 DEF ResearchNext, researchVars

(* A goal is answered from its session's documents, or those that share a     *)
(* filename with them, and the task's answers are of its workspace.           *)
THEOREM AnswersAreInScope == ResearchSpec => []AnswerInScope
<1>1. ResearchInv => AnswerInScope
  BY DEF ResearchInv, ScopeInv
<1>. QED
  BY <1>1, ResearchBegins, ResearchGoesOn, PTL DEF ResearchSpec

-----------------------------------------------------------------------------
(* DeadlineDates: the calendar, for every date.                               *)

LEMMA LeastNumber ==
  ASSUME NEW S, S \subseteq Nat, S # {}
  PROVE  \E m \in S : \A k \in S : m <= k
<1>1. PICK m \in S : \A k \in S : ~(<<k, m>> \in OpToRel(<, Nat))
  BY NatLessThanWellFounded, WFMin
<1>2. \A k \in S : ~(k < m)
  BY <1>1 DEF OpToRel
<1>. QED
  BY <1>2

LEMMA GreatestNumber ==
  ASSUME NEW n \in Nat, NEW S, S \subseteq 0..n, S # {}
  PROVE  \E m \in S : \A k \in S : k <= m
<1>. DEFINE T == {n - k : k \in S}
<1>1. T \subseteq Nat /\ T # {}
  <2>1. \A k \in S : n - k \in Nat
    OBVIOUS
  <2>. QED
    BY <2>1
<1>. HIDE DEF T
<1>2. PICK l \in T : \A k \in T : l <= k
  BY <1>1, LeastNumber
<1>3. PICK m \in S : l = n - m
  BY <1>2 DEF T
<1>4. \A k \in S : n - m <= n - k
  BY <1>2, <1>3 DEF T
<1>. QED
  BY <1>4

(* A day of the calendar.                                                     *)
IsDay(t) == t \in AnyDate /\ Exists(t)

LEMMA DatesOfMonth ==
  ASSUME NEW y \in Nat, NEW m \in 1..12
  PROVE  MonthDays(y, m) \in 28..31
  BY DEF MonthDays

LEMMA YearDays ==
  ASSUME NEW y \in Nat
  PROVE  y \div 4 - y \div 100 + y \div 400
           = (y - 1) \div 4 - (y - 1) \div 100 + (y - 1) \div 400 + (IF Leap(y) THEN 1 ELSE 0)
<1>1. y \div 4 - (y - 1) \div 4 = IF y % 4 = 0 THEN 1 ELSE 0
  OBVIOUS
<1>2. y \div 100 - (y - 1) \div 100 = IF y % 100 = 0 THEN 1 ELSE 0
  OBVIOUS
<1>3. y \div 400 - (y - 1) \div 400 = IF y % 400 = 0 THEN 1 ELSE 0
  OBVIOUS
<1>4. (y % 400 = 0 => y % 100 = 0) /\ (y % 100 = 0 => y % 4 = 0)
  OBVIOUS
<1>. QED
  BY <1>1, <1>2, <1>3, <1>4 DEF Leap

LEMMA MonthStep ==
  ASSUME NEW y \in Nat, NEW m \in 1..11
  PROVE  DaysBeforeMonth[m + 1] + (IF m + 1 > 2 /\ Leap(y) THEN 1 ELSE 0)
           = DaysBeforeMonth[m] + (IF m > 2 /\ Leap(y) THEN 1 ELSE 0) + MonthDays(y, m)
<1>1. \/ m = 1 \/ m = 2 \/ m = 3 \/ m = 4 \/ m = 5 \/ m = 6 \/ m = 7 \/ m = 8
      \/ m = 9 \/ m = 10 \/ m = 11
  OBVIOUS
<1>. QED
  BY <1>1 DEF DaysBeforeMonth, MonthDays

DaysToYear(y) == 365 * (y - 1) + (y - 1) \div 4 - (y - 1) \div 100 + (y - 1) \div 400
DaysToMonth(y, m) == DaysBeforeMonth[m] + (IF m > 2 /\ Leap(y) THEN 1 ELSE 0)

LEMMA OrdinalOf ==
  ASSUME NEW y \in Nat, NEW m \in 1..12, NEW d \in Nat
  PROVE  /\ Ordinal([y |-> y, m |-> m, d |-> d]) = DaysToYear(y) + DaysToMonth(y, m) + d
         /\ DaysToYear(y) \in Int /\ DaysToMonth(y, m) \in Int
<1>1. DaysToYear(y) \in Int
  BY DEF DaysToYear
<1>2. DaysBeforeMonth[m] \in Int
  <2>1. \/ m = 1 \/ m = 2 \/ m = 3 \/ m = 4 \/ m = 5 \/ m = 6 \/ m = 7 \/ m = 8
        \/ m = 9 \/ m = 10 \/ m = 11 \/ m = 12
    OBVIOUS
  <2>. QED
    BY <2>1 DEF DaysBeforeMonth
<1>3. DaysToMonth(y, m) \in Int
  BY <1>2 DEF DaysToMonth
<1>. DEFINE Late == IF m > 2 /\ Leap(y) THEN 1 ELSE 0
<1>4. Late \in Int
  OBVIOUS
<1>5. Ordinal([y |-> y, m |-> m, d |-> d]) = DaysToYear(y) + DaysBeforeMonth[m] + Late + d
  BY DEF Ordinal, DaysToYear
<1>6. DaysToMonth(y, m) = DaysBeforeMonth[m] + Late
  BY DEF DaysToMonth
<1>. HIDE DEF Late
<1>. QED
  BY <1>1, <1>2, <1>3, <1>4, <1>5, <1>6

(* The next day is one, and its number the next.                              *)
LEMMA NextDayIsNext ==
  ASSUME NEW t, IsDay(t)
  PROVE  IsDay(NextDay(t)) /\ Ordinal(NextDay(t)) = Ordinal(t) + 1
<1>1. /\ t.y \in Nat /\ t.m \in 1..12 /\ t.d \in Nat
      /\ 1 <= t.d /\ t.d <= MonthDays(t.y, t.m)
      /\ t = [y |-> t.y, m |-> t.m, d |-> t.d]
  BY DEF IsDay, Exists, AnyDate
<1>2. MonthDays(t.y, t.m) \in 28..31
  BY <1>1, DatesOfMonth
<1>3. /\ Ordinal(t) = DaysToYear(t.y) + DaysToMonth(t.y, t.m) + t.d
      /\ DaysToYear(t.y) \in Int /\ DaysToMonth(t.y, t.m) \in Int
  BY <1>1, OrdinalOf
<1>4. CASE t.d < MonthDays(t.y, t.m)
  <2>1. NextDay(t) = [y |-> t.y, m |-> t.m, d |-> t.d + 1]
    BY <1>1, <1>4 DEF NextDay
  <2>2. IsDay(NextDay(t))
    BY <1>1, <1>2, <1>4, <2>1 DEF IsDay, Exists, AnyDate
  <2>3. Ordinal(NextDay(t)) = DaysToYear(t.y) + DaysToMonth(t.y, t.m) + (t.d + 1)
    BY <1>1, <2>1, OrdinalOf
  <2>. QED
    BY <1>1, <1>3, <2>2, <2>3
<1>5. CASE t.d = MonthDays(t.y, t.m) /\ t.m < 12
  <2>1. NextDay(t) = [y |-> t.y, m |-> t.m + 1, d |-> 1] /\ t.m + 1 \in 1..12
    <3>1. ~(t.d < MonthDays(t.y, t.m))
      BY <1>1, <1>2, <1>5
    <3>2. NextDay(t) = [t EXCEPT !.m = @ + 1, !.d = 1]
      BY <1>5, <3>1 DEF NextDay
    <3>. DEFINE n == t.m + 1
                u == [t EXCEPT !.m = n, !.d = 1]
    <3>3. n \in Nat
      BY <1>1
    <3>. HIDE DEF n
    <3>4. u \in AnyDate /\ u.y = t.y /\ u.m = n /\ u.d = 1
      BY <3>3 DEF IsDay, AnyDate
    <3>. HIDE DEF u
    <3>5. u = [y |-> t.y, m |-> n, d |-> 1]
      BY <3>4 DEF AnyDate
    <3>. QED
      BY <1>1, <1>5, <3>2, <3>5 DEF u, n
  <2>2. MonthDays(t.y, t.m + 1) \in 28..31
    BY <1>1, <2>1, DatesOfMonth
  <2>3. IsDay(NextDay(t))
    BY <1>1, <2>1, <2>2 DEF IsDay, Exists, AnyDate
  <2>4. DaysToMonth(t.y, t.m + 1) = DaysToMonth(t.y, t.m) + MonthDays(t.y, t.m)
    BY <1>1, <1>5, MonthStep DEF DaysToMonth
  <2>5. Ordinal(NextDay(t)) = DaysToYear(t.y) + DaysToMonth(t.y, t.m + 1) + 1
    BY <1>1, <2>1, OrdinalOf
  <2>. QED
    BY <1>1, <1>2, <1>3, <1>5, <2>3, <2>4, <2>5
<1>6. CASE t.d = MonthDays(t.y, t.m) /\ t.m = 12
  <2>1. NextDay(t) = [y |-> t.y + 1, m |-> 1, d |-> 1] /\ t.d = 31
    BY <1>1, <1>2, <1>6 DEF NextDay, MonthDays
  <2>2. IsDay(NextDay(t))
    BY <1>1, <2>1 DEF IsDay, Exists, AnyDate, MonthDays
  <2>3. /\ DaysToMonth(t.y + 1, 1) = 0
        /\ DaysToMonth(t.y, 12) = 334 + (IF Leap(t.y) THEN 1 ELSE 0)
    BY DEF DaysBeforeMonth, DaysToMonth
  <2>4. DaysToYear(t.y + 1) = DaysToYear(t.y) + 365 + (IF Leap(t.y) THEN 1 ELSE 0)
    BY <1>1, YearDays DEF DaysToYear
  <2>5. Ordinal(NextDay(t)) = DaysToYear(t.y + 1) + DaysToMonth(t.y + 1, 1) + 1
    BY <1>1, <2>1, OrdinalOf
  <2>. QED
    BY <1>1, <1>3, <1>6, <2>1, <2>2, <2>3, <2>4, <2>5
<1>. QED
  BY <1>1, <1>2, <1>4, <1>5, <1>6

(* PlusDays is NextDay as often as it says.                                   *)
DayChain(t, n, g) == g = [k \in 0..n |-> IF k = 0 THEN t ELSE NextDay(g[k - 1])]

LEMMA DayChainExists ==
  ASSUME NEW t, NEW n \in Nat
  PROVE  \E g : DayChain(t, n, g)
<1>. DEFINE S == {m \in Nat : ~ \E g : DayChain(t, m, g)}
<1>1. CASE S = {}
  BY <1>1
<1>2. ASSUME S # {} PROVE FALSE
  <2>. HIDE DEF S
  <2>1. PICK m \in S : \A k \in S : m <= k
    <3>1. S \subseteq Nat
      BY DEF S
    <3>. QED
      BY <1>2, <3>1, LeastNumber
  <2>2. m \in Nat /\ ~ \E g : DayChain(t, m, g)
    BY DEF S
  <2>3. m # 0
    <3>1. DayChain(t, 0, [k \in 0..0 |-> t])
      BY DEF DayChain
    <3>. QED
      BY <2>2, <3>1
  <2>4. m - 1 \in Nat /\ ~(m <= m - 1)
    BY <2>2, <2>3
  <2>5. PICK g : DayChain(t, m - 1, g)
    <3>1. m - 1 \notin S
      BY <2>1, <2>4
    <3>. QED
      BY <2>4, <3>1 DEF S
  <2>. DEFINE h == [k \in 0..m |-> IF k = m THEN NextDay(g[m - 1]) ELSE g[k]]
  <2>6. \A k \in 0..m : h[k] = IF k = 0 THEN t ELSE NextDay(h[k - 1])
    BY <2>2, <2>3, <2>5 DEF DayChain
  <2>7. DayChain(t, m, h)
    BY <2>6 DEF DayChain
  <2>. QED
    BY <2>2, <2>7
<1>. QED
  BY <1>1, <1>2

LEMMA DayChainUnique ==
  ASSUME NEW t, NEW n \in Nat, NEW m \in 0..n, NEW g, DayChain(t, m, g),
         NEW h, DayChain(t, n, h)
  PROVE  \A k \in 0..m : g[k] = h[k]
<1>. DEFINE S == {k \in 0..m : g[k] # h[k]}
<1>1. ASSUME S # {} PROVE FALSE
  <2>. HIDE DEF S
  <2>1. PICK j \in S : \A k \in S : j <= k
    <3>1. S \subseteq Nat
      BY DEF S
    <3>. QED
      BY <1>1, <3>1, LeastNumber
  <2>2. j \in 0..m /\ g[j] # h[j]
    BY DEF S
  <2>3. j # 0
    BY <2>2 DEF DayChain
  <2>4. j - 1 \in 0..m /\ ~(j <= j - 1)
    BY <2>2, <2>3
  <2>5. g[j - 1] = h[j - 1]
    BY <2>1, <2>4 DEF S
  <2>. QED
    BY <2>2, <2>3, <2>5 DEF DayChain
<1>. QED
  BY <1>1

LEMMA PlusDaysStep ==
  ASSUME NEW t
  PROVE  /\ PlusDays(t, 0) = t
         /\ \A n \in Nat : PlusDays(t, n + 1) = NextDay(PlusDays(t, n))
<1>. DEFINE c(n) == CHOOSE g : DayChain(t, n, g)
<1>1. \A n \in Nat : DayChain(t, n, c(n)) /\ PlusDays(t, n) = c(n)[n]
  BY DayChainExists DEF PlusDays, DayChain
<1>2. PlusDays(t, 0) = t
  <2>1. DayChain(t, 0, c(0)) /\ PlusDays(t, 0) = c(0)[0]
    BY <1>1
  <2>. HIDE DEF c
  <2>. QED
    BY <2>1 DEF DayChain
<1>3. ASSUME NEW n \in Nat PROVE PlusDays(t, n + 1) = NextDay(PlusDays(t, n))
  <2>1. n + 1 \in Nat /\ n \in 0..n + 1
    OBVIOUS
  <2>2. DayChain(t, n + 1, c(n + 1)) /\ DayChain(t, n, c(n))
    BY <1>1, <2>1
  <2>. HIDE DEF c
  <2>3. c(n + 1)[n + 1] = NextDay(c(n + 1)[n])
    BY <2>2 DEF DayChain
  <2>4. c(n)[n] = c(n + 1)[n]
    BY <2>1, <2>2, DayChainUnique
  <2>. QED
    BY <1>1, <2>1, <2>3, <2>4
<1>. QED
  BY <1>2, <1>3

LEMMA PlusDaysIsDay ==
  ASSUME NEW t, IsDay(t), NEW n \in Nat
  PROVE  IsDay(PlusDays(t, n)) /\ Ordinal(PlusDays(t, n)) = Ordinal(t) + n
<1>. DEFINE P(k) == IsDay(PlusDays(t, k)) /\ Ordinal(PlusDays(t, k)) = Ordinal(t) + k
            S == {k \in Nat : ~P(k)}
<1>1. Ordinal(t) \in Int
  BY OrdinalOf DEF IsDay, AnyDate, Exists
<1>2. ASSUME S # {} PROVE FALSE
  <2>. HIDE DEF S
  <2>1. PICK m \in S : \A k \in S : m <= k
    <3>1. S \subseteq Nat
      BY DEF S
    <3>. QED
      BY <1>2, <3>1, LeastNumber
  <2>2. m \in Nat /\ ~P(m)
    BY DEF S
  <2>3. m # 0
    BY <1>1, <2>2, PlusDaysStep
  <2>4. m - 1 \in Nat /\ ~(m <= m - 1) /\ (m - 1) + 1 = m
    BY <2>2, <2>3
  <2>5. P(m - 1)
    BY <2>1, <2>4 DEF S
  <2>6. PlusDays(t, m) = NextDay(PlusDays(t, m - 1))
    BY <2>4, PlusDaysStep
  <2>7. IsDay(PlusDays(t, m)) /\ Ordinal(PlusDays(t, m)) = (Ordinal(t) + (m - 1)) + 1
    BY <2>5, <2>6, NextDayIsNext
  <2>. QED
    BY <1>1, <2>2, <2>4, <2>7
<1>. QED
  BY <1>2

(* A business day is the first weekday after the one before.                  *)
IsWeekday(n) == (n + 6) % 7 < 5

LEMMA WeekendIsShort ==
  ASSUME NEW n \in Int
  PROVE  IsWeekday(n + 1) \/ IsWeekday(n + 2) \/ IsWeekday(n + 3)
  BY DEF IsWeekday

LEMMA NextBusinessDayIs ==
  ASSUME NEW t, IsDay(t)
  PROVE  /\ IsDay(NextBusinessDay(t)) /\ Ordinal(t) \in Int
         /\ \E k \in 1..3 : /\ Ordinal(NextBusinessDay(t)) = Ordinal(t) + k
                            /\ IsWeekday(Ordinal(t) + k)
                            /\ \A j \in 1..k - 1 : ~IsWeekday(Ordinal(t) + j)
<1>. DEFINE ahead == {k \in 1..3 : IsBusinessDay(PlusDays(t, k))}
            k == CHOOSE k \in ahead : \A j \in ahead : k <= j
<1>1. Ordinal(t) \in Int
  BY OrdinalOf DEF IsDay, AnyDate, Exists
<1>2. \A j \in 1..3 : IsBusinessDay(PlusDays(t, j)) <=> IsWeekday(Ordinal(t) + j)
  BY PlusDaysIsDay DEF IsBusinessDay, Weekday, IsWeekday
<1>3. ahead # {} /\ ahead \subseteq Nat
  BY <1>1, <1>2, WeekendIsShort
<1>. HIDE DEF ahead
<1>4. k \in ahead /\ \A j \in ahead : k <= j
  <2>1. \E m \in ahead : \A j \in ahead : m <= j
    BY <1>3, LeastNumber
  <2>. QED
    BY <2>1
<1>5. NextBusinessDay(t) = PlusDays(t, k)
  BY DEF NextBusinessDay, ahead
<1>. HIDE DEF k
<1>6. k \in 1..3 /\ IsWeekday(Ordinal(t) + k)
  BY <1>2, <1>4 DEF ahead
<1>7. ASSUME NEW j \in 1..k - 1 PROVE ~IsWeekday(Ordinal(t) + j)
  <2>1. j \in 1..3 /\ ~(k <= j)
    BY <1>6
  <2>. QED
    BY <1>2, <1>4, <2>1 DEF ahead
<1>. QED
  BY <1>1, <1>5, <1>6, <1>7, PlusDaysIsDay

(* PlusBusinessDays is NextBusinessDay as often as it says.                   *)
DueChain(t, n, g) == g = [k \in 0..n |-> IF k = 0 THEN t ELSE NextBusinessDay(g[k - 1])]

LEMMA DueChainExists ==
  ASSUME NEW t, NEW n \in Nat
  PROVE  \E g : DueChain(t, n, g)
<1>. DEFINE S == {m \in Nat : ~ \E g : DueChain(t, m, g)}
<1>1. CASE S = {}
  BY <1>1
<1>2. ASSUME S # {} PROVE FALSE
  <2>. HIDE DEF S
  <2>1. PICK m \in S : \A k \in S : m <= k
    <3>1. S \subseteq Nat
      BY DEF S
    <3>. QED
      BY <1>2, <3>1, LeastNumber
  <2>2. m \in Nat /\ ~ \E g : DueChain(t, m, g)
    BY DEF S
  <2>3. m # 0
    <3>1. DueChain(t, 0, [k \in 0..0 |-> t])
      BY DEF DueChain
    <3>. QED
      BY <2>2, <3>1
  <2>4. m - 1 \in Nat /\ ~(m <= m - 1)
    BY <2>2, <2>3
  <2>5. PICK g : DueChain(t, m - 1, g)
    <3>1. m - 1 \notin S
      BY <2>1, <2>4
    <3>. QED
      BY <2>4, <3>1 DEF S
  <2>. DEFINE h == [k \in 0..m |-> IF k = m THEN NextBusinessDay(g[m - 1]) ELSE g[k]]
  <2>6. \A k \in 0..m : h[k] = IF k = 0 THEN t ELSE NextBusinessDay(h[k - 1])
    BY <2>2, <2>3, <2>5 DEF DueChain
  <2>7. DueChain(t, m, h)
    BY <2>6 DEF DueChain
  <2>. QED
    BY <2>2, <2>7
<1>. QED
  BY <1>1, <1>2

LEMMA DueChainUnique ==
  ASSUME NEW t, NEW n \in Nat, NEW m \in 0..n, NEW g, DueChain(t, m, g),
         NEW h, DueChain(t, n, h)
  PROVE  \A k \in 0..m : g[k] = h[k]
<1>. DEFINE S == {k \in 0..m : g[k] # h[k]}
<1>1. ASSUME S # {} PROVE FALSE
  <2>. HIDE DEF S
  <2>1. PICK j \in S : \A k \in S : j <= k
    <3>1. S \subseteq Nat
      BY DEF S
    <3>. QED
      BY <1>1, <3>1, LeastNumber
  <2>2. j \in 0..m /\ g[j] # h[j]
    BY DEF S
  <2>3. j # 0
    BY <2>2 DEF DueChain
  <2>4. j - 1 \in 0..m /\ ~(j <= j - 1)
    BY <2>2, <2>3
  <2>5. g[j - 1] = h[j - 1]
    BY <2>1, <2>4 DEF S
  <2>. QED
    BY <2>2, <2>3, <2>5 DEF DueChain
<1>. QED
  BY <1>1

LEMMA PlusBusinessDaysStep ==
  ASSUME NEW t
  PROVE  /\ PlusBusinessDays(t, 0) = t
         /\ \A n \in Nat : PlusBusinessDays(t, n + 1) = NextBusinessDay(PlusBusinessDays(t, n))
<1>. DEFINE c(n) == CHOOSE g : DueChain(t, n, g)
<1>1. \A n \in Nat : DueChain(t, n, c(n)) /\ PlusBusinessDays(t, n) = c(n)[n]
  BY DueChainExists DEF PlusBusinessDays, DueChain
<1>2. PlusBusinessDays(t, 0) = t
  <2>1. DueChain(t, 0, c(0)) /\ PlusBusinessDays(t, 0) = c(0)[0]
    BY <1>1
  <2>. HIDE DEF c
  <2>. QED
    BY <2>1 DEF DueChain
<1>3. ASSUME NEW n \in Nat
      PROVE  PlusBusinessDays(t, n + 1) = NextBusinessDay(PlusBusinessDays(t, n))
  <2>1. n + 1 \in Nat /\ n \in 0..n + 1
    OBVIOUS
  <2>2. DueChain(t, n + 1, c(n + 1)) /\ DueChain(t, n, c(n))
    BY <1>1, <2>1
  <2>. HIDE DEF c
  <2>3. c(n + 1)[n + 1] = NextBusinessDay(c(n + 1)[n])
    BY <2>2 DEF DueChain
  <2>4. c(n)[n] = c(n + 1)[n]
    BY <2>1, <2>2, DueChainUnique
  <2>. QED
    BY <1>1, <2>1, <2>3, <2>4
<1>. QED
  BY <1>2, <1>3

(* So many weekdays lie between.                                              *)
Weekdays(a, b) == {n \in a + 1..b : (n + 6) % 7 < 5}

LEMMA WeekdaysStep ==
  ASSUME NEW a \in Int, NEW b \in Int, a <= b, NEW k \in 1..3, IsWeekday(b + k),
         \A j \in 1..k - 1 : ~IsWeekday(b + j),
         IsFiniteSet(Weekdays(a, b))
  PROVE  /\ IsFiniteSet(Weekdays(a, b + k))
         /\ Cardinality(Weekdays(a, b + k)) = Cardinality(Weekdays(a, b)) + 1
<1>1. Weekdays(a, b + k) = Weekdays(a, b) \cup {b + k}
  <2>1. ASSUME NEW n \in a + 1..b + k, n > b, IsWeekday(n) PROVE n = b + k
    <3>1. n - b \in 1..k /\ n = b + (n - b)
      BY <2>1
    <3>2. n - b \notin 1..k - 1
      BY <2>1, <3>1
    <3>. QED
      BY <3>1, <3>2
  <2>2. \A n \in Weekdays(a, b + k) : n \in Weekdays(a, b) \cup {b + k}
    BY <2>1 DEF Weekdays, IsWeekday
  <2>3. \A n \in Weekdays(a, b) : n \in Weekdays(a, b + k)
    BY DEF Weekdays
  <2>4. b + k \in Weekdays(a, b + k)
    BY DEF Weekdays, IsWeekday
  <2>. QED
    BY <2>2, <2>3, <2>4
<1>2. b + k \notin Weekdays(a, b)
  BY DEF Weekdays
<1>. QED
  BY <1>1, <1>2, FS_AddElement

LEMMA PlusBusinessDaysCounts ==
  ASSUME NEW t, IsDay(t), NEW n \in Nat
  PROVE  LET due == PlusBusinessDays(t, n) IN
         /\ IsDay(due) /\ Cardinality(Weekdays(Ordinal(t), Ordinal(due))) = n
         /\ n > 0 => IsWeekday(Ordinal(due))
<1>. DEFINE D(k) == PlusBusinessDays(t, k)
            P(k) == /\ IsDay(D(k)) /\ Ordinal(t) <= Ordinal(D(k))
                    /\ IsFiniteSet(Weekdays(Ordinal(t), Ordinal(D(k))))
                    /\ Cardinality(Weekdays(Ordinal(t), Ordinal(D(k)))) = k
                    /\ k > 0 => IsWeekday(Ordinal(D(k)))
            S == {k \in Nat : ~P(k)}
<1>1. Ordinal(t) \in Int
  BY NextBusinessDayIs
<1>2. P(0)
  <2>1. D(0) = t
    BY PlusBusinessDaysStep
  <2>2. Weekdays(Ordinal(t), Ordinal(t)) = {}
    BY <1>1 DEF Weekdays
  <2>. QED
    BY <1>1, <2>1, <2>2, FS_EmptySet
<1>3. ASSUME NEW k \in Nat, P(k) PROVE P(k + 1)
  <2>1. D(k + 1) = NextBusinessDay(D(k))
    BY PlusBusinessDaysStep
  <2>. HIDE DEF D
  <2>2. PICK j \in 1..3 :
          /\ Ordinal(D(k + 1)) = Ordinal(D(k)) + j
          /\ IsWeekday(Ordinal(D(k)) + j)
          /\ \A i \in 1..j - 1 : ~IsWeekday(Ordinal(D(k)) + i)
    BY <1>3, <2>1, NextBusinessDayIs
  <2>3. IsDay(D(k + 1)) /\ Ordinal(D(k)) \in Int
    BY <1>3, <2>1, NextBusinessDayIs
  <2>4. /\ IsFiniteSet(Weekdays(Ordinal(t), Ordinal(D(k)) + j))
        /\ Cardinality(Weekdays(Ordinal(t), Ordinal(D(k)) + j)) = k + 1
    BY <1>1, <1>3, <2>2, <2>3, WeekdaysStep
  <2>5. Ordinal(t) <= Ordinal(D(k)) + j
    BY <1>1, <1>3, <2>3
  <2>. QED
    BY <2>2, <2>3, <2>4, <2>5
<1>4. ASSUME S # {} PROVE FALSE
  <2>. HIDE DEF S, P
  <2>1. PICK m \in S : \A k \in S : m <= k
    <3>1. S \subseteq Nat
      BY DEF S
    <3>. QED
      BY <1>4, <3>1, LeastNumber
  <2>2. m \in Nat /\ ~P(m) /\ m # 0
    BY <1>2, <2>1 DEF S
  <2>3. m - 1 \in Nat /\ ~(m <= m - 1) /\ (m - 1) + 1 = m
    BY <2>2
  <2>4. P(m - 1)
    BY <2>1, <2>3 DEF S
  <2>. QED
    BY <1>3, <2>2, <2>3, <2>4
<1>5. P(n)
  BY <1>4
<1>. QED
  BY <1>5

(* The same day, so many months on.                                           *)
LEMMA PlusMonthsCounts ==
  ASSUME NEW t \in AnyDate, t.m \in 1..12, NEW n \in Nat
  PROVE  LET due == PlusMonths(t, n) IN
         /\ due \in AnyDate /\ due.d = t.d
         /\ 12 * (due.y - t.y) + due.m - t.m = n
<1>. DEFINE years == (t.m + n - 1) \div 12
            month == ((t.m + n - 1) % 12) + 1
            year == t.y + years
<1>1. /\ years \in Nat /\ month \in Nat /\ t.y \in Nat /\ t.m \in Nat
      /\ 12 * years + month - t.m = n
  <2>1. t.y \in Nat /\ t.m \in Nat
    BY DEF AnyDate
  <2>2. t.m + n - 1 \in Nat
    BY <2>1
  <2>3. \A k \in Nat : k \div 12 \in Nat /\ k % 12 \in Nat /\ 12 * (k \div 12) + (k % 12) = k
    OBVIOUS
  <2>. QED
    BY <2>1, <2>2, <2>3
<1>2. PlusMonths(t, n) = [t EXCEPT !.y = year, !.m = month]
  BY DEF PlusMonths
<1>3. year \in Nat /\ 12 * (year - t.y) + month - t.m = n
  BY <1>1
<1>. HIDE DEF year, month
<1>4. [t EXCEPT !.y = year, !.m = month] \in AnyDate
  BY <1>1, <1>3 DEF AnyDate
<1>5. /\ [t EXCEPT !.y = year, !.m = month].y = year
      /\ [t EXCEPT !.y = year, !.m = month].m = month
      /\ [t EXCEPT !.y = year, !.m = month].d = t.d
  BY DEF AnyDate
<1>. QED
  BY <1>2, <1>3, <1>4, <1>5

-----------------------------------------------------------------------------
(* DeadlineDates: what is resolved, flagged and stored.                       *)

(* An obligation that did not raise has a date that is one and is due.        *)
LEMMA ResolvedIsDue ==
  ASSUME NEW item \in Items, ~Raises(item), ExecutionIsDate,
         execution \in ExecutionDates, execution # Unread
  PROVE  LET due == Resolve(item) IN
         /\ due \in AnyDate
         /\ due # NoDate =>
              /\ Exists(due)
              /\ Validated(item.on) => due = item.on
              /\ ~Validated(item.on) /\ item.unit = "business" =>
                   /\ Cardinality(Weekdays(Ordinal(execution), Ordinal(due))) = item.count
                   /\ item.count > 0 => IsWeekday(Ordinal(due))
              /\ ~Validated(item.on) /\ item.unit = "months" =>
                   /\ due.d = execution.d
                   /\ 12 * (due.y - execution.y) + due.m - execution.m = item.count
<1>. DEFINE due == Resolve(item)
<1>1. due # NoDate => Exists(due)
  BY DEF Raises
<1>2. item.count \in Nat /\ item.on \in AnyDate /\ NoDate \in AnyDate
  BY DeadlineDatesAssumption DEF AnyDate, NoDate
<1>3. CASE execution = NoDate
  BY <1>2, <1>3 DEF Resolve
<1>4. CASE execution # NoDate /\ Validated(item.on)
  BY <1>1, <1>2, <1>4 DEF Resolve
<1>5. CASE execution # NoDate /\ ~Validated(item.on)
  <2>1. IsDay(execution)
    BY <1>5, DeadlineDatesAssumption DEF ExecutionIsDate, IsDay
  <2>2. due = Relative(item)
    BY <1>5 DEF Resolve
  <2>3. CASE item.unit = "immediate"
    BY <1>1, <1>5, <2>1, <2>2, <2>3 DEF Relative, IsDay
  <2>4. CASE item.unit = "days" \/ item.unit = "weeks"
    <3>1. PICK n \in Nat : due = PlusDays(execution, n)
      BY <1>2, <2>2, <2>4 DEF Relative
    <3>. QED
      BY <1>1, <1>5, <2>1, <2>4, <3>1, PlusDaysIsDay DEF IsDay
  <2>5. CASE item.unit = "months"
    <3>1. due = PlusMonths(execution, item.count)
      BY <2>2, <2>5 DEF Relative
    <3>2. execution \in AnyDate /\ execution.m \in 1..12
      BY <2>1 DEF IsDay, Exists
    <3>. QED
      BY <1>1, <1>2, <1>5, <2>5, <3>1, <3>2, PlusMonthsCounts
  <2>6. CASE item.unit = "business"
    <3>1. due = PlusBusinessDays(execution, item.count)
      BY <2>2, <2>6 DEF Relative
    <3>. QED
      BY <1>1, <1>2, <1>5, <2>1, <2>6, <3>1, PlusBusinessDaysCounts DEF IsDay
  <2>7. CASE item.unit \notin {"immediate", "days", "weeks", "months", "business"}
    BY <1>2, <1>5, <2>2, <2>7 DEF Relative
  <2>. QED
    BY <2>3, <2>4, <2>5, <2>6, <2>7
<1>. QED
  BY <1>3, <1>4, <1>5

(* What is kept of an answer comes before the first that raises.              *)
LEMMA KeptIsPrefix ==
  ASSUME NEW n \in Nat, NEW items \in [1..n -> Items]
  PROVE  /\ Kept(items) \in Seq(Items)
         /\ \A k \in 1..Len(Kept(items)) : /\ k \in 1..n /\ Kept(items)[k] = items[k]
                                           /\ ~Raises(items[k])
<1>. DEFINE bad == {k \in DOMAIN items : Raises(items[k])}
<1>1. bad \subseteq 1..n /\ bad \subseteq Nat /\ items \in Seq(Items) /\ Len(items) = n
  OBVIOUS
<1>2. CASE bad = {}
  BY <1>1, <1>2 DEF Kept
<1>3. CASE bad # {}
  <2>. DEFINE b == CHOOSE k \in bad : \A j \in bad : k <= j
  <2>. HIDE DEF bad
  <2>1. b \in bad /\ \A j \in bad : b <= j
    <3>1. \E m \in bad : \A j \in bad : m <= j
      BY <1>1, <1>3, LeastNumber
    <3>. QED
      BY <3>1
  <2>2. Kept(items) = SubSeq(items, 1, b - 1)
    BY <1>3 DEF Kept, bad
  <2>. HIDE DEF b
  <2>3. b \in 1..n
    BY <1>1, <2>1
  <2>4. /\ SubSeq(items, 1, b - 1) \in Seq(Items)
        /\ Len(SubSeq(items, 1, b - 1)) = b - 1
        /\ \A k \in 1..b - 1 : SubSeq(items, 1, b - 1)[k] = items[k]
    <3>1. \A k \in 1..b - 1 : items[k] \in Items
      BY <2>3
    <3>2. \A k \in 1..(b - 1) - 1 + 1 : SubSeq(items, 1, b - 1)[k] = items[1 + k - 1]
      BY <2>3, <3>1, SubSeqProperties
    <3>. QED
      BY <2>3, <3>1, <3>2, SubSeqProperties
  <2>5. \A k \in 1..b - 1 : k \in 1..n /\ ~Raises(items[k])
    BY <2>1, <2>3 DEF bad
  <2>. QED
    BY <2>2, <2>4, <2>5
<1>. QED
  BY <1>2, <1>3

Collected == [item : Items, chunk : Parts, deadline : AnyDate]

LEMMA CollectedFields ==
  ASSUME collected \in Seq(Collected), NEW i \in DOMAIN collected
  PROVE  collected[i].item \in Items /\ collected[i].chunk \in Parts
<1>1. i \in 1..Len(collected)
  OBVIOUS
<1>2. collected[i] \in Collected
  BY <1>1, ElementOfSeq
<1>. QED
  BY <1>2 DEF Collected

LEMMA SameDutySymmetric ==
  ASSUME NEW v, NEW w, IsFiniteSet(v), IsFiniteSet(w)
  PROVE  SameDuty(v, w) <=> SameDuty(w, v)
<1>1. Cardinality(v) \in Nat /\ Cardinality(w) \in Nat
  BY FS_CardinalityType
<1>2. v \cap w = w \cap v
  OBVIOUS
<1>. QED
  BY <1>1, <1>2 DEF SameDuty

LEMMA ConflictingSymmetric ==
  ASSUME collected \in Seq(Collected), NEW i \in DOMAIN collected, NEW j \in DOMAIN collected
  PROVE  Conflicting(i, j) <=> Conflicting(j, i)
<1>1. collected[i].item \in Items /\ collected[j].item \in Items
  BY CollectedFields
<1>2. SameDuty(collected[i].item.words, collected[j].item.words)
        <=> SameDuty(collected[j].item.words, collected[i].item.words)
  BY <1>1, DeadlineDatesAssumption, SameDutySymmetric
<1>. QED
  BY <1>2 DEF Conflicting, SameDate

(* The flagged ones are those another contradicts.                            *)
LEMMA FlaggedAreConflicting ==
  ASSUME collected \in Seq(Collected)
  PROVE  /\ Flagged \subseteq DOMAIN collected
         /\ \A i \in DOMAIN collected :
              i \in Flagged <=> \E j \in DOMAIN collected \ {i} : Conflicting(i, j)
<1>1. DOMAIN collected \subseteq Nat
  OBVIOUS
<1>2. \A i, j : <<i, j>> \in Pairs <=> /\ i \in DOMAIN collected /\ j \in DOMAIN collected
                                       /\ i < j /\ Conflicting(i, j)
  BY DEF Pairs
<1>3. \A i : i \in Flagged <=> \E j : <<i, j>> \in Pairs \/ <<j, i>> \in Pairs
  <2>1. \A p \in Pairs : p = <<p[1], p[2]>>
    BY DEF Pairs
  <2>2. \A i : i \in Flagged <=> \E p \in Pairs : i = p[1] \/ i = p[2]
    BY DEF Flagged
  <2>3. ASSUME NEW i \in Flagged PROVE \E j : <<i, j>> \in Pairs \/ <<j, i>> \in Pairs
    <3>1. PICK p \in Pairs : i = p[1] \/ i = p[2]
      BY <2>2
    <3>2. <<i, p[2]>> \in Pairs \/ <<p[1], i>> \in Pairs
      BY <2>1, <3>1
    <3>. QED
      BY <3>2
  <2>4. ASSUME NEW i, NEW j, <<i, j>> \in Pairs PROVE i \in Flagged /\ j \in Flagged
    <3>1. <<i, j>>[1] = i /\ <<i, j>>[2] = j
      OBVIOUS
    <3>. QED
      BY <2>2, <2>4, <3>1
  <2>. QED
    BY <2>3, <2>4
<1>4. ASSUME NEW i \in DOMAIN collected, NEW j \in DOMAIN collected \ {i}, Conflicting(i, j)
      PROVE  i \in Flagged
  <2>1. CASE i < j
    BY <1>2, <1>3, <1>4, <2>1
  <2>2. CASE j < i
    BY <1>2, <1>3, <1>4, <2>2, ConflictingSymmetric
  <2>. QED
    BY <1>1, <2>1, <2>2
<1>5. ASSUME NEW i \in Flagged
      PROVE  i \in DOMAIN collected /\ \E j \in DOMAIN collected \ {i} : Conflicting(i, j)
  <2>1. PICK j : <<i, j>> \in Pairs \/ <<j, i>> \in Pairs
    BY <1>3
  <2>2. i \in DOMAIN collected /\ j \in DOMAIN collected \ {i}
    BY <1>1, <1>2, <2>1
  <2>. QED
    BY <1>2, <2>1, <2>2, ConflictingSymmetric
<1>. QED
  BY <1>4, <1>5

(* The last pair of an obligation is one of its pairs.                        *)
LEMMA PartnerConflicts ==
  ASSUME collected \in Seq(Collected), NEW i \in Flagged
  PROVE  \E j \in DOMAIN collected \ {i} : Conflicting(i, j) /\ Partner(i) = collected[j].chunk
<1>. DEFINE n == Len(collected)
            mine == {p \in Pairs : i \in {p[1], p[2]}}
            last == CHOOSE p \in mine : \A q \in mine : NotBefore(p, q)
<1>1. n \in Nat /\ DOMAIN collected = 1..n
  OBVIOUS
<1>2. \A p \in mine : /\ p = <<p[1], p[2]>> /\ p[1] \in 1..n /\ p[2] \in 1..n /\ p[1] < p[2]
                      /\ Conflicting(p[1], p[2]) /\ i \in {p[1], p[2]}
  BY DEF Pairs
<1>3. mine # {}
  BY DEF Flagged
<1>. HIDE DEF mine
<1>4. \E p \in mine : \A q \in mine : NotBefore(p, q)
  <2>. DEFINE S == {p[1] : p \in mine}
  <2>1. S \subseteq 0..n /\ S # {}
    BY <1>1, <1>2, <1>3
  <2>. HIDE DEF S
  <2>2. PICK a \in S : \A k \in S : k <= a
    BY <1>1, <2>1, GreatestNumber
  <2>. DEFINE T == {p[2] : p \in {q \in mine : q[1] = a}}
  <2>3. T \subseteq 0..n /\ T # {}
    <3>1. PICK p \in mine : p[1] = a
      BY <2>2 DEF S
    <3>. QED
      BY <1>1, <1>2, <3>1
  <2>. HIDE DEF T
  <2>4. PICK b \in T : \A k \in T : k <= b
    BY <1>1, <2>3, GreatestNumber
  <2>5. PICK p \in mine : p[1] = a /\ p[2] = b
    BY <2>4 DEF T
  <2>6. ASSUME NEW q \in mine PROVE NotBefore(p, q)
    <3>1. q[1] <= a /\ (q[1] = a => q[2] <= b)
      BY <2>2, <2>4 DEF S, T
    <3>2. /\ p[1] \in 1..n /\ p[2] \in 1..n /\ q[1] \in 1..n /\ q[2] \in 1..n
      BY <1>2
    <3>. QED
      BY <1>1, <2>5, <3>1, <3>2 DEF NotBefore
  <2>. QED
    BY <2>6
<1>5. last \in mine
  BY <1>4
<1>6. Partner(i) = collected[IF last[1] = i THEN last[2] ELSE last[1]].chunk
  BY DEF Partner, mine
<1>. HIDE DEF last
<1>7. CASE last[1] = i
  <2>1. last[2] \in DOMAIN collected \ {i} /\ Conflicting(i, last[2])
    BY <1>1, <1>2, <1>5, <1>7
  <2>. QED
    BY <1>6, <1>7, <2>1
<1>8. CASE last[1] # i
  <2>1. last[2] = i /\ last[1] \in DOMAIN collected \ {i} /\ i \in DOMAIN collected
    BY <1>1, <1>2, <1>5, <1>8
  <2>2. Conflicting(i, last[1])
    BY <1>2, <1>5, <2>1, ConflictingSymmetric
  <2>. QED
    BY <1>6, <1>8, <2>1, <2>2
<1>. QED
  BY <1>7, <1>8

LEMMA DatesBegin == DatesInit => DatesTypeOK /\ DatesInv
<1>. SUFFICES ASSUME DatesInit PROVE DatesTypeOK /\ DatesInv
  OBVIOUS
<1>1. collected = <<>> /\ <<>> \in Seq(Collected) /\ DOMAIN <<>> = {}
  BY DEF DatesInit
<1>2. /\ DOMAIN registry = {"rows", "flagged", "partner"}
      /\ registry.rows = {} /\ registry.flagged = {} /\ registry.partner = <<>>
  BY DEF DatesInit
<1>3. DatesTypeOK
  BY <1>1, <1>2 DEF DatesInit, DatesTypeOK, Collected
<1>4. DatesInv
  BY <1>1, <1>2 DEF DatesInit, DatesInv, Resolved, StoredOnce, ExecutionIsDate,
                    FlaggedIffConflicting
<1>. QED
  BY <1>3, <1>4

(* A chunk's answer.                                                          *)
LEMMA AnsweredKeeps ==
  ASSUME DatesTypeOK, DatesInv, NEW c \in Parts, NEW items \in Answers, Answered(c, items)
  PROVE  DatesTypeOK' /\ DatesInv'
<1>1. PICK n \in Nat : items \in [1..n -> Items]
  BY DeadlineDatesAssumption DEF Answers
<1>. DEFINE kept == Kept(items)
            new == [k \in DOMAIN kept |->
                     [item |-> items[k], chunk |-> c, deadline |-> Resolve(items[k])]]
<1>2. /\ kept \in Seq(Items)
      /\ \A k \in 1..Len(kept) : k \in 1..n /\ kept[k] = items[k] /\ ~Raises(items[k])
  BY <1>1, KeptIsPrefix
<1>3. execution \in ExecutionDates /\ execution # Unread /\ ExecutionIsDate
  BY DEF Answered, DatesTypeOK, DatesInv
<1>4. DOMAIN kept = 1..Len(kept) /\ Len(kept) \in Nat
  BY <1>2
<1>5. ASSUME NEW k \in 1..Len(kept)
      PROVE  [item |-> items[k], chunk |-> c, deadline |-> Resolve(items[k])] \in Collected
  <2>1. items[k] \in Items
    BY <1>1, <1>2
  <2>2. Resolve(items[k]) \in AnyDate
    BY <1>2, <1>3, <2>1, ResolvedIsDue
  <2>. QED
    BY <2>1, <2>2 DEF Collected
<1>6. /\ new \in Seq(Collected) /\ Len(new) = Len(kept)
      /\ \A k \in 1..Len(new) : /\ new[k].deadline = Resolve(new[k].item)
                                /\ ~Raises(new[k].item)
  <2>. HIDE DEF kept
  <2>1. new \in [1..Len(kept) -> Collected]
    BY <1>4, <1>5
  <2>2. \A k \in 1..Len(kept) : new[k].item = items[k] /\ new[k].deadline = Resolve(items[k])
    BY <1>4
  <2>. HIDE DEF new
  <2>. QED
    BY <1>2, <1>4, <2>1, <2>2
<1>7. collected \in Seq(Collected)
  BY DEF DatesTypeOK, Collected
<1>8. /\ collected' = collected \o new /\ waiting' = waiting \ {c} /\ c \in waiting
      /\ UNCHANGED <<execution, registry>>
  BY DEF Answered
<1>. HIDE DEF new
<1>9. /\ collected' \in Seq(Collected) /\ Len(collected') = Len(collected) + Len(new)
      /\ \A i \in 1..Len(collected) : collected'[i] = collected[i]
      /\ \A i \in Len(collected) + 1..Len(collected) + Len(new) :
           /\ i - Len(collected) \in 1..Len(new)
           /\ collected'[i] = new[i - Len(collected)]
  <2>1. \A i \in 1..Len(collected) + Len(new) :
          collected'[i] = IF i <= Len(collected) THEN collected[i]
                                                 ELSE new[i - Len(collected)]
    BY <1>6, <1>7, <1>8, ConcatProperties
  <2>2. Len(collected) \in Nat /\ Len(new) \in Nat
    BY <1>6, <1>7
  <2>3. \A i \in 1..Len(collected) : collected'[i] = collected[i]
    BY <2>1, <2>2
  <2>4. \A i \in Len(collected) + 1..Len(collected) + Len(new) :
          /\ i \in 1..Len(collected) + Len(new) /\ ~(i <= Len(collected))
          /\ i - Len(collected) \in 1..Len(new)
    BY <2>2
  <2>. QED
    BY <1>6, <1>7, <1>8, <2>1, <2>3, <2>4, ConcatProperties
<1>10. registry.rows = {}
  BY <1>8 DEF DatesInv, StoredOnce
<1>11. DatesTypeOK'
  BY <1>8, <1>9, <1>10 DEF DatesTypeOK, Collected
<1>12. \A item : Resolve(item)' = Resolve(item) /\ (Raises(item)' <=> Raises(item))
  BY <1>8 DEF Resolve, Relative, Raises
<1>13. Resolved'
  <2>. SUFFICES ASSUME NEW i \in 1..Len(collected')
                PROVE  /\ collected'[i].deadline = Resolve(collected'[i].item)
                       /\ ~Raises(collected'[i].item)
    BY <1>3, <1>8, <1>9, <1>12 DEF Resolved
  <2>1. CASE i \in 1..Len(collected)
    BY <1>7, <1>9, <2>1 DEF DatesInv, Resolved
  <2>2. CASE i \in Len(collected) + 1..Len(collected) + Len(new)
    BY <1>6, <1>9, <2>2
  <2>. QED
    BY <1>6, <1>7, <1>9, <2>1, <2>2
<1>. QED
  BY <1>8, <1>10, <1>11, <1>13
     DEF DatesInv, StoredOnce, ExecutionIsDate, FlaggedIffConflicting

(* The commit after all chunks.                                               *)
LEMMA StoredKeeps ==
  ASSUME DatesTypeOK, DatesInv, StoreObligations
  PROVE  DatesTypeOK' /\ DatesInv'
<1>1. collected \in Seq(Collected)
  BY DEF DatesTypeOK, Collected
<1>2. /\ registry' = [rows |-> DOMAIN collected, flagged |-> Flagged,
                      partner |-> [i \in Flagged |-> Partner(i)]]
      /\ UNCHANGED <<execution, waiting, collected>> /\ waiting = {}
  BY DEF StoreObligations
<1>3. ASSUME NEW i \in Flagged
      PROVE  /\ Partner(i) \in Parts
             /\ \E j \in DOMAIN collected \ {i} :
                  Conflicting(i, j) /\ Partner(i) = collected[j].chunk
  <2>1. PICK j \in DOMAIN collected \ {i} :
          Conflicting(i, j) /\ Partner(i) = collected[j].chunk
    BY <1>1, PartnerConflicts
  <2>. QED
    BY <1>1, <2>1, CollectedFields
<1>4. DatesTypeOK'
  BY <1>1, <1>2, <1>3, FlaggedAreConflicting DEF DatesTypeOK
<1>5. \A i, j : Conflicting(i, j)' <=> Conflicting(i, j)
  BY <1>2 DEF Conflicting
<1>6. FlaggedIffConflicting'
  BY <1>1, <1>2, <1>3, <1>5, FlaggedAreConflicting DEF FlaggedIffConflicting
<1>7. Resolved'
  BY <1>2 DEF DatesInv, Resolved, Resolve, Relative, Raises
<1>. QED
  BY <1>2, <1>4, <1>6, <1>7 DEF DatesInv, StoredOnce, ExecutionIsDate

LEMMA DatesGoOn ==
  DatesTypeOK /\ DatesInv /\ [DatesNext]_datesVars => DatesTypeOK' /\ DatesInv'
<1>. SUFFICES ASSUME DatesTypeOK, DatesInv, [DatesNext]_datesVars
              PROVE  DatesTypeOK' /\ DatesInv'
  OBVIOUS
<1>1. ASSUME UNCHANGED <<execution, collected, registry>>, waiting' \subseteq waiting
      PROVE  DatesTypeOK' /\ DatesInv'
  <2>1. DatesTypeOK'
    BY <1>1 DEF DatesTypeOK
  <2>2. Resolved'
    BY <1>1 DEF DatesInv, Resolved, Resolve, Relative, Raises
  <2>3. FlaggedIffConflicting'
    BY <1>1 DEF DatesInv, FlaggedIffConflicting, Conflicting
  <2>. QED
    BY <1>1, <2>1, <2>2, <2>3 DEF DatesInv, StoredOnce, ExecutionIsDate
<1>2. ASSUME NEW c \in Parts, Unanswered(c) PROVE DatesTypeOK' /\ DatesInv'
  BY <1>1, <1>2 DEF Unanswered
<1>3. ASSUME NEW t \in ExecutionDates, FindExecutionDate(t) PROVE DatesTypeOK' /\ DatesInv'
  <2>1. /\ execution = Unread /\ execution' = t /\ (t = NoDate \/ Exists(t))
        /\ UNCHANGED <<waiting, collected, registry>>
    BY <1>3 DEF FindExecutionDate
  <2>2. DOMAIN collected = {} /\ registry.rows = {}
    BY <2>1 DEF DatesInv, Resolved, DatesTypeOK
  <2>. QED
    BY <2>1, <2>2 DEF DatesTypeOK, DatesInv, Resolved, StoredOnce, ExecutionIsDate,
                      FlaggedIffConflicting
<1>4. CASE ExtractionLost
  <2>1. /\ registry.rows = {} /\ UNCHANGED registry
        /\ waiting' = Parts /\ collected' = <<>> /\ execution' = Unread
    BY <1>4 DEF ExtractionLost
  <2>2. <<>> \in Seq(Collected) /\ DOMAIN <<>> = {}
    OBVIOUS
  <2>3. DatesTypeOK'
    BY <2>1, <2>2 DEF DatesTypeOK, Collected
  <2>. QED
    BY <2>1, <2>2, <2>3 DEF DatesInv, Resolved, StoredOnce, ExecutionIsDate,
                            FlaggedIffConflicting
<1>5. CASE UNCHANGED datesVars
  BY <1>1, <1>5 DEF datesVars
<1>. QED
  BY <1>2, <1>3, <1>4, <1>5, AnsweredKeeps, StoredKeeps DEF DatesNext

LEMMA DatesHold == DatesSpec => [](DatesTypeOK /\ DatesInv)
  BY DatesBegin, DatesGoOn, PTL DEF DatesSpec

(* A document's obligations are flagged exactly if another contradicts them,  *)
(* whatever the order of the answers.                                         *)
THEOREM ConflictsAreFlagged == DatesSpec => []FlaggedIffConflicting
<1>1. DatesInv => FlaggedIffConflicting
  BY DEF DatesInv
<1>. QED
  BY <1>1, DatesHold, PTL

LEMMA DueByInv == DatesTypeOK /\ DatesInv => DeadlinesAreDue
<1>. SUFFICES ASSUME DatesTypeOK, DatesInv, NEW i \in registry.rows,
                     collected[i].deadline # NoDate
              PROVE  LET item == collected[i].item
                         due == collected[i].deadline
                         between == Ordinal(execution) + 1 .. Ordinal(due)
                     IN  /\ Exists(due)
                         /\ Validated(item.on) => due = item.on
                         /\ ~Validated(item.on) /\ item.unit = "business" =>
                              /\ Cardinality({n \in between : (n + 6) % 7 < 5}) = item.count
                              /\ item.count > 0 => Weekday(due) \notin {5, 6}
                         /\ ~Validated(item.on) /\ item.unit = "months" =>
                              /\ due.d = execution.d
                              /\ 12 * (due.y - execution.y) + due.m - execution.m = item.count
  BY DEF DeadlinesAreDue
<1>1. collected[i].item \in Items /\ i \in DOMAIN collected
  BY CollectedFields DEF DatesTypeOK, Collected
<1>2. /\ execution # Unread /\ collected[i].deadline = Resolve(collected[i].item)
      /\ ~Raises(collected[i].item)
  BY <1>1 DEF DatesInv, Resolved
<1>3. execution \in ExecutionDates /\ ExecutionIsDate
  BY <1>2 DEF DatesTypeOK, DatesInv
<1>4. \A t : IsWeekday(Ordinal(t)) => Weekday(t) \notin {5, 6}
  BY DEF IsWeekday, Weekday
<1>. QED
  BY <1>1, <1>2, <1>3, <1>4, ResolvedIsDue DEF Weekdays

(* A deadline is on a day of the calendar: the one the clause names, or as    *)
(* many business days or months after the execution date as it says, for      *)
(* every date.                                                                *)
THEOREM DeadlinesComeDue == DatesSpec => []DeadlinesAreDue
  BY DatesHold, DueByInv, PTL
-----------------------------------------------------------------------------
(* Chunks.  The operators run over the words of a sentence and the texts of a *)
(* section, so that their laws are proved by induction.                       *)

(* Induction, as a statement about sets.                                      *)
LEMMA NatSet ==
  ASSUME NEW S, 0 \in S, \A k \in Nat : k \in S => k + 1 \in S
  PROVE  \A k \in Nat : k \in S
<1>. SUFFICES ASSUME NEW j \in Nat, j \notin S PROVE FALSE
  OBVIOUS
<1>. DEFINE R == Nat \ S
<1>1. PICK m \in R : \A k \in R : m <= k
  BY LeastNumber
<1>2. m # 0 /\ m - 1 \in Nat
  BY <1>1
<1>3. m - 1 \in S
  BY <1>1, <1>2
<1>4. (m - 1) + 1 \in S
  BY <1>2, <1>3
<1>. QED
  BY <1>1, <1>2, <1>4

(* A function on 0..n can be given by its first value and a step to the next. *)
Steps(h, n, V) == \A k \in 1..n : \A v \in V : h[k][v] \in V
Follows(g, a, n, h) == g[0] = a /\ \A k \in 1..n : g[k] = h[k][g[k - 1]]

LEMMA Recursion ==
  ASSUME NEW V, NEW a \in V, NEW n \in Nat, NEW h, Steps(h, n, V)
  PROVE  \E g \in [0..n -> V] : Follows(g, a, n, h)
<1>. DEFINE Good(m) ==
              \E g \in [0..m -> V] : Follows(g, a, m, h)
            S == {m \in Nat : m <= n => Good(m)}
<1>1. 0 \in S
  <2>. DEFINE f == [k \in 0..0 |-> a]
  <2>1. f \in [0..0 -> V] /\ f[0] = a /\ \A k \in 1..0 : f[k] = h[k][f[k - 1]]
    OBVIOUS
  <2>. HIDE DEF f
  <2>. QED
    BY <2>1 DEF Follows
<1>2. ASSUME NEW m \in Nat, m \in S PROVE m + 1 \in S
  <2>. SUFFICES ASSUME m + 1 <= n PROVE Good(m + 1)
    OBVIOUS
  <2>1. PICK g \in [0..m -> V] : Follows(g, a, m, h)
    BY <1>2
  <2>. DEFINE f == [k \in 0..m + 1 |-> IF k = m + 1 THEN h[m + 1][g[m]] ELSE g[k]]
  <2>2. h[m + 1][g[m]] \in V
    BY DEF Steps
  <2>3. /\ f \in [0..m + 1 -> V] /\ f[m + 1] = h[m + 1][g[m]]
        /\ \A k \in 0..m : f[k] = g[k]
    BY <2>2
  <2>. HIDE DEF f
  <2>4. ASSUME NEW k \in 1..m + 1 PROVE f[k] = h[k][f[k - 1]]
    <3>1. CASE k = m + 1
      BY <2>3, <3>1
    <3>2. CASE k # m + 1
      <4>1. k \in 1..m /\ f[k] = g[k] /\ f[k - 1] = g[k - 1]
        BY <2>3, <3>2
      <4>. QED
        BY <2>1, <4>1 DEF Follows
    <3>. QED
      BY <3>1, <3>2
  <2>5. f[0] = a
    BY <2>1, <2>3 DEF Follows
  <2>. QED
    BY <2>3, <2>4, <2>5 DEF Follows
<1>. HIDE DEF Good
<1>3. n \in S
  BY <1>1, <1>2, NatSet
<1>. QED
  BY <1>3 DEF Good

(* Two functions that begin alike and step alike are the same on 0..n.        *)
Alike(f, g, n) ==
    g[0] = f[0] /\ \A k \in 1..n : g[k - 1] = f[k - 1] => g[k] = f[k]
Same(f, g, n) == \A k \in 0..n : g[k] = f[k]

LEMMA SameSteps ==
  ASSUME NEW n \in Nat, NEW f, NEW g, Alike(f, g, n)
  PROVE  Same(f, g, n)
<1>. DEFINE S == {k \in Nat : k <= n => g[k] = f[k]}
<1>1. 0 \in S
  BY DEF Alike
<1>2. ASSUME NEW k \in Nat, k \in S PROVE k + 1 \in S
  <2>1. k + 1 <= n => k + 1 \in 1..n /\ (k + 1) - 1 = k
    OBVIOUS
  <2>. QED
    BY <1>2, <2>1 DEF Alike
<1>3. \A k \in Nat : k \in S
  <2>. HIDE DEF S
  <2>. QED
    BY <1>1, <1>2, NatSet
<1>. QED
  BY <1>3 DEF Same

-----------------------------------------------------------------------------
(* The operators of the chunker, word by word.                                *)

LEMMA SubSeqAppends ==
  ASSUME NEW S, NEW s \in Seq(S), NEW k \in Nat, k + 1 <= Len(s)
  PROVE  SubSeq(s, 1, k + 1) = Append(SubSeq(s, 1, k), s[k + 1])
<1>1. 1 \in 1..Len(s) /\ k + 1 \in 1..Len(s) /\ (k + 1) - 1 = k /\ s[k + 1] \in S
  OBVIOUS
<1>2. SubSeq(s, 1, k + 1) = SubSeq(s, 1, k) \o <<s[k + 1]>>
  BY <1>1, SubSeqRecursiveSecond
<1>3. SubSeq(s, 1, k) \in Seq(S)
  OBVIOUS
<1>. QED
  BY <1>1, <1>2, <1>3, AppendIsConcat

LEMMA ConcatAppends ==
  ASSUME NEW S, NEW s \in Seq(S), NEW t \in Seq(S), NEW w \in S
  PROVE  s \o Append(t, w) = Append(s \o t, w)
<1>1. <<w>> \in Seq(S) /\ s \o t \in Seq(S)
  OBVIOUS
<1>2. Append(t, w) = t \o <<w>> /\ Append(s \o t, w) = (s \o t) \o <<w>>
  BY <1>1, AppendIsConcat
<1>. QED
  BY <1>1, <1>2, ConcatAssociative

LEMMA LengthSteps ==
  ASSUME NEW s \in Seq(Nat)
  PROVE  \E g \in [0..Len(s) -> Nat] :
           /\ Length(s) = g[Len(s)] /\ g[0] = 0
           /\ \A k \in 1..Len(s) : g[k] = g[k - 1] + s[k] + (IF k = 1 THEN 0 ELSE 1)
<1>. DEFINE n == Len(s)
            h == [k \in 1..n |-> [v \in Nat |-> v + s[k] + (IF k = 1 THEN 0 ELSE 1)]]
<1>1. n \in Nat /\ 0 \in Nat /\ Steps(h, n, Nat)
  BY DEF Steps
<1>2. PICK f \in [0..n -> Nat] : Follows(f, 0, n, h)
  <2>. HIDE DEF n, h
  <2>. QED
    BY <1>1, Recursion, Zenon
<1>3. f[0] = 0 /\ \A k \in 1..n : f[k] = f[k - 1] + s[k] + (IF k = 1 THEN 0 ELSE 1)
  <2>1. \A k \in 1..n : f[k - 1] \in Nat
    OBVIOUS
  <2>. QED
    BY <1>2, <2>1 DEF Follows
<1>. DEFINE Eq(e) == e = [k \in 0..n |->
                            IF k = 0 THEN 0
                            ELSE e[k - 1] + s[k] + (IF k = 1 THEN 0 ELSE 1)]
            g == CHOOSE e : Eq(e)
<1>4. Eq(f)
  <2>. HIDE DEF h
  <2>. QED
    BY <1>3
<1>5. Eq(g)
  <2>. HIDE DEF Eq
  <2>. QED
    BY <1>4
<1>6. Length(s) = g[n]
  BY DEF Length
<1>. HIDE DEF g, h
<1>7. \A k \in 0..n : g[k] = IF k = 0 THEN 0
                             ELSE g[k - 1] + s[k] + (IF k = 1 THEN 0 ELSE 1)
  <2>. HIDE DEF n
  <2>. QED
    BY <1>5, Zenon
<1>8. \A k \in 1..n : k \in 0..n /\ k # 0
  OBVIOUS
<1>9. Alike(f, g, n)
  BY <1>1, <1>3, <1>7, <1>8 DEF Alike
<1>10. Same(f, g, n)
  <2>. HIDE DEF n
  <2>. QED
    BY <1>1, <1>9, SameSteps, Zenon
<1>11. Length(s) = f[n]
  BY <1>1, <1>6, <1>10 DEF Same
<1>. QED
  BY <1>3, <1>11

LEMMA LengthNat == ASSUME NEW s \in Seq(Nat) PROVE Length(s) \in Nat
<1>1. PICK g \in [0..Len(s) -> Nat] : Length(s) = g[Len(s)]
  BY LengthSteps
<1>2. Len(s) \in 0..Len(s)
  OBVIOUS
<1>. QED
  BY <1>1, <1>2

LEMMA LengthEmpty == Length(<<>>) = 0
<1>1. <<>> \in Seq(Nat) /\ Len(<<>>) = 0
  OBVIOUS
<1>. QED
  BY <1>1, LengthSteps

LEMMA LengthAppend ==
  ASSUME NEW s \in Seq(Nat), NEW w \in Nat
  PROVE  Length(Append(s, w)) = Length(s) + w + (IF s = <<>> THEN 0 ELSE 1)
<1>. DEFINE n == Len(s)
            t == Append(s, w)
<1>1. /\ n \in Nat /\ t \in Seq(Nat) /\ Len(t) = n + 1 /\ t[n + 1] = w
      /\ \A k \in 1..n : t[k] = s[k] /\ s[k] \in Nat
      /\ s = <<>> <=> n = 0
  OBVIOUS
<1>. HIDE DEF t
<1>2. PICK f \in [0..n -> Nat] :
        /\ Length(s) = f[n] /\ f[0] = 0
        /\ \A k \in 1..n : f[k] = f[k - 1] + s[k] + (IF k = 1 THEN 0 ELSE 1)
  BY LengthSteps
<1>. HIDE DEF n
<1>3. PICK g \in [0..n + 1 -> Nat] :
        /\ Length(t) = g[n + 1] /\ g[0] = 0
        /\ \A k \in 1..n + 1 : g[k] = g[k - 1] + t[k] + (IF k = 1 THEN 0 ELSE 1)
  <2>1. \E g \in [0..Len(t) -> Nat] :
          /\ Length(t) = g[Len(t)] /\ g[0] = 0
          /\ \A k \in 1..Len(t) : g[k] = g[k - 1] + t[k] + (IF k = 1 THEN 0 ELSE 1)
    BY <1>1, LengthSteps
  <2>. QED
    BY <1>1, <2>1
<1>4. n \in Nat /\ Alike(f, g, n)
  BY <1>1, <1>2, <1>3 DEF Alike
<1>5. g[n] = f[n]
  <2>1. Same(f, g, n)
    BY <1>4, SameSteps, Zenon
  <2>. QED
    BY <1>1, <2>1 DEF Same
<1>6. g[n + 1] = g[n] + w + (IF n = 0 THEN 0 ELSE 1)
  BY <1>1, <1>3
<1>. QED
  BY <1>1, <1>2, <1>3, <1>5, <1>6 DEF t

(* The words of two texts take at most one blank more than the texts.         *)
LEMMA LengthConcat ==
  ASSUME NEW s \in Seq(Nat), NEW t \in Seq(Nat)
  PROVE  Length(s \o t) <= Length(s) + Length(t) + 1
<1>. DEFINE p(k) == SubSeq(t, 1, k)
            Good(k) == Length(s \o p(k)) <= Length(s) + Length(p(k)) + 1
            S == {k \in Nat : k <= Len(t) => Good(k)}
<1>1. 0 \in S
  <2>1. p(0) = <<>> /\ s \o <<>> = s
    BY SubSeqEmpty, ConcatEmptySeq
  <2>2. Length(s \o p(0)) = Length(s) /\ Length(p(0)) = 0
    BY <2>1, LengthEmpty, Zenon
  <2>3. Good(0)
    <3>. HIDE DEF p
    <3>. QED
      BY <2>2, LengthNat
  <2>. HIDE DEF Good
  <2>. QED
    BY <2>3
<1>2. ASSUME NEW k \in Nat, k \in S PROVE k + 1 \in S
  <2>. SUFFICES ASSUME k + 1 <= Len(t) PROVE Good(k + 1)
    OBVIOUS
  <2>1. /\ p(k) \in Seq(Nat) /\ t[k + 1] \in Nat /\ s \o p(k) \in Seq(Nat)
        /\ p(k + 1) = Append(p(k), t[k + 1])
        /\ s \o p(k + 1) = Append(s \o p(k), t[k + 1])
    <3>1. p(k) \in Seq(Nat) /\ t[k + 1] \in Nat
      OBVIOUS
    <3>2. p(k + 1) = Append(p(k), t[k + 1])
      BY SubSeqAppends
    <3>. HIDE DEF p
    <3>3. s \o p(k) \in Seq(Nat)
      BY <3>1, ConcatProperties
    <3>4. s \o Append(p(k), t[k + 1]) = Append(s \o p(k), t[k + 1])
      BY <3>1, ConcatAppends
    <3>. QED
      BY <3>1, <3>2, <3>3, <3>4
  <2>2. Good(k)
    BY <1>2
  <2>3. p(k) # <<>> => s \o p(k) # <<>>
    <3>. HIDE DEF p
    <3>. QED
      BY <2>1, ConcatEqualIffEmpty
  <2>. HIDE DEF p
  <2>4. /\ Length(p(k + 1)) = Length(p(k)) + t[k + 1] + (IF p(k) = <<>> THEN 0 ELSE 1)
        /\ Length(s \o p(k + 1)) = Length(s \o p(k)) + t[k + 1]
                                     + (IF s \o p(k) = <<>> THEN 0 ELSE 1)
    BY <2>1, LengthAppend
  <2>5. Length(s) \in Nat /\ Length(p(k)) \in Nat /\ Length(s \o p(k)) \in Nat
    BY <2>1, LengthNat
  <2>6. p(k) = <<>> => s \o p(k) = s
    BY ConcatEmptySeq
  <2>7. p(k) = <<>> => Length(p(k)) = 0
    BY LengthEmpty
  <2>8. CASE p(k) = <<>>
    BY <2>4, <2>5, <2>6, <2>7, <2>8
  <2>9. CASE p(k) # <<>>
    <3>1. /\ Length(p(k + 1)) = Length(p(k)) + t[k + 1] + 1
          /\ Length(s \o p(k + 1)) = Length(s \o p(k)) + t[k + 1] + 1
      BY <2>3, <2>4, <2>9, Zenon
    <3>. DEFINE a == Length(s)
                b == Length(p(k))
                c == Length(s \o p(k))
                d == t[k + 1]
    <3>2. a \in Nat /\ b \in Nat /\ c \in Nat /\ d \in Nat /\ c <= a + b + 1
      BY <2>1, <2>2, <2>5
    <3>3. c + d + 1 <= a + (b + d + 1) + 1
      <4>. HIDE DEF a, b, c, d
      <4>. QED
        BY <3>2
    <3>. QED
      BY <3>1, <3>3
  <2>. QED
    BY <2>8, <2>9
<1>3. \A k \in Nat : k \in S
  <2>. HIDE DEF S
  <2>. QED
    BY <1>1, <1>2, NatSet
<1>4. Len(t) \in Nat /\ p(Len(t)) = t
  BY SubSeqFull
<1>. HIDE DEF p
<1>. QED
  BY <1>3, <1>4

(* What a section is while its sentences are gathered.                        *)
Gathered == [done : Seq(Seq(Nat)), text : Seq(Nat)]

LEMMA AddWordGathers ==
  ASSUME NEW s \in Gathered, NEW w \in Nat, NEW limit
  PROVE  AddWord(s, w, limit) \in Gathered
<1>1. Append(s.done, s.text) \in Seq(Seq(Nat)) /\ <<w>> \in Seq(Nat)
      /\ Append(s.text, w) \in Seq(Nat)
  BY DEF Gathered
<1>. QED
  BY <1>1 DEF AddWord, Gathered

CutBy(g, start, sentence, limit) ==
    /\ g[0] = start
    /\ \A k \in 1..Len(sentence) : g[k] = AddWord(g[k - 1], sentence[k], limit)

LEMMA CutSteps ==
  ASSUME NEW start \in Gathered, NEW s \in Seq(Nat), NEW limit
  PROVE  \E g \in [0..Len(s) -> Gathered] :
           Cut(start, s, limit) = g[Len(s)] /\ CutBy(g, start, s, limit)
<1>. DEFINE n == Len(s)
            h == [k \in 1..n |-> [v \in Gathered |-> AddWord(v, s[k], limit)]]
<1>1. n \in Nat /\ Steps(h, n, Gathered)
  BY AddWordGathers DEF Steps
<1>2. PICK f \in [0..n -> Gathered] : Follows(f, start, n, h)
  <2>. HIDE DEF n, h
  <2>. QED
    BY <1>1, Recursion, Zenon
<1>3. f[0] = start /\ \A k \in 1..n : f[k] = AddWord(f[k - 1], s[k], limit)
  <2>1. \A k \in 1..n : f[k - 1] \in Gathered
    OBVIOUS
  <2>. QED
    BY <1>2, <2>1 DEF Follows
<1>. DEFINE Eq(e) == e = [k \in 0..n |->
                            IF k = 0 THEN start ELSE AddWord(e[k - 1], s[k], limit)]
            g == CHOOSE e : Eq(e)
<1>4. Eq(f)
  <2>. HIDE DEF h
  <2>. QED
    BY <1>3
<1>5. Eq(g)
  <2>. HIDE DEF Eq
  <2>. QED
    BY <1>4
<1>6. Cut(start, s, limit) = g[n]
  BY DEF Cut
<1>. HIDE DEF g, h
<1>7. \A k \in 0..n : g[k] = IF k = 0 THEN start ELSE AddWord(g[k - 1], s[k], limit)
  <2>. HIDE DEF n
  <2>. QED
    BY <1>5, Zenon
<1>8. \A k \in 1..n : k \in 0..n /\ k # 0
  OBVIOUS
<1>9. Alike(f, g, n)
  <2>. HIDE DEF n
  <2>. QED
    BY <1>1, <1>3, <1>7, <1>8 DEF Alike
<1>10. Same(f, g, n)
  <2>. HIDE DEF n
  <2>. QED
    BY <1>1, <1>9, SameSteps, Zenon
<1>11. Cut(start, s, limit) = f[n]
  BY <1>1, <1>6, <1>10 DEF Same
<1>. QED
  BY <1>3, <1>11 DEF CutBy

(* FlattenSeq, one sequence more.                                             *)
FlattenBy(g, q) ==
    /\ g[0] = <<>>
    /\ \A k \in 1..Len(q) : g[k] = g[k - 1] \o q[k]

LEMMA FlattenSteps ==
  ASSUME NEW q \in Seq(Seq(Nat))
  PROVE  \E g \in [0..Len(q) -> Seq(Nat)] :
           FlattenSeq(q) = g[Len(q)] /\ FlattenBy(g, q)
<1>. DEFINE n == Len(q)
            V == Seq(Nat)
            h == [k \in 1..n |-> [v \in V |-> v \o q[k]]]
<1>1. n \in Nat /\ <<>> \in V /\ (\A k \in 1..n : q[k] \in V)
  OBVIOUS
<1>2. Steps(h, n, V)
  <2>1. \A k \in 1..n : \A v \in V : v \o q[k] \in V
    BY <1>1, ConcatProperties
  <2>. QED
    BY <2>1 DEF Steps
<1>3. PICK f \in [0..n -> V] : Follows(f, <<>>, n, h)
  <2>. HIDE DEF n, h, V
  <2>. QED
    BY <1>1, <1>2, Recursion, Zenon
<1>4. f[0] = <<>> /\ \A k \in 1..n : f[k] = f[k - 1] \o q[k]
  <2>1. \A k \in 1..n : f[k - 1] \in V
    OBVIOUS
  <2>. HIDE DEF V
  <2>. QED
    BY <1>3, <2>1 DEF Follows
<1>5. FlattenSeq(q) = f[n]
  <2>1. CASE n = 0
    <3>1. q = <<>>
      BY <2>1
    <3>2. FlattenSeq(q) = <<>>
      BY <3>1 DEF FlattenSeq
    <3>. QED
      BY <1>4, <2>1, <3>2
  <2>2. CASE n # 0
    <3>. DEFINE Eq(e) == e = [k \in 1..n |-> IF k = 1 THEN q[k] ELSE e[k - 1] \o q[k]]
                g == CHOOSE e : Eq(e)
                d == [k \in 1..n |-> f[k]]
    <3>1. \A k \in 1..n : d[k] = f[k]
      OBVIOUS
    <3>2. \A k \in 1..n : f[k] = IF k = 1 THEN q[k] ELSE d[k - 1] \o q[k]
      <4>1. f[1] = q[1]
        <5>1. f[1] = f[0] \o q[1]
          <6>1. 1 \in 1..n /\ 1 - 1 = 0
            BY <1>1, <2>2
          <6>. HIDE DEF n
          <6>. QED
            BY <1>4, <6>1
        <5>2. q[1] \in Seq(Nat)
          BY <1>1, <2>2
        <5>. QED
          BY <1>4, <5>1, <5>2, ConcatEmptySeq
      <4>2. \A k \in 1..n : k # 1 => k - 1 \in 1..n
        BY <1>1
      <4>. HIDE DEF n, V
      <4>3. \A k \in 1..n : k # 1 => d[k - 1] = f[k - 1]
        BY <4>2
      <4>. HIDE DEF d
      <4>. QED
        BY <1>4, <4>1, <4>3
    <3>3. Eq(d)
      <4>. DEFINE d2 == d
      <4>1. \A k \in 1..n : d[k] = IF k = 1 THEN q[k] ELSE d2[k - 1] \o q[k]
        BY <3>1, <3>2
      <4>2. d = [k \in 1..n |-> d[k]]
        OBVIOUS
      <4>. HIDE DEF d, n, V
      <4>. QED
        BY <4>1, <4>2
    <3>4. Eq(g)
      <4>. HIDE DEF Eq
      <4>. QED
        BY <3>3
    <3>5. FlattenSeq(q) = g[n]
      BY <2>2 DEF FlattenSeq
    <3>. HIDE DEF g
    <3>. DEFINE S == {k \in Nat : k + 1 <= n => g[k + 1] = f[k + 1]}
    <3>6. \A k \in 1..n : g[k] = IF k = 1 THEN q[k] ELSE g[k - 1] \o q[k]
      <4>. HIDE DEF n
      <4>. QED
        BY <3>4, Zenon
    <3>7. 1 \in 1..n
      BY <1>1, <2>2
    <3>8. 0 \in S
      <4>1. 0 + 1 = 1
        OBVIOUS
      <4>. HIDE DEF n, V, d
      <4>2. g[1] = q[1] /\ f[1] = q[1]
        BY <3>2, <3>6, <3>7
      <4>. QED
        BY <4>1, <4>2
    <3>9. ASSUME NEW k \in Nat, k \in S PROVE k + 1 \in S
      <4>. SUFFICES ASSUME (k + 1) + 1 <= n PROVE g[(k + 1) + 1] = f[(k + 1) + 1]
        OBVIOUS
      <4>. DEFINE m == (k + 1) + 1
      <4>1. m \in 1..n /\ m # 1 /\ m - 1 = k + 1 /\ k + 1 <= n
        BY <1>1
      <4>2. g[k + 1] = f[k + 1]
        BY <3>9, <4>1
      <4>. HIDE DEF m, S, n, V, d
      <4>3. g[m] = g[m - 1] \o q[m] /\ f[m] = f[m - 1] \o q[m]
        BY <1>4, <3>6, <4>1
      <4>4. g[m] = f[m]
        BY <4>1, <4>2, <4>3
      <4>. QED
        BY <4>4 DEF m
    <3>10. \A k \in Nat : k \in S
      <4>. HIDE DEF S
      <4>. QED
        BY <3>8, <3>9, NatSet
    <3>11. n - 1 \in Nat /\ (n - 1) + 1 = n
      BY <1>1, <2>2
    <3>12. g[n] = f[n]
      <4>. HIDE DEF n, V, d
      <4>1. n - 1 \in S
        BY <3>10, <3>11
      <4>2. n \in Nat
        BY <1>1
      <4>. QED
        BY <3>11, <4>1, <4>2
    <3>. QED
      BY <3>5, <3>12
  <2>. QED
    BY <2>1, <2>2
<1>. QED
  BY <1>4, <1>5 DEF FlattenBy

LEMMA FlattenAppend ==
  ASSUME NEW q \in Seq(Seq(Nat)), NEW t \in Seq(Nat)
  PROVE  /\ FlattenSeq(q) \in Seq(Nat)
         /\ FlattenSeq(Append(q, t)) = FlattenSeq(q) \o t
<1>. DEFINE n == Len(q)
            r == Append(q, t)
            V == Seq(Nat)
<1>1. /\ n \in Nat /\ r \in Seq(Seq(Nat)) /\ Len(r) = n + 1 /\ r[n + 1] = t
      /\ \A k \in 1..n : r[k] = q[k]
  OBVIOUS
<1>. HIDE DEF r
<1>2. PICK f \in [0..n -> V] : FlattenSeq(q) = f[n] /\ FlattenBy(f, q)
  BY FlattenSteps
<1>3. PICK g \in [0..n + 1 -> V] : FlattenSeq(r) = g[n + 1] /\ FlattenBy(g, r)
  <2>1. PICK g \in [0..Len(r) -> V] : FlattenSeq(r) = g[Len(r)] /\ FlattenBy(g, r)
    BY <1>1, FlattenSteps
  <2>. QED
    BY <1>1, <2>1
<1>4. Alike(f, g, n)
  <2>1. g[0] = f[0]
    BY <1>2, <1>3 DEF FlattenBy
  <2>2. \A k \in 1..n : f[k] = f[k - 1] \o q[k]
    BY <1>2 DEF FlattenBy
  <2>3. \A k \in 1..n : g[k] = g[k - 1] \o r[k]
    <3>1. \A k \in 1..n + 1 : g[k] = g[k - 1] \o r[k]
      BY <1>1, <1>3 DEF FlattenBy
    <3>2. \A k \in 1..n : k \in 1..n + 1
      BY <1>1
    <3>. HIDE DEF n, V
    <3>. QED
      BY <3>1, <3>2
  <2>. HIDE DEF n, V
  <2>. QED
    BY <1>1, <2>1, <2>2, <2>3 DEF Alike
<1>5. g[n] = f[n]
  <2>. HIDE DEF n, V
  <2>1. Same(f, g, n)
    BY <1>1, <1>4, SameSteps, Zenon
  <2>. QED
    BY <1>1, <2>1 DEF Same
<1>6. g[n + 1] = g[n] \o t
  <2>1. \A k \in 1..n + 1 : g[k] = g[k - 1] \o r[k]
    BY <1>1, <1>3 DEF FlattenBy
  <2>2. n + 1 \in 1..n + 1 /\ (n + 1) - 1 = n
    BY <1>1
  <2>. HIDE DEF n, V
  <2>. QED
    BY <1>1, <2>1, <2>2
<1>7. f[n] \in V
  <2>1. n \in 0..n
    BY <1>1
  <2>. HIDE DEF n, V
  <2>. QED
    BY <1>2, <2>1
<1>. QED
  BY <1>2, <1>3, <1>5, <1>6, <1>7 DEF r

LEMMA FlattenEmpty == FlattenSeq(<<>>) = <<>>
BY DEF FlattenSeq

(* What is gathered holds: all words in order, and every text within bounds.  *)
AllWords(s) == FlattenSeq(s.done) \o s.text
AllFit(s) == Fits(s.text) /\ \A k \in DOMAIN s.done : Fits(s.done[k])

LEMMA SavedHolds ==
  ASSUME NEW s \in Gathered, AllFit(s), NEW t \in Seq(Nat), Fits(t),
         NEW r, r = [done |-> Append(s.done, s.text), text |-> t]
  PROVE  r \in Gathered /\ AllFit(r) /\ AllWords(r) = AllWords(s) \o t
<1>1. s.done \in Seq(Seq(Nat)) /\ s.text \in Seq(Nat)
  BY DEF Gathered
<1>2. r.done = Append(s.done, s.text) /\ r.text = t
  OBVIOUS
<1>3. r \in Gathered
  <2>1. Append(s.done, s.text) \in Seq(Seq(Nat))
    BY <1>1
  <2>. QED
    BY <2>1 DEF Gathered
<1>4. AllFit(r)
  <2>1. \A k \in DOMAIN r.done : r.done[k] = s.text \/ (k \in DOMAIN s.done /\ r.done[k] = s.done[k])
    BY <1>1, <1>2
  <2>. QED
    BY <1>2, <2>1 DEF AllFit
<1>5. AllWords(r) = AllWords(s) \o t
  BY <1>1, <1>2, FlattenAppend DEF AllWords
<1>. QED
  BY <1>3, <1>4, <1>5

LEMMA WordsAssociate ==
  ASSUME NEW s \in Seq(Nat), NEW t \in Seq(Nat), NEW u \in Seq(Nat)
  PROVE  (s \o t) \o u = s \o (t \o u)
BY ConcatAssociative

LEMMA JoinedHolds ==
  ASSUME NEW s \in Gathered, AllFit(s), NEW t \in Seq(Nat), Fits(s.text \o t),
         NEW r, r = [s EXCEPT !.text = s.text \o t]
  PROVE  r \in Gathered /\ AllFit(r) /\ AllWords(r) = AllWords(s) \o t
<1>1. s.done \in Seq(Seq(Nat)) /\ s.text \in Seq(Nat) /\ s.text \o t \in Seq(Nat)
  BY ConcatProperties DEF Gathered
<1>2. r.done = s.done /\ r.text = s.text \o t
  BY DEF Gathered
<1>3. r \in Gathered
  BY <1>1 DEF Gathered
<1>4. AllFit(r)
  BY <1>2 DEF AllFit
<1>5. AllWords(r) = AllWords(s) \o t
  <2>1. FlattenSeq(s.done) \in Seq(Nat)
    BY <1>1, FlattenAppend
  <2>2. AllWords(r) = FlattenSeq(s.done) \o (s.text \o t)
    BY <1>2 DEF AllWords
  <2>3. (FlattenSeq(s.done) \o s.text) \o t = FlattenSeq(s.done) \o (s.text \o t)
    BY <1>1, <2>1, WordsAssociate
  <2>. QED
    BY <2>2, <2>3 DEF AllWords
<1>. QED
  BY <1>3, <1>4, <1>5

LEMMA OneWord == ASSUME NEW w \in Nat PROVE <<w>> \in Seq(Nat) /\ Fits(<<w>>)
BY DEF Fits

LEMMA AddWordHolds ==
  ASSUME NEW s \in Gathered, AllFit(s), NEW w \in Nat, NEW r, r = AddWord(s, w, Limit)
  PROVE  r \in Gathered /\ AllFit(r) /\ AllWords(r) = AllWords(s) \o <<w>>
<1>1. s.text \in Seq(Nat)
  BY DEF Gathered
<1>2. CASE Length(s.text) + w + 1 > Limit
  <2>1. r = [done |-> Append(s.done, s.text), text |-> <<w>>]
    BY <1>2 DEF AddWord
  <2>. QED
    BY <2>1, OneWord, SavedHolds
<1>3. CASE ~(Length(s.text) + w + 1 > Limit)
  <2>1. r = [s EXCEPT !.text = Append(s.text, w)]
    BY <1>3 DEF AddWord, Gathered
  <2>2. Append(s.text, w) = s.text \o <<w>>
    BY <1>1, AppendIsConcat
  <2>3. Fits(Append(s.text, w))
    <3>1. Length(s.text) \in Nat
      BY <1>1, LengthNat
    <3>2. Length(Append(s.text, w)) <= Length(s.text) + w + 1
      <4>1. Length(Append(s.text, w))
              = Length(s.text) + w + (IF s.text = <<>> THEN 0 ELSE 1)
        BY <1>1, LengthAppend, Zenon
      <4>2. CASE s.text = <<>>
        <5>1. Length(Append(s.text, w)) = Length(s.text) + w + 0
          BY <4>1, <4>2, Zenon
        <5>. QED
          BY <3>1, <5>1
      <4>3. CASE s.text # <<>>
        <5>1. Length(Append(s.text, w)) = Length(s.text) + w + 1
          BY <4>1, <4>3, Zenon
        <5>. QED
          BY <3>1, <5>1
      <4>. QED
        BY <4>2, <4>3
    <3>3. Length(Append(s.text, w)) \in Nat
      <4>1. Append(s.text, w) \in Seq(Nat)
        BY <1>1
      <4>. QED
        BY <4>1, LengthNat
    <3>. QED
      BY <1>3, <3>1, <3>2, <3>3, ChunkerAssumption DEF Fits
  <2>. QED
    BY <2>1, <2>2, <2>3, OneWord, JoinedHolds
<1>. QED
  BY <1>2, <1>3

LEMMA CutHolds ==
  ASSUME NEW s \in Gathered, AllFit(s), NEW t \in Seq(Nat), NEW r, r = Cut(s, t, Limit)
  PROVE  r \in Gathered /\ AllFit(r) /\ AllWords(r) = AllWords(s) \o t
<1>. DEFINE n == Len(t)
            p(k) == SubSeq(t, 1, k)
<1>1. PICK g \in [0..n -> Gathered] : r = g[n] /\ CutBy(g, s, t, Limit)
  BY CutSteps
<1>2. n \in Nat /\ \A k \in 1..n : t[k] \in Nat /\ g[k] = AddWord(g[k - 1], t[k], Limit)
  BY <1>1 DEF CutBy
<1>3. g[0] = s
  BY <1>1 DEF CutBy
<1>4. AllWords(s) \in Seq(Nat)
  <2>1. s.done \in Seq(Seq(Nat)) /\ s.text \in Seq(Nat)
    BY DEF Gathered
  <2>. QED
    BY <2>1, FlattenAppend, ConcatProperties DEF AllWords
<1>5. p(0) = <<>> /\ p(n) = t
  BY SubSeqEmpty, SubSeqFull
<1>6. \A k \in Nat : k + 1 <= n => p(k) \in Seq(Nat) /\ p(k + 1) = p(k) \o <<t[k + 1]>>
  <2>. TAKE k \in Nat
  <2>. HAVE k + 1 <= n
  <2>1. p(k) \in Seq(Nat) /\ p(k + 1) = Append(p(k), t[k + 1]) /\ t[k + 1] \in Nat
    BY SubSeqAppends
  <2>. HIDE DEF p
  <2>. QED
    BY <2>1, AppendIsConcat
<1>. DEFINE Good(k) == AllFit(g[k]) /\ AllWords(g[k]) = AllWords(s) \o p(k)
            S == {k \in Nat : k <= n => Good(k)}
<1>. HIDE DEF p, n
<1>7. 0 \in S
  <2>1. AllWords(s) \o <<>> = AllWords(s)
    BY <1>4, ConcatEmptySeq
  <2>. QED
    BY <1>3, <1>5, <2>1
<1>8. ASSUME NEW k \in Nat, k \in S PROVE k + 1 \in S
  <2>. SUFFICES ASSUME k + 1 <= n PROVE Good(k + 1)
    OBVIOUS
  <2>1. k + 1 \in 1..n /\ (k + 1) - 1 = k /\ k \in 0..n /\ k <= n
    BY <1>2
  <2>2. Good(k)
    BY <1>8, <2>1
  <2>3. g[k] \in Gathered /\ g[k + 1] = AddWord(g[k], t[k + 1], Limit) /\ t[k + 1] \in Nat
    BY <1>1, <1>2, <2>1
  <2>4. AllFit(g[k + 1]) /\ AllWords(g[k + 1]) = AllWords(g[k]) \o <<t[k + 1]>>
    BY <2>2, <2>3, AddWordHolds
  <2>5. p(k) \in Seq(Nat) /\ p(k + 1) = p(k) \o <<t[k + 1]>> /\ <<t[k + 1]>> \in Seq(Nat)
    BY <1>6, <2>3
  <2>6. (AllWords(s) \o p(k)) \o <<t[k + 1]>> = AllWords(s) \o (p(k) \o <<t[k + 1]>>)
    BY <1>4, <2>5, WordsAssociate
  <2>. QED
    BY <2>2, <2>4, <2>5, <2>6
<1>9. \A k \in Nat : k \in S
  <2>. HIDE DEF S
  <2>. QED
    BY <1>7, <1>8, NatSet
<1>10. Good(n)
  BY <1>2, <1>9
<1>11. n \in 0..n
  BY <1>2
<1>. QED
  BY <1>1, <1>5, <1>10, <1>11

LEMMA AddSentenceHolds ==
  ASSUME NEW s \in Gathered, AllFit(s), NEW t \in Seq(Nat),
         NEW r, r = AddSentence(s, t, Limit)
  PROVE  r \in Gathered /\ AllFit(r) /\ AllWords(r) = AllWords(s) \o t
<1>1. /\ s.done \in Seq(Seq(Nat)) /\ s.text \in Seq(Nat)
      /\ Length(s.text) \in Nat /\ Length(t) \in Nat /\ Limit \in Nat
  BY LengthNat, ChunkerAssumption DEF Gathered
<1>2. CASE Length(t) > Limit
  <2>. DEFINE e == [done |-> IF s.text = <<>> THEN s.done ELSE Append(s.done, s.text),
                    text |-> <<>>]
  <2>1. e \in Gathered /\ AllFit(e) /\ AllWords(e) = AllWords(s)
    <3>1. <<>> \in Seq(Nat) /\ Fits(<<>>)
      BY <1>1, LengthEmpty DEF Fits
    <3>2. CASE s.text = <<>>
      <4>1. e = s
        BY <3>2 DEF Gathered
      <4>. QED
        BY <4>1
    <3>3. CASE s.text # <<>>
      <4>1. e = [done |-> Append(s.done, s.text), text |-> <<>>]
        BY <3>3
      <4>. HIDE DEF e
      <4>2. e \in Gathered /\ AllFit(e) /\ AllWords(e) = AllWords(s) \o <<>>
        BY <3>1, <4>1, SavedHolds
      <4>3. AllWords(s) \in Seq(Nat)
        BY <1>1, FlattenAppend, ConcatProperties DEF AllWords
      <4>. QED
        BY <4>2, <4>3, ConcatEmptySeq
    <3>. QED
      BY <3>2, <3>3
  <2>2. r = Cut(e, t, Limit)
    BY <1>2 DEF AddSentence, AddLong
  <2>. HIDE DEF e
  <2>3. r \in Gathered /\ AllFit(r) /\ AllWords(r) = AllWords(e) \o t
    BY <2>1, <2>2, CutHolds
  <2>. QED
    BY <2>1, <2>3
<1>3. CASE Length(t) <= Limit /\ Length(s.text) + Length(t) + 1 > Limit
  <2>1. r = [done |-> Append(s.done, s.text), text |-> t]
    BY <1>1, <1>3 DEF AddSentence
  <2>2. Fits(t)
    BY <1>3 DEF Fits
  <2>. QED
    BY <2>1, <2>2, SavedHolds
<1>4. CASE Length(t) <= Limit /\ Length(s.text) + Length(t) + 1 <= Limit
  <2>1. r = [s EXCEPT !.text = s.text \o t]
    BY <1>1, <1>4 DEF AddSentence, Gathered
  <2>2. Fits(s.text \o t)
    <3>1. Length(s.text \o t) <= Length(s.text) + Length(t) + 1
      BY <1>1, LengthConcat
    <3>2. Length(s.text \o t) \in Nat
      BY <1>1, LengthNat, ConcatProperties
    <3>. QED
      BY <1>1, <1>4, <3>1, <3>2 DEF Fits
  <2>. QED
    BY <2>1, <2>2, JoinedHolds
<1>. QED
  BY <1>1, <1>2, <1>3, <1>4

-----------------------------------------------------------------------------
(* A section, sentence by sentence.                                           *)

LEMMA EmptySectionHolds ==
  /\ EmptySection \in [done : Seq(Seq(Nat)), text : Seq(Nat),
                        given : Seq(Nat), sentences : Nat]
  /\ FlattenSeq(EmptySection.done) \o EmptySection.text = EmptySection.given
  /\ DOMAIN EmptySection.done = {}
  /\ Fits(EmptySection.text)
<1>1. EmptySection.done = <<>> /\ EmptySection.text = <<>> /\ EmptySection.given = <<>>
  BY DEF EmptySection
<1>2. <<>> \in Seq(Nat) /\ <<>> \o <<>> = <<>>
  OBVIOUS
<1>3. Fits(<<>>)
  BY LengthEmpty, ChunkerAssumption DEF Fits
<1>4. EmptySection \in [done : Seq(Seq(Nat)), text : Seq(Nat),
                        given : Seq(Nat), sentences : Nat]
  BY DEF EmptySection
<1>. QED
  BY <1>1, <1>2, <1>3, <1>4, FlattenEmpty

LEMMA SectionInit == ChunkerInit => SectionInv
<1>. SUFFICES ASSUME ChunkerInit PROVE SectionInv
  OBVIOUS
<1>1. section = EmptySection
  BY DEF ChunkerInit
<1>. QED
  BY <1>1, EmptySectionHolds DEF SectionInv

LEMMA SectionStep == SectionInv /\ [ChunkerNext]_chunkerVars => SectionInv'
<1>. SUFFICES ASSUME SectionInv, [ChunkerNext]_chunkerVars PROVE SectionInv'
  OBVIOUS
<1>1. CASE UNCHANGED section
  BY <1>1 DEF SectionInv, Fits
<1>2. CASE section' = EmptySection
  BY <1>2, EmptySectionHolds DEF SectionInv, Fits
<1>3. ASSUME NEW t \in Sentences, NextSentence(t) PROVE SectionInv'
  <2>1. t \in Seq(Nat)
    <3>1. PICK n \in 1..MaxWords : t \in [1..n -> Lengths]
      BY DEF Sentences
    <3>2. n \in Nat /\ Lengths \subseteq Nat
      BY ChunkerAssumption
    <3>3. t \in [1..n -> Nat]
      BY <3>1, <3>2
    <3>. QED
      BY <3>2, <3>3
  <2>. DEFINE s == [done |-> section.done, text |-> section.text]
              r == AddSentence(s, t, Limit)
  <2>2. s \in Gathered /\ AllFit(s) /\ AllWords(s) = section.given
    BY DEF SectionInv, Gathered, AllFit, AllWords
  <2>3. section' = [section EXCEPT !.done = r.done, !.text = r.text,
                      !.given = section.given \o t,
                      !.sentences = section.sentences + 1]
    BY <1>3 DEF NextSentence
  <2>. HIDE DEF s
  <2>4. r \in Gathered /\ AllFit(r) /\ AllWords(r) = section.given \o t
    BY <2>1, <2>2, AddSentenceHolds
  <2>. HIDE DEF r
  <2>5. section.given \in Seq(Nat) /\ section.given \o t \in Seq(Nat)
    BY <2>1, ConcatProperties DEF SectionInv
  <2>6. r.done \in Seq(Seq(Nat)) /\ r.text \in Seq(Nat) /\ section.sentences + 1 \in Nat
    BY <2>4 DEF Gathered, SectionInv
  <2>7. /\ section' \in [done : Seq(Seq(Nat)), text : Seq(Nat),
                         given : Seq(Nat), sentences : Nat]
        /\ section'.done = r.done /\ section'.text = r.text
        /\ section'.given = section.given \o t
    BY <2>3, <2>5, <2>6 DEF SectionInv
  <2>. QED
    BY <2>4, <2>7 DEF SectionInv, AllFit, AllWords, Fits
<1>. QED
  BY <1>1, <1>2, <1>3
     DEF ChunkerNext, chunkerVars, NextHeading, EndDocument, EndSection

LEMMA SectionImplies == SectionInv => ChunksHoldText
<1>. SUFFICES ASSUME SectionInv PROVE ChunksHoldText
  OBVIOUS
<1>. DEFINE d == section.done
            t == section.text
<1>1. /\ d \in Seq(Seq(Nat)) /\ t \in Seq(Nat) /\ FlattenSeq(d) \o t = section.given
      /\ Fits(t) /\ \A k \in DOMAIN d : Fits(d[k])
  BY DEF SectionInv
<1>2. Whole = d \o IF t = <<>> THEN <<>> ELSE <<t>>
  BY DEF Whole
<1>. HIDE DEF d, t
<1>3. FlattenSeq(d) \in Seq(Nat)
  BY <1>1, FlattenAppend
<1>4. CASE t = <<>>
  <2>1. Whole = d
    BY <1>1, <1>2, <1>4, ConcatEmptySeq
  <2>2. FlattenSeq(d) = section.given
    BY <1>1, <1>3, <1>4, ConcatEmptySeq
  <2>. QED
    BY <1>1, <2>1, <2>2 DEF ChunksHoldText
<1>5. CASE t # <<>>
  <2>1. Whole = Append(d, t)
    BY <1>1, <1>2, <1>5, AppendIsConcat
  <2>2. FlattenSeq(Whole) = section.given
    BY <1>1, <2>1, FlattenAppend
  <2>3. \A k \in DOMAIN Append(d, t) :
          Append(d, t)[k] = t \/ (k \in DOMAIN d /\ Append(d, t)[k] = d[k])
    BY <1>1
  <2>. QED
    BY <1>1, <2>1, <2>2, <2>3 DEF ChunksHoldText
<1>. QED
  BY <1>4, <1>5

(* The chunks of a section are its words, in order, whatever the words, the   *)
(* sentences and the limit, and longer than the limit only if they are one    *)
(* word (_process_section).                                                   *)
THEOREM ChunksAreTheText == ChunkerSpec => []ChunksHoldText
<1>. QED
  BY SectionInit, SectionStep, SectionImplies, PTL DEF ChunkerSpec

-----------------------------------------------------------------------------
(* Paths.  The names of letters and numerals, of which three are both, give   *)
(* the level of every heading, and the levels what is left of a path by one.  *)

LEMMA LetterNames ==
  /\ DOMAIN Letters = 1..25
  /\ Len(Letters) = 25
  /\ \A k \in 1..25 : /\ Letters[k] = "h" <=> k = 8
                      /\ Letters[k] = "i" <=> k = 9
                      /\ Letters[k] = "u" <=> k = 21
                      /\ Letters[k] = "v" <=> k = 22
                      /\ Letters[k] = "w" <=> k = 23
                      /\ Letters[k] = "x" <=> k = 24
BY DEF Letters

LEMMA RomanNames ==
  /\ DOMAIN Romans = 1..11
  /\ Len(Romans) = 11
  /\ \A k \in 1..11 : /\ Romans[k] = "i" <=> k = 1
                      /\ Romans[k] = "v" <=> k = 5
                      /\ Romans[k] = "x" <=> k = 10
BY DEF Romans

LEMMA SharedNames ==
  \A j \in 1..25, k \in 1..11 :
     Letters[j] = Romans[k] <=> <<j, k>> \in {<<9, 1>>, <<22, 5>>, <<24, 10>>}
BY DEF Letters, Romans

Brackets == {Text(2, k) : k \in 1..25} \cup {Text(3, k) : k \in 1..11}

LEMMA BracketsAre ==
  /\ Brackets \subseteq Headings
  /\ \A k \in 1..25 : Text(2, k) \in Brackets
  /\ \A k \in 1..11 : Text(3, k) \in Brackets
BY DEF Brackets, Headings

LEMMA TextIs ==
  ASSUME NEW k
  PROVE  /\ Text(0, k) = [form |-> "article", text |-> k]
         /\ Text(1, k) = [form |-> "number", text |-> k]
         /\ Text(2, k) = [form |-> "()", text |-> Letters[k]]
         /\ Text(3, k) = [form |-> "()", text |-> Romans[k]]
BY DEF Text, Heading

LEMMA TextKinds ==
  /\ \A k : \A l \in {0, 1} : ~IsLetter(Text(l, k)) /\ Text(l, k).form # "()"
  /\ \A k \in 1..25 : /\ IsLetter(Text(2, k))
                      /\ IsRoman(Text(2, k)) <=> k \in {9, 22, 24}
  /\ \A k \in 1..11 : /\ IsRoman(Text(3, k))
                      /\ IsLetter(Text(3, k)) <=> k \in {1, 5, 10}
<1>1. \A k : \A l \in {0, 1} : ~IsLetter(Text(l, k)) /\ Text(l, k).form # "()"
  BY TextIs DEF IsLetter, InBrackets
<1>2. ASSUME NEW k \in 1..25
      PROVE  IsLetter(Text(2, k)) /\ (IsRoman(Text(2, k)) <=> k \in {9, 22, 24})
  <2>1. Text(2, k).form = "()" /\ Text(2, k).text = Letters[k]
    BY TextIs
  <2>2. IsLetter(Text(2, k))
    BY <2>1, LetterNames DEF IsLetter, InBrackets
  <2>3. IsRoman(Text(2, k)) <=> \E j \in 1..11 : Romans[j] = Letters[k]
    BY <2>1, RomanNames DEF IsRoman, InBrackets
  <2>. QED
    BY <2>2, <2>3, SharedNames
<1>3. ASSUME NEW k \in 1..11
      PROVE  IsRoman(Text(3, k)) /\ (IsLetter(Text(3, k)) <=> k \in {1, 5, 10})
  <2>1. Text(3, k).form = "()" /\ Text(3, k).text = Romans[k]
    BY TextIs
  <2>2. IsRoman(Text(3, k))
    BY <2>1, RomanNames DEF IsRoman, InBrackets
  <2>3. IsLetter(Text(3, k)) <=> \E j \in 1..25 : Letters[j] = Romans[k]
    BY <2>1, LetterNames DEF IsLetter, InBrackets
  <2>. QED
    BY <2>2, <2>3, SharedNames
<1>. QED
  BY <1>1, <1>2, <1>3

(* The text of the last heading of a path that looks like one letter.         *)
LetterBefore(path) ==
    IF LastLetter(path) > 0 THEN path[LastLetter(path)].text ELSE "none"

LEMMA LevelOf ==
  ASSUME NEW path, LastLetter(path) \in Nat
  PROVE  /\ \A k : Level(Text(0, k), path) = 0 /\ Level(Text(1, k), path) = 1
         /\ \A k \in 1..25 : Level(Text(2, k), path) =
              IF k \in {9, 22, 24} /\ LetterBefore(path) # Letters[k - 1] THEN 3 ELSE 2
         /\ \A k \in 1..11 : Level(Text(3, k), path) =
              IF \/ k = 1 /\ LetterBefore(path) = "h"
                 \/ k = 5 /\ LetterBefore(path) = "u"
                 \/ k = 10 /\ LetterBefore(path) = "w"
              THEN 2 ELSE 3
<1>1. DOMAIN Before = {"i", "v", "x"} /\ Before["i"] = "h" /\ Before["v"] = "u"
      /\ Before["x"] = "w"
  BY DEF Before
<1>2. ASSUME NEW k PROVE Level(Text(0, k), path) = 0 /\ Level(Text(1, k), path) = 1
  <2>1. Text(0, k).form = "article" /\ Text(1, k).form = "number"
    BY TextIs
  <2>. QED
    BY <2>1 DEF Level
<1>. DEFINE same(t) == LastLetter(path) > 0 /\ path[LastLetter(path)].text = t
<1>3. /\ same("h") <=> LetterBefore(path) = "h"
      /\ same("u") <=> LetterBefore(path) = "u"
      /\ same("w") <=> LetterBefore(path) = "w"
  BY DEF LetterBefore
<1>4. ASSUME NEW h, h.form = "()"
      PROVE  Level(h, path) = IF h.text \in DOMAIN Before
                              THEN IF same(Before[h.text]) THEN 2 ELSE 3
                              ELSE IF IsRoman(h) THEN 3 ELSE 2
  <2>1. Level(h, path) = IF h.text \in DOMAIN Before
                         THEN IF LastLetter(path) > 0
                                   /\ path[LastLetter(path)].text = Before[h.text]
                              THEN 2 ELSE 3
                         ELSE IF IsRoman(h) THEN 3 ELSE 2
    BY <1>4 DEF Level
  <2>. QED
    BY <2>1
<1>. HIDE DEF same
<1>5. Letters[8] = "h" /\ Letters[21] = "u" /\ Letters[23] = "w"
  BY LetterNames
<1>6. ASSUME NEW k \in 1..25
      PROVE  Level(Text(2, k), path) =
              IF k \in {9, 22, 24} /\ LetterBefore(path) # Letters[k - 1] THEN 3 ELSE 2
  <2>1. Text(2, k).form = "()" /\ Text(2, k).text = Letters[k]
    BY TextIs
  <2>2. CASE k = 9
    <3>1. Letters[k] = "i"
      BY <2>2, LetterNames
    <3>2. Level(Text(2, k), path) = IF same("h") THEN 2 ELSE 3
      BY <1>1, <1>4, <2>1, <3>1
    <3>. QED
      BY <1>3, <1>5, <2>2, <3>2
  <2>3. CASE k = 22
    <3>1. Letters[k] = "v"
      BY <2>3, LetterNames
    <3>2. Level(Text(2, k), path) = IF same("u") THEN 2 ELSE 3
      BY <1>1, <1>4, <2>1, <3>1
    <3>. QED
      BY <1>3, <1>5, <2>3, <3>2
  <2>4. CASE k = 24
    <3>1. Letters[k] = "x"
      BY <2>4, LetterNames
    <3>2. Level(Text(2, k), path) = IF same("w") THEN 2 ELSE 3
      BY <1>1, <1>4, <2>1, <3>1
    <3>. QED
      BY <1>3, <1>5, <2>4, <3>2
  <2>5. CASE k \notin {9, 22, 24}
    <3>1. Letters[k] \notin {"i", "v", "x"} /\ ~IsRoman(Text(2, k))
      BY <2>5, LetterNames, TextKinds
    <3>. QED
      BY <1>1, <1>4, <2>1, <2>5, <3>1
  <2>. QED
    BY <2>2, <2>3, <2>4, <2>5
<1>7. ASSUME NEW k \in 1..11
      PROVE  Level(Text(3, k), path) =
              IF \/ k = 1 /\ LetterBefore(path) = "h"
                 \/ k = 5 /\ LetterBefore(path) = "u"
                 \/ k = 10 /\ LetterBefore(path) = "w"
              THEN 2 ELSE 3
  <2>1. Text(3, k).form = "()" /\ Text(3, k).text = Romans[k] /\ IsRoman(Text(3, k))
    BY TextIs, TextKinds
  <2>2. CASE k = 1
    <3>1. Romans[k] = "i"
      BY <2>2, RomanNames
    <3>2. Level(Text(3, k), path) = IF same("h") THEN 2 ELSE 3
      BY <1>1, <1>4, <2>1, <3>1
    <3>. QED
      BY <1>3, <2>2, <3>2
  <2>3. CASE k = 5
    <3>1. Romans[k] = "v"
      BY <2>3, RomanNames
    <3>2. Level(Text(3, k), path) = IF same("u") THEN 2 ELSE 3
      BY <1>1, <1>4, <2>1, <3>1
    <3>. QED
      BY <1>3, <2>3, <3>2
  <2>4. CASE k = 10
    <3>1. Romans[k] = "x"
      BY <2>4, RomanNames
    <3>2. Level(Text(3, k), path) = IF same("w") THEN 2 ELSE 3
      BY <1>1, <1>4, <2>1, <3>1
    <3>. QED
      BY <1>3, <2>4, <3>2
  <2>5. CASE k \notin {1, 5, 10}
    <3>1. Romans[k] \notin {"i", "v", "x"}
      BY <2>5, RomanNames
    <3>. QED
      BY <1>1, <1>4, <2>1, <2>5, <3>1
  <2>. QED
    BY <2>2, <2>3, <2>4, <2>5
<1>. QED
  BY <1>2, <1>6, <1>7

LEMMA Levels ==
  ASSUME NEW path, LastLetter(path) \in Nat
  PROVE  /\ \A x \in Headings : Level(x, path) \in Nat
         /\ \A x \in Brackets : Level(x, path) \in {2, 3}
<1>1. \A k \in 1..25 : Level(Text(2, k), path) \in {2, 3}
  BY LevelOf
<1>2. \A k \in 1..11 : Level(Text(3, k), path) \in {2, 3}
  BY LevelOf
<1>3. ASSUME NEW x \in Brackets PROVE Level(x, path) \in {2, 3}
  BY <1>1, <1>2 DEF Brackets
<1>4. ASSUME NEW x \in Headings PROVE Level(x, path) \in Nat
  <2>1. CASE x \in Brackets
    BY <1>3, <2>1
  <2>2. CASE \E k : x = Text(0, k) \/ x = Text(1, k)
    BY <2>2, LevelOf
  <2>. QED
    BY <2>1, <2>2 DEF Headings, Brackets
<1>. QED
  BY <1>3, <1>4

(* The last letter of a path of which it is known where it is.                *)
LEMMA LastLetterAt ==
  ASSUME NEW path, Len(path) \in Nat
  PROVE  /\ LastLetter(path) \in Nat
         /\ (\A j \in 1..Len(path) : ~IsLetter(path[j])) => LastLetter(path) = 0
         /\ \A k \in 1..Len(path) :
              IsLetter(path[k]) /\ (\A j \in k + 1..Len(path) : ~IsLetter(path[j]))
                => LastLetter(path) = k
<1>. DEFINE I == {i \in 1..Len(path) : IsLetter(path[i])}
<1>1. LastLetter(path) = IF I # {} THEN Max(I) ELSE 0
  BY DEF LastLetter, SelectLastInSubSeq
<1>2. ASSUME NEW m \in I, \A j \in I : m >= j PROVE Max(I) = m
  <2>1. Max(I) \in I /\ \A j \in I : Max(I) >= j
    BY <1>2 DEF Max
  <2>2. \A j \in I : j \in Nat
    OBVIOUS
  <2>. HIDE DEF I
  <2>. QED
    BY <1>2, <2>1, <2>2
<1>3. LastLetter(path) \in Nat
  <2>1. CASE I # {}
    <3>1. \E m \in I : \A j \in I : m >= j
      <4>. DEFINE C == {Len(path) - i : i \in I}
      <4>1. C \subseteq Nat /\ C # {}
        BY <2>1
      <4>2. PICK c \in C : \A d \in C : c <= d
        BY <4>1, LeastNumber
      <4>3. PICK m \in I : c = Len(path) - m
        BY <4>2
      <4>4. \A j \in I : j \in Nat /\ c <= Len(path) - j
        BY <4>2
      <4>5. m \in Nat
        BY <4>3
      <4>. HIDE DEF I, C
      <4>6. \A j \in I : m >= j
        BY <4>3, <4>4, <4>5
      <4>. QED
        BY <4>3, <4>6
    <3>. QED
      BY <1>1, <1>2, <2>1, <3>1
  <2>2. CASE I = {}
    BY <1>1, <2>2
  <2>. QED
    BY <2>1, <2>2
<1>4. (\A j \in 1..Len(path) : ~IsLetter(path[j])) => LastLetter(path) = 0
  BY <1>1
<1>5. ASSUME NEW k \in 1..Len(path), IsLetter(path[k]),
             \A j \in k + 1..Len(path) : ~IsLetter(path[j])
      PROVE  LastLetter(path) = k
  <2>1. k \in I /\ \A j \in I : k >= j
    BY <1>5
  <2>. HIDE DEF I
  <2>. QED
    BY <1>1, <1>2, <2>1
<1>. QED
  BY <1>3, <1>4, <1>5

(* A new heading comes after the headings that are above it.                  *)
LEMMA OneOrNone ==
  ASSUME NEW S, NEW s \in Seq(S), Len(s) <= 1
  PROVE  Len(s) \in {0, 1} /\ (s # <<>> <=> Len(s) = 1)
OBVIOUS

Splits(path, h, Q, R) ==
    /\ path = Q \o R
    /\ \A k \in 1..Len(Q) : Level(Q[k], path) < Level(h, path)
    /\ R # <<>> => ~(Level(R[1], path) < Level(h, path))

Leaves(path, h, Q) == UpdateHierarchy(path, h) = Q \o <<h>>

LEMMA UpdateKeeps ==
  ASSUME NEW Q \in Seq(Headings), NEW R \in Seq(Headings), NEW path, NEW h,
         Splits(path, h, Q, R)
  PROVE  Leaves(path, h, Q)
<1>0. /\ path = Q \o R
      /\ \A k \in 1..Len(Q) : Level(Q[k], path) < Level(h, path)
      /\ R # <<>> => ~(Level(R[1], path) < Level(h, path))
  BY DEF Splits
<1>. DEFINE Above(k) == \A j \in 1..k : Level(path[j], path) < Level(h, path)
            Good(k) == Above(k) /\ (k < Len(path) => ~Above(k + 1))
            kept == CHOOSE k \in 0..Len(path) : Good(k)
            n == Len(Q)
<1>1. /\ n \in Nat /\ Len(R) \in Nat /\ Len(path) = n + Len(R)
      /\ \A k \in 1..n : path[k] = Q[k]
      /\ R # <<>> => n + 1 \in 1..Len(path) /\ path[n + 1] = R[1]
      /\ R = <<>> => Len(path) = n
  <2>1. /\ Len(path) = n + Len(R)
        /\ \A i \in 1..n + Len(R) : path[i] = IF i <= n THEN Q[i] ELSE R[i - n]
    BY <1>0, ConcatProperties
  <2>2. n \in Nat /\ Len(R) \in Nat /\ (R = <<>> <=> Len(R) = 0)
    OBVIOUS
  <2>3. \A k \in 1..n : path[k] = Q[k]
    BY <2>1, <2>2
  <2>4. R # <<>> => n + 1 \in 1..n + Len(R) /\ ~(n + 1 <= n) /\ (n + 1) - n = 1
    BY <2>2
  <2>. HIDE DEF n
  <2>. QED
    BY <2>1, <2>2, <2>3, <2>4
<1>2. UpdateHierarchy(path, h) = Append(SubSeq(path, 1, kept), h)
  BY DEF UpdateHierarchy
<1>3. n \in 0..Len(path) /\ Good(n)
  <2>1. n \in 0..Len(path) /\ (n < Len(path) => R # <<>>)
    BY <1>1
  <2>2. Above(n)
    BY <1>0, <1>1
  <2>3. R # <<>> => ~(Level(path[n + 1], path) < Level(h, path)) /\ n + 1 \in 1..n + 1
    BY <1>0, <1>1
  <2>4. R # <<>> => ~Above(n + 1)
    BY <2>3
  <2>. HIDE DEF n, Above
  <2>. QED
    BY <2>1, <2>2, <2>4
<1>4. \A k \in 0..Len(path) : Good(k) => k = n
  <2>. SUFFICES ASSUME NEW k \in 0..Len(path), Good(k), k # n PROVE FALSE
    OBVIOUS
  <2>1. CASE k < n
    <3>1. k < Len(path) /\ k + 1 \in Nat /\ k + 1 <= n
      BY <1>1, <2>1
    <3>2. Above(k + 1)
      BY <1>3, <3>1
    <3>. QED
      BY <3>1, <3>2
  <2>2. CASE n < k
    <3>1. n < Len(path) /\ n + 1 <= k
      BY <1>1, <2>2
    <3>2. Above(n + 1)
      BY <1>1, <3>1
    <3>. QED
      BY <1>3, <3>1, <3>2
  <2>. QED
    BY <1>1, <2>1, <2>2
<1>. HIDE DEF Good
<1>5. kept = n
  BY <1>3, <1>4
<1>6. SubSeq(path, 1, n) = Q
  BY <1>0, <1>1
<1>7. Append(Q, h) = Q \o <<h>>
  OBVIOUS
<1>. QED
  BY <1>2, <1>5, <1>6, <1>7 DEF Leaves

(* A path below its article and number: perhaps a letter, perhaps a heading.  *)
PathOf(P, a, B) == P \o (IF a = 0 THEN <<>> ELSE <<Text(2, a)>>) \o B

LEMMA TailLetter ==
  ASSUME NEW P \in Seq(Headings), \A k \in 1..Len(P) : ~IsLetter(P[k]),
         NEW a \in 0..25, NEW B \in Seq(Brackets), Len(B) <= 1,
         NEW path, path = PathOf(P, a, B)
  PROVE  /\ LastLetter(path) \in Nat
         /\ LetterBefore(path) = IF B # <<>> /\ IsLetter(B[1]) THEN B[1].text
                                 ELSE IF a # 0 THEN Letters[a] ELSE "none"
<1>. DEFINE A == IF a = 0 THEN <<>> ELSE <<Text(2, a)>>
            n == Len(P)
<1>1. /\ A \in Seq(Brackets) /\ Len(A) \in {0, 1}
      /\ (a = 0 => Len(A) = 0) /\ (a # 0 => Len(A) = 1 /\ A[1] = Text(2, a))
  <2>1. CASE a = 0
    BY <2>1
  <2>2. CASE a # 0
    <3>1. a \in 1..25
      BY <2>2
    <3>2. Text(2, a) \in Brackets
      BY <3>1, BracketsAre, Zenon
    <3>3. A = <<Text(2, a)>>
      BY <2>2
    <3>. HIDE DEF A
    <3>4. A \in Seq(Brackets) /\ Len(A) = 1 /\ A[1] = Text(2, a)
      BY <3>2, <3>3
    <3>. QED
      BY <2>2, <3>4
  <2>. QED
    BY <2>1, <2>2
<1>2. path = (P \o A) \o B
  BY DEF PathOf
<1>. HIDE DEF A
<1>3. /\ n \in Nat /\ Len(path) = n + Len(A) + Len(B) /\ Len(A) \in {0, 1} /\ Len(B) \in {0, 1}
      /\ \A k \in 1..n : path[k] = P[k]
      /\ Len(A) = 1 => path[n + 1] = A[1]
      /\ Len(B) = 1 => path[n + Len(A) + 1] = B[1]
  <2>1. n \in Nat /\ Len(A) \in {0, 1} /\ Len(B) \in {0, 1}
    <3>1. n \in Nat /\ Len(B) \in {0, 1}
      BY OneOrNone
    <3>. QED
      BY <1>1, <3>1
  <2>2. P \in Seq(Headings \cup Brackets) /\ A \in Seq(Headings \cup Brackets)
        /\ B \in Seq(Headings \cup Brackets)
    BY <1>1
  <2>. HIDE DEF n
  <2>3. /\ P \o A \in Seq(Headings \cup Brackets)
        /\ Len(P \o A) = Len(P) + Len(A)
        /\ \A i \in 1..Len(P) + Len(A) :
             (P \o A)[i] = IF i <= Len(P) THEN P[i] ELSE A[i - Len(P)]
    BY <2>2, ConcatProperties
  <2>4. /\ Len(path) = Len(P \o A) + Len(B)
        /\ \A i \in 1..Len(P \o A) + Len(B) :
             path[i] = IF i <= Len(P \o A) THEN (P \o A)[i] ELSE B[i - Len(P \o A)]
    BY <1>2, <2>2, <2>3, ConcatProperties
  <2>5. n = Len(P)
    BY DEF n
  <2>. HIDE DEF PathOf
  <2>6. CASE Len(A) = 0
    BY <2>1, <2>3, <2>4, <2>5, <2>6
  <2>7. CASE Len(A) = 1
    BY <2>1, <2>3, <2>4, <2>5, <2>7
  <2>. QED
    BY <2>1, <2>6, <2>7
<1>4. Len(path) \in Nat /\ LastLetter(path) \in Nat
  <2>1. Len(path) \in Nat
    BY <1>3
  <2>. QED
    BY <2>1, LastLetterAt
<1>5. CASE Len(B) = 1 /\ IsLetter(B[1])
  <2>1. Len(path) \in 1..Len(path) /\ path[Len(path)] = B[1]
    BY <1>3, <1>5
  <2>2. \A j \in Len(path) + 1..Len(path) : ~IsLetter(path[j])
    BY <1>4
  <2>3. LastLetter(path) = Len(path)
    BY <1>4, <1>5, <2>1, <2>2, LastLetterAt
  <2>4. B # <<>> /\ Len(path) > 0
    BY <1>3, <1>5
  <2>. QED
    BY <1>5, <2>1, <2>3, <2>4 DEF LetterBefore
<1>6. CASE ~(Len(B) = 1 /\ IsLetter(B[1])) /\ a # 0
  <2>1. /\ n + 1 \in 1..Len(path) /\ path[n + 1] = A[1]
        /\ \A j \in (n + 1) + 1..Len(path) : j = n + 2 /\ Len(B) = 1 /\ path[j] = B[1]
    <3>1. Len(A) = 1
      BY <1>1, <1>6
    <3>2. n + Len(A) + 1 = n + 2
      BY <1>3, <3>1
    <3>3. n + 1 \in 1..Len(path) /\ \A j \in (n + 1) + 1..Len(path) : j = n + 2 /\ Len(B) = 1
      BY <1>3, <3>1
    <3>. QED
      BY <1>3, <3>1, <3>2, <3>3
  <2>2. \A j \in (n + 1) + 1..Len(path) : ~IsLetter(path[j])
    BY <1>6, <2>1
  <2>6. IsLetter(path[n + 1])
    <3>1. a \in 1..25 /\ path[n + 1] = Text(2, a)
      BY <1>1, <1>6, <2>1
    <3>. QED
      BY <3>1, TextKinds
  <2>3. LastLetter(path) = n + 1
    BY <1>4, <2>1, <2>2, <2>6, LastLetterAt
  <2>4. n + 1 > 0 /\ (B # <<>> => Len(B) = 1)
    BY <1>3
  <2>5. A[1].text = Letters[a]
    BY <1>1, <1>6, TextIs
  <2>. QED
    BY <1>6, <2>1, <2>3, <2>4, <2>5 DEF LetterBefore
<1>7. CASE ~(Len(B) = 1 /\ IsLetter(B[1])) /\ a = 0
  <2>1. \A j \in 1..Len(path) : j \in 1..n \/ (j = n + 1 /\ Len(B) = 1 /\ path[j] = B[1])
    BY <1>1, <1>3, <1>7
  <2>2. \A j \in 1..Len(path) : ~IsLetter(path[j])
    BY <1>3, <1>7, <2>1
  <2>3. LastLetter(path) = 0
    BY <1>4, <2>2, LastLetterAt
  <2>4. B # <<>> => Len(B) = 1
    BY <1>3
  <2>. QED
    BY <1>7, <2>3, <2>4 DEF LetterBefore
<1>8. B # <<>> <=> Len(B) = 1
  BY <1>3
<1>. QED
  BY <1>4, <1>5, <1>6, <1>7, <1>8

(* What a bracketed heading leaves of such a path.                            *)
Below2(P, path) == \A k \in 1..Len(P) : Level(P[k], path) < 2
GoesTo(path, h, P, a, B) ==
    /\ Level(h, path) = 2 => UpdateHierarchy(path, h) = PathOf(P, 0, <<h>>)
    /\ Level(h, path) = 3 /\ (B # <<>> => Level(B[1], path) = 3)
         => UpdateHierarchy(path, h) = PathOf(P, a, <<h>>)
    /\ \A b \in 1..25 :
         Level(h, path) = 3 /\ a = 0 /\ B = <<Text(2, b)>> /\ Level(B[1], path) = 2
           => UpdateHierarchy(path, h) = PathOf(P, b, <<h>>)

LEMMA UpdateTail ==
  ASSUME NEW P \in Seq(Headings),
         NEW a \in 0..25, a \notin {9, 22, 24}, NEW B \in Seq(Brackets), Len(B) <= 1,
         NEW path, path = PathOf(P, a, B), LastLetter(path) \in Nat,
         Below2(P, path), NEW h \in Brackets
  PROVE  GoesTo(path, h, P, a, B)
<1>0. \A k \in 1..Len(P) : Level(P[k], path) < 2
  BY DEF Below2
<1>. DEFINE A == IF a = 0 THEN <<>> ELSE <<Text(2, a)>>
<1>1. Brackets \subseteq Headings
  BY BracketsAre
<1>2. /\ A \in Seq(Headings) /\ B \in Seq(Headings)
      /\ Len(A) \in {0, 1} /\ (A # <<>> => a \in 1..25 /\ A[1] = Text(2, a) /\ Len(A) = 1)
      /\ (A = <<>> => a = 0)
  <2>1. CASE a = 0
    BY <1>1, <2>1
  <2>2. CASE a # 0
    <3>1. a \in 1..25 /\ A = <<Text(2, a)>>
      BY <2>2
    <3>2. Text(2, a) \in Headings
      BY <1>1, <3>1, BracketsAre, Zenon
    <3>. HIDE DEF A
    <3>3. A \in Seq(Headings) /\ Len(A) = 1 /\ A[1] = Text(2, a) /\ A # <<>>
      BY <3>1, <3>2
    <3>. QED
      BY <1>1, <3>1, <3>3
  <2>. QED
    BY <2>1, <2>2
<1>3. PathOf(P, a, B) = (P \o A) \o B /\ PathOf(P, a, <<h>>) = (P \o A) \o <<h>>
  BY DEF PathOf
<1>4. PathOf(P, 0, <<h>>) = P \o <<h>>
  <2>1. P \o <<>> = P
    BY ConcatEmptySeq
  <2>. QED
    BY <2>1 DEF PathOf
<1>. HIDE DEF A
<1>5. A # <<>> => Level(A[1], path) = 2
  BY <1>2, LevelOf
<1>6. \A x \in Brackets : Level(x, path) \in {2, 3}
  BY Levels
<1>7. P \o A \in Seq(Headings) /\ A \o B \in Seq(Headings) /\ path = P \o (A \o B)
  <2>1. path = (P \o A) \o B
    BY <1>3
  <2>2. P \o A \in Seq(Headings) /\ A \o B \in Seq(Headings)
    BY <1>2, ConcatProperties
  <2>3. (P \o A) \o B = P \o (A \o B)
    BY <1>2, ConcatAssociative
  <2>. QED
    BY <2>1, <2>2, <2>3
<1>8. B # <<>> => B[1] \in Brackets
  OBVIOUS
<1>9. ASSUME Level(h, path) = 2 PROVE UpdateHierarchy(path, h) = PathOf(P, 0, <<h>>)
  <2>1. A \o B # <<>> => (A \o B)[1] = IF A # <<>> THEN A[1] ELSE B[1]
    <3>1. CASE A = <<>>
      BY <1>2, <3>1, ConcatEmptySeq
    <3>2. CASE A # <<>>
      <4>1. Len(A) = 1 /\ Len(B) \in Nat
        BY <1>2, <3>2
      <4>2. \A i \in 1..Len(A) + Len(B) : (A \o B)[i] = IF i <= Len(A) THEN A[i] ELSE B[i - Len(A)]
        BY <1>2, ConcatProperties
      <4>. QED
        BY <3>2, <4>1, <4>2
    <3>. QED
      BY <3>1, <3>2
  <2>2. A = <<>> => A \o B = B
    BY <1>2, ConcatEmptySeq
  <2>3. A \o B # <<>> => ~(Level((A \o B)[1], path) < Level(h, path))
    BY <1>5, <1>6, <1>8, <1>9, <2>1, <2>2
  <2>4. Splits(path, h, P, A \o B)
    BY <1>0, <1>7, <1>9, <2>3 DEF Splits
  <2>5. Leaves(path, h, P)
    BY <1>7, <2>4, UpdateKeeps, Zenon
  <2>. QED
    BY <1>4, <2>5 DEF Leaves
<1>10. ASSUME Level(h, path) = 3, B # <<>> => Level(B[1], path) = 3
       PROVE  UpdateHierarchy(path, h) = PathOf(P, a, <<h>>)
  <2>1. \A k \in 1..Len(P \o A) : Level((P \o A)[k], path) < 3
    <3>1. /\ Len(P \o A) = Len(P) + Len(A)
          /\ \A i \in 1..Len(P) + Len(A) : (P \o A)[i] = IF i <= Len(P) THEN P[i] ELSE A[i - Len(P)]
      BY <1>2, ConcatProperties
    <3>. SUFFICES ASSUME NEW k \in 1..Len(P) + Len(A) PROVE Level((P \o A)[k], path) < 3
      BY <3>1
    <3>2. CASE k <= Len(P)
      <4>1. k \in 1..Len(P) /\ (P \o A)[k] = P[k]
        BY <3>1, <3>2
      <4>2. Level(P[k], path) < 2 /\ P[k] \in Headings
        BY <1>0, <4>1
      <4>3. \A x \in Headings : Level(x, path) \in Nat
        BY Levels
      <4>. QED
        BY <4>1, <4>2, <4>3
    <3>3. CASE ~(k <= Len(P))
      <4>1. Len(P) \in Nat
        OBVIOUS
      <4>2. Len(A) \in {0, 1}
        BY <1>2
      <4>3. Len(A) = 1
        BY <3>3, <4>1, <4>2
      <4>5. k - Len(P) = 1
        BY <3>3, <4>1, <4>3
      <4>4. A # <<>>
        BY <1>2, <4>3, OneOrNone
      <4>. QED
        BY <1>5, <3>1, <3>3, <4>4, <4>5
    <3>. QED
      BY <3>2, <3>3
  <2>2. B # <<>> => ~(Level(B[1], path) < Level(h, path))
    BY <1>10
  <2>3. Splits(path, h, P \o A, B)
    BY <1>3, <1>10, <2>1, <2>2 DEF Splits
  <2>4. Leaves(path, h, P \o A)
    BY <1>2, <1>7, <2>3, UpdateKeeps, Zenon
  <2>. QED
    BY <1>3, <2>4 DEF Leaves
<1>11. ASSUME NEW b \in 1..25, Level(h, path) = 3, a = 0, B = <<Text(2, b)>>,
              Level(B[1], path) = 2
       PROVE  UpdateHierarchy(path, h) = PathOf(P, b, <<h>>)
  <2>1. A = <<>>
    BY <1>2, <1>11
  <2>2. path = P \o B
    BY <1>2, <1>7, <2>1, ConcatEmptySeq
  <2>3. P \o B \in Seq(Headings) /\ Len(P \o B) = Len(P) + 1
        /\ \A i \in 1..Len(P) + 1 : (P \o B)[i] = IF i <= Len(P) THEN P[i] ELSE B[i - Len(P)]
    <3>1. Len(B) = 1
      BY <1>11
    <3>2. /\ P \o B \in Seq(Headings) /\ Len(P \o B) = Len(P) + Len(B)
          /\ \A i \in 1..Len(P) + Len(B) :
               (P \o B)[i] = IF i <= Len(P) THEN P[i] ELSE B[i - Len(P)]
      BY <1>2, ConcatProperties
    <3>. QED
      BY <3>1, <3>2
  <2>4. \A k \in 1..Len(P \o B) : Level((P \o B)[k], path) < 3
    <3>. SUFFICES ASSUME NEW k \in 1..Len(P) + 1 PROVE Level((P \o B)[k], path) < 3
      BY <2>3
    <3>1. CASE k <= Len(P)
      <4>1. k \in 1..Len(P) /\ (P \o B)[k] = P[k]
        BY <2>3, <3>1
      <4>2. Level(P[k], path) < 2 /\ P[k] \in Headings
        BY <1>0, <4>1
      <4>3. \A x \in Headings : Level(x, path) \in Nat
        BY Levels
      <4>. QED
        BY <4>1, <4>2, <4>3
    <3>2. CASE ~(k <= Len(P))
      <4>1. Len(P) \in Nat
        OBVIOUS
      <4>2. k - Len(P) = 1
        BY <3>2, <4>1
      <4>. QED
        BY <1>11, <2>3, <3>2, <4>2
    <3>. QED
      BY <3>1, <3>2
  <2>5. path = (P \o B) \o <<>> /\ <<>> \in Seq(Headings)
    BY <2>2, <2>3, ConcatEmptySeq
  <2>6. UpdateHierarchy(path, h) = (P \o B) \o <<h>>
    <3>1. Splits(path, h, P \o B, <<>>)
      BY <1>11, <2>4, <2>5 DEF Splits
    <3>2. Leaves(path, h, P \o B)
      BY <2>3, <2>5, <3>1, UpdateKeeps, Zenon
    <3>. QED
      BY <3>2 DEF Leaves
  <2>7. PathOf(P, b, <<h>>) = (P \o B) \o <<h>>
    <3>1. b # 0
      OBVIOUS
    <3>. QED
      BY <1>11, <3>1 DEF PathOf
  <2>. QED
    BY <2>6, <2>7
<1>. QED
  BY <1>9, <1>10, <1>11 DEF GoesTo

-----------------------------------------------------------------------------
(* The outline, as operators of the state's parts.                            *)
PartOf(at, l) == IF at[l] = 0 THEN <<>> ELSE <<Text(l, at[l])>>
HeadOf(at) == PartOf(at, 0) \o PartOf(at, 1)
LastOf(at) == IF at[3] = 0 THEN PartOf(at, 2) ELSE PartOf(at, 3)
AboveOf(L, R, b) ==
    IF \/ L = 22 /\ b = 1 /\ R < 5
       \/ L = 24 /\ b \in {1, 5} /\ R < 10
    THEN L - 1
    ELSE IF \/ R = 0 \/ L \in {0, 8, 9, 22, 24}
            \/ L = 21 /\ R >= 5
            \/ L = 23 /\ R >= 10
    THEN 0 ELSE L

AtType(at) == at \in [0..3 -> Nat] /\ at[2] <= 25 /\ at[3] <= 11
OutlineOf(o) ==
    /\ o \in [at : [0..3 -> Nat], before : 0..11, path : Seq(Headings)]
    /\ AtType(o.at)
    /\ o.path = PathOf(HeadOf(o.at), AboveOf(o.at[2], o.at[3], o.before), LastOf(o.at))

LEMMA OutlineIs == OutlineInv <=> OutlineOf(outline)
<1>1. LetterAbove = AboveOf(outline.at[2], outline.at[3], outline.before)
  BY DEF LetterAbove, AboveOf
<1>2. \A l \in 0..3 : Part(l) = PartOf(outline.at, l)
  BY DEF Part, PartOf
<1>3. Part(0) \o Part(1) = HeadOf(outline.at)
  BY <1>2 DEF HeadOf
<1>4. (IF outline.at[3] = 0 THEN Part(2) ELSE Part(3)) = LastOf(outline.at)
  BY <1>2 DEF LastOf
<1>5. (outline.at \in [0..3 -> Nat] /\ outline.at[2] <= 25 /\ outline.at[3] <= 11)
        <=> AtType(outline.at)
  BY DEF AtType
<1>6. outline \in [at : [0..3 -> Nat], before : 0..11, path : Seq(Headings)]
        => outline.at \in [0..3 -> Nat]
  OBVIOUS
<1>7. PathOf(HeadOf(outline.at), LetterAbove, LastOf(outline.at))
        = HeadOf(outline.at)
            \o (IF LetterAbove = 0 THEN <<>> ELSE <<Text(2, LetterAbove)>>)
            \o LastOf(outline.at)
  BY Zenon DEF PathOf
<1>. QED
  BY <1>1, <1>3, <1>4, <1>5, <1>6, <1>7, Zenon DEF OutlineInv, OutlineOf

LEMMA AboveRange ==
  ASSUME NEW L \in 0..25, NEW R \in 0..11, NEW b \in 0..11
  PROVE  AboveOf(L, R, b) \in 0..25 /\ AboveOf(L, R, b) \notin {9, 22, 24}
BY DEF AboveOf

LEMMA PartIs ==
  ASSUME NEW at, AtType(at)
  PROVE  /\ \A l \in 0..3 : PartOf(at, l) \in Seq(Headings) /\ Len(PartOf(at, l)) <= 1
         /\ \A l \in {2, 3} : PartOf(at, l) \in Seq(Brackets)
         /\ \A l \in 0..3 : /\ at[l] = 0 => PartOf(at, l) = <<>>
                            /\ at[l] # 0 => PartOf(at, l) = <<Text(l, at[l])>>
<1>1. /\ at[2] # 0 => at[2] \in 1..25
      /\ at[3] # 0 => at[3] \in 1..11
      /\ at[0] \in Nat /\ at[1] \in Nat
  BY DEF AtType
<1>2. /\ at[2] # 0 => Text(2, at[2]) \in Brackets
      /\ at[3] # 0 => Text(3, at[3]) \in Brackets
  BY <1>1, BracketsAre
<1>3. /\ at[0] # 0 => Text(0, at[0]) \in Headings
      /\ at[1] # 0 => Text(1, at[1]) \in Headings
  BY <1>1 DEF Headings
<1>4. \A l \in 0..3 : /\ at[l] = 0 => PartOf(at, l) = <<>>
                      /\ at[l] # 0 => PartOf(at, l) = <<Text(l, at[l])>>
  BY DEF PartOf
<1>5. ASSUME NEW l \in 0..3
      PROVE  /\ PartOf(at, l) \in Seq(Headings) /\ Len(PartOf(at, l)) <= 1
             /\ l \in {2, 3} => PartOf(at, l) \in Seq(Brackets)
  <2>1. CASE at[l] = 0
    <3>1. PartOf(at, l) = <<>>
      BY <1>4, <2>1
    <3>. QED
      BY <3>1
  <2>2. CASE at[l] # 0
    <3>1. Text(l, at[l]) \in Headings /\ (l \in {2, 3} => Text(l, at[l]) \in Brackets)
      BY <1>2, <1>3, <2>2, BracketsAre
    <3>2. PartOf(at, l) = <<Text(l, at[l])>>
      BY <1>4, <2>2
    <3>. QED
      BY <3>1, <3>2
  <2>. QED
    BY <2>1, <2>2
<1>. QED
  BY <1>4, <1>5

LEMMA HeadIs ==
  ASSUME NEW at, AtType(at)
  PROVE  /\ HeadOf(at) \in Seq(Headings)
         /\ \A k \in 1..Len(HeadOf(at)) :
              ~IsLetter(HeadOf(at)[k])
                /\ \A path : LastLetter(path) \in Nat => Level(HeadOf(at)[k], path) < 2
<1>. DEFINE p == PartOf(at, 0)
            q == PartOf(at, 1)
            High == {Text(0, at[0]), Text(1, at[1])}
<1>1. p \in Seq(High) /\ q \in Seq(High)
  <2>1. p = <<>> \/ p = <<Text(0, at[0])>>
    BY PartIs
  <2>2. q = <<>> \/ q = <<Text(1, at[1])>>
    BY PartIs
  <2>3. Text(0, at[0]) \in High /\ Text(1, at[1]) \in High
    OBVIOUS
  <2>. HIDE DEF p, q, High
  <2>4. <<>> \in Seq(High) /\ <<Text(0, at[0])>> \in Seq(High)
        /\ <<Text(1, at[1])>> \in Seq(High)
    BY <2>3
  <2>. QED
    BY <2>1, <2>2, <2>4, Zenon
<1>2. HeadOf(at) = p \o q
  BY DEF HeadOf
<1>3. HeadOf(at) \in Seq(Headings)
  <2>1. p \in Seq(Headings) /\ q \in Seq(Headings)
    BY PartIs
  <2>. HIDE DEF p, q
  <2>. QED
    BY <1>2, <2>1, ConcatProperties
<1>4. HeadOf(at) \in Seq(High)
  <2>. HIDE DEF p, q, High
  <2>. QED
    BY <1>1, <1>2, ConcatProperties
<1>5. \A x \in High : ~IsLetter(x)
                        /\ \A path : LastLetter(path) \in Nat => Level(x, path) < 2
  BY TextKinds, LevelOf
<1>6. \A k \in 1..Len(HeadOf(at)) : HeadOf(at)[k] \in High
  <2>. HIDE DEF High
  <2>. QED
    BY <1>4
<1>. QED
  BY <1>3, <1>5, <1>6

LEMMA LastIs ==
  ASSUME NEW at, AtType(at)
  PROVE  /\ LastOf(at) \in Seq(Brackets) /\ Len(LastOf(at)) <= 1
         /\ at[2] = 0 /\ at[3] = 0 => LastOf(at) = <<>>
         /\ at[2] # 0 /\ at[3] = 0 => LastOf(at) = <<Text(2, at[2])>>
         /\ at[3] # 0 => LastOf(at) = <<Text(3, at[3])>>
<1>1. CASE at[3] = 0
  <2>1. LastOf(at) = PartOf(at, 2)
    BY <1>1 DEF LastOf
  <2>. QED
    BY <1>1, <2>1, PartIs
<1>2. CASE at[3] # 0
  <2>1. LastOf(at) = PartOf(at, 3)
    BY <1>2 DEF LastOf
  <2>. QED
    BY <1>2, <2>1, PartIs
<1>. QED
  BY <1>1, <1>2

(* The levels of the last heading and of those that may come next.            *)
LEMMA OutlineLevels ==
  ASSUME NEW o, OutlineOf(o), NEW L, L = o.at[2], NEW R, R = o.at[3],
         NEW a, a = AboveOf(L, R, o.before)
  PROVE  /\ LastLetter(o.path) \in Nat
         /\ R = 0 /\ L = 0 => LetterBefore(o.path) = "none"
         /\ R = 0 /\ L # 0 => LetterBefore(o.path) = Letters[L]
         /\ R = 1 => LetterBefore(o.path) = "i"
         /\ R = 5 => LetterBefore(o.path) = "v"
         /\ R = 10 => LetterBefore(o.path) = "x"
         /\ R \notin {0, 1, 5, 10} =>
              LetterBefore(o.path) = IF a # 0 THEN Letters[a] ELSE "none"
<1>. DEFINE P == HeadOf(o.at)
            B == LastOf(o.at)
<1>1. AtType(o.at) /\ o.before \in 0..11
  BY DEF OutlineOf
<1>2. L \in 0..25 /\ R \in 0..11
  BY <1>1 DEF AtType
<1>3. a \in 0..25
  BY <1>1, <1>2, AboveRange
<1>4. o.path = PathOf(P, a, B)
  BY DEF OutlineOf
<1>5. P \in Seq(Headings) /\ \A k \in 1..Len(P) : ~IsLetter(P[k])
  BY <1>1, HeadIs
<1>6. B \in Seq(Brackets) /\ Len(B) <= 1
  BY <1>1, LastIs
<1>. HIDE DEF P, B
<1>7. /\ LastLetter(o.path) \in Nat
      /\ LetterBefore(o.path) = IF B # <<>> /\ IsLetter(B[1]) THEN B[1].text
                                ELSE IF a # 0 THEN Letters[a] ELSE "none"
  BY <1>3, <1>4, <1>5, <1>6, TailLetter
<1>8. CASE R = 0 /\ L = 0
  <2>1. B = <<>>
    BY <1>1, <1>8, LastIs DEF B
  <2>2. a = 0
    BY <1>8 DEF AboveOf
  <2>. QED
    BY <1>7, <1>8, <2>1, <2>2
<1>9. CASE R = 0 /\ L # 0
  <2>1. B = <<Text(2, L)>> /\ L \in 1..25
    <3>1. LastOf(o.at) = <<Text(2, o.at[2])>>
      BY <1>1, <1>9, LastIs
    <3>. QED
      BY <1>2, <1>9, <3>1 DEF B
  <2>2. IsLetter(Text(2, L)) /\ Text(2, L).text = Letters[L]
    BY <2>1, TextKinds, TextIs
  <2>3. B # <<>> /\ B[1] = Text(2, L)
    BY <2>1
  <2>. QED
    BY <1>7, <1>9, <2>2, <2>3
<1>10. CASE R # 0
  <2>1. B = <<Text(3, R)>> /\ R \in 1..11
    BY <1>1, <1>2, <1>10, LastIs DEF B
  <2>2. (IsLetter(Text(3, R)) <=> R \in {1, 5, 10}) /\ Text(3, R).text = Romans[R]
    BY <2>1, TextKinds, TextIs
  <2>3. B # <<>> /\ B[1] = Text(3, R)
    BY <2>1
  <2>4. Romans[1] = "i" /\ Romans[5] = "v" /\ Romans[10] = "x"
    BY RomanNames
  <2>. QED
    BY <1>7, <1>10, <2>2, <2>3, <2>4
<1>. QED
  BY <1>7, <1>8, <1>9, <1>10

LEMMA HeadingsAssociate ==
  ASSUME NEW s \in Seq(Headings), NEW t \in Seq(Headings), NEW u \in Seq(Headings)
  PROVE  (s \o t) \o u = s \o (t \o u)
BY ConcatAssociative

Climb(at, l) ==
    [m \in 0..3 |-> IF m < l THEN at[m] ELSE IF m = l THEN at[m] + 1 ELSE 0]
After(o, l) ==
    [at |-> Climb(o.at, l),
     before |-> IF l = 2 THEN o.at[3] ELSE IF l = 3 THEN o.before ELSE 0,
     path |-> UpdateHierarchy(o.path, Text(l, Climb(o.at, l)[l]))]

LEMMA ClimbIs ==
  ASSUME NEW at, AtType(at), NEW l \in 0..3,
         l = 2 => at[2] + 1 <= 25, l = 3 => at[3] + 1 <= 11
  PROVE  /\ AtType(Climb(at, l)) /\ Climb(at, l)[l] = at[l] + 1
         /\ \A m \in 0..3 : (m < l => Climb(at, l)[m] = at[m])
                              /\ (m > l => Climb(at, l)[m] = 0)
<1>1. /\ Climb(at, l) \in [0..3 -> Nat]
      /\ \A m \in 0..3 : Climb(at, l)[m] = IF m < l THEN at[m]
                                           ELSE IF m = l THEN at[m] + 1 ELSE 0
  BY DEF Climb, AtType
<1>2. \A m \in 0..3 : at[m] \in Nat
  BY DEF AtType
<1>3. at[2] <= 25 /\ at[3] <= 11
  BY DEF AtType
<1>4. Climb(at, l)[2] <= 25 /\ Climb(at, l)[3] <= 11
  BY <1>1, <1>2, <1>3
<1>5. AtType(Climb(at, l))
  BY <1>1, <1>4 DEF AtType
<1>. QED
  BY <1>1, <1>2, <1>5

(* What is left to show of a step: where the path goes.                       *)
LEMMA AfterHolds ==
  ASSUME NEW o, OutlineOf(o), NEW l \in 0..3,
         l = 2 => o.at[2] + 1 <= 25, l = 3 => o.at[3] + 1 <= 11,
         NEW n, n = After(o, l),
         n.path = PathOf(HeadOf(n.at), AboveOf(n.at[2], n.at[3], n.before), LastOf(n.at))
  PROVE  OutlineOf(n)
<1>1. AtType(o.at) /\ o.before \in 0..11
  BY DEF OutlineOf
<1>2. n.at = Climb(o.at, l) /\ AtType(n.at)
  BY <1>1, ClimbIs DEF After
<1>3. n.before \in 0..11
  <2>1. n.before = IF l = 2 THEN o.at[3] ELSE IF l = 3 THEN o.before ELSE 0
    BY DEF After
  <2>2. o.at[3] \in 0..11
    BY <1>1 DEF AtType
  <2>. QED
    BY <1>1, <2>1, <2>2
<1>4. AboveOf(n.at[2], n.at[3], n.before) \in 0..25
  <2>1. n.at[2] \in 0..25 /\ n.at[3] \in 0..11
    BY <1>2 DEF AtType
  <2>. QED
    BY <1>3, <2>1, AboveRange
<1>5. n.path \in Seq(Headings)
  <2>. DEFINE a == AboveOf(n.at[2], n.at[3], n.before)
              P == HeadOf(n.at)
              B == LastOf(n.at)
              A == IF a = 0 THEN <<>> ELSE <<Text(2, a)>>
  <2>1. P \in Seq(Headings)
    BY <1>2, HeadIs
  <2>2. B \in Seq(Headings)
    <3>1. B \in Seq(Brackets)
      BY <1>2, LastIs
    <3>. HIDE DEF B
    <3>. QED
      BY <3>1, BracketsAre
  <2>3. A \in Seq(Headings)
    <3>1. a # 0 => Text(2, a) \in Headings
      BY <1>4, BracketsAre
    <3>. HIDE DEF a
    <3>. QED
      BY <3>1
  <2>4. n.path = (P \o A) \o B
    BY DEF PathOf
  <2>. HIDE DEF P, A, B
  <2>. QED
    BY <2>1, <2>2, <2>3, <2>4, ConcatProperties
<1>6. n.at \in [0..3 -> Nat]
  BY <1>2 DEF AtType
<1>7. n \in [at : [0..3 -> Nat], before : 0..11, path : Seq(Headings)]
  BY <1>3, <1>5, <1>6 DEF After
<1>. QED
  BY <1>2, <1>7 DEF OutlineOf

LEMMA AfterArticle ==
  ASSUME NEW o, OutlineOf(o) PROVE OutlineOf(After(o, 0))
<1>. DEFINE n == After(o, 0)
            h == Text(0, n.at[0])
<1>1. AtType(o.at) /\ o.path \in Seq(Headings)
  BY DEF OutlineOf
<1>2. n.at = Climb(o.at, 0) /\ n.path = UpdateHierarchy(o.path, h)
  BY DEF After
<1>3. AtType(n.at) /\ n.at[0] # 0 /\ n.at[1] = 0 /\ n.at[2] = 0 /\ n.at[3] = 0
  <2>1. o.at[0] \in Nat
    BY <1>1 DEF AtType
  <2>. QED
    BY <1>1, <1>2, <2>1, ClimbIs
<1>4. LastLetter(o.path) \in Nat
  BY OutlineLevels
<1>5. Level(h, o.path) = 0
  BY <1>4, LevelOf
<1>6. \A x \in Headings : Level(x, o.path) \in Nat
  BY <1>4, Levels
<1>. HIDE DEF n
<1>7. Splits(o.path, h, <<>>, o.path)
  <2>1. <<>> \o o.path = o.path
    BY <1>1, ConcatEmptySeq
  <2>2. o.path # <<>> => o.path[1] \in Headings
    BY <1>1
  <2>. QED
    BY <1>5, <1>6, <2>1, <2>2 DEF Splits
<1>8. <<>> \in Seq(Headings)
  OBVIOUS
<1>. HIDE DEF h
<1>9. Leaves(o.path, h, <<>>)
  BY <1>1, <1>7, <1>8, UpdateKeeps, Zenon
<1>10. n.path = <<h>>
  BY <1>2, <1>9 DEF Leaves
<1>11. HeadOf(n.at) = <<h>> /\ LastOf(n.at) = <<>>
  <2>1. PartOf(n.at, 0) = <<h>> /\ PartOf(n.at, 1) = <<>>
    BY <1>3, PartIs DEF h
  <2>2. LastOf(n.at) = <<>>
    BY <1>3, LastIs
  <2>3. <<h>> \o <<>> = <<h>>
    OBVIOUS
  <2>. QED
    BY <2>1, <2>2, <2>3 DEF HeadOf
<1>12. AboveOf(n.at[2], n.at[3], n.before) = 0
  BY <1>3 DEF AboveOf
<1>13. PathOf(<<h>>, 0, <<>>) = <<h>>
  BY DEF PathOf
<1>14. n.path = PathOf(HeadOf(n.at), AboveOf(n.at[2], n.at[3], n.before), LastOf(n.at))
  BY <1>10, <1>11, <1>12, <1>13
<1>. QED
  BY <1>14, AfterHolds DEF n

LEMMA AfterNumber ==
  ASSUME NEW o, OutlineOf(o) PROVE OutlineOf(After(o, 1))
<1>. DEFINE n == After(o, 1)
            h == Text(1, n.at[1])
            a == AboveOf(o.at[2], o.at[3], o.before)
            A == IF a = 0 THEN <<>> ELSE <<Text(2, a)>>
            Q == PartOf(o.at, 0)
            N == PartOf(o.at, 1)
            B == LastOf(o.at)
            Low == Brackets \cup {Text(1, o.at[1])}
            R == (N \o A) \o B
<1>1. AtType(o.at) /\ o.path \in Seq(Headings) /\ o.path = ((Q \o N) \o A) \o B
      /\ o.before \in 0..11
  BY DEF OutlineOf, PathOf, HeadOf
<1>2. n.at = Climb(o.at, 1) /\ n.path = UpdateHierarchy(o.path, h)
  BY DEF After
<1>3. AtType(n.at) /\ n.at[0] = o.at[0] /\ n.at[1] # 0 /\ n.at[2] = 0 /\ n.at[3] = 0
  <2>1. o.at[1] \in Nat
    BY <1>1 DEF AtType
  <2>. QED
    BY <1>1, <1>2, <2>1, ClimbIs
<1>4. LastLetter(o.path) \in Nat
  BY OutlineLevels
<1>5. Level(h, o.path) = 1
  BY <1>4, LevelOf
<1>6. /\ Q \in Seq(Headings) /\ N \in Seq(Headings) /\ A \in Seq(Headings) /\ B \in Seq(Headings)
      /\ N \in Seq(Low) /\ A \in Seq(Low) /\ B \in Seq(Low)
  <2>1. Q \in Seq(Headings) /\ N \in Seq(Headings)
    BY <1>1, PartIs
  <2>2. N \in Seq(Low)
    <3>1. N = <<>> \/ N = <<Text(1, o.at[1])>>
      BY <1>1, PartIs
    <3>2. Text(1, o.at[1]) \in Low
      OBVIOUS
    <3>. HIDE DEF N, Low
    <3>3. <<>> \in Seq(Low) /\ <<Text(1, o.at[1])>> \in Seq(Low)
      BY <3>2
    <3>. QED
      BY <3>1, <3>3, Zenon
  <2>3. A \in Seq(Brackets)
    <3>1. o.at[2] \in 0..25 /\ o.at[3] \in 0..11
      <4>1. o.at \in [0..3 -> Nat] /\ o.at[2] <= 25 /\ o.at[3] <= 11
        BY <1>1 DEF AtType
      <4>. QED
        BY <4>1
    <3>2. a \in 0..25
      BY <1>1, <3>1, AboveRange
    <3>3. a # 0 => Text(2, a) \in Brackets
      BY <3>2, BracketsAre
    <3>. HIDE DEF a
    <3>. QED
      BY <3>3
  <2>4. B \in Seq(Brackets)
    BY <1>1, LastIs
  <2>5. Seq(Brackets) \subseteq Seq(Headings) /\ Seq(Brackets) \subseteq Seq(Low)
    BY BracketsAre
  <2>. HIDE DEF A, B, N, Q, Low
  <2>. QED
    BY <2>1, <2>2, <2>3, <2>4, <2>5
<1>7. \A x \in Low : Level(x, o.path) >= 1
  BY <1>4, Levels, LevelOf
<1>8. Q = <<>> \/ Q = <<Text(0, o.at[0])>>
  BY <1>1, PartIs
<1>9. HeadOf(n.at) = Q \o <<h>> /\ LastOf(n.at) = <<>>
  <2>1. PartOf(n.at, 0) = Q /\ PartOf(n.at, 1) = <<h>>
    BY <1>3, PartIs DEF PartOf
  <2>2. LastOf(n.at) = <<>>
    BY <1>3, LastIs
  <2>. QED
    BY <2>1, <2>2 DEF HeadOf
<1>10. AboveOf(n.at[2], n.at[3], n.before) = 0
  BY <1>3 DEF AboveOf
<1>. HIDE DEF n, h, A, Q, N, B, Low
<1>11. R \in Seq(Low) /\ R \in Seq(Headings) /\ o.path = Q \o R
  <2>1. N \o A \in Seq(Headings) /\ N \o A \in Seq(Low) /\ Q \o N \in Seq(Headings)
    BY <1>6, ConcatProperties
  <2>2. R \in Seq(Low) /\ R \in Seq(Headings)
    BY <1>6, <2>1, ConcatProperties
  <2>3. (Q \o N) \o A = Q \o (N \o A)
    BY <1>6, ConcatAssociative
  <2>4. (Q \o (N \o A)) \o B = Q \o ((N \o A) \o B)
    <3>. DEFINE M == N \o A
    <3>1. M \in Seq(Headings)
      BY <2>1
    <3>. HIDE DEF M
    <3>2. (Q \o M) \o B = Q \o (M \o B)
      BY <1>6, <3>1, HeadingsAssociate
    <3>. QED
      BY <3>2 DEF M
  <2>. QED
    BY <1>1, <2>2, <2>3, <2>4
<1>. HIDE DEF R
<1>12. Splits(o.path, h, Q, R)
  <2>1. \A k \in 1..Len(Q) : Level(Q[k], o.path) < 1
    <3>1. Level(Text(0, o.at[0]), o.path) = 0
      BY <1>4, LevelOf
    <3>2. CASE Q = <<>>
      BY <3>2
    <3>3. CASE Q = <<Text(0, o.at[0])>>
      <4>1. Len(Q) = 1 /\ Q[1] = Text(0, o.at[0])
        BY <3>3
      <4>. QED
        BY <3>1, <4>1
    <3>. QED
      BY <1>8, <3>2, <3>3
  <2>2. R # <<>> => R[1] \in Low
    BY <1>11
  <2>3. Level(h, o.path) = 1 /\ o.path = Q \o R
    BY <1>5, <1>11
  <2>4. R # <<>> => Level(R[1], o.path) >= 1 /\ Level(R[1], o.path) \in Nat
    <3>1. R # <<>> => R[1] \in Headings
      BY <1>11
    <3>. QED
      BY <1>4, <1>7, <2>2, <3>1, Levels
  <2>. QED
    BY <2>1, <2>3, <2>4 DEF Splits
<1>13. Leaves(o.path, h, Q)
  BY <1>6, <1>11, <1>12, UpdateKeeps, Zenon
<1>14. n.path = Q \o <<h>>
  BY <1>2, <1>13 DEF Leaves, h
<1>15. PathOf(Q \o <<h>>, 0, <<>>) = Q \o <<h>>
  <2>1. h \in Headings
    <3>1. n.at[1] \in Nat \ {0}
      BY <1>3 DEF AtType
    <3>. QED
      BY <3>1 DEF h, Headings
  <2>2. Q \o <<h>> \in Seq(Headings)
    BY <1>6, <2>1, ConcatProperties
  <2>. QED
    BY <2>2, ConcatEmptySeq DEF PathOf
<1>16. n.path = PathOf(HeadOf(n.at), AboveOf(n.at[2], n.at[3], n.before), LastOf(n.at))
  BY <1>9, <1>10, <1>14, <1>15
<1>. QED
  BY <1>16, AfterHolds DEF n

(* A letter or a numeral next: its level, and what stays above it.            *)
Goes(o, h, a, c) ==
    \/ Level(h, o.path) = 2 /\ c = 0
    \/ /\ Level(h, o.path) = 3 /\ c = a
       /\ LastOf(o.at) # <<>> => Level(LastOf(o.at)[1], o.path) = 3
    \/ /\ Level(h, o.path) = 3 /\ a = 0 /\ c \in 1..25
       /\ LastOf(o.at) = <<Text(2, c)>> /\ Level(LastOf(o.at)[1], o.path) = 2

Room(o, l) == (l = 2 => o.at[2] + 1 <= 25) /\ (l = 3 => o.at[3] + 1 <= 11)

LEMMA AfterBracket ==
  ASSUME NEW o, OutlineOf(o), NEW l \in {2, 3},
         Room(o, l), NEW n, n = After(o, l), NEW h, h = Text(l, o.at[l] + 1),
         NEW c, c = AboveOf(n.at[2], n.at[3], n.before),
         NEW a, a = AboveOf(o.at[2], o.at[3], o.before),
         Goes(o, h, a, c)
  PROVE  OutlineOf(n)
<1>. DEFINE P == HeadOf(o.at)
            B == LastOf(o.at)
<1>1. AtType(o.at) /\ o.before \in 0..11 /\ o.path = PathOf(P, a, B)
  BY DEF OutlineOf
<1>2. n.at = Climb(o.at, l) /\ n.path = UpdateHierarchy(o.path, Text(l, n.at[l]))
  BY DEF After
<1>3. /\ AtType(n.at) /\ n.at[0] = o.at[0] /\ n.at[1] = o.at[1] /\ n.at[l] = o.at[l] + 1
      /\ l = 2 => n.at[3] = 0
  <2>1. /\ AtType(n.at) /\ n.at[l] = o.at[l] + 1
        /\ \A m \in 0..3 : (m < l => n.at[m] = o.at[m]) /\ (m > l => n.at[m] = 0)
    BY <1>1, <1>2, ClimbIs DEF Room
  <2>. QED
    BY <2>1
<1>4. o.at[2] \in 0..25 /\ o.at[3] \in 0..11
  <2>1. o.at \in [0..3 -> Nat] /\ o.at[2] <= 25 /\ o.at[3] <= 11
    BY <1>1 DEF AtType
  <2>. QED
    BY <2>1
<1>5. a \in 0..25 /\ a \notin {9, 22, 24}
  BY <1>1, <1>4, AboveRange
<1>6. P \in Seq(Headings) /\ B \in Seq(Brackets) /\ Len(B) <= 1
  BY <1>1, HeadIs, LastIs
<1>7. LastLetter(o.path) \in Nat
  BY OutlineLevels
<1>8. \A k \in 1..Len(P) : Level(P[k], o.path) < 2
  BY <1>1, <1>7, HeadIs
<1>9. h \in Brackets
  <2>1. l = 2 => o.at[2] + 1 \in 1..25
    BY <1>4 DEF Room
  <2>2. l = 3 => o.at[3] + 1 \in 1..11
    BY <1>4 DEF Room
  <2>. QED
    BY <2>1, <2>2, BracketsAre
<1>10. HeadOf(n.at) = P
  BY <1>3 DEF HeadOf, PartOf
<1>11. LastOf(n.at) = <<h>>
  <2>1. n.at[l] # 0
    BY <1>3, <1>4
  <2>2. CASE l = 2
    <3>1. LastOf(n.at) = <<Text(2, n.at[2])>>
      BY <1>3, <2>1, <2>2, LastIs
    <3>. QED
      BY <1>3, <2>2, <3>1
  <2>3. CASE l = 3
    <3>1. LastOf(n.at) = <<Text(3, n.at[3])>>
      BY <1>3, <2>1, <2>3, LastIs
    <3>. QED
      BY <1>3, <2>3, <3>1
  <2>. QED
    BY <2>2, <2>3
<1>12. n.path = UpdateHierarchy(o.path, h)
  BY <1>2, <1>3
<1>. HIDE DEF P, B
<1>13. GoesTo(o.path, h, P, a, B)
  <2>1. a \in 0..25 /\ a \notin {9, 22, 24} /\ Below2(P, o.path)
    BY <1>5, <1>8 DEF Below2
  <2>. HIDE DEF Goes
  <2>. QED
    BY <1>1, <1>6, <1>7, <1>9, <2>1, UpdateTail, Zenon
<1>14. n.path = PathOf(P, c, <<h>>)
  <2>1. \/ Level(h, o.path) = 2 /\ c = 0
        \/ Level(h, o.path) = 3 /\ c = a /\ (B # <<>> => Level(B[1], o.path) = 3)
        \/ /\ Level(h, o.path) = 3 /\ a = 0 /\ c \in 1..25
           /\ B = <<Text(2, c)>> /\ Level(B[1], o.path) = 2
    BY DEF B, Goes
  <2>. QED
    BY <1>12, <1>13, <2>1 DEF GoesTo
<1>15. n.path = PathOf(HeadOf(n.at), AboveOf(n.at[2], n.at[3], n.before), LastOf(n.at))
  BY <1>10, <1>11, <1>14
<1>. QED
  BY <1>15, AfterHolds DEF Room

LEMMA AfterLetter ==
  ASSUME NEW o, OutlineOf(o), o.at[2] + 1 <= 25 PROVE OutlineOf(After(o, 2))
<1>. DEFINE n == After(o, 2)
            L == o.at[2]
            R == o.at[3]
            a == AboveOf(L, R, o.before)
            k == L + 1
            h == Text(2, k)
            lb == LetterBefore(o.path)
            c == AboveOf(n.at[2], n.at[3], n.before)
            B == LastOf(o.at)
<1>1. AtType(o.at) /\ o.before \in 0..11
  BY DEF OutlineOf
<1>2. L \in 0..24 /\ R \in 0..11 /\ k \in 1..25
  <2>1. o.at \in [0..3 -> Nat] /\ o.at[2] <= 25 /\ o.at[3] <= 11
    BY <1>1 DEF AtType
  <2>. QED
    BY <2>1
<1>3. /\ LastLetter(o.path) \in Nat
      /\ R = 0 /\ L # 0 => lb = Letters[L]
      /\ R = 1 => lb = "i"
      /\ R \notin {0, 1, 5, 10} => lb = IF a # 0 THEN Letters[a] ELSE "none"
      /\ R = 5 => lb = "v"
      /\ R = 10 => lb = "x"
  BY OutlineLevels
<1>4. c = AboveOf(k, 0, R)
  <2>1. n.at[2] = k /\ n.at[3] = 0 /\ n.before = R
    BY <1>1, <1>2, ClimbIs DEF After
  <2>. QED
    BY <2>1
<1>5. Level(h, o.path) = IF k \in {9, 22, 24} /\ lb # Letters[L] THEN 3 ELSE 2
  <2>1. k - 1 = L
    BY <1>2
  <2>2. Level(h, o.path) = IF k \in {9, 22, 24} /\ lb # Letters[k - 1] THEN 3 ELSE 2
    BY <1>2, <1>3, LevelOf
  <2>. QED
    BY <2>1, <2>2
<1>6. R # 0 => B # <<>> /\ Level(B[1], o.path) = 3
  <2>. SUFFICES ASSUME R # 0 PROVE B # <<>> /\ Level(B[1], o.path) = 3
    OBVIOUS
  <2>1. B = <<Text(3, R)>>
    BY <1>1, LastIs
  <2>2. Level(Text(3, R), o.path) = IF \/ R = 1 /\ lb = "h"
                                       \/ R = 5 /\ lb = "u"
                                       \/ R = 10 /\ lb = "w"
                                    THEN 2 ELSE 3
    <3>1. R \in 1..11
      BY <1>2
    <3>. QED
      BY <1>3, <3>1, LevelOf
  <2>3. Level(Text(3, R), o.path) = 3
    BY <1>3, <2>2
  <2>. QED
    BY <2>1, <2>3
<1>. DEFINE holds == \/ Level(h, o.path) = 2 /\ c = 0
                     \/ /\ Level(h, o.path) = 3 /\ c = a
                        /\ B # <<>> => Level(B[1], o.path) = 3
<1>7. holds
  <2>1. CASE k \notin {9, 22, 24}
    <3>1. c = 0
      BY <1>2, <1>4, <2>1 DEF AboveOf
    <3>. QED
      BY <1>5, <2>1, <3>1
  <2>2. CASE k \in {9, 22, 24} /\ R = 0
    <3>1. c = 0
      BY <1>4, <2>2 DEF AboveOf
    <3>2. lb = Letters[L]
      BY <1>2, <1>3, <2>2
    <3>. QED
      BY <1>5, <3>1, <3>2
  <2>3. CASE k \in {9, 22, 24} /\ R # 0
    <3>1. L \in {8, 21, 23} /\ k = L + 1
      BY <1>2, <2>3
    <3>2. /\ Letters[8] = "h" /\ Letters[21] = "u" /\ Letters[23] = "w"
      BY LetterNames
    <3>3. CASE lb = Letters[L]
      <4>1. R \notin {1, 5, 10}
        BY <1>3, <3>1, <3>2, <3>3
      <4>2. c = 0
        BY <1>2, <1>4, <2>3, <4>1 DEF AboveOf
      <4>. QED
        BY <1>5, <3>3, <4>2
    <3>4. CASE lb # Letters[L]
      <4>1. a = c
        <5>1. R \in {1, 5, 10} \/ a # L
          BY <1>2, <1>3, <2>3, <3>1, <3>4
        <5>2. L = 8 => a = 0 /\ c = 0
          BY <1>4, <3>1 DEF AboveOf
        <5>3. L = 21 => a = IF R < 5 THEN 21 ELSE 0
          BY <1>2, <2>3 DEF AboveOf
        <5>4. L = 21 => c = IF R = 1 THEN 21 ELSE 0
          BY <1>2, <1>4, <2>3 DEF AboveOf
        <5>5. L = 23 => a = IF R < 10 THEN 23 ELSE 0
          BY <1>2, <2>3 DEF AboveOf
        <5>6. L = 23 => c = IF R \in {1, 5} THEN 23 ELSE 0
          BY <1>2, <1>4, <2>3 DEF AboveOf
        <5>. HIDE DEF a, c
        <5>. QED
          BY <1>2, <3>1, <5>1, <5>2, <5>3, <5>4, <5>5, <5>6
      <4>. QED
        BY <1>5, <1>6, <2>3, <3>4, <4>1
    <3>. QED
      BY <3>3, <3>4
  <2>. QED
    BY <2>1, <2>2, <2>3
<1>8. h = Text(2, o.at[2] + 1) /\ a = AboveOf(o.at[2], o.at[3], o.before)
      /\ n = After(o, 2) /\ c = AboveOf(n.at[2], n.at[3], n.before)
  OBVIOUS
<1>9. Goes(o, h, a, c) /\ Room(o, 2)
  BY <1>7 DEF Goes, Room
<1>. QED
  BY <1>8, <1>9, AfterBracket

LEMMA AfterNumeral ==
  ASSUME NEW o, OutlineOf(o), o.at[3] + 1 <= 11 PROVE OutlineOf(After(o, 3))
<1>. DEFINE n == After(o, 3)
            L == o.at[2]
            R == o.at[3]
            d == o.before
            a == AboveOf(L, R, d)
            k == R + 1
            h == Text(3, k)
            lb == LetterBefore(o.path)
            c == AboveOf(n.at[2], n.at[3], n.before)
            B == LastOf(o.at)
<1>1. AtType(o.at) /\ d \in 0..11
  BY DEF OutlineOf
<1>2. L \in 0..25 /\ R \in 0..10 /\ k \in 1..11
  <2>1. o.at \in [0..3 -> Nat] /\ o.at[2] <= 25 /\ o.at[3] <= 11
    BY <1>1 DEF AtType
  <2>. QED
    BY <2>1
<1>3. /\ LastLetter(o.path) \in Nat
      /\ R = 0 /\ L = 0 => lb = "none"
      /\ R = 0 /\ L # 0 => lb = Letters[L]
      /\ R = 1 => lb = "i"
      /\ R = 5 => lb = "v"
      /\ R = 10 => lb = "x"
      /\ R \notin {0, 1, 5, 10} => lb = IF a # 0 THEN Letters[a] ELSE "none"
  BY OutlineLevels
<1>4. c = AboveOf(L, k, d)
  <2>1. n.at[2] = L /\ n.at[3] = k /\ n.before = d
    BY <1>1, <1>2, ClimbIs DEF After
  <2>. QED
    BY <2>1
<1>5. Level(h, o.path) = IF \/ R = 0 /\ lb = "h"
                            \/ R = 4 /\ lb = "u"
                            \/ R = 9 /\ lb = "w"
                         THEN 2 ELSE 3
  <2>1. /\ k = 1 <=> R = 0
        /\ k = 5 <=> R = 4
        /\ k = 10 <=> R = 9
    BY <1>2
  <2>2. Level(h, o.path) = IF \/ k = 1 /\ lb = "h"
                              \/ k = 5 /\ lb = "u"
                              \/ k = 10 /\ lb = "w"
                           THEN 2 ELSE 3
    BY <1>2, <1>3, LevelOf
  <2>. HIDE DEF k, lb
  <2>. QED
    BY <2>1, <2>2
<1>6. a \in 0..25
  <2>1. R \in 0..11
    BY <1>2
  <2>. QED
    BY <1>1, <1>2, <2>1, AboveRange
<1>7. \A j \in 1..25 : /\ Letters[j] = "h" <=> j = 8
                       /\ Letters[j] = "u" <=> j = 21
                       /\ Letters[j] = "w" <=> j = 23
  BY LetterNames
<1>8. Goes(o, h, a, c)
  <2>1. CASE R = 0 /\ L = 0
    <3>1. B = <<>> /\ a = 0 /\ c = 0
      <4>1. B = <<>>
        BY <1>1, <2>1, LastIs
      <4>2. a = 0 /\ c = 0
        BY <1>4, <2>1 DEF AboveOf
      <4>. QED
        BY <4>1, <4>2
    <3>2. Level(h, o.path) = 3
      BY <1>3, <1>5, <2>1
    <3>. QED
      BY <3>1, <3>2 DEF Goes
  <2>2. CASE R = 0 /\ L = 8
    <3>1. lb = "h"
      BY <1>3, <1>7, <2>2
    <3>2. c = 0
      BY <1>4, <2>2 DEF AboveOf
    <3>. QED
      BY <1>5, <2>2, <3>1, <3>2 DEF Goes
  <2>3. CASE R = 0 /\ L \notin {0, 8}
    <3>1. L \in 1..25 /\ lb = Letters[L]
      BY <1>2, <1>3, <2>3
    <3>2. Level(h, o.path) = 3
      BY <1>5, <1>7, <2>3, <3>1
    <3>3. B = <<Text(2, L)>> /\ B # <<>> /\ B[1] = Text(2, L)
      <4>1. B = <<Text(2, L)>>
        BY <1>1, <2>3, LastIs
      <4>. QED
        BY <4>1
    <3>4. Level(Text(2, L), o.path) =
            IF L \in {9, 22, 24} /\ lb # Letters[L - 1] THEN 3 ELSE 2
      BY <1>3, <3>1, LevelOf
    <3>5. CASE L \in {9, 22, 24}
      <4>1. lb # Letters[L - 1]
        <5>1. /\ Letters[8] = "h" /\ Letters[21] = "u" /\ Letters[23] = "w"
              /\ Letters[9] = "i" /\ Letters[22] = "v" /\ Letters[24] = "x"
          BY LetterNames
        <5>2. \/ L = 9 /\ L - 1 = 8
              \/ L = 22 /\ L - 1 = 21
              \/ L = 24 /\ L - 1 = 23
          BY <3>5
        <5>. HIDE DEF L, lb
        <5>. QED
          BY <3>1, <5>1, <5>2
      <4>2. a = c
        BY <1>1, <1>2, <1>4, <2>3, <3>5 DEF AboveOf
      <4>3. Level(B[1], o.path) = 3
        BY <3>3, <3>4, <3>5, <4>1
      <4>. QED
        BY <3>2, <4>2, <4>3 DEF Goes
    <3>6. CASE L \notin {9, 22, 24}
      <4>1. a = 0 /\ c = L
        BY <1>1, <1>2, <1>4, <2>3, <3>6 DEF AboveOf
      <4>2. Level(B[1], o.path) = 2
        BY <3>3, <3>4, <3>6
      <4>. QED
        BY <3>1, <3>2, <3>3, <4>1, <4>2 DEF Goes
    <3>. QED
      BY <3>5, <3>6
  <2>4. CASE R # 0
    <3>1. B = <<Text(3, R)>> /\ B[1] = Text(3, R)
      <4>1. B = <<Text(3, R)>>
        BY <1>1, <2>4, LastIs
      <4>. QED
        BY <4>1
    <3>2. Level(Text(3, R), o.path) = IF \/ R = 1 /\ lb = "h"
                                         \/ R = 5 /\ lb = "u"
                                         \/ R = 10 /\ lb = "w"
                                      THEN 2 ELSE 3
      <4>1. R \in 1..11
        BY <1>2, <2>4
      <4>. QED
        BY <1>3, <4>1, LevelOf
    <3>3. Level(B[1], o.path) = 3
      BY <1>3, <3>1, <3>2
    <3>4. CASE Level(h, o.path) = 2
      <4>1. \/ R = 4 /\ a = 21
            \/ R = 9 /\ a = 23
        <5>2. a # 0 => a \in 1..25
          BY <1>6
        <5>3. \/ R = 4 /\ lb = "u"
              \/ R = 9 /\ lb = "w"
          BY <1>5, <2>4, <3>4
        <5>4. lb = IF a # 0 THEN Letters[a] ELSE "none"
          BY <1>3, <5>3
        <5>. HIDE DEF a, lb, R
        <5>. QED
          BY <1>7, <5>2, <5>3, <5>4
      <4>2. c = 0
        <5>1. CASE R = 4 /\ a = 21
          <6>1. L \in {21, 22}
            BY <1>1, <1>2, <5>1 DEF AboveOf
          <6>. QED
            BY <1>4, <5>1, <6>1 DEF AboveOf
        <5>2. CASE R = 9 /\ a = 23
          <6>1. L \in {23, 24}
            BY <1>1, <1>2, <5>2 DEF AboveOf
          <6>. QED
            BY <1>4, <5>2, <6>1 DEF AboveOf
        <5>. QED
          BY <4>1, <5>1, <5>2
      <4>. QED
        BY <3>4, <4>2 DEF Goes
    <3>5. CASE Level(h, o.path) # 2
      <4>1. Level(h, o.path) = 3
        BY <1>5, <3>5
      <4>2. (R = 4 => a # 21) /\ (R = 9 => a # 23)
        <5>1. (R = 4 => lb # "u") /\ (R = 9 => lb # "w")
          BY <1>5, <3>5
        <5>2. R \in {4, 9} => lb = IF a # 0 THEN Letters[a] ELSE "none"
          BY <1>3
        <5>. HIDE DEF a, lb, R
        <5>. QED
          BY <1>7, <5>1, <5>2
      <4>3. a = c
        <5>1. a = AboveOf(L, R, d) /\ c = AboveOf(L, R + 1, d)
          BY <1>4
        <5>. HIDE DEF a, c, L, R, d
        <5>. QED
          BY <1>1, <1>2, <2>4, <4>2, <5>1 DEF AboveOf
      <4>. QED
        BY <3>3, <4>1, <4>3 DEF Goes
    <3>. QED
      BY <3>4, <3>5
  <2>. QED
    BY <2>1, <2>2, <2>3, <2>4
<1>9. h = Text(3, o.at[3] + 1) /\ a = AboveOf(o.at[2], o.at[3], o.before)
      /\ n = After(o, 3) /\ c = AboveOf(n.at[2], n.at[3], n.before)
  OBVIOUS
<1>10. Room(o, 3)
  BY DEF Room
<1>. QED
  BY <1>8, <1>9, <1>10, AfterBracket

-----------------------------------------------------------------------------
(* The outline, heading by heading.                                           *)

LEMMA StartHolds == OutlineOf(Start)
<1>. DEFINE at == [l \in 0..3 |-> 0]
<1>1. Start = [at |-> at, before |-> 0, path |-> <<>>]
  BY DEF Start
<1>2. at \in [0..3 -> Nat] /\ \A l \in 0..3 : at[l] = 0
  OBVIOUS
<1>3. AtType(at)
  BY <1>2 DEF AtType
<1>. HIDE DEF at
<1>4. HeadOf(at) = <<>> /\ LastOf(at) = <<>>
  <2>1. PartOf(at, 0) = <<>> /\ PartOf(at, 1) = <<>> /\ PartOf(at, 2) = <<>>
    BY <1>2 DEF PartOf
  <2>. QED
    BY <1>2, <2>1 DEF HeadOf, LastOf
<1>5. AboveOf(at[2], at[3], 0) = 0
  BY <1>2 DEF AboveOf
<1>6. PathOf(<<>>, 0, <<>>) = <<>>
  BY DEF PathOf
<1>7. Start \in [at : [0..3 -> Nat], before : 0..11, path : Seq(Headings)]
  BY <1>1, <1>2
<1>. QED
  BY <1>1, <1>3, <1>4, <1>5, <1>6, <1>7 DEF OutlineOf

LEMMA OutlineInit == ChunkerInit => OutlineInv
  BY StartHolds, OutlineIs DEF ChunkerInit

LEMMA OutlineStep == OutlineInv /\ [ChunkerNext]_chunkerVars => OutlineInv'
<1>1. OutlineInv' <=> OutlineOf(outline')
  <2>1. (OutlineInv <=> OutlineOf(outline))'
    BY OutlineIs, PTL
  <2>. QED
    BY <2>1
<1>. SUFFICES ASSUME OutlineOf(outline), [ChunkerNext]_chunkerVars
              PROVE  OutlineOf(outline')
  BY <1>1, OutlineIs
<1>2. CASE UNCHANGED outline
  BY <1>2
<1>3. CASE outline' = Start
  BY <1>3, StartHolds
<1>4. ASSUME NEW l \in 0..3, NextHeading(l) PROVE OutlineOf(outline')
  <2>1. outline' = After(outline, l)
    BY <1>4 DEF NextHeading, After, Climb
  <2>2. Climb(outline.at, l)[l] <= LastNumber(l)
    BY <1>4 DEF NextHeading, Climb
  <2>3. Climb(outline.at, l)[l] = outline.at[l] + 1
    BY DEF Climb
  <2>4. CASE l = 0
    BY <2>1, <2>4, AfterArticle
  <2>5. CASE l = 1
    BY <2>1, <2>5, AfterNumber
  <2>6. CASE l = 2
    <3>1. LastNumber(2) = 25
      BY LetterNames DEF LastNumber
    <3>. QED
      BY <2>1, <2>2, <2>3, <2>6, <3>1, AfterLetter
  <2>7. CASE l = 3
    <3>1. LastNumber(3) = 11
      BY RomanNames DEF LastNumber
    <3>. QED
      BY <2>1, <2>2, <2>3, <2>7, <3>1, AfterNumeral
  <2>. QED
    BY <2>4, <2>5, <2>6, <2>7
<1>. QED
  BY <1>2, <1>3, <1>4
     DEF ChunkerNext, chunkerVars, EndDocument, NextSentence, EndSection

LEMMA OutlineImplies == OutlineInv => PathIsTrue
<1>. SUFFICES ASSUME OutlineInv, ~Ambiguous PROVE outline.path = TruePath
  BY DEF PathIsTrue
<1>. DEFINE L == outline.at[2]
            R == outline.at[3]
            d == outline.before
<1>1. /\ outline.at \in [0..3 -> Nat] /\ L \in 0..25 /\ R \in 0..11 /\ d \in 0..11
      /\ outline.path = Part(0) \o Part(1)
           \o (IF LetterAbove = 0 THEN <<>> ELSE <<Text(2, LetterAbove)>>)
           \o (IF R = 0 THEN Part(2) ELSE Part(3))
  <2>1. outline.at \in [0..3 -> Nat] /\ d \in 0..11 /\ L <= 25 /\ R <= 11
    BY DEF OutlineInv
  <2>2. L \in Nat /\ R \in Nat
    BY <2>1
  <2>3. outline.path = Part(0) \o Part(1)
           \o (IF LetterAbove = 0 THEN <<>> ELSE <<Text(2, LetterAbove)>>)
           \o (IF R = 0 THEN Part(2) ELSE Part(3))
    BY DEF OutlineInv
  <2>4. L \in 0..25 /\ R \in 0..11
    BY <2>1, <2>2
  <2>. QED
    BY <2>1, <2>3, <2>4, Zenon
<1>2. /\ ~(R # 0 /\ L \in {8, 9, 22, 24})
      /\ ~(R >= 5 /\ L = 21)
      /\ ~(R >= 10 /\ L = 23)
      /\ ~(d \in {1, 5, 10} /\ L \in {22, 24})
  <2>1. Letters[8] = "h" /\ Letters[9] = "i" /\ Letters[21] = "u" /\ Letters[22] = "v"
        /\ Letters[23] = "w" /\ Letters[24] = "x"
    BY LetterNames
  <2>. DEFINE is == IF L = 0 THEN "none" ELSE Letters[L]
  <2>2. /\ L = 8 => is = "h"
        /\ L = 9 => is = "i"
        /\ L = 21 => is = "u"
        /\ L = 22 => is = "v"
        /\ L = 23 => is = "w"
        /\ L = 24 => is = "x"
    <3>. HIDE DEF L
    <3>. QED
      BY <2>1
  <2>3. /\ ~(R # 0 /\ is \in {"h", "i", "v", "x"})
        /\ ~(R >= 5 /\ is = "u")
        /\ ~(R >= 10 /\ is = "w")
        /\ ~(d \in {1, 5, 10} /\ is \in {"v", "x"})
    BY DEF Ambiguous
  <2>. HIDE DEF is, L, R, d
  <2>. QED
    BY <2>2, <2>3
<1>3. LetterAbove = IF R = 0 THEN 0 ELSE L
  BY <1>1, <1>2 DEF LetterAbove
<1>4. Part(2) = (IF L = 0 THEN <<>> ELSE <<Text(2, L)>>) /\ (R = 0 => Part(3) = <<>>)
  BY DEF Part
<1>. DEFINE P == Part(0) \o Part(1)
<1>5. P \o Part(2) \in Seq(Headings) /\ P \in Seq(Headings)
  <2>1. AtType(outline.at)
    BY DEF OutlineInv, AtType
  <2>2. \A l \in 0..3 : Part(l) = PartOf(outline.at, l)
    BY DEF Part, PartOf
  <2>3. Part(0) \in Seq(Headings) /\ Part(1) \in Seq(Headings) /\ Part(2) \in Seq(Headings)
    BY <2>1, <2>2, PartIs
  <2>4. P \in Seq(Headings)
    BY <2>3, ConcatProperties
  <2>. HIDE DEF P
  <2>. QED
    BY <2>3, <2>4, ConcatProperties
<1>6. TruePath = P \o Part(2) \o Part(3)
  BY DEF TruePath
<1>. HIDE DEF P, L, R, d
<1>7. CASE R = 0
  <2>1. outline.path = P \o <<>> \o Part(2)
    BY <1>1, <1>3, <1>7 DEF P, R
  <2>2. P \o <<>> = P /\ P \o Part(2) \o <<>> = P \o Part(2)
    BY <1>5, ConcatEmptySeq
  <2>. QED
    BY <1>4, <1>6, <1>7, <2>1, <2>2
<1>8. CASE R # 0
  <2>1. outline.path = P \o (IF L = 0 THEN <<>> ELSE <<Text(2, L)>>) \o Part(3)
    BY <1>1, <1>3, <1>8 DEF P, R
  <2>. QED
    BY <1>4, <1>6, <2>1
<1>. QED
  BY <1>7, <1>8

(* Where letter and numeral can be told apart the path of a chunk is that of  *)
(* the clause it is in, in every document and however far its articles and    *)
(* numbers run, also after a part where they could not (_get_node_level,      *)
(* _update_hierarchy).                                                        *)
THEOREM PathsAreTrue == ChunkerSpec => []PathIsTrue
<1>. QED
  BY OutlineInit, OutlineStep, OutlineImplies, PTL DEF ChunkerSpec
===============================================================================
