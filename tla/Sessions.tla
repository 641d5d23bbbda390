------------------------------ MODULE Sessions ------------------------------
(* The two kinds of session of one workspace, each a selection of documents:  *)
(* a row of workspace_sessions, which survives restarts and is edited, closed *)
(* and archived, and a Redis hash of the chat, which lives for 48 hours after *)
(* its last use.  One session of each kind is followed.                       *)
EXTENDS Naturals, FiniteSets

CONSTANTS
    Selections,  \* the sets of documents that are chosen
    Clients      \* those with a request under way at a time

VARIABLES
    pg,          \* the row
    redis,       \* the hash session:<id>
    req,         \* req[c]: the request of c
    creator      \* where POST /session is

sessionVars == <<pg, redis, req, creator>>

NoRow == [docs |-> {}, open |-> FALSE, closed |-> FALSE, idle |-> FALSE]
NoKey == [docs |-> {}, ttl |-> "absent"]
NoRequest == [at |-> "idle"]

SessionsInit ==
    /\ pg = NoRow
    /\ redis = NoKey
    /\ req = [c \in Clients |-> NoRequest]
    /\ creator = "idle"

-----------------------------------------------------------------------------
(* The row.                                                                   *)

(* POST /sessions.  No document may be given, too.                            *)
CreateWorkspaceSession(D) ==
    /\ pg = NoRow
    /\ pg' = [NoRow EXCEPT !.docs = D, !.open = TRUE]
    /\ UNCHANGED <<redis, req, creator>>

(* get_workspace_session, update_workspace_session, close_workspace_session:  *)
(* 404 if the row is missing or closed.                                       *)
Found == pg.open /\ ~pg.closed

(* PATCH and DELETE read the row, and write in a transaction's end what they  *)
(* changed of it.                                                             *)
ReadPatch(c, D) ==
    /\ req[c] = NoRequest
    /\ Found
    /\ req' = [req EXCEPT ![c] = [at |-> "patch", read |-> pg.docs, docs |-> D]]
    /\ UNCHANGED <<pg, redis, creator>>

ReadClose(c) ==
    /\ req[c] = NoRequest
    /\ Found
    /\ req' = [req EXCEPT ![c] = [at |-> "close"]]
    /\ UNCHANGED <<pg, redis, creator>>

(* Mutant: the row is written as it was read.                                 *)
CommitPatchBug(c) ==
    /\ req[c].at = "patch"
    /\ pg' = [NoRow EXCEPT !.docs = req[c].docs, !.open = TRUE]
    /\ req' = [req EXCEPT ![c] = NoRequest]
    /\ UNCHANGED <<redis, creator>>

(* The session writes the columns that differ from what was read: the         *)
(* selection if it is another one, and last_active_at.                        *)
CommitPatch(c) ==
    /\ req[c].at = "patch"
    /\ pg' = [pg EXCEPT !.docs = IF req[c].docs # req[c].read THEN req[c].docs ELSE @,
                        !.idle = FALSE]
    /\ req' = [req EXCEPT ![c] = NoRequest]
    /\ UNCHANGED <<redis, creator>>

CommitClose(c) ==
    /\ req[c].at = "close"
    /\ pg' = [pg EXCEPT !.closed = TRUE]
    /\ req' = [req EXCEPT ![c] = NoRequest]
    /\ UNCHANGED <<redis, creator>>

RequestLost(c) ==
    /\ req[c] # NoRequest
    /\ req' = [req EXCEPT ![c] = NoRequest]
    /\ UNCHANGED <<pg, redis, creator>>

(* 90 days without a PATCH.  No request is under way for so long.             *)
QuarterPasses ==
    /\ Found
    /\ \A c \in Clients : req[c] = NoRequest
    /\ pg' = [pg EXCEPT !.idle = TRUE]
    /\ UNCHANGED <<redis, req, creator>>

ArchiveStaleSessions ==
    /\ Found /\ pg.idle
    /\ pg' = [pg EXCEPT !.closed = TRUE]
    /\ UNCHANGED <<redis, req, creator>>

-----------------------------------------------------------------------------
(* The hash.                                                                  *)

(* POST /session, hset: every value but __org_id__ is a document.             *)
CreateSession(D) ==
    /\ creator = "idle"
    /\ redis = NoKey
    /\ redis' = [docs |-> D, ttl |-> "none"]
    /\ creator' = "expire"
    /\ UNCHANGED <<pg, req>>

(* The expire, in a call of its own.                                          *)
CreateExpire ==
    /\ creator = "expire"
    /\ redis' = [redis EXCEPT !.ttl = IF @ = "absent" THEN @ ELSE "set"]
    /\ creator' = "idle"
    /\ UNCHANGED <<pg, req>>

CreatorLost ==
    /\ creator = "expire"
    /\ creator' = "lost"
    /\ UNCHANGED <<pg, redis, req>>

(* Mutant: get_session makes the key persistent.                              *)
RefreshedBug == "none"

(* get_session: expire, if hgetall found the key.                             *)
Refreshed == "set"

(* 48 hours without a goal.                                                   *)
SessionExpires ==
    /\ redis.ttl = "set"
    /\ redis' = NoKey
    /\ UNCHANGED <<pg, req, creator>>

(* get_session, and in _process_goal the row of that id if there is no key:   *)
(* neither closed_at nor the organisation is looked at.                       *)
Resolves(kind) ==
    IF kind = "redis" THEN redis # NoKey ELSE pg.open
Selected(kind) ==
    IF kind = "redis" THEN redis.docs ELSE pg.docs
UseSession(kind) ==
    /\ Resolves(kind)
    /\ redis' = IF kind = "redis" THEN [redis EXCEPT !.ttl = Refreshed] ELSE redis
    /\ UNCHANGED <<pg, req, creator>>

SessionsNext ==
    \/ \E D \in Selections : CreateWorkspaceSession(D) \/ CreateSession(D)
    \/ \E c \in Clients :
        \/ \E D \in Selections : ReadPatch(c, D)
        \/ ReadClose(c) \/ CommitPatch(c) \/ CommitClose(c) \/ RequestLost(c)
    \/ QuarterPasses \/ ArchiveStaleSessions
    \/ \E kind \in {"pg", "redis"} : UseSession(kind)
    \/ CreateExpire \/ CreatorLost \/ SessionExpires

SessionsSpec == SessionsInit /\ [][SessionsNext]_sessionVars

-----------------------------------------------------------------------------
(* Properties.                                                                *)

Request ==
    {NoRequest} \cup [at : {"close"}]
    \cup [at : {"patch"}, read : Selections \cup {{}}, docs : Selections]

(* Every variable has its type.                                               *)
SessionsTypeOK ==
    /\ pg \in [docs : Selections \cup {{}}, open : BOOLEAN, closed : BOOLEAN, idle : BOOLEAN]
    /\ redis \in [docs : Selections \cup {{}}, ttl : {"absent", "none", "set"}]
    /\ req \in [Clients -> Request]
    /\ creator \in {"idle", "expire", "lost"}

(* Whatever a slower PATCH still writes, a session that was closed or         *)
(* archived is not open again (closed_at).                                    *)
ClosedStays == [][pg.closed => pg'.closed]_sessionVars

(* A key without an expiry has a creator between hset and expire, or lost     *)
(* there: no goal that uses it leaves it for ever (create_session,            *)
(* get_session).                                                              *)
KeyExpires == redis.ttl = "none" => creator # "idle"
=============================================================================
