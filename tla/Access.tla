------------------------------- MODULE Access -------------------------------
(***************************************************************************)
(* Accounts: organizations, users, memberships, invites and API keys, as   *)
(* app/routers/auth.py, app/routers/invites.py, app/dependencies.py and    *)
(* the cron job for expired invites change them.                           *)
(*                                                                         *)
(* A person is an email address (users.email is unique) and an             *)
(* organization its slug (organizations.slug is unique).  A handler whose  *)
(* decision can be overtaken is two steps: the one that reads, which puts  *)
(* what it remembers into request[c], and the one that commits.  Handlers  *)
(* that insert rows under a unique key are one step: the key makes their   *)
(* check and their insert one decision.                                    *)
(***************************************************************************)
EXTENDS Naturals, FiniteSets

CONSTANTS
    Emails,        \* the people
    Orgs,          \* the slugs
    Clients,       \* concurrent requests
    InviteRoles,   \* the roles an admin puts into an invite
    MaxInvites,    \* bound on the invites ever created
    None           \* no organization

ASSUME OrgsAssumption == IsFiniteSet(Orgs)
ASSUME InvitesAssumption == MaxInvites \in Nat
ASSUME NoneAssumption == None \notin Orgs
ASSUME RolesAssumption ==
    InviteRoles \subseteq {"PARTNER", "ADMIN", "ASSOCIATE", "MEMBER"}

VARIABLES
    orgs,      \* the organizations that exist
    user,      \* user[e]: exists, is linked to Supabase, personal_org_id
    account,   \* the people with a Supabase account
    member,    \* member[e][o]: the role in user_org_memberships, or "none"
    keys,      \* the pairs <<e, o>> with an active API key
    invite,    \* invite[i], in the order of created_at
    request,   \* request[c]: what a handler has read
    \* History, for the properties.
    founder,   \* founder[o]: who created the organization
    admitted,  \* admitted[i]: how often an invite has made a membership
    raced,     \* the invites two handlers were accepting at once
    overlap,   \* the organizations with two removals at once
    removed    \* the pairs <<e, o>> whose membership an admin has deleted

vars == <<orgs, user, account, member, keys, invite, request,
          founder, admitted, raced, overlap, removed>>

-----------------------------------------------------------------------------
UserRole == {"SYSTEM_ADMIN", "PARTNER", "ADMIN", "ASSOCIATE", "MEMBER"}

Invites == 1 .. MaxInvites

\* An invite found by its token, or (state "raw") stored unhashed, so that no
\* token finds it and only the sign-in by email does.
Open(i) == invite[i].state \in {"raw", "hashed"}
Valid(i) == Open(i) /\ ~invite[i].expired
\* Mutant: The lookup by token does not exclude accepted invites.
FoundBug(i) == invite[i].state \in {"hashed", "accepted"} /\ ~invite[i].expired

Found(i) == invite[i].state = "hashed" /\ ~invite[i].expired

Idle == [op |-> "none"]
Requests ==
    {Idle}
    \cup [op : {"token", "sign_in", "password"}, who : Emails, invite : Invites]
    \cup [op : {"register", "created"}, who : Emails, invite : Invites]
    \cup [op : {"remove"}, who : Emails, org : Orgs]

\* Somebody else is accepting this invite.
Accepting(c, i) ==
    \E d \in Clients \ {c} :
        /\ request[d].op \in {"token", "sign_in", "password", "register", "created"}
        /\ request[d].invite = i

MembershipsOf(e) == {o \in Orgs : member[e][o] # "none"}

NoUser == [exists |-> FALSE, linked |-> FALSE, personal |-> None]

Init ==
    /\ orgs = {}
    /\ user = [e \in Emails |-> NoUser]
    /\ account = {}
    /\ member = [e \in Emails |-> [o \in Orgs |-> "none"]]
    /\ keys = {}
    /\ invite = [i \in Invites |-> [state |-> "absent"]]
    /\ request = [c \in Clients |-> Idle]
    /\ founder = [o \in Orgs |-> None]
    /\ admitted = [i \in Invites |-> 0]
    /\ raced = {}
    /\ overlap = {}
    /\ removed = {}

history == <<founder, admitted, raced, overlap, removed>>

-----------------------------------------------------------------------------
(* Becoming a user.                                                        *)

NewUser(e, o, linked) ==
    user' = [user EXCEPT ![e] =
                [exists |-> TRUE, linked |-> linked, personal |-> o]]

\* A new organization with its first user as ADMIN, in one transaction whose
\* unique keys are the checks made before it.
CreateOrganization(e, o, linked) ==
    /\ ~user[e].exists
    /\ o \notin orgs
    /\ orgs' = orgs \cup {o}
    /\ NewUser(e, o, linked)
    /\ member' = [member EXCEPT ![e][o] = "ADMIN"]
    /\ founder' = [founder EXCEPT ![o] = e]
    /\ UNCHANGED <<account, invite, request, admitted, raced, overlap, removed>>

\* POST /auth/signup: with a password and an API key.
Signup(e, o) ==
    /\ CreateOrganization(e, o, FALSE)
    /\ keys' = keys \cup {<<e, o>>}

\* POST /auth/setup-org: with a Supabase token.  users.org_id is never null,
\* so a user that exists is always sent away as already linked.
SetupOrg(e, o) ==
    /\ e \in account
    /\ CreateOrganization(e, o, TRUE)
    /\ UNCHANGED keys

\* A Supabase account made by its owner.
SupabaseSignup(e) ==
    /\ e \notin account
    /\ account' = account \cup {e}
    /\ UNCHANGED <<orgs, user, member, keys, invite, request, history>>

\* POST /auth/login: a new key for users.org_id, which is personal_org_id:
\* every insert sets both alike and nothing changes either.
Login(e) ==
    /\ user[e].exists
    /\ keys' = keys \cup {<<e, user[e].personal>>}
    /\ UNCHANGED <<orgs, user, account, member, invite, request, history>>

\* The account is linked to a user that exists by email.
Link(e) ==
    /\ e \in account
    /\ user[e].exists /\ ~user[e].linked
    /\ user' = [user EXCEPT ![e].linked = TRUE]
    /\ UNCHANGED <<orgs, account, member, keys, invite, request, history>>

-----------------------------------------------------------------------------
(* Invites.                                                                *)

\* get_admin_auth_context: a key of the organization, an ADMIN membership.
AdminByKey(e, o) == <<e, o>> \in keys /\ member[e][o] = "ADMIN"

\* get_supabase_admin_context, with the organization in X-Active-Org.
AdminBySupabase(e, o) ==
    e \in account /\ user[e].linked /\ member[e][o] = "ADMIN"

Create(e, o, role, state) ==
    \E i \in Invites :
        /\ invite[i].state = "absent"
        /\ \A j \in Invites : j < i => invite[j].state # "absent"
        /\ invite' = [invite EXCEPT ![i] =
                [state |-> state, email |-> e, org |-> o, role |-> role,
                 expired |-> FALSE]]
        /\ UNCHANGED <<orgs, user, member, keys, request, history>>

\* POST /auth/invite stores the token itself, and every lookup hashes.
InviteUser(a, o, e) ==
    /\ AdminByKey(a, o)
    /\ Create(e, o, "MEMBER", "raw")
    /\ UNCHANGED account

\* POST /auth/invite-by-email: the row is committed before Supabase is asked
\* for the magic link, which may fail or make the account.
InviteUserByEmail(a, o, e) ==
    /\ AdminBySupabase(a, o)
    /\ Create(e, o, "MEMBER", "hashed")
    /\ account' \in {account, account \cup {e}}

\* POST /orgs/{org_id}/invites: with the role of the payload.
GenerateInvite(a, o, e, role) ==
    /\ AdminByKey(a, o)
    /\ Create(e, o, role, "hashed")
    /\ account' \in {account, account \cup {e}}

\* Seven days pass.
InviteExpires(i) ==
    /\ Valid(i)
    /\ invite' = [invite EXCEPT ![i].expired = TRUE]
    /\ UNCHANGED <<orgs, user, account, member, keys, request, history>>

\* POST /cron/cleanup-expired-invites.
CleanupExpiredInvites ==
    /\ \E i \in Invites : Open(i) /\ invite[i].expired
    /\ invite' = [i \in Invites |->
            IF Open(i) /\ invite[i].expired
            THEN [invite[i] EXCEPT !.state = "deleted"] ELSE invite[i]]
    /\ UNCHANGED <<orgs, user, account, member, keys, request, history>>

-----------------------------------------------------------------------------
(* Accepting an invite.                                                    *)

Begin(c, r) ==
    /\ request[c] = Idle
    /\ request' = [request EXCEPT ![c] = r]

Read(c, op, e, i) ==
    /\ Begin(c, [op |-> op, who |-> e, invite |-> i])
    /\ raced' = IF Accepting(c, i) THEN raced \cup {i} ELSE raced
    /\ UNCHANGED <<orgs, user, account, member, keys, invite,
                   founder, admitted, overlap, removed>>

\* POST /auth/accept-invite-by-token, for a linked user.
ReadToken(c, e, i) ==
    /\ e \in account /\ user[e].linked
    /\ Found(i) /\ invite[i].email = e
    /\ Read(c, "token", e, i)

\* POST /auth/accept-invite, with a password.
ReadPassword(c, e, i) ==
    /\ Found(i) /\ invite[i].email = e
    /\ ~user[e].exists
    /\ Read(c, "password", e, i)

\* POST /invites/accept, the same with a Supabase account to be made.
ReadRegister(c, e, i) ==
    /\ Found(i) /\ invite[i].email = e
    /\ ~user[e].exists
    /\ Read(c, "register", e, i)

\* _build_supabase_auth_context, for an account without a user: the latest
\* invite for its address, however its token is stored.
ReadSignIn(c, e) ==
    /\ e \in account /\ ~user[e].exists
    /\ \E i \in Invites :
        /\ Valid(i) /\ invite[i].email = e
        /\ \A j \in Invites : Valid(j) /\ invite[j].email = e => j <= i
        /\ Read(c, "sign_in", e, i)

\* create_user in Supabase, which refuses an address it knows.
CreateAccount(c) ==
    LET e == request[c].who IN
    /\ request[c].op = "register"
    /\ IF e \in account
       THEN request' = [request EXCEPT ![c] = Idle] /\ UNCHANGED account
       ELSE /\ account' = account \cup {e}
            /\ request' = [request EXCEPT ![c].op = "created"]
    /\ UNCHANGED <<orgs, user, member, keys, invite, history>>

\* Mutant: The three ways that ignore the invite's role look into it, wrongly.
RoleGivenBug(op, i) == IF op = "created" THEN invite[i].role ELSE "ASSOCIATE"

\* The role a handler gives: only /invites/accept looks into the invite.
RoleGiven(op, i) == IF op = "created" THEN invite[i].role ELSE "MEMBER"

\* The rows that refuse the commit: a user of that address, the membership, or
\* an invite that the cron job has deleted in between.
Refused(r) ==
    \/ invite[r.invite].state = "deleted"
    \/ r.op = "token" /\ member[r.who][invite[r.invite].org] # "none"
    \/ r.op # "token" /\ user[r.who].exists

\* The transaction: user, membership, is_accepted and perhaps a key at once.
Admit(c) ==
    LET r == request[c]
        e == r.who
        i == r.invite
        o == invite[i].org IN
    /\ r.op \in {"token", "password", "created", "sign_in"}
    /\ ~Refused(r)
    /\ member' = [member EXCEPT ![e][o] = RoleGiven(r.op, i)]
    /\ invite' = [invite EXCEPT ![i].state = "accepted"]
    /\ IF r.op = "token" THEN UNCHANGED user ELSE NewUser(e, o, r.op # "password")
    /\ keys' = IF r.op = "password" THEN keys \cup {<<e, o>>} ELSE keys
    /\ admitted' = [admitted EXCEPT ![i] = @ + 1]
    /\ request' = [request EXCEPT ![c] = Idle]
    /\ removed' = removed \ {<<e, o>>}
    /\ UNCHANGED <<orgs, account, founder, raced, overlap>>

\* IntegrityError or StaleDataError: the transaction is rolled back.
AdmitFails(c) ==
    /\ request[c].op \in {"token", "password", "created", "sign_in"}
    /\ Refused(request[c])
    /\ request' = [request EXCEPT ![c] = Idle]
    /\ UNCHANGED <<orgs, user, account, member, keys, invite, history>>

\* The process or the connection is lost before the commit.
RequestLost(c) ==
    /\ request[c] # Idle
    /\ request' = [request EXCEPT ![c] = Idle]
    /\ UNCHANGED <<orgs, user, account, member, keys, invite, history>>

-----------------------------------------------------------------------------
(* Leaving.                                                                *)

Removing(o) == {c \in Clients : request[c].op = "remove" /\ request[c].org = o}

\* Mutant: An administrator may leave.
ReadMemberBug(c, a, o, e) ==
    /\ AdminBySupabase(a, o)
    /\ member[e][o] # "none"
    /\ Begin(c, [op |-> "remove", who |-> e, org |-> o])
    /\ overlap' = IF Removing(o) # {} THEN overlap \cup {o} ELSE overlap
    /\ UNCHANGED <<orgs, user, account, member, keys, invite,
                   founder, admitted, raced, removed>>

\* DELETE /auth/members/{user_id}: the caller's role, who is not the target,
\* and the target's membership are read ...
ReadMember(c, a, o, e) ==
    /\ AdminBySupabase(a, o)
    /\ e # a
    /\ member[e][o] # "none"
    /\ Begin(c, [op |-> "remove", who |-> e, org |-> o])
    /\ overlap' = IF Removing(o) # {} THEN overlap \cup {o} ELSE overlap
    /\ UNCHANGED <<orgs, user, account, member, keys, invite,
                   founder, admitted, raced, removed>>

\* ... and the membership deleted; the user, its keys and its organization
\* columns stay.
RemoveMember(c) ==
    LET r == request[c] IN
    /\ r.op = "remove"
    /\ member' = [member EXCEPT ![r.who][r.org] = "none"]
    /\ removed' = removed \cup {<<r.who, r.org>>}
    /\ request' = [request EXCEPT ![c] = Idle]
    /\ UNCHANGED <<orgs, user, account, keys, invite, founder, admitted, raced, overlap>>

\* POST /auth/revoke, by an admin of the key's organization.
RevokeKey(a, o, e) ==
    /\ AdminByKey(a, o)
    /\ <<e, o>> \in keys
    /\ keys' = keys \ {<<e, o>>}
    /\ UNCHANGED <<orgs, user, account, member, invite, request, history>>

-----------------------------------------------------------------------------
Joining ==
    \E c \in Clients :
        \/ \E e \in Emails, i \in Invites :
            ReadToken(c, e, i) \/ ReadPassword(c, e, i) \/ ReadRegister(c, e, i)
        \/ \E e \in Emails : ReadSignIn(c, e)
        \/ CreateAccount(c)
        \/ Admit(c)
        \/ AdmitFails(c)
        \/ RequestLost(c)

Inviting ==
    \/ \E a, e \in Emails, o \in Orgs :
        \/ InviteUser(a, o, e)
        \/ InviteUserByEmail(a, o, e)
        \/ \E role \in InviteRoles : GenerateInvite(a, o, e, role)
    \/ \E i \in Invites : InviteExpires(i)
    \/ CleanupExpiredInvites

Leaving ==
    \/ \E c \in Clients, a, e \in Emails, o \in Orgs : ReadMember(c, a, o, e)
    \/ \E c \in Clients : RemoveMember(c)
    \/ \E a, e \in Emails, o \in Orgs : RevokeKey(a, o, e)

Next ==
    \/ \E e \in Emails, o \in Orgs : Signup(e, o) \/ SetupOrg(e, o)
    \/ \E e \in Emails : SupabaseSignup(e) \/ Login(e) \/ Link(e)
    \/ Inviting
    \/ Joining
    \/ Leaving

Spec == Init /\ [][Next]_vars

-----------------------------------------------------------------------------
(* Which organization a request is for.                                    *)

\* get_supabase_auth_context: the slug of X-Active-Org if the caller is a
\* member there, and the personal organization otherwise.
ContextOrg(e, header) ==
    IF header # None /\ member[e][header] # "none" THEN header ELSE user[e].personal

\* Mutant: A known header is not compared with the memberships.
UnifiedOrgBug(e, header) ==
    LET mine == MembershipsOf(e) IN
    IF header # None THEN header
    ELSE IF mine = {} THEN None
    ELSE IF Cardinality(mine) = 1 THEN CHOOSE o \in mine : TRUE
    ELSE user[e].personal

\* get_org_id_unified for a bearer token: None stands for the refusals.
UnifiedOrg(e, header) ==
    LET mine == MembershipsOf(e) IN
    IF header # None
    THEN IF header \in mine THEN header ELSE None
    ELSE IF mine = {} THEN None
    ELSE IF Cardinality(mine) = 1 THEN CHOOSE o \in mine : TRUE
    ELSE user[e].personal

-----------------------------------------------------------------------------
(* Properties.                                                             *)

UserRecords == {NoUser} \cup [exists : {TRUE}, linked : BOOLEAN, personal : Orgs]
InviteRecords ==
    [state : {"absent"}]
    \cup [state : {"raw", "hashed", "accepted", "deleted"}, email : Emails, org : Orgs,
          role : InviteRoles \cup {"MEMBER"}, expired : BOOLEAN]

\* The types of the tables and of what the handlers remember.
TypeOK ==
    /\ orgs \subseteq Orgs
    /\ user \in [Emails -> UserRecords]
    /\ account \subseteq Emails
    /\ member \in [Emails -> [Orgs -> UserRole \cup {"none"}]]
    /\ keys \subseteq Emails \X Orgs
    /\ invite \in [Invites -> InviteRecords]
    /\ request \in [Clients -> Requests]
    /\ founder \in [Orgs -> Emails \cup {None}]
    /\ admitted \in [Invites -> Nat]
    /\ raced \subseteq Invites
    /\ overlap \subseteq Orgs
    /\ removed \subseteq Emails \X Orgs

\* Whoever holds a role was given it: as the founder, or by an accepted invite
\* for that person and organization that names the role (or MEMBER, which is
\* what three of the four ways of accepting give).
RoleGranted ==
    \A e \in Emails, o \in Orgs : member[e][o] # "none" =>
        \/ founder[o] = e /\ member[e][o] = "ADMIN"
        \/ \E i \in Invites :
            /\ invite[i].state = "accepted"
            /\ invite[i].email = e /\ invite[i].org = o
            /\ member[e][o] \in {"MEMBER", invite[i].role}

\* An organization never loses its last administrator: nobody can remove
\* themselves, and only two removals at once can take the last two.
OrgKeepsAdmin ==
    \A o \in orgs \ overlap : \E e \in Emails : member[e][o] = "ADMIN"

\* One invite makes one membership, although is_accepted is read long before
\* it is written: only two acceptances at once, with a removal in between, can
\* use it twice.
InviteAdmitsOnce == \A i \in Invites \ raced : admitted[i] <= 1

\* The dashboard (/auth/me) and the data endpoints resolve the organization of
\* a request by different code.  Both take it to one the caller is a member of,
\* and to the same one unless the header names another (which only the data
\* endpoints refuse), with one exception: personal_org_id stays when an admin
\* deletes the membership behind it, and may then still be the answer.
StaleByRemovalOnly ==
    \A e \in Emails, header \in orgs \cup {None} :
        LET own == MembershipsOf(e)
            stale == {o \in {user[e].personal} : <<e, o>> \in removed}
            seen == ContextOrg(e, header)
            used == UnifiedOrg(e, header)
        IN  user[e].exists =>
              /\ seen \in own \cup stale
              /\ used \in own \cup stale \cup {None}
              /\ header \in own => seen = used
              /\ header = None /\ stale = {} => seen = used

------------------------------------------------------------------
=============================================================================
