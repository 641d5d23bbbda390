---------------------------- MODULE Access_proofs ----------------------------
(* Proofs about Access, for any people, organizations, requests and invites.  *)
EXTENDS Access, FiniteSetTheorems, TLAPS

-----------------------------------------------------------------------------
(* Type correctness.                                                          *)

InviteTypes == [Invites -> InviteRecords]
MemberTypes == [Emails -> [Orgs -> UserRole \cup {"none"}]]

LEMMA InviteFields ==
  ASSUME TypeOK, NEW i \in Invites, invite[i].state # "absent"
  PROVE  invite[i] \in [state : {"raw", "hashed", "accepted", "deleted"}, email : Emails,
                        org : Orgs, role : InviteRoles \cup {"MEMBER"}, expired : BOOLEAN]
  BY DEF TypeOK, InviteRecords

LEMMA UserFields ==
  ASSUME TypeOK, NEW e \in Emails, user[e].exists
  PROVE  user[e] \in [exists : {TRUE}, linked : BOOLEAN, personal : Orgs]
<1>1. NoUser.exists = FALSE
  BY DEF NoUser
<1>. QED
  BY <1>1 DEF TypeOK, UserRecords

Acceptances ==
    [op : {"token", "sign_in", "password", "register", "created"}, who : Emails,
     invite : Invites]
Removals == [op : {"remove"}, who : Emails, org : Orgs]

LEMMA RequestKinds == Requests = {Idle} \cup Acceptances \cup Removals
  BY DEF Requests, Acceptances, Removals

LEMMA RequestFields ==
  ASSUME TypeOK, NEW c \in Clients
  PROVE  \/ request[c] = Idle
         \/ request[c] \in Acceptances
         \/ request[c] \in Removals
  BY RequestKinds DEF TypeOK

LEMMA Types0 == Init => TypeOK
<1>. SUFFICES ASSUME Init PROVE TypeOK
  OBVIOUS
<1>1. NoUser \in UserRecords
  BY DEF NoUser, UserRecords
<1>2. [state |-> "absent"] \in InviteRecords
  BY DEF InviteRecords
<1>3. Idle \in Requests
  BY DEF Requests
<1>. QED
  BY <1>1, <1>2, <1>3 DEF Init, TypeOK

LEMMA BecomeUser ==
  ASSUME TypeOK, NEW e \in Emails, NEW o \in Orgs, NEW linked \in BOOLEAN, NewUser(e, o, linked)
  PROVE  user' \in [Emails -> UserRecords]
<1>1. [exists |-> TRUE, linked |-> linked, personal |-> o] \in UserRecords
  BY DEF UserRecords
<1>. QED
  BY <1>1 DEF NewUser, TypeOK

LEMMA FoundTypes ==
  ASSUME TypeOK, NEW e \in Emails, NEW o \in Orgs, Signup(e, o) \/ SetupOrg(e, o)
  PROVE  TypeOK'
<1>1. PICK linked \in BOOLEAN : CreateOrganization(e, o, linked)
  BY DEF Signup, SetupOrg
<1>2. user' \in [Emails -> UserRecords]
  BY <1>1, BecomeUser DEF CreateOrganization
<1>3. member' \in MemberTypes
  BY <1>1 DEF CreateOrganization, TypeOK, MemberTypes, UserRole
<1>4. keys' \subseteq Emails \X Orgs
  <2>1. keys' \in {keys, keys \cup {<<e, o>>}}
    BY DEF Signup, SetupOrg
  <2>. QED
    BY <2>1 DEF TypeOK
<1>5. orgs' \subseteq Orgs /\ founder' \in [Orgs -> Emails \cup {None}]
  BY <1>1 DEF CreateOrganization, TypeOK
<1>. QED
  BY <1>1, <1>2, <1>3, <1>4, <1>5 DEF CreateOrganization, TypeOK, MemberTypes

LEMMA UserTypes ==
  ASSUME TypeOK, NEW e \in Emails, SupabaseSignup(e) \/ Login(e) \/ Link(e)
  PROVE  TypeOK'
<1>1. CASE SupabaseSignup(e)
  BY <1>1 DEF SupabaseSignup, TypeOK, history
<1>2. CASE Login(e)
  <2>1. user[e].personal \in Orgs
    BY <1>2, UserFields DEF Login
  <2>2. keys' = keys \cup {<<e, user[e].personal>>}
    BY <1>2 DEF Login
  <2>3. keys' \subseteq Emails \X Orgs
    BY <2>1, <2>2 DEF TypeOK
  <2>. QED
    BY <1>2, <2>3 DEF Login, TypeOK, history
<1>3. CASE Link(e)
  <2>1. [user[e] EXCEPT !.linked = TRUE] \in UserRecords
    BY <1>3, UserFields DEF Link, UserRecords
  <2>2. user' \in [Emails -> UserRecords]
    BY <1>3, <2>1 DEF Link, TypeOK
  <2>. QED
    BY <1>3, <2>2 DEF Link, TypeOK, history
<1>. QED
  BY <1>1, <1>2, <1>3

LEMMA InvitingTypes ==
  ASSUME TypeOK, Inviting
  PROVE  TypeOK'
<1>1. ASSUME NEW e \in Emails, NEW o \in Orgs, NEW role \in InviteRoles \cup {"MEMBER"},
             NEW state \in {"raw", "hashed"}, Create(e, o, role, state),
             account' \in {account, account \cup {e}}
      PROVE  TypeOK'
  <2>1. [state |-> state, email |-> e, org |-> o, role |-> role, expired |-> FALSE]
          \in InviteRecords
    BY DEF InviteRecords
  <2>2. invite' \in InviteTypes
    BY <1>1, <2>1 DEF Create, TypeOK, InviteTypes
  <2>. QED
    BY <1>1, <2>2 DEF Create, TypeOK, InviteTypes, history
<1>2. ASSUME NEW a \in Emails, NEW e \in Emails, NEW o \in Orgs,
             \/ InviteUser(a, o, e) \/ InviteUserByEmail(a, o, e)
             \/ \E role \in InviteRoles : GenerateInvite(a, o, e, role)
      PROVE  TypeOK'
  BY <1>1, <1>2 DEF InviteUser, InviteUserByEmail, GenerateInvite
<1>3. ASSUME NEW i \in Invites, InviteExpires(i) PROVE TypeOK'
  <2>1. invite[i].state # "absent"
    BY <1>3 DEF InviteExpires, Valid, Open
  <2>2. [invite[i] EXCEPT !.expired = TRUE] \in InviteRecords
    BY <2>1, InviteFields DEF InviteRecords
  <2>3. invite' \in InviteTypes
    BY <1>3, <2>2 DEF InviteExpires, TypeOK, InviteTypes
  <2>. QED
    BY <1>3, <2>3 DEF InviteExpires, TypeOK, InviteTypes, history
<1>4. CASE CleanupExpiredInvites
  <2>1. ASSUME NEW i \in Invites, Open(i)
        PROVE  [invite[i] EXCEPT !.state = "deleted"] \in InviteRecords
    BY <2>1, InviteFields DEF InviteRecords, Open
  <2>2. invite' \in InviteTypes
    BY <1>4, <2>1 DEF CleanupExpiredInvites, TypeOK, InviteTypes
  <2>. QED
    BY <1>4, <2>2 DEF CleanupExpiredInvites, TypeOK, InviteTypes, history
<1>. QED
  BY <1>2, <1>3, <1>4 DEF Inviting

LEMMA BeginTypes ==
  ASSUME TypeOK, NEW c \in Clients, NEW r \in Acceptances \cup Removals, Begin(c, r)
  PROVE  request' \in [Clients -> Requests]
  BY RequestKinds DEF Begin, TypeOK

LEMMA DoneTypes ==
  ASSUME TypeOK, NEW c \in Clients
  PROVE  [request EXCEPT ![c] = Idle] \in [Clients -> Requests]
  BY RequestKinds DEF TypeOK

LEMMA ReadTypes ==
  ASSUME TypeOK, NEW c \in Clients,
         NEW op \in {"token", "sign_in", "password", "register"}, NEW e \in Emails,
         NEW i \in Invites, Read(c, op, e, i)
  PROVE  TypeOK'
<1>1. [op |-> op, who |-> e, invite |-> i] \in Acceptances
  BY DEF Acceptances
<1>2. request' \in [Clients -> Requests]
  BY <1>1, BeginTypes DEF Read
<1>. QED
  BY <1>2 DEF Read, TypeOK

(* What a handler remembers of an invite stays true of it.                    *)
AcceptOps == {"token", "sign_in", "password", "register", "created"}

BoundInv ==
    \A c \in Clients : request[c].op \in AcceptOps =>
        /\ invite[request[c].invite].state # "absent"
        /\ invite[request[c].invite].email = request[c].who

LEMMA Accepted ==
  ASSUME TypeOK, NEW c \in Clients, request[c].op \in AcceptOps
  PROVE  request[c] \in Acceptances
  BY RequestFields DEF AcceptOps, Idle, Removals

LEMMA AdmitTypes ==
  ASSUME TypeOK, BoundInv, NEW c \in Clients, Admit(c)
  PROVE  TypeOK'
<1> DEFINE r == request[c]
           e == r.who
           i == r.invite
           o == invite[i].org
<1>1. r \in Acceptances /\ r.op \in AcceptOps
  BY Accepted DEF Admit, AcceptOps
<1>2. e \in Emails /\ i \in Invites
  BY <1>1 DEF Acceptances
<1>3. invite[i].state # "absent"
  BY <1>1 DEF BoundInv
<1>4. o \in Orgs /\ invite[i].role \in InviteRoles \cup {"MEMBER"}
  BY <1>2, <1>3, InviteFields
<1>5. RoleGiven(r.op, i) \in UserRole
  BY <1>4, RolesAssumption DEF RoleGiven, UserRole
<1>6. [invite[i] EXCEPT !.state = "accepted"] \in InviteRecords
  BY <1>2, <1>3, InviteFields DEF InviteRecords
<1>7. user' \in [Emails -> UserRecords]
  <2>1. CASE r.op = "token"
    BY <2>1 DEF Admit, TypeOK
  <2>2. CASE r.op # "token"
    BY <1>2, <1>4, <2>2, BecomeUser DEF Admit
  <2>. QED
    BY <2>1, <2>2
<1>8. keys' \subseteq Emails \X Orgs
  <2>1. keys' \in {keys, keys \cup {<<e, o>>}}
    BY DEF Admit
  <2>. QED
    BY <1>2, <1>4, <2>1 DEF TypeOK
<1>. HIDE DEF r, e, i, o
<1>9. member' \in MemberTypes
  <2>1. member' = [member EXCEPT ![e][o] = RoleGiven(r.op, i)]
    BY DEF Admit, r, e, i, o
  <2>. QED
    BY <1>2, <1>4, <1>5, <2>1 DEF TypeOK, MemberTypes
<1>10. invite' \in InviteTypes
  <2>1. invite' = [invite EXCEPT ![i] = [invite[i] EXCEPT !.state = "accepted"]]
    BY DEF Admit, r, i
  <2>. QED
    BY <1>2, <1>6, <2>1 DEF TypeOK, InviteTypes
<1>11. admitted' \in [Invites -> Nat]
  <2>1. admitted' = [admitted EXCEPT ![i] = admitted[i] + 1]
    BY DEF Admit, r, i
  <2>. QED
    BY <1>2, <2>1 DEF TypeOK
<1>. QED
  BY <1>7, <1>8, <1>9, <1>10, <1>11, DoneTypes DEF Admit, TypeOK, MemberTypes, InviteTypes

LEMMA JoiningTypes ==
  ASSUME TypeOK, BoundInv, Joining
  PROVE  TypeOK'
<1>1. ASSUME NEW c \in Clients, NEW e \in Emails, NEW i \in Invites,
             ReadToken(c, e, i) \/ ReadPassword(c, e, i) \/ ReadRegister(c, e, i)
      PROVE  TypeOK'
  BY <1>1, ReadTypes DEF ReadToken, ReadPassword, ReadRegister
<1>2. ASSUME NEW c \in Clients, NEW e \in Emails, ReadSignIn(c, e) PROVE TypeOK'
  BY <1>2, ReadTypes DEF ReadSignIn
<1>3. ASSUME NEW c \in Clients, CreateAccount(c) PROVE TypeOK'
  <2>1. request[c] \in Acceptances
    BY <1>3, Accepted DEF CreateAccount, AcceptOps
  <2>2. [request[c] EXCEPT !.op = "created"] \in Requests
    BY <2>1, RequestKinds DEF Acceptances
  <2>3. [request EXCEPT ![c] = [request[c] EXCEPT !.op = "created"]] \in [Clients -> Requests]
    BY <2>2 DEF TypeOK
  <2>4. request[c].who \in Emails
    BY <2>1 DEF Acceptances
  <2>5. request' \in {[request EXCEPT ![c] = Idle],
                      [request EXCEPT ![c] = [request[c] EXCEPT !.op = "created"]]}
    BY <1>3 DEF CreateAccount
  <2>6. request' \in [Clients -> Requests]
    BY <2>3, <2>5, DoneTypes
  <2>7. account' \subseteq Emails
    BY <1>3, <2>4 DEF CreateAccount, TypeOK
  <2>. QED
    BY <1>3, <2>6, <2>7 DEF CreateAccount, TypeOK, history
<1>4. ASSUME NEW c \in Clients, AdmitFails(c) \/ RequestLost(c) PROVE TypeOK'
  BY <1>4, DoneTypes DEF AdmitFails, RequestLost, TypeOK, history
<1>. QED
  BY <1>1, <1>2, <1>3, <1>4, AdmitTypes DEF Joining

LEMMA LeavingTypes ==
  ASSUME TypeOK, Leaving
  PROVE  TypeOK'
<1>1. ASSUME NEW c \in Clients, NEW a \in Emails, NEW e \in Emails, NEW o \in Orgs,
             ReadMember(c, a, o, e)
      PROVE  TypeOK'
  <2>1. [op |-> "remove", who |-> e, org |-> o] \in Removals
    BY DEF Removals
  <2>2. request' \in [Clients -> Requests]
    BY <1>1, <2>1, BeginTypes DEF ReadMember
  <2>. QED
    BY <1>1, <2>2 DEF ReadMember, TypeOK
<1>2. ASSUME NEW c \in Clients, RemoveMember(c) PROVE TypeOK'
  <2>1. request[c].who \in Emails /\ request[c].org \in Orgs
    BY <1>2, RequestFields DEF RemoveMember, Idle, Acceptances, Removals
  <2>2. member' \in MemberTypes
    BY <1>2, <2>1 DEF RemoveMember, TypeOK, MemberTypes
  <2>. QED
    BY <1>2, <2>2, DoneTypes DEF RemoveMember, TypeOK, MemberTypes, history
<1>3. ASSUME NEW a \in Emails, NEW e \in Emails, NEW o \in Orgs, RevokeKey(a, o, e)
      PROVE  TypeOK'
  BY <1>3 DEF RevokeKey, TypeOK, history
<1>. QED
  BY <1>1, <1>2, <1>3 DEF Leaving

LEMMA TypesNext == TypeOK /\ BoundInv /\ [Next]_vars => TypeOK'
<1>1. TypeOK /\ UNCHANGED vars => TypeOK'
  BY DEF TypeOK, vars
<1>. QED
  BY <1>1, FoundTypes, UserTypes, InvitingTypes, JoiningTypes, LeavingTypes DEF Next

(* An invite keeps whom it is for, where to and as what; accepted or deleted  *)
(* it stays, unless it is accepted by a handler that found it open.           *)
LEMMA InviteKept ==
  ASSUME TypeOK, BoundInv, [Next]_vars, NEW i \in Invites, invite[i].state # "absent"
  PROVE  /\ invite'[i].email = invite[i].email
         /\ invite'[i].org = invite[i].org
         /\ invite'[i].role = invite[i].role
         /\ invite'[i].state \in {invite[i].state, "accepted", "deleted"}
         /\ invite[i].state = "accepted" => invite'[i].state = "accepted"
<1> DEFINE Kept == 
         /\ invite'[i].email = invite[i].email
         /\ invite'[i].org = invite[i].org
         /\ invite'[i].role = invite[i].role
         /\ invite'[i].state \in {invite[i].state, "accepted", "deleted"}
         /\ invite[i].state = "accepted" => invite'[i].state = "accepted"
<1>0. invite[i] \in [state : {"raw", "hashed", "accepted", "deleted"}, email : Emails,
                     org : Orgs, role : InviteRoles \cup {"MEMBER"}, expired : BOOLEAN]
  BY InviteFields
<1>1. ASSUME NEW e \in Emails, NEW o \in Orgs, NEW role, NEW state, Create(e, o, role, state)
      PROVE  Kept
  BY <1>1 DEF Create, TypeOK
<1>2. ASSUME Inviting PROVE Kept
  <2>1. ASSUME NEW j \in Invites, InviteExpires(j) PROVE Kept
    <3>1. invite' = [invite EXCEPT ![j] = [invite[j] EXCEPT !.expired = TRUE]]
      BY <2>1 DEF InviteExpires
    <3>. QED
      BY <1>0, <3>1 DEF TypeOK
  <2>2. ASSUME CleanupExpiredInvites PROVE Kept
    <3>1. invite'[i] \in {invite[i], [invite[i] EXCEPT !.state = "deleted"]}
          /\ (invite[i].state = "accepted" => invite'[i] = invite[i])
      BY <2>2 DEF CleanupExpiredInvites, Open
    <3>. QED
      BY <1>0, <3>1
  <2>. QED
    BY <1>1, <1>2, <2>1, <2>2 DEF Inviting, InviteUser, InviteUserByEmail, GenerateInvite
<1>3. ASSUME NEW c \in Clients, Admit(c) PROVE Kept
  <2> DEFINE j == request[c].invite
  <2>1. invite' = [invite EXCEPT ![j] = [invite[j] EXCEPT !.state = "accepted"]]
    BY <1>3 DEF Admit
  <2>. HIDE DEF j
  <2>. QED
    BY <1>0, <2>1 DEF TypeOK
<1>4. ASSUME UNCHANGED invite PROVE Kept
  BY <1>4
<1>5. ASSUME Joining, ~\E c \in Clients : Admit(c) PROVE Kept
  BY <1>4, <1>5 DEF Joining, ReadToken, ReadPassword, ReadRegister, ReadSignIn, Read,
                    CreateAccount, AdmitFails, RequestLost
<1>6. ASSUME Leaving PROVE Kept
  BY <1>4, <1>6 DEF Leaving, ReadMember, RemoveMember, RevokeKey
<1>7. ASSUME NEW e \in Emails, NEW o \in Orgs, Signup(e, o) \/ SetupOrg(e, o) PROVE Kept
  BY <1>4, <1>7 DEF Signup, SetupOrg, CreateOrganization
<1>8. ASSUME NEW e \in Emails, SupabaseSignup(e) \/ Login(e) \/ Link(e) PROVE Kept
  BY <1>4, <1>8 DEF SupabaseSignup, Login, Link
<1>9. ASSUME UNCHANGED vars PROVE Kept
  BY <1>4, <1>9 DEF vars
<1>. HIDE DEF Kept
<1>10. Joining => Kept
  BY <1>3, <1>5
<1>11. Kept
  BY <1>2, <1>6, <1>7, <1>8, <1>9, <1>10 DEF Next
<1>. QED
  BY <1>11 DEF Kept

(* A handler remembers an invite from its own reading of it on.               *)
LEMMA AcceptStep ==
  ASSUME TypeOK, [Next]_vars, NEW c \in Clients, request'[c].op \in AcceptOps
  PROVE  \/ /\ request[c].op \in AcceptOps
            /\ request'[c].who = request[c].who
            /\ request'[c].invite = request[c].invite
            /\ request'[c].op = "token" => request[c].op = "token"
         \/ \E i \in Invites :
            /\ Open(i) /\ invite[i].email = request'[c].who
            /\ request'[c].invite = i
            /\ request'[c].op = "token" => user[request'[c].who].exists
            /\ \A d \in Clients \ {c} : request'[d] = request[d]
            /\ raced' = IF Accepting(c, i) THEN raced \cup {i} ELSE raced
            /\ UNCHANGED <<invite, admitted>>
<1> DEFINE Goal ==
         \/ /\ request[c].op \in AcceptOps
            /\ request'[c].who = request[c].who
            /\ request'[c].invite = request[c].invite
            /\ request'[c].op = "token" => request[c].op = "token"
         \/ \E i \in Invites :
            /\ Open(i) /\ invite[i].email = request'[c].who
            /\ request'[c].invite = i
            /\ request'[c].op = "token" => user[request'[c].who].exists
            /\ \A d \in Clients \ {c} : request'[d] = request[d]
            /\ raced' = IF Accepting(c, i) THEN raced \cup {i} ELSE raced
            /\ UNCHANGED <<invite, admitted>>
<1>. SUFFICES Goal
  OBVIOUS
<1>1. ASSUME NEW b \in Clients, NEW e \in Emails, NEW i \in Invites, NEW op,
             Read(b, op, e, i), Open(i), invite[i].email = e,
             op = "token" => user[e].exists
      PROVE  Goal
  <2>1. CASE b = c
    <3>1. request'[c] = [op |-> op, who |-> e, invite |-> i]
      BY <1>1, <2>1 DEF Read, Begin, TypeOK
    <3>2. \A d \in Clients \ {c} : request'[d] = request[d]
      BY <1>1, <2>1 DEF Read, Begin, TypeOK
    <3>3. raced' = IF Accepting(c, i) THEN raced \cup {i} ELSE raced
      BY <1>1, <2>1 DEF Read
    <3>4. UNCHANGED <<invite, admitted>>
      BY <1>1 DEF Read
    <3>5. request'[c].who = e /\ request'[c].invite = i /\ request'[c].op = op
      BY <3>1
    <3>. QED
      BY <1>1, <3>2, <3>3, <3>4, <3>5
  <2>2. CASE b # c
    BY <1>1, <2>2 DEF Read, Begin, TypeOK
  <2>. QED
    BY <2>1, <2>2
<1>2. ASSUME NEW b \in Clients, NEW e \in Emails, NEW i \in Invites,
             ReadToken(b, e, i) \/ ReadPassword(b, e, i) \/ ReadRegister(b, e, i)
      PROVE  Goal
  <2>1. user[e].linked => user[e].exists
    <3>1. NoUser.linked = FALSE
      BY DEF NoUser
    <3>. QED
      BY <3>1 DEF TypeOK, UserRecords
  <2>. QED
    BY <1>1, <1>2, <2>1 DEF ReadToken, ReadPassword, ReadRegister, Found, Open
<1>3. ASSUME NEW b \in Clients, NEW e \in Emails, ReadSignIn(b, e) PROVE Goal
  BY <1>1, <1>3 DEF ReadSignIn, Valid
<1>4. ASSUME NEW b \in Clients, CreateAccount(b) PROVE Goal
  <2>1. request[b] \in Acceptances
    BY <1>4, Accepted DEF CreateAccount, AcceptOps
  <2>2. request'[c] \in {request[c], Idle, [request[b] EXCEPT !.op = "created"]}
        /\ (request'[c] = request[c] \/ b = c)
    BY <1>4 DEF CreateAccount, TypeOK
  <2>. QED
    BY <2>1, <2>2 DEF Acceptances, AcceptOps, Idle
<1>5. ASSUME NEW b \in Clients, Admit(b) \/ AdmitFails(b) \/ RequestLost(b) \/ RemoveMember(b)
      PROVE  Goal
  <2>1. request'[c] \in {request[c], Idle}
    BY <1>5 DEF Admit, AdmitFails, RequestLost, RemoveMember, TypeOK
  <2>. QED
    BY <2>1 DEF AcceptOps, Idle
<1>6. ASSUME NEW b \in Clients, NEW a \in Emails, NEW e \in Emails, NEW o \in Orgs,
             ReadMember(b, a, o, e)
      PROVE  Goal
  <2>1. request'[c] \in {request[c], [op |-> "remove", who |-> e, org |-> o]}
    BY <1>6 DEF ReadMember, Begin, TypeOK
  <2>. QED
    BY <2>1 DEF AcceptOps
<1>7. ASSUME UNCHANGED request PROVE Goal
  BY <1>7
<1>8. ASSUME Inviting PROVE Goal
  BY <1>7, <1>8 DEF Inviting, InviteUser, InviteUserByEmail, GenerateInvite, Create,
                    InviteExpires, CleanupExpiredInvites
<1>9. ASSUME NEW e \in Emails, NEW o \in Orgs,
             \/ Signup(e, o) \/ SetupOrg(e, o) \/ SupabaseSignup(e) \/ Login(e) \/ Link(e)
             \/ \E a \in Emails : RevokeKey(a, o, e)
      PROVE  Goal
  BY <1>7, <1>9 DEF Signup, SetupOrg, CreateOrganization, SupabaseSignup, Login, Link, RevokeKey
<1>10. ASSUME NEW e \in Emails, SupabaseSignup(e) \/ Login(e) \/ Link(e) PROVE Goal
  BY <1>7, <1>10 DEF SupabaseSignup, Login, Link
<1>11. ASSUME UNCHANGED vars PROVE Goal
  BY <1>7, <1>11 DEF vars
<1>. HIDE DEF Goal
<1>12. Joining => Goal
  BY <1>2, <1>3, <1>4, <1>5 DEF Joining
<1>13. Leaving => Goal
  BY <1>5, <1>6, <1>9 DEF Leaving
<1>. QED
  BY <1>8, <1>9, <1>10, <1>11, <1>12, <1>13 DEF Next

LEMMA BoundNext == TypeOK /\ BoundInv /\ [Next]_vars => BoundInv'
<1>. SUFFICES ASSUME TypeOK, BoundInv, [Next]_vars, NEW c \in Clients,
                     request'[c].op \in AcceptOps
              PROVE  /\ invite'[request'[c].invite].state # "absent"
                     /\ invite'[request'[c].invite].email = request'[c].who
  BY DEF BoundInv
<1>1. CASE /\ request[c].op \in AcceptOps
           /\ request'[c].who = request[c].who
           /\ request'[c].invite = request[c].invite
  <2>1. request[c].invite \in Invites
    BY <1>1, Accepted DEF Acceptances
  <2>2. /\ invite[request[c].invite].state # "absent"
        /\ invite[request[c].invite].email = request[c].who
    BY <1>1 DEF BoundInv
  <2>3. /\ invite'[request[c].invite].state \in
               {invite[request[c].invite].state, "accepted", "deleted"}
        /\ invite'[request[c].invite].email = invite[request[c].invite].email
    BY <2>1, <2>2, InviteKept
  <2>. QED
    BY <1>1, <2>2, <2>3
<1>2. CASE \E i \in Invites :
             /\ Open(i) /\ invite[i].email = request'[c].who
             /\ request'[c].invite = i
             /\ UNCHANGED invite
  BY <1>2 DEF Open
<1>. QED
  BY <1>1, <1>2, AcceptStep

LEMMA Bound == Spec => [](TypeOK /\ BoundInv)
<1>1. Init => BoundInv
  BY DEF Init, BoundInv, Idle, AcceptOps
<1>. QED
  BY <1>1, Types0, TypesNext, BoundNext, PTL DEF Spec

(* Every variable keeps its type.                                             *)
THEOREM TypeCorrect == Spec => []TypeOK
  BY Bound, PTL

-----------------------------------------------------------------------------
(* What the steps do to memberships: a founder, an accepted invite and a      *)
(* removal; nothing else touches them.                                        *)

RolesUntouched == UNCHANGED <<orgs, member, founder, removed>>

LEMMA MemberStep ==
  ASSUME [Next]_vars
  PROVE  \/ RolesUntouched /\ UNCHANGED user
         \/ \E e \in Emails : RolesUntouched /\ Link(e)
         \/ \E e \in Emails, o \in Orgs : Signup(e, o) \/ SetupOrg(e, o)
         \/ \E c \in Clients : Admit(c)
         \/ \E c \in Clients : RemoveMember(c)
<1>1. \A e \in Emails : SupabaseSignup(e) \/ Login(e) => RolesUntouched /\ UNCHANGED user
  BY DEF SupabaseSignup, Login, history, RolesUntouched
<1>2. Inviting => RolesUntouched /\ UNCHANGED user
  BY DEF Inviting, InviteUser, InviteUserByEmail, GenerateInvite, Create, InviteExpires,
         CleanupExpiredInvites, history, RolesUntouched
<1>3. Joining => (RolesUntouched /\ UNCHANGED user) \/ \E c \in Clients : Admit(c)
  BY DEF Joining, ReadToken, ReadPassword, ReadRegister, ReadSignIn, Read, CreateAccount,
         AdmitFails, RequestLost, history, RolesUntouched
<1>4. Leaving => (RolesUntouched /\ UNCHANGED user) \/ \E c \in Clients : RemoveMember(c)
  BY DEF Leaving, ReadMember, RevokeKey, history, RolesUntouched
<1>5. UNCHANGED vars => RolesUntouched /\ UNCHANGED user
  BY DEF vars, RolesUntouched
<1>6. \A e \in Emails : Link(e) => RolesUntouched
  BY DEF Link, history, RolesUntouched
<1>. QED
  BY <1>1, <1>2, <1>3, <1>4, <1>5, <1>6 DEF Next

LEMMA Founding ==
  ASSUME TypeOK, NEW e \in Emails, NEW o \in Orgs, Signup(e, o) \/ SetupOrg(e, o)
  PROVE  /\ o \notin orgs /\ orgs' = orgs \cup {o}
         /\ ~user[e].exists /\ user'[e].exists /\ user'[e].personal = o
         /\ \A d \in Emails \ {e} : user'[d] = user[d]
         /\ member'[e][o] = "ADMIN" /\ founder'[o] = e
         /\ \A d \in Emails, p \in Orgs : <<d, p>> # <<e, o>> => member'[d][p] = member[d][p]
         /\ \A p \in Orgs \ {o} : founder'[p] = founder[p]
         /\ UNCHANGED <<invite, request, overlap, admitted, raced, removed>>
<1>1. PICK linked \in BOOLEAN : CreateOrganization(e, o, linked)
  BY DEF Signup, SetupOrg
<1>. QED
  BY <1>1 DEF CreateOrganization, NewUser, TypeOK

(* One person is admitted by one invite to its organization.                  *)
Admits(c, e, i, o) ==
    /\ e = request[c].who /\ i = request[c].invite /\ o = invite[i].org
    /\ request[c].op \in AcceptOps /\ request' = [request EXCEPT ![c] = Idle]
    /\ invite[i].state \notin {"absent", "deleted"} /\ invite[i].email = e
    /\ member[e][o] = "none" \/ ~user[e].exists
    /\ member'[e][o] \in {"MEMBER", invite[i].role}
    /\ \A d \in Emails, p \in Orgs : <<d, p>> # <<e, o>> => member'[d][p] = member[d][p]
    /\ \A d \in Emails \ {e} : user'[d] = user[d]
    /\ user'[e].exists \/ request[c].op = "token"
    /\ user[e].exists => user'[e].exists
    /\ user' = user \/ user'[e].personal = o
    /\ invite'[i].state = "accepted" /\ invite'[i].email = invite[i].email
    /\ invite'[i].org = o /\ invite'[i].role = invite[i].role
    /\ \A j \in Invites \ {i} : invite'[j] = invite[j]
    /\ admitted' = [admitted EXCEPT ![i] = @ + 1]
    /\ removed' = removed \ {<<e, o>>}
    /\ UNCHANGED <<orgs, founder, raced, overlap>>

LEMMA Admission ==
  ASSUME TypeOK, BoundInv, NEW c \in Clients, Admit(c)
  PROVE  \E e \in Emails, i \in Invites, o \in Orgs : Admits(c, e, i, o)
<1> DEFINE r == request[c]
           e == r.who
           i == r.invite
           o == invite[i].org
<1>1. r \in Acceptances /\ r.op \in AcceptOps
  BY Accepted DEF Admit, AcceptOps
<1>2. e \in Emails /\ i \in Invites
  BY <1>1 DEF Acceptances
<1>3. invite[i].state # "absent" /\ invite[i].email = e
  BY <1>1 DEF BoundInv
<1>4. invite[i] \in [state : {"raw", "hashed", "accepted", "deleted"}, email : Emails,
                     org : Orgs, role : InviteRoles \cup {"MEMBER"}, expired : BOOLEAN]
  BY <1>2, <1>3, InviteFields
<1>5. o \in Orgs
  BY <1>4
<1>6. /\ invite[i].state # "deleted"
      /\ member[e][o] = "none" \/ ~user[e].exists
      /\ r.op # "token" => ~user[e].exists
  BY DEF Admit, Refused
<1>7. request' = [request EXCEPT ![c] = Idle] /\ admitted' = [admitted EXCEPT ![i] = @ + 1]
      /\ removed' = removed \ {<<e, o>>} /\ UNCHANGED <<orgs, founder, raced, overlap>>
  BY DEF Admit
<1>8. RoleGiven(r.op, i) \in {"MEMBER", invite[i].role}
  BY DEF RoleGiven
<1>9. \/ UNCHANGED user /\ r.op = "token"
      \/ r.op # "token" /\ NewUser(e, o, r.op # "password")
  BY DEF Admit
<1>10. /\ \A d \in Emails \ {e} : user'[d] = user[d]
       /\ user'[e].exists \/ r.op = "token"
       /\ user[e].exists => user'[e].exists
       /\ user' = user \/ user'[e].personal = o
  BY <1>2, <1>6, <1>9 DEF NewUser, TypeOK
<1>11. member' = [member EXCEPT ![e][o] = RoleGiven(r.op, i)]
       /\ invite' = [invite EXCEPT ![i] = [invite[i] EXCEPT !.state = "accepted"]]
  BY DEF Admit
<1>. HIDE DEF r, e, i, o
<1>12. /\ member'[e][o] = RoleGiven(r.op, i)
       /\ \A d \in Emails, p \in Orgs : <<d, p>> # <<e, o>> => member'[d][p] = member[d][p]
  BY <1>2, <1>5, <1>11 DEF TypeOK
<1>13. /\ invite'[i].state = "accepted" /\ invite'[i].email = invite[i].email
       /\ invite'[i].org = invite[i].org /\ invite'[i].role = invite[i].role
       /\ \A j \in Invites \ {i} : invite'[j] = invite[j]
  BY <1>2, <1>4, <1>11 DEF TypeOK
<1>14. e = request[c].who /\ i = request[c].invite /\ o = invite[i].org /\ r = request[c]
  BY DEF r, e, i, o
<1>15. Admits(c, e, i, o)
  BY <1>1, <1>3, <1>6, <1>7, <1>8, <1>10, <1>12, <1>13, <1>14 DEF Admits
<1>. QED
  BY <1>2, <1>5, <1>15

LEMMA Removal ==
  ASSUME TypeOK, NEW c \in Clients, RemoveMember(c)
  PROVE  /\ request[c].op = "remove" /\ request[c].who \in Emails /\ request[c].org \in Orgs
         /\ member'[request[c].who][request[c].org] = "none"
         /\ \A d \in Emails, p \in Orgs :
               <<d, p>> # <<request[c].who, request[c].org>> => member'[d][p] = member[d][p]
         /\ request' = [request EXCEPT ![c] = Idle]
         /\ removed' = removed \cup {<<request[c].who, request[c].org>>}
         /\ UNCHANGED <<orgs, founder, user, invite, overlap, admitted, raced>>
<1>1. request[c].who \in Emails /\ request[c].org \in Orgs
  BY RequestFields DEF RemoveMember, Idle, Acceptances, Removals
<1>. QED
  BY <1>1 DEF RemoveMember, TypeOK, history

-----------------------------------------------------------------------------
(* Roles.  A member is of an organization that exists and is a user, invites  *)
(* are to such organizations, and so a founder comes to one that has nobody.  *)

RoleInv ==
    /\ \A e \in Emails, o \in Orgs :
          member[e][o] # "none" => o \in orgs /\ user[e].exists
    /\ \A i \in Invites : invite[i].state # "absent" => invite[i].org \in orgs
    /\ \A c \in Clients : request[c].op = "token" => user[request[c].who].exists
    /\ RoleGranted

LEMMA NewInvite ==
  ASSUME TypeOK, BoundInv, [Next]_vars, NEW i \in Invites, invite[i].state = "absent",
         invite'[i].state # "absent"
  PROVE  \E a \in Emails, o \in Orgs : member[a][o] = "ADMIN" /\ invite'[i].org = o
<1>1. ASSUME NEW e \in Emails, NEW o \in Orgs, NEW role, NEW state, Create(e, o, role, state)
      PROVE  invite'[i].org = o
  BY <1>1 DEF Create, TypeOK
<1>2. ASSUME NEW a \in Emails, NEW e \in Emails, NEW o \in Orgs,
             \/ InviteUser(a, o, e) \/ InviteUserByEmail(a, o, e)
             \/ \E role \in InviteRoles : GenerateInvite(a, o, e, role)
      PROVE  member[a][o] = "ADMIN" /\ invite'[i].org = o
  BY <1>1, <1>2 DEF InviteUser, InviteUserByEmail, GenerateInvite, AdminByKey, AdminBySupabase
<1>3. ASSUME NEW j \in Invites, InviteExpires(j) PROVE FALSE
  BY <1>3 DEF InviteExpires, Valid, Open, TypeOK
<1>4. ~CleanupExpiredInvites
  BY DEF CleanupExpiredInvites, Open
<1>5. ASSUME NEW c \in Clients, Admit(c) PROVE FALSE
  BY <1>5, Admission DEF Admits
<1>6. invite' # invite
  OBVIOUS
<1>7. ~Joining
  BY <1>5, <1>6 DEF Joining, ReadToken, ReadPassword, ReadRegister, ReadSignIn, Read,
                    CreateAccount, AdmitFails, RequestLost
<1>8. ~Leaving
  BY <1>6 DEF Leaving, ReadMember, RemoveMember, RevokeKey
<1>9. ASSUME NEW e \in Emails, NEW o \in Orgs, Signup(e, o) \/ SetupOrg(e, o) PROVE FALSE
  BY <1>6, <1>9 DEF Signup, SetupOrg, CreateOrganization
<1>10. ASSUME NEW e \in Emails, SupabaseSignup(e) \/ Login(e) \/ Link(e) PROVE FALSE
  BY <1>6, <1>10 DEF SupabaseSignup, Login, Link
<1>11. ~UNCHANGED vars
  BY <1>6 DEF vars
<1>12. Inviting
  BY <1>7, <1>8, <1>9, <1>10, <1>11 DEF Next
<1>. QED
  BY <1>2, <1>3, <1>4, <1>12 DEF Inviting

(* Users and organizations stay.                                              *)
LEMMA UsersStay ==
  ASSUME TypeOK, BoundInv, [Next]_vars
  PROVE  orgs \subseteq orgs' /\ \A e \in Emails : user[e].exists => user'[e].exists
<1>1. ASSUME NEW e \in Emails, Link(e) PROVE \A d \in Emails : user[d].exists => user'[d].exists
  BY <1>1, UserFields DEF Link, TypeOK
<1>. QED
  BY <1>1, MemberStep, Founding, Admission, Removal DEF Admits, RolesUntouched

LEMMA GrantedStep ==
  ASSUME TypeOK, BoundInv, RoleInv, [Next]_vars, NEW e \in Emails, NEW o \in Orgs,
         member'[e][o] # "none"
  PROVE  \/ founder'[o] = e /\ member'[e][o] = "ADMIN"
         \/ \E i \in Invites :
              /\ invite'[i].state = "accepted"
              /\ invite'[i].email = e /\ invite'[i].org = o
              /\ member'[e][o] \in {"MEMBER", invite'[i].role}
<1>1. ASSUME member[e][o] = member'[e][o], founder'[o] = founder[o]
      PROVE  \/ founder'[o] = e /\ member'[e][o] = "ADMIN"
             \/ \E i \in Invites :
                  /\ invite'[i].state = "accepted"
                  /\ invite'[i].email = e /\ invite'[i].org = o
                  /\ member'[e][o] \in {"MEMBER", invite'[i].role}
  <2>1. CASE founder[o] = e /\ member[e][o] = "ADMIN"
    BY <1>1, <2>1
  <2>2. ASSUME NEW i \in Invites, invite[i].state = "accepted",
               invite[i].email = e, invite[i].org = o, member[e][o] \in {"MEMBER", invite[i].role}
        PROVE  /\ invite'[i].state = "accepted"
               /\ invite'[i].email = e /\ invite'[i].org = o
               /\ member'[e][o] \in {"MEMBER", invite'[i].role}
    BY <1>1, <2>2, InviteKept
  <2>. QED
    BY <1>1, <2>1, <2>2 DEF RoleInv, RoleGranted
<1>2. ASSUME NEW d \in Emails, NEW p \in Orgs, Signup(d, p) \/ SetupOrg(d, p)
      PROVE  \/ founder'[o] = e /\ member'[e][o] = "ADMIN"
             \/ member[e][o] = member'[e][o] /\ founder'[o] = founder[o]
  <2>1. CASE e = d /\ o = p
    BY <1>2, <2>1, Founding
  <2>2. CASE o # p
    BY <1>2, <2>2, Founding
  <2>3. CASE e # d /\ o = p
    BY <1>2, <2>3, Founding DEF RoleInv
  <2>. QED
    BY <2>1, <2>2, <2>3
<1>3. ASSUME NEW c \in Clients, NEW d \in Emails, NEW i \in Invites, NEW p \in Orgs,
             Admits(c, d, i, p)
      PROVE  \/ /\ invite'[i].state = "accepted"
                /\ invite'[i].email = e /\ invite'[i].org = o
                /\ member'[e][o] \in {"MEMBER", invite'[i].role}
             \/ member[e][o] = member'[e][o] /\ founder'[o] = founder[o]
  BY <1>3 DEF Admits
<1>4. ASSUME NEW c \in Clients, RemoveMember(c)
      PROVE  member[e][o] = member'[e][o] /\ founder'[o] = founder[o]
  BY <1>4, Removal
<1>5. RolesUntouched => member[e][o] = member'[e][o] /\ founder'[o] = founder[o]
  BY DEF RolesUntouched
<1>6. ASSUME NEW c \in Clients, Admit(c)
      PROVE  \E d \in Emails, i \in Invites, p \in Orgs : Admits(c, d, i, p)
  BY <1>6, Admission
<1>. QED
  BY <1>1, <1>2, <1>3, <1>4, <1>5, <1>6, MemberStep

LEMMA RoleNext == TypeOK /\ BoundInv /\ RoleInv /\ [Next]_vars => RoleInv'
<1>. SUFFICES ASSUME TypeOK, BoundInv, RoleInv, [Next]_vars PROVE RoleInv'
  OBVIOUS
<1>1. RoleGranted'
  BY GrantedStep DEF RoleGranted
<1>2. ASSUME NEW e \in Emails, NEW o \in Orgs, member'[e][o] # "none"
      PROVE  o \in orgs' /\ user'[e].exists
  <2>1. CASE member[e][o] # "none"
    BY <2>1, UsersStay DEF RoleInv
  <2>2. ASSUME NEW d \in Emails, NEW p \in Orgs, Signup(d, p) \/ SetupOrg(d, p),
               member[e][o] = "none"
        PROVE  o \in orgs' /\ user'[e].exists
    BY <1>2, <2>2, Founding
  <2>3. ASSUME NEW c \in Clients, NEW d \in Emails, NEW i \in Invites, NEW p \in Orgs,
               Admits(c, d, i, p), member[e][o] = "none"
        PROVE  o \in orgs' /\ user'[e].exists
    <3>1. d = e /\ p = o
      BY <1>2, <2>3 DEF Admits
    <3>2. o \in orgs'
      BY <2>3, <3>1, UsersStay DEF Admits, RoleInv
    <3>3. user'[e].exists
      BY <2>3, <3>1, UsersStay DEF Admits, RoleInv
    <3>. QED
      BY <3>2, <3>3
  <2>4. ASSUME NEW c \in Clients, RemoveMember(c), member[e][o] = "none" PROVE FALSE
    BY <1>2, <2>4, Removal
  <2>5. RolesUntouched => member[e][o] = member'[e][o]
    BY DEF RolesUntouched
  <2>6. ASSUME NEW c \in Clients, Admit(c)
        PROVE  \E d \in Emails, i \in Invites, p \in Orgs : Admits(c, d, i, p)
    BY <2>6, Admission
  <2>. QED
    BY <1>2, <2>1, <2>2, <2>3, <2>4, <2>5, <2>6, MemberStep
<1>3. ASSUME NEW i \in Invites, invite'[i].state # "absent" PROVE invite'[i].org \in orgs'
  <2>1. CASE invite[i].state = "absent"
    BY <1>3, <2>1, NewInvite, UsersStay DEF RoleInv
  <2>2. CASE invite[i].state # "absent"
    BY <2>2, InviteKept, UsersStay DEF RoleInv
  <2>. QED
    BY <2>1, <2>2
<1>4. ASSUME NEW c \in Clients, request'[c].op = "token" PROVE user'[request'[c].who].exists
  <2>1. request'[c].op \in AcceptOps
    BY <1>4 DEF AcceptOps
  <2>2. CASE /\ request[c].op \in AcceptOps
             /\ request'[c].who = request[c].who
             /\ request[c].op = "token"
    BY <2>2, Accepted, UsersStay DEF RoleInv, Acceptances
  <2>3. ASSUME NEW i \in Invites, Open(i), invite[i].email = request'[c].who,
               user[request'[c].who].exists
        PROVE  user'[request'[c].who].exists
    BY <2>3, InviteFields, UsersStay DEF Open
  <2>. QED
    BY <1>4, <2>1, <2>2, <2>3, AcceptStep
<1>. QED
  BY <1>1, <1>2, <1>3, <1>4 DEF RoleInv

LEMMA Roles == Spec => []RoleInv
<1>1. Init => RoleInv
  BY DEF Init, RoleInv, RoleGranted, Idle
<1>. QED
  BY <1>1, RoleNext, Bound, PTL DEF Spec

(* Whatever requests, removals, expiries and crashes follow each other,       *)
(* nobody holds a role but as the founder or by an accepted invite to them.   *)
THEOREM RolesGranted == Spec => []RoleGranted
<1>1. RoleInv => RoleGranted
  BY DEF RoleInv
<1>. QED
  BY <1>1, Roles, PTL

-----------------------------------------------------------------------------
(* Administrators.  An administrator loses the role by a removal only, and    *)
(* whoever removes alone has seen another administrator, who is there still.  *)

Remover(c, o) == request[c].op = "remove" /\ request[c].org = o

AdminInv ==
    /\ OrgKeepsAdmin
    /\ \A c \in Clients, o \in Orgs \ overlap : Remover(c, o) =>
          /\ o \in orgs
          /\ \A d \in Clients : Remover(d, o) => d = c
          /\ \E a \in Emails \ {request[c].who} : member[a][o] = "ADMIN"

LEMMA AdminsStay ==
  ASSUME TypeOK, BoundInv, RoleInv, [Next]_vars, NEW a \in Emails, NEW o \in Orgs,
         member[a][o] = "ADMIN"
  PROVE  \/ member'[a][o] = "ADMIN"
         \/ \E c \in Clients : RemoveMember(c) /\ request[c].who = a /\ request[c].org = o
<1>1. ASSUME NEW e \in Emails, NEW p \in Orgs, Signup(e, p) \/ SetupOrg(e, p)
      PROVE  member'[a][o] = "ADMIN"
  BY <1>1, Founding
<1>2. ASSUME NEW c \in Clients, NEW e \in Emails, NEW i \in Invites, NEW p \in Orgs,
             Admits(c, e, i, p)
      PROVE  member'[a][o] = "ADMIN"
  <2>1. <<a, o>> # <<e, p>>
    BY <1>2 DEF Admits, RoleInv
  <2>. QED
    BY <1>2, <2>1 DEF Admits
<1>3. ASSUME NEW c \in Clients, Admit(c) PROVE member'[a][o] = "ADMIN"
  BY <1>2, <1>3, Admission
<1>4. ASSUME NEW c \in Clients, RemoveMember(c), ~(request[c].who = a /\ request[c].org = o)
      PROVE  member'[a][o] = "ADMIN"
  BY <1>4, Removal
<1>5. RolesUntouched => member'[a][o] = "ADMIN"
  BY DEF RolesUntouched
<1>. QED
  BY <1>1, <1>3, <1>4, <1>5, MemberStep

(* A removal begins with a reading of the table.                              *)
LEMMA RemoveStep ==
  ASSUME TypeOK, [Next]_vars, NEW c \in Clients, request'[c].op = "remove"
  PROVE  \/ request'[c] = request[c]
         \/ \E a, e \in Emails, o \in Orgs : ReadMember(c, a, o, e)
<1> DEFINE Goal == \/ request'[c] = request[c]
                   \/ \E a, e \in Emails, o \in Orgs : ReadMember(c, a, o, e)
<1>. SUFFICES Goal
  OBVIOUS
<1>1. ASSUME NEW b \in Clients, NEW e \in Emails, NEW i \in Invites,
             NEW op \in {"token", "password", "register", "sign_in"}, Read(b, op, e, i)
      PROVE  Goal
  <2>1. request'[c] \in {request[c], [op |-> op, who |-> e, invite |-> i]}
    BY <1>1 DEF Read, Begin, TypeOK
  <2>. QED
    BY <2>1
<1>2. ASSUME NEW b \in Clients, NEW e \in Emails, NEW i \in Invites,
             ReadToken(b, e, i) \/ ReadPassword(b, e, i) \/ ReadRegister(b, e, i)
      PROVE  Goal
  BY <1>1, <1>2 DEF ReadToken, ReadPassword, ReadRegister
<1>3. ASSUME NEW b \in Clients, NEW e \in Emails, ReadSignIn(b, e) PROVE Goal
  BY <1>1, <1>3 DEF ReadSignIn
<1>4. ASSUME NEW b \in Clients, CreateAccount(b) PROVE Goal
  <2>1. request[b] \in Acceptances
    BY <1>4, Accepted DEF CreateAccount, AcceptOps
  <2>2. request'[c] \in {request[c], Idle, [request[b] EXCEPT !.op = "created"]}
    BY <1>4 DEF CreateAccount, TypeOK
  <2>. QED
    BY <2>1, <2>2 DEF Acceptances, Idle
<1>5. ASSUME NEW b \in Clients, Admit(b) \/ AdmitFails(b) \/ RequestLost(b) \/ RemoveMember(b)
      PROVE  Goal
  <2>1. request'[c] \in {request[c], Idle}
    BY <1>5 DEF Admit, AdmitFails, RequestLost, RemoveMember, TypeOK
  <2>. QED
    BY <2>1 DEF Idle
<1>6. ASSUME NEW b \in Clients, NEW a \in Emails, NEW e \in Emails, NEW o \in Orgs,
             ReadMember(b, a, o, e)
      PROVE  Goal
  BY <1>6 DEF ReadMember, Begin, TypeOK
<1>7. ASSUME UNCHANGED request PROVE Goal
  BY <1>7
<1>8. ASSUME Inviting PROVE Goal
  BY <1>7, <1>8 DEF Inviting, InviteUser, InviteUserByEmail, GenerateInvite, Create,
                    InviteExpires, CleanupExpiredInvites
<1>9. ASSUME NEW e \in Emails, NEW o \in Orgs,
             \/ Signup(e, o) \/ SetupOrg(e, o)
             \/ \E a \in Emails : RevokeKey(a, o, e)
      PROVE  Goal
  BY <1>7, <1>9 DEF Signup, SetupOrg, CreateOrganization, RevokeKey
<1>10. ASSUME NEW e \in Emails, SupabaseSignup(e) \/ Login(e) \/ Link(e) PROVE Goal
  BY <1>7, <1>10 DEF SupabaseSignup, Login, Link
<1>11. ASSUME UNCHANGED vars PROVE Goal
  BY <1>7, <1>11 DEF vars
<1>. HIDE DEF Goal
<1>12. Joining => Goal
  BY <1>2, <1>3, <1>4, <1>5 DEF Joining
<1>13. Leaving => Goal
  BY <1>5, <1>6, <1>9 DEF Leaving
<1>. QED
  BY <1>8, <1>9, <1>10, <1>11, <1>12, <1>13 DEF Next

LEMMA Reading ==
  ASSUME TypeOK, NEW c \in Clients, NEW a \in Emails, NEW e \in Emails, NEW o \in Orgs,
         ReadMember(c, a, o, e)
  PROVE  /\ member[a][o] = "ADMIN" /\ a # e
         /\ request'[c].op = "remove" /\ request'[c].who = e /\ request'[c].org = o
         /\ \A d \in Clients \ {c} : request'[d] = request[d]
         /\ orgs' = orgs /\ member' = member
         /\ o \notin overlap' => \A d \in Clients : ~Remover(d, o)
  BY DEF ReadMember, AdminBySupabase, Begin, TypeOK, Removing, Remover

LEMMA OverlapGrows ==
  ASSUME [Next]_vars PROVE overlap \subseteq overlap'
<1>1. Inviting => overlap \subseteq overlap'
  BY DEF Inviting, InviteUser, InviteUserByEmail, GenerateInvite, Create, InviteExpires,
         CleanupExpiredInvites, history
<1>2. Joining => overlap \subseteq overlap'
  <2>1. ASSUME NEW c \in Clients, Admit(c) PROVE overlap' = overlap
    BY <2>1 DEF Admit
  <2>. QED
    BY <2>1 DEF Joining, ReadToken, ReadPassword, ReadRegister, ReadSignIn, Read, CreateAccount,
                AdmitFails, RequestLost, history
<1>3. Leaving => overlap \subseteq overlap'
  BY DEF Leaving, ReadMember, RemoveMember, RevokeKey, history
<1>. QED
  BY <1>1, <1>2, <1>3 DEF Next, Signup, SetupOrg, CreateOrganization, SupabaseSignup, Login,
                          Link, history, vars

LEMMA AdminNext == TypeOK /\ BoundInv /\ RoleInv /\ AdminInv /\ [Next]_vars => AdminInv'
<1>. SUFFICES ASSUME TypeOK, BoundInv, RoleInv, AdminInv, [Next]_vars PROVE AdminInv'
  OBVIOUS
<1>1. ASSUME NEW o \in orgs' \ overlap' PROVE \E e \in Emails : member'[e][o] = "ADMIN"
  <2>1. CASE o \notin orgs
    <3>1. PICK e \in Emails, p \in Orgs : Signup(e, p) \/ SetupOrg(e, p)
      BY <2>1, MemberStep, Admission, Removal DEF RolesUntouched, Admits
    <3>. QED
      BY <2>1, <3>1, Founding
  <2>2. CASE o \in orgs
    <3>1. PICK a \in Emails : member[a][o] = "ADMIN"
      BY <2>2, OverlapGrows DEF AdminInv, OrgKeepsAdmin
    <3>2. o \in Orgs /\ o \notin overlap
      BY <2>2, OverlapGrows DEF TypeOK
    <3>3. ASSUME NEW c \in Clients, RemoveMember(c), request[c].who = a, request[c].org = o
          PROVE  \E e \in Emails : member'[e][o] = "ADMIN"
      <4>1. Remover(c, o)
        BY <3>3 DEF RemoveMember, Remover
      <4>2. PICK e \in Emails \ {request[c].who} : member[e][o] = "ADMIN"
        BY <3>2, <4>1 DEF AdminInv
      <4>. QED
        BY <3>2, <3>3, <4>2, Removal
    <3>. QED
      BY <3>1, <3>2, <3>3, AdminsStay
  <2>. QED
    BY <2>1, <2>2
<1>2. ASSUME NEW c \in Clients, NEW o \in Orgs \ overlap', Remover(c, o)'
      PROVE  /\ o \in orgs'
             /\ \A d \in Clients : Remover(d, o)' => d = c
             /\ \E a \in Emails \ {request'[c].who} : member'[a][o] = "ADMIN"
  <2>0. o \notin overlap
    BY OverlapGrows
  <2>1. ASSUME NEW d \in Clients, NEW a \in Emails, NEW e \in Emails,
               ReadMember(d, a, o, e)
        PROVE  /\ d = c
               /\ o \in orgs'
               /\ \A b \in Clients : Remover(b, o)' => b = c
               /\ \E b \in Emails \ {request'[c].who} : member'[b][o] = "ADMIN"
    <3>1. \A b \in Clients \ {d} : ~Remover(b, o)'
      BY <2>1, Reading DEF Remover
    <3>2. d = c
      BY <1>2, <3>1
    <3>3. request'[c].who = e /\ member'[a][o] = "ADMIN" /\ a # e
      BY <2>1, <3>2, Reading
    <3>4. o \in orgs'
      BY <2>1, Reading, UsersStay DEF RoleInv
    <3>. QED
      BY <3>1, <3>2, <3>3, <3>4
  <2>2. CASE \A d \in Clients, a, e \in Emails : ~ReadMember(d, a, o, e)
    <3>1. \A d \in Clients : Remover(d, o)' => Remover(d, o) /\ request'[d] = request[d]
      <4>1. ASSUME NEW d \in Clients, Remover(d, o)'
            PROVE  Remover(d, o) /\ request'[d] = request[d]
        <5>1. request'[d].op = "remove" /\ request'[d].org = o
          BY <4>1 DEF Remover
        <5>2. ASSUME NEW a \in Emails, NEW e \in Emails, NEW p \in Orgs, ReadMember(d, a, p, e)
              PROVE  FALSE
          <6>1. request'[d].org = p
            BY <5>2, Reading
          <6>. QED
            BY <2>2, <5>1, <5>2, <6>1
        <5>3. request'[d] = request[d]
          BY <5>1, <5>2, RemoveStep
        <5>. QED
          BY <5>1, <5>3 DEF Remover
      <4>. QED
        BY <4>1
    <3>2. Remover(c, o) /\ request'[c] = request[c]
      BY <1>2, <3>1
    <3>3. o \in orgs /\ \A d \in Clients : Remover(d, o) => d = c
      BY <2>0, <3>2 DEF AdminInv
    <3>4. PICK a \in Emails \ {request[c].who} : member[a][o] = "ADMIN"
      BY <2>0, <3>2 DEF AdminInv
    <3>5. ASSUME NEW d \in Clients, RemoveMember(d), request[d].org = o PROVE FALSE
      <4>1. d = c
        BY <3>3, <3>5 DEF RemoveMember, Remover
      <4>2. request'[c] = Idle /\ request[c].op = "remove"
        BY <3>5, <4>1 DEF RemoveMember, TypeOK
      <4>. QED
        BY <3>2, <4>2 DEF Idle
    <3>6. member'[a][o] = "ADMIN"
      BY <3>4, <3>5, AdminsStay
    <3>. QED
      BY <3>1, <3>2, <3>3, <3>4, <3>6, UsersStay
  <2>. QED
    BY <2>1, <2>2
<1>3. OrgKeepsAdmin'
  BY <1>1 DEF OrgKeepsAdmin
<1>. QED
  BY <1>2, <1>3 DEF AdminInv

(* No sequence of invites, sign-ins and removals leaves an organization       *)
(* without an administrator, unless two removals overlap.                     *)
THEOREM AdminStays == Spec => []OrgKeepsAdmin
<1>1. Init => AdminInv
  BY DEF Init, AdminInv, OrgKeepsAdmin, Remover, Idle
<1>2. AdminInv => OrgKeepsAdmin
  BY DEF AdminInv
<1>. QED
  BY <1>1, <1>2, AdminNext, Roles, Bound, PTL DEF Spec

-----------------------------------------------------------------------------
(* Invites.  One that is open has admitted nobody, and one that a handler has *)
(* read, alone, waits for that handler.                                       *)

Accepts(c, i) == request[c].op \in AcceptOps /\ request[c].invite = i

OnceInv ==
    /\ \A i \in Invites :
          invite[i].state \in {"absent", "raw", "hashed"} => admitted[i] = 0
    /\ \A c \in Clients, i \in Invites \ raced : Accepts(c, i) =>
          /\ admitted[i] = 0
          /\ \A d \in Clients : Accepts(d, i) => d = c
    /\ InviteAdmitsOnce

LEMMA AdmissionsStep ==
  ASSUME [Next]_vars
  PROVE  /\ raced \subseteq raced'
         /\ UNCHANGED admitted \/ \E c \in Clients : Admit(c)
<1> DEFINE Goal == /\ raced \subseteq raced'
                   /\ UNCHANGED admitted \/ \E c \in Clients : Admit(c)
<1>1. Inviting => Goal
  BY DEF Inviting, InviteUser, InviteUserByEmail, GenerateInvite, Create, InviteExpires,
         CleanupExpiredInvites, history
<1>2. Joining => Goal
  <2>1. ASSUME NEW c \in Clients, Admit(c) PROVE Goal
    BY <2>1 DEF Admit
  <2>. QED
    <3>1. ASSUME NEW c \in Clients, NEW e \in Emails, NEW i \in Invites,
                 ReadToken(c, e, i) \/ ReadPassword(c, e, i) \/ ReadRegister(c, e, i)
          PROVE  Goal
      BY <3>1 DEF ReadToken, ReadPassword, ReadRegister, Read, history
    <3>2. ASSUME NEW c \in Clients, NEW e \in Emails, ReadSignIn(c, e)
          PROVE  Goal
      BY <3>2 DEF ReadSignIn, Read, history
    <3>3. ASSUME NEW c \in Clients, CreateAccount(c) \/ AdmitFails(c) \/ RequestLost(c)
          PROVE  Goal
      BY <3>3 DEF CreateAccount, AdmitFails, RequestLost, history
    <3>. HIDE DEF Goal
    <3>. QED
      BY <2>1, <3>1, <3>2, <3>3 DEF Joining
<1>3. Leaving => Goal
  BY DEF Leaving, ReadMember, RemoveMember, RevokeKey, history
<1>. QED
  BY <1>1, <1>2, <1>3 DEF Next, Signup, SetupOrg, CreateOrganization, SupabaseSignup, Login,
                          Link, history, vars

(* What admission does to the invite's count, in one place.                   *)
LEMMA AdmitCounts ==
  ASSUME TypeOK, BoundInv, NEW c \in Clients, Admit(c), NEW i \in Invites
  PROVE  \/ request[c].invite # i /\ admitted'[i] = admitted[i]
         \/ /\ Accepts(c, i) /\ request'[c] = Idle
            /\ invite'[i].state = "accepted" /\ admitted'[i] = admitted[i] + 1
<1>1. PICK e \in Emails, j \in Invites, o \in Orgs : Admits(c, e, j, o)
  BY Admission
<1>2. /\ j = request[c].invite /\ request[c].op \in AcceptOps
      /\ admitted' = [admitted EXCEPT ![j] = @ + 1]
      /\ request' = [request EXCEPT ![c] = Idle]
      /\ invite'[j].state = "accepted"
  BY <1>1 DEF Admits, Admit, AcceptOps
<1>3. request'[c] = Idle
  BY <1>2 DEF TypeOK
<1>4. CASE i = j
  BY <1>2, <1>3, <1>4 DEF Accepts, TypeOK
<1>5. CASE i # j
  BY <1>2, <1>5 DEF TypeOK
<1>. QED
  BY <1>4, <1>5

LEMMA OnceNext == TypeOK /\ BoundInv /\ OnceInv /\ [Next]_vars => OnceInv'
<1>. SUFFICES ASSUME TypeOK, BoundInv, OnceInv, [Next]_vars PROVE OnceInv'
  OBVIOUS
<1>1. ASSUME NEW i \in Invites, invite'[i].state \in {"absent", "raw", "hashed"}
      PROVE  admitted'[i] = 0
  <2>1. invite[i].state \in {"absent", "raw", "hashed"}
    BY <1>1, InviteKept
  <2>2. admitted[i] = 0
    BY <2>1 DEF OnceInv
  <2>3. ASSUME NEW c \in Clients, Admit(c) PROVE admitted'[i] = admitted[i]
    BY <1>1, <2>3, AdmitCounts
  <2>. QED
    BY <2>2, <2>3, AdmissionsStep
<1>2. ASSUME NEW c \in Clients, NEW i \in Invites \ raced', Accepts(c, i)'
      PROVE  /\ admitted'[i] = 0
             /\ \A d \in Clients : Accepts(d, i)' => d = c
  <2>0. i \notin raced /\ request'[c].op \in AcceptOps /\ request'[c].invite = i
    BY <1>2, AdmissionsStep DEF Accepts
  <2>1. CASE request[c].op \in AcceptOps /\ request'[c].invite = request[c].invite
    <3>1. Accepts(c, i)
      BY <2>0, <2>1 DEF Accepts
    <3>2. admitted[i] = 0 /\ \A d \in Clients : Accepts(d, i) => d = c
      BY <2>0, <3>1 DEF OnceInv
    <3>3. ASSUME NEW d \in Clients, Admit(d) PROVE admitted'[i] = admitted[i]
      BY <2>0, <3>2, <3>3, AdmitCounts DEF Idle, AcceptOps
    <3>4. ASSUME NEW d \in Clients, Accepts(d, i)', d # c PROVE FALSE
      <4>1. request'[d].op \in AcceptOps /\ request'[d].invite = i
        BY <3>4 DEF Accepts
      <4>2. ~(request[d].op \in AcceptOps /\ request'[d].invite = request[d].invite)
        BY <3>2, <3>4, <4>1 DEF Accepts
      <4>3. raced' = IF Accepting(d, i) THEN raced \cup {i} ELSE raced
        BY <4>1, <4>2, AcceptStep
      <4>4. Accepting(d, i)
        BY <3>1, <3>4 DEF Accepting, Accepts, AcceptOps
      <4>. QED
        BY <4>3, <4>4
    <3>. QED
      BY <3>2, <3>3, <3>4, AdmissionsStep
  <2>2. CASE ~(request[c].op \in AcceptOps /\ request'[c].invite = request[c].invite)
    <3>1. /\ Open(i)
          /\ \A d \in Clients \ {c} : request'[d] = request[d]
          /\ raced' = IF Accepting(c, i) THEN raced \cup {i} ELSE raced
          /\ UNCHANGED <<invite, admitted>>
      BY <2>0, <2>2, AcceptStep
    <3>2. admitted[i] = 0
      BY <3>1 DEF Open, OnceInv
    <3>3. ASSUME NEW d \in Clients, Accepts(d, i)', d # c PROVE FALSE
      <4>1. Accepting(c, i)
        BY <3>1, <3>3 DEF Accepts, Accepting, AcceptOps
      <4>. QED
        BY <3>1, <4>1
    <3>. QED
      BY <3>1, <3>2, <3>3
  <2>. QED
    BY <2>1, <2>2
<1>3. ASSUME NEW i \in Invites \ raced' PROVE admitted'[i] <= 1
  <2>1. i \notin raced /\ admitted[i] <= 1 /\ admitted[i] \in Nat
    BY AdmissionsStep DEF OnceInv, InviteAdmitsOnce, TypeOK
  <2>2. ASSUME NEW c \in Clients, Admit(c) PROVE admitted'[i] <= 1
    BY <2>1, <2>2, AdmitCounts DEF OnceInv
  <2>. QED
    BY <2>1, <2>2, AdmissionsStep
<1>4. InviteAdmitsOnce'
  BY <1>3 DEF InviteAdmitsOnce
<1>. QED
  BY <1>1, <1>2, <1>4 DEF OnceInv

(* Although is_accepted is read long before it is written, an invite admits   *)
(* one person, unless two handlers were accepting it at once.                 *)
THEOREM InvitesAdmitOnce == Spec => []InviteAdmitsOnce
<1>1. Init => OnceInv
  BY DEF Init, OnceInv, InviteAdmitsOnce, Accepts, Idle, AcceptOps
<1>2. OnceInv => InviteAdmitsOnce
  BY DEF OnceInv
<1>. QED
  BY <1>1, <1>2, OnceNext, Bound, PTL DEF Spec

-----------------------------------------------------------------------------
(* The organization of a request.  A user is a member of the personal         *)
(* organization, or was removed from it.                                      *)

PersonalInv ==
    \A e \in Emails :
        user[e].exists =>
            member[e][user[e].personal] # "none" \/ <<e, user[e].personal>> \in removed

LEMMA PersonalNext ==
  TypeOK /\ BoundInv /\ PersonalInv /\ [Next]_vars => PersonalInv'
<1>. SUFFICES ASSUME TypeOK, BoundInv, PersonalInv, [Next]_vars, NEW e \in Emails, user'[e].exists
              PROVE  member'[e][user'[e].personal] # "none" \/ <<e, user'[e].personal>> \in removed'
  BY DEF PersonalInv
<1>. DEFINE p == user'[e].personal
<1>1. user[e].exists => user[e].personal \in Orgs
  BY UserFields
<1>2. CASE RolesUntouched /\ UNCHANGED user
  BY <1>2 DEF PersonalInv, RolesUntouched
<1>3. ASSUME NEW d \in Emails, RolesUntouched, Link(d)
      PROVE  member'[e][p] # "none" \/ <<e, p>> \in removed'
  <2>1. user[e].exists /\ p = user[e].personal
    BY <1>3, UserFields DEF Link, TypeOK
  <2>. QED
    BY <1>3, <2>1 DEF PersonalInv, RolesUntouched
<1>4. ASSUME NEW d \in Emails, NEW o \in Orgs, Signup(d, o) \/ SetupOrg(d, o)
      PROVE  member'[e][p] # "none" \/ <<e, p>> \in removed'
  <2>1. CASE e = d
    BY <1>4, <2>1, Founding
  <2>2. CASE e # d
    <3>1. user'[e] = user[e] /\ member'[e][p] = member[e][p] /\ removed' = removed
      BY <1>1, <1>4, <2>2, Founding
    <3>. QED
      BY <3>1 DEF PersonalInv
  <2>. QED
    BY <2>1, <2>2
<1>5. ASSUME NEW c \in Clients, NEW d \in Emails, NEW i \in Invites, NEW o \in Orgs,
             Admits(c, d, i, o)
      PROVE  member'[e][p] # "none" \/ <<e, p>> \in removed'
  <2>1. invite[i].role \in InviteRoles \cup {"MEMBER"}
    BY <1>5, InviteFields DEF Admits
  <2>2. member'[d][o] # "none"
    BY <1>5, <2>1, RolesAssumption DEF Admits
  <2>3. CASE e = d /\ p = o
    BY <2>2, <2>3
  <2>4. CASE ~(e = d /\ p = o)
    <3>1. user'[e] = user[e]
      BY <1>5, <2>4 DEF Admits
    <3>2. p \in Orgs /\ <<e, p>> # <<d, o>>
      BY <1>1, <2>4, <3>1
    <3>3. member'[e][p] = member[e][p]
      BY <1>5, <3>2 DEF Admits
    <3>4. removed' = removed \ {<<d, o>>}
      BY <1>5 DEF Admits
    <3>. QED
      BY <3>1, <3>2, <3>3, <3>4 DEF PersonalInv
  <2>. QED
    BY <2>3, <2>4
<1>6. ASSUME NEW c \in Clients, RemoveMember(c)
      PROVE  member'[e][p] # "none" \/ <<e, p>> \in removed'
  <2>. DEFINE gone == <<request[c].who, request[c].org>>
  <2>1. /\ user' = user /\ removed' = removed \cup {gone}
        /\ <<e, p>> # gone /\ p \in Orgs => member'[e][p] = member[e][p]
    BY <1>6, Removal
  <2>. HIDE DEF gone
  <2>. QED
    BY <1>1, <2>1 DEF PersonalInv
<1>7. ASSUME NEW c \in Clients, Admit(c)
      PROVE  member'[e][p] # "none" \/ <<e, p>> \in removed'
  BY <1>5, <1>7, Admission
<1>. QED
  BY <1>2, <1>3, <1>4, <1>6, <1>7, MemberStep

(* A request is taken to an organization of the caller, whichever way it is   *)
(* resolved, unless an admin has removed the caller from the personal one.    *)
THEOREM OnlyRemovalsGoStale == Spec => []StaleByRemovalOnly
<1>1. Init => PersonalInv
  BY DEF Init, PersonalInv, NoUser
<1>2. ASSUME TypeOK, PersonalInv PROVE StaleByRemovalOnly
  <2>. SUFFICES ASSUME NEW e \in Emails, NEW header \in orgs \cup {None}, user[e].exists
                PROVE  LET own == MembershipsOf(e)
                           stale == {o \in {user[e].personal} : <<e, o>> \in removed}
                           seen == ContextOrg(e, header)
                           used == UnifiedOrg(e, header)
                       IN  /\ seen \in own \cup stale
                           /\ used \in own \cup stale \cup {None}
                           /\ header \in own => seen = used
                           /\ header = None /\ stale = {} => seen = used
    BY DEF StaleByRemovalOnly
  <2>. DEFINE own == MembershipsOf(e)
              p == user[e].personal
  <2>1. p \in Orgs /\ (p \in own \/ <<e, p>> \in removed)
    BY <1>2, UserFields DEF PersonalInv, MembershipsOf
  <2>2. IsFiniteSet(own) /\ None \notin own
    BY OrgsAssumption, NoneAssumption, FS_Subset DEF MembershipsOf
  <2>3. Cardinality(own) = 1 => \A o, q \in own : o = q
    BY <2>2, FS_Singleton
  <2>4. own # {} => (CHOOSE o \in own : TRUE) \in own
    OBVIOUS
  <2>5. ContextOrg(e, header) = IF header # None /\ header \in own THEN header ELSE p
    <3>1. header # None => (header \in own <=> member[e][header] # "none")
      BY <1>2 DEF TypeOK, MembershipsOf
    <3>. QED
      BY <3>1 DEF ContextOrg
  <2>6. UnifiedOrg(e, header) =
          IF header # None THEN IF header \in own THEN header ELSE None
          ELSE IF own = {} THEN None
          ELSE IF Cardinality(own) = 1 THEN CHOOSE o \in own : TRUE ELSE p
    BY DEF UnifiedOrg
  <2>. HIDE DEF own, p
  <2>7. CASE header = None
    BY <2>1, <2>2, <2>3, <2>4, <2>5, <2>6, <2>7 DEF own, p
  <2>8. CASE header # None
    BY <2>1, <2>2, <2>5, <2>6, <2>8 DEF own, p
  <2>. QED
    BY <2>7, <2>8
<1>. QED
  BY <1>1, <1>2, PersonalNext, Bound, PTL DEF Spec
=============================================================================
