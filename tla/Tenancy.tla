------------------------------ MODULE Tenancy ------------------------------
(***************************************************************************)
(* Users, organizations, memberships, invitations, sign-in sessions and    *)
(* API keys, and the requests that read and change them.                   *)
(*                                                                         *)
(* A request is authenticated first (middleware.go) and acts afterwards on *)
(* the principal it was given then; between any two calls it makes to the  *)
(* database or to the cache other requests run.  Every action is one such  *)
(* call.  A request that is refused, or only reads, ends with Answer.      *)
(* Names, timestamps, passwords and digests are left out; the secret of a  *)
(* session, a key or an invitation is its identity.                        *)
(***************************************************************************)
EXTENDS Naturals, Sequences, FiniteSets

CONSTANTS
    NULL,         \* no row, no organization, no account, no token
    Users,        \* ids of accounts, each used for one account
    Emails,       \* normalized addresses
    Orgs,         \* ids of organizations
    Invites,      \* ids of invitations
    Tokens,       \* session tokens
    Keys,         \* ids of API keys
    Clients,      \* requests that can be open at once
    Offered,      \* the roles that requests name
    KeyScopes,    \* the sets of scopes that keys are asked to carry
    Founder,      \* the account that has registered before the start
    FounderEmail, FounderOrg, FounderToken,
    MaxRequests,  \* bound on the requests that begin
    MaxEvents     \* bound on failing calls, expiries and disabled accounts

Roles == {"admin", "operator", "viewer"}
ScopeNames == {"*", "users:write", "api_keys:write", "apps:write"}

ASSUME TenancyAssumption ==
    /\ Founder \in Users /\ FounderEmail \in Emails
    /\ FounderOrg \in Orgs /\ FounderToken \in Tokens
    /\ Offered \subseteq Roles
    /\ KeyScopes \subseteq SUBSET ScopeNames
    /\ MaxRequests \in Nat /\ MaxEvents \in Nat
    /\ NULL \notin Users \cup Emails \cup Orgs \cup Invites \cup Tokens \cup Keys \cup Clients
    /\ NULL \notin Roles \cup {""}

\* The rows of users, organization_invites and api_keys, and what the cache stores.
UserRows == [email : Emails, disabled : BOOLEAN]
InviteRows == [org : Orgs, email : Emails, role : Roles,
               at : {"pending", "accepted", "revoked"}, stale : BOOLEAN]
SessionRows == [user : Users, email : Emails, org : Orgs \cup {NULL}, role : Roles \cup {""}]
KeyRows == [org : Orgs, scopes : SUBSET ScopeNames, revoked : BOOLEAN, by : Keys \cup {NULL}]

ASSUME RowAssumption == NULL \notin UserRows \cup InviteRows \cup SessionRows \cup KeyRows

VARIABLES
    user,     \* users: address and disabled
    org,      \* organizations: the owner
    member,   \* organization_members: the role of a user in an organization
    order,    \* for each user the organizations joined, oldest membership first
    invite,   \* organization_invites
    session,  \* the sessions in the cache
    key,      \* api_keys
    req,      \* what each open request knows and where it is
    left,     \* what is left of the bounds
    had,      \* history: the addresses an account has had
    joined,   \* history: the accounts an invitation let in, one entry each time
    held      \* history: the roles an open request's account has had since it began

tables == <<user, org, member, order, invite, session, key>>
vars == <<user, org, member, order, invite, session, key, req, left, had, joined, held>>

---------------------------------------------------------------------------
(* Principals. *)

\* The writing scopes of a role; the reading ones gate nothing that changes
\* state.  An account between organizations carries the role "".
Scopes(role) ==
    IF role = "admin" THEN {"*"}
    ELSE IF role = "operator" THEN {"apps:write"} ELSE {}

HasScope(p, scope) == "*" \in p.scopes \/ scope \in p.scopes

Idle == [at |-> "idle", kind |-> NULL, token |-> NULL, user |-> NULL, email |-> NULL,
         org |-> NULL, role |-> NULL, scopes |-> {}, target |-> NULL, record |-> NULL]

\* Whether an enabled account has this id.
Exists(u) == user[u] # NULL /\ ~user[u].disabled

\* The role an enabled user holds in an organization now, NULL when there is none.
LiveRole(u, o) == IF Exists(u) THEN member[o][u] ELSE NULL

\* Every session is taken to belong to an organization.
StandingMembersOnly(u, o) == IF o = NULL THEN NULL ELSE LiveRole(u, o)

\* What ByToken finds about the account of a session: NULL is every reason to
\* invalidate it.
Standing(u, o) ==
    IF o = NULL THEN IF Exists(u) THEN "" ELSE NULL ELSE LiveRole(u, o)

---------------------------------------------------------------------------
(* Rows. *)

\* User.Apply: fields that are NULL in the update are left alone.
Apply(record, email, disabled) ==
    [email |-> IF email = NULL THEN record.email ELSE email,
     disabled |-> IF disabled = NULL THEN record.disabled ELSE disabled]

\* The row of an account, disabled or not.
CredentialByID(u) == user[u]

\* The account with an address.
CredentialByEmail(e) == {u \in Users : user[u] # NULL /\ user[u].email = e}

NewUser(e) == [email |-> e, disabled |-> FALSE]

\* The address is unique.
EmailTaken(e, except) == \E u \in Users \ {except} : user[u] # NULL /\ user[u].email = e

OwnsOne(u) == \E o \in Orgs : org[o] = u

isOwner(o, u) == org[o] = u

Pending(i) == invite[i].at = "pending"

NewInvite(o, e, role) == [org |-> o, email |-> e, role |-> role, at |-> "pending", stale |-> FALSE]

\* CreateInvite meets the index that allows one pending invitation of an address
\* to an organization, expired or not.
InviteConflicts(o, e) ==
    \E i \in Invites : invite[i] # NULL /\ Pending(i) /\ invite[i].org = o /\ invite[i].email = e

\* The invitation that a token belongs to, whatever became of it.
InviteByToken(i) == invite[i] # NULL

\* Invite.Redeemable, on the invitation as InviteByToken read it.
Redeemable(i, email) ==
    Pending(i) /\ ~invite[i].stale /\ invite[i].email = email

\* A membership row inserted with ON CONFLICT DO UPDATE SET role.
Enrolled(o, u, role) == [member EXCEPT ![o][u] = role]
OrderedAgain(o, u) == [order EXCEPT ![u] = Append(@, o)]

Ordered(o, u) == IF member[o][u] # NULL THEN order ELSE [order EXCEPT ![u] = Append(@, o)]

\* The order without the one row of an organization.
Without(seq, o) ==
    LET gone == CHOOSE n \in 1..Len(seq) : seq[n] = o IN
    [n \in 1..(Len(seq) - 1) |-> IF n < gone THEN seq[n] ELSE seq[n + 1]]

\* FirstForUser: where a sign-in that names no organization lands.
FirstForUser(u) == IF order[u] = << >> THEN NULL ELSE Head(order[u])

\* A session is stored with the membership it was issued for.
NewSession(r) == [user |-> r.user, email |-> r.email, org |-> r.org, role |-> r.role]

\* The role a membership gives in an organization, "" without one.
RoleOf(u, o) == IF o = NULL THEN "" ELSE member[o][u]

---------------------------------------------------------------------------
(* Steps of a request. *)

\* The tables' own word on an account, NULL when it may do nothing.
Truly(u, o) ==
    IF user[u] = NULL \/ user[u].disabled THEN NULL ELSE IF o = NULL THEN "" ELSE member[o][u]

Now(c) == Truly(req[c].user, req[c].org)

\* History: the roles that the account of an open session request has had at some
\* moment since the request began.
Remember ==
    held' = [c \in Clients |-> IF req'[c].kind = "session" THEN held[c] \cup {Now(c)'} ELSE {}]

At(c, place) == req[c].at = place

Go(c, p) == req' = [req EXCEPT ![c] = p]
Move(c, place) == Go(c, [req[c] EXCEPT !.at = place])
Done(c) == Go(c, Idle)

Begins(c) ==
    /\ At(c, "idle") /\ left.requests > 0
    /\ left' = [left EXCEPT !.requests = @ - 1]

Event == left.events > 0 /\ left' = [left EXCEPT !.events = @ - 1]

\* A request that has passed scoped(scope).
May(c, scope) == At(c, "acting") /\ HasScope(req[c], scope)

\* A request that has passed sessionOnly.
SignedIn(c) == At(c, "acting") /\ req[c].kind = "session"

---------------------------------------------------------------------------
(* Authentication. *)

\* authenticate with a cookie: ByToken reads the session from the cache ...
ReadSession(c, t) ==
    /\ Begins(c) /\ session[t] # NULL
    /\ Go(c, [Idle EXCEPT !.at = "session", !.kind = "session", !.token = t,
              !.user = session[t].user, !.email = session[t].email, !.org = session[t].org,
              !.role = session[t].role])
    /\ UNCHANGED <<tables, had, joined>>

\* ... then trusts the role the session was stored with.
ByTokenStored(c) ==
    /\ At(c, "session")
    /\ Go(c, [req[c] EXCEPT !.at = "acting", !.scopes = Scopes(req[c].role)])
    /\ UNCHANGED <<tables, left, had, joined>>

\* ... then the account: its role of now is what the principal carries.
ByToken(c) ==
    LET role == Standing(req[c].user, req[c].org) IN
    /\ At(c, "session")
    /\ IF role = NULL
       THEN Done(c) /\ session' = [session EXCEPT ![req[c].token] = NULL]
       ELSE /\ Go(c, [req[c] EXCEPT !.at = "acting", !.role = role, !.scopes = Scopes(role)])
            /\ UNCHANGED session
    /\ UNCHANGED <<user, org, member, order, invite, key, left, had, joined>>

\* A read of the account that fails counts as an account that is gone.
ByTokenFails(c) ==
    /\ At(c, "session") /\ Event /\ Done(c)
    /\ session' = [session EXCEPT ![req[c].token] = NULL]
    /\ UNCHANGED <<user, org, member, order, invite, key, had, joined>>

\* A key that is there and not revoked.
CredentialByPrefix(k) == key[k] # NULL /\ ~key[k].revoked

\* authenticate with a bearer key.
AuthenticateKey(c, k) ==
    /\ Begins(c) /\ CredentialByPrefix(k)
    /\ Go(c, [Idle EXCEPT !.at = "acting", !.kind = "key", !.org = key[k].org,
              !.scopes = key[k].scopes, !.target = k])
    /\ UNCHANGED <<tables, had, joined>>

\* A handler that reads, or refuses: a missing scope, a row that is not there, a
\* conflict, an invalid body.
Answer(c) ==
    /\ At(c, "acting") /\ Done(c)
    /\ UNCHANGED <<tables, left, had, joined>>

---------------------------------------------------------------------------
(* Signing in and out. *)

\* The enabled account that an address and its password sign in.
authenticate(e) == {u \in CredentialByEmail(e) : ~user[u].disabled}

Login(c, e) ==
    /\ Begins(c)
    /\ \E u \in authenticate(e) :
          Go(c, [Idle EXCEPT !.at = "login", !.kind = "login", !.user = u, !.email = e])
    /\ UNCHANGED <<tables, had, joined>>

LoginFirst(c) ==
    /\ At(c, "login")
    /\ LET o == FirstForUser(req[c].user) IN
       Go(c, [req[c] EXCEPT !.at = "issue", !.org = o, !.role = RoleOf(req[c].user, o)])
    /\ UNCHANGED <<tables, left, had, joined>>

\* StartSession reads the account again, enabled or not.
StartSession(c) ==
    /\ At(c, "start")
    /\ LET account == CredentialByID(req[c].user) IN
       IF account = NULL THEN Done(c)
       ELSE Go(c, [req[c] EXCEPT !.at = "issue", !.email = account.email])
    /\ UNCHANGED <<tables, left, had, joined>>

\* issue stores a session under a fresh token.
Issue(c, t) ==
    /\ At(c, "issue") /\ session[t] = NULL /\ \A d \in Clients : req[d].token # t
    /\ session' = [session EXCEPT ![t] = NewSession(req[c])]
    /\ Done(c)
    /\ UNCHANGED <<user, org, member, order, invite, key, left, had, joined>>

\* The cache refuses: the request ends without a session.
IssueFails(c) ==
    /\ At(c, "issue") /\ Event /\ Done(c)
    /\ UNCHANGED <<tables, had, joined>>

\* Logout, by whoever holds the cookie.
Logout(c, t) ==
    /\ Begins(c) /\ session[t] # NULL
    /\ Go(c, [Idle EXCEPT !.at = "logout", !.kind = "logout", !.token = t])
    /\ UNCHANGED <<tables, had, joined>>

\* The cache drops the session, or fails to: the answer is the same.
Dropped(t) ==
    \/ session' = [session EXCEPT ![t] = NULL] /\ UNCHANGED left
    \/ Event /\ UNCHANGED session

LogoutDelete(c) ==
    /\ At(c, "logout") /\ Done(c) /\ Dropped(req[c].token)
    /\ UNCHANGED <<user, org, member, order, invite, key, had, joined>>

\* reissue, once the membership just gained has been read back: the old session is
\* dropped and one in the new organization is started.  A registration has none to
\* drop; it goes on without an organization when the membership is gone again.
Reissue(c) ==
    LET gained == member[req[c].target][req[c].user] # NULL
        o == IF gained THEN req[c].target ELSE NULL IN
    /\ At(c, "reissue")
    /\ IF gained \/ req[c].kind = "register"
       THEN Go(c, [req[c] EXCEPT !.at = "start", !.token = NULL, !.org = o,
                                 !.role = RoleOf(req[c].user, o)])
       ELSE Done(c)
    /\ IF gained /\ req[c].token # NULL THEN Dropped(req[c].token) ELSE UNCHANGED <<session, left>>
    /\ UNCHANGED <<user, org, member, order, invite, key, had, joined>>

---------------------------------------------------------------------------
(* Accounts. *)

\* The insert of an account, with an address that none has.
InsertUser(u, e) == ~EmailTaken(e, NULL) /\ user' = [user EXCEPT ![u] = NewUser(e)]

\* An id that no account has had.
CreateUser(u, e) ==
    /\ had[u] = {} /\ InsertUser(u, e)
    /\ had' = [had EXCEPT ![u] = {e}]

\* register: the account first, then one of the two shapes of sign-up, or neither.
Register(c, u, e) ==
    /\ Begins(c) /\ CreateUser(u, e)
    /\ Go(c, [Idle EXCEPT !.at = "registered", !.kind = "register", !.user = u, !.email = e,
              !.role = ""])
    /\ UNCHANGED <<org, member, order, invite, session, key, joined>>

\* Nothing was named, or the step that joins an organization was refused: the
\* account stands on its own.
RegisterAlone(c) ==
    /\ At(c, "registered") /\ Move(c, "start")
    /\ UNCHANGED <<tables, left, had, joined>>

\* The row as it is now, with the update folded into it.
Updated(u, email, disabled) == Apply(user[u], email, disabled)

\* updateUser reads the row ...
UpdateUser(c, u, email, disabled) ==
    /\ May(c, "users:write") /\ user[u] # NULL /\ (email # NULL \/ disabled # NULL)
    /\ IF disabled = TRUE THEN Event ELSE UNCHANGED left
    /\ Go(c, [req[c] EXCEPT !.at = "update", !.target = u,
              !.record = Updated(u, email, disabled)])
    /\ UNCHANGED <<tables, had, joined>>

\* ... then writes the whole of it back.
UpdateUserRow(c) ==
    LET u == req[c].target IN
    /\ At(c, "update") /\ Done(c)
    /\ IF user[u] # NULL /\ ~EmailTaken(req[c].record.email, u)
       THEN /\ user' = [user EXCEPT ![u] = req[c].record]
            /\ had' = [had EXCEPT ![u] = @ \cup {req[c].record.email}]
       ELSE UNCHANGED <<user, had>>
    /\ UNCHANGED <<org, member, order, invite, session, key, left, joined>>

\* The owner of an organization cannot be deleted; the memberships go with the row.
DeleteUserRow(u) ==
    /\ user[u] # NULL /\ ~OwnsOne(u)
    /\ user' = [user EXCEPT ![u] = NULL]
    /\ member' = [o \in Orgs |-> [member[o] EXCEPT ![u] = NULL]]
    /\ order' = [order EXCEPT ![u] = << >>]

\* deleteUser: not oneself.
DeleteUser(c, u) ==
    /\ May(c, "users:write") /\ u # req[c].user
    /\ DeleteUserRow(u)
    /\ Done(c)
    /\ UNCHANGED <<org, invite, session, key, left, had, joined>>

\* The row remembers which key, if any, the caller presented.
NewKey(c, scopes) ==
    [org |-> req[c].org, scopes |-> scopes, revoked |-> FALSE,
     by |-> IF req[c].kind = "key" THEN req[c].target ELSE NULL]

\* The insert of a key, under an id and a prefix that are fresh.
InsertKey(k, row) == key[k] = NULL /\ key' = [key EXCEPT ![k] = row]

CreateKey(c, k, scopes) == InsertKey(k, NewKey(c, scopes))

\* createAPIKey: only scopes the caller holds.
CreateAPIKey(c, k, scopes) ==
    /\ May(c, "api_keys:write")
    /\ \A scope \in scopes : HasScope(req[c], scope)
    /\ CreateKey(c, k, scopes) /\ Done(c)
    /\ UNCHANGED <<user, org, member, order, invite, session, left, had, joined>>

\* Revoke, of a key of the organization; a second time it changes nothing.
RevokeKey(o, k) ==
    /\ key[k] # NULL /\ key[k].org = o
    /\ key' = [key EXCEPT ![k].revoked = TRUE]

RevokeAPIKey(c, k) ==
    /\ May(c, "api_keys:write") /\ RevokeKey(req[c].org, k) /\ Done(c)
    /\ UNCHANGED <<user, org, member, order, invite, session, left, had, joined>>

---------------------------------------------------------------------------
(* Organizations and members. *)

\* Somebody who may join or start an organization: a session, or a registration.
Joining(c) == SignedIn(c) \/ At(c, "registered")

\* Create: the transaction looks for an organization of the caller's ...
CreateOrganization(c) ==
    /\ Joining(c) /\ ~OwnsOne(req[c].user)
    /\ Move(c, "own")
    /\ UNCHANGED <<tables, left, had, joined>>

\* What the INSERT meets: the unique owner, and the reference to the account.
Ownable(u) == ~OwnsOne(u) /\ user[u] # NULL

\* ... and inserts one with its owner as an admin.
InsertOrganization(c, o) ==
    LET u == req[c].user IN
    /\ At(c, "own") /\ org[o] = NULL
    /\ IF Ownable(u)
       THEN /\ org' = [org EXCEPT ![o] = u]
            /\ member' = Enrolled(o, u, "admin") /\ order' = Ordered(o, u)
            /\ Go(c, [req[c] EXCEPT !.at = "reissue", !.target = o])
       ELSE /\ IF req[c].kind = "register" THEN Move(c, "start") ELSE Done(c)
            /\ UNCHANGED <<org, member, order>>
    /\ UNCHANGED <<user, invite, session, key, left, had, joined>>

\* SetMemberRole and RemoveMember refuse the owner, who never changes.
SetMemberRole(o, u, role) ==
    /\ ~isOwner(o, u) /\ member[o][u] # NULL
    /\ member' = [member EXCEPT ![o][u] = role]
    /\ UNCHANGED order

DeleteMember(o, u) ==
    /\ member[o][u] # NULL
    /\ member' = [member EXCEPT ![o][u] = NULL]
    /\ order' = [order EXCEPT ![u] = Without(@, o)]

RemoveMemberAny(o, u) == DeleteMember(o, u)

RemoveMember(o, u) == ~isOwner(o, u) /\ DeleteMember(o, u)

\* OrganizationService.SetMemberRole parses the role.
AssignRole(o, u, role) == role \in Roles /\ SetMemberRole(o, u, role)

UpdateMember(c, u, role) ==
    /\ May(c, "users:write") /\ AssignRole(req[c].org, u, role) /\ Done(c)
    /\ UNCHANGED <<user, org, invite, session, key, left, had, joined>>

\* removeMember: not oneself.
ExpelMember(c, u) ==
    /\ May(c, "users:write") /\ u # req[c].user /\ RemoveMember(req[c].org, u) /\ Done(c)
    /\ UNCHANGED <<user, org, invite, session, key, left, had, joined>>

---------------------------------------------------------------------------
(* Invitations. *)

\* The insert of an invitation.
InsertInvite(i, o, e, role) ==
    /\ invite[i] = NULL /\ ~InviteConflicts(o, e)
    /\ invite' = [invite EXCEPT ![i] = NewInvite(o, e, role)]

\* OrganizationService.Invite
Invite(i, o, e, role) == role \in Roles /\ InsertInvite(i, o, e, role)

CreateInvite(c, i, e, role) ==
    /\ May(c, "users:write") /\ Invite(i, req[c].org, e, role) /\ Done(c)
    /\ UNCHANGED <<user, org, member, order, session, key, left, had, joined>>

\* The update of an invitation that was not accepted.
Revoke(i, o) ==
    /\ invite[i] # NULL /\ invite[i].org = o /\ invite[i].at # "accepted"
    /\ invite' = [invite EXCEPT ![i].at = "revoked"]

RevokeInvite(c, i) ==
    /\ May(c, "users:write") /\ Revoke(i, req[c].org) /\ Done(c)
    /\ UNCHANGED <<user, org, member, order, session, key, left, had, joined>>

\* Accept reads the invitation and compares it with the address the caller's
\* session, or the registration, carries ...
Accept(c, i) ==
    /\ Joining(c) /\ InviteByToken(i) /\ Redeemable(i, req[c].email)
    /\ Go(c, [req[c] EXCEPT !.at = "redeem", !.target = i])
    /\ UNCHANGED <<tables, left, had, joined>>

UnspentUnchecked(i) == TRUE

\* The UPDATE of Redeem matches the invitation.
Unspent(i) == Pending(i)

\* acceptInvite moves the session of an account that had nowhere to act.
Moves(c) == req[c].org = NULL

\* ... then Redeem spends it and writes the membership in one transaction.
Redeem(c) ==
    LET i == req[c].target
        o == invite[i].org
        u == req[c].user IN
    /\ At(c, "redeem")
    /\ IF Unspent(i) /\ user[u] # NULL
       THEN /\ invite' = [invite EXCEPT ![i].at = "accepted"]
            /\ member' = Enrolled(o, u, invite[i].role) /\ order' = Ordered(o, u)
            /\ joined' = [joined EXCEPT ![i] = Append(@, u)]
            /\ IF Moves(c) THEN Go(c, [req[c] EXCEPT !.at = "reissue", !.target = o]) ELSE Done(c)
       ELSE /\ IF req[c].kind = "register" THEN Move(c, "start") ELSE Done(c)
            /\ UNCHANGED <<invite, member, order, joined>>
    /\ UNCHANGED <<user, org, session, key, left, had>>

---------------------------------------------------------------------------
(* Time. *)

\* A session reaches its expiry: the cache and ByToken both drop it.
ExpireSession(t) ==
    /\ session[t] # NULL /\ Event
    /\ session' = [session EXCEPT ![t] = NULL]
    /\ UNCHANGED <<user, org, member, order, invite, key, req, had, joined>>

ExpireInvite(i) ==
    /\ invite[i] # NULL /\ ~invite[i].stale /\ Event
    /\ invite' = [invite EXCEPT ![i].stale = TRUE]
    /\ UNCHANGED <<user, org, member, order, session, key, req, had, joined>>

---------------------------------------------------------------------------

Init ==
    /\ user = [u \in Users |-> IF u = Founder THEN [email |-> FounderEmail, disabled |-> FALSE]
                               ELSE NULL]
    /\ org = [o \in Orgs |-> IF o = FounderOrg THEN Founder ELSE NULL]
    /\ member = [o \in Orgs |-> [u \in Users |->
                    IF o = FounderOrg /\ u = Founder THEN "admin" ELSE NULL]]
    /\ order = [u \in Users |-> IF u = Founder THEN <<FounderOrg>> ELSE << >>]
    /\ invite = [i \in Invites |-> NULL]
    /\ session = [t \in Tokens |->
                    IF t = FounderToken
                    THEN [user |-> Founder, email |-> FounderEmail, org |-> FounderOrg,
                          role |-> "admin"]
                    ELSE NULL]
    /\ key = [k \in Keys |-> NULL]
    /\ req = [c \in Clients |-> Idle]
    /\ left = [requests |-> MaxRequests, events |-> MaxEvents]
    /\ had = [u \in Users |-> IF u = Founder THEN {FounderEmail} ELSE {}]
    /\ joined = [i \in Invites |-> << >>]
    /\ held = [c \in Clients |-> {}]

Authenticate(c) ==
    \/ \E t \in Tokens : ReadSession(c, t)
    \/ ByToken(c) \/ ByTokenFails(c) \/ Answer(c)
    \/ \E k \in Keys : AuthenticateKey(c, k)

Sign(c) ==
    \/ \E e \in Emails : Login(c, e)
    \/ LoginFirst(c) \/ StartSession(c) \/ IssueFails(c) \/ LogoutDelete(c) \/ Reissue(c)
    \/ \E t \in Tokens : Issue(c, t) \/ Logout(c, t)

Account(c) ==
    \/ \E u \in Users, e \in Emails : Register(c, u, e)
    \/ RegisterAlone(c) \/ UpdateUserRow(c)
    \/ \E u \in Users, e \in Emails \cup {NULL}, d \in {TRUE, FALSE, NULL} : UpdateUser(c, u, e, d)
    \/ \E u \in Users : DeleteUser(c, u)
    \/ \E k \in Keys : RevokeAPIKey(c, k) \/ \E s \in KeyScopes : CreateAPIKey(c, k, s)

Organize(c) ==
    \/ CreateOrganization(c) \/ Redeem(c)
    \/ \E o \in Orgs : InsertOrganization(c, o)
    \/ \E u \in Users : ExpelMember(c, u) \/ \E role \in Offered : UpdateMember(c, u, role)
    \/ \E i \in Invites :
          \/ RevokeInvite(c, i) \/ Accept(c, i)
          \/ \E e \in Emails, role \in Offered : CreateInvite(c, i, e, role)

Next ==
    /\ \/ \E c \in Clients : Authenticate(c) \/ Sign(c) \/ Account(c) \/ Organize(c)
       \/ \E t \in Tokens : ExpireSession(t)
       \/ \E i \in Invites : ExpireInvite(i)
    /\ Remember

Spec == Init /\ [][Next]_vars

---------------------------------------------------------------------------
(* Properties. *)

\* The organizations that FirstForUser chooses from are the memberships, each once.
OrdersAgree ==
    /\ \A o \in Orgs, u \in Users :
          member[o][u] # NULL <=> \E n \in 1..Len(order[u]) : order[u][n] = o
    /\ \A u \in Users : \A m, n \in 1..Len(order[u]) : order[u][m] = order[u][n] => m = n

\* Rows and sessions are well formed, and FirstForUser reads memberships that are
\* there, each once: the order of joining agrees with the memberships through
\* joins, removals, upserts and deleted accounts.
TypeOK ==
    /\ user \in [Users -> UserRows \cup {NULL}]
    /\ org \in [Orgs -> Users \cup {NULL}]
    /\ member \in [Orgs -> [Users -> Roles \cup {NULL}]]
    /\ order \in [Users -> Seq(Orgs)]
    /\ invite \in [Invites -> InviteRows \cup {NULL}]
    /\ session \in [Tokens -> SessionRows \cup {NULL}]
    /\ key \in [Keys -> KeyRows \cup {NULL}]
    /\ OrdersAgree

LetIn(i, u) == \E n \in 1..Len(joined[i]) : joined[i][n] = u

\* "an organization whose owner is not a member of it would be a tenant nobody can
\* reach" (repository/database/organization.go): no removal, deletion or race of
\* requests leaves an organization without its owner among the members.
OwnerIsMember ==
    \A o \in Orgs : org[o] # NULL => user[org[o]] # NULL /\ member[o][org[o]] # NULL

\* The owner is demoted by one thing only: an invitation to the own organization
\* that the owner accepted.  SetMemberRole, which locks the owner, and every
\* other request leave the owner an admin.
OwnerDemotedByInviteOnly ==
    \A o \in Orgs : org[o] # NULL /\ member[o][org[o]] # "admin" =>
        \E i \in Invites : /\ LetIn(i, org[o]) /\ invite[i].org = o
                          /\ invite[i].role = member[o][org[o]]

\* Create of two requests of one user: a user owns at most one organization.
OneOwnedEach ==
    \A o, p \in Orgs : org[o] # NULL /\ org[o] = org[p] => o = p

\* Every organization has one owner of its own, who is there and administers it
\* unless an invitation the owner accepted says otherwise.
OwnersKept == OwnerIsMember /\ OwnerDemotedByInviteOnly /\ OneOwnedEach

\* "a token cannot be spent twice by two concurrent calls": an invitation that is
\* accepted or revoked stays so and lets nobody in any more, whatever an Accept
\* that is still open read before.  And "Accept spends an invitation for a user
\* whose address must match it": whoever it lets in has had that address (not
\* necessarily now: a session keeps the address it was issued with).
InviteSpentOnce ==
    [][\A i \in Invites :
        /\ invite[i] # NULL /\ ~(invite[i].at = "pending") =>
              invite'[i].at = invite[i].at /\ joined'[i] = joined[i]
        /\ joined'[i] # joined[i] => invite[i].email \in had[joined'[i][Len(joined'[i])]]]_vars

\* "removing somebody takes effect on their next call": a request acts only with
\* the scopes of a role its account has had since the request began, so a request
\* that begins after a demotion, a removal or a disabling does not act with the
\* old ones.
ActsWithHeldRole ==
    \A c \in Clients :
        req[c].kind = "session" /\ req[c].at \in {"acting", "own", "redeem", "update"} =>
            \E role \in held[c] \ {NULL} : req[c].scopes = Scopes(role)

\* "a limited key cannot mint an unlimited one": no chain of keys ends in a key
\* that reaches further than the key it descends from.
KeysNeverWiden ==
    \A k \in Keys : key[k] # NULL /\ key[k].by # NULL =>
        \/ "*" \in key[key[k].by].scopes
        \/ key[k].scopes \subseteq key[key[k].by].scopes

\* Nobody acts with more than was granted, by a session or by a key.
ActsAsGranted == ActsWithHeldRole /\ KeysNeverWiden

\* A session ends for a reason: its holder leaves it (logout, or a new session in
\* the organization just joined), its account lost its standing, or a call failed
\* or time ran out.  In particular one without an organization survives requests.
SessionsEndForCause ==
    [][\A t \in Tokens : session[t] # NULL /\ session'[t] = NULL =>
          \/ \E c \in Clients : req[c].token = t /\ req[c].at \in {"logout", "reissue"}
          \/ Truly(session[t].user, session[t].org) = NULL
          \/ left'.events < left.events]_vars

=============================================================================
