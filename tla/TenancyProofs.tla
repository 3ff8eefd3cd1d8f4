---------------------------- MODULE TenancyProofs ----------------------------
(***************************************************************************)
(* Proofs about Tenancy for every number of accounts, organizations,       *)
(* invitations, sessions, keys and open requests.                          *)
(*                                                                         *)
(* The inductive invariant joins the properties the runs check with what   *)
(* an open request may rely on at each place it can be in (Proper): the    *)
(* rows it read before another request ran are still there, or are known   *)
(* to be what it remembers of them.                                        *)
(***************************************************************************)
EXTENDS Tenancy, TLAPS

-----------------------------------------------------------------------------
(* The inductive invariant. *)

Places == {"idle", "session", "acting", "login", "start", "issue", "logout", "reissue",
           "registered", "update", "own", "redeem"}

Requests ==
    [at : Places, kind : {NULL, "session", "key", "login", "logout", "register"},
     token : Tokens \cup {NULL}, user : Users \cup {NULL}, email : Emails \cup {NULL},
     org : Orgs \cup {NULL}, role : Roles \cup {"", NULL}, scopes : SUBSET ScopeNames,
     target : Users \cup Orgs \cup Invites \cup Keys \cup {NULL},
     record : UserRows \cup {NULL}]

\* The types of the histories.
HistoryTypes == had \in [Users -> SUBSET Emails] /\ joined \in [Invites -> Seq(Users)]

\* Histories: an account has had the address it has, a session carries one its
\* account has had, and only an invitation that was made has let anybody in.
AddressesKnown ==
    /\ \A u \in Users : user[u] # NULL => user[u].email \in had[u]
    /\ \A t \in Tokens : session[t] # NULL => session[t].email \in had[session[t].user]
    /\ \A i \in Invites : invite[i] = NULL => joined[i] = << >>

\* The key that a key descends from is there.
ParentsThere == \A k \in Keys : key[k] # NULL /\ key[k].by # NULL => key[key[k].by] # NULL

\* A request that knows its account knows an address the account has had.
Known(r) == r.user \in Users /\ r.email \in Emails /\ r.email \in had[r.user]

\* What a request holds at each of its places.
Proper(r) ==
    /\ r.at \in {"session", "login", "registered", "own", "redeem", "issue"} => Known(r)
    /\ r.at = "acting" => r.kind \in {"session", "key"}
    /\ r.at = "acting" /\ r.kind = "session" => Known(r) /\ r.role \in Roles \cup {""}
    /\ r.at = "acting" /\ r.kind = "key" =>
          /\ r.target \in Keys /\ key[r.target] # NULL
          /\ r.scopes = key[r.target].scopes
    /\ r.at = "acting" /\ r.scopes # {} => r.org \in Orgs
    /\ r.at \in {"start", "reissue"} => r.user \in Users
    /\ r.at \in {"registered", "own", "redeem", "start", "issue"} => r.role \in Roles \cup {""}
    /\ r.at = "session" =>
          /\ r.kind = "session" /\ r.token \in Tokens
          /\ session[r.token] # NULL =>
                session[r.token].user = r.user /\ session[r.token].org = r.org
    /\ r.at = "registered" => r.kind = "register"
    /\ r.at = "logout" => r.token \in Tokens
    /\ r.at = "update" => r.target \in Users /\ r.record \in UserRows
    /\ r.at = "redeem" =>
          /\ r.target \in Invites /\ invite[r.target] # NULL
          /\ invite[r.target].email = r.email
    /\ r.at = "reissue" => r.target \in Orgs

TablesInv ==
    /\ TypeOK /\ HistoryTypes /\ AddressesKnown /\ ParentsThere /\ OwnersKept /\ KeysNeverWiden

RequestsInv ==
    /\ req \in [Clients -> Requests]
    /\ left \in [requests : Nat, events : Nat]
    /\ \A c \in Clients : Proper(req[c])
    /\ ActsWithHeldRole

IInv == TablesInv /\ RequestsInv

-----------------------------------------------------------------------------
(* The order of joining. *)

\* What appending an organization that is not there does to an order of joining.
LEMMA AppendedOnce ==
    ASSUME NEW S, NEW s \in Seq(S), NEW o \in S,
           \A m, n \in 1..Len(s) : s[m] = s[n] => m = n,
           \A n \in 1..Len(s) : s[n] # o
    PROVE  /\ Append(s, o) \in Seq(S)
           /\ \A m, n \in 1..Len(Append(s, o)) : Append(s, o)[m] = Append(s, o)[n] => m = n
           /\ \A x \in S : (\E n \in 1..Len(Append(s, o)) : Append(s, o)[n] = x) <=>
                              (x = o \/ \E n \in 1..Len(s) : s[n] = x)
    <1> DEFINE t == Append(s, o)
    <1>1. /\ t \in Seq(S) /\ Len(t) = Len(s) + 1 /\ Len(s) \in Nat
          /\ \A n \in 1..Len(s) : t[n] = s[n]
          /\ t[Len(s) + 1] = o
        OBVIOUS
    <1> HIDE DEF t
    <1>2. \A m, n \in 1..Len(t) : t[m] = t[n] => m = n
        BY <1>1
    <1>3. \A x \in S : (\E n \in 1..Len(t) : t[n] = x) <=> (x = o \/ \E n \in 1..Len(s) : s[n] = x)
        BY <1>1
    <1>4. QED
        BY <1>1, <1>2, <1>3 DEF t

\* What Without does to an order of joining that has the organization once.
LEMMA WithoutOnce ==
    ASSUME NEW S, NEW s \in Seq(S), NEW o \in S,
           \A m, n \in 1..Len(s) : s[m] = s[n] => m = n,
           \E n \in 1..Len(s) : s[n] = o
    PROVE  /\ Without(s, o) \in Seq(S)
           /\ \A m, n \in 1..Len(Without(s, o)) :
                 Without(s, o)[m] = Without(s, o)[n] => m = n
           /\ \A x \in S : (\E n \in 1..Len(Without(s, o)) : Without(s, o)[n] = x) <=>
                              (x # o /\ \E n \in 1..Len(s) : s[n] = x)
    <1> DEFINE g == CHOOSE n \in 1..Len(s) : s[n] = o
               t == Without(s, o)
    <1>1. g \in 1..Len(s) /\ s[g] = o
        OBVIOUS
    <1>2. t = [n \in 1..(Len(s) - 1) |-> IF n < g THEN s[n] ELSE s[n + 1]]
        BY DEF Without
    <1>3. Len(s) \in Nat /\ Len(s) - 1 \in Nat
        BY <1>1
    <1> HIDE DEF g, t
    <1>4. \A n \in 1..(Len(s) - 1) : t[n] \in S
        BY <1>1, <1>2, <1>3
    <1>5. t \in Seq(S) /\ Len(t) = Len(s) - 1
        BY <1>2, <1>3, <1>4
    <1>6. \A m, n \in 1..Len(t) : t[m] = t[n] => m = n
        BY <1>1, <1>2, <1>3, <1>5
    <1>7. ASSUME NEW x \in S
          PROVE  (\E n \in 1..Len(t) : t[n] = x) <=> (x # o /\ \E n \in 1..Len(s) : s[n] = x)
        <2>1. ASSUME NEW n \in 1..Len(t), t[n] = x
              PROVE  x # o /\ \E m \in 1..Len(s) : s[m] = x
            <3>1. CASE n < g
                BY <1>1, <1>2, <1>3, <1>5, <2>1, <3>1
            <3>2. CASE ~(n < g)
                <4>1. n + 1 \in 1..Len(s) /\ s[n + 1] = x /\ n + 1 # g
                    BY <1>1, <1>2, <1>3, <1>5, <2>1, <3>2
                <4>2. QED
                    BY <1>1, <4>1
            <3>3. QED
                BY <3>1, <3>2
        <2>2. ASSUME x # o, NEW n \in 1..Len(s), s[n] = x
              PROVE  \E m \in 1..Len(t) : t[m] = x
            <3>1. CASE n < g
                <4>1. n \in 1..Len(t) /\ t[n] = x
                    BY <1>1, <1>2, <1>3, <1>5, <2>2, <3>1
                <4>2. QED
                    BY <4>1
            <3>2. CASE ~(n < g)
                <4>1. n # g
                    BY <1>1, <2>2
                <4>2. n - 1 \in 1..Len(t) /\ t[n - 1] = x
                    BY <1>1, <1>2, <1>3, <1>5, <2>2, <3>2, <4>1
                <4>3. QED
                    BY <4>2
            <3>3. QED
                BY <3>1, <3>2
        <2>3. QED
            BY <2>1, <2>2
    <1>8. QED
        BY <1>5, <1>6, <1>7 DEF t

-----------------------------------------------------------------------------
(* Memberships and their order. *)

\* What is read of a row stays; a session that appears has a token no request knows.
Grows ==
    /\ \A u \in Users : had[u] \subseteq had'[u]
    /\ \A k \in Keys : key[k] # NULL => key'[k] # NULL /\ key'[k].scopes = key[k].scopes
    /\ \A i \in Invites :
          invite[i] # NULL => invite'[i] # NULL /\ invite'[i].email = invite[i].email
    /\ \A t \in Tokens : session'[t] # NULL =>
          session'[t] = session[t] \/ \A c \in Clients : req[c].token # t

\* NULL is none of the roles.
LEMMA RolesThere == NULL \notin Roles \cup {""}
    BY TenancyAssumption

\* A membership row that is inserted or updated keeps the order of joining in
\* agreement with the memberships.
LEMMA EnrolledAgrees ==
    ASSUME TypeOK, NEW o \in Orgs, NEW u \in Users, NEW role \in Roles,
           member' = Enrolled(o, u, role), order' = Ordered(o, u)
    PROVE  /\ member' \in [Orgs -> [Users -> Roles \cup {NULL}]]
           /\ order' \in [Users -> Seq(Orgs)]
           /\ OrdersAgree'
    <1>1. role # NULL
        BY RolesThere
    <1>2. member' \in [Orgs -> [Users -> Roles \cup {NULL}]]
        BY DEF TypeOK, Enrolled
    <1>3. \A p \in Orgs, w \in Users :
             member'[p][w] = IF p = o /\ w = u THEN role ELSE member[p][w]
        BY DEF TypeOK, Enrolled
    <1>4. CASE member[o][u] # NULL
        <2>1. order' = order
            BY <1>4 DEF Ordered
        <2>2. \A p \in Orgs, w \in Users : member'[p][w] # NULL <=> member[p][w] # NULL
            BY <1>1, <1>3, <1>4
        <2>3. order \in [Users -> Seq(Orgs)] /\ OrdersAgree
            BY DEF TypeOK
        <2>4. OrdersAgree'
            <3>1. ASSUME NEW p \in Orgs, NEW w \in Users
                  PROVE  member'[p][w] # NULL <=> \E n \in 1..Len(order[w]) : order[w][n] = p
                BY <2>2, <2>3 DEF OrdersAgree
            <3>2. \A w \in Users : \A m, n \in 1..Len(order[w]) :
                     order[w][m] = order[w][n] => m = n
                BY <2>3 DEF OrdersAgree
            <3>3. QED
                BY <2>1, <3>1, <3>2 DEF OrdersAgree
        <2>5. QED
            BY <1>2, <2>1, <2>3, <2>4
    <1>5. CASE member[o][u] = NULL
        <2>1. order' = [order EXCEPT ![u] = Append(order[u], o)]
            BY <1>5 DEF Ordered
        <2>2. /\ order[u] \in Seq(Orgs)
              /\ \A m, n \in 1..Len(order[u]) : order[u][m] = order[u][n] => m = n
              /\ \A n \in 1..Len(order[u]) : order[u][n] # o
            BY <1>5 DEF TypeOK, OrdersAgree
        <2> DEFINE t == Append(order[u], o)
        <2>3. /\ t \in Seq(Orgs)
              /\ \A m, n \in 1..Len(t) : t[m] = t[n] => m = n
              /\ \A x \in Orgs : (\E n \in 1..Len(t) : t[n] = x) <=>
                                    (x = o \/ \E n \in 1..Len(order[u]) : order[u][n] = x)
            BY <2>2, AppendedOnce, SMTT(60)
        <2>4. order'[u] = t /\ \A w \in Users \ {u} : order'[w] = order[w]
            BY <2>1 DEF TypeOK
        <2> HIDE DEF t
        <2>5. order' \in [Users -> Seq(Orgs)]
            BY <2>1, <2>3 DEF TypeOK, t
        <2>6. ASSUME NEW p \in Orgs, NEW w \in Users
              PROVE  member'[p][w] # NULL <=> \E n \in 1..Len(order'[w]) : order'[w][n] = p
            <3>1. CASE w = u
                <4>1. member'[p][w] # NULL <=> p = o \/ member[p][u] # NULL
                    BY <1>1, <1>3, <1>5, <3>1
                <4>2. member[p][u] # NULL <=> \E n \in 1..Len(order[u]) : order[u][n] = p
                    BY DEF TypeOK, OrdersAgree
                <4>3. (\E n \in 1..Len(t) : t[n] = p) <=>
                         (p = o \/ \E n \in 1..Len(order[u]) : order[u][n] = p)
                    BY <2>3
                <4>4. QED
                    BY <2>4, <3>1, <4>1, <4>2, <4>3
            <3>2. CASE w # u
                <4>1. member'[p][w] = member[p][w] /\ order'[w] = order[w]
                    BY <1>3, <2>4, <3>2
                <4>2. member[p][w] # NULL <=> \E n \in 1..Len(order[w]) : order[w][n] = p
                    BY DEF TypeOK, OrdersAgree
                <4>3. QED
                    BY <4>1, <4>2
            <3>3. QED
                BY <3>1, <3>2
        <2>7. ASSUME NEW w \in Users
              PROVE  \A m, n \in 1..Len(order'[w]) : order'[w][m] = order'[w][n] => m = n
            <3>1. \A m, n \in 1..Len(order[w]) : order[w][m] = order[w][n] => m = n
                BY DEF TypeOK, OrdersAgree
            <3>2. QED
                BY <2>3, <2>4, <3>1
        <2>8. QED
            BY <1>2, <2>5, <2>6, <2>7 DEF OrdersAgree
    <1>6. QED
        BY <1>4, <1>5

\* A membership row that is deleted takes its place in the order with it.
LEMMA DeletedAgrees ==
    ASSUME TypeOK, NEW o \in Orgs, NEW u \in Users, DeleteMember(o, u)
    PROVE  /\ member' \in [Orgs -> [Users -> Roles \cup {NULL}]]
           /\ order' \in [Users -> Seq(Orgs)]
           /\ OrdersAgree'
    <1>1. /\ member' \in [Orgs -> [Users -> Roles \cup {NULL}]]
          /\ \A p \in Orgs, w \in Users :
                member'[p][w] = IF p = o /\ w = u THEN NULL ELSE member[p][w]
        BY DEF TypeOK, DeleteMember
    <1>2. /\ order[u] \in Seq(Orgs)
          /\ \A m, n \in 1..Len(order[u]) : order[u][m] = order[u][n] => m = n
          /\ \E n \in 1..Len(order[u]) : order[u][n] = o
        BY DEF TypeOK, OrdersAgree, DeleteMember
    <1> DEFINE s == order[u]
               t == Without(s, o)
    <1> HIDE DEF s
    <1>3. /\ s \in Seq(Orgs)
          /\ \A m, n \in 1..Len(s) : s[m] = s[n] => m = n
          /\ \E n \in 1..Len(s) : s[n] = o
        BY <1>2 DEF s
    <1>4. /\ t \in Seq(Orgs)
          /\ \A m, n \in 1..Len(t) : t[m] = t[n] => m = n
          /\ \A x \in Orgs : (\E n \in 1..Len(t) : t[n] = x) <=>
                                (x # o /\ \E n \in 1..Len(s) : s[n] = x)
        BY <1>3, WithoutOnce
    <1>5. /\ t \in Seq(Orgs)
          /\ \A m, n \in 1..Len(t) : t[m] = t[n] => m = n
          /\ \A x \in Orgs : (\E n \in 1..Len(t) : t[n] = x) <=>
                                (x # o /\ \E n \in 1..Len(order[u]) : order[u][n] = x)
        BY <1>4 DEF s
    <1>6. order' = [order EXCEPT ![u] = t]
        BY DEF DeleteMember, s
    <1> HIDE DEF t
    <1>7. order'[u] = t /\ \A w \in Users \ {u} : order'[w] = order[w]
        BY <1>6 DEF TypeOK
    <1>8. order' \in [Users -> Seq(Orgs)]
        BY <1>5, <1>6 DEF TypeOK
    <1>9. ASSUME NEW p \in Orgs, NEW w \in Users
          PROVE  member'[p][w] # NULL <=> \E n \in 1..Len(order'[w]) : order'[w][n] = p
        <2>1. CASE w = u
            <3>1. member'[p][w] # NULL <=> p # o /\ member[p][u] # NULL
                BY <1>1, <2>1
            <3>2. member[p][u] # NULL <=> \E n \in 1..Len(order[u]) : order[u][n] = p
                BY DEF TypeOK, OrdersAgree
            <3>3. (\E n \in 1..Len(t) : t[n] = p) <=>
                     (p # o /\ \E n \in 1..Len(order[u]) : order[u][n] = p)
                BY <1>5
            <3>4. QED
                BY <1>7, <2>1, <3>1, <3>2, <3>3
        <2>2. CASE w # u
            BY <1>1, <1>7, <2>2, SMTT(60) DEF TypeOK, OrdersAgree
        <2>3. QED
            BY <2>1, <2>2
    <1>10. ASSUME NEW w \in Users
          PROVE  \A m, n \in 1..Len(order'[w]) : order'[w][m] = order'[w][n] => m = n
        <2>1. \A m, n \in 1..Len(order[w]) : order[w][m] = order[w][n] => m = n
            BY DEF TypeOK, OrdersAgree
        <2>2. QED
            BY <1>5, <1>7, <2>1
    <1>11. QED
        BY <1>1, <1>8, <1>9, <1>10 DEF OrdersAgree

-----------------------------------------------------------------------------
(* The tables: what each operation that writes them preserves. *)

\* A step that writes no table.
LEMMA QuietTables ==
    ASSUME TablesInv, UNCHANGED <<tables, had, joined>>
    PROVE  TablesInv' /\ Grows
    <1>0. TypeOK'
        <2>1. OrdersAgree'
            BY DEF TablesInv, tables, TypeOK, OrdersAgree
        <2>2. QED
            BY <2>1 DEF TablesInv, tables, TypeOK
    <1>1. HistoryTypes' /\ AddressesKnown' /\ ParentsThere'
        BY DEF TablesInv, tables, HistoryTypes, AddressesKnown, ParentsThere
    <1>2. OwnersKept' /\ KeysNeverWiden'
        BY DEF TablesInv, tables, OwnersKept, OwnerIsMember, OwnerDemotedByInviteOnly, OneOwnedEach, LetIn,
               KeysNeverWiden
    <1>3. Grows
        BY DEF tables, Grows
    <1>4. QED
        BY <1>0, <1>1, <1>2, <1>3 DEF TablesInv

\* Sessions that end, or none.
LEMMA SessionsDropped ==
    ASSUME TablesInv, session' \in [Tokens -> SessionRows \cup {NULL}],
           \A t \in Tokens : session'[t] = NULL \/ session'[t] = session[t],
           UNCHANGED <<user, org, member, order, invite, key, had, joined>>
    PROVE  TablesInv' /\ Grows
    <1>1. TypeOK'
        BY DEF TablesInv, TypeOK, OrdersAgree
    <1>2. HistoryTypes' /\ AddressesKnown' /\ ParentsThere' /\ KeysNeverWiden' /\ Grows
        BY DEF TablesInv, HistoryTypes, AddressesKnown, ParentsThere, KeysNeverWiden, Grows
    <1>3. OwnersKept'
        BY DEF TablesInv, OwnersKept, OwnerIsMember, OwnerDemotedByInviteOnly, OneOwnedEach, LetIn
    <1>4. QED
        BY <1>1, <1>2, <1>3 DEF TablesInv

\* issue: a session of an account that carries an address the account has had.
LEMMA IssueTables ==
    ASSUME IInv, NEW c \in Clients, NEW t \in Tokens, Issue(c, t)
    PROVE  TablesInv' /\ Grows
    <1>1. /\ At(c, "issue") /\ req[c] \in Requests /\ Proper(req[c])
          /\ session' = [session EXCEPT ![t] = NewSession(req[c])]
          /\ \A d \in Clients : req[d].token # t
          /\ UNCHANGED <<user, org, member, order, invite, key, had, joined>>
        BY DEF Issue, IInv, RequestsInv
    <1>2. Known(req[c]) /\ req[c].role \in Roles \cup {""} /\ req[c].org \in Orgs \cup {NULL}
        BY <1>1 DEF At, Proper, Requests
    <1>3. NewSession(req[c]) \in SessionRows
        BY <1>2 DEF NewSession, SessionRows, Known
    <1>4. session' \in [Tokens -> SessionRows \cup {NULL}]
        BY <1>1, <1>3 DEF IInv, TablesInv, TypeOK
    <1>5. TypeOK'
        BY <1>1, <1>4 DEF IInv, TablesInv, TypeOK, OrdersAgree
    <1>6. AddressesKnown'
        <2>1. \A u \in Users : user[u] # NULL => user[u].email \in had[u]
            BY DEF IInv, TablesInv, AddressesKnown
        <2>2. \A w \in Tokens :
                 session'[w] = IF w = t THEN NewSession(req[c]) ELSE session[w]
            BY <1>1 DEF IInv, TablesInv, TypeOK
        <2>3. NewSession(req[c]).email \in had[NewSession(req[c]).user]
            BY <1>2 DEF NewSession, Known
        <2>4. QED
            BY <1>1, <2>1, <2>2, <2>3 DEF IInv, TablesInv, AddressesKnown
    <1>7. HistoryTypes' /\ ParentsThere' /\ KeysNeverWiden'
        BY <1>1 DEF IInv, TablesInv, HistoryTypes, ParentsThere, KeysNeverWiden
    <1>8. OwnersKept'
        BY <1>1 DEF IInv, TablesInv, OwnersKept, OwnerIsMember, OwnerDemotedByInviteOnly,
                    OneOwnedEach, LetIn
    <1>9. Grows
        BY <1>1 DEF Grows, IInv, TablesInv, TypeOK
    <1>10. QED
        BY <1>5, <1>6, <1>7, <1>8, <1>9 DEF TablesInv

\* A key table that is not written.
LEMMA KeysFrame ==
    ASSUME TablesInv, UNCHANGED key
    PROVE  /\ key' \in [Keys -> KeyRows \cup {NULL}]
           /\ ParentsThere' /\ KeysNeverWiden'
    BY DEF TablesInv, TypeOK, ParentsThere, KeysNeverWiden

\* Owners, when no organization, account, membership or invitation is written.
LEMMA OwnersFrame ==
    ASSUME TablesInv, UNCHANGED <<user, org, member, invite, joined>>
    PROVE  OwnersKept'
    BY DEF TablesInv, OwnersKept, OwnerIsMember, OwnerDemotedByInviteOnly, OneOwnedEach, LetIn

\* The order of joining, when no membership is written.
LEMMA OrdersFrame ==
    ASSUME TypeOK, UNCHANGED <<member, order>>
    PROVE  /\ member' \in [Orgs -> [Users -> Roles \cup {NULL}]]
           /\ order' \in [Users -> Seq(Orgs)]
           /\ OrdersAgree'
    BY DEF TypeOK, OrdersAgree

\* register: an account under an id and an address of its own.
LEMMA RegisterTables ==
    ASSUME IInv, NEW c \in Clients, NEW u \in Users, NEW e \in Emails, Register(c, u, e)
    PROVE  TablesInv' /\ Grows
    <1>1. /\ had[u] = {} /\ user' = [user EXCEPT ![u] = NewUser(e)]
          /\ had' = [had EXCEPT ![u] = {e}]
          /\ UNCHANGED <<org, member, order, invite, session, key, joined>>
        BY DEF Register, CreateUser, InsertUser
    <1>2. NewUser(e) \in UserRows /\ NewUser(e).email = e /\ NewUser(e) # NULL
        <2>1. NewUser(e) \in UserRows /\ NewUser(e).email = e
            BY DEF NewUser, UserRows
        <2>2. QED
            BY <2>1, RowAssumption
    <1>3. TypeOK'
        BY <1>1, <1>2, OrdersFrame DEF IInv, TablesInv, TypeOK
    <1>4. HistoryTypes' /\ \A w \in Users : had[w] \subseteq had'[w]
        BY <1>1 DEF IInv, TablesInv, HistoryTypes
    <1>5. AddressesKnown'
        BY <1>1, <1>2, <1>4 DEF IInv, TablesInv, TypeOK, HistoryTypes, AddressesKnown, SessionRows
    <1>6. OwnersKept'
        BY <1>1, <1>2 DEF IInv, TablesInv, TypeOK, OwnersKept, OwnerIsMember,
                          OwnerDemotedByInviteOnly, OneOwnedEach, LetIn
    <1>7. Grows
        BY <1>1, <1>4 DEF Grows
    <1>8. QED
        BY <1>1, <1>3, <1>4, <1>5, <1>6, <1>7, KeysFrame DEF IInv, TablesInv

\* updateUser writes a whole row, and the address it gives is one the account has had.
LEMMA UpdateUserTables ==
    ASSUME IInv, NEW c \in Clients, UpdateUserRow(c)
    PROVE  TablesInv' /\ Grows
    <1> DEFINE u == req[c].target
               row == req[c].record
    <1>1. u \in Users /\ row \in UserRows
        BY DEF UpdateUserRow, At, IInv, RequestsInv, Proper
    <1>2. UNCHANGED <<org, member, order, invite, session, key, joined>>
        BY DEF UpdateUserRow
    <1>3. CASE UNCHANGED <<user, had>>
        BY <1>2, <1>3, QuietTables DEF tables, IInv
    <1>4. CASE user' = [user EXCEPT ![u] = row] /\ had' = [had EXCEPT ![u] = @ \cup {row.email}]
        <2>1. row # NULL /\ row.email \in Emails
            BY <1>1, RowAssumption DEF UserRows
        <2> HIDE DEF u, row
        <2>2. TypeOK'
            BY <1>1, <1>2, <1>4, OrdersFrame DEF IInv, TablesInv, TypeOK
        <2>3. HistoryTypes' /\ \A w \in Users : had[w] \subseteq had'[w]
            BY <1>1, <1>2, <1>4, <2>1 DEF IInv, TablesInv, HistoryTypes
        <2>4. AddressesKnown'
            BY <1>1, <1>2, <1>4, <2>1, <2>3
            DEF IInv, TablesInv, TypeOK, HistoryTypes, AddressesKnown, SessionRows
        <2>5. OwnersKept'
            BY <1>1, <1>2, <1>4, <2>1 DEF IInv, TablesInv, TypeOK, OwnersKept, OwnerIsMember,
                                          OwnerDemotedByInviteOnly, OneOwnedEach, LetIn
        <2>6. Grows
            BY <1>2, <2>3 DEF Grows
        <2>7. QED
            BY <1>2, <2>2, <2>3, <2>4, <2>5, <2>6, KeysFrame DEF IInv, TablesInv
    <1>5. QED
        BY <1>3, <1>4 DEF UpdateUserRow

\* deleteUser: never an owner, and the memberships go with the row.
LEMMA DeleteUserTables ==
    ASSUME IInv, NEW c \in Clients, NEW u \in Users, DeleteUser(c, u)
    PROVE  TablesInv' /\ Grows
    <1>1. /\ \A o \in Orgs : org[o] # u
          /\ user' = [user EXCEPT ![u] = NULL]
          /\ member' = [o \in Orgs |-> [member[o] EXCEPT ![u] = NULL]]
          /\ order' = [order EXCEPT ![u] = << >>]
          /\ UNCHANGED <<org, invite, session, key, had, joined>>
        BY DEF DeleteUser, DeleteUserRow, OwnsOne
    <1>2. /\ member' \in [Orgs -> [Users -> Roles \cup {NULL}]]
          /\ \A o \in Orgs, w \in Users :
                member'[o][w] = IF w = u THEN NULL ELSE member[o][w]
        BY <1>1 DEF IInv, TablesInv, TypeOK
    <1>3. /\ order' \in [Users -> Seq(Orgs)] /\ order'[u] = << >>
          /\ \A w \in Users \ {u} : order'[w] = order[w]
        BY <1>1 DEF IInv, TablesInv, TypeOK
    <1>4. OrdersAgree'
        <2>1. ASSUME NEW o \in Orgs, NEW w \in Users
              PROVE  member'[o][w] # NULL <=> \E n \in 1..Len(order'[w]) : order'[w][n] = o
            <3>1. CASE w = u
                BY <1>2, <1>3, <3>1
            <3>2. CASE w # u
                BY <1>2, <1>3, <3>2 DEF IInv, TablesInv, TypeOK, OrdersAgree
            <3>3. QED
                BY <3>1, <3>2
        <2>2. ASSUME NEW w \in Users
              PROVE  \A m, n \in 1..Len(order'[w]) : order'[w][m] = order'[w][n] => m = n
            <3>1. \A m, n \in 1..Len(order[w]) : order[w][m] = order[w][n] => m = n
                BY DEF IInv, TablesInv, TypeOK, OrdersAgree
            <3>2. QED
                BY <1>3, <3>1
        <2>3. QED
            BY <2>1, <2>2 DEF OrdersAgree
    <1>5. TypeOK'
        BY <1>1, <1>2, <1>3, <1>4 DEF IInv, TablesInv, TypeOK
    <1>6. HistoryTypes' /\ AddressesKnown'
        BY <1>1 DEF IInv, TablesInv, TypeOK, HistoryTypes, AddressesKnown
    <1>7. OwnersKept'
        BY <1>1, <1>2 DEF IInv, TablesInv, TypeOK, OwnersKept, OwnerIsMember,
                          OwnerDemotedByInviteOnly, OneOwnedEach, LetIn
    <1>8. Grows
        BY <1>1 DEF Grows
    <1>9. QED
        BY <1>1, <1>5, <1>6, <1>7, <1>8, KeysFrame DEF IInv, TablesInv

\* createAPIKey: a key made with a key reaches no further than that key.
LEMMA CreateKeyTables ==
    ASSUME IInv, NEW c \in Clients, NEW k \in Keys, NEW s \in KeyScopes, CreateAPIKey(c, k, s)
    PROVE  TablesInv' /\ Grows
    <1> DEFINE row == NewKey(c, s)
    <1>1. /\ At(c, "acting") /\ HasScope(req[c], "api_keys:write")
          /\ \A scope \in s : HasScope(req[c], scope)
          /\ key[k] = NULL /\ key' = [key EXCEPT ![k] = row]
          /\ UNCHANGED <<user, org, member, order, invite, session, had, joined>>
        BY DEF CreateAPIKey, CreateKey, InsertKey, May
    <1>2. req[c] \in Requests /\ Proper(req[c])
        BY DEF IInv, RequestsInv
    <1>3. req[c].org \in Orgs
        BY <1>1, <1>2 DEF At, HasScope, Proper
    <1>4. req[c].kind = "key" => /\ req[c].target \in Keys /\ key[req[c].target] # NULL
                                 /\ req[c].scopes = key[req[c].target].scopes
        BY <1>1, <1>2 DEF At, Proper
    <1>5. s \subseteq ScopeNames
        BY TenancyAssumption
    <1>6. row \in KeyRows /\ row # NULL /\ row.scopes = s
        <2>1. row \in KeyRows /\ row.scopes = s
            BY <1>3, <1>4, <1>5 DEF NewKey, KeyRows
        <2>2. QED
            BY <2>1, RowAssumption
    <1>7. row.by # NULL => /\ row.by \in Keys /\ key[row.by] # NULL
                           /\ "*" \in key[row.by].scopes \/ s \subseteq key[row.by].scopes
        BY <1>1, <1>4 DEF NewKey, HasScope
    <1> HIDE DEF row
    <1>8. \A j \in Keys : key'[j] = IF j = k THEN row ELSE key[j]
        BY <1>1 DEF IInv, TablesInv, TypeOK
    <1>9. TypeOK'
        BY <1>1, <1>6, OrdersFrame DEF IInv, TablesInv, TypeOK
    <1>10. \A j \in Keys : key[j] # NULL => key[j].by \in Keys \cup {NULL}
        BY DEF IInv, TablesInv, TypeOK, KeyRows
    <1>11. ParentsThere'
        BY <1>1, <1>6, <1>7, <1>8, <1>10 DEF IInv, TablesInv, ParentsThere
    <1>12. KeysNeverWiden'
        BY <1>1, <1>6, <1>7, <1>8, <1>10 DEF IInv, TablesInv, ParentsThere, KeysNeverWiden
    <1>13. HistoryTypes' /\ AddressesKnown'
        BY <1>1 DEF IInv, TablesInv, HistoryTypes, AddressesKnown
    <1>14. Grows
        BY <1>1, <1>8 DEF Grows
    <1>15. QED
        BY <1>1, <1>9, <1>11, <1>12, <1>13, <1>14, OwnersFrame DEF IInv, TablesInv

\* A key that is revoked keeps its scopes and its parent.
LEMMA RevokeKeyTables ==
    ASSUME IInv, NEW c \in Clients, NEW k \in Keys, RevokeAPIKey(c, k)
    PROVE  TablesInv' /\ Grows
    <1>1. /\ key[k] # NULL /\ key' = [key EXCEPT ![k].revoked = TRUE]
          /\ UNCHANGED <<user, org, member, order, invite, session, had, joined>>
        BY DEF RevokeAPIKey, RevokeKey
    <1>2. key[k] \in KeyRows
        BY <1>1 DEF IInv, TablesInv, TypeOK
    <1> DEFINE row == [key[k] EXCEPT !.revoked = TRUE]
    <1>3. row \in KeyRows /\ row # NULL /\ row.scopes = key[k].scopes /\ row.by = key[k].by
        BY <1>2, RowAssumption DEF KeyRows
    <1>4. \A j \in Keys : key'[j] = IF j = k THEN row ELSE key[j]
        BY <1>1 DEF IInv, TablesInv, TypeOK
    <1>5. key' \in [Keys -> KeyRows \cup {NULL}]
        BY <1>1, <1>3 DEF IInv, TablesInv, TypeOK
    <1> HIDE DEF row
    <1>6. TypeOK'
        BY <1>1, <1>5, OrdersFrame DEF IInv, TablesInv, TypeOK
    <1>7. \A j \in Keys : key[j] # NULL => key[j].by \in Keys \cup {NULL}
        BY DEF IInv, TablesInv, TypeOK, KeyRows
    <1>8. ParentsThere' /\ KeysNeverWiden'
        <2>1. /\ \A j \in Keys : key'[j] # NULL <=> key[j] # NULL
              /\ \A j \in Keys : key[j] # NULL =>
                    key'[j].by = key[j].by /\ key'[j].scopes = key[j].scopes
            BY <1>1, <1>3, <1>4
        <2>2. ParentsThere /\ KeysNeverWiden
            BY DEF IInv, TablesInv
        <2>3. ParentsThere'
            BY <1>7, <2>1, <2>2 DEF ParentsThere
        <2>4. KeysNeverWiden'
            BY <1>7, <2>1, <2>2 DEF ParentsThere, KeysNeverWiden
        <2>5. QED
            BY <2>3, <2>4
    <1>9. HistoryTypes' /\ AddressesKnown'
        BY <1>1 DEF IInv, TablesInv, HistoryTypes, AddressesKnown
    <1>10. Grows
        BY <1>1, <1>3, <1>4 DEF Grows
    <1>11. QED
        BY <1>1, <1>6, <1>8, <1>9, <1>10, OwnersFrame DEF IInv, TablesInv

\* An invitation that let somebody in is there, and neither the organization nor the
\* role it names ever changes.
LEMMA WitnessKept ==
    ASSUME TablesInv, NEW i \in Invites, NEW u \in Users, LetIn(i, u),
           invite[i] # NULL => invite'[i].org = invite[i].org /\ invite'[i].role = invite[i].role,
           \/ joined'[i] = joined[i]
           \/ \E w \in Users : joined'[i] = Append(joined[i], w)
    PROVE  LetIn(i, u)' /\ invite'[i].org = invite[i].org /\ invite'[i].role = invite[i].role
    <1>1. PICK n \in 1..Len(joined[i]) : joined[i][n] = u
        BY DEF LetIn
    <1>2. joined[i] \in Seq(Users)
        BY DEF TablesInv, HistoryTypes
    <1>3. invite[i] # NULL
        BY <1>1, <1>2 DEF TablesInv, AddressesKnown
    <1>4. n \in 1..Len(joined'[i]) /\ joined'[i][n] = u
        BY <1>1, <1>2
    <1>5. QED
        BY <1>3, <1>4 DEF LetIn

\* The invitations of a step that changes them but lets nobody in.
LEMMA InvitesWritten ==
    ASSUME TablesInv, invite' \in [Invites -> InviteRows \cup {NULL}],
           \A i \in Invites : invite[i] # NULL =>
              /\ invite'[i] # NULL /\ invite'[i].email = invite[i].email
              /\ invite'[i].org = invite[i].org /\ invite'[i].role = invite[i].role,
           UNCHANGED <<user, org, member, order, session, key, had, joined>>
    PROVE  TablesInv' /\ Grows
    <1>1. TypeOK'
        BY OrdersFrame DEF TablesInv, TypeOK
    <1>2. HistoryTypes' /\ AddressesKnown' /\ Grows
        BY DEF TablesInv, HistoryTypes, AddressesKnown, Grows
    <1>3. OwnerIsMember' /\ OneOwnedEach'
        BY DEF TablesInv, OwnersKept, OwnerIsMember, OneOwnedEach
    <1>4. OwnerDemotedByInviteOnly'
        <2> SUFFICES ASSUME NEW o \in Orgs, org[o] # NULL, member[o][org[o]] # "admin"
                     PROVE  \E i \in Invites : /\ LetIn(i, org[o])' /\ invite'[i].org = o
                                              /\ invite'[i].role = member[o][org[o]]
            BY DEF OwnerDemotedByInviteOnly, LetIn
        <2>1. PICK i \in Invites : /\ LetIn(i, org[o]) /\ invite[i].org = o
                                   /\ invite[i].role = member[o][org[o]]
            BY DEF TablesInv, OwnersKept, OwnerDemotedByInviteOnly
        <2>2. org[o] \in Users
            BY DEF TablesInv, TypeOK
        <2>3. PICK u \in Users : u = org[o]
            BY <2>2
        <2>4. LetIn(i, u)' /\ invite'[i].org = invite[i].org /\ invite'[i].role = invite[i].role
            BY <2>1, <2>3, WitnessKept
        <2>5. LetIn(i, org[o])'
            BY <2>3, <2>4 DEF LetIn
        <2>6. QED
            BY <2>1, <2>4, <2>5
    <1>5. QED
        BY <1>1, <1>2, <1>3, <1>4, KeysFrame DEF TablesInv, OwnersKept

\* What one invitation becomes.
LEMMA InviteWritten ==
    ASSUME TablesInv, NEW i \in Invites, NEW row \in InviteRows,
           invite[i] # NULL => /\ row.email = invite[i].email /\ row.org = invite[i].org
                               /\ row.role = invite[i].role,
           invite' = [invite EXCEPT ![i] = row],
           UNCHANGED <<user, org, member, order, session, key, had, joined>>
    PROVE  TablesInv' /\ Grows
    <1>1. row # NULL
        BY RowAssumption
    <1>2. \A j \in Invites : invite'[j] = IF j = i THEN row ELSE invite[j]
        BY DEF TablesInv, TypeOK
    <1>3. invite' \in [Invites -> InviteRows \cup {NULL}]
        BY DEF TablesInv, TypeOK
    <1>4. QED
        BY <1>1, <1>2, <1>3, InvitesWritten

\* createInvite, to the organization the caller acts in.
LEMMA CreateInviteTables ==
    ASSUME IInv, NEW c \in Clients, NEW i \in Invites, NEW e \in Emails, NEW role \in Offered,
           CreateInvite(c, i, e, role)
    PROVE  TablesInv' /\ Grows
    <1>1. /\ At(c, "acting") /\ HasScope(req[c], "users:write") /\ invite[i] = NULL
          /\ invite' = [invite EXCEPT ![i] = NewInvite(req[c].org, e, role)]
          /\ UNCHANGED <<user, org, member, order, session, key, had, joined>>
        BY DEF CreateInvite, Invite, InsertInvite, May
    <1>2. req[c].org \in Orgs
        BY <1>1 DEF At, HasScope, IInv, RequestsInv, Proper
    <1>3. NewInvite(req[c].org, e, role) \in InviteRows
        BY <1>2, TenancyAssumption DEF NewInvite, InviteRows
    <1>4. QED
        BY <1>1, <1>3, InviteWritten DEF IInv

\* A revoked invitation stays the invitation it was.
LEMMA RevokeInviteTables ==
    ASSUME IInv, NEW c \in Clients, NEW i \in Invites, RevokeInvite(c, i)
    PROVE  TablesInv' /\ Grows
    <1> DEFINE row == [invite[i] EXCEPT !.at = "revoked"]
    <1>1. /\ invite[i] # NULL /\ invite' = [invite EXCEPT ![i] = row]
          /\ UNCHANGED <<user, org, member, order, session, key, had, joined>>
        BY DEF RevokeInvite, Revoke
    <1>2. invite[i] \in InviteRows
        BY <1>1 DEF IInv, TablesInv, TypeOK
    <1>3. /\ row \in InviteRows /\ row.email = invite[i].email
          /\ row.org = invite[i].org /\ row.role = invite[i].role
        BY <1>2 DEF InviteRows
    <1> HIDE DEF row
    <1>4. QED
        BY <1>1, <1>3, InviteWritten DEF IInv

\* So does an expired one.
LEMMA ExpireInviteTables ==
    ASSUME IInv, NEW i \in Invites, ExpireInvite(i)
    PROVE  TablesInv' /\ Grows
    <1> DEFINE row == [invite[i] EXCEPT !.stale = TRUE]
    <1>1. /\ invite[i] # NULL /\ invite' = [invite EXCEPT ![i] = row]
          /\ UNCHANGED <<user, org, member, order, session, key, had, joined>>
        BY DEF ExpireInvite
    <1>2. invite[i] \in InviteRows
        BY <1>1 DEF IInv, TablesInv, TypeOK
    <1>3. /\ row \in InviteRows /\ row.email = invite[i].email
          /\ row.org = invite[i].org /\ row.role = invite[i].role
        BY <1>2 DEF InviteRows
    <1> HIDE DEF row
    <1>4. QED
        BY <1>1, <1>3, InviteWritten DEF IInv

\* Memberships of everybody but an owner may change as they like.
LEMMA MembersWritten ==
    ASSUME TablesInv, NEW o \in Orgs, NEW u \in Users, org[o] # u,
           /\ member' \in [Orgs -> [Users -> Roles \cup {NULL}]]
           /\ order' \in [Users -> Seq(Orgs)]
           /\ OrdersAgree',
           \A p \in Orgs, w \in Users : ~(p = o /\ w = u) => member'[p][w] = member[p][w],
           UNCHANGED <<user, org, invite, session, key, had, joined>>
    PROVE  TablesInv' /\ Grows
    <1>1. TypeOK'
        BY DEF TablesInv, TypeOK
    <1>2. HistoryTypes' /\ AddressesKnown' /\ Grows
        BY DEF TablesInv, HistoryTypes, AddressesKnown, Grows
    <1>3. \A p \in Orgs : org[p] # NULL => member'[p][org[p]] = member[p][org[p]]
        BY DEF TablesInv, TypeOK
    <1>4. OwnersKept'
        <2>1. OwnerIsMember' /\ OneOwnedEach'
            BY <1>3 DEF TablesInv, OwnersKept, OwnerIsMember, OneOwnedEach
        <2>2. OwnerDemotedByInviteOnly'
            BY <1>3, SMTT(60) DEF TablesInv, OwnersKept, OwnerDemotedByInviteOnly, LetIn
        <2>3. QED
            BY <2>1, <2>2 DEF OwnersKept
    <1>5. QED
        BY <1>1, <1>2, <1>4, KeysFrame DEF TablesInv

\* updateMember: not the owner.
LEMMA UpdateMemberTables ==
    ASSUME IInv, NEW c \in Clients, NEW u \in Users, NEW role \in Offered,
           UpdateMember(c, u, role)
    PROVE  TablesInv' /\ Grows
    <1> DEFINE o == req[c].org
    <1>1. /\ At(c, "acting") /\ HasScope(req[c], "users:write")
          /\ org[o] # u /\ member[o][u] # NULL
          /\ member' = Enrolled(o, u, role) /\ order' = order
          /\ UNCHANGED <<user, org, invite, session, key, had, joined>>
        BY DEF UpdateMember, AssignRole, SetMemberRole, isOwner, Enrolled, May
    <1>2. o \in Orgs
        BY <1>1 DEF At, HasScope, IInv, RequestsInv, Proper
    <1>3. order' = Ordered(o, u)
        BY <1>1 DEF Ordered
    <1>4. role \in Roles
        BY TenancyAssumption
    <1> HIDE DEF o
    <1>5. /\ member' \in [Orgs -> [Users -> Roles \cup {NULL}]]
          /\ order' \in [Users -> Seq(Orgs)]
          /\ OrdersAgree'
        BY <1>1, <1>2, <1>3, <1>4, EnrolledAgrees DEF IInv, TablesInv
    <1>6. \A p \in Orgs, w \in Users : ~(p = o /\ w = u) => member'[p][w] = member[p][w]
        BY <1>1, <1>2 DEF Enrolled, IInv, TablesInv, TypeOK
    <1>7. QED
        BY <1>1, <1>2, <1>5, <1>6, MembersWritten DEF IInv

\* removeMember: not the owner.
LEMMA ExpelMemberTables ==
    ASSUME IInv, NEW c \in Clients, NEW u \in Users, ExpelMember(c, u)
    PROVE  TablesInv' /\ Grows
    <1> DEFINE o == req[c].org
    <1>1. /\ At(c, "acting") /\ HasScope(req[c], "users:write")
          /\ org[o] # u /\ DeleteMember(o, u)
          /\ UNCHANGED <<user, org, invite, session, key, had, joined>>
        BY DEF ExpelMember, RemoveMember, isOwner, May
    <1>2. o \in Orgs
        BY <1>1 DEF At, HasScope, IInv, RequestsInv, Proper
    <1> HIDE DEF o
    <1>3. /\ member' \in [Orgs -> [Users -> Roles \cup {NULL}]]
          /\ order' \in [Users -> Seq(Orgs)]
          /\ OrdersAgree'
        BY <1>1, <1>2, DeletedAgrees DEF IInv, TablesInv
    <1>4. \A p \in Orgs, w \in Users : ~(p = o /\ w = u) => member'[p][w] = member[p][w]
        BY <1>1, <1>2 DEF DeleteMember, IInv, TablesInv, TypeOK
    <1>5. QED
        BY <1>1, <1>2, <1>3, <1>4, MembersWritten DEF IInv

\* Create: the new organization is the only one of its owner, who administers it.
LEMMA InsertOrganizationTables ==
    ASSUME IInv, NEW c \in Clients, NEW o \in Orgs, InsertOrganization(c, o)
    PROVE  TablesInv' /\ Grows
    <1> DEFINE u == req[c].user
    <1>1. UNCHANGED <<user, invite, session, key, had, joined>> /\ org[o] = NULL /\ u \in Users
        BY DEF InsertOrganization, At, IInv, RequestsInv, Proper, Known
    <1>2. CASE UNCHANGED <<org, member, order>>
        BY <1>1, <1>2, QuietTables DEF tables, IInv
    <1>3. CASE /\ Ownable(u) /\ org' = [org EXCEPT ![o] = u]
               /\ member' = Enrolled(o, u, "admin") /\ order' = Ordered(o, u)
        <2> HIDE DEF u
        <2>1. "admin" \in Roles /\ "admin" # NULL /\ u # NULL
            BY <1>1, TenancyAssumption DEF Roles
        <2>2. /\ member' \in [Orgs -> [Users -> Roles \cup {NULL}]]
              /\ order' \in [Users -> Seq(Orgs)]
              /\ OrdersAgree'
            BY <1>1, <1>3, <2>1, EnrolledAgrees DEF IInv, TablesInv
        <2>3. /\ \A p \in Orgs : org'[p] = IF p = o THEN u ELSE org[p]
              /\ \A p \in Orgs, w \in Users :
                    member'[p][w] = IF p = o /\ w = u THEN "admin" ELSE member[p][w]
            BY <1>1, <1>3 DEF Enrolled, IInv, TablesInv, TypeOK
        <2>4. TypeOK'
            BY <1>1, <1>3, <2>2 DEF IInv, TablesInv, TypeOK
        <2>5. HistoryTypes' /\ AddressesKnown' /\ Grows
            BY <1>1 DEF IInv, TablesInv, HistoryTypes, AddressesKnown, Grows
        <2>6. user[u] # NULL /\ \A p \in Orgs : org[p] # u
            BY <1>3 DEF Ownable, OwnsOne
        <2>7. OwnerIsMember' /\ OneOwnedEach'
            <3>1. OwnerIsMember /\ OneOwnedEach
                BY DEF IInv, TablesInv, OwnersKept
            <3>2. \A p \in Orgs : org[p] \in Users \cup {NULL}
                BY DEF IInv, TablesInv, TypeOK
            <3>3. ASSUME NEW p \in Orgs, org'[p] # NULL
                  PROVE  user'[org'[p]] # NULL /\ member'[p][org'[p]] # NULL
                BY <1>1, <2>1, <2>3, <2>6, <3>1, <3>2, <3>3 DEF OwnerIsMember
            <3>4. OneOwnedEach'
                BY <1>1, <2>3, <2>6, <3>1 DEF OneOwnedEach
            <3>5. QED
                BY <3>3, <3>4 DEF OwnerIsMember
        <2>8. OwnerDemotedByInviteOnly'
            <3> SUFFICES ASSUME NEW p \in Orgs, org'[p] # NULL, member'[p][org'[p]] # "admin"
                         PROVE  \E i \in Invites : /\ LetIn(i, org[p])' /\ invite'[i].org = p
                                                  /\ invite'[i].role = member'[p][org'[p]]
                BY DEF OwnerDemotedByInviteOnly, LetIn
            <3>1. p # o /\ org'[p] = org[p] /\ member'[p][org'[p]] = member[p][org[p]]
                BY <1>1, <2>3 DEF IInv, TablesInv, TypeOK
            <3>2. QED
                BY <1>1, <3>1 DEF IInv, TablesInv, OwnersKept, OwnerDemotedByInviteOnly, LetIn
        <2>9. QED
            BY <1>1, <2>4, <2>5, <2>7, <2>8, KeysFrame DEF IInv, TablesInv, OwnersKept
    <1>4. QED
        BY <1>2, <1>3 DEF InsertOrganization

\* Redeem: whoever it demotes it has let in.
LEMMA RedeemTables ==
    ASSUME IInv, NEW c \in Clients, Redeem(c)
    PROVE  TablesInv' /\ Grows
    <1> DEFINE i == req[c].target
               u == req[c].user
               o == invite[i].org
               role == invite[i].role
               row == [invite[i] EXCEPT !.at = "accepted"]
    <1>1. /\ UNCHANGED <<user, org, session, key, had>>
          /\ i \in Invites /\ invite[i] # NULL /\ u \in Users
        BY DEF Redeem, At, IInv, RequestsInv, Proper, Known
    <1>2. CASE UNCHANGED <<invite, member, order, joined>>
        BY <1>1, <1>2, QuietTables DEF tables, IInv
    <1>3. CASE /\ user[u] # NULL /\ invite' = [invite EXCEPT ![i] = row]
               /\ member' = Enrolled(o, u, role) /\ order' = Ordered(o, u)
               /\ joined' = [joined EXCEPT ![i] = Append(joined[i], u)]
        <2>1. invite[i] \in InviteRows
            BY <1>1 DEF IInv, TablesInv, TypeOK
        <2>2. /\ row \in InviteRows /\ row.email = invite[i].email
              /\ row.org = o /\ row.role = role /\ o \in Orgs /\ role \in Roles
            BY <2>1 DEF InviteRows
        <2>3. row # NULL
            BY <2>2, RowAssumption
        <2>4. joined[i] \in Seq(Users)
            BY <1>1 DEF IInv, TablesInv, HistoryTypes
        <2> HIDE DEF i, u, o, role, row
        <2>5. /\ member' \in [Orgs -> [Users -> Roles \cup {NULL}]]
              /\ order' \in [Users -> Seq(Orgs)]
              /\ OrdersAgree'
            BY <1>1, <1>3, <2>2, EnrolledAgrees DEF IInv, TablesInv
        <2>6. /\ \A p \in Orgs, w \in Users :
                    member'[p][w] = IF p = o /\ w = u THEN role ELSE member[p][w]
              /\ \A j \in Invites : invite'[j] = IF j = i THEN row ELSE invite[j]
              /\ \A j \in Invites :
                    joined'[j] = IF j = i THEN Append(joined[i], u) ELSE joined[j]
              /\ joined' \in [Invites -> Seq(Users)]
            BY <1>1, <1>3, <2>2, <2>4 DEF Enrolled, IInv, TablesInv, TypeOK, HistoryTypes
        <2>7. TypeOK'
            BY <1>1, <1>3, <2>2, <2>5 DEF IInv, TablesInv, TypeOK
        <2>8. HistoryTypes' /\ AddressesKnown' /\ Grows
            BY <1>1, <2>2, <2>3, <2>6 DEF IInv, TablesInv, HistoryTypes, AddressesKnown, Grows
        <2>9. OwnerIsMember' /\ OneOwnedEach'
            <3>1. \A p \in Orgs, w \in Users : member[p][w] # NULL => member'[p][w] # NULL
                <4>1. role # NULL
                    BY <2>2, RolesThere
                <4>2. QED
                    BY <2>6, <4>1
            <3>2. \A p \in Orgs : org[p] \in Users \cup {NULL}
                BY DEF IInv, TablesInv, TypeOK
            <3>3. OwnerIsMember'
                BY <1>1, <3>1, <3>2 DEF IInv, TablesInv, OwnersKept, OwnerIsMember
            <3>4. OneOwnedEach'
                BY <1>1 DEF IInv, TablesInv, OwnersKept, OneOwnedEach
            <3>5. QED
                BY <3>3, <3>4
        <2>10. OwnerDemotedByInviteOnly'
            <3> SUFFICES ASSUME NEW p \in Orgs, org[p] # NULL, member'[p][org[p]] # "admin"
                         PROVE  \E j \in Invites : /\ LetIn(j, org[p])' /\ invite'[j].org = p
                                                  /\ invite'[j].role = member'[p][org[p]]
                BY <1>1 DEF OwnerDemotedByInviteOnly, LetIn
            <3>1. PICK w \in Users : w = org[p]
                BY DEF IInv, TablesInv, TypeOK
            <3>2. CASE p = o /\ w = u
                <4>1. PICK j \in Invites : j = i
                    BY <1>1
                <4>2. Len(joined'[j]) \in 1..Len(joined'[j]) /\ joined'[j][Len(joined'[j])] = u
                    BY <1>1, <2>4, <2>6, <4>1
                <4>3. LetIn(j, org[p])'
                    BY <1>1, <3>1, <3>2, <4>2 DEF LetIn
                <4>4. invite'[j].org = p /\ invite'[j].role = member'[p][org[p]]
                    BY <1>1, <2>2, <2>6, <3>1, <3>2, <4>1
                <4>5. QED
                    BY <4>3, <4>4
            <3>3. CASE ~(p = o /\ w = u)
                <4>1. member'[p][w] = member[p][w]
                    BY <2>6, <3>3
                <4>2. PICK j \in Invites : /\ LetIn(j, w) /\ invite[j].org = p
                                           /\ invite[j].role = member[p][w]
                    BY <3>1, <4>1 DEF IInv, TablesInv, OwnersKept, OwnerDemotedByInviteOnly
                <4>3. /\ \/ joined'[j] = joined[j]
                         \/ \E x \in Users : joined'[j] = Append(joined[j], x)
                      /\ invite'[j].org = invite[j].org /\ invite'[j].role = invite[j].role
                    BY <1>1, <2>2, <2>6 DEF o, role
                <4>4. LetIn(j, w)'
                    BY <4>2, <4>3, WitnessKept DEF IInv
                <4>5. LetIn(j, org[p])'
                    BY <1>1, <3>1, <4>4 DEF LetIn
                <4>6. QED
                    BY <3>1, <4>1, <4>2, <4>3, <4>5
            <3>4. QED
                BY <3>2, <3>3
        <2>11. QED
            BY <1>1, <2>7, <2>8, <2>9, <2>10, KeysFrame DEF IInv, TablesInv, OwnersKept
    <1>4. QED
        BY <1>1, <1>2, <1>3 DEF Redeem, Unspent

-----------------------------------------------------------------------------
(* Requests: what a request holds after each of its steps. *)

ActingPlaces == {"acting", "own", "redeem", "update"}

\* A step of one request leaves it with what its new place requires, and acting, if
\* at all, with the scopes it acted with or those of the role its account has now.
Steps(c) ==
    /\ req' \in [Clients -> Requests]
    /\ \A d \in Clients \ {c} : req'[d] = req[d]
    /\ left' \in [requests : Nat, events : Nat]
    /\ Proper(req[c])'
    /\ \/ req'[c].kind # "session" \/ req'[c].at \notin ActingPlaces
       \/ /\ req[c].at \in ActingPlaces
          /\ req'[c].kind = req[c].kind /\ req'[c].scopes = req[c].scopes
       \/ Now(c)' # NULL /\ req'[c].scopes = Scopes(Now(c)')

\* A request that does not move keeps what its place requires, whatever others write.
LEMMA OthersProper ==
    ASSUME IInv, Grows, NEW d \in Clients, req'[d] = req[d]
    PROVE  Proper(req[d])'
    <1>1. Proper(req[d]) /\ req[d] \in Requests
        BY DEF IInv, RequestsInv
    <1>2. Known(req[d]) => Known(req[d])'
        BY DEF Known, Grows
    <1>3. req[d].at = "session" /\ session'[req[d].token] # NULL =>
             session'[req[d].token].user = req[d].user /\ session'[req[d].token].org = req[d].org
        BY <1>1 DEF Proper, Grows
    <1>4. req[d].at = "acting" /\ req[d].kind = "key" =>
             /\ key'[req[d].target] # NULL
             /\ req[d].scopes = key'[req[d].target].scopes
        BY <1>1 DEF Proper, Grows
    <1>5. req[d].at = "redeem" =>
             /\ invite'[req[d].target] # NULL
             /\ invite'[req[d].target].email = req[d].email
        BY <1>1 DEF Proper, Grows
    <1>6. QED
        BY <1>1, <1>2, <1>3, <1>4, <1>5, ZenonT(120) DEF Proper, Known

\* A request that acts does so with a role its account has held, and still does when
\* the others have moved.
LEMMA HeldStep ==
    ASSUME ActsWithHeldRole, Remember, NEW d \in Clients,
           \/ req'[d] = req[d]
           \/ req'[d].kind # "session" \/ req'[d].at \notin ActingPlaces
           \/ /\ req[d].at \in ActingPlaces
              /\ req'[d].kind = req[d].kind /\ req'[d].scopes = req[d].scopes
           \/ Now(d)' # NULL /\ req'[d].scopes = Scopes(Now(d)')
    PROVE  req'[d].kind = "session" /\ req'[d].at \in ActingPlaces =>
              \E role \in held'[d] \ {NULL} : req'[d].scopes = Scopes(role)
    <1> SUFFICES ASSUME req'[d].kind = "session", req'[d].at \in ActingPlaces
                 PROVE  \E role \in held'[d] \ {NULL} : req'[d].scopes = Scopes(role)
        OBVIOUS
    <1> DEFINE now == Now(d)'
    <1>1. held'[d] = held[d] \cup {now}
        BY DEF Remember
    <1> HIDE DEF now
    <1>2. CASE req[d].at \in ActingPlaces /\ req[d].kind = "session"
               /\ req'[d].scopes = req[d].scopes
        BY <1>1, <1>2 DEF ActsWithHeldRole, ActingPlaces
    <1>3. CASE now # NULL /\ req'[d].scopes = Scopes(now)
        BY <1>1, <1>3
    <1>4. QED
        BY <1>2, <1>3 DEF now

\* A step of one request keeps the invariant of the requests.
LEMMA StepsKeep ==
    ASSUME IInv, Grows, Remember, NEW c \in Clients, Steps(c)
    PROVE  RequestsInv'
    <1>1. \A d \in Clients : Proper(req[d])'
        BY OthersProper DEF Steps
    <1>2. ASSUME NEW d \in Clients
          PROVE  req'[d].kind = "session" /\ req'[d].at \in ActingPlaces =>
                    \E role \in held'[d] \ {NULL} : req'[d].scopes = Scopes(role)
        BY HeldStep DEF Steps, IInv, RequestsInv
    <1>3. ActsWithHeldRole'
        BY <1>2 DEF ActsWithHeldRole, ActingPlaces, Scopes
    <1>4. QED
        BY <1>1, <1>3 DEF RequestsInv, Steps

\* When no request moves (time passes).
LEMMA StandingKeeps ==
    ASSUME IInv, Grows, Remember, UNCHANGED req, left' \in [requests : Nat, events : Nat]
    PROVE  RequestsInv'
    <1>1. \A d \in Clients : Proper(req[d])'
        BY OthersProper
    <1>2. ASSUME NEW d \in Clients
          PROVE  req'[d].kind = "session" /\ req'[d].at \in ActingPlaces =>
                    \E role \in held'[d] \ {NULL} : req'[d].scopes = Scopes(role)
        BY HeldStep DEF IInv, RequestsInv
    <1>3. ActsWithHeldRole'
        BY <1>2 DEF ActsWithHeldRole, ActingPlaces, Scopes
    <1>4. QED
        BY <1>1, <1>3 DEF RequestsInv, IInv

\* A failing call, or an expiry, leaves the bounds natural numbers and lowers one.
LEMMA EventLeft ==
    ASSUME RequestsInv, Event
    PROVE  left' \in [requests : Nat, events : Nat] /\ left'.events < left.events
    BY DEF RequestsInv, Event

\* So does a request that begins.
LEMMA BeginsLeft ==
    ASSUME RequestsInv, NEW c, Begins(c)
    PROVE  left' \in [requests : Nat, events : Nat]
    BY DEF RequestsInv, Begins

\* Where a request is after Go.
LEMMA Went ==
    ASSUME RequestsInv, NEW c \in Clients, NEW p \in Requests, Go(c, p)
    PROVE  /\ req' \in [Clients -> Requests] /\ req'[c] = p
           /\ \A d \in Clients \ {c} : req'[d] = req[d]
    BY DEF RequestsInv, Go

\* The places a request moves to from another.
LEMMA PlaceNames ==
    {"acting", "issue", "start", "reissue", "update", "own", "redeem"} \subseteq Places
    BY DEF Places

\* The resting place of a request.
LEMMA IdleIsRequest == Idle \in Requests /\ Idle.at = "idle"
    BY DEF Idle, Requests, Places

\* A request that ends.
LEMMA DoneSteps ==
    ASSUME IInv, NEW c \in Clients, Done(c), left' \in [requests : Nat, events : Nat]
    PROVE  Steps(c)
    <1>1. req' \in [Clients -> Requests] /\ req'[c] = Idle /\ \A d \in Clients \ {c} : req'[d] = req[d]
        BY Went, IdleIsRequest DEF Done, IInv
    <1>2. req'[c].at = "idle"
        BY <1>1, IdleIsRequest
    <1>3. Proper(req[c])'
        BY <1>2 DEF Proper
    <1>4. QED
        BY <1>1, <1>2, <1>3 DEF Steps, ActingPlaces

\* authenticate with a cookie remembers what the session says of its account.
LEMMA ReadSessionSteps ==
    ASSUME IInv, NEW c \in Clients, NEW t \in Tokens, ReadSession(c, t)
    PROVE  Steps(c)
    <1> DEFINE p == [Idle EXCEPT !.at = "session", !.kind = "session", !.token = t,
                     !.user = session[t].user, !.email = session[t].email,
                     !.org = session[t].org, !.role = session[t].role]
    <1>1. Go(c, p) /\ session[t] # NULL /\ UNCHANGED <<session, had>> /\ Begins(c)
        BY DEF ReadSession, tables
    <1>2. session[t] \in SessionRows /\ session[t].email \in had[session[t].user]
        BY <1>1 DEF IInv, TablesInv, TypeOK, AddressesKnown
    <1>3. /\ p \in Requests /\ p.at = "session" /\ p.kind = "session" /\ p.token = t
          /\ p.user = session[t].user /\ p.email = session[t].email /\ p.org = session[t].org
        BY <1>2 DEF Idle, Requests, Places, SessionRows
    <1> HIDE DEF p
    <1>4. /\ req' \in [Clients -> Requests] /\ req'[c] = p
          /\ \A d \in Clients \ {c} : req'[d] = req[d]
        BY <1>1, <1>3, Went DEF IInv
    <1>5. Known(req[c])'
        BY <1>1, <1>2, <1>3, <1>4 DEF Known, SessionRows
    <1>6. Proper(req[c])'
        BY <1>1, <1>3, <1>4, <1>5 DEF Proper
    <1>7. QED
        BY <1>1, <1>3, <1>4, <1>6, BeginsLeft DEF Steps, ActingPlaces, IInv

\* The scopes of a role, and none for an account without an organization.
LEMMA ScopesTyped ==
    ASSUME NEW role
    PROVE  Scopes(role) \in SUBSET ScopeNames /\ Scopes("") = {}
    BY DEF Scopes, ScopeNames

\* ByToken lets a request act with the role its account has at that moment.
LEMMA ByTokenSteps ==
    ASSUME IInv, NEW c \in Clients, ByToken(c)
    PROVE  Steps(c)
    <1> DEFINE role == Standing(req[c].user, req[c].org)
               p == [req[c] EXCEPT !.at = "acting", !.role = role, !.scopes = Scopes(role)]
    <1>1. req[c] \in Requests /\ Proper(req[c]) /\ At(c, "session") /\ UNCHANGED left
        BY DEF ByToken, IInv, RequestsInv
    <1>2. /\ Known(req[c]) /\ req[c].kind = "session" /\ req[c].user \in Users
          /\ req[c].org \in Orgs \cup {NULL}
        BY <1>1 DEF At, Proper, Known, Requests
    <1>3. CASE Done(c)
        BY <1>1, <1>3, DoneSteps DEF IInv, RequestsInv
    <1>4. CASE role # NULL /\ Go(c, p) /\ UNCHANGED <<user, member, had>>
        <2>1. role \in Roles \cup {""}
            <3>1. CASE req[c].org = NULL
                BY <1>4, <3>1 DEF Standing
            <3>2. CASE req[c].org # NULL
                <4>1. role = member[req[c].org][req[c].user] /\ req[c].org \in Orgs
                    BY <1>2, <1>4, <3>2 DEF Standing, LiveRole
                <4>2. member[req[c].org][req[c].user] \in Roles \cup {NULL}
                    BY <1>2, <4>1 DEF IInv, TablesInv, TypeOK
                <4>3. QED
                    BY <1>4, <4>1, <4>2
            <3>3. QED
                BY <3>1, <3>2
        <2>2. req[c].org = NULL => role = ""
            BY <1>4 DEF Standing
        <2>3. role = Truly(req[c].user, req[c].org)
            BY <1>2 DEF Standing, LiveRole, Exists, Truly
        <2> HIDE DEF role
        <2>4. /\ p \in Requests /\ p.at = "acting" /\ p.kind = "session" /\ p.role = role
              /\ p.scopes = Scopes(role) /\ p.user = req[c].user /\ p.org = req[c].org
              /\ p.email = req[c].email
            BY <1>1, <1>2, <2>1, ScopesTyped, PlaceNames, ZenonT(120) DEF Requests
        <2> HIDE DEF p
        <2>5. /\ req' \in [Clients -> Requests] /\ req'[c] = p
              /\ \A d \in Clients \ {c} : req'[d] = req[d]
            BY <1>4, <2>4, Went DEF IInv
        <2>6. p.scopes # {} => p.org \in Orgs
            BY <1>2, <2>2, <2>4, ScopesTyped
        <2>7. Known(req[c])'
            BY <1>2, <1>4, <2>4, <2>5 DEF Known
        <2>8. Proper(req[c])'
            BY <2>1, <2>4, <2>5, <2>6, <2>7 DEF Proper
        <2>9. Now(c)' = role
            BY <1>4, <2>3, <2>4, <2>5 DEF Now, Truly
        <2>10. QED
            BY <1>1, <1>4, <2>4, <2>5, <2>8, <2>9 DEF Steps, IInv, RequestsInv, role
    <1>5. QED
        BY <1>3, <1>4 DEF ByToken

\* authenticate with a bearer key carries the scopes of the key.
LEMMA AuthenticateKeySteps ==
    ASSUME IInv, NEW c \in Clients, NEW k \in Keys, AuthenticateKey(c, k)
    PROVE  Steps(c)
    <1> DEFINE p == [Idle EXCEPT !.at = "acting", !.kind = "key", !.org = key[k].org,
                     !.scopes = key[k].scopes, !.target = k]
    <1>1. Go(c, p) /\ key[k] # NULL /\ UNCHANGED key /\ Begins(c)
        BY DEF AuthenticateKey, CredentialByPrefix, tables
    <1>2. key[k] \in KeyRows
        BY <1>1 DEF IInv, TablesInv, TypeOK
    <1>3. /\ p \in Requests /\ p.at = "acting" /\ p.kind = "key" /\ p.target = k
          /\ p.scopes = key[k].scopes /\ p.org \in Orgs
        BY <1>2 DEF Idle, Requests, Places, KeyRows
    <1> HIDE DEF p
    <1>4. /\ req' \in [Clients -> Requests] /\ req'[c] = p
          /\ \A d \in Clients \ {c} : req'[d] = req[d]
        BY <1>1, <1>3, Went DEF IInv
    <1>5. Proper(req[c])'
        BY <1>1, <1>3, <1>4 DEF Proper
    <1>6. QED
        BY <1>1, <1>3, <1>4, <1>5, BeginsLeft DEF Steps, IInv

\* login knows the account by the address it has.
LEMMA LoginSteps ==
    ASSUME IInv, NEW c \in Clients, NEW e \in Emails, Login(c, e)
    PROVE  Steps(c)
    <1>1. PICK u \in Users :
             /\ user[u] # NULL /\ user[u].email = e
             /\ Go(c, [Idle EXCEPT !.at = "login", !.kind = "login", !.user = u, !.email = e])
        BY DEF Login, authenticate, CredentialByEmail
    <1> DEFINE p == [Idle EXCEPT !.at = "login", !.kind = "login", !.user = u, !.email = e]
    <1>2. Begins(c) /\ UNCHANGED had
        BY DEF Login
    <1>3. e \in had[u]
        BY <1>1 DEF IInv, TablesInv, AddressesKnown
    <1>4. /\ p \in Requests /\ p.at = "login" /\ p.kind = "login" /\ p.user = u /\ p.email = e
        BY DEF Idle, Requests, Places
    <1> HIDE DEF p
    <1>5. /\ req' \in [Clients -> Requests] /\ req'[c] = p
          /\ \A d \in Clients \ {c} : req'[d] = req[d]
        BY <1>1, <1>4, Went DEF IInv, p
    <1>6. Proper(req[c])'
        BY <1>2, <1>3, <1>4, <1>5 DEF Proper, Known
    <1>7. QED
        BY <1>2, <1>4, <1>5, <1>6, BeginsLeft DEF Steps, ActingPlaces, IInv

\* The first organization of an account is one it is a member of.
LEMMA FirstIsMember ==
    ASSUME TypeOK, NEW u \in Users
    PROVE  /\ FirstForUser(u) \in Orgs \cup {NULL}
           /\ RoleOf(u, FirstForUser(u)) \in Roles \cup {""}
    <1>1. order[u] \in Seq(Orgs)
        BY DEF TypeOK
    <1>2. CASE order[u] = << >>
        BY <1>2 DEF FirstForUser, RoleOf
    <1>3. CASE order[u] # << >>
        <2>1. 1 \in 1..Len(order[u]) /\ FirstForUser(u) = order[u][1] /\ order[u][1] \in Orgs
            BY <1>1, <1>3 DEF FirstForUser
        <2>2. PICK o \in Orgs : o = order[u][1]
            BY <2>1
        <2>3. member[o][u] # NULL
            BY <2>1, <2>2 DEF TypeOK, OrdersAgree
        <2>4. member[o][u] \in Roles
            BY <2>3 DEF TypeOK
        <2>5. o # NULL
            BY TenancyAssumption
        <2>6. QED
            BY <2>1, <2>2, <2>4, <2>5 DEF RoleOf
    <1>4. QED
        BY <1>2, <1>3

\* login issues a session in the first organization, with the role held there.
LEMMA LoginFirstSteps ==
    ASSUME IInv, NEW c \in Clients, LoginFirst(c)
    PROVE  Steps(c)
    <1> DEFINE o == FirstForUser(req[c].user)
               role == RoleOf(req[c].user, o)
               p == [req[c] EXCEPT !.at = "issue", !.org = o, !.role = role]
    <1>1. /\ req[c] \in Requests /\ Proper(req[c]) /\ At(c, "login")
          /\ Go(c, p) /\ UNCHANGED <<left, had>>
        BY DEF LoginFirst, IInv, RequestsInv
    <1>2. Known(req[c])
        BY <1>1 DEF At, Proper
    <1>3. o \in Orgs \cup {NULL} /\ role \in Roles \cup {""}
        BY <1>2, FirstIsMember DEF Known, IInv, TablesInv
    <1> HIDE DEF o, role
    <1>4. /\ p \in Requests /\ p.at = "issue" /\ p.user = req[c].user /\ p.email = req[c].email
          /\ p.role = role
        <2>1. role \in Roles \cup {"", NULL} /\ "issue" \in Places
            BY <1>3, PlaceNames
        <2>2. p \in Requests
            BY <1>1, <1>3, <2>1, ZenonT(120) DEF Requests
        <2>3. QED
            BY <1>1, <2>2 DEF Requests
    <1> HIDE DEF p
    <1>5. /\ req' \in [Clients -> Requests] /\ req'[c] = p
          /\ \A d \in Clients \ {c} : req'[d] = req[d]
        BY <1>1, <1>4, Went DEF IInv
    <1>6. Proper(req[c])'
        BY <1>1, <1>2, <1>3, <1>4, <1>5 DEF Proper, Known
    <1>7. QED
        BY <1>1, <1>4, <1>5, <1>6 DEF Steps, ActingPlaces, IInv, RequestsInv

\* StartSession takes the address from the account's row.
LEMMA StartSessionSteps ==
    ASSUME IInv, NEW c \in Clients, StartSession(c)
    PROVE  Steps(c)
    <1> DEFINE u == req[c].user
               p == [req[c] EXCEPT !.at = "issue", !.email = user[u].email]
    <1>1. /\ req[c] \in Requests /\ Proper(req[c]) /\ At(c, "start") /\ UNCHANGED <<left, had>>
        BY DEF StartSession, IInv, RequestsInv
    <1>2. u \in Users /\ req[c].role \in Roles \cup {""}
        BY <1>1 DEF At, Proper
    <1>3. CASE Done(c)
        BY <1>1, <1>3, DoneSteps DEF IInv, RequestsInv
    <1>4. CASE user[u] # NULL /\ Go(c, p)
        <2>1. user[u] \in UserRows /\ user[u].email \in had[u] /\ user[u].email \in Emails
            BY <1>2, <1>4 DEF IInv, TablesInv, TypeOK, AddressesKnown, UserRows
        <2>2. /\ p \in Requests /\ p.at = "issue" /\ p.user = u /\ p.email = user[u].email
              /\ p.role = req[c].role
            BY <1>1, <2>1, PlaceNames, ZenonT(120) DEF Requests
        <2> HIDE DEF p
        <2>3. /\ req' \in [Clients -> Requests] /\ req'[c] = p
              /\ \A d \in Clients \ {c} : req'[d] = req[d]
            BY <1>4, <2>2, Went DEF IInv
        <2>4. Proper(req[c])'
            BY <1>1, <1>2, <2>1, <2>2, <2>3 DEF Proper, Known
        <2>5. QED
            BY <1>1, <2>2, <2>3, <2>4 DEF Steps, ActingPlaces, IInv, RequestsInv
    <1>5. QED
        BY <1>3, <1>4 DEF StartSession, CredentialByID

\* logout remembers the session it was asked to end.
LEMMA LogoutSteps ==
    ASSUME IInv, NEW c \in Clients, NEW t \in Tokens, Logout(c, t)
    PROVE  Steps(c)
    <1> DEFINE p == [Idle EXCEPT !.at = "logout", !.kind = "logout", !.token = t]
    <1>1. Go(c, p) /\ Begins(c)
        BY DEF Logout
    <1>2. p \in Requests /\ p.at = "logout" /\ p.token = t
        BY DEF Idle, Requests, Places
    <1> HIDE DEF p
    <1>3. /\ req' \in [Clients -> Requests] /\ req'[c] = p
          /\ \A d \in Clients \ {c} : req'[d] = req[d]
        BY <1>1, <1>2, Went DEF IInv
    <1>4. Proper(req[c])'
        BY <1>2, <1>3 DEF Proper
    <1>5. QED
        BY <1>1, <1>2, <1>3, <1>4, BeginsLeft DEF Steps, ActingPlaces, IInv

\* Dropped ends a session or counts a failing call.
LEMMA DroppedLeft ==
    ASSUME IInv, NEW t \in Tokens, Dropped(t)
    PROVE  /\ left' \in [requests : Nat, events : Nat]
           /\ session' \in [Tokens -> SessionRows \cup {NULL}]
           /\ \A w \in Tokens : session'[w] = NULL \/ session'[w] = session[w]
    BY EventLeft DEF Dropped, IInv, RequestsInv, TablesInv, TypeOK

\* reissue names the role of the membership it has read back.
LEMMA ReissueSteps ==
    ASSUME IInv, NEW c \in Clients, Reissue(c)
    PROVE  Steps(c)
    <1> DEFINE u == req[c].user
               gained == member[req[c].target][u] # NULL
               o == IF gained THEN req[c].target ELSE NULL
               role == RoleOf(u, o)
               p == [req[c] EXCEPT !.at = "start", !.token = NULL, !.org = o, !.role = role]
    <1>1. req[c] \in Requests /\ Proper(req[c]) /\ At(c, "reissue")
        BY DEF Reissue, IInv, RequestsInv
    <1>2. u \in Users /\ req[c].target \in Orgs
        BY <1>1 DEF At, Proper
    <1>3. left' \in [requests : Nat, events : Nat]
        <2>1. CASE gained /\ req[c].token # NULL
            <3>1. req[c].token \in Tokens /\ Dropped(req[c].token)
                BY <1>1, <2>1 DEF Reissue, Requests
            <3>2. QED
                BY <3>1, DroppedLeft
        <2>2. CASE ~(gained /\ req[c].token # NULL)
            BY <2>2 DEF Reissue, IInv, RequestsInv
        <2>3. QED
            BY <2>1, <2>2
    <1>4. CASE Done(c)
        BY <1>3, <1>4, DoneSteps
    <1>5. CASE Go(c, p)
        <2>1. o \in Orgs \cup {NULL} /\ role \in Roles \cup {""}
            <3>1. member[req[c].target][u] \in Roles \cup {NULL}
                BY <1>2 DEF IInv, TablesInv, TypeOK
            <3>2. CASE gained
                BY <1>2, <3>1, <3>2, TenancyAssumption DEF RoleOf
            <3>3. CASE ~gained
                BY <3>3 DEF RoleOf
            <3>4. QED
                BY <3>2, <3>3
        <2> HIDE DEF o, role
        <2>2. /\ p \in Requests /\ p.at = "start" /\ p.user = u /\ p.role = role
            <3>1. role \in Roles \cup {"", NULL} /\ "start" \in Places
                BY <2>1, PlaceNames
            <3>2. p \in Requests
                BY <1>1, <2>1, <3>1, ZenonT(120) DEF Requests
            <3>3. QED
                BY <1>1, <3>2 DEF Requests
        <2> HIDE DEF p
        <2>3. /\ req' \in [Clients -> Requests] /\ req'[c] = p
              /\ \A d \in Clients \ {c} : req'[d] = req[d]
            BY <1>5, <2>2, Went DEF IInv
        <2>4. Proper(req[c])'
            BY <1>2, <2>1, <2>2, <2>3 DEF Proper
        <2>5. QED
            BY <1>3, <2>2, <2>3, <2>4 DEF Steps, ActingPlaces
    <1>6. QED
        BY <1>4, <1>5 DEF Reissue

\* register knows the account it has just made.
LEMMA RegisterSteps ==
    ASSUME IInv, NEW c \in Clients, NEW u \in Users, NEW e \in Emails, Register(c, u, e)
    PROVE  Steps(c)
    <1> DEFINE p == [Idle EXCEPT !.at = "registered", !.kind = "register", !.user = u,
                     !.email = e, !.role = ""]
    <1>1. Go(c, p) /\ Begins(c) /\ had' = [had EXCEPT ![u] = {e}]
        BY DEF Register, CreateUser
    <1>2. /\ p \in Requests /\ p.at = "registered" /\ p.kind = "register"
          /\ p.user = u /\ p.email = e /\ p.role = ""
        BY DEF Idle, Requests, Places
    <1> HIDE DEF p
    <1>3. /\ req' \in [Clients -> Requests] /\ req'[c] = p
          /\ \A d \in Clients \ {c} : req'[d] = req[d]
        BY <1>1, <1>2, Went DEF IInv
    <1>4. e \in had'[u]
        BY <1>1 DEF IInv, TablesInv, HistoryTypes
    <1>5. Proper(req[c])'
        BY <1>2, <1>3, <1>4 DEF Proper, Known
    <1>6. QED
        BY <1>1, <1>2, <1>3, <1>5, BeginsLeft DEF Steps, ActingPlaces, IInv

\* Where a request is after Move.
LEMMA Moved ==
    ASSUME RequestsInv, NEW c \in Clients, NEW place \in Places, Move(c, place)
    PROVE  /\ req' \in [Clients -> Requests]
           /\ \A d \in Clients \ {c} : req'[d] = req[d]
           /\ req'[c].at = place /\ req'[c].kind = req[c].kind /\ req'[c].user = req[c].user
           /\ req'[c].email = req[c].email /\ req'[c].role = req[c].role
           /\ req'[c].scopes = req[c].scopes
    <1> DEFINE p == [req[c] EXCEPT !.at = place]
    <1>1. req[c] \in Requests
        BY DEF RequestsInv
    <1>2. /\ p \in Requests /\ p.at = place /\ p.kind = req[c].kind /\ p.user = req[c].user
          /\ p.email = req[c].email /\ p.role = req[c].role /\ p.scopes = req[c].scopes
        BY <1>1, ZenonT(120) DEF Requests
    <1>3. Go(c, p)
        BY DEF Move
    <1> HIDE DEF p
    <1>4. QED
        BY <1>2, <1>3, Went

\* A registration that goes on without an organization.
LEMMA AloneSteps ==
    ASSUME IInv, NEW c \in Clients, req[c].at \in {"registered", "own", "redeem"},
           Move(c, "start"), UNCHANGED left
    PROVE  Steps(c)
    <1>1. Known(req[c]) /\ req[c].role \in Roles \cup {""}
        BY DEF IInv, RequestsInv, Proper
    <1>2. Proper(req[c])'
        BY <1>1, Moved, PlaceNames DEF Proper, Known, IInv
    <1>3. QED
        BY <1>2, Moved, PlaceNames DEF Steps, ActingPlaces, IInv, RequestsInv

\* updateUser folds the update into the row it has read.
LEMMA UpdateUserSteps ==
    ASSUME IInv, NEW c \in Clients, NEW u \in Users, NEW e \in Emails \cup {NULL},
           NEW d \in {TRUE, FALSE, NULL}, UpdateUser(c, u, e, d)
    PROVE  Steps(c)
    <1> DEFINE row == Updated(u, e, d)
               p == [req[c] EXCEPT !.at = "update", !.target = u, !.record = row]
    <1>1. req[c] \in Requests /\ Proper(req[c]) /\ At(c, "acting") /\ Go(c, p) /\ user[u] # NULL
        BY DEF UpdateUser, May, IInv, RequestsInv
    <1>2. left' \in [requests : Nat, events : Nat]
        BY EventLeft DEF UpdateUser, IInv, RequestsInv
    <1>3. row \in UserRows
        <2>1. user[u] \in UserRows
            BY <1>1 DEF IInv, TablesInv, TypeOK
        <2>2. QED
            BY <2>1 DEF Updated, Apply, UserRows
    <1> HIDE DEF row
    <1>4. /\ p \in Requests /\ p.at = "update" /\ p.target = u /\ p.record = row
          /\ p.kind = req[c].kind /\ p.scopes = req[c].scopes
        BY <1>1, <1>3, PlaceNames, ZenonT(120) DEF Requests
    <1> HIDE DEF p
    <1>5. /\ req' \in [Clients -> Requests] /\ req'[c] = p
          /\ \A x \in Clients \ {c} : req'[x] = req[x]
        BY <1>1, <1>4, Went DEF IInv
    <1>6. Proper(req[c])'
        BY <1>3, <1>4, <1>5 DEF Proper
    <1>7. QED
        BY <1>1, <1>2, <1>4, <1>5, <1>6 DEF Steps, ActingPlaces, At

\* Whoever may join or start an organization knows its account.
LEMMA JoiningKnown ==
    ASSUME IInv, NEW c \in Clients, Joining(c)
    PROVE  /\ Known(req[c]) /\ req[c].role \in Roles \cup {""}
           /\ req[c].at \in {"acting", "registered"}
           /\ req[c].kind = "session" => req[c].at = "acting"
    BY DEF Joining, SignedIn, At, IInv, RequestsInv, Proper

\* Create goes on with the account the request knows.
LEMMA CreateOrganizationSteps ==
    ASSUME IInv, NEW c \in Clients, CreateOrganization(c)
    PROVE  Steps(c)
    <1>1. Joining(c) /\ Move(c, "own") /\ UNCHANGED <<left, had>>
        BY DEF CreateOrganization
    <1>2. /\ Known(req[c]) /\ req[c].role \in Roles \cup {""}
          /\ req[c].kind = "session" => req[c].at = "acting"
        BY <1>1, JoiningKnown
    <1>3. Proper(req[c])'
        BY <1>1, <1>2, Moved, PlaceNames DEF Proper, Known, IInv
    <1>4. QED
        BY <1>1, <1>2, <1>3, Moved, PlaceNames DEF Steps, ActingPlaces, IInv, RequestsInv

\* Create answers with the organization it made, or lets a registration go on.
LEMMA InsertOrganizationSteps ==
    ASSUME IInv, NEW c \in Clients, NEW o \in Orgs, InsertOrganization(c, o)
    PROVE  Steps(c)
    <1> DEFINE p == [req[c] EXCEPT !.at = "reissue", !.target = o]
    <1>1. /\ req[c] \in Requests /\ Proper(req[c]) /\ req[c].at = "own" /\ UNCHANGED left
        BY DEF InsertOrganization, At, IInv, RequestsInv
    <1>2. Known(req[c])
        BY <1>1 DEF Proper
    <1>3. CASE Done(c)
        BY <1>1, <1>3, DoneSteps DEF IInv, RequestsInv
    <1>4. CASE Move(c, "start")
        BY <1>1, <1>4, AloneSteps
    <1>5. CASE Go(c, p)
        <2>1. p \in Requests /\ p.at = "reissue" /\ p.target = o /\ p.user = req[c].user
            BY <1>1, PlaceNames, ZenonT(120) DEF Requests
        <2> HIDE DEF p
        <2>2. /\ req' \in [Clients -> Requests] /\ req'[c] = p
              /\ \A d \in Clients \ {c} : req'[d] = req[d]
            BY <1>5, <2>1, Went DEF IInv
        <2>3. Proper(req[c])'
            BY <1>2, <2>1, <2>2 DEF Proper, Known
        <2>4. QED
            BY <1>1, <2>1, <2>2, <2>3 DEF Steps, ActingPlaces, IInv, RequestsInv
    <1>6. QED
        BY <1>3, <1>4, <1>5 DEF InsertOrganization

\* Accept remembers an invitation made to an address the account has had.
LEMMA AcceptSteps ==
    ASSUME IInv, NEW c \in Clients, NEW i \in Invites, Accept(c, i)
    PROVE  Steps(c)
    <1> DEFINE p == [req[c] EXCEPT !.at = "redeem", !.target = i]
    <1>1. /\ req[c] \in Requests /\ Joining(c) /\ Go(c, p)
          /\ invite[i] # NULL /\ invite[i].email = req[c].email
          /\ UNCHANGED <<left, had, invite>>
        BY DEF Accept, InviteByToken, Redeemable, tables, IInv, RequestsInv
    <1>2. /\ Known(req[c]) /\ req[c].role \in Roles \cup {""}
          /\ req[c].kind = "session" => req[c].at = "acting"
        BY <1>1, JoiningKnown
    <1>3. /\ p \in Requests /\ p.at = "redeem" /\ p.target = i /\ p.kind = req[c].kind
          /\ p.user = req[c].user /\ p.email = req[c].email /\ p.role = req[c].role
          /\ p.scopes = req[c].scopes
        BY <1>1, PlaceNames, ZenonT(120) DEF Requests
    <1> HIDE DEF p
    <1>4. /\ req' \in [Clients -> Requests] /\ req'[c] = p
          /\ \A d \in Clients \ {c} : req'[d] = req[d]
        BY <1>1, <1>3, Went DEF IInv
    <1>5. Proper(req[c])'
        BY <1>1, <1>2, <1>3, <1>4 DEF Proper, Known
    <1>6. QED
        BY <1>1, <1>2, <1>3, <1>4, <1>5 DEF Steps, ActingPlaces, IInv, RequestsInv

\* Redeem answers, or goes on to the organization the invitation led to.
LEMMA RedeemSteps ==
    ASSUME IInv, NEW c \in Clients, Redeem(c)
    PROVE  Steps(c)
    <1> DEFINE o == invite[req[c].target].org
               p == [req[c] EXCEPT !.at = "reissue", !.target = o]
    <1>1. /\ req[c] \in Requests /\ Proper(req[c]) /\ req[c].at = "redeem" /\ UNCHANGED left
        BY DEF Redeem, At, IInv, RequestsInv
    <1>2. Known(req[c]) /\ req[c].target \in Invites /\ invite[req[c].target] # NULL
        BY <1>1 DEF Proper
    <1>3. o \in Orgs
        BY <1>2 DEF IInv, TablesInv, TypeOK, InviteRows
    <1>4. CASE Done(c)
        BY <1>1, <1>4, DoneSteps DEF IInv, RequestsInv
    <1>5. CASE Move(c, "start")
        BY <1>1, <1>5, AloneSteps
    <1>6. CASE Go(c, p)
        <2> HIDE DEF o
        <2>1. p \in Requests /\ p.at = "reissue" /\ p.target = o /\ p.user = req[c].user
            BY <1>1, <1>3, PlaceNames, ZenonT(120) DEF Requests
        <2> HIDE DEF p
        <2>2. /\ req' \in [Clients -> Requests] /\ req'[c] = p
              /\ \A d \in Clients \ {c} : req'[d] = req[d]
            BY <1>6, <2>1, Went DEF IInv
        <2>3. req'[c].at = "reissue" /\ req'[c].target \in Orgs /\ req'[c].user \in Users
            BY <1>2, <1>3, <2>1, <2>2 DEF Known
        <2>4. Proper(req[c])'
            BY <2>3 DEF Proper
        <2>5. QED
            BY <1>1, <2>2, <2>3, <2>4 DEF Steps, ActingPlaces, IInv, RequestsInv
    <1>7. QED
        BY <1>4, <1>5, <1>6 DEF Redeem

-----------------------------------------------------------------------------
(* Every step. *)

\* A request that is authenticated.
LEMMA AuthenticateKeeps ==
    ASSUME IInv, NEW c \in Clients, Authenticate(c)
    PROVE  TablesInv' /\ Grows /\ Steps(c)
    <1>1. CASE \E t \in Tokens : ReadSession(c, t)
        BY <1>1, QuietTables, ReadSessionSteps DEF ReadSession, IInv
    <1>2. CASE ByToken(c)
        <2>1. session' \in [Tokens -> SessionRows \cup {NULL}]
              /\ \A t \in Tokens : session'[t] = NULL \/ session'[t] = session[t]
            BY <1>2 DEF ByToken, IInv, TablesInv, TypeOK
        <2>2. UNCHANGED <<user, org, member, order, invite, key, had, joined>>
            BY <1>2 DEF ByToken
        <2>3. QED
            BY <1>2, <2>1, <2>2, SessionsDropped, ByTokenSteps DEF IInv
    <1>3. CASE ByTokenFails(c)
        <2>1. session' \in [Tokens -> SessionRows \cup {NULL}]
              /\ \A t \in Tokens : session'[t] = NULL \/ session'[t] = session[t]
            BY <1>3 DEF ByTokenFails, IInv, TablesInv, TypeOK
        <2>2. UNCHANGED <<user, org, member, order, invite, key, had, joined>>
            BY <1>3 DEF ByTokenFails
        <2>3. Steps(c)
            BY <1>3, DoneSteps, EventLeft DEF ByTokenFails, IInv
        <2>4. QED
            BY <2>1, <2>2, <2>3, SessionsDropped DEF IInv
    <1>4. CASE Answer(c)
        BY <1>4, QuietTables, DoneSteps DEF Answer, IInv, RequestsInv
    <1>5. CASE \E k \in Keys : AuthenticateKey(c, k)
        BY <1>5, QuietTables, AuthenticateKeySteps DEF AuthenticateKey, IInv
    <1>6. QED
        BY <1>1, <1>2, <1>3, <1>4, <1>5 DEF Authenticate

\* A request that signs in or out.
LEMMA SignKeeps ==
    ASSUME IInv, NEW c \in Clients, Sign(c)
    PROVE  TablesInv' /\ Grows /\ Steps(c)
    <1>1. CASE \E e \in Emails : Login(c, e)
        BY <1>1, QuietTables, LoginSteps DEF Login, IInv
    <1>2. CASE LoginFirst(c)
        BY <1>2, QuietTables, LoginFirstSteps DEF LoginFirst, IInv
    <1>3. CASE StartSession(c)
        BY <1>3, QuietTables, StartSessionSteps DEF StartSession, IInv
    <1>4. CASE IssueFails(c)
        BY <1>4, QuietTables, DoneSteps, EventLeft DEF IssueFails, IInv
    <1>5. CASE LogoutDelete(c)
        <2>1. req[c].token \in Tokens /\ Dropped(req[c].token) /\ Done(c)
            BY <1>5 DEF LogoutDelete, At, IInv, RequestsInv, Proper
        <2>2. UNCHANGED <<user, org, member, order, invite, key, had, joined>>
            BY <1>5 DEF LogoutDelete
        <2>3. QED
            BY <2>1, <2>2, DroppedLeft, SessionsDropped, DoneSteps DEF IInv
    <1>6. CASE Reissue(c)
        <2>1. req[c] \in Requests
            BY DEF IInv, RequestsInv
        <2>2. session' \in [Tokens -> SessionRows \cup {NULL}]
              /\ \A t \in Tokens : session'[t] = NULL \/ session'[t] = session[t]
            <3>1. CASE UNCHANGED session
                BY <3>1 DEF IInv, TablesInv, TypeOK
            <3>2. CASE req[c].token # NULL /\ Dropped(req[c].token)
                <4>1. req[c].token \in Tokens
                    BY <2>1, <3>2 DEF Requests
                <4>2. QED
                    BY <3>2, <4>1, DroppedLeft
            <3>3. QED
                BY <1>6, <3>1, <3>2 DEF Reissue
        <2>3. UNCHANGED <<user, org, member, order, invite, key, had, joined>>
            BY <1>6 DEF Reissue
        <2>4. QED
            BY <1>6, <2>2, <2>3, SessionsDropped, ReissueSteps DEF IInv
    <1>7. ASSUME NEW t \in Tokens, Issue(c, t)
          PROVE  TablesInv' /\ Grows /\ Steps(c)
        BY <1>7, IssueTables, DoneSteps DEF Issue, IInv, RequestsInv
    <1>8. ASSUME NEW t \in Tokens, Logout(c, t)
          PROVE  TablesInv' /\ Grows /\ Steps(c)
        BY <1>8, QuietTables, LogoutSteps DEF Logout, IInv
    <1>9. QED
        BY <1>1, <1>2, <1>3, <1>4, <1>5, <1>6, <1>7, <1>8 DEF Sign

\* A request about accounts and keys.
LEMMA AccountKeeps ==
    ASSUME IInv, NEW c \in Clients, Account(c)
    PROVE  TablesInv' /\ Grows /\ Steps(c)
    <1>1. CASE \E u \in Users, e \in Emails : Register(c, u, e)
        BY <1>1, RegisterTables, RegisterSteps
    <1>2. CASE RegisterAlone(c)
        BY <1>2, QuietTables, AloneSteps DEF RegisterAlone, At, IInv
    <1>3. CASE UpdateUserRow(c)
        BY <1>3, UpdateUserTables, DoneSteps DEF UpdateUserRow, IInv, RequestsInv
    <1>4. CASE \E u \in Users, e \in Emails \cup {NULL}, d \in {TRUE, FALSE, NULL} :
                 UpdateUser(c, u, e, d)
        BY <1>4, QuietTables, UpdateUserSteps DEF UpdateUser, IInv
    <1>5. CASE \E u \in Users : DeleteUser(c, u)
        BY <1>5, DeleteUserTables, DoneSteps DEF DeleteUser, IInv, RequestsInv
    <1>6. CASE \E k \in Keys : RevokeAPIKey(c, k)
        BY <1>6, RevokeKeyTables, DoneSteps DEF RevokeAPIKey, IInv, RequestsInv
    <1>7. CASE \E k \in Keys, s \in KeyScopes : CreateAPIKey(c, k, s)
        BY <1>7, CreateKeyTables, DoneSteps DEF CreateAPIKey, IInv, RequestsInv
    <1>8. QED
        BY <1>1, <1>2, <1>3, <1>4, <1>5, <1>6, <1>7 DEF Account

\* A request about organizations, members and invitations.
LEMMA OrganizeKeeps ==
    ASSUME IInv, NEW c \in Clients, Organize(c)
    PROVE  TablesInv' /\ Grows /\ Steps(c)
    <1>1. CASE CreateOrganization(c)
        BY <1>1, QuietTables, CreateOrganizationSteps DEF CreateOrganization, IInv
    <1>2. CASE Redeem(c)
        BY <1>2, RedeemTables, RedeemSteps
    <1>3. CASE \E o \in Orgs : InsertOrganization(c, o)
        BY <1>3, InsertOrganizationTables, InsertOrganizationSteps
    <1>4. CASE \E u \in Users : ExpelMember(c, u)
        BY <1>4, ExpelMemberTables, DoneSteps DEF ExpelMember, IInv, RequestsInv
    <1>5. CASE \E u \in Users, role \in Offered : UpdateMember(c, u, role)
        BY <1>5, UpdateMemberTables, DoneSteps DEF UpdateMember, IInv, RequestsInv
    <1>6. CASE \E i \in Invites : RevokeInvite(c, i)
        BY <1>6, RevokeInviteTables, DoneSteps DEF RevokeInvite, IInv, RequestsInv
    <1>7. CASE \E i \in Invites : Accept(c, i)
        BY <1>7, QuietTables, AcceptSteps DEF Accept, IInv
    <1>8. CASE \E i \in Invites, e \in Emails, role \in Offered : CreateInvite(c, i, e, role)
        BY <1>8, CreateInviteTables, DoneSteps DEF CreateInvite, IInv, RequestsInv
    <1>9. QED
        BY <1>1, <1>2, <1>3, <1>4, <1>5, <1>6, <1>7, <1>8 DEF Organize

\* The founder's organization, membership, session and address agree.
LEMMA InitIsIInv == Init => IInv
    <1> SUFFICES ASSUME Init PROVE IInv
        OBVIOUS
    <1> DEFINE row == [email |-> FounderEmail, disabled |-> FALSE]
               ses == [user |-> Founder, email |-> FounderEmail, org |-> FounderOrg,
                       role |-> "admin"]
    <1>1. row \in UserRows /\ ses \in SessionRows /\ "admin" \in Roles
        BY TenancyAssumption DEF UserRows, SessionRows, Roles
    <1>2. row # NULL /\ ses # NULL /\ "admin" # NULL /\ Founder # NULL
        BY <1>1, RowAssumption, TenancyAssumption
    <1>3. /\ order \in [Users -> Seq(Orgs)] /\ order[Founder] = <<FounderOrg>>
          /\ \A u \in Users \ {Founder} : order[u] = << >>
        <2>1. <<FounderOrg>> \in Seq(Orgs) /\ << >> \in Seq(Orgs)
            <3>1. FounderOrg \in Orgs
                BY TenancyAssumption
            <3>2. QED
                BY <3>1
        <2>2. order = [u \in Users |-> IF u = Founder THEN <<FounderOrg>> ELSE << >>]
            BY DEF Init
        <2>3. \A u \in Users : order[u] \in Seq(Orgs)
            BY <2>1, <2>2
        <2>4. QED
            BY <2>2, <2>3, TenancyAssumption
    <1>4. OrdersAgree
        <2>1. /\ \A o \in Orgs, u \in Users :
                    member[o][u] # NULL <=> o = FounderOrg /\ u = Founder
            BY <1>2 DEF Init
        <2>2. ASSUME NEW o \in Orgs, NEW u \in Users
              PROVE  o = FounderOrg /\ u = Founder <=>
                        \E n \in 1..Len(order[u]) : order[u][n] = o
            <3>1. CASE u = Founder
                BY <1>3, <3>1
            <3>2. CASE u # Founder
                BY <1>3, <3>2
            <3>3. QED
                BY <3>1, <3>2
        <2>3. ASSUME NEW u \in Users
              PROVE  \A m, n \in 1..Len(order[u]) : order[u][m] = order[u][n] => m = n
            BY <1>3
        <2>4. QED
            BY <2>1, <2>2, <2>3 DEF OrdersAgree
    <1>5. TypeOK /\ HistoryTypes /\ AddressesKnown /\ ParentsThere /\ KeysNeverWiden
        <2>1. /\ user \in [Users -> UserRows \cup {NULL}]
              /\ session \in [Tokens -> SessionRows \cup {NULL}]
            BY <1>1 DEF Init
        <2>2. /\ org \in [Orgs -> Users \cup {NULL}]
              /\ member \in [Orgs -> [Users -> Roles \cup {NULL}]]
            BY <1>1, TenancyAssumption DEF Init
        <2>3. /\ invite \in [Invites -> InviteRows \cup {NULL}]
              /\ key \in [Keys -> KeyRows \cup {NULL}]
            BY DEF Init
        <2>4. HistoryTypes
            <3>1. << >> \in Seq(Users) /\ {FounderEmail} \subseteq Emails
                <4>1. << >> \in Seq(Users)
                    OBVIOUS
                <4>2. QED
                    BY <4>1, TenancyAssumption
            <3>2. had \in [Users -> SUBSET Emails]
                BY <3>1 DEF Init
            <3>3. joined \in [Invites -> Seq(Users)]
                BY <3>1 DEF Init
            <3>4. QED
                BY <3>2, <3>3 DEF HistoryTypes
        <2>5. AddressesKnown
            BY TenancyAssumption DEF Init, AddressesKnown
        <2>6. ParentsThere /\ KeysNeverWiden
            BY DEF Init, ParentsThere, KeysNeverWiden
        <2>7. QED
            BY <1>3, <1>4, <2>1, <2>2, <2>3, <2>4, <2>5, <2>6 DEF TypeOK
    <1> USE DEF Init
    <1>6. OwnersKept
        BY <1>2, TenancyAssumption
        DEF OwnersKept, OwnerIsMember, OwnerDemotedByInviteOnly, OneOwnedEach
    <1>7. \A c \in Clients : req[c] = Idle /\ req[c].at = "idle" /\ req[c] \in Requests
        BY IdleIsRequest
    <1>8. RequestsInv
        BY <1>7, TenancyAssumption DEF RequestsInv, Proper, ActsWithHeldRole
    <1>9. QED
        BY <1>5, <1>6, <1>8 DEF IInv, TablesInv

\* Every step keeps the invariant.
LEMMA NextKeeps == IInv /\ [Next]_vars => IInv'
    <1> SUFFICES ASSUME IInv, [Next]_vars PROVE IInv'
        OBVIOUS
    <1>1. CASE Remember /\ \E c \in Clients : Authenticate(c) \/ Sign(c) \/ Account(c) \/ Organize(c)
        <2>1. PICK c \in Clients : Authenticate(c) \/ Sign(c) \/ Account(c) \/ Organize(c)
            BY <1>1
        <2>2. TablesInv' /\ Grows /\ Steps(c)
            BY <2>1, AuthenticateKeeps, SignKeeps, AccountKeeps, OrganizeKeeps
        <2>3. QED
            BY <1>1, <2>2, StepsKeep DEF IInv
    <1>2. CASE Remember /\ \E t \in Tokens : ExpireSession(t)
        <2>1. /\ session' \in [Tokens -> SessionRows \cup {NULL}]
              /\ \A t \in Tokens : session'[t] = NULL \/ session'[t] = session[t]
            BY <1>2 DEF ExpireSession, IInv, TablesInv, TypeOK
        <2>2. UNCHANGED <<user, org, member, order, invite, key, req, had, joined>> /\ Event
            BY <1>2 DEF ExpireSession
        <2>3. TablesInv' /\ Grows
            BY <2>1, <2>2, SessionsDropped DEF IInv
        <2>4. QED
            BY <1>2, <2>2, <2>3, EventLeft, StandingKeeps DEF IInv
    <1>3. CASE Remember /\ \E i \in Invites : ExpireInvite(i)
        BY <1>3, ExpireInviteTables, EventLeft, StandingKeeps DEF ExpireInvite, IInv
    <1>4. CASE UNCHANGED vars
        <2>1. TablesInv' /\ Grows
            BY <1>4, QuietTables DEF vars, tables, IInv
        <2>2. RequestsInv'
            BY <1>4, ZenonT(120) DEF vars, IInv, RequestsInv, Proper, Known, ActsWithHeldRole
        <2>3. QED
            BY <2>1, <2>2 DEF IInv
    <1>5. QED
        BY <1>1, <1>2, <1>3, <1>4 DEF Next

\* The inductive invariant of the tenancy tables and the open requests holds in every
\* reachable state, however many requests interleave.
THEOREM TenancyInvariant == Spec => []IInv
    BY InitIsIInv, NextKeeps, PTL DEF Spec

\* Rows, sessions, keys and the order of joining stay well formed, and FirstForUser
\* only ever lands on an organization the account is a member of.
THEOREM TenancyTyped == Spec => []TypeOK
    <1>1. IInv => TypeOK
        BY DEF IInv, TablesInv
    <1>2. QED
        BY <1>1, TenancyInvariant, PTL

\* No removal, deletion, demotion or race of requests leaves an organization without
\* its owner among the members, an owner with two organizations, or an owner who is no
\* admin without an invitation the owner accepted.
THEOREM OwnersAlwaysKept == Spec => []OwnersKept
    <1>1. IInv => OwnersKept
        BY DEF IInv, TablesInv
    <1>2. QED
        BY <1>1, TenancyInvariant, PTL

\* However memberships change while it is open, a request acts with the scopes of a role
\* its account has held since it began, and a key reaches no further than the one that
\* made it.
THEOREM NobodyOverreaches == Spec => []ActsAsGranted
    <1>1. IInv => ActsAsGranted
        BY DEF IInv, TablesInv, RequestsInv, ActsAsGranted
    <1>2. QED
        BY <1>1, TenancyInvariant, PTL

-----------------------------------------------------------------------------
(* Action properties. *)

\* What one step may do to one invitation.
SpentStep(i) ==
    /\ invite[i] # NULL /\ ~(invite[i].at = "pending") =>
          invite'[i].at = invite[i].at /\ joined'[i] = joined[i]
    /\ joined'[i] # joined[i] => invite[i].email \in had[joined'[i][Len(joined'[i])]]

\* An invitation that is written without letting anybody in.
LEMMA SpentWritten ==
    ASSUME IInv, NEW i \in Invites, NEW j \in Invites, NEW row, UNCHANGED joined,
           invite' = [invite EXCEPT ![j] = row],
           invite[j] # NULL /\ invite[j].at # "pending" => row.at = invite[j].at
    PROVE  SpentStep(i)
    BY DEF SpentStep, IInv, TablesInv, TypeOK

\* Redeem: only a pending invitation lets somebody in, who has had its address.
LEMMA RedeemSpends ==
    ASSUME IInv, NEW c \in Clients, Redeem(c), NEW i \in Invites
    PROVE  SpentStep(i)
    <1> DEFINE j == req[c].target
               u == req[c].user
    <1>1. /\ j \in Invites /\ invite[j] # NULL /\ u \in Users
          /\ invite[j].email \in had[u]
        BY DEF Redeem, At, IInv, RequestsInv, Proper, Known
    <1>2. CASE UNCHANGED <<invite, joined>>
        BY <1>2 DEF SpentStep
    <1>3. CASE /\ Pending(j) /\ invite' = [invite EXCEPT ![j].at = "accepted"]
               /\ joined' = [joined EXCEPT ![j] = Append(joined[j], u)]
        <2> HIDE DEF j, u
        <2>1. joined[j] \in Seq(Users)
            BY <1>1 DEF IInv, TablesInv, HistoryTypes
        <2>2. CASE i = j
            <3>1. joined'[i] = Append(joined[j], u)
                BY <1>1, <1>3, <2>2 DEF IInv, TablesInv, HistoryTypes
            <3>2. joined'[i][Len(joined'[i])] = u
                BY <1>1, <2>1, <3>1
            <3>3. QED
                BY <1>1, <1>3, <2>2, <3>2 DEF SpentStep, Pending
        <2>3. CASE i # j
            BY <1>3, <2>3 DEF SpentStep, IInv, TablesInv, TypeOK, HistoryTypes
        <2>4. QED
            BY <2>2, <2>3
    <1>4. QED
        BY <1>2, <1>3 DEF Redeem, Unspent

\* Every step spends invitations as promised.
LEMMA NextSpends ==
    ASSUME IInv, [Next]_vars, NEW i \in Invites
    PROVE  SpentStep(i)
    <1>1. CASE UNCHANGED <<invite, joined>>
        BY <1>1 DEF SpentStep
    <1>2. CASE \E c \in Clients, j \in Invites, e \in Emails, role \in Offered :
                  CreateInvite(c, j, e, role)
        BY <1>2, SpentWritten DEF CreateInvite, Invite, InsertInvite
    <1>3. ASSUME NEW c \in Clients, NEW j \in Invites, RevokeInvite(c, j)
          PROVE  SpentStep(i)
        <2> DEFINE row == [invite[j] EXCEPT !.at = "revoked"]
        <2>1. /\ invite[j] # NULL /\ invite[j].at # "accepted" /\ UNCHANGED joined
              /\ invite' = [invite EXCEPT ![j] = row]
            BY <1>3 DEF RevokeInvite, Revoke
        <2>2. invite[j] \in InviteRows
            BY <2>1 DEF IInv, TablesInv, TypeOK
        <2>3. /\ row.at = "revoked"
              /\ invite[j].at # "pending" => invite[j].at = "revoked"
            BY <2>1, <2>2 DEF InviteRows
        <2> HIDE DEF row
        <2>4. QED
            BY <2>1, <2>3, SpentWritten
    <1>4. ASSUME NEW j \in Invites, ExpireInvite(j)
          PROVE  SpentStep(i)
        <2> DEFINE row == [invite[j] EXCEPT !.stale = TRUE]
        <2>1. invite[j] # NULL /\ UNCHANGED joined /\ invite' = [invite EXCEPT ![j] = row]
            BY <1>4 DEF ExpireInvite
        <2>2. invite[j] \in InviteRows
            BY <2>1 DEF IInv, TablesInv, TypeOK
        <2>3. row.at = invite[j].at
            BY <2>2 DEF InviteRows
        <2> HIDE DEF row
        <2>4. QED
            BY <2>1, <2>3 DEF SpentStep, IInv, TablesInv, TypeOK
    <1>5. CASE \E c \in Clients : Redeem(c)
        BY <1>5, RedeemSpends
    <1>6. CASE \E c \in Clients : Authenticate(c) \/ Sign(c) \/ Account(c)
        BY <1>1, <1>6, ZenonT(120)
        DEF Authenticate, Sign, Account, tables, ReadSession, ByToken, ByTokenFails, Answer,
            AuthenticateKey, Login, LoginFirst, StartSession, IssueFails, LogoutDelete, Reissue,
            Issue, Logout, Register, RegisterAlone, UpdateUserRow, UpdateUser, DeleteUser,
            RevokeAPIKey, CreateAPIKey
    <1>7. QED
        BY <1>1, <1>2, <1>3, <1>4, <1>5, <1>6
        DEF Next, vars, tables, Organize, CreateOrganization, InsertOrganization, ExpelMember,
            UpdateMember, Accept, ExpireSession

\* An invitation lets in at most one account, which has had its address, and nobody once
\* it is accepted or revoked, whatever an Accept that is still open has read.
THEOREM InvitesSpentOnce == Spec => InviteSpentOnce
    <1>1. IInv /\ [Next]_vars => [\A i \in Invites : SpentStep(i)]_vars
        BY NextSpends
    <1>2. QED
        BY <1>1, TenancyInvariant, PTL DEF Spec, InviteSpentOnce, SpentStep

\* A session that ends in a step, and why.
EndsForCause(t) ==
    session[t] # NULL /\ session'[t] = NULL =>
        \/ \E c \in Clients : req[c].token = t /\ req[c].at \in {"logout", "reissue"}
        \/ Truly(session[t].user, session[t].org) = NULL
        \/ left'.events < left.events

\* What authentication does to sessions: it ends one whose account has lost its standing.
LEMMA AuthenticateEnds ==
    ASSUME IInv, NEW c \in Clients, Authenticate(c), NEW t \in Tokens
    PROVE  EndsForCause(t)
    <1>1. CASE UNCHANGED session
        BY <1>1 DEF EndsForCause
    <1>2. CASE ByToken(c)
        <2> SUFFICES ASSUME session[t] # NULL, session'[t] = NULL
                     PROVE  Truly(session[t].user, session[t].org) = NULL
            BY DEF EndsForCause
        <2>1. Standing(req[c].user, req[c].org) = NULL /\ t = req[c].token /\ At(c, "session")
            BY <1>2 DEF ByToken, IInv, TablesInv, TypeOK
        <2>2. Proper(req[c])
            BY DEF IInv, RequestsInv
        <2>3. session[t].user = req[c].user /\ session[t].org = req[c].org
            BY <2>1, <2>2 DEF At, Proper
        <2>4. QED
            BY <2>1, <2>3 DEF Standing, LiveRole, Exists, Truly
    <1>3. CASE ByTokenFails(c)
        BY <1>3, EventLeft DEF ByTokenFails, EndsForCause, IInv
    <1>4. QED
        BY <1>1, <1>2, <1>3
        DEF Authenticate, ReadSession, Answer, AuthenticateKey, tables

\* What Dropped does to sessions.
LEMMA DroppedEnds ==
    ASSUME IInv, NEW c \in Clients, req[c].at \in {"logout", "reissue"},
           Dropped(req[c].token), NEW t \in Tokens
    PROVE  EndsForCause(t)
    BY DEF Dropped, EndsForCause, IInv, TablesInv, TypeOK

\* What signing in and out does to sessions.
LEMMA SignEnds ==
    ASSUME IInv, NEW c \in Clients, Sign(c), NEW t \in Tokens
    PROVE  EndsForCause(t)
    <1>1. CASE UNCHANGED session
        BY <1>1 DEF EndsForCause
    <1>2. CASE LogoutDelete(c)
        BY <1>2, DroppedEnds DEF LogoutDelete, At
    <1>3. CASE Reissue(c)
        BY <1>1, <1>3, DroppedEnds DEF Reissue, At
    <1>4. ASSUME NEW w \in Tokens, Issue(c, w)
          PROVE  EndsForCause(t)
        BY <1>4 DEF Issue, EndsForCause, IInv, TablesInv, TypeOK
    <1>5. QED
        BY <1>1, <1>2, <1>3, <1>4
        DEF Sign, Login, LoginFirst, StartSession, IssueFails, Logout, tables

\* Every session that ends does so for a cause: it is left, its account has lost its
\* standing, or a call failed or time ran out.
THEOREM SessionsEndOnlyForCause == Spec => SessionsEndForCause
    <1>1. ASSUME IInv, [Next]_vars, NEW t \in Tokens
          PROVE  EndsForCause(t)
        <2>1. CASE UNCHANGED session
            BY <2>1 DEF EndsForCause
        <2>2. CASE \E c \in Clients : Authenticate(c) \/ Sign(c)
            BY <1>1, <2>2, AuthenticateEnds, SignEnds
        <2>3. CASE \E w \in Tokens : ExpireSession(w)
            BY <1>1, <2>3, EventLeft DEF ExpireSession, EndsForCause, IInv
        <2>4. QED
            BY <1>1, <2>1, <2>2, <2>3, ZenonT(120)
            DEF Next, vars, tables, Account, Organize, Register, RegisterAlone, UpdateUserRow,
                UpdateUser, DeleteUser, RevokeAPIKey, CreateAPIKey, CreateOrganization, Redeem,
                InsertOrganization, ExpelMember, UpdateMember, RevokeInvite, Accept, CreateInvite,
                ExpireInvite
    <1>2. IInv /\ [Next]_vars => [\A t \in Tokens : EndsForCause(t)]_vars
        BY <1>1
    <1>3. QED
        BY <1>2, TenancyInvariant, PTL DEF Spec, SessionsEndForCause, EndsForCause

=============================================================================
