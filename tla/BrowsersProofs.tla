--------------------------- MODULE BrowsersProofs ---------------------------
(***************************************************************************)
(* Browser sessions, for every number of hosts, organizations, executions, *)
(* sessions, profiles and open requests: the types, the separation of      *)
(* organizations, what Open leaves behind, and what a close writes.        *)
(*                                                                         *)
(* Most of the invariant is about one request: what it has in hand after   *)
(* each call it made, in terms of the browser its session id names.        *)
(***************************************************************************)
EXTENDS Browsers, TLAPS

---------------------------------------------------------------------------
(* The invariant. *)

\* Where a request of each kind can be.
Staged(k) ==
    \/ k.op = NULL /\ k.at = "idle"
    \/ k.op = "open" /\ k.at \in {"persona", "starting", "spawn", "seed", "adopt", "abandon"}
    \/ k.op = "drive" /\ k.at \in {"touch", "relay", "starting"}
    \/ k.op = "watch" /\ k.at = "watching"
    \/ k.op = "close" /\ k.at \in {"capture", "save", "write", "stop", "forget", "starting"}
    \/ k.op = "update" /\ k.at = "write"

\* A request that waits for the service it starts goes back to where it asked for it.
Resumes(k) ==
    \/ k.op = "open" /\ k.held = "persona"
    \/ k.op = "drive" /\ k.held = "relay"
    \/ k.op = "close" /\ k.held \in {"capture", "stop"}

\* A request that has no session id (yet).
Sessionless(k) ==
    \/ k.op \in {NULL, "update"}
    \/ k.op = "open" /\ k.at \in {"persona", "starting", "spawn"}

\* What a request with a session id knows of the browser that has it: it is of the
\* request's organization; the open that started it still finds it on its own host, with
\* its own profile, and seeded before it is listed; and a close that forgets its record has
\* stopped it or failed to.
Bound(k) ==
    /\ browser[k.sid] # NULL
    /\ Running(k.sid) =>
        /\ browser[k.sid].org = k.org
        /\ k.op = "open" =>
            /\ browser[k.sid].profile = k.profile
            /\ browser[k.sid].lost \/ browser[k.sid].host = k.on
        /\ k.at = "seed" => browser[k.sid].wanted = k.jar
        /\ k.at = "adopt" => browser[k.sid].driven \/ browser[k.sid].jar = browser[k.sid].wanted
        /\ k.at = "touch" =>
            /\ browser[k.sid].profile = k.held.profile
            /\ browser[k.sid].driven \/ browser[k.sid].jar = browser[k.sid].wanted
        /\ k.at = "forget" => browser[k.sid].lost

\* What a request is about to write: a record, or a row, of its own organization, and a
\* close that saves has a profile and no empty jar.
Carries(k) ==
    /\ k.jar \subseteq {k.org}
    /\ k.at = "touch" => k.held \in Records /\ k.held.org = k.org
    /\ k.at \in {"capture", "save", "write"} => k.profile \in Profiles
    /\ k.at = "starting" /\ k.held = "capture" => k.profile \in Profiles
    /\ k.at = "save" => k.jar # {}
    /\ k.at = "write" =>
        /\ k.held \in ProfileRows /\ k.held.org = k.org /\ k.held.jar \subseteq {k.org}
        /\ k.op = "close" => k.held.jar # {}

Sound(c, k) ==
    /\ Staged(k) /\ Carries(k)
    /\ k.op # NULL => k.org \in Orgs
    /\ k.op \notin {NULL, "update"} => k.on \in Replicas
    /\ k.sid = NULL <=> Sessionless(k)
    /\ k.sid # NULL => Bound(k)
    /\ k.at = "starting" => Resumes(k) /\ starting[k.on] = c

CallsInv == \A c \in Clients : Sound(c, call[c])

\* One session id: a record names a browser that was started, and agrees with it while it
\* runs; a browser that runs is held by its record or by the open that started it.
Listed(s) ==
    record[s] # NULL =>
        /\ browser[s] # NULL
        /\ Running(s) =>
            /\ record[s].org = browser[s].org /\ record[s].profile = browser[s].profile
            /\ browser[s].driven \/ browser[s].jar = browser[s].wanted

Opening(s) == \E c \in Clients : call[c].op = "open" /\ call[c].sid = s

Kept(s) ==
    Running(s) =>
        /\ browser[s].org \in Orgs /\ browser[s].jar \subseteq {browser[s].org}
        /\ browser[s].lost \/ record[s] # NULL \/ Opening(s)

SessionsInv == \A s \in Sessions : Listed(s) /\ Kept(s)

\* One host: the processes there are the one being started and the one that is up, never
\* both.
HostOf(r) ==
    /\ starting[r] # NULL => service[r] = "none"
    /\ children[r] = IF starting[r] # NULL \/ service[r] = "up" THEN 1 ELSE 0

HostsInv == \A r \in Replicas : HostOf(r)

\* The jar of a profile holds logins of its organization only.
ProfilesInv ==
    \A p \in Profiles : profile[p] \notin {NULL, DELETED} => profile[p].jar \subseteq {profile[p].org}

IInv == TypeOK /\ CallsInv /\ SessionsInv /\ HostsInv /\ ProfilesInv

---------------------------------------------------------------------------
(* What a step may do to a browser, and what stays true through it. *)

\* A browser stays, is stopped, is started, or runs on: then with its organization, its
\* profile and the jar it was to load; a lost one stays lost, and only a lost one leaves its
\* host; and until it is driven its jar changes to the one it was to load at most.
Moves(s) ==
    \/ browser'[s] = browser[s]
    \/ browser[s] # NULL /\ browser'[s] # NULL /\ ~Running(s)'
    \/ /\ browser[s] = NULL /\ browser'[s] # NULL
       /\ browser'[s].org \in Orgs /\ browser'[s].jar \subseteq {browser'[s].org}
    \/ /\ Running(s) /\ Running(s)'
       /\ browser'[s].org = browser[s].org /\ browser'[s].profile = browser[s].profile
       /\ browser'[s].wanted = browser[s].wanted
       /\ browser[s].lost => browser'[s].lost
       /\ browser'[s].lost \/ browser'[s].host = browser[s].host
       /\ \/ browser'[s].driven
          \/ browser'[s].jar = browser[s].wanted
          \/ browser'[s].driven = browser[s].driven /\ browser'[s].jar = browser[s].jar
       /\ browser'[s].jar \subseteq {browser[s].org}

\* Nothing leads to the browser any more only once it counts as lost.
Retains(s) == Running(s)' => browser'[s].lost \/ record'[s] # NULL \/ Opening(s)'

\* What a request knows survives a step that moves browsers.
LEMMA SoundKept ==
    ASSUME NEW c \in Clients, NEW k, Sound(c, k), k.sid # NULL => Moves(k.sid),
           k.at = "starting" => starting'[k.on] = starting[k.on]
    PROVE  Sound(c, k)'
    <1>1. k.sid # NULL => Bound(k)'
        <2>1. SUFFICES ASSUME k.sid # NULL PROVE Bound(k)'
            OBVIOUS
        <2>2. Bound(k) /\ Moves(k.sid)
            BY <2>1 DEF Sound
        <2>3. CASE browser'[k.sid] = browser[k.sid]
            BY <2>2, <2>3 DEF Bound, Running
        <2>4. CASE browser[k.sid] # NULL /\ browser'[k.sid] # NULL /\ ~Running(k.sid)'
            BY <2>4 DEF Bound
        <2>5. CASE Running(k.sid) /\ Running(k.sid)'
            BY <2>2, <2>5 DEF Bound, Moves, Running
        <2>6. QED
            BY <2>2, <2>3, <2>4, <2>5 DEF Moves, Bound
    <1>2. QED
        BY <1>1 DEF Sound, Staged, Carries, Sessionless, Resumes

\* What a record says of its browser survives it too.
LEMMA ListedKept ==
    ASSUME NEW s \in Sessions, Listed(s), Moves(s), record'[s] = record[s] \/ record'[s] = NULL
    PROVE  Listed(s)'
    BY DEF Listed, Moves, Running

\* A browser that something leads to after the step is kept.
LEMMA KeptKept ==
    ASSUME NEW s \in Sessions, Kept(s), Moves(s), Retains(s)
    PROVE  Kept(s)'
    BY DEF Kept, Moves, Retains, Running

\* The open of a browser that has no other holder goes on.
LEMMA Reopens ==
    ASSUME IInv, NEW s \in Sessions, Opening(s), NEW c \in Clients, NEW k,
           call' = [call EXCEPT ![c] = k],
           call[c].op = "open" /\ call[c].sid = s => k.op = "open" /\ k.sid = s
    PROVE  Opening(s)'
    <1>1. PICK d \in Clients : call[d].op = "open" /\ call[d].sid = s
        BY DEF Opening
    <1>2. call'[d] = IF d = c THEN k ELSE call[d]
        BY DEF IInv, TypeOK
    <1>3. call'[d].op = "open" /\ call'[d].sid = s
        BY <1>1, <1>2
    <1>4. QED
        BY <1>3 DEF Opening

\* A step of one request, which knows what it should after it.
LEMMA CallsStep ==
    ASSUME IInv, NEW c \in Clients, NEW k, k \in CallRows(k.held), call' = [call EXCEPT ![c] = k],
           Sound(c, k)', \A s \in Sessions : Moves(s),
           \A r \in Replicas : starting[r] \in {NULL, c} \/ starting'[r] = starting[r]
    PROVE  /\ CallsInv'
           /\ call' = [d \in Clients |-> call'[d]] /\ \A d \in Clients : call'[d] \in CallRows(call'[d].held)
    <1>1. \A d \in Clients : call'[d] = IF d = c THEN k ELSE call[d]
        BY DEF IInv, TypeOK
    <1>2. ASSUME NEW d \in Clients PROVE Sound(d, call[d])'
        <2>1. CASE d = c
            BY <1>1, <2>1
        <2>2. CASE d # c
            <3>1. PICK m : m = call[d] /\ m = call'[d] /\ Sound(d, m) /\ m.sid \in Sessions \cup {NULL}
                BY <1>1, <2>2 DEF IInv, CallsInv, TypeOK, CallRows
            <3>2. m.at = "starting" => starting'[m.on] = starting[m.on]
                <4>1. SUFFICES ASSUME m.at = "starting" PROVE starting'[m.on] = starting[m.on]
                    OBVIOUS
                <4>2. m.on \in Replicas /\ starting[m.on] = d
                    BY <3>1, <4>1, RowAssumption DEF Sound, Resumes
                <4>3. d # NULL
                    BY BrowsersAssumption
                <4>4. QED
                    BY <2>2, <4>2, <4>3
            <3>3. Sound(d, m)'
                BY <3>1, <3>2, SoundKept
            <3>4. QED
                BY <3>1, <3>3
        <2>3. QED
            BY <2>1, <2>2
    <1>3. call' = [d \in Clients |-> call'[d]]
        BY DEF IInv, TypeOK
    <1>4. \A d \in Clients : call'[d] \in CallRows(call'[d].held)
        BY <1>1 DEF IInv, TypeOK
    <1>5. QED
        BY <1>2, <1>3, <1>4 DEF CallsInv

\* A step of one request that changes nothing but what it knows.
LEMMA Quiet ==
    ASSUME IInv, NEW c \in Clients, NEW k, k \in CallRows(k.held), call' = [call EXCEPT ![c] = k],
           Sound(c, k), UNCHANGED <<plane, browser, store>>,
           call[c].op = "open" /\ call[c].sid # NULL => k.op = "open" /\ k.sid = call[c].sid
    PROVE  IInv'
    <1>1. \A s \in Sessions : Moves(s)
        BY DEF Moves
    <1>2. UNCHANGED <<service, starting, children, record, profile, live, browser>>
        BY DEF plane, store
    <1>3. Sound(c, k)'
        BY <1>2, SoundKept, <1>1, Zenon DEF Moves
    <1>4. /\ CallsInv'
          /\ call' = [d \in Clients |-> call'[d]] /\ \A d \in Clients : call'[d] \in CallRows(call'[d].held)
        BY <1>1, <1>2, <1>3, CallsStep
    <1>5. TypeOK'
        BY <1>2, <1>4 DEF IInv, TypeOK
    <1>6. ASSUME NEW s \in Sessions PROVE Listed(s)' /\ Kept(s)'
        <2>1. Listed(s) /\ Kept(s) /\ s # NULL
            BY BrowsersAssumption DEF IInv, SessionsInv
        <2>2. Opening(s) => Opening(s)'
            BY <2>1, Reopens
        <2>3. Retains(s)
            BY <1>2, <2>1, <2>2 DEF Retains, Kept, Running
        <2>4. QED
            BY <1>1, <1>2, <2>1, <2>3, ListedKept, KeptKept
    <1>7. HostsInv' /\ ProfilesInv'
        BY <1>2 DEF IInv, HostsInv, HostOf, ProfilesInv
    <1>8. QED
        BY <1>4, <1>5, <1>6, <1>7 DEF IInv, SessionsInv


---------------------------------------------------------------------------
(* Requests begin. *)

\* What a request has in hand.
LEMMA InHand ==
    ASSUME IInv, NEW c \in Clients
    PROVE  call[c] \in CallRows(call[c].held) /\ Sound(c, call[c])
    BY DEF IInv, TypeOK, CallsInv

\* A request that is over has nothing in hand.
LEMMA IdleSound ==
    ASSUME NEW c \in Clients
    PROVE  Idle \in CallRows(Idle.held) /\ Sound(c, Idle) /\ Sound(c, Idle)'
    <1>1. Idle \in CallRows(Idle.held)
        BY DEF Idle, CallRows, Places
    <1>2. /\ Idle.op = NULL /\ Idle.at = "idle" /\ Idle.sid = NULL /\ Idle.jar = {}
        BY DEF Idle
    <1>3. Staged(Idle) /\ Carries(Idle) /\ Sessionless(Idle)
        BY <1>2 DEF Staged, Carries, Sessionless
    <1>4. QED
        BY <1>1, <1>2, <1>3 DEF Sound

\* A request that holds no browser ends and has changed nothing.
LEMMA QuietDone ==
    ASSUME IInv, NEW c \in Clients, Done(c), UNCHANGED <<plane, browser, store>>,
           call[c].op = "open" => call[c].sid = NULL
    PROVE  IInv'
    BY IdleSound, Quiet DEF Done, Go

\* The organization of a caller.
LEMMA CallersOrg ==
    ASSUME NEW who \in Runs \cup Orgs
    PROVE  OrgOf(who) \in Orgs
    BY BrowsersAssumption DEF OrgOf

\* A request as it begins.
LEMMA RequestIs ==
    ASSUME NEW op \in {"open", "drive", "watch", "close", "update"}, NEW at \in Places,
           NEW who \in Runs \cup Orgs, NEW r \in Replicas \cup {NULL}
    PROVE  \E q \in CallRows(NULL) :
              /\ q = Request(op, at, who, r)
              /\ q.op = op /\ q.at = at /\ q.who = who /\ q.org = OrgOf(who) /\ q.on = r
              /\ q.sid = NULL /\ q.profile = NULL /\ q.jar = {} /\ q.held = NULL
    <1>1. PICK i \in CallRows(NULL) :
              i = Idle /\ i.sid = NULL /\ i.profile = NULL /\ i.jar = {} /\ i.held = NULL
        <2>1. Idle \in CallRows(NULL)
            BY DEF Idle, CallRows, Places
        <2>2. Idle.sid = NULL /\ Idle.profile = NULL /\ Idle.jar = {} /\ Idle.held = NULL
            BY DEF Idle
        <2>3. QED
            BY <2>1, <2>2
    <1>2. PICK o \in Orgs : o = OrgOf(who)
        BY CallersOrg
    <1>3. PICK q : q = [i EXCEPT !.op = op, !.at = at, !.who = who, !.org = o, !.on = r]
        OBVIOUS
    <1>4. q \in CallRows(NULL)
        BY <1>1, <1>2, <1>3, ZenonT(120) DEF CallRows
    <1>5. /\ q.op = op /\ q.at = at /\ q.who = who /\ q.org = o /\ q.on = r
          /\ q.sid = NULL /\ q.profile = NULL /\ q.jar = {} /\ q.held = NULL
        BY <1>1, <1>3 DEF CallRows
    <1>6. q = Request(op, at, who, r)
        BY <1>1, <1>2, <1>3 DEF Request
    <1>7. QED
        BY <1>2, <1>4, <1>5, <1>6

\* Open.
LEMMA OpenInv ==
    ASSUME IInv, NEW c \in Clients, NEW who \in Runs \cup Orgs, NEW r \in Replicas,
           NEW p \in Profiles \cup {NULL}, NEW storage \in BOOLEAN, Open(c, who, r, p, storage)
    PROVE  IInv'
    <1>1. PICK o \in Orgs : o = OrgOf(who)
        BY CallersOrg
    <1>2. PICK q \in CallRows(NULL) :
              /\ q = Request("open", "persona", who, r) /\ q.op = "open" /\ q.at = "persona" /\ q.org = OrgOf(who)
              /\ q.on = r /\ q.sid = NULL /\ q.profile = NULL /\ q.jar = {} /\ q.held = NULL
        BY RequestIs DEF Places
    <1>3. PICK k : k = [q EXCEPT !.profile = p, !.storage = storage]
        OBVIOUS
    <1>4. k \in CallRows(k.held)
        BY <1>2, <1>3, ZenonT(120) DEF CallRows
    <1>5. /\ k.op = "open" /\ k.at = "persona" /\ k.org = o /\ k.on = r /\ k.sid = NULL /\ k.jar = {}
        BY <1>1, <1>2, <1>3 DEF CallRows
    <1>6. call' = [call EXCEPT ![c] = k] /\ UNCHANGED <<plane, browser, store>>
        BY <1>2, <1>3 DEF Open, Go
    <1>7. Sound(c, k)
        BY <1>5, RowAssumption DEF Sound, Staged, Carries, Sessionless
    <1>8. call[c].op = NULL
        BY InHand DEF Open, Begins, At, Sound, Staged
    <1>9. QED
        BY <1>6, <1>4, <1>7, <1>8, Quiet, RowAssumption

\* The commands of both doors: the record that is read is of the caller's organization, and
\* so is the browser it names.
LEMMA DrivingInv ==
    ASSUME IInv, NEW c \in Clients, NEW who \in Runs \cup Orgs, NEW r \in Replicas,
           NEW s \in Sessions, Driving(c, who, r, s)
    PROVE  IInv'
    <1>1. PICK o \in Orgs : o = OrgOf(who)
        BY CallersOrg
    <1>2. PICK session \in Records : session = record[s] /\ session = Get(o, s) /\ session.org = o
        BY <1>1 DEF Driving, Get, IInv, TypeOK
    <1>3. PICK q \in CallRows(NULL) :
              /\ q = Request("drive", "touch", who, r) /\ q.op = "drive" /\ q.at = "touch" /\ q.org = OrgOf(who)
              /\ q.on = r /\ q.sid = NULL /\ q.profile = NULL /\ q.jar = {} /\ q.held = NULL
        BY RequestIs DEF Places
    <1>4. PICK k : k = [q EXCEPT !.sid = s, !.held = session]
        OBVIOUS
    <1>5. k \in CallRows(k.held)
        BY <1>3, <1>4, ZenonT(120) DEF CallRows
    <1>6. /\ k.op = "drive" /\ k.at = "touch" /\ k.org = o /\ k.on = r /\ k.sid = s /\ k.jar = {}
          /\ k.held = session
        BY <1>1, <1>3, <1>4 DEF CallRows
    <1>7. call' = [call EXCEPT ![c] = k] /\ UNCHANGED <<plane, browser, store>>
        BY <1>1, <1>2, <1>3, <1>4 DEF Driving, Go
    <1>8. Bound(k)
        <2>1. Listed(s) /\ record[s] # NULL
            BY <1>2, RowAssumption DEF IInv, SessionsInv
        <2>2. QED
            BY <1>2, <1>6, <2>1 DEF Bound, Listed
    <1>9. Sound(c, k)
        <2>1. s # NULL
            BY BrowsersAssumption
        <2>2. QED
            BY <1>2, <1>6, <1>8, <2>1, RowAssumption DEF Sound, Staged, Carries, Sessionless
    <1>10. call[c].op = NULL
        BY InHand DEF Driving, Begins, At, Sound, Staged
    <1>11. QED
        BY <1>7, <1>5, <1>9, <1>10, Quiet, RowAssumption

\* The display of a session.
LEMMA WatchInv ==
    ASSUME IInv, NEW c \in Clients, NEW o \in Orgs, NEW r \in Replicas, NEW s \in Sessions,
           streamBrowserDisplay(c, o, r, s)
    PROVE  IInv'
    <1>1. OrgOf(o) = o
        BY BrowsersAssumption DEF OrgOf
    <1>2. record[s] # NULL /\ record[s].org = o
        BY DEF streamBrowserDisplay, Get
    <1>3. PICK q \in CallRows(NULL) :
              /\ q = Request("watch", "watching", o, r) /\ q.op = "watch" /\ q.at = "watching" /\ q.org = OrgOf(o)
              /\ q.on = r /\ q.sid = NULL /\ q.profile = NULL /\ q.jar = {} /\ q.held = NULL
        BY RequestIs DEF Places
    <1>4. PICK k : k = [q EXCEPT !.sid = s]
        OBVIOUS
    <1>5. k \in CallRows(k.held)
        BY <1>3, <1>4 DEF CallRows
    <1>6. /\ k.op = "watch" /\ k.at = "watching" /\ k.org = o /\ k.on = r /\ k.sid = s /\ k.jar = {}
        BY <1>1, <1>3, <1>4 DEF CallRows
    <1>7. call' = [call EXCEPT ![c] = k] /\ UNCHANGED <<plane, browser, store>>
        BY <1>3, <1>4 DEF streamBrowserDisplay, Go
    <1>8. Bound(k)
        <2>1. Listed(s)
            BY DEF IInv, SessionsInv
        <2>2. QED
            BY <1>2, <1>6, <2>1 DEF Bound, Listed
    <1>9. Sound(c, k)
        <2>1. s # NULL
            BY BrowsersAssumption
        <2>2. QED
            BY <1>6, <1>8, <2>1, RowAssumption DEF Sound, Staged, Carries, Sessionless
    <1>10. call[c].op = NULL
        BY InHand DEF streamBrowserDisplay, Begins, At, Sound, Staged
    <1>11. QED
        BY <1>7, <1>5, <1>9, <1>10, Quiet, RowAssumption

\* Close.
LEMMA CloseInv ==
    ASSUME IInv, NEW c \in Clients, NEW who \in Runs \cup Orgs, NEW r \in Replicas,
           NEW s \in Sessions, NEW storage \in BOOLEAN, Close(c, who, r, s, storage)
    PROVE  IInv'
    <1>1. PICK o \in Orgs : o = OrgOf(who)
        BY CallersOrg
    <1>2. PICK session \in Records : session = record[s] /\ session = Get(o, s) /\ session.org = o
        BY <1>1 DEF Close, Get, IInv, TypeOK
    <1>3. PICK q \in CallRows(NULL) :
              /\ q = Request("close", IF storage THEN "capture" ELSE "stop", who, r)
              /\ q.op = "close" /\ q.at = (IF storage THEN "capture" ELSE "stop") /\ q.org = OrgOf(who)
              /\ q.on = r /\ q.sid = NULL /\ q.profile = NULL /\ q.jar = {} /\ q.held = NULL
        BY RequestIs DEF Places
    <1>4. PICK k : k = [q EXCEPT !.sid = s, !.profile = session.profile]
        OBVIOUS
    <1>5. k \in CallRows(k.held)
        <2>1. session.profile \in Profiles \cup {NULL}
            BY DEF Records
        <2>2. QED
            BY <1>3, <1>4, <2>1, ZenonT(120) DEF CallRows
    <1>6. /\ k.op = "close" /\ k.at \in {"capture", "stop"} /\ k.org = o /\ k.on = r /\ k.sid = s /\ k.jar = {}
          /\ k.at = "capture" => k.profile \in Profiles
        <2>1. storage => session.profile \in Profiles
            BY <1>1, <1>2 DEF Close, Records
        <2>2. QED
            BY <1>1, <1>3, <1>4, <2>1 DEF CallRows
    <1>7. call' = [call EXCEPT ![c] = k] /\ UNCHANGED <<plane, browser, store>>
        BY <1>1, <1>2, <1>3, <1>4 DEF Close, Go
    <1>8. Bound(k)
        <2>1. Listed(s) /\ record[s] # NULL
            BY <1>2, RowAssumption DEF IInv, SessionsInv
        <2>2. QED
            BY <1>2, <1>6, <2>1 DEF Bound, Listed
    <1>9. Sound(c, k)
        <2>1. s # NULL
            BY BrowsersAssumption
        <2>2. QED
            BY <1>6, <1>8, <2>1, RowAssumption DEF Sound, Staged, Carries, Sessionless
    <1>10. call[c].op = NULL
        BY InHand DEF Close, Begins, At, Sound, Staged
    <1>11. QED
        BY <1>7, <1>5, <1>9, <1>10, Quiet, RowAssumption

\* An update of a profile, with a row of the caller's own.
LEMMA RewritesInv ==
    ASSUME IInv, NEW c \in Clients, NEW o \in Orgs, NEW p \in Profiles, NEW row \in ProfileRows,
           row.org = o, row.jar \subseteq {o}, Rewrites(c, o, p, row)
    PROVE  IInv'
    <1>1. OrgOf(o) = o
        BY BrowsersAssumption DEF OrgOf
    <1>2. PICK q \in CallRows(NULL) :
              /\ q = Request("update", "write", o, NULL) /\ q.op = "update" /\ q.at = "write" /\ q.org = OrgOf(o)
              /\ q.on = NULL /\ q.sid = NULL /\ q.profile = NULL /\ q.jar = {} /\ q.held = NULL
        BY RequestIs DEF Places
    <1>3. PICK k : k = [q EXCEPT !.profile = p, !.held = row]
        OBVIOUS
    <1>4. k \in CallRows(k.held)
        BY <1>2, <1>3, ZenonT(120) DEF CallRows
    <1>5. /\ k.op = "update" /\ k.at = "write" /\ k.org = o /\ k.sid = NULL /\ k.jar = {} /\ k.held = row
          /\ k.profile = p
        BY <1>1, <1>2, <1>3 DEF CallRows
    <1>6. call' = [call EXCEPT ![c] = k] /\ UNCHANGED <<plane, browser, store>>
        BY <1>2, <1>3 DEF Rewrites, Go
    <1>7. Sound(c, k)
        BY <1>5, RowAssumption DEF Sound, Staged, Carries, Sessionless
    <1>8. call[c].op = NULL
        BY InHand DEF Rewrites, Begins, At, Sound, Staged
    <1>9. QED
        BY <1>6, <1>4, <1>7, <1>8, Quiet, RowAssumption

\* A row that GetByID returns is the caller's, with its logins only.
LEMMA OwnRow ==
    ASSUME IInv, NEW o, NEW p \in Profiles, GetByID(o, p) # NULL
    PROVE  /\ GetByID(o, p) \in ProfileRows /\ GetByID(o, p) = profile[p]
           /\ GetByID(o, p).org = o /\ GetByID(o, p).jar \subseteq {o}
           /\ profile[p] \notin {NULL, DELETED}
    BY DEF IInv, TypeOK, ProfilesInv, GetByID

\* Rename, SetIdentity and SaveState.
LEMMA UpdateProfileInv ==
    ASSUME IInv, NEW c \in Clients, NEW o \in Orgs, NEW p \in Profiles,
           updateBrowserProfile(c, o, p) \/ saveBrowserProfileState(c, o, p)
    PROVE  IInv'
    <1>1. GetByID(o, p) # NULL
        BY DEF updateBrowserProfile, saveBrowserProfileState, Rename, SetIdentity, SaveState, Rewrites
    <1>2. CASE updateBrowserProfile(c, o, p)
        <2>1. Rewrites(c, o, p, GetByID(o, p))
            BY <1>2 DEF updateBrowserProfile, Rename, SetIdentity
        <2>2. QED
            BY <1>1, <2>1, OwnRow, RewritesInv
    <1>3. CASE saveBrowserProfileState(c, o, p)
        <2>1. PICK jar \in {{}, {o}} : Rewrites(c, o, p, CaptureCookies(GetByID(o, p), jar))
            BY <1>3 DEF saveBrowserProfileState, SaveState
        <2>2. PICK old \in ProfileRows : old = GetByID(o, p) /\ old.org = o
            BY <1>1, OwnRow
        <2>3. PICK row \in ProfileRows : row = CaptureCookies(old, jar) /\ row.org = o /\ row.jar = jar
            <3>1. PICK row : row = [old EXCEPT !.jar = jar]
                OBVIOUS
            <3>2. jar \in SUBSET Orgs
                OBVIOUS
            <3>3. row \in ProfileRows /\ row.org = o /\ row.jar = jar
                BY <2>2, <3>1, <3>2 DEF ProfileRows
            <3>4. QED
                BY <3>1, <3>3 DEF CaptureCookies
        <2>4. QED
            BY <2>1, <2>2, <2>3, RewritesInv
    <1>4. QED
        BY <1>2, <1>3


---------------------------------------------------------------------------
(* Steps of a request that change nothing but what it knows. *)

\* A request anywhere but between the start of its browser and its record has no browser of
\* its own to lose.
LEMMA HoldsNone ==
    ASSUME IInv, NEW c \in Clients, call[c].at \notin {"seed", "adopt", "abandon"}
    PROVE  call[c].op = "open" => call[c].sid = NULL
    BY InHand, RowAssumption DEF Sound, Staged, Sessionless

\* The calls that fail, and end the request.
LEMMA GivesUpInv ==
    ASSUME IInv, NEW c \in Clients,
           \/ SpawnFails(c) \/ TouchFails(c) \/ relayed(c) \/ writeCommandError(c) \/ pipeDisplay(c)
           \/ saveCookiesFails(c) \/ ForgetFails(c)
    PROVE  IInv'
    <1>1. /\ Done(c) /\ UNCHANGED <<plane, browser, store>>
          /\ call[c].at \in {"spawn", "touch", "relay", "watching", "capture", "forget"}
        BY DEF SpawnFails, TouchFails, relayed, writeCommandError, Refused, pipeDisplay,
               saveCookiesFails, ForgetFails, At
    <1>2. QED
        BY <1>1, HoldsNone, QuietDone

\* The profile is read: its jar is of the caller's organization.
LEMMA PersonaInv ==
    ASSUME IInv, NEW c \in Clients, persona(c)
    PROVE  IInv'
    <1>1. PICK m : m = call[c] /\ m \in CallRows(m.held) /\ Sound(c, m)
        BY InHand
    <1>2. m.at = "persona" /\ UNCHANGED <<plane, browser, store>>
        BY <1>1 DEF persona, At
    <1>3. m.op = "open" /\ m.sid = NULL
        BY <1>1, <1>2, RowAssumption DEF Sound, Staged, Sessionless
    <1>4. ASSUME NEW jar \in SUBSET Orgs, jar \subseteq {m.org}, NEW k, k \in CallRows(k.held),
                 k.op = m.op, k.at = "spawn", k.org = m.org, k.on = m.on, k.sid = NULL, k.jar = jar,
                 call' = [call EXCEPT ![c] = k]
          PROVE  IInv'
        <2>1. Sound(c, k)
            BY <1>1, <1>3, <1>4, RowAssumption DEF Sound, Staged, Carries, Sessionless
        <2>2. QED
            BY <1>1, <1>2, <1>3, <1>4, <2>1, Quiet
    <1>5. CASE m.profile = NULL
        <2>1. PICK k : k = [m EXCEPT !.at = "spawn"]
            OBVIOUS
        <2>2. /\ k \in CallRows(k.held)
              /\ k.op = m.op /\ k.at = "spawn" /\ k.org = m.org /\ k.on = m.on /\ k.sid = m.sid /\ k.jar = m.jar
            BY <1>1, <2>1 DEF CallRows, Places
        <2>3. call' = [call EXCEPT ![c] = k]
            BY <1>1, <1>5, <2>1 DEF persona, Move, Go
        <2>4. m.jar \in SUBSET Orgs /\ m.jar \subseteq {m.org}
            BY <1>1 DEF CallRows, Sound, Carries
        <2>5. QED
            BY <1>3, <1>4, <2>2, <2>3, <2>4
    <1>6. CASE m.profile # NULL
        <2>1. CASE GetByID(m.org, m.profile) = NULL \/ m.gone
            <3>1. Done(c)
                BY <1>1, <1>6, <2>1 DEF persona
            <3>2. QED
                BY <1>1, <1>2, <1>3, <3>1, QuietDone
        <2>2. CASE ~(GetByID(m.org, m.profile) = NULL \/ m.gone)
            <3>1. m.profile \in Profiles
                BY <1>1, <1>6 DEF CallRows
            <3>2. PICK row \in ProfileRows : row = GetByID(m.org, m.profile) /\ row.jar \subseteq {m.org}
                BY <2>2, <3>1, OwnRow
            <3>3. PICK jar \in SUBSET Orgs : jar = (IF m.storage THEN row.jar ELSE {}) /\ jar \subseteq {m.org}
                BY <3>2 DEF ProfileRows
            <3>4. PICK k : k = [m EXCEPT !.at = "spawn", !.jar = jar]
                OBVIOUS
            <3>5. /\ k \in CallRows(k.held)
                  /\ k.op = m.op /\ k.at = "spawn" /\ k.org = m.org /\ k.on = m.on /\ k.sid = m.sid /\ k.jar = jar
                BY <1>1, <3>4, ZenonT(120) DEF CallRows, Places
            <3>6. call' = [call EXCEPT ![c] = k]
                BY <1>1, <1>6, <2>2, <3>2, <3>3, <3>4 DEF persona, Go
            <3>7. QED
                BY <1>3, <1>4, <3>3, <3>5, <3>6
        <2>3. QED
            BY <2>1, <2>2
    <1>7. QED
        BY <1>5, <1>6

\* An open that cannot seed or register its browser goes on to stop it.
LEMMA AbandonsInv ==
    ASSUME IInv, NEW c \in Clients, SeedFails(c) \/ AdoptFails(c)
    PROVE  IInv'
    <1>1. PICK m : m = call[c] /\ m \in CallRows(m.held) /\ Sound(c, m)
        BY InHand
    <1>2. /\ m.at \in {"seed", "adopt"} /\ UNCHANGED <<plane, browser, store>>
          /\ call' = [call EXCEPT ![c] = [m EXCEPT !.at = "abandon"]]
        BY <1>1 DEF SeedFails, AdoptFails, At, Move, Go
    <1>3. PICK k : k = [m EXCEPT !.at = "abandon"]
        OBVIOUS
    <1>4. /\ k \in CallRows(k.held)
          /\ k.op = m.op /\ k.at = "abandon" /\ k.org = m.org /\ k.on = m.on /\ k.sid = m.sid
          /\ k.jar = m.jar /\ k.profile = m.profile
        BY <1>1, <1>3 DEF CallRows, Places
    <1>5. Bound(k)
        BY <1>1, <1>2, <1>4, RowAssumption DEF Sound, Sessionless, Bound, Staged
    <1>6. Sound(c, k)
        BY <1>1, <1>2, <1>4, <1>5, RowAssumption DEF Sound, Staged, Carries, Sessionless
    <1>7. QED
        BY <1>1, <1>2, <1>3, <1>4, <1>6, Quiet

\* The cookies a close captures are of the caller's organization.
LEMMA CaptureInv ==
    ASSUME IInv, NEW c \in Clients, saveCookies(c)
    PROVE  IInv'
    <1>1. PICK m : m = call[c] /\ m \in CallRows(m.held) /\ Sound(c, m)
        BY InHand
    <1>2. m.at = "capture" /\ Running(m.sid) /\ UNCHANGED <<plane, browser, store>>
        BY <1>1 DEF saveCookies, At, Reaches
    <1>3. m.op = "close" /\ m.sid \in Sessions
        BY <1>1, <1>2, RowAssumption DEF Sound, Staged, Sessionless, CallRows
    <1>4. PICK jar \in SUBSET Orgs : jar = browser[m.sid].jar /\ jar \subseteq {m.org}
        <2>1. browser[m.sid].org = m.org /\ Kept(m.sid) /\ browser[m.sid] \in BrowserRows
            BY <1>1, <1>2, <1>3, BrowsersAssumption DEF Sound, Bound, IInv, SessionsInv, TypeOK, Running
        <2>2. QED
            BY <1>2, <2>1 DEF Kept, BrowserRows
    <1>5. CASE jar = {}
        <2>1. PICK k : k = [m EXCEPT !.at = "stop"]
            OBVIOUS
        <2>2. /\ k \in CallRows(k.held)
              /\ k.op = m.op /\ k.at = "stop" /\ k.org = m.org /\ k.on = m.on /\ k.sid = m.sid /\ k.jar = m.jar
            BY <1>1, <2>1 DEF CallRows, Places
        <2>3. call' = [call EXCEPT ![c] = k]
            BY <1>1, <1>4, <1>5, <2>1 DEF saveCookies, Move, Go
        <2>4. Sound(c, k)
            BY <1>1, <1>2, <1>3, <2>2, RowAssumption DEF Sound, Staged, Carries, Sessionless, Bound
        <2>5. QED
            BY <1>1, <1>2, <1>3, <2>2, <2>3, <2>4, Quiet
    <1>6. CASE jar # {}
        <2>1. PICK k : k = [m EXCEPT !.at = "save", !.jar = jar]
            OBVIOUS
        <2>2. /\ k \in CallRows(k.held)
              /\ k.op = m.op /\ k.at = "save" /\ k.org = m.org /\ k.on = m.on /\ k.sid = m.sid /\ k.jar = jar
              /\ k.profile = m.profile
            BY <1>1, <2>1, ZenonT(120) DEF CallRows, Places
        <2>3. call' = [call EXCEPT ![c] = k]
            BY <1>1, <1>4, <1>6, <2>1 DEF saveCookies, Go
        <2>4. Sound(c, k)
            BY <1>1, <1>2, <1>3, <1>4, <1>6, <2>2, RowAssumption
            DEF Sound, Staged, Carries, Sessionless, Bound
        <2>5. QED
            BY <1>1, <1>2, <1>3, <2>2, <2>3, <2>4, Quiet
    <1>7. QED
        BY <1>5, <1>6

\* The row a close reads is its own, and gets a jar that is not empty.
LEMMA SaveCookiesInv ==
    ASSUME IInv, NEW c \in Clients, SaveCookies(c)
    PROVE  IInv'
    <1>1. PICK m : m = call[c] /\ m \in CallRows(m.held) /\ Sound(c, m)
        BY InHand
    <1>2. m.at = "save" /\ UNCHANGED <<plane, browser, store>>
        BY <1>1 DEF SaveCookies, At
    <1>3. m.op = "close" /\ m.sid \in Sessions /\ m.jar # {} /\ m.jar \subseteq {m.org} /\ m.jar \in SUBSET Orgs
        BY <1>1, <1>2, RowAssumption DEF Sound, Staged, Sessionless, Carries, CallRows
    <1>4. CASE GetByID(m.org, m.profile) = NULL \/ m.gone
        <2>1. Done(c)
            BY <1>1, <1>4 DEF SaveCookies
        <2>2. QED
            BY <1>1, <1>2, <1>3, <2>1, QuietDone
    <1>5. CASE ~(GetByID(m.org, m.profile) = NULL \/ m.gone)
        <2>1. m.profile \in Profiles /\ GetByID(m.org, m.profile) # NULL
            BY <1>1, <1>2, <1>5 DEF Sound, Carries
        <2>2. PICK old \in ProfileRows : old = GetByID(m.org, m.profile) /\ old.org = m.org
            BY <2>1, OwnRow
        <2>3. PICK row : row = [old EXCEPT !.jar = m.jar]
            OBVIOUS
        <2>4. row \in ProfileRows /\ row.org = m.org /\ row.jar = m.jar
            BY <1>3, <2>2, <2>3 DEF ProfileRows
        <2>5. PICK k : k = [m EXCEPT !.at = "write", !.held = row]
            OBVIOUS
        <2>6. /\ k \in CallRows(k.held) /\ k.held = row /\ k.profile = m.profile
              /\ k.op = m.op /\ k.at = "write" /\ k.org = m.org /\ k.on = m.on /\ k.sid = m.sid /\ k.jar = m.jar
            BY <1>1, <2>5, ZenonT(120) DEF CallRows, Places
        <2>7. call' = [call EXCEPT ![c] = k]
            BY <1>1, <1>5, <2>2, <2>3, <2>5 DEF SaveCookies, Go, CaptureCookies
        <2>8. Sound(c, k)
            BY <1>1, <1>2, <1>3, <2>4, <2>6, RowAssumption
            DEF Sound, Staged, Carries, Sessionless, Bound
        <2>9. QED
            BY <1>1, <1>2, <1>3, <2>6, <2>7, <2>8, Quiet
    <1>6. QED
        BY <1>4, <1>5

\* A caller that leaves changes nothing else.
LEMMA CancelInv ==
    ASSUME IInv, NEW c \in Clients, Cancel(c)
    PROVE  IInv'
    <1>1. PICK m : m = call[c] /\ m \in CallRows(m.held) /\ Sound(c, m)
        BY InHand
    <1>2. PICK k : k = [m EXCEPT !.gone = TRUE]
        OBVIOUS
    <1>3. /\ k \in CallRows(k.held) /\ k.held = m.held /\ k.profile = m.profile
          /\ k.op = m.op /\ k.at = m.at /\ k.org = m.org /\ k.on = m.on /\ k.sid = m.sid /\ k.jar = m.jar
        BY <1>1, <1>2 DEF CallRows
    <1>4. call' = [call EXCEPT ![c] = k] /\ UNCHANGED <<plane, browser, store>>
        BY <1>1, <1>2 DEF Cancel, Go
    <1>5. Sound(c, k)
        BY <1>1, <1>3 DEF Sound, Staged, Carries, Sessionless, Bound, Resumes
    <1>6. QED
        BY <1>1, <1>3, <1>4, <1>5, Quiet


---------------------------------------------------------------------------
(* Steps of a request that change a session: its browser, its record. *)

\* Enough of a session to go on with.
LEMMA SessionsKept ==
    ASSUME IInv, \A s \in Sessions : Moves(s) /\ Listed(s)' /\ Retains(s)
    PROVE  SessionsInv'
    BY KeptKept DEF IInv, SessionsInv

\* A session that a step of another session leaves alone.
LEMMA SessionSame ==
    ASSUME IInv, NEW s \in Sessions, browser'[s] = browser[s], record'[s] = record[s],
           Opening(s) => Opening(s)'
    PROVE  Moves(s) /\ Listed(s)' /\ Retains(s)
    <1>1. Listed(s) /\ Kept(s)
        BY DEF IInv, SessionsInv
    <1>2. Moves(s)
        BY DEF Moves
    <1>3. QED
        BY <1>1, <1>2, ListedKept DEF Kept, Retains, Running

\* A step of one request and one session.
LEMMA SessionStep ==
    ASSUME IInv, NEW c \in Clients, NEW k, k \in CallRows(k.held), call' = [call EXCEPT ![c] = k],
           NEW s \in Sessions, UNCHANGED <<plane, profile, live>>,
           browser' \in [Sessions -> BrowserRows \cup {NULL}], record' \in [Sessions -> Records \cup {NULL}],
           \A t \in Sessions \ {s} : browser'[t] = browser[t] /\ record'[t] = record[t],
           call[c].op = "open" => call[c].sid \in {NULL, s},
           Sound(c, k)', Moves(s), Listed(s)', Retains(s)
    PROVE  IInv'
    <1>1. UNCHANGED <<service, starting, children, profile, live>>
        BY DEF plane
    <1>2. ASSUME NEW t \in Sessions PROVE Moves(t) /\ Listed(t)' /\ Retains(t)
        <2>1. CASE t = s
            BY <2>1
        <2>2. CASE t # s
            <3>1. t # NULL /\ browser'[t] = browser[t] /\ record'[t] = record[t]
                BY <2>2, BrowsersAssumption
            <3>2. Opening(t) => Opening(t)'
                BY <2>2, <3>1, Reopens
            <3>3. QED
                BY <3>1, <3>2, SessionSame
        <2>3. QED
            BY <2>1, <2>2
    <1>3. SessionsInv'
        BY <1>2, SessionsKept
    <1>4. /\ CallsInv'
          /\ call' = [d \in Clients |-> call'[d]] /\ \A d \in Clients : call'[d] \in CallRows(call'[d].held)
        BY <1>1, <1>2, CallsStep
    <1>5. TypeOK'
        BY <1>1, <1>4 DEF IInv, TypeOK
    <1>6. HostsInv' /\ ProfilesInv'
        BY <1>1 DEF IInv, HostsInv, HostOf, ProfilesInv
    <1>7. QED
        BY <1>3, <1>4, <1>5, <1>6 DEF IInv

\* A browser as it is started.
LEMMA FreshIs ==
    ASSUME NEW o \in Orgs, NEW p \in Profiles \cup {NULL}, NEW r \in Replicas, NEW jar \in SUBSET Orgs
    PROVE  /\ Fresh(o, p, r, jar) \in BrowserRows
           /\ Fresh(o, p, r, jar).org = o /\ Fresh(o, p, r, jar).profile = p
           /\ Fresh(o, p, r, jar).host = r /\ Fresh(o, p, r, jar).jar = {}
           /\ Fresh(o, p, r, jar).wanted = jar /\ ~Fresh(o, p, r, jar).lost
    BY DEF Fresh, BrowserRows

\* The browser the service starts for an open, which has its id in hand.
LEMMA SpawnInv ==
    ASSUME IInv, NEW c \in Clients, NEW s \in Sessions, Spawn(c, s)
    PROVE  IInv'
    <1>1. PICK m : m = call[c] /\ m \in CallRows(m.held) /\ Sound(c, m)
        BY InHand
    <1>2. m.at = "spawn" /\ browser[s] = NULL /\ UNCHANGED <<plane, record, profile, live>>
        BY <1>1 DEF Spawn, At, store
    <1>3. m.op = "open" /\ m.sid = NULL /\ m.org \in Orgs /\ m.on \in Replicas /\ m.jar \subseteq {m.org}
        BY <1>1, <1>2, RowAssumption DEF Sound, Staged, Sessionless, Carries
    <1>4. PICK b \in BrowserRows : /\ b = Fresh(m.org, m.profile, m.on, m.jar)
                                   /\ b.org = m.org /\ b.profile = m.profile /\ b.host = m.on
                                   /\ b.jar = {} /\ b.wanted = m.jar /\ ~b.lost
        <2>1. m.profile \in Profiles \cup {NULL} /\ m.jar \in SUBSET Orgs
            BY <1>1 DEF CallRows
        <2>2. QED
            BY <1>3, <2>1, FreshIs
    <1>5. b # NULL
        BY RowAssumption
    <1>6. browser' = [browser EXCEPT ![s] = b]
        BY <1>1, <1>4 DEF Spawn, Spawned
    <1>7. PICK k : k = [m EXCEPT !.at = IF m.jar = {} THEN "adopt" ELSE "seed", !.sid = s]
        OBVIOUS
    <1>8. /\ k \in CallRows(k.held) /\ k.profile = m.profile /\ k.sid = s
          /\ k.op = m.op /\ k.org = m.org /\ k.on = m.on /\ k.jar = m.jar
          /\ k.at = IF m.jar = {} THEN "adopt" ELSE "seed"
        <2>1. CASE m.jar = {}
            <3>1. k = [m EXCEPT !.at = "adopt", !.sid = s]
                BY <1>7, <2>1
            <3>2. QED
                BY <1>1, <2>1, <3>1, ZenonT(120) DEF CallRows, Places
        <2>2. CASE m.jar # {}
            <3>1. k = [m EXCEPT !.at = "seed", !.sid = s]
                BY <1>7, <2>2
            <3>2. QED
                BY <1>1, <2>2, <3>1, ZenonT(120) DEF CallRows, Places
        <2>3. QED
            BY <2>1, <2>2
    <1>9. call' = [call EXCEPT ![c] = k]
        BY <1>1, <1>7 DEF Spawn, Go
    <1>10. browser'[s] = b /\ browser' \in [Sessions -> BrowserRows \cup {NULL}]
        BY <1>6 DEF IInv, TypeOK
    <1>11. Bound(k)'
        BY <1>4, <1>5, <1>8, <1>10 DEF Bound, Running
    <1>12. Sound(c, k)'
        <2>1. s # NULL
            BY BrowsersAssumption
        <2>2. QED
            BY <1>3, <1>8, <1>11, <2>1, RowAssumption DEF Sound, Staged, Carries, Sessionless
    <1>13. Moves(s)
        BY <1>2, <1>3, <1>4, <1>5, <1>10 DEF Moves
    <1>14. Listed(s)'
        BY <1>2 DEF IInv, SessionsInv, Listed
    <1>15. Retains(s)
        <2>1. call'[c] = k
            BY <1>9 DEF IInv, TypeOK
        <2>2. QED
            BY <1>3, <1>8, <2>1 DEF Retains, Opening
    <1>16. record' \in [Sessions -> Records \cup {NULL}]
        BY <1>2 DEF IInv, TypeOK
    <1>17. \A t \in Sessions \ {s} : browser'[t] = browser[t] /\ record'[t] = record[t]
        BY <1>2, <1>6 DEF IInv, TypeOK
    <1>18. QED
        BY <1>1, <1>2, <1>3, <1>8, <1>9, <1>10, <1>12, <1>13, <1>14, <1>15, <1>16, <1>17, SessionStep

\* The one whose id is not heard of is lost from the start.
LEMMA SpawnUnheardInv ==
    ASSUME IInv, NEW c \in Clients, NEW s \in Sessions, SpawnUnheard(c, s)
    PROVE  IInv'
    <1>1. PICK m : m = call[c] /\ m \in CallRows(m.held) /\ Sound(c, m)
        BY InHand
    <1>2. m.at = "spawn" /\ browser[s] = NULL /\ UNCHANGED <<plane, record, profile, live>>
        BY <1>1 DEF SpawnUnheard, At, store
    <1>3. m.op = "open" /\ m.sid = NULL /\ m.org \in Orgs /\ m.on \in Replicas /\ m.jar \subseteq {m.org}
        BY <1>1, <1>2, RowAssumption DEF Sound, Staged, Sessionless, Carries
    <1>4. PICK a \in BrowserRows : a = Fresh(m.org, m.profile, m.on, m.jar) /\ a.org = m.org /\ a.jar = {}
        <2>1. m.profile \in Profiles \cup {NULL} /\ m.jar \in SUBSET Orgs
            BY <1>1 DEF CallRows
        <2>2. QED
            BY <1>3, <2>1, FreshIs
    <1>5. PICK b : b = [a EXCEPT !.lost = TRUE]
        OBVIOUS
    <1>6. b \in BrowserRows /\ b.org = m.org /\ b.jar = {} /\ b.lost
        BY <1>4, <1>5 DEF BrowserRows
    <1>7. b # NULL
        BY <1>6, RowAssumption
    <1>8. browser' = [browser EXCEPT ![s] = b]
        BY <1>1, <1>4, <1>5 DEF SpawnUnheard, Spawned, IInv, TypeOK
    <1>9. call' = [call EXCEPT ![c] = Idle]
        BY DEF SpawnUnheard, Done, Go
    <1>10. browser'[s] = b /\ browser' \in [Sessions -> BrowserRows \cup {NULL}]
        BY <1>6, <1>8 DEF IInv, TypeOK
    <1>11. Moves(s)
        BY <1>2, <1>3, <1>6, <1>7, <1>10 DEF Moves
    <1>12. Listed(s)'
        BY <1>2 DEF IInv, SessionsInv, Listed
    <1>13. Retains(s)
        BY <1>6, <1>10 DEF Retains
    <1>14. record' \in [Sessions -> Records \cup {NULL}]
        BY <1>2 DEF IInv, TypeOK
    <1>15. \A t \in Sessions \ {s} : browser'[t] = browser[t] /\ record'[t] = record[t]
        BY <1>2, <1>8 DEF IInv, TypeOK
    <1>16. Idle \in CallRows(Idle.held) /\ Sound(c, Idle)'
        BY IdleSound
    <1>17. QED
        BY <1>1, <1>2, <1>3, <1>9, <1>10, <1>11, <1>12, <1>13, <1>14, <1>15, <1>16, SessionStep


\* What a request with a session id knows of its browser.
LEMMA InReach ==
    ASSUME IInv, NEW c \in Clients, NEW m, m = call[c],
           m.at \in {"seed", "adopt", "abandon", "touch", "relay", "capture", "save", "stop", "forget"}
    PROVE  /\ m \in CallRows(m.held) /\ Sound(c, m) /\ Bound(m) /\ m.org \in Orgs
           /\ m.sid \in Sessions /\ m.sid # NULL /\ browser[m.sid] \in BrowserRows
           /\ m.at \in {"seed", "adopt", "abandon"} <=> m.op = "open"
    <1>1. m \in CallRows(m.held) /\ Sound(c, m)
        BY InHand
    <1>2. Staged(m) /\ m.op # NULL /\ ~Sessionless(m)
        BY <1>1, RowAssumption DEF Sound, Staged, Sessionless
    <1>3. m.sid # NULL /\ Bound(m) /\ m.org \in Orgs
        BY <1>1, <1>2 DEF Sound
    <1>4. m.sid \in Sessions
        BY <1>1, <1>3 DEF CallRows
    <1>5. browser[m.sid] \in BrowserRows
        BY <1>3, <1>4 DEF Bound, IInv, TypeOK
    <1>6. m.at \in {"seed", "adopt", "abandon"} <=> m.op = "open"
        BY <1>2, RowAssumption DEF Staged
    <1>7. QED
        BY <1>1, <1>3, <1>4, <1>5, <1>6

\* Stopping a browser.
LEMMA Stops ==
    ASSUME IInv, NEW s \in Sessions, browser[s] # NULL, browser' = [browser EXCEPT ![s] = Stopped]
    PROVE  /\ browser' \in [Sessions -> BrowserRows \cup {NULL}]
           /\ \A t \in Sessions \ {s} : browser'[t] = browser[t]
           /\ Moves(s) /\ ~Running(s)'
    <1>1. Stopped \in BrowserRows /\ ~Stopped.up
        BY DEF Stopped, BrowserRows
    <1>2. Stopped # NULL
        BY <1>1, RowAssumption
    <1>3. browser'[s] = Stopped
        BY DEF IInv, TypeOK
    <1>4. QED
        BY <1>1, <1>2, <1>3 DEF IInv, TypeOK, Moves, Running

\* Losing one.
LEMMA Loses ==
    ASSUME IInv, NEW s \in Sessions, Lose(s)
    PROVE  /\ browser' \in [Sessions -> BrowserRows \cup {NULL}]
           /\ \A t \in Sessions \ {s} : browser'[t] = browser[t]
           /\ Moves(s) /\ (Running(s)' => browser'[s].lost) /\ (browser[s] # NULL => browser'[s] # NULL)
           /\ Running(s)' => Running(s) /\ browser'[s].org = browser[s].org
    <1>1. CASE Running(s)
        <2>1. PICK a \in BrowserRows : a = browser[s] /\ a.up
            BY <1>1 DEF IInv, TypeOK, Running
        <2>2. PICK b : b = [a EXCEPT !.lost = TRUE]
            OBVIOUS
        <2>3. /\ b \in BrowserRows /\ b.lost /\ b.up /\ b.org = a.org /\ b.profile = a.profile
              /\ b.wanted = a.wanted /\ b.driven = a.driven /\ b.jar = a.jar /\ b.host = a.host
            BY <2>1, <2>2 DEF BrowserRows
        <2>4. b # NULL
            BY <2>3, RowAssumption
        <2>5. browser' = [browser EXCEPT ![s] = b]
            BY <1>1, <2>1, <2>2 DEF Lose
        <2>6. browser'[s] = b /\ Running(s)'
            BY <2>3, <2>4, <2>5 DEF IInv, TypeOK, Running
        <2>7. b.jar \subseteq {a.org}
            BY <1>1, <2>1, <2>3 DEF IInv, SessionsInv, Kept
        <2>8. Moves(s)
            BY <1>1, <2>1, <2>3, <2>6, <2>7 DEF Moves
        <2>9. QED
            BY <1>1, <2>1, <2>3, <2>4, <2>5, <2>6, <2>8 DEF IInv, TypeOK
    <1>2. CASE ~Running(s)
        BY <1>2 DEF Lose, Moves, Running, IInv, TypeOK
    <1>3. QED
        BY <1>1, <1>2

\* A step of one request and the browser it names.
LEMMA ReachStep ==
    ASSUME IInv, NEW c \in Clients, NEW k, k \in CallRows(k.held), call' = [call EXCEPT ![c] = k],
           NEW s \in Sessions, UNCHANGED <<plane, store>>,
           browser' \in [Sessions -> BrowserRows \cup {NULL}],
           \A t \in Sessions \ {s} : browser'[t] = browser[t],
           call[c].op = "open" => call[c].sid \in {NULL, s}, Sound(c, k)', Moves(s), Retains(s)
    PROVE  IInv'
    <1>1. UNCHANGED <<record, profile, live>> /\ record' \in [Sessions -> Records \cup {NULL}]
        BY DEF store, IInv, TypeOK
    <1>2. Listed(s)'
        BY <1>1, ListedKept DEF IInv, SessionsInv
    <1>3. QED
        BY <1>1, <1>2, SessionStep

\* The jar is loaded into the browser it was read for.
LEMMA SeedInv ==
    ASSUME IInv, NEW c \in Clients, Seed(c)
    PROVE  IInv'
    <1>1. PICK m : m = call[c]
        OBVIOUS
    <1>2. m.at = "seed" /\ Running(m.sid) /\ UNCHANGED <<plane, store>>
        BY <1>1 DEF Seed, At, Reaches
    <1>3. /\ m \in CallRows(m.held) /\ Sound(c, m) /\ Bound(m) /\ m.org \in Orgs
          /\ m.sid \in Sessions /\ m.sid # NULL /\ browser[m.sid] \in BrowserRows /\ m.op = "open"
        BY <1>1, <1>2, InReach
    <1>4. PICK s \in Sessions, a \in BrowserRows : s = m.sid /\ a = browser[s] /\ a.up
        BY <1>2, <1>3 DEF Running
    <1>5. PICK b : b = [a EXCEPT !.jar = m.jar]
        OBVIOUS
    <1>6. /\ b \in BrowserRows /\ b.up /\ b.org = a.org /\ b.profile = a.profile /\ b.wanted = a.wanted
          /\ b.driven = a.driven /\ b.jar = m.jar /\ b.host = a.host /\ b.lost = a.lost
        <2>1. m.jar \in SUBSET Orgs
            BY <1>3 DEF CallRows
        <2>2. QED
            BY <1>4, <1>5, <2>1 DEF BrowserRows
    <1>7. b # NULL
        BY <1>6, RowAssumption
    <1>8. browser' = [browser EXCEPT ![s] = b]
        BY <1>1, <1>4, <1>5 DEF Seed
    <1>9. /\ browser'[s] = b /\ browser' \in [Sessions -> BrowserRows \cup {NULL}]
          /\ \A t \in Sessions \ {s} : browser'[t] = browser[t]
        BY <1>6, <1>8 DEF IInv, TypeOK
    <1>10. /\ a.org = m.org /\ a.wanted = m.jar /\ a.profile = m.profile /\ (a.lost \/ a.host = m.on)
           /\ m.jar \subseteq {m.org}
        BY <1>2, <1>3, <1>4 DEF Bound, Sound, Carries
    <1>11. PICK k : k = [m EXCEPT !.at = "adopt"]
        OBVIOUS
    <1>12. /\ k \in CallRows(k.held) /\ k.profile = m.profile /\ k.at = "adopt"
           /\ k.op = m.op /\ k.org = m.org /\ k.on = m.on /\ k.sid = m.sid /\ k.jar = m.jar
        BY <1>3, <1>11 DEF CallRows, Places
    <1>13. call' = [call EXCEPT ![c] = k]
        BY <1>1, <1>11 DEF Seed, Move, Go
    <1>14. Bound(k)'
        BY <1>3, <1>4, <1>6, <1>7, <1>9, <1>10, <1>12 DEF Bound, Running
    <1>15. Sound(c, k)'
        BY <1>3, <1>2, <1>12, <1>14, RowAssumption DEF Sound, Staged, Carries, Sessionless
    <1>16. Moves(s)
        BY <1>4, <1>6, <1>7, <1>9, <1>10, <1>2 DEF Moves, Running
    <1>17. Retains(s)
        <2>1. call'[c] = k
            BY <1>13 DEF IInv, TypeOK
        <2>2. QED
            BY <1>3, <1>4, <1>12, <2>1 DEF Retains, Opening
    <1>18. QED
        BY <1>1, <1>2, <1>4, <1>9, <1>12, <1>13, <1>15, <1>16, <1>17, ReachStep

\* An open stops its browser, or loses it.
LEMMA AbandonInv ==
    ASSUME IInv, NEW c \in Clients, abandon(c) \/ abandonFails(c)
    PROVE  IInv'
    <1>1. PICK s : s = call[c].sid
        OBVIOUS
    <1>2. call[c].at = "abandon" /\ call' = [call EXCEPT ![c] = Idle] /\ UNCHANGED <<plane, store>>
        BY DEF abandon, abandonFails, At, Done, Go
    <1>3. s \in Sessions /\ browser[s] # NULL
        BY <1>1, <1>2, InReach DEF Bound
    <1>4. /\ browser' \in [Sessions -> BrowserRows \cup {NULL}]
          /\ \A t \in Sessions \ {s} : browser'[t] = browser[t]
          /\ Moves(s) /\ (Running(s)' => browser'[s].lost)
        BY <1>1, <1>3, Stops, Loses DEF abandon, abandonFails
    <1>5. Retains(s)
        BY <1>4 DEF Retains
    <1>6. QED
        BY <1>1, <1>2, <1>3, <1>4, <1>5, IdleSound, ReachStep


\* A command changes the jar of a browser of the caller's organization.
LEMMA RelayInv ==
    ASSUME IInv, NEW c \in Clients, NEW jar \in Driven(c), Relay(c, jar)
    PROVE  IInv'
    <1>1. PICK m : m = call[c]
        OBVIOUS
    <1>2. /\ m.at = "relay" /\ Running(m.sid) /\ UNCHANGED <<plane, store>>
          /\ call' = [call EXCEPT ![c] = Idle]
        BY <1>1 DEF Relay, At, Reaches, Done, Go
    <1>3. /\ m \in CallRows(m.held) /\ Sound(c, m) /\ Bound(m) /\ m.org \in Orgs
          /\ m.sid \in Sessions /\ m.sid # NULL /\ browser[m.sid] \in BrowserRows /\ m.op # "open"
        BY <1>1, <1>2, InReach
    <1>4. PICK s \in Sessions, a \in BrowserRows : s = m.sid /\ a = browser[s] /\ a.up
        BY <1>2, <1>3 DEF Running
    <1>5. a.org = m.org /\ a.jar \subseteq {a.org} /\ a.jar \in SUBSET Orgs
        BY <1>2, <1>3, <1>4 DEF Bound, IInv, SessionsInv, Kept, BrowserRows
    <1>6. jar \in {a.jar, a.jar \cup {m.org}, {}}
        BY <1>1, <1>4 DEF Driven, AfterCommand, AfterCookies
    <1>7. jar \in SUBSET Orgs /\ jar \subseteq {a.org}
        BY <1>3, <1>5, <1>6
    <1>8. PICK b : b = [a EXCEPT !.jar = jar, !.driven = TRUE]
        OBVIOUS
    <1>9. /\ b \in BrowserRows /\ b.up /\ b.org = a.org /\ b.profile = a.profile /\ b.wanted = a.wanted
          /\ b.driven /\ b.jar = jar /\ b.host = a.host /\ b.lost = a.lost
        BY <1>4, <1>7, <1>8 DEF BrowserRows
    <1>10. b # NULL
        BY <1>9, RowAssumption
    <1>11. browser' = [browser EXCEPT ![s] = b]
        BY <1>1, <1>4, <1>8 DEF Relay, IInv, TypeOK
    <1>12. /\ browser'[s] = b /\ browser' \in [Sessions -> BrowserRows \cup {NULL}]
           /\ \A t \in Sessions \ {s} : browser'[t] = browser[t]
        BY <1>9, <1>11 DEF IInv, TypeOK
    <1>13. Moves(s)
        BY <1>2, <1>4, <1>7, <1>9, <1>10, <1>12 DEF Moves, Running
    <1>14. Retains(s)
        <2>1. Opening(s) => Opening(s)'
            BY <1>1, <1>2, <1>3, Reopens
        <2>2. Kept(s) /\ record' = record
            BY <1>2 DEF IInv, SessionsInv, store
        <2>3. QED
            BY <1>2, <1>4, <1>9, <1>12, <2>1, <2>2 DEF Kept, Retains
    <1>15. QED
        BY <1>1, <1>2, <1>3, <1>4, <1>12, <1>13, <1>14, IdleSound, ReachStep

\* A close stops the browser, or loses it, and goes on to its record.
LEMMA StopInv ==
    ASSUME IInv, NEW c \in Clients, Stop(c) \/ StopFails(c)
    PROVE  IInv'
    <1>1. PICK m : m = call[c]
        OBVIOUS
    <1>2. m.at = "stop" /\ call' = [call EXCEPT ![c] = [m EXCEPT !.at = "forget"]] /\ UNCHANGED <<plane, store>>
        BY <1>1 DEF Stop, StopFails, At, Move, Go
    <1>3. /\ m \in CallRows(m.held) /\ Sound(c, m) /\ Bound(m) /\ m.org \in Orgs
          /\ m.sid \in Sessions /\ m.sid # NULL /\ m.op # "open"
        BY <1>1, <1>2, InReach
    <1>4. PICK s \in Sessions : s = m.sid /\ browser[s] # NULL
        BY <1>3 DEF Bound
    <1>5. /\ browser' \in [Sessions -> BrowserRows \cup {NULL}]
          /\ \A t \in Sessions \ {s} : browser'[t] = browser[t]
          /\ Moves(s) /\ (Running(s)' => browser'[s].lost) /\ browser'[s] # NULL
          /\ Running(s)' => Running(s) /\ browser'[s].org = browser[s].org
        <2>1. CASE Stop(c)
            <3>1. browser' = [browser EXCEPT ![s] = Stopped]
                BY <1>1, <1>4, <2>1 DEF Stop
            <3>2. QED
                BY <1>4, <3>1, Stops DEF Moves
        <2>2. CASE StopFails(c)
            <3>1. Lose(s)
                BY <1>1, <1>4, <2>2 DEF StopFails
            <3>2. QED
                BY <1>4, <3>1, Loses
        <2>3. QED
            BY <2>1, <2>2
    <1>6. PICK k : k = [m EXCEPT !.at = "forget"]
        OBVIOUS
    <1>7. /\ k \in CallRows(k.held) /\ k.profile = m.profile /\ k.at = "forget"
          /\ k.op = m.op /\ k.org = m.org /\ k.on = m.on /\ k.sid = m.sid /\ k.jar = m.jar
        BY <1>3, <1>6 DEF CallRows, Places
    <1>8. Bound(k)'
        BY <1>3, <1>4, <1>5, <1>7 DEF Bound
    <1>9. Sound(c, k)'
        BY <1>2, <1>3, <1>7, <1>8, RowAssumption DEF Sound, Staged, Carries, Sessionless
    <1>10. Retains(s)
        BY <1>5 DEF Retains
    <1>11. QED
        BY <1>1, <1>2, <1>3, <1>4, <1>5, <1>6, <1>7, <1>9, <1>10, ReachStep

\* A step of one request and the record of its session.
LEMMA RecordStep ==
    ASSUME IInv, NEW c \in Clients, NEW k, k \in CallRows(k.held), call' = [call EXCEPT ![c] = k],
           NEW s \in Sessions, UNCHANGED <<plane, browser, profile, live>>,
           record' \in [Sessions -> Records \cup {NULL}],
           \A t \in Sessions \ {s} : record'[t] = record[t],
           call[c].op = "open" => call[c].sid \in {NULL, s}, Sound(c, k), Listed(s)', Retains(s)
    PROVE  IInv'
    <1>1. \A t \in Sessions : Moves(t)
        BY DEF Moves
    <1>2. browser' \in [Sessions -> BrowserRows \cup {NULL}]
        BY DEF IInv, TypeOK
    <1>3. Sound(c, k)'
        <2>1. k.sid # NULL => Moves(k.sid)
            BY DEF Moves
        <2>2. k.at = "starting" => starting'[k.on] = starting[k.on]
            BY DEF plane
        <2>3. QED
            BY <2>1, <2>2, SoundKept
    <1>4. QED
        BY <1>1, <1>2, <1>3, SessionStep

\* Adopt registers a browser that is seeded.
LEMMA AdoptInv ==
    ASSUME IInv, NEW c \in Clients, Adopt(c)
    PROVE  IInv'
    <1>1. PICK m : m = call[c]
        OBVIOUS
    <1>2. /\ m.at = "adopt" /\ UNCHANGED <<plane, browser, profile, live>>
          /\ call' = [call EXCEPT ![c] = Idle]
        BY <1>1 DEF Adopt, At, Done, Go
    <1>3. /\ m \in CallRows(m.held) /\ Sound(c, m) /\ Bound(m) /\ m.org \in Orgs
          /\ m.sid \in Sessions /\ m.sid # NULL /\ m.op = "open"
        BY <1>1, <1>2, InReach
    <1>4. PICK s \in Sessions : s = m.sid /\ browser[s] # NULL
        BY <1>3 DEF Bound
    <1>5. PICK session : session = [NewSession(m.org, m.profile, m.on) EXCEPT !.leased = TRUE]
        OBVIOUS
    <1>6. session \in Records /\ session.org = m.org /\ session.profile = m.profile
        <2>1. m.on \in Replicas /\ m.profile \in Profiles \cup {NULL}
            BY <1>3, RowAssumption DEF Sound, CallRows
        <2>2. QED
            BY <1>3, <1>5, <2>1 DEF NewSession, Records
    <1>7. session # NULL
        BY <1>6, RowAssumption
    <1>8. record' = [record EXCEPT ![s] = session]
        BY <1>1, <1>4, <1>5 DEF Adopt, Save
    <1>9. /\ record'[s] = session /\ record' \in [Sessions -> Records \cup {NULL}]
          /\ \A t \in Sessions \ {s} : record'[t] = record[t]
        BY <1>6, <1>8 DEF IInv, TypeOK
    <1>10. Listed(s)'
        BY <1>2, <1>3, <1>4, <1>6, <1>9 DEF Listed, Bound, Running
    <1>11. Retains(s)
        BY <1>7, <1>9 DEF Retains
    <1>12. QED
        BY <1>1, <1>2, <1>3, <1>4, <1>9, <1>10, <1>11, IdleSound, RecordStep

\* Touch writes back what it read, which still agrees with the browser.
LEMMA TouchInv ==
    ASSUME IInv, NEW c \in Clients, Touch(c)
    PROVE  IInv'
    <1>1. PICK m : m = call[c]
        OBVIOUS
    <1>2. m.at = "touch" /\ UNCHANGED <<plane, browser, profile, live>>
        BY <1>1 DEF Touch, At
    <1>3. /\ m \in CallRows(m.held) /\ Sound(c, m) /\ Bound(m) /\ m.org \in Orgs
          /\ m.sid \in Sessions /\ m.sid # NULL /\ m.op # "open"
        BY <1>1, <1>2, InReach
    <1>4. CASE m.gone
        <2>1. Done(c) /\ record' = record
            BY <1>1, <1>4 DEF Touch
        <2>2. UNCHANGED <<plane, browser, store>>
            BY <1>2, <2>1 DEF store
        <2>3. QED
            BY <1>1, <1>3, <2>1, <2>2, QuietDone
    <1>5. CASE ~m.gone
        <2>1. PICK s \in Sessions, old \in Records : /\ s = m.sid /\ browser[s] # NULL
                                                     /\ old = m.held /\ old.org = m.org
            BY <1>2, <1>3 DEF Sound, Carries, Bound
        <2>2. PICK session : session = [old EXCEPT !.leased = TRUE]
            OBVIOUS
        <2>3. session \in Records /\ session.org = old.org /\ session.profile = old.profile
            BY <2>1, <2>2 DEF Records
        <2>4. session # NULL
            BY <2>3, RowAssumption
        <2>5. record' = [record EXCEPT ![s] = session]
            BY <1>1, <1>5, <2>1, <2>2 DEF Touch, Save
        <2>6. /\ record'[s] = session /\ record' \in [Sessions -> Records \cup {NULL}]
              /\ \A t \in Sessions \ {s} : record'[t] = record[t]
            BY <2>3, <2>5 DEF IInv, TypeOK
        <2>7. Listed(s)'
            BY <1>2, <1>3, <2>1, <2>3, <2>6 DEF Listed, Bound, Running
        <2>8. Retains(s)
            BY <2>4, <2>6 DEF Retains
        <2>9. PICK k : k = [m EXCEPT !.at = "relay", !.held = NULL]
            OBVIOUS
        <2>10. /\ k \in CallRows(k.held) /\ k.at = "relay"
               /\ k.op = m.op /\ k.org = m.org /\ k.on = m.on /\ k.sid = m.sid /\ k.jar = m.jar
            BY <1>3, <2>9 DEF CallRows, Places
        <2>11. call' = [call EXCEPT ![c] = k]
            BY <1>1, <1>5, <2>9 DEF Touch, Go
        <2>12. Sound(c, k)
            BY <1>2, <1>3, <2>10, RowAssumption DEF Sound, Staged, Carries, Sessionless, Bound
        <2>13. QED
            BY <1>1, <1>2, <1>3, <2>6, <2>7, <2>8, <2>10, <2>11, <2>12, RecordStep
    <1>6. QED
        BY <1>4, <1>5

\* The record goes once the browser is stopped, or lost.
LEMMA ForgetInv ==
    ASSUME IInv, NEW c \in Clients, Forget(c)
    PROVE  IInv'
    <1>1. PICK m : m = call[c]
        OBVIOUS
    <1>2. /\ m.at = "forget" /\ UNCHANGED <<plane, browser, profile, live>>
          /\ call' = [call EXCEPT ![c] = Idle] /\ Done(c)
        BY <1>1 DEF Forget, At, Done, Go
    <1>3. Bound(m) /\ m.sid \in Sessions /\ m.op # "open"
        BY <1>1, <1>2, InReach
    <1>4. PICK s \in Sessions : s = m.sid
        BY <1>3
    <1>5. CASE record' = record
        <2>1. UNCHANGED <<plane, browser, store>>
            BY <1>2, <1>5 DEF store
        <2>2. QED
            BY <1>1, <1>2, <1>3, <2>1, QuietDone
    <1>6. CASE record' = [record EXCEPT ![s] = NULL]
        <2>1. /\ record'[s] = NULL /\ record' \in [Sessions -> Records \cup {NULL}]
              /\ \A t \in Sessions \ {s} : record'[t] = record[t]
            BY <1>6 DEF IInv, TypeOK
        <2>2. Listed(s)'
            BY <2>1 DEF Listed
        <2>3. Retains(s)
            BY <1>2, <1>3, <1>4 DEF Retains, Bound, Running
        <2>4. QED
            BY <1>1, <1>2, <1>3, <1>4, <2>1, <2>2, <2>3, IdleSound, RecordStep
    <1>7. QED
        BY <1>1, <1>4, <1>5, <1>6 DEF Forget


---------------------------------------------------------------------------
(* The supervisor. *)

\* A step of one request and the supervisor of its host.
LEMMA HostStep ==
    ASSUME IInv, NEW c \in Clients, NEW k, k \in CallRows(k.held), call' = [call EXCEPT ![c] = k],
           NEW r \in Replicas, UNCHANGED <<browser, store>>,
           service' \in [Replicas -> {"none", "up", "dead"}],
           starting' \in [Replicas -> Clients \cup {NULL}], children' \in [Replicas -> Nat],
           \A q \in Replicas \ {r} : /\ service'[q] = service[q] /\ starting'[q] = starting[q]
                                     /\ children'[q] = children[q],
           starting[r] \in {NULL, c}, HostOf(r)',
           call[c].op = "open" /\ call[c].sid # NULL => k.op = "open" /\ k.sid = call[c].sid,
           Sound(c, k)'
    PROVE  IInv'
    <1>1. UNCHANGED <<record, profile, live, browser>> /\ \A s \in Sessions : Moves(s)
        BY DEF store, Moves
    <1>2. /\ CallsInv'
          /\ call' = [d \in Clients |-> call'[d]] /\ \A d \in Clients : call'[d] \in CallRows(call'[d].held)
        BY <1>1, CallsStep
    <1>3. ASSUME NEW s \in Sessions PROVE Moves(s) /\ Listed(s)' /\ Retains(s)
        <2>1. s # NULL
            BY BrowsersAssumption
        <2>2. Opening(s) => Opening(s)'
            BY <2>1, Reopens
        <2>3. QED
            BY <1>1, <2>2, SessionSame
    <1>4. SessionsInv'
        BY <1>3, SessionsKept
    <1>5. ASSUME NEW q \in Replicas PROVE HostOf(q)'
        BY DEF IInv, HostsInv, HostOf
    <1>6. TypeOK'
        BY <1>1, <1>2 DEF IInv, TypeOK
    <1>7. QED
        BY <1>1, <1>2, <1>4, <1>5, <1>6 DEF IInv, HostsInv, ProfilesInv

\* A request finds no service, and starts one.
LEMMA ClientInv ==
    ASSUME IInv, NEW c \in Clients, Client(c)
    PROVE  IInv'
    <1>1. PICK m : m = call[c] /\ m \in CallRows(m.held) /\ Sound(c, m)
        BY InHand
    <1>2. m.at \in Asks /\ UNCHANGED <<browser, store, service>>
        BY <1>1 DEF Client
    <1>3. \/ m.op = "open" /\ m.at = "persona"
          \/ m.op = "drive" /\ m.at = "relay"
          \/ m.op = "close" /\ m.at \in {"capture", "stop"}
        BY <1>1, <1>2, RowAssumption DEF Sound, Staged, Asks
    <1>4. PICK r \in Replicas : r = m.on /\ starting[r] = NULL /\ service[r] = "none"
        BY <1>1, <1>3, RowAssumption DEF Sound, Client, alive
    <1>5. PICK h \in Places : h = m.at
        BY <1>1 DEF CallRows
    <1>6. PICK k : k = [m EXCEPT !.at = "starting", !.held = h]
        OBVIOUS
    <1>7. /\ k \in CallRows(k.held) /\ k.at = "starting" /\ k.held = m.at /\ k.profile = m.profile
          /\ k.op = m.op /\ k.org = m.org /\ k.on = m.on /\ k.sid = m.sid /\ k.jar = m.jar
        <2>1. /\ k.at = "starting" /\ k.held = h /\ k.profile = m.profile
              /\ k.op = m.op /\ k.org = m.org /\ k.on = m.on /\ k.sid = m.sid /\ k.jar = m.jar
            BY <1>1, <1>6 DEF CallRows
        <2>2. k \in CallRows(h)
            BY <1>1, <1>6, ZenonT(120) DEF CallRows, Places
        <2>3. QED
            BY <1>5, <2>1, <2>2
    <1>8. call' = [call EXCEPT ![c] = k] /\ starting' = [starting EXCEPT ![r] = c]
          /\ children' = [children EXCEPT ![r] = @ + 1]
        BY <1>1, <1>4, <1>5, <1>6 DEF Client, start, Go
    <1>9. children[r] = 0 /\ starting'[r] = c /\ children'[r] = 1
        BY <1>4, <1>8 DEF IInv, TypeOK, HostsInv, HostOf
    <1>10. /\ service' \in [Replicas -> {"none", "up", "dead"}]
          /\ starting' \in [Replicas -> Clients \cup {NULL}] /\ children' \in [Replicas -> Nat]
          /\ \A q \in Replicas \ {r} : /\ service'[q] = service[q] /\ starting'[q] = starting[q]
                                       /\ children'[q] = children[q]
        BY <1>2, <1>8 DEF IInv, TypeOK
    <1>11. HostOf(r)'
        <2>1. c # NULL
            BY BrowsersAssumption
        <2>2. QED
            BY <1>2, <1>4, <1>9, <2>1 DEF HostOf
    <1>12. Sound(c, k)'
        <2>1. k.sid # NULL => Bound(k)'
            BY <1>1, <1>2, <1>3, <1>7, RowAssumption DEF Sound, Bound, Running, Sessionless
        <2>2. Staged(k) /\ Carries(k) /\ Resumes(k) /\ (Sessionless(k) <=> Sessionless(m))
            BY <1>1, <1>3, <1>7, RowAssumption DEF Sound, Staged, Carries, Resumes, Sessionless
        <2>3. QED
            BY <1>1, <1>4, <1>7, <1>9, <2>1, <2>2 DEF Sound, Staged, Carries, Resumes, Sessionless
    <1>13. call[c].op = "open" => call[c].sid = NULL
        BY <1>1, <1>3 DEF Sound, Sessionless
    <1>14. QED
        BY <1>2, <1>4, <1>7, <1>8, <1>10, <1>11, <1>12, <1>13, HostStep

\* What a request that starts a service has in hand.
LEMMA Starts ==
    ASSUME IInv, NEW c \in Clients, NEW m, m = call[c], m.at = "starting"
    PROVE  /\ m \in CallRows(m.held) /\ Sound(c, m) /\ Resumes(m)
           /\ m.on \in Replicas /\ starting[m.on] = c /\ service[m.on] = "none" /\ children[m.on] = 1
           /\ m.op = "open" => m.sid = NULL
    <1>1. m \in CallRows(m.held) /\ Sound(c, m)
        BY InHand
    <1>2. Resumes(m) /\ m.on \in Replicas /\ starting[m.on] = c
        BY <1>1, RowAssumption DEF Sound, Resumes
    <1>3. c # NULL
        BY BrowsersAssumption
    <1>4. service[m.on] = "none" /\ children[m.on] = 1
        BY <1>2, <1>3 DEF IInv, HostsInv, HostOf
    <1>5. m.op = "open" => m.sid = NULL
        BY <1>1 DEF Sound, Sessionless
    <1>6. QED
        BY <1>1, <1>2, <1>4, <1>5

\* It comes up, and the request goes on where it was.
LEMMA StartReadyInv ==
    ASSUME IInv, NEW c \in Clients, StartReady(c)
    PROVE  IInv'
    <1>1. PICK m : m = call[c]
        OBVIOUS
    <1>2. m.at = "starting" /\ UNCHANGED <<browser, store, children>>
        BY <1>1 DEF StartReady, At
    <1>3. /\ m \in CallRows(m.held) /\ Sound(c, m) /\ Resumes(m)
          /\ m.on \in Replicas /\ starting[m.on] = c /\ service[m.on] = "none" /\ children[m.on] = 1
          /\ m.op = "open" => m.sid = NULL
        BY <1>1, <1>2, Starts
    <1>4. PICK r \in Replicas : r = m.on
        BY <1>3
    <1>5. PICK k : k = [m EXCEPT !.at = m.held, !.held = NULL]
        OBVIOUS
    <1>6. /\ k \in CallRows(k.held) /\ k.at = m.held /\ k.profile = m.profile
          /\ k.op = m.op /\ k.org = m.org /\ k.on = m.on /\ k.sid = m.sid /\ k.jar = m.jar
        <2>1. m.held \in Places
            BY <1>3 DEF Resumes, Places
        <2>2. QED
            BY <1>3, <1>5, <2>1 DEF CallRows
    <1>7. /\ call' = [call EXCEPT ![c] = k] /\ starting' = [starting EXCEPT ![r] = NULL]
          /\ service' = [service EXCEPT ![r] = "up"]
        BY <1>1, <1>4, <1>5 DEF StartReady, Go
    <1>8. /\ service' \in [Replicas -> {"none", "up", "dead"}]
          /\ starting' \in [Replicas -> Clients \cup {NULL}] /\ children' \in [Replicas -> Nat]
          /\ \A q \in Replicas \ {r} : /\ service'[q] = service[q] /\ starting'[q] = starting[q]
                                       /\ children'[q] = children[q]
          /\ starting'[r] = NULL /\ service'[r] = "up" /\ children'[r] = 1
        BY <1>2, <1>3, <1>4, <1>7 DEF IInv, TypeOK
    <1>9. HostOf(r)'
        BY <1>8 DEF HostOf
    <1>10. Sound(c, k)'
        <2>1. k.sid # NULL => Bound(k)'
            BY <1>2, <1>3, <1>6 DEF Sound, Bound, Running, Resumes
        <2>2. Staged(k) /\ Carries(k) /\ (Sessionless(k) <=> Sessionless(m)) /\ k.at # "starting"
            BY <1>2, <1>3, <1>6, RowAssumption DEF Sound, Staged, Carries, Resumes, Sessionless
        <2>3. QED
            BY <1>3, <1>6, <2>1, <2>2 DEF Sound, Staged, Carries, Sessionless
    <1>11. QED
        BY <1>1, <1>2, <1>3, <1>4, <1>6, <1>7, <1>8, <1>9, <1>10, HostStep

\* It does not, and no process is left.
LEMMA StartFailsInv ==
    ASSUME IInv, NEW c \in Clients, StartFails(c)
    PROVE  IInv'
    <1>1. PICK m : m = call[c]
        OBVIOUS
    <1>2. m.at = "starting" /\ UNCHANGED <<browser, store, service>> /\ call' = [call EXCEPT ![c] = Idle]
        BY <1>1 DEF StartFails, At, Done, Go
    <1>3. /\ m.on \in Replicas /\ starting[m.on] = c /\ service[m.on] = "none" /\ children[m.on] = 1
          /\ m.op = "open" => m.sid = NULL
        BY <1>1, <1>2, Starts
    <1>4. PICK r \in Replicas : r = m.on
        BY <1>3
    <1>5. /\ starting' = [starting EXCEPT ![r] = NULL] /\ children' = [children EXCEPT ![r] = @ - 1]
        BY <1>1, <1>4 DEF StartFails
    <1>6. starting'[r] = NULL /\ children'[r] = 0 /\ service'[r] = "none"
        BY <1>2, <1>3, <1>4, <1>5 DEF IInv, TypeOK
    <1>7. /\ service' \in [Replicas -> {"none", "up", "dead"}]
          /\ starting' \in [Replicas -> Clients \cup {NULL}] /\ children' \in [Replicas -> Nat]
          /\ \A q \in Replicas \ {r} : /\ service'[q] = service[q] /\ starting'[q] = starting[q]
                                       /\ children'[q] = children[q]
        BY <1>2, <1>3, <1>4, <1>5 DEF IInv, TypeOK
    <1>8. HostOf(r)'
        BY <1>6 DEF HostOf
    <1>9. QED
        BY <1>1, <1>2, <1>3, <1>4, <1>7, <1>8, IdleSound, HostStep

---------------------------------------------------------------------------
(* Profiles. *)

\* The row a request writes has the logins of its organization only.
LEMMA WriteProfileInv ==
    ASSUME IInv, NEW c \in Clients, WriteProfile(c)
    PROVE  IInv'
    <1>1. PICK m : m = call[c] /\ m \in CallRows(m.held) /\ Sound(c, m)
        BY InHand
    <1>2. m.at = "write" /\ UNCHANGED <<plane, browser, record, live>>
        BY <1>1 DEF WriteProfile, At
    <1>3. m.profile \in Profiles /\ m.held \in ProfileRows /\ m.held.org = m.org /\ m.held.jar \subseteq {m.org}
        BY <1>1, <1>2 DEF Sound, Carries
    <1>4. profile' = profile \/ profile' = [profile EXCEPT ![m.profile] = m.held]
        BY <1>1 DEF WriteProfile, Update
    <1>5. profile' \in [Profiles -> ProfileRows \cup {NULL, DELETED}] /\ ProfilesInv'
        BY <1>3, <1>4 DEF IInv, TypeOK, ProfilesInv
    <1>6. PICK k : /\ k \in CallRows(k.held) /\ Sound(c, k) /\ call' = [call EXCEPT ![c] = k]
                   /\ m.op # "open"
        <2>1. m.op # "open"
            BY <1>1, <1>2 DEF Sound, Staged
        <2>2. CASE Done(c)
            BY <2>1, <2>2, IdleSound DEF Done, Go
        <2>3. CASE /\ call[c].op = "close"
                   /\ Go(c, [call[c] EXCEPT !.at = "stop", !.jar = {}, !.held = NULL])
            <3>1. PICK k : k = [m EXCEPT !.at = "stop", !.jar = {}, !.held = NULL]
                OBVIOUS
            <3>2. /\ k \in CallRows(k.held) /\ k.at = "stop"
                  /\ k.op = m.op /\ k.org = m.org /\ k.on = m.on /\ k.sid = m.sid /\ k.jar = {}
                BY <1>1, <3>1, ZenonT(120) DEF CallRows, Places
            <3>3. Sound(c, k)
                BY <1>1, <1>2, <2>3, <3>2, RowAssumption DEF Sound, Staged, Carries, Sessionless, Bound
            <3>4. QED
                BY <1>1, <2>1, <2>3, <3>1, <3>2, <3>3 DEF Go
        <2>4. QED
            BY <2>2, <2>3 DEF WriteProfile
    <1>7. \A s \in Sessions : Moves(s)
        BY <1>2 DEF Moves
    <1>8. Sound(c, k)'
        <2>1. k.sid # NULL => Moves(k.sid)
            BY <1>2 DEF Moves
        <2>2. k.at = "starting" => starting'[k.on] = starting[k.on]
            BY <1>2 DEF plane
        <2>3. QED
            BY <1>6, <2>1, <2>2, SoundKept
    <1>9. UNCHANGED <<service, starting, children>>
        BY <1>2 DEF plane
    <1>10. /\ CallsInv'
           /\ call' = [d \in Clients |-> call'[d]] /\ \A d \in Clients : call'[d] \in CallRows(call'[d].held)
        BY <1>6, <1>7, <1>8, <1>9, CallsStep
    <1>11. ASSUME NEW s \in Sessions PROVE Moves(s) /\ Listed(s)' /\ Retains(s)
        BY <1>1, <1>2, <1>6, Reopens, SessionSame
    <1>12. SessionsInv'
        BY <1>11, SessionsKept
    <1>13. TypeOK' /\ HostsInv'
        BY <1>2, <1>5, <1>9, <1>10 DEF IInv, TypeOK, HostsInv, HostOf
    <1>14. QED
        BY <1>5, <1>10, <1>12, <1>13 DEF IInv

\* A profile is created empty; a deleted one is gone.
LEMMA CreateDeleteInv ==
    ASSUME IInv, NEW c \in Clients, NEW o \in Orgs, NEW p \in Profiles,
           createBrowserProfile(c, o, p) \/ deleteBrowserProfile(c, o, p)
    PROVE  IInv'
    <1>1. /\ UNCHANGED <<service, starting, children, browser, record, live, call>>
          /\ profile' = [profile EXCEPT ![p] = NewProfile(o)] \/ profile' = [profile EXCEPT ![p] = DELETED]
        BY DEF createBrowserProfile, deleteBrowserProfile, Create, Delete, plane
    <1>2. PICK row \in ProfileRows : row = NewProfile(o) /\ row.jar = {}
        <2>1. NewProfile(o) \in ProfileRows
            BY DEF NewProfile, ProfileRows
        <2>2. NewProfile(o).jar = {}
            BY DEF NewProfile
        <2>3. QED
            BY <2>1, <2>2
    <1>3. profile' \in [Profiles -> ProfileRows \cup {NULL, DELETED}] /\ ProfilesInv'
        BY <1>1, <1>2 DEF IInv, TypeOK, ProfilesInv
    <1>4. TypeOK' /\ HostsInv'
        BY <1>1, <1>3 DEF IInv, TypeOK, HostsInv, HostOf
    <1>5. SessionsInv'
        BY <1>1 DEF IInv, SessionsInv, Listed, Kept, Running, Opening
    <1>6. CallsInv'
        BY <1>1 DEF IInv, CallsInv, Sound, Staged, Carries, Sessionless, Resumes, Bound, Running
    <1>7. QED
        BY <1>3, <1>4, <1>5, <1>6 DEF IInv


---------------------------------------------------------------------------
(* The world. *)

\* A caller that leaves changes nothing else of its request.
LEMMA GoneIs ==
    ASSUME IInv, NEW c \in Clients
    PROVE  \E k : /\ k = [call[c] EXCEPT !.gone = TRUE] /\ k \in CallRows(k.held) /\ Sound(c, k)
                  /\ k.op = call[c].op /\ k.sid = call[c].sid /\ k.at = call[c].at /\ k.on = call[c].on
    <1>1. PICK m : m = call[c] /\ m \in CallRows(m.held) /\ Sound(c, m)
        BY InHand
    <1>2. PICK k : k = [m EXCEPT !.gone = TRUE]
        OBVIOUS
    <1>3. /\ k \in CallRows(k.held) /\ k.at = m.at /\ k.held = m.held /\ k.profile = m.profile
          /\ k.op = m.op /\ k.org = m.org /\ k.on = m.on /\ k.sid = m.sid /\ k.jar = m.jar
        BY <1>1, <1>2 DEF CallRows
    <1>4. Sound(c, k)
        BY <1>1, <1>3 DEF Sound, Staged, Carries, Sessionless, Resumes, Bound
    <1>5. QED
        BY <1>1, <1>2, <1>3, <1>4

\* A step that ends requests, or tells them that their callers left.
LEMMA AllCalls ==
    ASSUME IInv, \A s \in Sessions : Moves(s),
           \A d \in Clients :
              \/ call'[d] = Idle
              \/ /\ call'[d] = call[d] \/ call'[d] = [call[d] EXCEPT !.gone = TRUE]
                 /\ call[d].at = "starting" => starting'[call[d].on] = starting[call[d].on]
    PROVE  CallsInv' /\ \A d \in Clients : call'[d] \in CallRows(call'[d].held)
    <1>1. ASSUME NEW d \in Clients
          PROVE  Sound(d, call[d])' /\ call'[d] \in CallRows(call'[d].held)
        <2>1. CASE call'[d] = Idle
            BY <2>1, IdleSound
        <2>2. CASE /\ call'[d] = call[d] \/ call'[d] = [call[d] EXCEPT !.gone = TRUE]
                   /\ call[d].at = "starting" => starting'[call[d].on] = starting[call[d].on]
            <3>1. PICK k : /\ k = call'[d] /\ k \in CallRows(k.held) /\ Sound(d, k)
                           /\ k.at = call[d].at /\ k.on = call[d].on
                <4>1. CASE call'[d] = call[d]
                    BY <4>1, InHand
                <4>2. CASE call'[d] = [call[d] EXCEPT !.gone = TRUE]
                    BY <4>2, GoneIs
                <4>3. QED
                    BY <2>2, <4>1, <4>2
            <3>2. k.sid \in Sessions \cup {NULL}
                BY <3>1 DEF CallRows
            <3>3. Sound(d, k)'
                BY <2>2, <3>1, <3>2, SoundKept
            <3>4. QED
                BY <3>1, <3>3
        <2>3. QED
            BY <2>1, <2>2
    <1>2. QED
        BY <1>1 DEF CallsInv

\* The lease of a record runs out: its browser is lost with it.
LEMMA ExpireInv ==
    ASSUME IInv, NEW s \in Sessions, Expire(s)
    PROVE  IInv'
    <1>1. /\ UNCHANGED <<service, starting, children, profile, live, call>>
          /\ record' = [record EXCEPT ![s] = NULL] /\ Lose(s)
        BY DEF Expire, plane
    <1>2. /\ browser' \in [Sessions -> BrowserRows \cup {NULL}]
          /\ \A t \in Sessions \ {s} : browser'[t] = browser[t]
          /\ Moves(s) /\ (Running(s)' => browser'[s].lost)
        BY <1>1, Loses
    <1>3. /\ record'[s] = NULL /\ record' \in [Sessions -> Records \cup {NULL}]
          /\ \A t \in Sessions \ {s} : record'[t] = record[t]
        BY <1>1 DEF IInv, TypeOK
    <1>4. ASSUME NEW t \in Sessions PROVE Moves(t) /\ Listed(t)' /\ Retains(t)
        <2>1. CASE t = s
            BY <1>2, <1>3, <2>1 DEF Listed, Retains
        <2>2. CASE t # s
            <3>1. Opening(t) => Opening(t)'
                BY <1>1 DEF Opening
            <3>2. QED
                BY <1>2, <1>3, <2>2, <3>1, SessionSame
        <2>3. QED
            BY <2>1, <2>2
    <1>5. SessionsInv'
        BY <1>4, SessionsKept
    <1>6. CallsInv'
        BY <1>1, <1>4, AllCalls
    <1>7. TypeOK' /\ HostsInv' /\ ProfilesInv'
        BY <1>1, <1>2, <1>3 DEF IInv, TypeOK, HostsInv, HostOf, ProfilesInv
    <1>8. QED
        BY <1>5, <1>6, <1>7 DEF IInv

\* An execution ends.
LEMMA RevokeInv ==
    ASSUME IInv, NEW x \in Runs, Revoke(x)
    PROVE  IInv'
    <1>1. /\ UNCHANGED <<service, starting, children, browser, record, profile>>
          /\ live' \subseteq Runs
        BY DEF Revoke, plane, IInv, TypeOK
    <1>2. \A d \in Clients : call'[d] = call[d] \/ call'[d] = [call[d] EXCEPT !.gone = TRUE]
        BY DEF Revoke
    <1>3. call' = [d \in Clients |-> call'[d]]
        BY DEF Revoke
    <1>4. \A s \in Sessions : Moves(s)
        BY <1>1 DEF Moves
    <1>5. CallsInv' /\ \A d \in Clients : call'[d] \in CallRows(call'[d].held)
        BY <1>1, <1>2, <1>4, AllCalls
    <1>6. ASSUME NEW s \in Sessions PROVE Moves(s) /\ Listed(s)' /\ Retains(s)
        <2>1. ASSUME Opening(s) PROVE Opening(s)'
            <3>1. PICK d \in Clients : call[d].op = "open" /\ call[d].sid = s
                BY <2>1 DEF Opening
            <3>2. call'[d].op = "open" /\ call'[d].sid = s
                BY <1>2, <3>1, GoneIs
            <3>3. QED
                BY <3>2 DEF Opening
        <2>2. QED
            BY <1>1, <2>1, SessionSame
    <1>7. SessionsInv'
        BY <1>6, SessionsKept
    <1>8. TypeOK' /\ HostsInv' /\ ProfilesInv'
        BY <1>1, <1>3, <1>5 DEF IInv, TypeOK, HostsInv, HostOf, ProfilesInv
    <1>9. QED
        BY <1>5, <1>7, <1>8 DEF IInv

\* The browsers of a service stop with it.
LEMMA StopOnIs ==
    ASSUME IInv, NEW r \in Replicas, browser' = StopOn(r)
    PROVE  /\ browser' \in [Sessions -> BrowserRows \cup {NULL}]
           /\ \A s \in Sessions :
                 Moves(s) /\ (Running(s)' => browser'[s] = browser[s] /\ browser[s].host # r)
    <1>1. Stopped \in BrowserRows /\ ~Stopped.up
        BY DEF Stopped, BrowserRows
    <1>2. Stopped # NULL
        BY <1>1, RowAssumption
    <1>3. \A s \in Sessions :
              browser'[s] = IF Running(s) /\ browser[s].host = r THEN Stopped ELSE browser[s]
        BY DEF StopOn
    <1>4. ASSUME NEW s \in Sessions
          PROVE  Moves(s) /\ (Running(s)' => browser'[s] = browser[s] /\ browser[s].host # r)
        <2>1. CASE Running(s) /\ browser[s].host = r
            <3>1. browser'[s] = Stopped /\ browser[s] # NULL
                BY <1>3, <2>1 DEF Running
            <3>2. ~Running(s)'
                BY <1>1, <3>1 DEF Running
            <3>3. QED
                BY <1>2, <3>1, <3>2 DEF Moves
        <2>2. CASE ~(Running(s) /\ browser[s].host = r)
            <3>1. browser'[s] = browser[s]
                BY <1>3, <2>2
            <3>2. QED
                BY <2>2, <3>1 DEF Moves, Running
        <2>3. QED
            BY <2>1, <2>2
    <1>5. browser' \in [Sessions -> BrowserRows \cup {NULL}]
        BY <1>1 DEF StopOn, IInv, TypeOK
    <1>6. QED
        BY <1>4, <1>5

\* The service dies unnoticed.
LEMMA ServiceDiesInv ==
    ASSUME IInv, NEW r \in Replicas, ServiceDies(r)
    PROVE  IInv'
    <1>1. /\ UNCHANGED <<starting, record, profile, live, call>> /\ browser' = StopOn(r)
          /\ service[r] = "up" /\ service' = [service EXCEPT ![r] = "dead"]
          /\ children' = [children EXCEPT ![r] = @ - 1]
        BY DEF ServiceDies, store
    <1>2. /\ browser' \in [Sessions -> BrowserRows \cup {NULL}]
          /\ \A s \in Sessions :
                Moves(s) /\ (Running(s)' => browser'[s] = browser[s] /\ browser[s].host # r)
        BY <1>1, StopOnIs
    <1>3. CallsInv'
        BY <1>1, <1>2, AllCalls
    <1>4. ASSUME NEW s \in Sessions PROVE Moves(s) /\ Listed(s)' /\ Retains(s)
        <2>1. Listed(s) /\ Kept(s) /\ Moves(s)
            BY <1>2 DEF IInv, SessionsInv
        <2>2. Retains(s)
            BY <1>1, <1>2, <2>1 DEF Retains, Kept, Opening, Running
        <2>3. QED
            BY <1>1, <2>1, <2>2, ListedKept
    <1>5. SessionsInv'
        BY <1>4, SessionsKept
    <1>6. HostOf(r) /\ children[r] = 1 /\ starting[r] = NULL
        BY <1>1 DEF IInv, HostsInv, HostOf
    <1>7. children'[r] = 0 /\ service'[r] = "dead" /\ children' \in [Replicas -> Nat]
        BY <1>1, <1>6 DEF IInv, TypeOK
    <1>8. HostsInv'
        BY <1>1, <1>6, <1>7 DEF IInv, TypeOK, HostsInv, HostOf
    <1>9. TypeOK' /\ ProfilesInv'
        BY <1>1, <1>2, <1>7 DEF IInv, TypeOK, ProfilesInv
    <1>10. QED
        BY <1>3, <1>5, <1>8, <1>9 DEF IInv


\* The requests of a host end with its control plane: every other open goes on.
LEMMA DroppedIs ==
    ASSUME IInv, NEW r \in Replicas, call' = Dropped(r),
           \A q \in Replicas \ {r} : starting'[q] = starting[q]
    PROVE  /\ call' = [d \in Clients |-> call'[d]]
           /\ \A d \in Clients :
                 \/ call'[d] = Idle
                 \/ /\ call'[d] = call[d] \/ call'[d] = [call[d] EXCEPT !.gone = TRUE]
                    /\ call[d].at = "starting" => starting'[call[d].on] = starting[call[d].on]
           /\ \A s \in Sessions :
                 (Opening(s) /\ Running(s) /\ browser[s].host # r /\ ~browser[s].lost) => Opening(s)'
    <1>1. \A d \in Clients : call'[d] = IF call[d].on = r THEN Idle ELSE call[d]
        BY DEF Dropped
    <1>2. call' = [d \in Clients |-> call'[d]]
        BY DEF Dropped
    <1>3. ASSUME NEW d \in Clients, call[d].on # r, call[d].at = "starting"
          PROVE  starting'[call[d].on] = starting[call[d].on]
        BY <1>3, Starts
    <1>4. ASSUME NEW s \in Sessions, Opening(s), Running(s), browser[s].host # r, ~browser[s].lost
          PROVE  Opening(s)'
        <2>1. PICK d \in Clients : call[d].op = "open" /\ call[d].sid = s
            BY <1>4 DEF Opening
        <2>2. s # NULL
            BY BrowsersAssumption
        <2>3. Bound(call[d])
            BY <2>1, <2>2, InHand DEF Sound
        <2>4. call[d].on # r
            BY <1>4, <2>1, <2>3 DEF Bound
        <2>5. call'[d] = call[d]
            BY <1>1, <2>4
        <2>6. QED
            BY <2>1, <2>5 DEF Opening
    <1>5. QED
        BY <1>1, <1>2, <1>3, <1>4

\* What a host that lost its service and its requests leaves behind.
LEMMA HostGone ==
    ASSUME IInv, NEW r \in Replicas, call' = Dropped(r), UNCHANGED store,
           service' = [service EXCEPT ![r] = "none"], children' = [children EXCEPT ![r] = 0],
           starting' \in [Replicas -> Clients \cup {NULL}], starting'[r] = NULL,
           \A q \in Replicas \ {r} : starting'[q] = starting[q],
           browser' \in [Sessions -> BrowserRows \cup {NULL}],
           \A s \in Sessions : /\ Moves(s)
                               /\ Running(s)' => \/ browser'[s].lost
                                                 \/ browser'[s] = browser[s] /\ browser[s].host # r
    PROVE  IInv'
    <1>1. UNCHANGED <<record, profile, live>>
        BY DEF store
    <1>2. /\ call' = [d \in Clients |-> call'[d]]
          /\ CallsInv' /\ \A d \in Clients : call'[d] \in CallRows(call'[d].held)
        BY DroppedIs, AllCalls
    <1>3. ASSUME NEW s \in Sessions PROVE Moves(s) /\ Listed(s)' /\ Retains(s)
        <2>1. Listed(s) /\ Kept(s) /\ Moves(s)
            BY DEF IInv, SessionsInv
        <2>2. (Opening(s) /\ Running(s) /\ browser[s].host # r /\ ~browser[s].lost) => Opening(s)'
            BY DroppedIs
        <2>3. Retains(s)
            BY <1>1, <2>1, <2>2 DEF Retains, Kept, Running
        <2>4. QED
            BY <1>1, <2>1, <2>3, ListedKept
    <1>4. SessionsInv'
        BY <1>3, SessionsKept
    <1>5. service'[r] = "none" /\ children'[r] = 0 /\ children' \in [Replicas -> Nat]
        BY DEF IInv, TypeOK
    <1>6. ASSUME NEW q \in Replicas PROVE HostOf(q)'
        <2>1. CASE q = r
            BY <1>5, <2>1 DEF HostOf
        <2>2. CASE q # r
            BY <2>2 DEF IInv, TypeOK, HostsInv, HostOf
        <2>3. QED
            BY <2>1, <2>2
    <1>7. TypeOK' /\ ProfilesInv'
        BY <1>1, <1>2, <1>5 DEF IInv, TypeOK, ProfilesInv
    <1>8. QED
        BY <1>2, <1>4, <1>6, <1>7 DEF IInv, HostsInv

\* A control plane shuts down, with its service.
LEMMA SupervisorCloseInv ==
    ASSUME IInv, NEW r \in Replicas, SupervisorClose(r)
    PROVE  IInv'
    <1>1. /\ call' = Dropped(r) /\ UNCHANGED store /\ browser' = StopOn(r) /\ starting' = starting
          /\ service' = [service EXCEPT ![r] = "none"] /\ children' = [children EXCEPT ![r] = 0]
          /\ starting[r] = NULL
        BY DEF SupervisorClose
    <1>2. starting' \in [Replicas -> Clients \cup {NULL}]
        BY <1>1 DEF IInv, TypeOK
    <1>3. QED
        BY <1>1, <1>2, StopOnIs, HostGone

\* A control plane is killed: its browsers run on, lost.
LEMMA PlaneDiesInv ==
    ASSUME IInv, NEW r \in Replicas, PlaneDies(r)
    PROVE  IInv'
    <1>1. /\ call' = Dropped(r) /\ UNCHANGED store /\ starting' = [starting EXCEPT ![r] = NULL]
          /\ service' = [service EXCEPT ![r] = "none"] /\ children' = [children EXCEPT ![r] = 0]
        BY DEF PlaneDies
    <1>2. /\ starting' \in [Replicas -> Clients \cup {NULL}] /\ starting'[r] = NULL
          /\ \A q \in Replicas \ {r} : starting'[q] = starting[q]
        BY <1>1 DEF IInv, TypeOK
    <1>3. browser' = [s \in Sessions |-> browser'[s]]
        BY DEF PlaneDies
    <1>4. ASSUME NEW s \in Sessions
          PROVE  /\ browser'[s] \in BrowserRows \cup {NULL} /\ Moves(s)
                 /\ Running(s)' => browser'[s].lost \/ (browser'[s] = browser[s] /\ browser[s].host # r)
        <2>1. CASE Running(s) /\ browser[s].host = r
            <3>1. PICK a \in BrowserRows : a = browser[s] /\ a.up
                BY <2>1 DEF IInv, TypeOK, Running
            <3>2. PICK b : b = [a EXCEPT !.host = NULL, !.lost = TRUE]
                OBVIOUS
            <3>3. /\ b \in BrowserRows /\ b.up /\ b.org = a.org /\ b.profile = a.profile
                  /\ b.wanted = a.wanted /\ b.driven = a.driven /\ b.jar = a.jar /\ b.lost
                BY <3>1, <3>2 DEF BrowserRows
            <3>4. b # NULL
                BY <3>3, RowAssumption
            <3>5. browser'[s] = b
                BY <2>1, <3>1, <3>2 DEF PlaneDies
            <3>6. a.jar \subseteq {a.org}
                BY <2>1, <3>1 DEF IInv, SessionsInv, Kept
            <3>7. Running(s)'
                BY <3>3, <3>4, <3>5 DEF Running
            <3>8. Moves(s)
                BY <2>1, <3>1, <3>3, <3>5, <3>6, <3>7 DEF Moves
            <3>9. QED
                BY <3>3, <3>5, <3>8
        <2>2. CASE ~(Running(s) /\ browser[s].host = r)
            <3>1. browser'[s] = browser[s]
                BY <2>2 DEF PlaneDies
            <3>2. QED
                BY <2>2, <3>1 DEF Moves, Running, IInv, TypeOK
        <2>3. QED
            BY <2>1, <2>2
    <1>5. browser' \in [Sessions -> BrowserRows \cup {NULL}]
        BY <1>3, <1>4
    <1>6. QED
        BY <1>1, <1>2, <1>4, <1>5, HostGone


---------------------------------------------------------------------------
(* The theorems. *)

\* At the start nothing runs, and the profile that may be there is its organization's.
LEMMA InitInv == Init => IInv
    <1>1. SUFFICES ASSUME Init PROVE IInv
        OBVIOUS
    <1>2. \A c \in Clients : call[c] = Idle
        BY <1>1 DEF Init
    <1>3. CallsInv /\ \A c \in Clients : call[c] \in CallRows(call[c].held)
        BY <1>2, IdleSound DEF CallsInv
    <1>4. SessionsInv
        BY <1>1 DEF Init, SessionsInv, Listed, Kept, Running
    <1>5. HostsInv
        BY <1>1 DEF Init, HostsInv, HostOf
    <1>6. PICK row : /\ row \in {NULL, [org |-> KnownOrg, jar |-> {KnownOrg}]}
                     /\ profile = [p \in Profiles |-> IF p = Known THEN row ELSE NULL]
        BY <1>1 DEF Init
    <1>7. row \in ProfileRows \cup {NULL} /\ (row # NULL => row.jar \subseteq {row.org})
        BY <1>6, BrowsersAssumption DEF ProfileRows
    <1>8. profile \in [Profiles -> ProfileRows \cup {NULL, DELETED}] /\ ProfilesInv
        BY <1>6, <1>7 DEF ProfilesInv
    <1>9. TypeOK
        BY <1>1, <1>3, <1>8 DEF Init, TypeOK
    <1>10. QED
        BY <1>3, <1>4, <1>5, <1>8, <1>9 DEF IInv

\* A request of a handler begins.
LEMMA HandlerInv ==
    ASSUME IInv, NEW c \in Clients, BeginHandler(c)
    PROVE  IInv'
    <1>1. PICK x \in Runs :
              \/ \E p \in Profiles \cup {NULL}, storage \in BOOLEAN : Open(c, x, RunHost[x], p, storage)
              \/ \E s \in Sessions : \/ Driving(c, x, RunHost[x], s)
                                     \/ \E storage \in BOOLEAN : Close(c, x, RunHost[x], s, storage)
        BY Zenon DEF BeginHandler, OpenSession, CloseSession, SDKNavigates, SDKActs, SDKCookies, SDKDriving
    <1>2. RunHost[x] \in Replicas
        BY BrowsersAssumption
    <1>3. QED
        BY <1>1, <1>2, OpenInv, DrivingInv, CloseInv

\* A request of an operator begins.
LEMMA OperatorInv ==
    ASSUME IInv, NEW c \in Clients, BeginOperator(c)
    PROVE  IInv'
    <1>1. PICK o \in Orgs, r \in Replicas :
              \/ \E p \in Profiles \cup {NULL}, storage \in BOOLEAN : Open(c, o, r, p, storage)
              \/ \E s \in Sessions : \/ Driving(c, o, r, s) \/ streamBrowserDisplay(c, o, r, s)
                                     \/ \E storage \in BOOLEAN : Close(c, o, r, s, storage)
              \/ \E p \in Profiles :
                    \/ createBrowserProfile(c, o, p) \/ deleteBrowserProfile(c, o, p)
                    \/ updateBrowserProfile(c, o, p) \/ saveBrowserProfileState(c, o, p)
        <2>1. PICK desk \in Desks : LET o == desk[1] r == desk[2] IN
                  \/ \E p \in Profiles \cup {NULL}, storage \in BOOLEAN : Open(c, o, r, p, storage)
                  \/ \E s \in Sessions : \/ Driving(c, o, r, s) \/ streamBrowserDisplay(c, o, r, s)
                                         \/ \E storage \in BOOLEAN : Close(c, o, r, s, storage)
                  \/ \E p \in Profiles :
                        \/ createBrowserProfile(c, o, p) \/ deleteBrowserProfile(c, o, p)
                        \/ updateBrowserProfile(c, o, p) \/ saveBrowserProfileState(c, o, p)
            BY Zenon DEF BeginOperator, openBrowserSession, closeBrowserSession, OperatorNavigates,
                         OperatorActs, OperatorCookies, HTTPDriving
        <2>2. desk[1] \in Orgs /\ desk[2] \in Replicas
            BY BrowsersAssumption
        <2>3. QED
            BY <2>1, <2>2, Zenon
    <1>2. CASE \E p \in Profiles \cup {NULL}, storage \in BOOLEAN : Open(c, o, r, p, storage)
        BY <1>2, OpenInv
    <1>3. CASE \E s \in Sessions : \/ Driving(c, o, r, s) \/ streamBrowserDisplay(c, o, r, s)
                                   \/ \E storage \in BOOLEAN : Close(c, o, r, s, storage)
        BY <1>3, DrivingInv, WatchInv, CloseInv
    <1>4. CASE \E p \in Profiles :
                  \/ createBrowserProfile(c, o, p) \/ deleteBrowserProfile(c, o, p)
                  \/ updateBrowserProfile(c, o, p) \/ saveBrowserProfileState(c, o, p)
        BY <1>4, CreateDeleteInv, UpdateProfileInv
    <1>5. QED
        BY <1>1, <1>2, <1>3, <1>4

\* A request takes its next step.
LEMMA StepInv ==
    ASSUME IInv, NEW c \in Clients, Step(c)
    PROVE  IInv'
    <1>1. CASE Client(c) \/ StartReady(c) \/ StartFails(c)
        BY <1>1, ClientInv, StartReadyInv, StartFailsInv
    <1>2. CASE persona(c) \/ \E s \in Sessions : Spawn(c, s) \/ SpawnUnheard(c, s)
        BY <1>2, PersonaInv, SpawnInv, SpawnUnheardInv
    <1>3. CASE Seed(c) \/ SeedFails(c) \/ Adopt(c) \/ AdoptFails(c) \/ abandon(c) \/ abandonFails(c)
        BY <1>3, SeedInv, AbandonsInv, AdoptInv, AbandonInv
    <1>4. CASE Touch(c) \/ \E jar \in Driven(c) : Relay(c, jar)
        BY <1>4, TouchInv, RelayInv
    <1>5. CASE \/ SpawnFails(c) \/ TouchFails(c) \/ relayed(c) \/ writeCommandError(c) \/ pipeDisplay(c)
               \/ saveCookiesFails(c) \/ ForgetFails(c)
        BY <1>5, GivesUpInv
    <1>6. CASE saveCookies(c) \/ Stop(c) \/ StopFails(c) \/ Forget(c) \/ SaveCookies(c) \/ WriteProfile(c)
        BY <1>6, CaptureInv, StopInv, ForgetInv, SaveCookiesInv, WriteProfileInv
    <1>7. QED
        BY <1>1, <1>2, <1>3, <1>4, <1>5, <1>6 DEF Step

\* Nothing changes.
LEMMA StutterInv ==
    ASSUME IInv, UNCHANGED vars
    PROVE  IInv'
    <1>1. UNCHANGED <<service, starting, children, browser, record, profile, live, call>>
        BY DEF vars
    <1>2. TypeOK' /\ HostsInv' /\ ProfilesInv'
        BY <1>1 DEF IInv, TypeOK, HostsInv, HostOf, ProfilesInv
    <1>3. SessionsInv'
        BY <1>1 DEF IInv, SessionsInv, Listed, Kept, Running, Opening
    <1>4. CallsInv'
        BY <1>1 DEF IInv, CallsInv, Sound, Staged, Carries, Sessionless, Resumes, Bound, Running
    <1>5. QED
        BY <1>2, <1>3, <1>4 DEF IInv

\* Requests, browsers, hosts and profiles stay consistent, whatever two requests do between
\* two calls of a third, whoever leaves, and whatever dies.
THEOREM BrowsersInvariant == Spec => []IInv
    <1>1. ASSUME IInv, [Next]_vars PROVE IInv'
        <2>1. CASE \E c \in Clients : BeginHandler(c) \/ BeginOperator(c) \/ Step(c) \/ Cancel(c)
            BY <1>1, <2>1, HandlerInv, OperatorInv, StepInv, CancelInv
        <2>2. CASE \E s \in Sessions : Expire(s)
            BY <1>1, <2>2, ExpireInv
        <2>3. CASE \E x \in Runs : Revoke(x)
            BY <1>1, <2>3, RevokeInv
        <2>4. CASE \E r \in Replicas : ServiceDies(r) \/ SupervisorClose(r) \/ PlaneDies(r)
            BY <1>1, <2>4, ServiceDiesInv, SupervisorCloseInv, PlaneDiesInv
        <2>5. CASE UNCHANGED vars
            BY <1>1, <2>5, StutterInv
        <2>6. QED
            BY <1>1, <2>1, <2>2, <2>3, <2>4, <2>5 DEF Next
    <1>2. QED
        BY <1>1, InitInv, PTL DEF Spec

\* Processes, records, rows and requests stay well formed; the supervisor's count of its
\* processes never goes below zero.
THEOREM BrowsersTyped == Spec => []TypeOK
    <1>1. IInv => TypeOK
        BY DEF IInv
    <1>2. QED
        BY <1>1, BrowsersInvariant, PTL

\* The logins of one organization reach no browser, profile or viewer of another, through
\* either door and on every host.
THEOREM TenantsKeptApart == Spec => []TenantsApart
    <1>1. ASSUME IInv PROVE TenantsApart
        <2>1. \A s \in Sessions : Running(s) => browser[s].jar \subseteq {browser[s].org}
            BY <1>1 DEF IInv, SessionsInv, Kept
        <2>2. \A p \in Profiles :
                 profile[p] \notin {NULL, DELETED} => profile[p].jar \subseteq {profile[p].org}
            BY <1>1 DEF IInv, ProfilesInv
        <2>3. ASSUME NEW c \in Clients, At(c, "watching"), Running(call[c].sid)
              PROVE  browser[call[c].sid].org = call[c].org
            <3>1. Sound(c, call[c]) /\ call[c].at = "watching"
                BY <1>1, <2>3, InHand DEF At
            <3>2. call[c].op = "watch"
                BY <3>1 DEF Sound, Staged
            <3>3. call[c].sid # NULL
                BY <3>1, <3>2, RowAssumption DEF Sound, Sessionless
            <3>4. QED
                BY <2>3, <3>1, <3>3 DEF Sound, Bound
        <2>4. QED
            BY <2>1, <2>2, <2>3 DEF TenantsApart
    <1>2. QED
        BY <1>1, BrowsersInvariant, PTL

\* What Open leaves running is held by a record or by the open itself unless it was lost, is
\* seeded before it is listed, and there is one service a host.
THEOREM OpenLeavesWhole == Spec => []OpensWhole
    <1>1. ASSUME IInv PROVE OpensWhole
        <2>1. EveryBrowserHeld
            BY <1>1 DEF IInv, SessionsInv, Listed, Kept, Opening, EveryBrowserHeld
        <2>2. SeededWhenListed
            BY <1>1 DEF IInv, SessionsInv, Listed, SeededWhenListed, List, Get
        <2>3. OneService
            BY <1>1 DEF IInv, HostsInv, HostOf, OneService
        <2>4. QED
            BY <2>1, <2>2, <2>3 DEF OpensWhole
    <1>2. QED
        BY <1>1, BrowsersInvariant, PTL


\* A step that changes a profile creates one, deletes one or writes one.
LEMMA ProfileWrites ==
    ASSUME [Next]_vars
    PROVE  \/ profile' = profile
           \/ \E c \in Clients : \/ \E o \in Orgs, p \in Profiles : \/ createBrowserProfile(c, o, p)
                                                                    \/ deleteBrowserProfile(c, o, p)
                                 \/ WriteProfile(c)
    <1>1. CASE UNCHANGED vars
        BY <1>1 DEF vars
    <1>2. ASSUME NEW c \in Clients, BeginHandler(c)
          PROVE  profile' = profile
        BY <1>2 DEF BeginHandler, OpenSession, CloseSession, SDKNavigates, SDKActs, SDKCookies, SDKDriving,
                    Open, Driving, Close, store
    <1>3. ASSUME NEW c \in Clients, BeginOperator(c)
          PROVE  \/ profile' = profile
                 \/ \E o \in Orgs, p \in Profiles : createBrowserProfile(c, o, p) \/ deleteBrowserProfile(c, o, p)
        <2>1. PICK desk \in Desks : LET o == desk[1] r == desk[2] IN
                  \/ profile' = profile
                  \/ \E p \in Profiles : createBrowserProfile(c, o, p) \/ deleteBrowserProfile(c, o, p)
            BY <1>3, ZenonT(120) DEF BeginOperator, openBrowserSession, closeBrowserSession, OperatorNavigates,
                        OperatorActs, OperatorCookies, HTTPDriving, streamBrowserDisplay,
                        updateBrowserProfile, saveBrowserProfileState, Rename, SetIdentity, SaveState,
                        Rewrites, Open, Driving, Close, store
        <2>2. desk[1] \in Orgs
            BY BrowsersAssumption
        <2>3. QED
            BY <2>1, <2>2, Zenon
    <1>4. ASSUME NEW c \in Clients, Step(c)
          PROVE  profile' = profile \/ WriteProfile(c)
        <2>1. CASE Client(c) \/ StartReady(c) \/ StartFails(c)
            BY <2>1 DEF Client, StartReady, StartFails, store
        <2>2. CASE persona(c) \/ SpawnFails(c) \/ \E s \in Sessions : Spawn(c, s) \/ SpawnUnheard(c, s)
            BY <2>2 DEF persona, SpawnFails, Spawn, SpawnUnheard, store
        <2>3. CASE Seed(c) \/ SeedFails(c) \/ Adopt(c) \/ AdoptFails(c) \/ abandon(c) \/ abandonFails(c)
            BY <2>3 DEF Seed, SeedFails, Adopt, AdoptFails, abandon, abandonFails, store
        <2>4. CASE \/ Touch(c) \/ TouchFails(c) \/ relayed(c) \/ writeCommandError(c) \/ pipeDisplay(c)
                   \/ \E jar \in Driven(c) : Relay(c, jar)
            BY <2>4 DEF Touch, TouchFails, relayed, writeCommandError, Refused, pipeDisplay, Relay, store
        <2>5. CASE saveCookies(c) \/ saveCookiesFails(c) \/ Stop(c) \/ StopFails(c) \/ Forget(c) \/ ForgetFails(c)
            BY <2>5 DEF saveCookies, saveCookiesFails, Stop, StopFails, Forget, ForgetFails, store
        <2>6. CASE SaveCookies(c)
            BY <2>6 DEF SaveCookies, store
        <2>7. QED
            BY <1>4, <2>1, <2>2, <2>3, <2>4, <2>5, <2>6 DEF Step
    <1>5. ASSUME NEW c \in Clients, Cancel(c)
          PROVE  profile' = profile
        BY <1>5 DEF Cancel, store
    <1>6. CASE \/ \E s \in Sessions : Expire(s)
               \/ \E x \in Runs : Revoke(x)
               \/ \E r \in Replicas : ServiceDies(r) \/ SupervisorClose(r) \/ PlaneDies(r)
        BY <1>6 DEF Expire, Revoke, ServiceDies, SupervisorClose, PlaneDies, store
    <1>7. QED
        BY <1>1, <1>2, <1>3, <1>4, <1>5, <1>6 DEF Next

\* No close empties the jar of a profile, whatever the browser answered and whatever was
\* written between the read of its row and the write: only an operator's own update can.
THEOREM ClosesNeverErase == Spec => CloseNeverErases
    <1>1. ASSUME IInv, [Next]_vars, NEW p \in Profiles, Emptied(p)
          PROVE  \E c \in Clients : call[c].at = "write" /\ call[c].op # "close"
        <2>1. profile'[p] # profile[p] /\ profile'[p] \notin {NULL, DELETED} /\ profile[p] # NULL
            BY <1>1 DEF Emptied
        <2>2. ASSUME NEW c \in Clients, NEW o \in Orgs, NEW q \in Profiles,
                     createBrowserProfile(c, o, q) \/ deleteBrowserProfile(c, o, q)
              PROVE  FALSE
            BY <1>1, <2>1, <2>2 DEF createBrowserProfile, deleteBrowserProfile, Create, Delete, IInv, TypeOK
        <2>3. ASSUME NEW c \in Clients, WriteProfile(c)
              PROVE  call[c].at = "write" /\ call[c].op # "close"
            <3>1. PICK m : m = call[c] /\ m.at = "write" /\ Sound(c, m)
                BY <1>1, <2>3, InHand DEF WriteProfile, At
            <3>2. profile' = [profile EXCEPT ![m.profile] = m.held]
                BY <2>1, <2>3, <3>1 DEF WriteProfile, Update
            <3>3. profile'[p] = m.held
                BY <1>1, <2>1, <3>2 DEF IInv, TypeOK
            <3>4. m.held.jar = {}
                BY <1>1, <3>3 DEF Emptied
            <3>5. QED
                BY <3>1, <3>4 DEF Sound, Carries
        <2>4. PICK c \in Clients : WriteProfile(c)
            BY <1>1, <2>1, <2>2, ProfileWrites
        <2>5. QED
            BY <2>3, <2>4
    <1>2. IInv /\ [Next]_vars =>
             [\A p \in Profiles :
                 Emptied(p) => \E c \in Clients : call[c].at = "write" /\ call[c].op # "close"]_vars
        BY <1>1
    <1>3. QED
        BY <1>2, BrowsersInvariant, PTL DEF Spec, CloseNeverErases
=============================================================================
