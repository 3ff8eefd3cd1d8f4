----------------------------- MODULE AppsProofs -----------------------------
(***************************************************************************)
(* Proofs about Apps for every number of organizations, projects, apps,    *)
(* installations, deployments, commits and open requests.                  *)
(*                                                                         *)
(* The invariant joins what the tables say of each other with what each    *)
(* open request may rely on, although the rows it read may have been       *)
(* written or deleted since.                                               *)
(***************************************************************************)
EXTENDS Apps, Extrema, FiniteSetTheorems, TLAPS

---------------------------------------------------------------------------
(* The invariant. *)

Everyone == Clients \cup Deployers

Places == {"idle", "write", "resolve", "installation", "list", "each", "source", "create", "publish"}

Kinds == {NULL, "updateProject", "createApp", "updateApp", "activateBuild", "connect", "deploy", "retry",
          "push", "fetch"}

\* What a request can know.
Requests ==
    [op : Kinds, at : Places, org : Orgs \cup {NULL}, app : AppIds \cup {NULL}, row : AppRows \cup {NULL},
     project : Projects \cup {NULL}, name : Names \cup {NULL}, repo : Repos \cup {NULL},
     ref : Refs, build : Ids \cup {NULL}, inst : Installs \cup {NULL},
     commit : Commits \cup {NULL}, runtime : runtimes \cup {NULL}, asked : Commits \cup {NULL},
     dep : Ids \cup {NULL}, todo : SUBSET [app : AppIds, row : AppRows], due : SUBSET AppIds]

LeftTyped == left \in [calls : {left.calls}, ids : {left.ids}, events : Nat]

\* Types that TypeOK leaves out: of histories, of GitHub, and of requests.
WorldTypes ==
    /\ seen \in [held : SUBSET (Orgs \X Installs), resolved : SUBSET (Orgs \X (Repos \cup {NULL}) \X Refs)]
    /\ acked = [a \in AppIds |-> acked[a]]
    /\ readable \in [Repos -> Installs \cup {NULL}]
    /\ head \in [Repos -> [Branches -> Commits \cup {NULL}]]
    /\ delivery \subseteq [inst : Installs, repo : Repos, ref : Branches, commit : Commits]
    /\ LeftTyped
    /\ req \in [Everyone -> Requests]

\* A row pins a build of its own app only.
PinOf(a, row) == row.active # NULL => Row(build[row.active]) /\ build[row.active].app = a

\* A row has a connection that GitHub resolved for the organization, if any.
ConnectionOf(o, row) == row.repository # NULL => <<o, row.repository, row.ref>> \in seen.resolved

OrgIs(a) == project[app[a].project].org

\* The ids of deployments are given out one after the other.
IdsInOrder == \E n \in 0..MaxDeployments : \A d \in Ids : deployment[d] # NULL <=> d <= n

\* The builds so far were counted when a build was made.
BuildsCounted == \A b \in Ids : Row(build[b]) => build[b].at \in 0..MaxDeployments

TablesInv ==
    /\ IdsInOrder /\ BuildsCounted
    /\ \A o \in Orgs : installation[o] # NULL => <<o, installation[o]>> \in seen.held
    /\ \A a \in AppIds : Row(app[a]) => PinOf(a, app[a]) /\ ConnectionOf(OrgIs(a), app[a])
    /\ AnsweredChangesStay /\ OwnInstallation /\ AskedCommit

\* Where a request of each kind can be.
Staged(r) ==
    \/ r = Idle
    \/ r.op \in {"updateProject", "updateApp", "activateBuild"} /\ r.at = "write"
    \/ r.op = "createApp" /\ r.at \in {"resolve", "write"}
    \/ r.op = "connect" /\ r.at \in {"installation", "resolve", "write"}
    \/ r.op = "deploy" /\ r.at \in {"installation", "resolve", "source", "create"}
    \/ r.op = "retry" /\ r.at \in {"installation", "source", "create"}
    \/ r.op = "push" /\ r.at \in {"list", "each", "source", "create"}
    \/ r.op = "fetch" /\ r.at \in {"installation", "source", "publish"}

\* The row a change writes back: of the app it was read from, which still belongs to the
\* project and the organization it belonged to, with a pin and a connection it may have.
Reads(r) ==
    /\ r.app \in AppIds /\ r.row \in AppRows /\ app[r.app] # NULL
    /\ r.row.ref # NULL => r.row.repository # NULL
    /\ ConnectionOf(r.org, r.row)
    /\ Row(app[r.app]) => app[r.app].project = r.row.project /\ PinOf(r.app, r.row)

\* The row createApp inserts.
Creates(r) ==
    /\ r.row \in AppRows /\ r.row.active = NULL
    /\ r.repo \in Repos /\ r.row.repository = r.repo /\ r.row.ref = r.ref
    /\ r.at = "write" => ConnectionOf(r.org, r.row)

\* The connection that connect changes to.
Connects(r) ==
    /\ r.at # "write" => r.repo \in Repos
    /\ r.at = "write" /\ r.repo # NULL => <<r.org, r.repo, r.ref>> \in seen.resolved

\* The deployment a deploy, a retry or a push makes.
Deploys(r) ==
    /\ r.at \notin {"list", "each"} => r.app \in AppIds
    /\ r.op = "deploy" => r.repo \in Repos
    /\ r.op # "deploy" \/ r.at \in {"source", "create"} => r.commit \in Commits /\ r.asked = r.commit
    /\ r.op = "push" \/ r.at # "installation" => <<r.org, r.inst>> \in seen.held
    /\ r.at = "create" => r.runtime \in runtimes

\* What a push has still to do.
Owes(r) ==
    /\ r.repo \in Repos /\ r.ref \in Branches
    /\ r.due = {x.app : x \in r.todo}
    /\ \A x, y \in r.todo : x.app = y.app => x = y

\* The deployment a deployer claimed, and the app it is of.
Fetches(r) ==
    /\ r.dep \in Ids /\ r.app \in AppIds /\ r.commit \in Commits
    /\ deployment[r.dep] # NULL /\ app[r.app] # NULL
    /\ Row(deployment[r.dep]) => deployment[r.dep].app = r.app /\ deployment[r.dep].commit = r.commit
    /\ Row(app[r.app]) => OrgIs(r.app) = r.org
    /\ r.at # "installation" => <<r.org, r.inst>> \in seen.held

Sound(r) ==
    /\ Staged(r)
    /\ r # Idle => r.org \in Orgs
    /\ r.op = "updateProject" => r.project \in Projects /\ r.name \in Names
    /\ r.op = "updateApp" => r.name \in Names
    /\ r.op \in {"updateApp", "activateBuild", "connect"} => Reads(r)
    /\ r.op = "createApp" => Creates(r)
    /\ r.op = "connect" => Connects(r)
    /\ r.op \in {"deploy", "retry", "push"} => Deploys(r)
    /\ r.op = "push" => Owes(r)
    /\ r.op = "fetch" => Fetches(r)

RequestsInv == \A c \in Everyone : Sound(req[c])

\* There is an id for every app that is being created.
Creating == {c \in Clients : req[c].op = "createApp"}
FreeIds == {a \in AppIds : app[a] = NULL}
RoomInv ==
    /\ Cardinality(Creating) <= Cardinality(FreeIds)
    /\ \A w \in Deployers : req[w].op \in {NULL, "fetch"}

IInv == TypeOK /\ WorldTypes /\ TablesInv /\ RequestsInv /\ RoomInv

---------------------------------------------------------------------------
(* What every step does to rows, and what requests know of them. *)

\* Rows are inserted, changed and deleted, and an id is never used again: an app stays in its
\* project, a project in its organization, a deployment is of one app and one commit, and a
\* build goes with its app only.
Grows ==
    /\ \A p \in Projects : project[p] # NULL /\ Row(project'[p]) =>
          Row(project[p]) /\ project'[p].org = project[p].org
    /\ \A a \in AppIds : app[a] # NULL =>
          /\ app'[a] # NULL
          /\ Row(app'[a]) => Row(app[a]) /\ app'[a].project = app[a].project
    /\ \A d \in Ids : deployment[d] # NULL =>
          /\ deployment'[d] # NULL
          /\ Row(deployment'[d]) => /\ Row(deployment[d]) /\ deployment'[d].app = deployment[d].app
                                    /\ deployment'[d].commit = deployment[d].commit
    /\ \A b \in Ids : Row(build[b]) =>
          ~Row(app'[build[b].app]) \/ (Row(build'[b]) /\ build'[b].app = build[b].app)
    /\ seen.held \subseteq seen'.held /\ seen.resolved \subseteq seen'.resolved

\* An app that stays stays in its organization.
LEMMA OrgKept ==
    ASSUME TypeOK, NoOrphans', Grows, NEW a \in AppIds, app[a] # NULL, Row(app'[a])
    PROVE  Row(app[a]) /\ OrgIs(a)' = OrgIs(a)
    <1>1. Row(app[a]) /\ app'[a].project = app[a].project
        BY DEF Grows
    <1>2. app[a] \in AppRows /\ app[a].project \in Projects
        BY <1>1 DEF TypeOK, Row, AppRows
    <1>3. Row(project[app[a].project]) /\ Row(project'[app'[a].project])
        BY <1>1 DEF TypeOK, NoOrphans, Row
    <1>4. project'[app[a].project].org = project[app[a].project].org
        BY <1>1, <1>2, <1>3 DEF Grows, Row
    <1>5. QED
        BY <1>1, <1>4 DEF OrgIs

\* A pin stays one.
LEMMA PinKept ==
    ASSUME Grows, NEW a \in AppIds, NEW row \in AppRows, Row(app'[a]), PinOf(a, row)
    PROVE  PinOf(a, row)'
    <1>1. row.active # NULL => row.active \in Ids
        BY DEF AppRows
    <1>2. QED
        BY <1>1 DEF PinOf, Grows

\* What a request knows survives every step.
LEMMA SoundKept ==
    ASSUME TypeOK, NoOrphans', Grows, NEW r \in Requests, Sound(r)
    PROVE  Sound(r)'
    <1>1. Reads(r) => Reads(r)'
        <2>1. SUFFICES ASSUME Reads(r) PROVE Reads(r)'
            OBVIOUS
        <2>2. r.app \in AppIds /\ r.row \in AppRows /\ app'[r.app] # NULL
            BY <2>1 DEF Reads, Grows
        <2>3. ConnectionOf(r.org, r.row)'
            BY <2>1 DEF Reads, ConnectionOf, Grows
        <2>4. ASSUME Row(app'[r.app])
              PROVE  app'[r.app].project = r.row.project /\ PinOf(r.app, r.row)'
            <3>1. Row(app[r.app]) /\ app'[r.app].project = app[r.app].project
                BY <2>1, <2>2, <2>4 DEF Reads, Grows
            <3>2. PinOf(r.app, r.row)'
                BY <2>1, <2>2, <2>4, <3>1, PinKept DEF Reads
            <3>3. QED
                BY <2>1, <3>1, <3>2 DEF Reads
        <2>5. QED
            BY <2>1, <2>2, <2>3, <2>4 DEF Reads, Row
    <1>2. Creates(r) => Creates(r)'
        BY DEF Creates, ConnectionOf, Grows
    <1>3. Connects(r) => Connects(r)'
        BY DEF Connects, Grows
    <1>4. Deploys(r) => Deploys(r)'
        BY DEF Deploys, Grows
    <1>5. Fetches(r) => Fetches(r)'
        <2>1. SUFFICES ASSUME Fetches(r) PROVE Fetches(r)'
            OBVIOUS
        <2>2. Row(app'[r.app]) => OrgIs(r.app)' = r.org
            BY <2>1, OrgKept DEF Fetches
        <2>3. QED
            BY <2>1, <2>2 DEF Fetches, Grows, Row
    <1>6. QED
        BY <1>1, <1>2, <1>3, <1>4, <1>5 DEF Sound, Staged, Owes

\* A step of one request, which knows what it should after it.
LEMMA RequestStep ==
    ASSUME IInv, NoOrphans', Grows, NEW c \in Everyone, NEW k \in Requests,
           req' = [req EXCEPT ![c] = k], Sound(k)'
    PROVE  RequestsInv' /\ req' \in [Everyone -> Requests]
    <1>1. req' \in [Everyone -> Requests] /\ \A d \in Everyone : req'[d] = IF d = c THEN k ELSE req[d]
        BY DEF IInv, WorldTypes
    <1>2. ASSUME NEW d \in Everyone PROVE Sound(req[d])'
        <2>1. CASE d = c
            BY <1>1, <2>1
        <2>2. CASE d # c
            <3>1. PICK r \in Requests : r = req[d] /\ r = req'[d] /\ Sound(r)
                BY <1>1, <2>2 DEF IInv, WorldTypes, RequestsInv
            <3>2. Sound(r)'
                BY <3>1, SoundKept DEF IInv
            <3>3. QED
                BY <3>1, <3>2
        <2>3. QED
            BY <2>1, <2>2
    <1>3. QED
        BY <1>1, <1>2 DEF RequestsInv

\* A step of no request.
LEMMA NoRequestStep ==
    ASSUME IInv, NoOrphans', Grows, UNCHANGED req
    PROVE  RequestsInv' /\ req' \in [Everyone -> Requests]
    <1>1. ASSUME NEW d \in Everyone PROVE Sound(req[d])'
        <2>1. PICK r \in Requests : r = req[d] /\ r = req'[d] /\ Sound(r)
            BY DEF IInv, WorldTypes, RequestsInv
        <2>2. Sound(r)'
            BY <2>1, SoundKept DEF IInv
        <2>3. QED
            BY <2>1, <2>2
    <1>2. QED
        BY <1>1 DEF RequestsInv, IInv, WorldTypes

\* A request that is nowhere is none.
LEMMA IdleAt ==
    ASSUME NEW r, Staged(r)
    PROVE  (r.at = "idle") <=> (r = Idle)
    <1>1. Idle.at = "idle"
        BY DEF Idle
    <1>2. QED
        BY <1>1 DEF Staged

\* ... and has nothing in hand.
LEMMA IdleSound == Idle \in Requests /\ Sound(Idle) /\ Sound(Idle)'
    <1>1. Idle \in Requests
        BY DEF Idle, Requests, Kinds, Places, Refs
    <1>2. Idle.op = NULL
        BY DEF Idle
    <1>3. QED
        BY <1>1, <1>2, RowAssumption DEF Sound, Staged

\* The requests that create apps become fewer, and no id is used.
LEMMA RoomKept ==
    ASSUME IInv, FreeIds' = FreeIds, Creating' \subseteq Creating,
           \A w \in Deployers : req'[w].op \in {NULL, "fetch"}
    PROVE  RoomInv'
    <1>1. IsFiniteSet(Creating) /\ IsFiniteSet(FreeIds)
        BY AppsAssumption, FS_Subset DEF Creating, FreeIds
    <1>2. Cardinality(Creating') <= Cardinality(Creating) /\ Cardinality(Creating') \in Nat
        BY <1>1, FS_Subset, FS_CardinalityType
    <1>3. Cardinality(Creating) \in Nat /\ Cardinality(FreeIds) \in Nat
        BY <1>1, FS_CardinalityType
    <1>4. QED
        BY <1>2, <1>3 DEF IInv, RoomInv

\* A request that moves on creates an app only if it did before.
LEMMA RoomMoves ==
    ASSUME IInv, FreeIds' = FreeIds, NEW c \in Everyone, NEW k, req' = [req EXCEPT ![c] = k],
           k.op = "createApp" => req[c].op = "createApp", c \in Deployers => k.op \in {NULL, "fetch"}
    PROVE  RoomInv'
    <1>1. \A d \in Everyone : req'[d] = IF d = c THEN k ELSE req[d]
        BY DEF IInv, WorldTypes
    <1>2. Creating' \subseteq Creating
        BY <1>1 DEF Creating, Everyone
    <1>3. \A w \in Deployers : req'[w].op \in {NULL, "fetch"}
        BY <1>1 DEF IInv, RoomInv, Everyone
    <1>4. QED
        BY <1>2, <1>3, RoomKept

\* Rows that stay, and a history that grows.
LEMMA TablesKept ==
    ASSUME IInv, UNCHANGED <<rows, acked>>, seen.held \subseteq seen'.held,
           seen.resolved \subseteq seen'.resolved
    PROVE  TablesInv' /\ Grows /\ NoOrphans' /\ FreeIds' = FreeIds
    <1>1. UNCHANGED <<project, app, deployment, build, installation>>
        BY DEF rows
    <1>2. Grows /\ NoOrphans' /\ FreeIds' = FreeIds
        BY <1>1 DEF IInv, TypeOK, Grows, NoOrphans, FreeIds, Row
    <1>3. IdsInOrder' /\ BuildsCounted' /\ AnsweredChangesStay' /\ AskedCommit'
        BY <1>1 DEF IInv, TablesInv, IdsInOrder, BuildsCounted, AnsweredChangesStay, AskedCommit, Row
    <1>4. OwnInstallation'
        BY <1>1 DEF IInv, TablesInv, OwnInstallation, Row
    <1>5. \A o \in Orgs : installation'[o] # NULL => <<o, installation'[o]>> \in seen'.held
        BY <1>1 DEF IInv, TablesInv
    <1>6. ASSUME NEW a \in AppIds, Row(app[a])'
          PROVE  PinOf(a, app[a])' /\ ConnectionOf(OrgIs(a), app[a])'
        BY <1>1, <1>6 DEF IInv, TablesInv, PinOf, ConnectionOf, OrgIs, Row
    <1>7. QED
        BY <1>2, <1>3, <1>4, <1>5, <1>6 DEF TablesInv

SeenTyped ==
    seen \in [held : SUBSET (Orgs \X Installs), resolved : SUBSET (Orgs \X (Repos \cup {NULL}) \X Refs)]

\* A step of one request that writes no row.
LEMMA Asks ==
    ASSUME IInv, NEW c \in Everyone, NEW k \in Requests, req' = [req EXCEPT ![c] = k], Sound(k)',
           UNCHANGED <<rows, github, acked>>, SeenTyped', seen.held \subseteq seen'.held,
           seen.resolved \subseteq seen'.resolved, LeftTyped', RoomInv'
    PROVE  IInv'
    <1>1. TablesInv' /\ Grows /\ NoOrphans'
        BY TablesKept
    <1>2. RequestsInv' /\ req' \in [Everyone -> Requests]
        BY <1>1, RequestStep
    <1>3. TypeOK'
        <2>1. UNCHANGED <<project, app, deployment, build, installation>>
            BY DEF rows
        <2>2. \A d \in Everyone : (req'[d].at = "idle") <=> (req'[d] = Idle)
            BY <1>2, IdleAt DEF RequestsInv, Sound
        <2>3. QED
            BY <1>1, <2>1, <2>2 DEF IInv, TypeOK, Everyone, Row
    <1>4. WorldTypes'
        BY <1>2 DEF IInv, WorldTypes, SeenTyped, github
    <1>5. QED
        BY <1>1, <1>2, <1>3, <1>4 DEF IInv

\* ... and learns nothing that is remembered.
LEMMA Quiet ==
    ASSUME IInv, NEW c \in Everyone, NEW k \in Requests, req' = [req EXCEPT ![c] = k], Sound(k),
           UNCHANGED <<rows, github, acked, seen>>, LeftTyped', RoomInv'
    PROVE  IInv'
    <1>1. Grows /\ NoOrphans'
        BY TablesKept
    <1>2. Sound(k)'
        BY <1>1, SoundKept DEF IInv
    <1>3. SeenTyped'
        BY DEF IInv, WorldTypes, SeenTyped
    <1>4. QED
        BY <1>2, <1>3, Asks

---------------------------------------------------------------------------
(* Requests begin. *)

\* The bounds stay numbers.
LEMMA LeftKept ==
    ASSUME IInv,
           \/ UNCHANGED left \/ Call \/ Reinstall \/ Event
           \/ (left.events > 0 /\ left' = [left EXCEPT !.events = @ - 1])
           \/ \E n : CallFor(n)
    PROVE  LeftTyped'
    <1>0. PICK l : l = left
        OBVIOUS
    <1>1. PICK x, y : l \in [calls : {x}, ids : {y}, events : Nat]
        BY <1>0 DEF IInv, WorldTypes, LeftTyped
    <1>2. CASE UNCHANGED left
        BY <1>2 DEF IInv, WorldTypes, LeftTyped
    <1>3. CASE Call
        BY <1>0, <1>1, <1>3 DEF Call, LeftTyped
    <1>4. CASE left.events > 0 /\ left' = [left EXCEPT !.events = @ - 1]
        BY <1>0, <1>1, <1>4 DEF LeftTyped
    <1>5. CASE \E n : CallFor(n)
        BY <1>0, <1>1, <1>5 DEF CallFor, LeftTyped
    <1>6. QED
        BY <1>2, <1>3, <1>4, <1>5 DEF Reinstall, Event

\* A request that begins, other than one that creates an app.
LEMMA Opens ==
    ASSUME IInv, NEW c \in Clients, NEW k \in Requests, Open(c, k), Sound(k), k.op # "createApp",
           Call \/ \E n : CallFor(n)
    PROVE  IInv'
    <1>1. c \in Everyone /\ c \notin Deployers
        BY AppsAssumption DEF Everyone
    <1>2. LeftTyped'
        BY LeftKept
    <1>3. req' = [req EXCEPT ![c] = k] /\ UNCHANGED <<rows, github, acked, seen>>
        BY DEF Open
    <1>4. FreeIds' = FreeIds
        BY <1>3 DEF rows, FreeIds
    <1>5. RoomInv'
        BY <1>1, <1>3, <1>4, RoomMoves
    <1>6. QED
        BY <1>1, <1>2, <1>3, <1>5, Quiet

\* An idle request, for the fields of one that begins.
LEMMA IdleIs ==
    \E i \in Requests :
        /\ i = Idle /\ i.op = NULL /\ i.app = NULL /\ i.row = NULL /\ i.project = NULL /\ i.name = NULL
        /\ i.repo = NULL /\ i.ref = NULL /\ i.build = NULL /\ i.inst = NULL /\ i.commit = NULL
        /\ i.runtime = NULL /\ i.asked = NULL /\ i.dep = NULL /\ i.todo = {} /\ i.due = {}
    <1>1. Idle \in Requests
        BY IdleSound
    <1>2. /\ Idle.op = NULL /\ Idle.app = NULL /\ Idle.row = NULL /\ Idle.project = NULL /\ Idle.name = NULL
          /\ Idle.repo = NULL /\ Idle.ref = NULL /\ Idle.build = NULL /\ Idle.inst = NULL /\ Idle.commit = NULL
          /\ Idle.runtime = NULL /\ Idle.asked = NULL /\ Idle.dep = NULL /\ Idle.todo = {} /\ Idle.due = {}
        BY DEF Idle
    <1>3. QED
        BY <1>1, <1>2

\* The words of a request.
LEMMA Words ==
    /\ NULL \in Kinds /\ "updateProject" \in Kinds /\ "createApp" \in Kinds /\ "updateApp" \in Kinds
    /\ "activateBuild" \in Kinds /\ "connect" \in Kinds /\ "deploy" \in Kinds /\ "retry" \in Kinds
    /\ "push" \in Kinds /\ "fetch" \in Kinds
    /\ "idle" \in Places /\ "write" \in Places /\ "resolve" \in Places /\ "installation" \in Places
    /\ "list" \in Places /\ "each" \in Places /\ "source" \in Places /\ "create" \in Places
    /\ "publish" \in Places
    BY DEF Kinds, Places

\* A project is read to be renamed.
LEMMA UpdateProjectInv ==
    ASSUME IInv, NEW c \in Clients, NEW o \in Orgs, NEW p \in Projects, NEW n \in Names,
           updateProject(c, o, p, n)
    PROVE  IInv'
    <1>1. PICK i \in Requests : i = Idle
        BY IdleIs
    <1>2. PICK k : k = [i EXCEPT !.op = "updateProject", !.at = "write", !.org = o, !.project = p, !.name = n]
        OBVIOUS
    <1>3. k \in Requests
        <2>1. "updateProject" \in Kinds /\ "write" \in Places
            BY Words
        <2>2. QED
            BY <1>2, <2>1, ZenonT(120) DEF Requests
    <1>4. k.op = "updateProject" /\ k.at = "write" /\ k.org = o /\ k.project = p /\ k.name = n
        BY <1>2 DEF Requests
    <1>5. Sound(k)
        BY <1>4 DEF Sound, Staged
    <1>6. Open(c, k) /\ Call
        BY <1>1, <1>2 DEF updateProject, UpdateProject
    <1>7. QED
        BY <1>3, <1>4, <1>5, <1>6, Opens

\* The row a request about an app reads is one it may write back.
LEMMA ReadsOf ==
    ASSUME IInv, NEW o \in Orgs, NEW a \in AppIds, GetByID(o, a)
    PROVE  /\ app[a] \in AppRows /\ OrgIs(a) = o /\ Row(app[a]) /\ app[a] # NULL
           /\ app[a].ref # NULL => app[a].repository # NULL
           /\ ConnectionOf(o, app[a]) /\ PinOf(a, app[a])
    <1>1. Row(app[a]) /\ OrgIs(a) = o
        BY DEF GetByID, ProjectByID, OrgIs
    <1>2. app[a] \in AppRows
        BY <1>1 DEF IInv, TypeOK, Row
    <1>3. QED
        BY <1>1, <1>2 DEF IInv, TypeOK, TablesInv, Row

\* An app is read to be renamed.
LEMMA UpdateAppInv ==
    ASSUME IInv, NEW c \in Clients, NEW o \in Orgs, NEW a \in AppIds, NEW n \in Names, updateApp(c, o, a, n)
    PROVE  IInv'
    <1>1. PICK i \in Requests : i = Idle
        BY IdleIs
    <1>2. GetByID(o, a)
        BY DEF updateApp, UpdateApp
    <1>3. PICK row \in AppRows : /\ row = app[a] /\ OrgIs(a) = o /\ Row(app[a]) /\ app[a] # NULL
                                 /\ row.ref # NULL => row.repository # NULL
                                 /\ ConnectionOf(o, row) /\ PinOf(a, row)
        BY <1>2, ReadsOf
    <1>4. PICK k : k = [i EXCEPT !.op = "updateApp", !.at = "write", !.org = o, !.app = a, !.row = row,
                                 !.name = n]
        OBVIOUS
    <1>5. "updateApp" \in Kinds /\ "write" \in Places
        BY Words
    <1>6. k \in Requests
        BY <1>4, <1>5, ZenonT(120) DEF Requests
    <1>7. k.op = "updateApp" /\ k.at = "write" /\ k.org = o /\ k.app = a /\ k.row = row /\ k.name = n
        BY <1>4 DEF Requests
    <1>8. Reads(k)
        BY <1>3, <1>7 DEF Reads
    <1>9. Sound(k)
        BY <1>7, <1>8 DEF Sound, Staged
    <1>10. Open(c, k) /\ Call
        BY <1>1, <1>3, <1>4 DEF updateApp, UpdateApp
    <1>11. QED
        BY <1>6, <1>7, <1>9, <1>10, Opens

\* An app is read to be pinned to a build, or released.
LEMMA ActivateInv ==
    ASSUME IInv, NEW c \in Clients, NEW o \in Orgs, NEW a \in AppIds, NEW b \in Ids \cup {NULL}, activateBuild(c, o, a, b)
    PROVE  IInv'
    <1>1. PICK i \in Requests : i = Idle
        BY IdleIs
    <1>2. GetByID(o, a)
        BY DEF activateBuild, Activate
    <1>3. PICK row \in AppRows : /\ row = app[a] /\ OrgIs(a) = o /\ Row(app[a]) /\ app[a] # NULL
                                 /\ row.ref # NULL => row.repository # NULL
                                 /\ ConnectionOf(o, row) /\ PinOf(a, row)
        BY <1>2, ReadsOf
    <1>4. PICK k : k = [i EXCEPT !.op = "activateBuild", !.at = "write", !.org = o, !.app = a, !.row = row,
                                 !.build = b]
        OBVIOUS
    <1>5. "activateBuild" \in Kinds /\ "write" \in Places
        BY Words
    <1>6. k \in Requests
        BY <1>4, <1>5, ZenonT(120) DEF Requests
    <1>7. k.op = "activateBuild" /\ k.at = "write" /\ k.org = o /\ k.app = a /\ k.row = row /\ k.build = b
        BY <1>4 DEF Requests
    <1>8. Reads(k)
        BY <1>3, <1>7 DEF Reads
    <1>9. Sound(k)
        BY <1>7, <1>8 DEF Sound, Staged
    <1>10. Open(c, k) /\ Call
        BY <1>1, <1>3, <1>4 DEF activateBuild, Activate
    <1>11. QED
        BY <1>6, <1>7, <1>9, <1>10, Opens

\* An app is read to be connected.
LEMMA ConnectInv ==
    ASSUME IInv, NEW c \in Clients, NEW o \in Orgs, NEW a \in AppIds, NEW r \in Repos \cup {NULL},
           NEW ref \in Refs, connectRepository(c, o, a, r, ref)
    PROVE  IInv'
    <1>1. PICK i \in Requests : i = Idle
        BY IdleIs
    <1>2. PICK row \in AppRows : /\ row = app[a] /\ OrgIs(a) = o /\ Row(app[a]) /\ app[a] # NULL
                                 /\ row.ref # NULL => row.repository # NULL
                                 /\ ConnectionOf(o, row) /\ PinOf(a, row)
        BY ReadsOf DEF connectRepository, ConnectTo
    <1>3. PICK at \in Places : at = IF r = NULL THEN "write" ELSE "installation"
        BY Words
    <1>4. PICK k : k = [i EXCEPT !.op = "connect", !.at = at, !.org = o, !.app = a, !.row = row, !.repo = r,
                                 !.ref = ref]
        OBVIOUS
    <1>5. k \in Requests
        <2>1. "connect" \in Kinds /\ at \in Places
            BY Words
        <2>2. QED
            BY <1>4, <2>1, ZenonT(120) DEF Requests
    <1>6. /\ k.op = "connect" /\ k.at = at /\ k.org = o /\ k.app = a /\ k.row = row /\ k.repo = r
          /\ k.ref = ref
        BY <1>4 DEF Requests
    <1>7. Reads(k)
        BY <1>2, <1>6 DEF Reads
    <1>8. Connects(k)
        BY <1>3, <1>6 DEF Connects
    <1>9. Sound(k)
        BY <1>3, <1>6, <1>7, <1>8 DEF Sound, Staged
    <1>10. Open(c, k) /\ Call
        BY <1>1, <1>2, <1>3, <1>4 DEF connectRepository, ConnectTo
    <1>11. QED
        BY <1>5, <1>6, <1>9, <1>10, Opens

\* An app is read to be deployed.
LEMMA DeployInv ==
    ASSUME IInv, NEW c \in Clients, NEW o \in Orgs, NEW a \in AppIds, NEW ref \in Refs,
           deployRef(c, o, a, ref)
    PROVE  IInv'
    <1>1. PICK i \in Requests : i = Idle
        BY IdleIs
    <1>2. PICK row \in AppRows : row = app[a] /\ row.repository # NULL
        BY ReadsOf DEF deployRef, Deploy
    <1>3. PICK repo \in Repos, of \in Refs : repo = row.repository /\ of = IF ref = NULL THEN row.ref ELSE ref
        BY <1>2 DEF AppRows
    <1>4. PICK k : k = [i EXCEPT !.op = "deploy", !.at = "installation", !.org = o, !.app = a, !.row = row,
                                 !.repo = repo, !.ref = of]
        OBVIOUS
    <1>5. k \in Requests
        <2>1. "deploy" \in Kinds /\ "installation" \in Places
            BY Words
        <2>2. QED
            BY <1>4, <2>1, ZenonT(120) DEF Requests
    <1>6. k.op = "deploy" /\ k.at = "installation" /\ k.org = o /\ k.app = a /\ k.repo = repo
        BY <1>4 DEF Requests
    <1>7. Deploys(k)
        BY <1>6 DEF Deploys
    <1>8. Sound(k)
        BY <1>6, <1>7 DEF Sound, Staged
    <1>9. Open(c, k) /\ CallFor(1)
        BY <1>1, <1>2, <1>3, <1>4 DEF deployRef, Deploy
    <1>10. QED
        BY <1>5, <1>6, <1>8, <1>9, Opens

\* A deployment is read to be made again.
LEMMA RetryInv ==
    ASSUME IInv, NEW c \in Clients, NEW o \in Orgs, NEW d \in Ids, retryDeployment(c, o, d)
    PROVE  IInv'
    <1>1. PICK i \in Requests : i = Idle
        BY IdleIs
    <1>2. PICK dep \in DeploymentRows : dep = deployment[d]
        BY DEF retryDeployment, Retry, IInv, TypeOK, Row
    <1>3. PICK a \in AppIds, ref \in Refs, commit \in Commits : a = dep.app /\ ref = dep.ref /\ commit = dep.commit
        BY DEF DeploymentRows
    <1>4. PICK row \in AppRows : row = app[a] /\ row.repository # NULL
        BY <1>2, <1>3, ReadsOf DEF retryDeployment, Retry
    <1>5. PICK repo \in Repos : repo = row.repository
        BY <1>4 DEF AppRows
    <1>6. PICK k : k = [i EXCEPT !.op = "retry", !.at = "installation", !.org = o, !.app = a, !.row = row,
                                 !.repo = repo, !.ref = ref, !.commit = commit, !.asked = commit]
        OBVIOUS
    <1>7. k \in Requests
        <2>1. "retry" \in Kinds /\ "installation" \in Places
            BY Words
        <2>2. DOMAIN k = DOMAIN i /\ k = [x \in DOMAIN k |-> k[x]]
            BY <1>6 DEF Requests
        <2>3. /\ k.op = "retry" /\ k.at = "installation" /\ k.org = o /\ k.app = a /\ k.row = row
              /\ k.repo = repo /\ k.ref = ref /\ k.commit = commit /\ k.asked = commit
            BY <1>6 DEF Requests
        <2>4. /\ k.project = i.project /\ k.name = i.name /\ k.build = i.build /\ k.inst = i.inst
              /\ k.runtime = i.runtime /\ k.dep = i.dep /\ k.todo = i.todo /\ k.due = i.due
            BY <1>6 DEF Requests
        <2>5. QED
            BY <2>1, <2>2, <2>3, <2>4 DEF Requests
    <1>8. /\ k.op = "retry" /\ k.at = "installation" /\ k.org = o /\ k.app = a
          /\ k.commit = commit /\ k.asked = commit
        BY <1>6 DEF Requests
    <1>9. Deploys(k)
        BY <1>8 DEF Deploys
    <1>10. Sound(k)
        BY <1>8, <1>9 DEF Sound, Staged
    <1>11. Open(c, k) /\ CallFor(1)
        BY <1>1, <1>2, <1>3, <1>4, <1>5, <1>6 DEF retryDeployment, Retry
    <1>12. QED
        BY <1>7, <1>8, <1>10, <1>11, Opens

\* A delivery is handled for the organization that has the installation.
LEMMA PushInv ==
    ASSUME IInv, NEW c \in Clients, NEW o \in Orgs, NEW m \in delivery, gitHubWebhook(c, o, m)
    PROVE  IInv'
    <1>1. PICK i \in Requests : i = Idle /\ i.todo = {} /\ i.due = {}
        BY IdleIs
    <1>2. PICK inst \in Installs, repo \in Repos, ref \in Branches, commit \in Commits :
              inst = m.inst /\ repo = m.repo /\ ref = m.ref /\ commit = m.commit
        BY DEF IInv, WorldTypes
    <1>3. PICK k : k = [i EXCEPT !.op = "push", !.at = "list", !.org = o, !.inst = inst, !.repo = repo,
                                 !.ref = ref, !.commit = commit, !.asked = commit]
        OBVIOUS
    <1>4. ref \in Refs
        BY DEF Refs
    <1>5. k \in Requests
        <2>1. "push" \in Kinds /\ "list" \in Places
            BY Words
        <2>2. QED
            BY <1>3, <1>4, <2>1, ZenonT(120) DEF Requests
    <1>6. /\ k.op = "push" /\ k.at = "list" /\ k.org = o /\ k.inst = inst /\ k.repo = repo /\ k.ref = ref
          /\ k.commit = commit /\ k.asked = commit
        BY <1>3 DEF Requests
    <1>61. k.todo = i.todo /\ k.due = i.due
        BY <1>3 DEF Requests
    <1>7. k.todo = {} /\ k.due = {}
        BY <1>1, <1>61
    <1>8. installation[o] = inst /\ inst # NULL
        BY <1>2, RowAssumption DEF gitHubWebhook, Push, ByInstallationID
    <1>9. <<o, inst>> \in seen.held
        BY <1>8 DEF IInv, TablesInv
    <1>10. Deploys(k)
        BY <1>6, <1>9 DEF Deploys
    <1>11. Owes(k)
        BY <1>6, <1>7 DEF Owes
    <1>12. Sound(k)
        BY <1>6, <1>10, <1>11 DEF Sound, Staged
    <1>13. Open(c, k) /\ \E n : CallFor(n)
        BY <1>1, <1>2, <1>3 DEF gitHubWebhook, Push, Handling
    <1>14. QED
        BY <1>5, <1>6, <1>12, <1>13, Opens

\* An app is about to be created: there is an id for it too.
LEMMA CreateAppInv ==
    ASSUME IInv, NEW c \in Clients, NEW o \in Orgs, NEW p \in Projects, NEW n \in Names, NEW r \in Repos,
           NEW ref \in Refs, createApp(c, o, p, n, r, ref)
    PROVE  IInv'
    <1>1. PICK i \in Requests : i = Idle
        BY IdleIs
    <1>2. PICK b : b = NewApp(p, n)
        OBVIOUS
    <1>20. b \in AppRows /\ b.active = NULL
        BY <1>2 DEF NewApp, AppRows, Refs
    <1>3. PICK row : row = [b EXCEPT !.repository = r, !.ref = ref]
        OBVIOUS
    <1>4. row \in AppRows /\ row.repository = r /\ row.ref = ref /\ row.active = NULL
        BY <1>20, <1>3 DEF AppRows
    <1>41. row \in AppRows
        BY <1>4
    <1>5. r # NULL
        BY RowAssumption
    <1>6. row = Connect(NewApp(p, n), r, ref)
        BY <1>2, <1>3, <1>5 DEF Connect
    <1>7. PICK inst \in Installs : inst = ByOrganization(o)
        BY DEF createApp, CreateApp, ByOrganization, IInv, TypeOK
    <1>8. PICK k : k = [i EXCEPT !.op = "createApp", !.at = "resolve", !.org = o, !.inst = inst, !.row = row,
                                 !.repo = r, !.ref = ref]
        OBVIOUS
    <1>9. k \in Requests
        <2>1. "createApp" \in Kinds /\ "resolve" \in Places
            BY Words
        <2>2. QED
            BY <1>41, <1>8, <2>1, ZenonT(120) DEF Requests
    <1>10. k.op = "createApp" /\ k.at = "resolve" /\ k.org = o /\ k.row = row /\ k.repo = r /\ k.ref = ref
        BY <1>8 DEF Requests
    <1>11. Sound(k)
        BY <1>4, <1>10 DEF Sound, Staged, Creates
    <1>12. Open(c, k)
        BY <1>1, <1>6, <1>7, <1>8 DEF createApp, CreateApp
    <1>13. req' = [req EXCEPT ![c] = k] /\ UNCHANGED <<rows, github, acked, seen>> /\ FreeIds' = FreeIds
        BY <1>12 DEF Open, rows, FreeIds
    <1>14. c \in Everyone /\ c \notin Deployers
        BY AppsAssumption DEF Everyone
    <1>15. LeftTyped'
        BY LeftKept DEF createApp
    <1>16. RoomInv'
        <2>1. \A d \in Everyone : req'[d] = IF d = c THEN k ELSE req[d]
            BY <1>13, <1>14 DEF IInv, WorldTypes
        <2>2. Creating' = Creating \cup {c}
            BY <1>10, <2>1 DEF Creating, Everyone
        <2>3. IsFiniteSet(Creating) /\ IsFiniteSet(FreeIds)
            BY AppsAssumption, FS_Subset DEF Creating, FreeIds
        <2>4. Cardinality(Creating') <= Cardinality(Creating) + 1 /\ Cardinality(Creating') \in Nat
            <3>1. Cardinality(Creating) \in Nat
                BY <2>3, FS_CardinalityType
            <3>2. Cardinality(Creating \cup {c}) = IF c \in Creating THEN Cardinality(Creating)
                                                  ELSE Cardinality(Creating) + 1
                BY <2>3, FS_AddElement
            <3>3. QED
                BY <2>2, <3>1, <3>2
        <2>5. Cardinality(Creating) < Cardinality(FreeIds)
            BY DEF createApp, Creating, FreeIds
        <2>6. Cardinality(Creating) \in Nat /\ Cardinality(FreeIds) \in Nat
            BY <2>3, FS_CardinalityType
        <2>7. Cardinality(Creating') <= Cardinality(FreeIds')
            BY <1>13, <2>4, <2>5, <2>6
        <2>8. \A w \in Deployers : req'[w].op \in {NULL, "fetch"}
            BY <1>14, <2>1 DEF IInv, RoomInv, Everyone
        <2>9. QED
            BY <2>7, <2>8 DEF RoomInv
    <1>17. QED
        BY <1>9, <1>11, <1>13, <1>14, <1>15, <1>16, Quiet

---------------------------------------------------------------------------
(* Steps that read rows, or ask GitHub. *)

\* What an open request is, and knows.
LEMMA Knows ==
    ASSUME IInv, NEW c \in Everyone
    PROVE  \E r \in Requests : /\ r = req[c] /\ Sound(r) /\ (r.at # "idle" => r.org \in Orgs)
                               /\ (r.op = NULL \/ r = Idle => r.at = "idle")
    <1>1. PICK r \in Requests : r = req[c] /\ Sound(r)
        BY DEF IInv, WorldTypes, RequestsInv
    <1>2. Idle.at = "idle" /\ Idle.op = NULL
        BY DEF Idle
    <1>3. r.at # "idle" => r.org \in Orgs
        BY <1>1, <1>2 DEF Sound
    <1>4. r.op = NULL \/ r = Idle => r.at = "idle"
        BY <1>1, <1>2, RowAssumption DEF Sound, Staged
    <1>5. QED
        BY <1>1, <1>3, <1>4

\* A request moves on.
LEMMA Moves ==
    ASSUME IInv, NEW c \in Everyone, NEW k \in Requests, req' = [req EXCEPT ![c] = k], Sound(k),
           UNCHANGED <<rows, github, left, seen, acked>>, k.op = req[c].op \/ k.op = NULL
    PROVE  IInv'
    <1>1. FreeIds' = FreeIds
        BY DEF FreeIds, rows
    <1>2. LeftTyped'
        BY LeftKept
    <1>3. NULL # "createApp"
        BY RowAssumption
    <1>4. c \in Deployers => k.op \in {NULL, "fetch"}
        BY DEF IInv, RoomInv
    <1>5. RoomInv'
        BY <1>1, <1>3, <1>4, RoomMoves
    <1>6. QED
        BY <1>2, <1>5, Quiet

\* A request ends.
LEMMA Ends ==
    ASSUME IInv, NEW c \in Everyone, Close(c), UNCHANGED <<rows, github, left, seen, acked>>
    PROVE  IInv'
    <1>1. Idle.op = NULL
        BY DEF Idle
    <1>2. QED
        BY <1>1, IdleSound, Moves DEF Close

\* The installation is the organization's.
LEMMA FindInstallationInv ==
    ASSUME IInv, NEW c \in Everyone, FindInstallation(c), ByOrganization(req[c].org) # NULL
    PROVE  IInv'
    <1>1. PICK r \in Requests : r = req[c] /\ Sound(r) /\ (r.at # "idle" => r.org \in Orgs) /\ (r.op = NULL \/ r = Idle => r.at = "idle")
        BY Knows
    <1>2. /\ r.at = "installation" /\ r.org \in Orgs /\ r # Idle
          /\ r.op \in {"connect", "deploy", "retry", "fetch"}
        BY <1>1 DEF FindInstallation, Sound, Staged
    <1>3. PICK i \in Installs : i = installation[r.org] /\ <<r.org, i>> \in seen.held
        BY <1>1, <1>2 DEF ByOrganization, IInv, TypeOK, TablesInv
    <1>4. PICK at \in Places : at = IF r.op \in {"retry", "fetch"} THEN "source" ELSE "resolve"
        BY Words
    <1>5. PICK k : k = [r EXCEPT !.inst = i, !.at = at]
        OBVIOUS
    <1>6. k \in Requests
        BY <1>5, ZenonT(120) DEF Requests
    <1>7. /\ k.op = r.op /\ k.at = at /\ k.org = r.org /\ k.app = r.app /\ k.row = r.row /\ k.repo = r.repo
          /\ k.ref = r.ref /\ k.inst = i /\ k.commit = r.commit /\ k.asked = r.asked /\ k.dep = r.dep
        BY <1>5 DEF Requests
    <1>8. req' = [req EXCEPT ![c] = k]
        BY <1>1, <1>3, <1>4, <1>5 DEF FindInstallation, ByOrganization, IInv, WorldTypes
    <1>9. r.op = "connect" => Reads(k) /\ Connects(k)
        BY <1>1, <1>2, <1>4, <1>7 DEF Sound, Reads, Connects
    <1>10. r.op \in {"deploy", "retry"} => Deploys(k)
        BY <1>1, <1>2, <1>3, <1>4, <1>7 DEF Sound, Deploys
    <1>11. r.op = "fetch" => Fetches(k)
        BY <1>1, <1>2, <1>3, <1>4, <1>7 DEF Sound, Fetches
    <1>12. Sound(k)
        BY <1>2, <1>4, <1>7, <1>9, <1>10, <1>11 DEF Sound, Staged
    <1>13. UNCHANGED <<rows, github, left, seen, acked>>
        BY DEF FindInstallation
    <1>14. QED
        BY <1>1, <1>6, <1>7, <1>8, <1>12, <1>13, Moves

\* GitHub resolves a ref to a commit.
LEMMA ResolveRefTyped ==
    ASSUME IInv, NEW i, NEW r \in Repos, NEW ref \in Refs
    PROVE  ResolveRef(i, r, ref) \in Commits \cup {NULL}
    <1>1. Lower[r] \in Repos
        BY AppsAssumption
    <1>2. (IF ref = NULL THEN Default ELSE ref) \in Branches
        BY AppsAssumption DEF Refs
    <1>3. head[Lower[r]] \in [Branches -> Commits \cup {NULL}]
        BY <1>1 DEF IInv, WorldTypes
    <1>4. QED
        BY <1>2, <1>3 DEF ResolveRef

\* A deploy learns its commit, and a connection that it can be read.
LEMMA ResolveInv ==
    ASSUME IInv, NEW c \in Everyone, Resolve(c)
    PROVE  IInv'
    <1>1. PICK r \in Requests : r = req[c] /\ Sound(r) /\ (r.at # "idle" => r.org \in Orgs) /\ (r.op = NULL \/ r = Idle => r.at = "idle")
        BY Knows
    <1>2. r.at = "resolve" /\ r.org \in Orgs /\ r # Idle /\ r.op \in {"createApp", "connect", "deploy"}
        BY <1>1 DEF Resolve, Sound, Staged
    <1>3. r.repo \in Repos /\ r.ref \in Refs
        BY <1>1, <1>2 DEF Sound, Creates, Connects, Deploys, Requests
    <1>4. PICK commit \in Commits \cup {NULL} : commit = ResolveRef(r.inst, r.repo, r.ref)
        BY <1>3, ResolveRefTyped
    <1>5. CASE commit = NULL
        BY <1>1, <1>4, <1>5, Ends DEF Resolve
    <1>6. CASE commit # NULL /\ r.op = "deploy"
        <2>1. commit \in Commits
            BY <1>6
        <2>2. PICK k : k = [r EXCEPT !.commit = commit, !.asked = commit, !.at = "source"]
            OBVIOUS
        <2>3. "source" \in Places
            BY Words
        <2>4. k \in Requests
            BY <2>1, <2>2, <2>3, ZenonT(120) DEF Requests
        <2>5. /\ k.op = r.op /\ k.at = "source" /\ k.org = r.org /\ k.app = r.app /\ k.repo = r.repo
              /\ k.inst = r.inst /\ k.commit = commit /\ k.asked = commit
            BY <2>2 DEF Requests
        <2>6. req' = [req EXCEPT ![c] = k]
            BY <1>1, <1>4, <1>6, <2>2 DEF Resolve, IInv, WorldTypes
        <2>7. Deploys(k)
            BY <1>1, <1>2, <1>6, <2>1, <2>5 DEF Sound, Deploys
        <2>8. Sound(k)
            BY <1>2, <1>6, <2>5, <2>7 DEF Sound, Staged
        <2>9. UNCHANGED <<rows, github, left, seen, acked>>
            BY <1>1, <1>4, <1>6 DEF Resolve
        <2>10. QED
            BY <1>1, <2>4, <2>5, <2>6, <2>8, <2>9, Moves
    <1>7. CASE commit # NULL /\ r.op # "deploy"
        <2>1. PICK k : k = [r EXCEPT !.at = "write"]
            OBVIOUS
        <2>2. "write" \in Places
            BY Words
        <2>3. k \in Requests
            BY <2>1, <2>2 DEF Requests
        <2>4. /\ k.op = r.op /\ k.at = "write" /\ k.org = r.org /\ k.app = r.app /\ k.row = r.row
              /\ k.repo = r.repo /\ k.ref = r.ref
            BY <2>1 DEF Requests
        <2>5. /\ req' = [req EXCEPT ![c] = k] /\ UNCHANGED <<rows, github, left, acked>>
              /\ seen' = [seen EXCEPT !.resolved = @ \cup {<<r.org, r.repo, r.ref>>}]
            BY <1>1, <1>4, <1>7, <2>1 DEF Resolve, IInv, WorldTypes
        <2>6. /\ SeenTyped' /\ seen.held \subseteq seen'.held /\ seen.resolved \subseteq seen'.resolved
              /\ <<r.org, r.repo, r.ref>> \in seen'.resolved
            BY <1>2, <1>3, <2>5 DEF IInv, WorldTypes, SeenTyped
        <2>7. Grows /\ NoOrphans' /\ FreeIds' = FreeIds
            BY <2>5, <2>6, TablesKept
        <2>8. Sound(r)'
            BY <1>1, <2>7, SoundKept DEF IInv
        <2>9. r.op = "connect" => Reads(k)' /\ Connects(k)'
            BY <2>4, <2>6, <2>8 DEF Sound, Reads, Connects
        <2>10. r.op = "createApp" => Creates(k)'
            BY <2>4, <2>6, <2>8 DEF Sound, Creates, ConnectionOf
        <2>11. Sound(k)'
            BY <1>2, <1>7, <2>4, <2>9, <2>10 DEF Sound, Staged
        <2>12. LeftTyped'
            BY <2>5, LeftKept
        <2>13. c \in Deployers => k.op \in {NULL, "fetch"}
            BY <1>1, <2>4 DEF IInv, RoomInv
        <2>14. RoomInv'
            BY <1>1, <2>4, <2>5, <2>7, <2>13, RoomMoves
        <2>15. QED
            BY <2>3, <2>5, <2>6, <2>11, <2>12, <2>14, Asks
    <1>8. QED
        BY <1>5, <1>6, <1>7

\* The apps that the code finds connected and tracking are the followers, all of them: an app
\* of the organization has its project.
LEMMA FollowersFound ==
    ASSUME IInv, NEW o \in Orgs, NEW r \in Repos, NEW ref
    PROVE  Followers(o, r, ref) = {x \in ConnectedTo(o, r) : TracksRef(app[x], ref)}
    <1>1. \A a \in AppIds : Row(app[a]) => Row(project[app[a].project])
        BY DEF IInv, TypeOK, NoOrphans
    <1>2. QED
        BY <1>1 DEF Followers, ConnectedTo, TracksRef, GetByID, ProjectByID

\* A push lists what it has to do.
LEMMA ListConnectedInv ==
    ASSUME IInv, NEW c \in Everyone, ListConnected(c)
    PROVE  IInv'
    <1>1. PICK r \in Requests : r = req[c] /\ Sound(r) /\ (r.at # "idle" => r.org \in Orgs) /\ (r.op = NULL \/ r = Idle => r.at = "idle")
        BY Knows
    <1>2. r.at = "list" /\ r.org \in Orgs /\ r # Idle /\ r.op = "push"
        BY <1>1 DEF ListConnected, Sound, Staged
    <1>3. Deploys(r) /\ Owes(r)
        BY <1>1, <1>2 DEF Sound
    <1>4. r.repo \in Repos
        BY <1>3 DEF Owes
    <1>5. PICK F \in SUBSET AppIds :
             /\ F = {x \in ConnectedTo(r.org, r.repo) : TracksRef(app[x], r.ref)}
             /\ F = Followers(r.org, r.repo, r.ref)
             /\ \A a \in F : app[a] \in AppRows
        <2>1. Followers(r.org, r.repo, r.ref) = {x \in ConnectedTo(r.org, r.repo) : TracksRef(app[x], r.ref)}
            BY <1>2, <1>4, FollowersFound
        <2>2. \A a \in AppIds : Row(app[a]) => app[a] \in AppRows
            BY DEF IInv, TypeOK, Row
        <2>3. QED
            BY <2>1, <2>2 DEF Followers
    <1>6. PICK T : T = {[app |-> a, row |-> app[a]] : a \in F}
        OBVIOUS
    <1>7. T \in SUBSET [app : AppIds, row : AppRows]
        BY <1>5, <1>6
    <1>8. F = {x.app : x \in T} /\ \A x, y \in T : x.app = y.app => x = y
        <2>1. \A x \in T : x.app \in F /\ x = [app |-> x.app, row |-> app[x.app]]
            BY <1>6
        <2>2. \A a \in F : [app |-> a, row |-> app[a]] \in T /\ [app |-> a, row |-> app[a]].app = a
            BY <1>6
        <2>3. F \subseteq {x.app : x \in T}
            BY <2>2
        <2>4. {x.app : x \in T} \subseteq F
            BY <2>1
        <2>5. \A x, y \in T : x.app = y.app => x = y
            BY <2>1
        <2>6. QED
            BY <2>3, <2>4, <2>5
    <1>9. PICK k : k = [r EXCEPT !.at = "each", !.due = F, !.todo = T]
        OBVIOUS
    <1>10. "each" \in Places
        BY Words
    <1>11. k \in Requests
        BY <1>7, <1>9, <1>10, ZenonT(120) DEF Requests
    <1>12. /\ k.op = r.op /\ k.at = "each" /\ k.org = r.org /\ k.repo = r.repo /\ k.ref = r.ref
           /\ k.inst = r.inst /\ k.commit = r.commit /\ k.asked = r.asked /\ k.due = F /\ k.todo = T
        BY <1>9 DEF Requests
    <1>13. req' = [req EXCEPT ![c] = k]
        BY <1>1, <1>5, <1>6, <1>9 DEF ListConnected, IInv, WorldTypes
    <1>14. Deploys(k)
        BY <1>2, <1>3, <1>12 DEF Deploys
    <1>15. Owes(k)
        BY <1>3, <1>8, <1>12 DEF Owes
    <1>16. Sound(k)
        BY <1>2, <1>12, <1>14, <1>15 DEF Sound, Staged
    <1>17. UNCHANGED <<rows, github, left, seen, acked>>
        BY DEF ListConnected
    <1>18. QED
        BY <1>1, <1>11, <1>12, <1>13, <1>16, <1>17, Moves

\* A push turns to the next app of its list.
LEMMA NextAppInv ==
    ASSUME IInv, NEW c \in Everyone, NextApp(c)
    PROVE  IInv'
    <1>1. PICK r \in Requests : r = req[c] /\ Sound(r) /\ (r.at # "idle" => r.org \in Orgs) /\ (r.op = NULL \/ r = Idle => r.at = "idle")
        BY Knows
    <1>2. r.at = "each" /\ r.org \in Orgs /\ r # Idle /\ r.op = "push"
        BY <1>1 DEF NextApp, Sound, Staged
    <1>3. Deploys(r) /\ Owes(r)
        BY <1>1, <1>2 DEF Sound
    <1>4. UNCHANGED <<rows, github, left, seen, acked>>
        BY DEF NextApp
    <1>5. CASE Close(c)
        BY <1>4, <1>5, Ends
    <1>6. CASE ~Close(c)
        <2>1. PICK x \in r.todo :
                 req' = [req EXCEPT ![c].at = "source", ![c].app = x.app, ![c].row = x.row,
                                    ![c].todo = @ \ {x}, ![c].due = @ \ {x.app}]
            BY <1>1, <1>6 DEF NextApp
        <2>2. r.todo \in SUBSET [app : AppIds, row : AppRows] /\ r.due \in SUBSET AppIds
            BY DEF Requests
        <2>3. PICK a \in AppIds, row \in AppRows : a = x.app /\ row = x.row
            BY <2>2
        <2>40. PICK T : T = r.todo \ {x}
            OBVIOUS
        <2>41. PICK D : D = r.due \ {a}
            OBVIOUS
        <2>4. T = r.todo \ {x} /\ D = r.due \ {a}
            BY <2>40, <2>41
        <2>5. D = {y.app : y \in T} /\ \A y, z \in T : y.app = z.app => y = z
            BY <1>3, <2>3, <2>4 DEF Owes
        <2>6. PICK k : k = [r EXCEPT !.at = "source", !.app = a, !.row = row, !.todo = T, !.due = D]
            OBVIOUS
        <2>7. "source" \in Places /\ T \in SUBSET [app : AppIds, row : AppRows] /\ D \in SUBSET AppIds
            BY <2>2, <2>4, Words
        <2>8. k \in Requests
            BY <2>6, <2>7, ZenonT(120) DEF Requests
        <2>9. /\ k.op = r.op /\ k.at = "source" /\ k.org = r.org /\ k.app = a /\ k.repo = r.repo
              /\ k.ref = r.ref /\ k.inst = r.inst /\ k.commit = r.commit /\ k.asked = r.asked
              /\ k.due = D /\ k.todo = T
            BY <2>6 DEF Requests
        <2>10. req' = [req EXCEPT ![c] = k]
            BY <1>1, <2>1, <2>3, <2>4, <2>6 DEF IInv, WorldTypes
        <2>11. Deploys(k)
            BY <1>2, <1>3, <2>9 DEF Deploys
        <2>12. Owes(k)
            BY <1>3, <2>5, <2>9 DEF Owes
        <2>13. Sound(k)
            BY <1>2, <2>9, <2>11, <2>12 DEF Sound, Staged
        <2>14. QED
            BY <1>1, <1>4, <2>8, <2>9, <2>10, <2>13, Moves
    <1>7. QED
        BY <1>5, <1>6

\* What a commit says about the runtime is a runtime.
LEMMA RuntimesTyped ==
    ASSUME NEW k \in Commits
    PROVE  Runtimes[k] \subseteq runtimes
    <1>1. \A i \in DOMAIN markers : markers[i][2] \in runtimes
        BY DEF markers, runtimes
    <1>2. \A x \in loose : x[2] \in runtimes
        BY DEF loose, runtimes
    <1>3. \A names : DetectRuntime(names) \subseteq runtimes
        BY <1>1, <1>2 DEF DetectRuntime, Manifests
    <1>4. QED
        BY <1>3 DEF Runtimes

\* The source tells the runtime of a deployment.
LEMMA SourceInv ==
    ASSUME IInv, NEW c \in Everyone, Source(c)
    PROVE  IInv'
    <1>1. PICK r \in Requests : r = req[c] /\ Sound(r) /\ (r.at # "idle" => r.org \in Orgs) /\ (r.op = NULL \/ r = Idle => r.at = "idle")
        BY Knows
    <1>2. r.at = "source" /\ r.org \in Orgs /\ r # Idle /\ r.op \in {"deploy", "retry", "push"}
        BY <1>1 DEF Source, Sound, Staged
    <1>3. Deploys(r) /\ (r.op = "push" => Owes(r))
        BY <1>1, <1>2 DEF Sound
    <1>4. r.commit \in Commits
        BY <1>2, <1>3 DEF Deploys
    <1>5. PICK runtime \in Runtimes[r.commit] :
             req' = [req EXCEPT ![c].at = "create", ![c].runtime = runtime]
        BY <1>1 DEF Source
    <1>6. runtime \in runtimes
        BY <1>4, RuntimesTyped
    <1>7. PICK k : k = [r EXCEPT !.at = "create", !.runtime = runtime]
        OBVIOUS
    <1>8. "create" \in Places
        BY Words
    <1>9. k \in Requests
        BY <1>6, <1>7, <1>8, ZenonT(120) DEF Requests
    <1>10. /\ k.op = r.op /\ k.at = "create" /\ k.org = r.org /\ k.app = r.app /\ k.repo = r.repo
           /\ k.ref = r.ref /\ k.inst = r.inst /\ k.commit = r.commit /\ k.asked = r.asked
           /\ k.runtime = runtime /\ k.due = r.due /\ k.todo = r.todo
        BY <1>7 DEF Requests
    <1>11. req' = [req EXCEPT ![c] = k]
        BY <1>1, <1>5, <1>7 DEF IInv, WorldTypes
    <1>12. Deploys(k)
        BY <1>2, <1>3, <1>6, <1>10 DEF Deploys
    <1>13. r.op = "push" => Owes(k)
        BY <1>3, <1>10 DEF Owes
    <1>14. Sound(k)
        BY <1>2, <1>10, <1>12, <1>13 DEF Sound, Staged
    <1>15. UNCHANGED <<rows, github, left, seen, acked>>
        BY DEF Source
    <1>16. QED
        BY <1>1, <1>9, <1>10, <1>11, <1>14, <1>15, Moves

\* The deployer has the source.
LEMMA UnpackInv ==
    ASSUME IInv, NEW c \in Everyone, Unpack(c)
    PROVE  IInv'
    <1>1. PICK r \in Requests : r = req[c] /\ Sound(r) /\ (r.at # "idle" => r.org \in Orgs) /\ (r.op = NULL \/ r = Idle => r.at = "idle")
        BY Knows
    <1>2. r.at = "source" /\ r.org \in Orgs /\ r # Idle /\ r.op = "fetch"
        BY <1>1 DEF Unpack
    <1>3. PICK k : k = [r EXCEPT !.at = "publish"]
        OBVIOUS
    <1>4. "publish" \in Places
        BY Words
    <1>5. k \in Requests
        BY <1>3, <1>4 DEF Requests
    <1>6. /\ k.op = r.op /\ k.at = "publish" /\ k.org = r.org /\ k.app = r.app /\ k.inst = r.inst
          /\ k.commit = r.commit /\ k.dep = r.dep
        BY <1>3 DEF Requests
    <1>7. req' = [req EXCEPT ![c] = k] /\ UNCHANGED <<rows, github, left, seen, acked>>
        BY <1>1, <1>3 DEF Unpack, IInv, WorldTypes
    <1>8. Fetches(k)
        BY <1>1, <1>2, <1>6 DEF Sound, Fetches
    <1>9. Sound(k)
        BY <1>2, <1>6, <1>8 DEF Sound, Staged
    <1>10. QED
        BY <1>1, <1>5, <1>6, <1>7, <1>9, Moves

---------------------------------------------------------------------------
(* Steps that write rows. *)

RowTypes ==
    /\ project \in [Projects -> ProjectRows \cup {NULL, DELETED}]
    /\ app \in [AppIds -> AppRows \cup {NULL, DELETED}]
    /\ \A a \in AppIds : Row(app[a]) /\ app[a].ref # NULL => app[a].repository # NULL
    /\ deployment \in [Ids -> DeploymentRows \cup {NULL, DELETED}]
    /\ build \in [Ids -> BuildRows \cup {NULL, DELETED}]
    /\ installation \in [Orgs -> Installs \cup {NULL}]

\* The types of what is neither a row nor a request.
RestTypes ==
    /\ SeenTyped /\ LeftTyped
    /\ acked = [a \in AppIds |-> acked[a]]
    /\ readable \in [Repos -> Installs \cup {NULL}]
    /\ head \in [Repos -> [Branches -> Commits \cup {NULL}]]
    /\ delivery \subseteq [inst : Installs, repo : Repos, ref : Branches, commit : Commits]

\* What there is to show of a step.
LEMMA Writes ==
    ASSUME RowTypes', NoOrphans', TablesInv', RestTypes', RequestsInv', req' \in [Everyone -> Requests],
           RoomInv'
    PROVE  IInv'
    <1>1. \A d \in Everyone : (req'[d].at = "idle") <=> (req'[d] = Idle)
        BY IdleAt DEF RequestsInv, Sound
    <1>2. TypeOK'
        BY <1>1 DEF TypeOK, RowTypes, Everyone
    <1>3. WorldTypes'
        BY DEF WorldTypes, RestTypes, SeenTyped
    <1>4. QED
        BY <1>2, <1>3 DEF IInv

\* The rest stays.
LEMMA RestKept ==
    ASSUME IInv, UNCHANGED <<github, seen, acked>>, LeftTyped'
    PROVE  RestTypes'
    BY DEF IInv, WorldTypes, RestTypes, SeenTyped, github

\* A deployment changes its status.
LEMMA StatusSet ==
    ASSUME IInv, NEW d \in Ids, Row(deployment[d]), NEW s \in {"queued", "building", "ready", "failed"},
           deployment' = [deployment EXCEPT ![d].status = s],
           UNCHANGED <<project, app, build, installation, seen, acked>>
    PROVE  RowTypes' /\ NoOrphans' /\ TablesInv' /\ Grows /\ FreeIds' = FreeIds
    <1>1. PICK row \in DeploymentRows : row = deployment[d]
        BY DEF IInv, TypeOK, Row
    <1>2. PICK new : new = [row EXCEPT !.status = s]
        OBVIOUS
    <1>3. /\ new \in DeploymentRows /\ new.app = row.app /\ new.commit = row.commit /\ new.via = row.via
          /\ new.asked = row.asked
        BY <1>2 DEF DeploymentRows
    <1>4. new \notin {NULL, DELETED}
        BY <1>3, RowAssumption
    <1>5. deployment' = [deployment EXCEPT ![d] = new]
        BY <1>1, <1>2 DEF IInv, TypeOK
    <1>6. \A x \in Ids : deployment'[x] = IF x = d THEN new ELSE deployment[x]
        BY <1>5 DEF IInv, TypeOK
    <1>7. /\ \A x \in Ids : deployment'[x] # NULL <=> deployment[x] # NULL
          /\ \A x \in Ids : Row(deployment[x])' <=> Row(deployment[x])
          /\ \A x \in Ids : Row(deployment[x]) =>
                /\ deployment'[x].app = deployment[x].app /\ deployment'[x].commit = deployment[x].commit
                /\ deployment'[x].via = deployment[x].via /\ deployment'[x].asked = deployment[x].asked
        BY <1>1, <1>3, <1>4, <1>6 DEF Row
    <1>8. RowTypes'
        BY <1>3, <1>5 DEF IInv, TypeOK, RowTypes, Row
    <1>9. NoOrphans'
        BY <1>7 DEF IInv, TypeOK, NoOrphans, Row
    <1>10. Grows
        BY <1>7 DEF Grows, Row
    <1>11. TablesInv'
        <2>1. IdsInOrder'
            BY <1>7 DEF IInv, TablesInv, IdsInOrder
        <2>2. BuildsCounted' /\ AnsweredChangesStay'
            BY DEF IInv, TablesInv, BuildsCounted, AnsweredChangesStay, Row
        <2>3. AskedCommit'
            BY <1>7 DEF IInv, TablesInv, AskedCommit, Row
        <2>4. OwnInstallation'
            BY <1>7 DEF IInv, TablesInv, OwnInstallation, Row
        <2>5. ASSUME NEW a \in AppIds, Row(app[a])'
              PROVE  PinOf(a, app[a])' /\ ConnectionOf(OrgIs(a), app[a])'
            BY <2>5 DEF IInv, TablesInv, PinOf, ConnectionOf, OrgIs, Row
        <2>6. \A o \in Orgs : installation'[o] # NULL => <<o, installation'[o]>> \in seen'.held
            BY DEF IInv, TablesInv
        <2>7. QED
            BY <2>1, <2>2, <2>3, <2>4, <2>5, <2>6 DEF TablesInv
    <1>12. FreeIds' = FreeIds
        BY DEF FreeIds
    <1>13. QED
        BY <1>8, <1>9, <1>10, <1>11, <1>12

\* No row is written.
LEMMA RowsKept ==
    ASSUME IInv, UNCHANGED <<project, app, deployment, build, installation, seen, acked>>
    PROVE  RowTypes' /\ NoOrphans' /\ TablesInv' /\ Grows /\ FreeIds' = FreeIds
    <1>1. UNCHANGED <<rows, acked>> /\ seen.held \subseteq seen'.held /\ seen.resolved \subseteq seen'.resolved
        BY DEF rows
    <1>2. RowTypes'
        BY DEF IInv, TypeOK, RowTypes, Row
    <1>3. QED
        BY <1>1, <1>2, TablesKept

\* A deployer that gives up a deployment it claimed.
LEMMA FailKept ==
    ASSUME IInv, NEW c \in Everyone, Fail(c), UNCHANGED <<seen, acked>>
    PROVE  RowTypes' /\ NoOrphans' /\ TablesInv' /\ Grows /\ FreeIds' = FreeIds
    <1>1. PICK r \in Requests : r = req[c] /\ Sound(r)
        BY Knows
    <1>2. CASE r.op = "fetch" /\ Row(deployment[r.dep])
        <2>1. r.dep \in Ids
            BY <1>1, <1>2 DEF Sound, Fetches
        <2>2. deployment' = [deployment EXCEPT ![r.dep].status = "failed"]
            BY <1>1, <1>2 DEF Fail
        <2>3. UNCHANGED <<project, app, build, installation, seen, acked>>
            BY DEF Fail
        <2>4. QED
            BY <1>2, <2>1, <2>2, <2>3, StatusSet
    <1>3. CASE ~(r.op = "fetch" /\ Row(deployment[r.dep]))
        <2>1. UNCHANGED <<project, app, deployment, build, installation, seen, acked>>
            BY <1>1, <1>3 DEF Fail
        <2>2. QED
            BY <2>1, RowsKept
    <1>4. QED
        BY <1>2, <1>3

\* A step of one request that writes rows and uses no id of an app.
LEMMA WritesOne ==
    ASSUME IInv, RowTypes', NoOrphans', TablesInv', Grows, FreeIds' = FreeIds, RestTypes',
           NEW c \in Everyone, NEW k \in Requests, req' = [req EXCEPT ![c] = k], Sound(k),
           k.op = req[c].op \/ k.op = NULL
    PROVE  IInv'
    <1>1. Sound(k)'
        BY SoundKept DEF IInv
    <1>2. RequestsInv' /\ req' \in [Everyone -> Requests]
        BY <1>1, RequestStep
    <1>3. NULL # "createApp"
        BY RowAssumption
    <1>4. c \in Deployers => k.op \in {NULL, "fetch"}
        BY DEF IInv, RoomInv
    <1>5. RoomInv'
        BY <1>3, <1>4, RoomMoves
    <1>6. QED
        BY <1>2, <1>5, Writes

\* ... and ends.
LEMMA WritesLast ==
    ASSUME IInv, RowTypes', NoOrphans', TablesInv', Grows, FreeIds' = FreeIds, RestTypes',
           NEW c \in Everyone, Close(c)
    PROVE  IInv'
    <1>1. Idle.op = NULL
        BY DEF Idle
    <1>2. QED
        BY <1>1, IdleSound, WritesOne DEF Close

\* A request without an installation ends.
LEMMA NoInstallationInv ==
    ASSUME IInv, NEW c \in Everyone, FindInstallation(c), ByOrganization(req[c].org) = NULL
    PROVE  IInv'
    <1>1. Close(c) /\ Fail(c) /\ UNCHANGED <<github, left, seen, acked>>
        BY DEF FindInstallation
    <1>2. RestTypes'
        BY <1>1, RestKept, LeftKept
    <1>3. QED
        BY <1>1, <1>2, FailKept, WritesLast

\* What happens at any time: a request is cut short.
LEMMA AbortInv ==
    ASSUME IInv, NEW c \in Everyone, Abort(c)
    PROVE  IInv'
    <1>1. Close(c) /\ Fail(c) /\ UNCHANGED <<github, seen, acked>>
        BY DEF Abort
    <1>2. RestTypes'
        BY <1>1, RestKept, LeftKept DEF Abort
    <1>3. QED
        BY <1>1, <1>2, FailKept, WritesLast

\* A request that is done with one app.
LEMMA DoneMoves ==
    ASSUME IInv, NEW c \in Everyone, Done(c), req[c].at \in {"source", "create"}
    PROVE  \E k \in Requests : /\ req' = [req EXCEPT ![c] = k] /\ Sound(k)
                               /\ k.op = req[c].op \/ k.op = NULL
    <1>1. PICK r \in Requests : r = req[c] /\ Sound(r) /\ (r.at # "idle" => r.org \in Orgs) /\ (r.op = NULL \/ r = Idle => r.at = "idle")
        BY Knows
    <1>2. CASE r.op # "push"
        <2>1. Idle.op = NULL
            BY DEF Idle
        <2>2. QED
            BY <1>1, <1>2, <2>1, IdleSound DEF Done, Close
    <1>3. CASE r.op = "push"
        <2>1. Deploys(r) /\ Owes(r) /\ r.org \in Orgs /\ r # Idle
            BY <1>1, <1>3 DEF Sound
        <2>2. PICK k : k = [r EXCEPT !.at = "each", !.app = NULL, !.row = NULL, !.runtime = NULL]
            OBVIOUS
        <2>3. "each" \in Places
            BY Words
        <2>4. k \in Requests
            BY <2>2, <2>3, ZenonT(120) DEF Requests
        <2>5. /\ k.op = r.op /\ k.at = "each" /\ k.org = r.org /\ k.repo = r.repo /\ k.ref = r.ref
              /\ k.inst = r.inst /\ k.commit = r.commit /\ k.asked = r.asked /\ k.due = r.due /\ k.todo = r.todo
            BY <2>2 DEF Requests
        <2>6. req' = [req EXCEPT ![c] = k]
            BY <1>1, <1>3, <2>2 DEF Done, IInv, WorldTypes
        <2>7. Deploys(k)
            BY <1>3, <2>1, <2>5 DEF Deploys
        <2>8. Owes(k)
            BY <2>1, <2>5 DEF Owes
        <2>9. Sound(k)
            BY <1>3, <2>1, <2>5, <2>7, <2>8 DEF Sound, Staged
        <2>10. QED
            BY <1>1, <2>4, <2>5, <2>6, <2>9
    <1>4. QED
        BY <1>2, <1>3

\* The source of a commit cannot be had.
LEMMA SourceFailsInv ==
    ASSUME IInv, NEW c \in Everyone, SourceFails(c)
    PROVE  IInv'
    <1>1. Done(c) /\ Fail(c) /\ UNCHANGED <<github, left, seen, acked>> /\ req[c].at = "source"
        BY DEF SourceFails
    <1>2. RestTypes'
        BY <1>1, RestKept, LeftKept
    <1>3. QED
        BY <1>1, <1>2, FailKept, DoneMoves, WritesOne

\* A deployer claims the next deployment.
LEMMA FetchInv ==
    ASSUME IInv, NEW w \in Deployers, NEW d \in Ids, Fetch(w, d)
    PROVE  IInv'
    <1>1. PICK row \in DeploymentRows : row = deployment[d] /\ Row(deployment[d])
        BY DEF Fetch, NextQueued, IInv, TypeOK, Row
    <1>2. PICK a \in AppIds, commit \in Commits : a = row.app /\ commit = row.commit
        BY DEF DeploymentRows
    <1>3. Row(app[a])
        BY <1>1, <1>2 DEF IInv, TypeOK, NoOrphans
    <1>4. PICK of \in AppRows : of = app[a]
        BY <1>3 DEF IInv, TypeOK, Row
    <1>5. UNCHANGED <<project, app, build, installation, github, left, seen, acked>>
        BY DEF Fetch
    <1>6. RestTypes'
        BY <1>5, RestKept, LeftKept
    <1>7. PICK s \in {"building", "failed"} : deployment' = [deployment EXCEPT ![d].status = s]
        BY DEF Fetch
    <1>8. RowTypes' /\ NoOrphans' /\ TablesInv' /\ Grows /\ FreeIds' = FreeIds
        BY <1>1, <1>5, <1>7, StatusSet
    <1>9. CASE of.repository = NULL
        <2>1. UNCHANGED req
            BY <1>1, <1>2, <1>4, <1>9 DEF Fetch
        <2>2. RequestsInv' /\ req' \in [Everyone -> Requests]
            BY <1>8, <2>1, NoRequestStep
        <2>3. Creating' = Creating
            BY <2>1 DEF Creating
        <2>4. RoomInv'
            BY <1>8, <2>1, <2>3 DEF IInv, RoomInv
        <2>5. QED
            BY <1>6, <1>8, <2>2, <2>4, Writes
    <1>10. CASE of.repository # NULL
        <2>1. PICK i \in Requests : i = Idle
            BY IdleIs
        <2>2. PICK o \in Orgs : o = OrgIs(a)
            <3>1. of.project \in Projects /\ Row(project[of.project])
                BY <1>3, <1>4 DEF AppRows, IInv, TypeOK, NoOrphans
            <3>2. project[of.project] \in ProjectRows
                BY <3>1 DEF IInv, TypeOK, Row
            <3>3. QED
                BY <1>4, <3>2 DEF OrgIs, ProjectRows
        <2>3. PICK k : k = [i EXCEPT !.op = "fetch", !.at = "installation", !.dep = d, !.org = o, !.app = a,
                                     !.row = of, !.commit = commit]
            OBVIOUS
        <2>4. "fetch" \in Kinds /\ "installation" \in Places
            BY Words
        <2>5. k \in Requests
            BY <2>3, <2>4, ZenonT(120) DEF Requests
        <2>6. /\ k.op = "fetch" /\ k.at = "installation" /\ k.dep = d /\ k.org = o /\ k.app = a
              /\ k.commit = commit
            BY <2>3 DEF Requests
        <2>7. req' = [req EXCEPT ![w] = k]
            BY <1>1, <1>2, <1>4, <1>10, <2>1, <2>2, <2>3 DEF Fetch, OrganizationOf, OrgIs
        <2>8. Fetches(k)
            <3>1. deployment[d] # NULL /\ app[a] # NULL
                BY <1>1, <1>3 DEF Row
            <3>2. QED
                BY <1>1, <1>2, <2>2, <2>6, <3>1 DEF Fetches
        <2>9. Sound(k)
            BY <2>6, <2>8 DEF Sound, Staged
        <2>10. Sound(k)'
            BY <1>8, <2>5, <2>9, SoundKept DEF IInv
        <2>11. w \in Everyone
            BY DEF Everyone
        <2>12. RequestsInv' /\ req' \in [Everyone -> Requests]
            BY <1>8, <2>5, <2>7, <2>10, <2>11, RequestStep
        <2>13. RoomInv'
            BY <1>8, <2>6, <2>7, <2>11, RoomMoves
        <2>14. QED
            BY <1>6, <1>8, <2>12, <2>13, Writes
    <1>11. QED
        BY <1>9, <1>10

\* The id that is next has no row, and had none.
LEMMA NextId ==
    ASSUME IInv, NEW d, d = 1 + Cardinality({x \in Ids : deployment[x] # NULL}), d \in Ids
    PROVE  deployment[d] = NULL /\ \A x \in Ids : deployment[x] # NULL <=> x <= d - 1
    <1>1. PICK n \in 0..MaxDeployments : \A x \in Ids : deployment[x] # NULL <=> x <= n
        BY DEF IInv, TablesInv, IdsInOrder
    <1>2. MaxDeployments \in Nat
        BY AppsAssumption
    <1>3. {x \in Ids : deployment[x] # NULL} = 1..n
        BY <1>1, <1>2 DEF Ids
    <1>4. Cardinality(1..n) = n
        BY <1>1, <1>2, FS_Interval
    <1>5. Cardinality({x \in Ids : deployment[x] # NULL}) = n
        BY <1>3, <1>4
    <1>6. n \in Nat /\ d = 1 + n
        BY <1>2, <1>5
    <1>7. d - 1 = n /\ ~(d <= n)
        BY <1>6
    <1>8. QED
        BY <1>1, <1>7

\* A deployment is inserted, unless its app is gone.
LEMMA CreateDeploymentInv ==
    ASSUME IInv, NEW c \in Everyone, CreateDeployment(c)
    PROVE  IInv'
    <1>1. PICK r \in Requests : r = req[c] /\ Sound(r) /\ (r.at # "idle" => r.org \in Orgs) /\ (r.op = NULL \/ r = Idle => r.at = "idle")
        BY Knows
    <1>2. r.at = "create" /\ r.org \in Orgs /\ r # Idle /\ r.op \in {"deploy", "retry", "push"}
        BY <1>1 DEF CreateDeployment, Sound, Staged
    <1>3. Deploys(r)
        BY <1>1, <1>2 DEF Sound
    <1>4. /\ r.app \in AppIds /\ r.commit \in Commits /\ r.asked = r.commit /\ r.runtime \in runtimes
          /\ <<r.org, r.inst>> \in seen.held
        BY <1>2, <1>3 DEF Deploys
    <1>5. r.inst \in Installs /\ r.ref \in Refs
        BY <1>4 DEF IInv, WorldTypes, Requests
    <1>6. UNCHANGED <<project, app, build, installation, github, left, seen, acked>>
        BY DEF CreateDeployment
    <1>7. RestTypes'
        BY <1>6, RestKept, LeftKept
    <1>8. PICK d : d = 1 + Cardinality({x \in Ids : deployment[x] # NULL})
        OBVIOUS
    <1>9. RowTypes' /\ NoOrphans' /\ TablesInv' /\ Grows /\ FreeIds' = FreeIds
        <2>1. CASE GetByID(r.org, r.app) /\ d \in Ids
            <3>1. PICK new : new = NewDeployment(r)
                OBVIOUS
            <3>2. new \in DeploymentRows
                BY <1>4, <1>5, <3>1 DEF NewDeployment, DeploymentRows
            <3>3. new \notin {NULL, DELETED}
                BY <3>2, RowAssumption
            <3>4. new.app = r.app /\ new.commit = r.commit /\ new.asked = r.commit /\ new.via = r.inst
                BY <1>4, <3>1 DEF NewDeployment
            <3>5. deployment' = [deployment EXCEPT ![d] = new]
                BY <1>1, <1>8, <2>1, <3>1 DEF CreateDeployment
            <3>6. \A x \in Ids : deployment'[x] = IF x = d THEN new ELSE deployment[x]
                BY <3>5 DEF IInv, TypeOK
            <3>7. deployment[d] = NULL /\ \A x \in Ids : deployment[x] # NULL <=> x <= d - 1
                BY <1>8, <2>1, NextId
            <3>8. ~Row(build[d]) /\ ~Row(build'[d]) /\ ~Row(deployment[d])
                BY <1>6, <2>1, <3>7 DEF IInv, TypeOK, NoOrphans, Row
            <3>9. Row(app[r.app]) /\ OrgIs(r.app) = r.org
                BY <2>1 DEF GetByID, ProjectByID, OrgIs
            <3>10. RowTypes'
                BY <1>6, <3>2, <3>5 DEF IInv, TypeOK, RowTypes, Row
            <3>11. NoOrphans'
                BY <1>6, <3>4, <3>6, <3>8, <3>9 DEF IInv, TypeOK, NoOrphans, Row
            <3>12. Grows
                BY <1>6, <3>6, <3>7 DEF Grows, Row
            <3>13. IdsInOrder'
                <4>1. MaxDeployments \in Nat /\ d \in 1..MaxDeployments
                    BY <2>1, AppsAssumption DEF Ids
                <4>2. \A x \in Ids : deployment'[x] # NULL <=> x <= d
                    BY <3>3, <3>6, <3>7, <4>1 DEF Ids
                <4>3. QED
                    BY <4>1, <4>2 DEF IdsInOrder
            <3>14. BuildsCounted' /\ AnsweredChangesStay'
                BY <1>6 DEF IInv, TablesInv, BuildsCounted, AnsweredChangesStay, Row
            <3>15. AskedCommit'
                BY <1>6, <3>4, <3>6, <3>8 DEF IInv, TablesInv, AskedCommit, Row
            <3>16. OwnInstallation'
                BY <1>4, <1>6, <3>4, <3>6, <3>8, <3>9 DEF IInv, TablesInv, OwnInstallation, OrgIs, Row
            <3>17. ASSUME NEW a \in AppIds, Row(app[a])'
                   PROVE  PinOf(a, app[a])' /\ ConnectionOf(OrgIs(a), app[a])'
                BY <1>6, <3>17 DEF IInv, TablesInv, PinOf, ConnectionOf, OrgIs, Row
            <3>18. \A o \in Orgs : installation'[o] # NULL => <<o, installation'[o]>> \in seen'.held
                BY <1>6 DEF IInv, TablesInv
            <3>19. TablesInv'
                BY <3>13, <3>14, <3>15, <3>16, <3>17, <3>18 DEF TablesInv
            <3>20. FreeIds' = FreeIds
                BY <1>6 DEF FreeIds
            <3>21. QED
                BY <3>10, <3>11, <3>12, <3>19, <3>20
        <2>2. CASE ~(GetByID(r.org, r.app) /\ d \in Ids)
            <3>1. deployment' = deployment
                BY <1>1, <1>8, <2>2 DEF CreateDeployment, IInv, TypeOK
            <3>2. QED
                BY <1>6, <3>1, RowsKept
        <2>3. QED
            BY <2>1, <2>2
    <1>10. Done(c)
        BY DEF CreateDeployment
    <1>11. PICK k \in Requests : req' = [req EXCEPT ![c] = k] /\ Sound(k) /\ (k.op = req[c].op \/ k.op = NULL)
        BY <1>1, <1>2, <1>10, DoneMoves
    <1>12. QED
        BY <1>7, <1>9, <1>11, WritesOne

\* There are no more builds than ids.
LEMMA BuildCount ==
    Cardinality({b \in Ids : build[b] # NULL}) \in 0..MaxDeployments
    <1>1. MaxDeployments \in Nat
        BY AppsAssumption
    <1>2. IsFiniteSet(Ids) /\ Cardinality(Ids) = MaxDeployments
        BY <1>1, FS_Interval DEF Ids
    <1>3. {b \in Ids : build[b] # NULL} \subseteq Ids
        OBVIOUS
    <1>4. /\ IsFiniteSet({b \in Ids : build[b] # NULL})
          /\ Cardinality({b \in Ids : build[b] # NULL}) <= Cardinality(Ids)
        BY <1>2, <1>3, FS_Subset
    <1>5. Cardinality({b \in Ids : build[b] # NULL}) \in Nat
        BY <1>4, FS_CardinalityType
    <1>6. QED
        BY <1>1, <1>2, <1>4, <1>5

\* A build is saved, and its deployment ready, unless they are gone.
LEMMA PublishInv ==
    ASSUME IInv, NEW w \in Everyone, Publish(w)
    PROVE  IInv'
    <1>1. PICK r \in Requests : r = req[w] /\ Sound(r) /\ (r.at # "idle" => r.org \in Orgs) /\ (r.op = NULL \/ r = Idle => r.at = "idle")
        BY Knows
    <1>2. r.at = "publish" /\ r.org \in Orgs /\ r # Idle /\ r.op = "fetch"
        BY <1>1 DEF Publish, Sound, Staged
    <1>3. Fetches(r)
        BY <1>1, <1>2 DEF Sound
    <1>4. UNCHANGED <<project, app, installation, github, left, seen, acked>> /\ Close(w)
        BY DEF Publish
    <1>5. RestTypes'
        BY <1>4, RestKept, LeftKept
    <1>6. CASE ~Row(deployment[r.dep])
        <2>1. UNCHANGED <<build, deployment>>
            BY <1>1, <1>6 DEF Publish
        <2>2. RowTypes' /\ NoOrphans' /\ TablesInv' /\ Grows /\ FreeIds' = FreeIds
            BY <1>4, <2>1, RowsKept
        <2>3. QED
            BY <1>4, <1>5, <2>2, WritesLast
    <1>7. CASE Row(deployment[r.dep])
        <2>1. PICK d \in Ids, a \in AppIds, i \in Installs :
                 /\ d = r.dep /\ a = r.app /\ i = r.inst /\ <<r.org, i>> \in seen.held
                 /\ Row(deployment[d]) /\ deployment[d].app = a /\ deployment[d].commit = r.commit
                 /\ r.commit \in Commits
            BY <1>2, <1>3, <1>7 DEF Fetches, IInv, WorldTypes
        <2>2. Row(app[a]) /\ OrgIs(a) = r.org
            BY <1>3, <2>1 DEF Fetches, IInv, TypeOK, NoOrphans
        <2>3. PICK n \in 0..MaxDeployments : n = Cardinality({b \in Ids : build[b] # NULL})
            BY BuildCount
        <2>4. PICK new : new = [app |-> a, source |-> r.commit, via |-> i, at |-> n]
            OBVIOUS
        <2>5. n \in Nat
            BY AppsAssumption
        <2>6. new \in BuildRows /\ new.app = a /\ new.source = r.commit /\ new.via = i /\ new.at = n
            BY <2>1, <2>4, <2>5 DEF BuildRows
        <2>7. new \notin {NULL, DELETED}
            BY <2>6, RowAssumption
        <2>8. build' = [build EXCEPT ![d] = new] /\ deployment' = [deployment EXCEPT ![d].status = "ready"]
            BY <1>1, <1>7, <2>1, <2>3, <2>4 DEF Publish
        <2>9. PICK row \in DeploymentRows : row = deployment[d]
            BY <2>1 DEF IInv, TypeOK, Row
        <2>10. PICK ready : ready = [row EXCEPT !.status = "ready"]
            OBVIOUS
        <2>11. /\ ready \in DeploymentRows /\ ready.app = row.app /\ ready.commit = row.commit
               /\ ready.via = row.via /\ ready.asked = row.asked
            BY <2>10 DEF DeploymentRows
        <2>12. ready \notin {NULL, DELETED}
            BY <2>11, RowAssumption
        <2>13. deployment' = [deployment EXCEPT ![d] = ready]
            BY <2>8, <2>9, <2>10 DEF IInv, TypeOK
        <2>14. \A x \in Ids : /\ deployment'[x] = IF x = d THEN ready ELSE deployment[x]
                              /\ build'[x] = IF x = d THEN new ELSE build[x]
            BY <2>8, <2>13 DEF IInv, TypeOK
        <2>15. /\ \A x \in Ids : deployment'[x] # NULL <=> deployment[x] # NULL
               /\ \A x \in Ids : Row(deployment[x])' <=> Row(deployment[x])
               /\ \A x \in Ids : Row(deployment[x]) =>
                    /\ deployment'[x].app = deployment[x].app /\ deployment'[x].commit = deployment[x].commit
                    /\ deployment'[x].via = deployment[x].via /\ deployment'[x].asked = deployment[x].asked
            BY <2>1, <2>9, <2>11, <2>12, <2>14 DEF Row
        <2>16. \A x \in Ids : Row(build[x]) => Row(build[x])' /\ build'[x].app = build[x].app
            BY <2>1, <2>6, <2>7, <2>14 DEF IInv, TypeOK, NoOrphans, Row
        <2>17. RowTypes'
            BY <1>4, <2>6, <2>8, <2>11, <2>13 DEF IInv, TypeOK, RowTypes, Row
        <2>18. NoOrphans'
            <3>1. \A x \in Ids : Row(build[x])' => Row(deployment[x])' /\ deployment'[x].app = build'[x].app
                BY <2>1, <2>6, <2>14, <2>15 DEF IInv, TypeOK, NoOrphans, Row
            <3>2. QED
                BY <1>4, <2>15, <3>1 DEF IInv, TypeOK, NoOrphans, Row
        <2>19. Grows
            BY <1>4, <2>15, <2>16 DEF Grows, Row
        <2>20. IdsInOrder'
            BY <2>15 DEF IInv, TablesInv, IdsInOrder
        <2>21. BuildsCounted'
            BY <2>6, <2>14 DEF IInv, TablesInv, BuildsCounted, Row
        <2>22. AnsweredChangesStay'
            BY <1>4 DEF IInv, TablesInv, AnsweredChangesStay, Row
        <2>23. AskedCommit'
            BY <2>1, <2>6, <2>14, <2>15 DEF IInv, TablesInv, AskedCommit, Row
        <2>24. OwnInstallation'
            <3>1. ASSUME NEW x \in Ids, Row(deployment[x])
                  PROVE  /\ <<OrgIs(deployment[x].app), deployment[x].via>> \in seen.held
                         /\ Row(build'[x]) => <<OrgIs(deployment[x].app), build'[x].via>> \in seen.held
                <4>1. /\ <<OrgIs(deployment[x].app), deployment[x].via>> \in seen.held
                      /\ Row(build[x]) => <<OrgIs(deployment[x].app), build[x].via>> \in seen.held
                    BY <3>1 DEF IInv, TablesInv, OwnInstallation, OrgIs
                <4>2. CASE x = d
                    BY <2>1, <2>2, <2>6, <2>14, <4>1, <4>2
                <4>3. CASE x # d
                    BY <2>14, <4>1, <4>3
                <4>4. QED
                    BY <4>2, <4>3
            <3>2. QED
                BY <1>4, <2>15, <3>1 DEF OwnInstallation, OrgIs
        <2>25. ASSUME NEW b \in AppIds, Row(app[b])'
               PROVE  PinOf(b, app[b])' /\ ConnectionOf(OrgIs(b), app[b])'
            <3>1. PICK of \in AppRows : of = app[b] /\ of = app'[b] /\ PinOf(b, of) /\ ConnectionOf(OrgIs(b), of)
                BY <1>4, <2>25 DEF IInv, TypeOK, TablesInv, Row
            <3>2. PinOf(b, of)'
                BY <2>19, <2>25, <3>1, PinKept
            <3>3. ConnectionOf(OrgIs(b), of)'
                BY <1>4, <3>1 DEF ConnectionOf, OrgIs
            <3>4. QED
                BY <3>1, <3>2, <3>3
        <2>26. \A o \in Orgs : installation'[o] # NULL => <<o, installation'[o]>> \in seen'.held
            BY <1>4 DEF IInv, TablesInv
        <2>27. TablesInv'
            BY <2>20, <2>21, <2>22, <2>23, <2>24, <2>25, <2>26 DEF TablesInv
        <2>28. FreeIds' = FreeIds
            BY <1>4 DEF FreeIds
        <2>29. QED
            BY <1>4, <1>5, <2>17, <2>18, <2>19, <2>27, <2>28, WritesLast
    <1>8. QED
        BY <1>6, <1>7

\* Projects change their names or appear: the apps, and what belongs to them, stay.
LEMMA ProjectsKept ==
    ASSUME IInv, UNCHANGED <<app, deployment, build, installation, seen, acked>>,
           project' \in [Projects -> ProjectRows \cup {NULL, DELETED}],
           \A p \in Projects : Row(project[p]) => Row(project'[p]) /\ project'[p].org = project[p].org,
           \A p \in Projects : project[p] = DELETED => project'[p] = DELETED
    PROVE  RowTypes' /\ NoOrphans' /\ TablesInv' /\ Grows /\ FreeIds' = FreeIds
    <1>1. RowTypes'
        BY DEF IInv, TypeOK, RowTypes, Row
    <1>2. \A a \in AppIds : Row(app[a]) => app[a].project \in Projects /\ Row(project[app[a].project])
        BY DEF IInv, TypeOK, NoOrphans, AppRows, Row
    <1>3. \A a \in AppIds : Row(app[a]) => Row(project'[app[a].project]) /\ OrgIs(a)' = OrgIs(a)
        BY <1>2 DEF OrgIs
    <1>4. NoOrphans'
        BY <1>3 DEF IInv, TypeOK, NoOrphans, Row
    <1>5. Grows
        BY DEF Grows, Row
    <1>6. IdsInOrder' /\ BuildsCounted' /\ AnsweredChangesStay' /\ AskedCommit'
        BY DEF IInv, TablesInv, IdsInOrder, BuildsCounted, AnsweredChangesStay, AskedCommit, Row
    <1>7. OwnInstallation'
        <2>1. ASSUME NEW d \in Ids, Row(deployment[d])
              PROVE  deployment[d].app \in AppIds /\ Row(app[deployment[d].app])
            BY <2>1 DEF IInv, TypeOK, NoOrphans, DeploymentRows, Row
        <2>2. QED
            BY <1>3, <2>1 DEF IInv, TablesInv, OwnInstallation, OrgIs, Row
    <1>8. ASSUME NEW a \in AppIds, Row(app[a])'
          PROVE  PinOf(a, app[a])' /\ ConnectionOf(OrgIs(a), app[a])'
        BY <1>3, <1>8 DEF IInv, TablesInv, PinOf, ConnectionOf, Row
    <1>9. \A o \in Orgs : installation'[o] # NULL => <<o, installation'[o]>> \in seen'.held
        BY DEF IInv, TablesInv
    <1>10. FreeIds' = FreeIds
        BY DEF FreeIds
    <1>11. QED
        BY <1>1, <1>4, <1>5, <1>6, <1>7, <1>8, <1>9, <1>10 DEF TablesInv

\* A project is renamed.
LEMMA WriteProjectInv ==
    ASSUME IInv, NEW c \in Everyone, WriteProject(c)
    PROVE  IInv'
    <1>1. PICK r \in Requests : r = req[c] /\ Sound(r)
        BY Knows
    <1>2. r.project \in Projects /\ r.name \in Names
        BY <1>1 DEF WriteProject, Sound
    <1>3. UNCHANGED <<app, deployment, build, installation, github, left, seen, acked>> /\ Close(c)
        BY DEF WriteProject
    <1>4. RestTypes'
        BY <1>3, RestKept, LeftKept
    <1>5. RowTypes' /\ NoOrphans' /\ TablesInv' /\ Grows /\ FreeIds' = FreeIds
        <2>1. CASE project' = project
            BY <1>3, <2>1, RowsKept
        <2>2. CASE project' # project
            <3>1. Row(project[r.project]) /\ project' = [project EXCEPT ![r.project] = RenameProject(@, r.name)]
                BY <1>1, <2>2 DEF WriteProject, ProjectByID
            <3>2. PICK old \in ProjectRows : old = project[r.project]
                BY <1>2, <3>1 DEF IInv, TypeOK, Row
            <3>3. PICK new : new = [old EXCEPT !.name = r.name]
                OBVIOUS
            <3>4. new \in ProjectRows /\ new.org = old.org
                BY <1>2, <3>3 DEF ProjectRows
            <3>5. new \notin {NULL, DELETED}
                BY <3>4, RowAssumption
            <3>6. project' = [project EXCEPT ![r.project] = new]
                BY <3>1, <3>2, <3>3 DEF RenameProject
            <3>7. /\ project' \in [Projects -> ProjectRows \cup {NULL, DELETED}]
                  /\ \A p \in Projects : project'[p] = IF p = r.project THEN new ELSE project[p]
                BY <3>4, <3>6 DEF IInv, TypeOK
            <3>8. \A p \in Projects : Row(project[p]) => Row(project'[p]) /\ project'[p].org = project[p].org
                BY <3>2, <3>4, <3>5, <3>7 DEF Row
            <3>9. \A p \in Projects : project[p] = DELETED => project'[p] = DELETED
                BY <3>1, <3>7 DEF Row
            <3>10. QED
                BY <1>3, <3>7, <3>8, <3>9, ProjectsKept
        <2>3. QED
            BY <2>1, <2>2
    <1>6. QED
        BY <1>3, <1>4, <1>5, WritesLast

\* The row of an app is inserted, or written with its project as it was.
LEMMA AppSet ==
    ASSUME IInv, NEW a \in AppIds, NEW row \in AppRows, app' = [app EXCEPT ![a] = row],
           UNCHANGED <<project, deployment, build, installation, seen>>,
           row.ref # NULL => row.repository # NULL, Row(project[row.project]), PinOf(a, row),
           ConnectionOf(project[row.project].org, row),
           app[a] = NULL \/ (Row(app[a]) /\ app[a].project = row.project), AnsweredChangesStay'
    PROVE  RowTypes' /\ NoOrphans' /\ TablesInv' /\ Grows
    <1>1. row \notin {NULL, DELETED}
        BY RowAssumption
    <1>2. \A x \in AppIds : app'[x] = IF x = a THEN row ELSE app[x]
        BY DEF IInv, TypeOK
    <1>3. \A x \in AppIds : Row(app[x]) => Row(app'[x]) /\ app'[x].project = app[x].project
        BY <1>1, <1>2 DEF Row
    <1>4. app' \in [AppIds -> AppRows \cup {NULL, DELETED}]
        BY DEF IInv, TypeOK
    <1>5. RowTypes'
        BY <1>2, <1>4 DEF IInv, TypeOK, RowTypes, Row
    <1>6. \A d \in Ids : Row(deployment[d]) => deployment[d].app \in AppIds /\ Row(app[deployment[d].app])
        BY DEF IInv, TypeOK, NoOrphans, DeploymentRows, Row
    <1>7. NoOrphans'
        <2>1. \A x \in AppIds : Row(app[x])' => Row(project[app'[x].project])
            BY <1>2 DEF IInv, TypeOK, NoOrphans, Row
        <2>2. \A d \in Ids : Row(deployment[d]) => Row(app'[deployment[d].app])
            BY <1>3, <1>6
        <2>3. QED
            BY <2>1, <2>2 DEF IInv, TypeOK, NoOrphans, Row
    <1>8. Grows
        <2>1. \A x \in AppIds : app[x] # NULL =>
                 app'[x] # NULL /\ (Row(app'[x]) => Row(app[x]) /\ app'[x].project = app[x].project)
            BY <1>1, <1>2 DEF Row
        <2>2. QED
            BY <2>1 DEF Grows, Row
    <1>9. IdsInOrder' /\ BuildsCounted' /\ AskedCommit'
        BY DEF IInv, TablesInv, IdsInOrder, BuildsCounted, AskedCommit, Row
    <1>10. OwnInstallation'
        BY <1>3, <1>6 DEF IInv, TablesInv, OwnInstallation, Row
    <1>11. ASSUME NEW x \in AppIds, Row(app[x])'
           PROVE  PinOf(x, app[x])' /\ ConnectionOf(OrgIs(x), app[x])'
        <2>1. CASE x = a
            BY <1>2, <2>1 DEF PinOf, ConnectionOf, OrgIs, Row
        <2>2. CASE x # a
            BY <1>2, <1>11, <2>2 DEF IInv, TablesInv, PinOf, ConnectionOf, OrgIs, Row
        <2>3. QED
            BY <2>1, <2>2
    <1>12. \A o \in Orgs : installation'[o] # NULL => <<o, installation'[o]>> \in seen'.held
        BY DEF IInv, TablesInv
    <1>13. QED
        BY <1>5, <1>7, <1>8, <1>9, <1>10, <1>11, <1>12 DEF TablesInv

\* The row that a change writes is one the app may have.
LEMMA ChangedRow ==
    ASSUME IInv, NEW r \in Requests, Reads(r), Row(app[r.app]), Validate(Changed(r)), MayPin(r),
           r.op \in {"updateApp", "connect", "activateBuild"}, r.op = "updateApp" => r.name \in Names,
           r.op = "connect" => Connects(r), r.at = "write"
    PROVE  /\ Changed(r) \in AppRows /\ Changed(r).project = app[r.app].project
           /\ PinOf(r.app, Changed(r)) /\ ConnectionOf(r.org, Changed(r))
           /\ Changed(r) = Answered(r, r.row)
    <1>1. PICK old \in AppRows : old = r.row
        BY DEF Reads
    <1>2. old.project = app[r.app].project /\ PinOf(r.app, old) /\ ConnectionOf(r.org, old)
        BY <1>1 DEF Reads
    <1>3. r.repo \in Repos \cup {NULL} /\ r.ref \in Refs /\ r.build \in Ids \cup {NULL}
        BY DEF Requests
    <1>4. PICK new : new = Changed(r)
        OBVIOUS
    <1>5. CASE r.op = "updateApp"
        <2>1. new = [old EXCEPT !.name = r.name]
            BY <1>1, <1>4, <1>5 DEF Changed, Rename
        <2>2. /\ new \in AppRows /\ new.project = old.project /\ new.active = old.active
              /\ new.repository = old.repository /\ new.ref = old.ref
            BY <1>5, <2>1 DEF AppRows
        <2>3. new = Answered(r, r.row)
            BY <1>1, <1>5, <2>1 DEF Answered
        <2>4. QED
            BY <1>2, <1>4, <2>2, <2>3 DEF PinOf, ConnectionOf
    <1>6. CASE r.op = "connect"
        <2>1. PICK ref \in Refs : ref = IF r.repo = NULL THEN NULL ELSE r.ref
            BY <1>3 DEF Refs
        <2>2. new = [old EXCEPT !.repository = r.repo, !.ref = ref]
            BY <1>1, <1>4, <1>6, <2>1 DEF Changed, Connect
        <2>3. /\ new \in AppRows /\ new.project = old.project /\ new.active = old.active
              /\ new.repository = r.repo /\ new.ref = ref
            BY <1>3, <2>2 DEF AppRows
        <2>4. new = Answered(r, r.row)
            BY <1>1, <1>6, <2>1, <2>2 DEF Answered
        <2>5. ConnectionOf(r.org, new)
            BY <1>6, <2>1, <2>3 DEF ConnectionOf, Connects
        <2>6. QED
            BY <1>2, <1>4, <2>3, <2>4, <2>5 DEF PinOf
    <1>7. CASE r.op = "activateBuild"
        <2>1. new = [old EXCEPT !.active = r.build]
            BY <1>1, <1>4, <1>7 DEF Changed, ActivateBuild
        <2>2. /\ new \in AppRows /\ new.project = old.project /\ new.active = r.build
              /\ new.repository = old.repository /\ new.ref = old.ref
            BY <1>3, <2>1 DEF AppRows
        <2>3. new = Answered(r, r.row)
            BY <1>1, <1>7, <2>1 DEF Answered
        <2>4. PinOf(r.app, new)
            BY <2>2 DEF PinOf, MayPin, BuildGet, Row
        <2>5. QED
            BY <1>2, <1>4, <2>2, <2>3, <2>4 DEF ConnectionOf
    <1>8. QED
        BY <1>5, <1>6, <1>7

\* A change of an app is written.
LEMMA WriteAppInv ==
    ASSUME IInv, NEW c \in Everyone, WriteApp(c)
    PROVE  IInv'
    <1>1. PICK r \in Requests : r = req[c] /\ Sound(r)
        BY Knows
    <1>2. /\ r.op \in {"updateApp", "connect", "activateBuild"} /\ r.at = "write" /\ Reads(r)
          /\ r.op = "updateApp" => r.name \in Names
          /\ r.op = "connect" => Connects(r)
        BY <1>1 DEF WriteApp, Sound
    <1>3. UNCHANGED <<project, deployment, build, installation, github, left, seen>> /\ Close(c)
        BY DEF WriteApp
    <1>4. LeftTyped' /\ acked = [a \in AppIds |-> acked[a]]
        BY <1>3, LeftKept DEF IInv, WorldTypes
    <1>5. r.app \in AppIds /\ app[r.app] # NULL
        BY <1>2 DEF Reads
    <1>6. PICK written \in BOOLEAN :
             written <=> /\ GetByID(r.org, r.app) /\ Validate(Changed(r)) /\ MayPin(r)
                         /\ AppNameFree(Changed(r).project, Changed(r).name, r.app)
        OBVIOUS
    <1>7. /\ app' = IF written THEN [app EXCEPT ![r.app] = Changed(r)] ELSE app
          /\ acked' = IF ~written \/ acked[r.app] = NULL THEN acked
                ELSE [acked EXCEPT ![r.app] = IF app[r.app] = r.row THEN Answered(r, @) ELSE NULL]
        BY <1>1, <1>6 DEF WriteApp
    <1>8. CASE ~written
        <2>1. UNCHANGED <<project, app, deployment, build, installation, seen, acked>>
            BY <1>3, <1>7, <1>8
        <2>2. RestTypes'
            BY <1>3, <1>4, <2>1, RestKept
        <2>3. QED
            BY <1>3, <2>1, <2>2, RowsKept, WritesLast
    <1>9. CASE written
        <2>1. Row(app[r.app]) /\ Row(project[app[r.app].project]) /\ project[app[r.app].project].org = r.org
            BY <1>6, <1>9 DEF GetByID, ProjectByID
        <2>2. PICK row \in AppRows :
                 /\ row = Changed(r) /\ row.project = app[r.app].project /\ PinOf(r.app, row)
                 /\ ConnectionOf(r.org, row) /\ row = Answered(r, r.row)
            BY <1>2, <1>6, <1>9, <2>1, ChangedRow
        <2>3. row.ref # NULL => row.repository # NULL
            BY <1>6, <1>9, <2>2 DEF Validate
        <2>4. app' = [app EXCEPT ![r.app] = row]
            BY <1>7, <1>9, <2>2
        <2>5. /\ acked' = [a \in AppIds |-> acked'[a]]
              /\ \A a \in AppIds : a # r.app => acked'[a] = acked[a]
              /\ acked'[r.app] # NULL => /\ acked[r.app] # NULL /\ app[r.app] = r.row
                                         /\ acked'[r.app] = Answered(r, acked[r.app])
            <3>1. CASE acked[r.app] = NULL
                BY <1>4, <1>7, <3>1
            <3>2. CASE acked[r.app] # NULL
                <4>1. PICK v : v = IF app[r.app] = r.row THEN Answered(r, acked[r.app]) ELSE NULL
                    OBVIOUS
                <4>2. acked' = [acked EXCEPT ![r.app] = v]
                    BY <1>7, <1>9, <3>2, <4>1
                <4>3. QED
                    BY <1>4, <1>5, <3>2, <4>1, <4>2
            <3>3. QED
                BY <3>1, <3>2
        <2>6. AnsweredChangesStay'
            <3>1. \A a \in AppIds : app'[a] = IF a = r.app THEN row ELSE app[a]
                BY <1>5, <2>4 DEF IInv, TypeOK
            <3>2. \A a \in AppIds : Row(app[a]) /\ acked[a] # NULL => app[a] = acked[a]
                BY DEF IInv, TablesInv, AnsweredChangesStay
            <3>3. acked'[r.app] # NULL => acked'[r.app] = row
                BY <1>5, <2>1, <2>2, <2>5, <3>2
            <3>4. \A a \in AppIds : Row(app'[a]) /\ acked'[a] # NULL => app'[a] = acked'[a]
                BY <2>5, <3>1, <3>2, <3>3
            <3>5. QED
                BY <3>4 DEF AnsweredChangesStay, Row
        <2>7. RowTypes' /\ NoOrphans' /\ TablesInv' /\ Grows
            BY <1>3, <1>5, <2>1, <2>2, <2>3, <2>4, <2>6, AppSet
        <2>8. FreeIds' = FreeIds
            <3>1. row # NULL
                BY RowAssumption
            <3>2. \A a \in AppIds : app'[a] = IF a = r.app THEN row ELSE app[a]
                BY <1>5, <2>4 DEF IInv, TypeOK
            <3>3. QED
                BY <1>5, <3>1, <3>2 DEF FreeIds
        <2>9. RestTypes'
            BY <1>3, <1>4, <2>5 DEF IInv, WorldTypes, RestTypes, SeenTyped, github
        <2>10. QED
            BY <1>3, <2>7, <2>8, <2>9, WritesLast
    <1>10. QED
        BY <1>8, <1>9

\* There is an id for an app that is about to be inserted.
LEMMA RoomForOne ==
    ASSUME IInv, NEW c \in Everyone, req[c].op = "createApp"
    PROVE  /\ c \in Creating /\ IsFiniteSet(Creating) /\ IsFiniteSet(FreeIds) /\ FreeIds # {}
    <1>1. c \in Clients
        BY RowAssumption DEF IInv, RoomInv, Everyone
    <1>2. c \in Creating
        BY <1>1 DEF Creating
    <1>3. IsFiniteSet(Creating) /\ IsFiniteSet(FreeIds)
        BY AppsAssumption, FS_Subset DEF Creating, FreeIds
    <1>4. Cardinality(Creating) # 0 /\ Cardinality(Creating) \in Nat
        BY <1>2, <1>3, FS_EmptySet, FS_CardinalityType
    <1>5. Cardinality(FreeIds) # 0
        BY <1>3, <1>4, FS_CardinalityType DEF IInv, RoomInv
    <1>6. QED
        BY <1>2, <1>3, <1>5, FS_EmptySet

\* An app is inserted, unless its project is gone or has one of that name.
LEMMA InsertAppInv ==
    ASSUME IInv, NEW c \in Everyone, InsertApp(c)
    PROVE  IInv'
    <1>1. PICK r \in Requests : r = req[c] /\ Sound(r)
        BY Knows
    <1>2. r.op = "createApp" /\ r.at = "write" /\ Creates(r)
        BY <1>1 DEF InsertApp, Sound
    <1>3. UNCHANGED <<project, deployment, build, installation, github, left, seen>> /\ Close(c)
        BY DEF InsertApp
    <1>4. LeftTyped' /\ acked = [a \in AppIds |-> acked[a]]
        BY <1>3, LeftKept DEF IInv, WorldTypes
    <1>5. c \in Creating /\ IsFiniteSet(Creating) /\ IsFiniteSet(FreeIds) /\ FreeIds # {}
        BY <1>1, <1>2, RoomForOne
    <1>6. PICK a \in AppIds : a = (CHOOSE x \in AppIds : app[x] = NULL) /\ app[a] = NULL
        BY <1>5 DEF FreeIds
    <1>7. PICK inserted \in BOOLEAN :
             inserted <=> /\ ProjectByID(r.org, r.row.project) /\ Validate(r.row)
                          /\ AppNameFree(r.row.project, r.row.name, a)
        OBVIOUS
    <1>8. /\ app' = IF inserted THEN [app EXCEPT ![a] = r.row] ELSE app
          /\ acked' = IF inserted THEN [acked EXCEPT ![a] = r.row] ELSE acked
        BY <1>1, <1>6, <1>7 DEF InsertApp
    <1>9. CASE ~inserted
        <2>1. UNCHANGED <<project, app, deployment, build, installation, seen, acked>>
            BY <1>3, <1>8, <1>9
        <2>2. RestTypes'
            BY <1>3, <1>4, <2>1, RestKept
        <2>3. QED
            BY <1>3, <2>1, <2>2, RowsKept, WritesLast
    <1>10. CASE inserted
        <2>1. PICK row \in AppRows : /\ row = r.row /\ row.active = NULL /\ ConnectionOf(r.org, row)
            BY <1>2 DEF Creates
        <2>2. /\ Row(project[row.project]) /\ project[row.project].org = r.org
              /\ row.ref # NULL => row.repository # NULL
            BY <1>7, <1>10, <2>1 DEF ProjectByID, Validate
        <2>3. app' = [app EXCEPT ![a] = row] /\ acked' = [acked EXCEPT ![a] = row]
            BY <1>8, <1>10, <2>1
        <2>4. /\ \A x \in AppIds : app'[x] = IF x = a THEN row ELSE app[x]
              /\ \A x \in AppIds : acked'[x] = IF x = a THEN row ELSE acked[x]
              /\ acked' = [x \in AppIds |-> acked'[x]]
            BY <1>4, <2>3 DEF IInv, TypeOK
        <2>5. AnsweredChangesStay'
            BY <2>4 DEF IInv, TablesInv, AnsweredChangesStay, Row
        <2>6. PinOf(a, row)
            BY <2>1 DEF PinOf
        <2>7. RowTypes' /\ NoOrphans' /\ TablesInv' /\ Grows
            BY <1>3, <1>6, <2>1, <2>2, <2>3, <2>5, <2>6, AppSet
        <2>8. RestTypes'
            BY <1>3, <1>4, <2>4 DEF IInv, WorldTypes, RestTypes, SeenTyped, github
        <2>9. RequestsInv' /\ req' \in [Everyone -> Requests]
            BY <1>3, <2>7, IdleSound, RequestStep DEF Close
        <2>10. \A d \in Everyone : req'[d] = IF d = c THEN Idle ELSE req[d]
            BY <1>3 DEF Close, IInv, WorldTypes
        <2>11. RoomInv'
            <3>1. Idle.op = NULL /\ NULL # "createApp" /\ row # NULL
                BY RowAssumption DEF Idle
            <3>2. Creating' = Creating \ {c} /\ FreeIds' = FreeIds \ {a} /\ a \in FreeIds
                BY <1>6, <2>4, <2>10, <3>1 DEF Creating, FreeIds, Everyone
            <3>3. /\ Cardinality(Creating \ {c}) = Cardinality(Creating) - 1
                  /\ Cardinality(FreeIds \ {a}) = Cardinality(FreeIds) - 1
                BY <1>5, <3>2, FS_RemoveElement
            <3>4. Cardinality(Creating) \in Nat /\ Cardinality(FreeIds) \in Nat
                BY <1>5, FS_CardinalityType
            <3>5. Cardinality(Creating') <= Cardinality(FreeIds')
                BY <3>2, <3>3, <3>4 DEF IInv, RoomInv
            <3>6. \A w \in Deployers : req'[w].op \in {NULL, "fetch"}
                BY <2>10, <3>1 DEF IInv, RoomInv, Everyone
            <3>7. QED
                BY <3>5, <3>6 DEF RoomInv
        <2>12. QED
            BY <2>7, <2>8, <2>9, <2>11, Writes
    <1>11. QED
        BY <1>9, <1>10

---------------------------------------------------------------------------
(* Requests of one statement, and GitHub. *)

\* A step that no open request makes.
LEMMA WritesAlone ==
    ASSUME IInv, RowTypes', NoOrphans', TablesInv', Grows, FreeIds' = FreeIds, RestTypes', UNCHANGED req
    PROVE  IInv'
    <1>1. RequestsInv' /\ req' \in [Everyone -> Requests]
        BY NoRequestStep
    <1>2. Creating' = Creating
        BY DEF Creating
    <1>3. RoomInv'
        BY <1>2 DEF IInv, RoomInv
    <1>4. QED
        BY <1>1, <1>3, Writes

\* A project is created.
LEMMA CreateProjectInv ==
    ASSUME IInv, NEW o \in Orgs, NEW p \in Projects, NEW n \in Names, createProject(o, p, n)
    PROVE  IInv'
    <1>1. /\ project[p] = NULL /\ project' = [project EXCEPT ![p] = NewProject(o, n)]
          /\ UNCHANGED <<app, deployment, build, installation, github, req, seen, acked>>
        BY DEF createProject, CreateProject
    <1>2. RestTypes'
        BY <1>1, RestKept, LeftKept DEF createProject
    <1>3. NewProject(o, n) \in ProjectRows
        BY DEF NewProject, ProjectRows
    <1>4. /\ project' \in [Projects -> ProjectRows \cup {NULL, DELETED}]
          /\ \A q \in Projects : q # p => project'[q] = project[q]
        BY <1>1, <1>3 DEF IInv, TypeOK
    <1>5. \A q \in Projects : Row(project[q]) => Row(project'[q]) /\ project'[q].org = project[q].org
        BY <1>1, <1>4 DEF Row
    <1>6. \A q \in Projects : project[q] = DELETED => project'[q] = DELETED
        BY <1>1, <1>4, RowAssumption
    <1>7. RowTypes' /\ NoOrphans' /\ TablesInv' /\ Grows /\ FreeIds' = FreeIds
        BY <1>1, <1>4, <1>5, <1>6, ProjectsKept
    <1>8. QED
        BY <1>1, <1>2, <1>7, WritesAlone

\* Apps go, with all that belongs to them, and with them the projects that have no others.
LEMMA CascadeKept ==
    ASSUME IInv, NEW gone \in SUBSET AppIds, \A a \in gone : Row(app[a]), Cascade(gone),
           UNCHANGED <<installation, seen, acked>>,
           project' \in [Projects -> ProjectRows \cup {NULL, DELETED}],
           \A q \in Projects : \/ project'[q] = project[q]
                               \/ /\ project'[q] = DELETED
                                  /\ \A a \in AppIds : Row(app[a]) /\ app[a].project = q => a \in gone
    PROVE  RowTypes' /\ NoOrphans' /\ TablesInv' /\ Grows /\ FreeIds' = FreeIds
    <1>1. NULL # DELETED
        BY RowAssumption
    <1>2. /\ \A a \in AppIds : app'[a] = IF a \in gone THEN DELETED ELSE app[a]
          /\ \A d \in Ids : deployment'[d] = IF Row(deployment[d]) /\ deployment[d].app \in gone
                                             THEN DELETED ELSE deployment[d]
          /\ \A b \in Ids : build'[b] = IF Row(build[b]) /\ build[b].app \in gone THEN DELETED ELSE build[b]
        BY DEF Cascade
    <1>3. /\ \A a \in AppIds : Row(app[a])' => Row(app[a]) /\ app'[a] = app[a] /\ a \notin gone
          /\ \A d \in Ids : Row(deployment[d])' =>
                Row(deployment[d]) /\ deployment'[d] = deployment[d] /\ deployment[d].app \notin gone
          /\ \A b \in Ids : Row(build[b])' =>
                Row(build[b]) /\ build'[b] = build[b] /\ build[b].app \notin gone
        BY <1>2 DEF Row
    <1>4. /\ app' \in [AppIds -> AppRows \cup {NULL, DELETED}]
          /\ deployment' \in [Ids -> DeploymentRows \cup {NULL, DELETED}]
          /\ build' \in [Ids -> BuildRows \cup {NULL, DELETED}]
        BY DEF Cascade, IInv, TypeOK
    <1>5. RowTypes'
        <2>1. \A a \in AppIds : Row(app[a])' /\ app'[a].ref # NULL => app'[a].repository # NULL
            BY <1>3 DEF IInv, TypeOK
        <2>2. QED
            BY <1>4, <2>1 DEF IInv, TypeOK, RowTypes, Row
    <1>6. \A a \in AppIds : Row(app[a]) => app[a].project \in Projects /\ Row(project[app[a].project])
        BY DEF IInv, TypeOK, NoOrphans, AppRows, Row
    <1>7. \A a \in AppIds : Row(app[a])' => project'[app'[a].project] = project[app[a].project]
        BY <1>3, <1>6
    <1>8. \A d \in Ids : Row(deployment[d]) => deployment[d].app \in AppIds /\ Row(app[deployment[d].app])
        BY DEF IInv, TypeOK, NoOrphans, DeploymentRows, Row
    <1>9. \A b \in Ids : Row(build[b]) => Row(deployment[b]) /\ deployment[b].app = build[b].app
        BY DEF IInv, TypeOK, NoOrphans
    <1>10. \A d \in Ids : Row(deployment[d])' => Row(app'[deployment'[d].app])
        BY <1>2, <1>3, <1>8 DEF Row
    <1>11. \A b \in Ids : Row(build[b])' => Row(deployment[b])' /\ deployment'[b].app = build'[b].app
        BY <1>2, <1>3, <1>9 DEF Row
    <1>12. NoOrphans'
        <2>1. \A a \in AppIds : Row(app[a])' => Row(project'[app'[a].project])
            BY <1>3, <1>6, <1>7
        <2>2. QED
            BY <1>10, <1>11, <2>1 DEF NoOrphans, Row
    <1>13. Grows
        <2>1. \A q \in Projects : project[q] # NULL /\ Row(project'[q]) =>
                 Row(project[q]) /\ project'[q].org = project[q].org
            BY DEF Row
        <2>2. \A a \in AppIds : app[a] # NULL =>
                 app'[a] # NULL /\ (Row(app'[a]) => Row(app[a]) /\ app'[a].project = app[a].project)
            BY <1>1, <1>2 DEF Row
        <2>3. \A d \in Ids : deployment[d] # NULL =>
                 /\ deployment'[d] # NULL
                 /\ Row(deployment'[d]) => /\ Row(deployment[d]) /\ deployment'[d].app = deployment[d].app
                                           /\ deployment'[d].commit = deployment[d].commit
            BY <1>1, <1>2 DEF Row
        <2>4. \A b \in Ids : Row(build[b]) =>
                 ~Row(app'[build[b].app]) \/ (Row(build'[b]) /\ build'[b].app = build[b].app)
            BY <1>2 DEF Row
        <2>5. QED
            BY <2>1, <2>2, <2>3, <2>4 DEF Grows
    <1>14. IdsInOrder'
        <2>1. \A d \in Ids : deployment'[d] # NULL <=> deployment[d] # NULL
            BY <1>1, <1>2 DEF Row
        <2>2. QED
            BY <2>1 DEF IInv, TablesInv, IdsInOrder
    <1>15. BuildsCounted'
        BY <1>3 DEF IInv, TablesInv, BuildsCounted, Row
    <1>16. AnsweredChangesStay'
        BY <1>3 DEF IInv, TablesInv, AnsweredChangesStay, Row
    <1>17. AskedCommit'
        BY <1>3 DEF IInv, TablesInv, AskedCommit, Row
    <1>18. OwnInstallation'
        <2>1. ASSUME NEW d \in Ids, Row(deployment[d])'
              PROVE  /\ Row(deployment[d]) /\ deployment'[d] = deployment[d]
                     /\ project'[app'[deployment[d].app].project] = project[app[deployment[d].app].project]
            BY <1>3, <1>7, <1>8, <1>10, <2>1 DEF Row
        <2>2. QED
            BY <1>3, <2>1 DEF IInv, TablesInv, OwnInstallation, Row
    <1>19. ASSUME NEW a \in AppIds, Row(app[a])'
           PROVE  PinOf(a, app[a])' /\ ConnectionOf(OrgIs(a), app[a])'
        <2>1. PICK of \in AppRows : /\ of = app[a] /\ of = app'[a] /\ PinOf(a, of)
                                    /\ ConnectionOf(OrgIs(a), of)
            BY <1>3, <1>19 DEF IInv, TypeOK, TablesInv, Row
        <2>2. PinOf(a, of)'
            BY <1>13, <1>19, <2>1, PinKept
        <2>3. OrgIs(a)' = OrgIs(a)
            BY <1>7, <1>19 DEF OrgIs
        <2>4. QED
            BY <2>1, <2>2, <2>3 DEF ConnectionOf
    <1>20. \A o \in Orgs : installation'[o] # NULL => <<o, installation'[o]>> \in seen'.held
        BY DEF IInv, TablesInv
    <1>21. FreeIds' = FreeIds
        BY <1>1, <1>2 DEF FreeIds, Row
    <1>22. QED
        BY <1>5, <1>12, <1>13, <1>14, <1>15, <1>16, <1>17, <1>18, <1>19, <1>20, <1>21 DEF TablesInv

\* A project goes, with its apps.
LEMMA DeleteProjectInv ==
    ASSUME IInv, NEW o \in Orgs, NEW p \in Projects, deleteProject(o, p)
    PROVE  IInv'
    <1>1. PICK gone \in SUBSET AppIds : gone = {a \in AppIds : Row(app[a]) /\ app[a].project = p}
        OBVIOUS
    <1>2. /\ project' = [project EXCEPT ![p] = DELETED] /\ Cascade(gone)
          /\ UNCHANGED <<installation, github, req, seen, acked>>
        BY <1>1 DEF deleteProject, DeleteProject
    <1>3. RestTypes'
        BY <1>2, RestKept, LeftKept DEF deleteProject
    <1>4. /\ project' \in [Projects -> ProjectRows \cup {NULL, DELETED}]
          /\ \A q \in Projects : project'[q] = IF q = p THEN DELETED ELSE project[q]
        BY <1>2 DEF IInv, TypeOK
    <1>5. \A a \in gone : Row(app[a])
        BY <1>1
    <1>6. \A q \in Projects : \/ project'[q] = project[q]
                              \/ /\ project'[q] = DELETED
                                 /\ \A a \in AppIds : Row(app[a]) /\ app[a].project = q => a \in gone
        BY <1>1, <1>4
    <1>7. RowTypes' /\ NoOrphans' /\ TablesInv' /\ Grows /\ FreeIds' = FreeIds
        BY <1>2, <1>4, <1>5, <1>6, CascadeKept
    <1>8. QED
        BY <1>2, <1>3, <1>7, WritesAlone

\* An app goes.
LEMMA DeleteAppInv ==
    ASSUME IInv, NEW o \in Orgs, NEW a \in AppIds, deleteApp(o, a)
    PROVE  IInv'
    <1>1. PICK gone \in SUBSET AppIds : gone = {a}
        OBVIOUS
    <1>2. /\ Cascade(gone) /\ UNCHANGED <<project, installation, github, req, seen, acked>>
          /\ \A x \in gone : Row(app[x])
        BY <1>1 DEF deleteApp, DeleteApp, GetByID
    <1>3. RestTypes'
        BY <1>2, RestKept, LeftKept DEF deleteApp
    <1>4. project' \in [Projects -> ProjectRows \cup {NULL, DELETED}] /\ \A q \in Projects : project'[q] = project[q]
        BY <1>2 DEF IInv, TypeOK
    <1>5. RowTypes' /\ NoOrphans' /\ TablesInv' /\ Grows /\ FreeIds' = FreeIds
        BY <1>2, <1>4, CascadeKept
    <1>6. QED
        BY <1>2, <1>3, <1>5, WritesAlone

\* An organization changes its installation.
LEMMA InstallationInv ==
    ASSUME IInv, NEW o \in Orgs, NEW i \in Installs, recordInstallation(o, i) \/ deleteInstallation(o)
    PROVE  IInv'
    <1>1. PICK v \in Installs \cup {NULL} :
             /\ installation' = [installation EXCEPT ![o] = v]
             /\ v # NULL => <<o, v>> \in seen'.held
             /\ SeenTyped' /\ seen.held \subseteq seen'.held /\ seen'.resolved = seen.resolved
        <2>1. CASE recordInstallation(o, i)
            <3>1. /\ installation' = [installation EXCEPT ![o] = i]
                  /\ seen' = [seen EXCEPT !.held = @ \cup {<<o, i>>}]
                BY <2>1 DEF recordInstallation, Install, SaveInstallation
            <3>2. /\ <<o, i>> \in seen'.held /\ SeenTyped' /\ seen.held \subseteq seen'.held
                  /\ seen'.resolved = seen.resolved
                BY <3>1 DEF IInv, WorldTypes, SeenTyped
            <3>3. QED
                BY <3>1, <3>2
        <2>2. CASE deleteInstallation(o)
            <3>1. /\ installation' = [installation EXCEPT ![o] = NULL] /\ UNCHANGED seen
                BY <2>2 DEF deleteInstallation, Uninstall
            <3>2. SeenTyped'
                BY <3>1 DEF IInv, WorldTypes, SeenTyped
            <3>3. QED
                BY <3>1, <3>2
        <2>3. QED
            BY <2>1, <2>2
    <1>2. UNCHANGED <<project, app, deployment, build, github, req, acked>> /\ Reinstall
        BY DEF recordInstallation, deleteInstallation, Install, Uninstall
    <1>3. LeftTyped'
        BY <1>2, LeftKept
    <1>4. RestTypes'
        BY <1>1, <1>2, <1>3 DEF IInv, WorldTypes, RestTypes, github
    <1>5. /\ installation' \in [Orgs -> Installs \cup {NULL}]
          /\ \A x \in Orgs : installation'[x] = IF x = o THEN v ELSE installation[x]
        BY <1>1 DEF IInv, TypeOK
    <1>6. RowTypes'
        BY <1>2, <1>5 DEF IInv, TypeOK, RowTypes, Row
    <1>7. NoOrphans' /\ FreeIds' = FreeIds
        BY <1>2 DEF IInv, TypeOK, NoOrphans, FreeIds, Row
    <1>8. Grows
        BY <1>1, <1>2 DEF Grows, Row
    <1>9. TablesInv'
        <2>1. IdsInOrder' /\ BuildsCounted' /\ AnsweredChangesStay' /\ AskedCommit'
            BY <1>2 DEF IInv, TablesInv, IdsInOrder, BuildsCounted, AnsweredChangesStay, AskedCommit, Row
        <2>2. OwnInstallation'
            BY <1>1, <1>2 DEF IInv, TablesInv, OwnInstallation, Row
        <2>3. ASSUME NEW a \in AppIds, Row(app[a])'
              PROVE  PinOf(a, app[a])' /\ ConnectionOf(OrgIs(a), app[a])'
            BY <1>1, <1>2, <2>3 DEF IInv, TablesInv, PinOf, ConnectionOf, OrgIs, Row
        <2>4. \A x \in Orgs : installation'[x] # NULL => <<x, installation'[x]>> \in seen'.held
            BY <1>1, <1>5 DEF IInv, TablesInv
        <2>5. QED
            BY <2>1, <2>2, <2>3, <2>4 DEF TablesInv
    <1>10. QED
        BY <1>2, <1>4, <1>6, <1>7, <1>8, <1>9, WritesAlone

\* What happens at GitHub changes no row and no request.
LEMMA GitHubInv ==
    ASSUME IInv, GitHub
    PROVE  IInv'
    <1>1. PICK r \in Repos : \/ \E b \in Branches, k \in Commits : Pushed(r, b, k)
                             \/ \E i \in Installs \cup {NULL} : Granted(r, i)
        BY AppsAssumption DEF GitHub
    <1>2. UNCHANGED <<project, app, deployment, build, installation, req, seen, acked>> /\ Event
        BY <1>1 DEF Pushed, Granted, rows
    <1>3. LeftTyped'
        BY <1>2, LeftKept
    <1>4. /\ readable' \in [Repos -> Installs \cup {NULL}]
          /\ head' \in [Repos -> [Branches -> Commits \cup {NULL}]]
          /\ delivery' \subseteq [inst : Installs, repo : Repos, ref : Branches, commit : Commits]
        <2>1. CASE \E b \in Branches, k \in Commits : Pushed(r, b, k)
            <3>1. PICK b \in Branches, k \in Commits : Pushed(r, b, k)
                BY <2>1
            <3>2. head' \in [Repos -> [Branches -> Commits \cup {NULL}]] /\ readable' = readable
                BY <3>1 DEF Pushed, IInv, WorldTypes
            <3>3. readable[r] # NULL => readable[r] \in Installs
                BY DEF IInv, WorldTypes
            <3>4. delivery' \subseteq [inst : Installs, repo : Repos, ref : Branches, commit : Commits]
                BY <3>1, <3>3 DEF Pushed, IInv, WorldTypes
            <3>5. QED
                BY <3>2, <3>4 DEF IInv, WorldTypes
        <2>2. CASE \E i \in Installs \cup {NULL} : Granted(r, i)
            BY <2>2 DEF Granted, IInv, WorldTypes
        <2>3. QED
            BY <1>1, <2>1, <2>2
    <1>5. RestTypes'
        BY <1>2, <1>3, <1>4 DEF IInv, WorldTypes, RestTypes, SeenTyped
    <1>6. QED
        BY <1>2, <1>5, RowsKept, WritesAlone

---------------------------------------------------------------------------
(* The specification keeps the invariant. *)

\* The first tables.
LEMMA InitTables ==
    ASSUME Init
    PROVE  RowTypes /\ NoOrphans /\ TablesInv
    <1>1. /\ project = Projects0 /\ app = Apps0 /\ installation = Installed0 /\ acked = Apps0
          /\ project \in [Projects -> ProjectRows \cup {NULL}] /\ app \in [AppIds -> AppRows \cup {NULL}]
          /\ installation \in [Orgs -> Installs \cup {NULL}]
        BY AppsAssumption DEF Init
    <1>2. \A a \in AppIds : Row(app[a]) =>
             /\ app[a] \in AppRows /\ Row(project[app[a].project]) /\ app[a].active = NULL
             /\ app[a].ref # NULL => app[a].repository # NULL
        <2>1. ASSUME NEW a \in AppIds, Row(app[a])
              PROVE  /\ app[a] \in AppRows /\ project[app[a].project] # NULL /\ app[a].active = NULL
                     /\ app[a].ref # NULL => app[a].repository # NULL
            BY <1>1, <2>1, AppsAssumption DEF Row
        <2>2. ASSUME NEW p \in Projects, project[p] # NULL PROVE Row(project[p])
            <3>1. project[p] \in ProjectRows
                BY <1>1, <2>2
            <3>2. QED
                BY <3>1, RowAssumption DEF Row
        <2>3. QED
            BY <2>1, <2>2 DEF AppRows
    <1>3. Built0 \in AppIds /\ Row(app[Built0])
        <2>1. Built0 \in AppIds /\ app[Built0] \in AppRows
            BY <1>1, AppsAssumption
        <2>2. QED
            BY <2>1, RowAssumption DEF Row
    <1>4. PICK via \in Installs : via = installation[project[app[Built0].project].org]
        <2>1. app[Built0].project \in Projects
            BY <1>2, <1>3 DEF AppRows
        <2>2. project[app[Built0].project] \in ProjectRows
            BY <1>1, <1>2, <1>3, <2>1 DEF Row
        <2>3. project[app[Built0].project].org \in Orgs
            BY <2>2 DEF ProjectRows
        <2>4. QED
            BY <1>1, <2>3, AppsAssumption
    <1>5. PICK runtime \in runtimes : runtime = CHOOSE x \in Runtimes[FirstCommit] : TRUE
        BY AppsAssumption, FirstAssumption, RuntimesTyped
    <1>6. PICK dep : dep = [app |-> Built0, runtime |-> runtime, commit |-> FirstCommit, ref |-> NULL,
                            status |-> "ready", via |-> via, asked |-> FirstCommit]
        OBVIOUS
    <1>7. PICK bld : bld = [app |-> Built0, source |-> FirstCommit, via |-> via, at |-> 0]
        OBVIOUS
    <1>8. /\ dep \in DeploymentRows /\ dep.app = Built0 /\ dep.commit = FirstCommit /\ dep.asked = FirstCommit
          /\ dep.via = via
        BY <1>3, <1>6, AppsAssumption DEF DeploymentRows, Refs
    <1>9. /\ bld \in BuildRows /\ bld.app = Built0 /\ bld.source = FirstCommit /\ bld.via = via /\ bld.at = 0
        BY <1>3, <1>7, AppsAssumption DEF BuildRows
    <1>10. Row(dep) /\ Row(bld)
        BY <1>8, <1>9, RowAssumption DEF Row
    <1>11. /\ deployment = [d \in Ids |-> IF d # 1 THEN NULL ELSE dep]
           /\ build = [b \in Ids |-> IF b # 1 THEN NULL ELSE bld]
        BY <1>1, <1>4, <1>5, <1>6, <1>7 DEF Init
    <1>12. \A d \in Ids : /\ Row(deployment[d]) <=> d = 1
                          /\ Row(build[d]) <=> d = 1
                          /\ deployment[d] # NULL <=> d = 1
                          /\ d = 1 => deployment[d] = dep /\ build[d] = bld
        BY <1>10, <1>11 DEF Row
    <1>13. RowTypes
        BY <1>1, <1>2, <1>8, <1>9, <1>11 DEF RowTypes
    <1>14. NoOrphans
        BY <1>2, <1>3, <1>8, <1>9, <1>12 DEF NoOrphans
    <1>15. IdsInOrder
        <2>1. MaxDeployments \in Nat /\ 1 \in 0..MaxDeployments
            BY AppsAssumption
        <2>2. \A d \in Ids : deployment[d] # NULL <=> d <= 1
            BY <1>12, <2>1 DEF Ids
        <2>3. QED
            BY <2>1, <2>2 DEF IdsInOrder
    <1>16. BuildsCounted
        BY <1>9, <1>12, AppsAssumption DEF BuildsCounted
    <1>17. seen = [held |-> {<<o, installation[o]>> : o \in {x \in Orgs : installation[x] # NULL}},
                   resolved |-> {<<project[app[a].project].org, app[a].repository, app[a].ref>> :
                                   a \in {x \in AppIds : app[x] # NULL}}]
        BY <1>1 DEF Init
    <1>18. \A o \in Orgs : installation[o] # NULL => <<o, installation[o]>> \in seen.held
        BY <1>17
    <1>19. \A a \in AppIds : Row(app[a]) => PinOf(a, app[a]) /\ ConnectionOf(OrgIs(a), app[a])
        BY <1>2, <1>17 DEF PinOf, ConnectionOf, OrgIs, Row
    <1>20. AnsweredChangesStay
        BY <1>1 DEF AnsweredChangesStay
    <1>21. AskedCommit
        BY <1>8, <1>9, <1>12 DEF AskedCommit
    <1>22. OwnInstallation
        <2>1. <<project[app[Built0].project].org, via>> \in seen.held
            <3>1. project[app[Built0].project].org \in Orgs
                BY <1>2, <1>3, <1>13 DEF RowTypes, ProjectRows, AppRows, Row
            <3>2. via # NULL
                BY RowAssumption
            <3>3. QED
                BY <1>4, <1>18, <3>1, <3>2
        <2>2. QED
            BY <1>8, <1>9, <1>12, <2>1 DEF OwnInstallation
    <1>23. QED
        BY <1>13, <1>14, <1>15, <1>16, <1>18, <1>19, <1>20, <1>21, <1>22 DEF TablesInv

\* The rest of the first state.
LEMMA InitRest ==
    ASSUME Init
    PROVE  RestTypes /\ RequestsInv /\ req \in [Everyone -> Requests] /\ RoomInv
    <1>1. /\ project = Projects0 /\ app = Apps0 /\ installation = Installed0
          /\ project \in [Projects -> ProjectRows \cup {NULL}] /\ app \in [AppIds -> AppRows \cup {NULL}]
          /\ installation \in [Orgs -> Installs \cup {NULL}]
        BY AppsAssumption DEF Init
    <1>2. SeenTyped
        <2>1. {<<o, installation[o]>> : o \in {x \in Orgs : installation[x] # NULL}} \subseteq Orgs \X Installs
            BY <1>1
        <2>2. ASSUME NEW a \in AppIds, app[a] # NULL
              PROVE  <<project[app[a].project].org, app[a].repository, app[a].ref>> \in
                        Orgs \X (Repos \cup {NULL}) \X Refs
            <3>1. /\ app[a].project \in Projects /\ app[a].repository \in Repos \cup {NULL}
                  /\ app[a].ref \in Refs
                BY <1>1, <2>2 DEF AppRows
            <3>2. project[app[a].project] # NULL
                BY <1>1, <2>2, AppsAssumption
            <3>3. project[app[a].project].org \in Orgs
                BY <1>1, <3>1, <3>2 DEF ProjectRows
            <3>4. QED
                BY <3>1, <3>3
        <2>3. seen = [held |-> {<<o, installation[o]>> : o \in {x \in Orgs : installation[x] # NULL}},
                      resolved |-> {<<project[app[a].project].org, app[a].repository, app[a].ref>> :
                                      a \in {x \in AppIds : app[x] # NULL}}]
            BY <1>1 DEF Init
        <2>4. {<<project[app[a].project].org, app[a].repository, app[a].ref>> :
                  a \in {x \in AppIds : app[x] # NULL}} \subseteq Orgs \X (Repos \cup {NULL}) \X Refs
            BY <2>2
        <2>5. QED
            BY <2>1, <2>3, <2>4 DEF SeenTyped
    <1>3. LeftTyped
        BY AppsAssumption DEF Init, LeftTyped
    <1>4. acked = [a \in AppIds |-> acked[a]]
        BY <1>1 DEF Init
    <1>5. readable \in [Repos -> Installs \cup {NULL}] /\ head \in [Repos -> [Branches -> Commits \cup {NULL}]]
        BY AppsAssumption DEF Init
    <1>6. delivery \subseteq [inst : Installs, repo : Repos, ref : Branches, commit : Commits]
        <2>1. \A r \in {Lower[x] : x \in Repos} :
                 [inst |-> Readable0[r], repo |-> r, ref |-> Default, commit |-> FirstCommit]
                    \in [inst : Installs, repo : Repos, ref : Branches, commit : Commits]
            BY AppsAssumption
        <2>2. QED
            BY <2>1 DEF Init
    <1>7. \A c \in Everyone : req[c] = Idle
        BY DEF Init, Everyone
    <1>8. req \in [Everyone -> Requests]
        BY IdleSound DEF Init, Everyone
    <1>9. RequestsInv
        BY <1>7, IdleSound DEF RequestsInv
    <1>10. RoomInv
        <2>1. Idle.op = NULL /\ NULL # "createApp"
            BY RowAssumption DEF Idle
        <2>2. Creating = {}
            BY <1>7, <2>1 DEF Creating, Everyone
        <2>3. Cardinality(Creating) = 0
            BY <2>2, FS_EmptySet
        <2>4. Cardinality(FreeIds) \in Nat
            BY AppsAssumption, FS_Subset, FS_CardinalityType DEF FreeIds
        <2>5. QED
            BY <1>7, <2>1, <2>3, <2>4 DEF RoomInv, Everyone
    <1>11. QED
        BY <1>2, <1>3, <1>4, <1>5, <1>6, <1>8, <1>9, <1>10 DEF RestTypes

\* The invariant holds at first.
LEMMA InitInv == Init => IInv
    <1>1. SUFFICES ASSUME Init PROVE IInv
        OBVIOUS
    <1>2. RowTypes /\ NoOrphans /\ TablesInv
        BY <1>1, InitTables
    <1>3. RestTypes /\ RequestsInv /\ req \in [Everyone -> Requests] /\ RoomInv
        BY <1>1, InitRest
    <1>4. \A d \in Everyone : (req[d].at = "idle") <=> (req[d] = Idle)
        BY <1>3, IdleAt DEF RequestsInv, Sound
    <1>5. TypeOK
        BY <1>2, <1>4 DEF TypeOK, RowTypes, Everyone
    <1>6. WorldTypes
        BY <1>3 DEF WorldTypes, RestTypes, SeenTyped
    <1>7. QED
        BY <1>2, <1>3, <1>5, <1>6 DEF IInv

\* A request begins.
LEMMA BeginInv ==
    ASSUME IInv, NEW c \in Clients, Begin(c)
    PROVE  IInv'
    <1>1. PICK o \in Orgs :
            \/ \E p \in Projects, n \in Given : updateProject(c, o, p, n)
            \/ \E p \in {x \in Projects : project[x] # NULL}, n \in Given, t \in Targets :
                    t[1] # NULL /\ createApp(c, o, p, n, t[1], t[2])
            \/ \E a \in AppIds :
                \/ \E n \in Given : updateApp(c, o, a, n)
                \/ \E b \in {d \in Ids : build[d] # NULL} \cup {NULL} : activateBuild(c, o, a, b)
                \/ \E t \in Targets : connectRepository(c, o, a, t[1], t[2])
                \/ \E t \in Targets : deployRef(c, o, a, t[2])
            \/ \E d \in Ids : retryDeployment(c, o, d)
        BY AppsAssumption DEF Begin
    <1>2. Given \subseteq Names /\ \A t \in Targets : t[1] \in Repos \cup {NULL} /\ t[2] \in Refs
        BY AppsAssumption
    <1>3. CASE \E p \in Projects, n \in Given : updateProject(c, o, p, n)
        BY <1>2, <1>3, UpdateProjectInv
    <1>4. CASE \E p \in {x \in Projects : project[x] # NULL}, n \in Given, t \in Targets :
                    t[1] # NULL /\ createApp(c, o, p, n, t[1], t[2])
        BY <1>2, <1>4, CreateAppInv
    <1>5. CASE \E a \in AppIds :
                \/ \E n \in Given : updateApp(c, o, a, n)
                \/ \E b \in {d \in Ids : build[d] # NULL} \cup {NULL} : activateBuild(c, o, a, b)
        <2>1. PICK a \in AppIds :
                \/ \E n \in Given : updateApp(c, o, a, n)
                \/ \E b \in {d \in Ids : build[d] # NULL} \cup {NULL} : activateBuild(c, o, a, b)
            BY <1>5
        <2>2. CASE \E n \in Given : updateApp(c, o, a, n)
            BY <1>2, <2>2, UpdateAppInv
        <2>3. CASE \E b \in {d \in Ids : build[d] # NULL} \cup {NULL} : activateBuild(c, o, a, b)
            BY <2>3, ActivateInv
        <2>4. QED
            BY <2>1, <2>2, <2>3
    <1>6. CASE \E a \in AppIds, t \in Targets : connectRepository(c, o, a, t[1], t[2])
        BY <1>2, <1>6, ConnectInv
    <1>7. CASE \E a \in AppIds, t \in Targets : deployRef(c, o, a, t[2])
        BY <1>2, <1>7, DeployInv
    <1>8. CASE \E d \in Ids : retryDeployment(c, o, d)
        BY <1>8, RetryInv
    <1>9. QED
        BY <1>1, <1>3, <1>4, <1>5, <1>6, <1>7, <1>8

\* An open request takes its next step.
LEMMA StepInv ==
    ASSUME IInv, NEW c \in Everyone, Step(c)
    PROVE  IInv'
    <1>1. FindInstallation(c) => IInv'
        BY FindInstallationInv, NoInstallationInv
    <1>2. QED
        BY <1>1, WriteProjectInv, ResolveInv, InsertAppInv, WriteAppInv, ListConnectedInv, NextAppInv,
           SourceInv, UnpackInv, SourceFailsInv, CreateDeploymentInv, PublishInv DEF Step

\* Every step keeps the invariant.
LEMMA NextInv == IInv /\ [Next]_vars => IInv'
    <1>1. SUFFICES ASSUME IInv, [Next]_vars PROVE IInv'
        OBVIOUS
    <1>2. CASE UNCHANGED vars
        <2>1. UNCHANGED <<project, app, deployment, build, installation, seen, acked, github, left, req>>
            BY <1>2 DEF vars, github
        <2>2. RestTypes'
            BY <1>1, <2>1, RestKept, LeftKept
        <2>3. QED
            BY <1>1, <2>1, <2>2, RowsKept, WritesAlone
    <1>3. CASE \E c \in Clients : Begin(c) \/ \E o \in Orgs, m \in delivery : gitHubWebhook(c, o, m)
        BY <1>1, <1>3, BeginInv, PushInv
    <1>4. CASE \E w \in Deployers, d \in Ids : Fetch(w, d)
        BY <1>1, <1>4, FetchInv
    <1>5. CASE \E c \in Clients \cup Deployers : Step(c) \/ Abort(c)
        BY <1>1, <1>5, StepInv, AbortInv DEF Everyone
    <1>6. CASE AtOnce
        <2>1. Callers \subseteq Orgs /\ Given \subseteq Names
            BY AppsAssumption
        <2>2. CASE \E o \in Callers, p \in Projects, n \in Given : createProject(o, p, n)
            BY <1>1, <2>1, <2>2, CreateProjectInv
        <2>3. CASE \E o \in Callers, p \in Projects : deleteProject(o, p)
            BY <1>1, <2>1, <2>3, DeleteProjectInv
        <2>4. CASE \E o \in Callers, a \in AppIds : deleteApp(o, a)
            BY <1>1, <2>1, <2>4, DeleteAppInv
        <2>5. CASE \E o \in Orgs, i \in Installs : recordInstallation(o, i)
            BY <1>1, <2>5, InstallationInv
        <2>6. CASE \E o \in Orgs : deleteInstallation(o)
            <3>1. PICK o \in Orgs : deleteInstallation(o)
                BY <2>6
            <3>2. PICK i \in Installs : i = installation[o]
                BY <1>1, <3>1 DEF deleteInstallation, Uninstall, IInv, TypeOK
            <3>3. QED
                BY <1>1, <3>1, InstallationInv
        <2>7. QED
            BY <1>6, <2>2, <2>3, <2>4, <2>5, <2>6 DEF AtOnce
    <1>7. CASE GitHub
        BY <1>1, <1>7, GitHubInv
    <1>8. CASE Next
        <2>1. ASSUME NEW c, c = CHOOSE x \in Clients : req[x] = Idle, \E x \in Clients : req[x] = Idle
              PROVE  c \in Clients
            BY <2>1
        <2>2. QED
            BY <1>3, <1>4, <1>5, <1>6, <1>7, <1>8, <2>1 DEF Next
    <1>9. QED
        BY <1>1, <1>2, <1>8

\* The inductive invariant of projects, apps, deployments and the requests about them.
THEOREM AppsInvariant == Spec => []IInv
    BY InitInv, NextInv, PTL DEF Spec

\* Every row and every request is well formed and every row has its parent, whatever is
\* deleted between the steps of a request.
THEOREM AppsTyped == Spec => []TypeOK
    <1>1. IInv => TypeOK
        BY DEF IInv
    <1>2. QED
        BY <1>1, AppsInvariant, PTL

\* ActiveForApp finds the pinned build, which is the app's own, or the newest.
LEMMA RunnableInv == IInv => AlwaysRunnable
    <1>1. SUFFICES ASSUME IInv, NEW a \in AppIds, Row(app[a]), NEW b \in Ids, Row(build[b]), build[b].app = a
                   PROVE  ActiveForApp(a) # NULL
        BY DEF AlwaysRunnable
    <1> DEFINE own == {x \in Ids : Row(build[x]) /\ build[x].app = a /\ app[a].active \in {NULL, x}}
    <1>2. own # {}
        <2>1. CASE app[a].active = NULL
            BY <1>1, <2>1
        <2>2. CASE app[a].active # NULL
            <3>1. app[a] \in AppRows
                BY <1>1 DEF IInv, TypeOK, Row
            <3>2. app[a].active \in Ids
                BY <2>2, <3>1 DEF AppRows
            <3>3. Row(build[app[a].active]) /\ build[app[a].active].app = a
                BY <1>1, <2>2 DEF IInv, TablesInv, PinOf
            <3>4. app[a].active \in own
                BY <3>2, <3>3
            <3>5. QED
                BY <3>4
        <2>3. QED
            BY <2>1, <2>2
    <1>3. PICK at : at = [x \in Ids |-> build[x].at]
        OBVIOUS
    <1>4. \A x \in own : at[x] = build[x].at /\ at[x] \in 0..MaxDeployments
        BY <1>1, <1>3 DEF IInv, TablesInv, BuildsCounted
    <1>5. MaxDeployments \in Nat
        BY AppsAssumption
    <1> HIDE DEF own
    <1>6. \E x \in own : \A y \in own : at[y] <= at[x]
        BY <1>2, <1>4, <1>5, Greatest
    <1>7. \E x \in own : \A y \in own : build[y].at <= build[x].at
        BY <1>4, <1>6
    <1>8. ActiveForApp(a) = CHOOSE x \in own : \A y \in own : build[y].at <= build[x].at
        BY <1>2 DEF ActiveForApp, own
    <1>9. ActiveForApp(a) \in own
        BY <1>7, <1>8
    <1>10. ActiveForApp(a) \in Ids
        BY <1>9 DEF own
    <1>11. QED
        BY <1>10, RowAssumption

\* No order of pins, renames, connections and deletes, stale writes among them, leaves an app
\* that has a build without one to run.
THEOREM AppsRunnable == Spec => []AlwaysRunnable
    BY RunnableInv, AppsInvariant, PTL

\* What was answered about an app stays until the next change, and an app has only connections
\* that GitHub resolved for its organization, even if stale rows are written.
THEOREM AppsChangesHold == Spec => []ChangesHold
    <1>1. IInv => ChangesHold
        BY DEF IInv, TablesInv, ChangesHold, ConnectionsResolved, ConnectionOf, OrgIs
    <1>2. QED
        BY <1>1, AppsInvariant, PTL

\* A deployment and its build were read through an installation that the organization held.
THEOREM ReadThroughOwnInstallation == Spec => []OwnInstallation
    <1>1. IInv => OwnInstallation
        BY DEF IInv, TablesInv
    <1>2. QED
        BY <1>1, AppsInvariant, PTL

\* A deployment is of the commit that was asked for, and its build of the same.
THEOREM CommitAsAsked == Spec => []AskedCommit
    <1>1. IInv => AskedCommit
        BY DEF IInv, TablesInv
    <1>2. QED
        BY <1>1, AppsInvariant, PTL

---------------------------------------------------------------------------
(* A push reaches the apps that follow the ref. *)

\* What a step may do to a push.
Keeps(c) ==
    req[c].op = "push" =>
        /\ req[c].at = "each" /\ req'[c].at = "source" => req'[c].app \in req[c].due
        /\ req'[c] = Idle /\ left'.events = left.events => req[c].due = {}

\* A request changes in its own steps, and when it begins or is cut short.
LEMMA OwnSteps ==
    ASSUME IInv, Next, NEW c \in Clients
    PROVE  req'[c] = req[c] \/ req[c] = Idle \/ Step(c) \/ Abort(c)
    <1>1. req \in [Everyone -> Requests] /\ c \in Everyone
        BY DEF IInv, WorldTypes, Everyone
    <1>2. CASE \E x \in Clients : Begin(x) \/ \E o \in Orgs, m \in delivery : gitHubWebhook(x, o, m)
        <2>1. PICK x \in Clients : Begin(x) \/ \E o \in Orgs, m \in delivery : gitHubWebhook(x, o, m)
            BY <1>2
        <2>2. \E k : Open(x, k)
            BY <2>1, ZenonT(120) DEF Begin, updateProject, UpdateProject, createApp, CreateApp, updateApp, UpdateApp,
                        activateBuild, Activate, connectRepository, ConnectTo, deployRef, Deploy,
                        retryDeployment, Retry, gitHubWebhook, Push
        <2>3. QED
            BY <1>1, <2>2 DEF Open
    <1>3. CASE \E w \in Deployers, d \in Ids : Fetch(w, d)
        <2>1. PICK w \in Deployers, d \in Ids : Fetch(w, d)
            BY <1>3
        <2>2. w # c
            BY AppsAssumption
        <2>3. req' = req \/ \E k : req' = [req EXCEPT ![w] = k]
            BY <2>1 DEF Fetch
        <2>4. QED
            BY <1>1, <2>2, <2>3
    <1>4. CASE \E x \in Everyone : Step(x) \/ Abort(x)
        <2>1. PICK x \in Everyone : Step(x) \/ Abort(x)
            BY <1>4
        <2>2. CASE x = c
            BY <2>1, <2>2
        <2>3. CASE x # c
            <3>1. Close(x) => req'[c] = req[c]
                BY <1>1, <2>3 DEF Close
            <3>2. Done(x) => req'[c] = req[c]
                BY <1>1, <2>3, <3>1 DEF Done
            <3>3. FindInstallation(x) \/ Resolve(x) => req'[c] = req[c]
                BY <1>1, <2>3, <3>1 DEF FindInstallation, Resolve
            <3>4. ListConnected(x) \/ NextApp(x) \/ Source(x) \/ Unpack(x) => req'[c] = req[c]
                BY <1>1, <2>3, <3>1 DEF ListConnected, NextApp, Source, Unpack
            <3>5. QED
                BY <2>1, <3>1, <3>2, <3>3, <3>4
                   DEF Step, Abort, WriteProject, InsertApp, WriteApp, SourceFails, CreateDeployment, Publish
        <2>4. QED
            BY <2>2, <2>3
    <1>5. CASE AtOnce
        BY <1>5 DEF AtOnce, createProject, CreateProject, deleteProject, DeleteProject, deleteApp, DeleteApp,
                    recordInstallation, Install, deleteInstallation, Uninstall
    <1>6. CASE GitHub
        BY <1>6 DEF GitHub, Pushed, Granted
    <1>7. ASSUME NEW x, x = CHOOSE y \in Clients : req[y] = Idle, \E y \in Clients : req[y] = Idle
          PROVE  x \in Clients
        BY <1>7
    <1>8. QED
        BY <1>2, <1>3, <1>4, <1>5, <1>6, <1>7 DEF Next, Everyone

\* The steps of a push.
LEMMA PushSteps ==
    ASSUME IInv, NEW c \in Clients, Step(c) \/ Abort(c)
    PROVE  Keeps(c)
    <1>1. SUFFICES ASSUME req[c].op = "push" PROVE Keeps(c)
        BY DEF Keeps
    <1>2. c \in Everyone /\ req \in [Everyone -> Requests]
        BY DEF IInv, WorldTypes, Everyone
    <1>3. PICK r \in Requests : r = req[c] /\ Sound(r) /\ (r.at # "idle" => r.org \in Orgs) /\ (r.op = NULL \/ r = Idle => r.at = "idle")
        BY <1>2, Knows
    <1>4. Idle.at = "idle" /\ Idle.op = NULL /\ NULL # "push"
        BY RowAssumption DEF Idle
    <1>5. Owes(r) /\ r.at \in {"list", "each", "source", "create"}
        BY <1>1, <1>3, <1>4 DEF Sound, Staged
    <1>6. CASE Abort(c)
        <2>1. left.events \in Nat /\ left.events > 0
            BY <1>6 DEF Abort, IInv, WorldTypes, LeftTyped
        <2>2. left'.events = left.events - 1
            BY <1>6 DEF Abort, IInv, WorldTypes, LeftTyped
        <2>3. left'.events # left.events
            BY <2>1, <2>2
        <2>4. req'[c] = Idle
            BY <1>2, <1>6 DEF Abort, Close
        <2>5. QED
            BY <1>4, <2>3, <2>4 DEF Keeps
    <1>7. CASE ListConnected(c)
        <2>1. req'[c].at = "each"
            BY <1>2, <1>7 DEF ListConnected, Requests
        <2>2. QED
            BY <1>4, <2>1 DEF Keeps
    <1>8. CASE Source(c)
        <2>1. req'[c].at = "create"
            BY <1>2, <1>8 DEF Source, Requests
        <2>2. QED
            BY <1>4, <2>1 DEF Keeps
    <1>9. CASE Done(c) /\ r.at \in {"source", "create"}
        <2>1. req'[c].at = "each"
            BY <1>1, <1>2, <1>9 DEF Done, Requests
        <2>2. QED
            BY <1>4, <2>1 DEF Keeps
    <1>10. CASE NextApp(c)
        <2>1. CASE r.todo = {}
            <3>1. req'[c] = Idle
                BY <1>2, <1>3, <1>10, <2>1 DEF NextApp, Close
            <3>2. r.due = {}
                BY <1>5, <2>1 DEF Owes
            <3>3. QED
                BY <1>3, <1>4, <3>1, <3>2 DEF Keeps
        <2>2. CASE r.todo # {}
            <3>1. PICK x \in r.todo :
                     req' = [req EXCEPT ![c].at = "source", ![c].app = x.app, ![c].row = x.row,
                                        ![c].todo = @ \ {x}, ![c].due = @ \ {x.app}]
                BY <1>3, <1>10, <2>2 DEF NextApp
            <3>2. req'[c].at = "source" /\ req'[c].app = x.app
                BY <1>2, <3>1 DEF Requests
            <3>3. x.app \in r.due
                BY <1>5 DEF Owes
            <3>4. QED
                BY <1>3, <1>4, <3>2, <3>3 DEF Keeps
        <2>3. QED
            BY <2>1, <2>2
    <1>11. QED
        BY <1>1, <1>3, <1>5, <1>6, <1>7, <1>8, <1>9, <1>10
           DEF Step, WriteProject, FindInstallation, Resolve, InsertApp, WriteApp, Unpack, SourceFails,
               CreateDeployment, Publish

\* A push tries only followers of the ref, and every one of them unless it is cut short: one app
\* that fails, is deleted or changes meanwhile keeps no other from its deployment.
THEOREM PushesReachFollowers == Spec => PushReachesFollowers
    <1>1. IInv /\ [Next]_vars => [\A c \in Clients : Keeps(c)]_vars
        <2>1. SUFFICES ASSUME IInv, Next, NEW c \in Clients PROVE Keeps(c)
            OBVIOUS
        <2>2. CASE Step(c) \/ Abort(c)
            BY <2>1, <2>2, PushSteps
        <2>3. CASE req'[c] = req[c] \/ req[c] = Idle
            <3>1. Idle.op = NULL /\ NULL # "push"
                BY RowAssumption DEF Idle
            <3>2. QED
                BY <2>3, <3>1 DEF Keeps
        <2>4. QED
            BY <2>1, <2>2, <2>3, OwnSteps
    <1>2. QED
        BY <1>1, AppsInvariant, PTL DEF Spec, PushReachesFollowers, Keeps

---------------------------------------------------------------------------
(* What is built is what was asked for, if the archives lose nothing. *)

\* Every deployment has a runtime of its commit, and every build was extracted; so have, and
\* were, what requests are about to insert.
Sourced ==
    /\ \A d \in Ids : Row(deployment[d]) => deployment[d].runtime \in Runtimes[deployment[d].commit]
    /\ \A b \in Ids : Row(build[b]) => Small[build[b].source] /\ ~Unpacked[build[b].source].err
    /\ \A c \in Everyone :
        /\ req[c].at = "create" => req[c].runtime \in Runtimes[req[c].commit]
        /\ req[c].at = "publish" => Small[req[c].commit] /\ ~Unpacked[req[c].commit].err

\* Deployments keep their runtime and their commit, and builds their source, or go.
RowsSame ==
    /\ \A d \in Ids : Row(deployment[d])' =>
          /\ Row(deployment[d]) /\ deployment'[d].runtime = deployment[d].runtime
          /\ deployment'[d].commit = deployment[d].commit
    /\ \A b \in Ids : Row(build[b])' => Row(build[b]) /\ build'[b].source = build[b].source

\* A request is about to insert only what it was, or nothing.
RequestSame(c) == req'[c] = req[c] \/ req'[c].at \notin {"create", "publish"}

\* What was sourced stays so.
LEMMA SourcedKept ==
    ASSUME Sourced, RowsSame, \A c \in Everyone : RequestSame(c)
    PROVE  Sourced'
    <1>1. \A d \in Ids : Row(deployment[d])' => deployment'[d].runtime \in Runtimes[deployment'[d].commit]
        BY DEF Sourced, RowsSame
    <1>2. \A b \in Ids : Row(build[b])' => Small[build'[b].source] /\ ~Unpacked[build'[b].source].err
        BY DEF Sourced, RowsSame
    <1>3. ASSUME NEW c \in Everyone
          PROVE  /\ req'[c].at = "create" => req'[c].runtime \in Runtimes[req'[c].commit]
                 /\ req'[c].at = "publish" => Small[req'[c].commit] /\ ~Unpacked[req'[c].commit].err
        BY DEF Sourced, RequestSame
    <1>4. QED
        BY <1>1, <1>2, <1>3 DEF Sourced

\* A status is no part of it.
LEMMA StatusSame ==
    ASSUME IInv, NEW d \in Ids, NEW s, Row(deployment[d]), deployment' = [deployment EXCEPT ![d].status = s],
           UNCHANGED build
    PROVE  RowsSame
    <1>1. PICK row \in DeploymentRows : row = deployment[d]
        BY DEF IInv, TypeOK, Row
    <1>2. PICK new : new = [row EXCEPT !.status = s]
        OBVIOUS
    <1>3. new.runtime = row.runtime /\ new.commit = row.commit
        BY <1>2 DEF DeploymentRows
    <1>4. \A x \in Ids : deployment'[x] = IF x = d THEN new ELSE deployment[x]
        BY <1>1, <1>2 DEF IInv, TypeOK
    <1>5. QED
        BY <1>1, <1>3, <1>4 DEF RowsSame, Row

\* Neither is a deployment given up.
LEMMA FailSame ==
    ASSUME IInv, NEW c \in Everyone, Fail(c)
    PROVE  RowsSame
    <1>1. PICK r \in Requests : r = req[c] /\ Sound(r)
        BY Knows
    <1>2. CASE r.op = "fetch" /\ Row(deployment[r.dep])
        <2>1. r.dep \in Ids
            BY <1>1, <1>2 DEF Sound, Fetches
        <2>2. deployment' = [deployment EXCEPT ![r.dep].status = "failed"] /\ UNCHANGED build
            BY <1>1, <1>2 DEF Fail
        <2>3. QED
            BY <1>2, <2>1, <2>2, StatusSame
    <1>3. CASE ~(r.op = "fetch" /\ Row(deployment[r.dep]))
        <2>1. UNCHANGED <<deployment, build>>
            BY <1>1, <1>3 DEF Fail
        <2>2. QED
            BY <2>1 DEF RowsSame, Row
    <1>4. QED
        BY <1>2, <1>3

\* The step of a request that is about to insert something.
LEMMA SourcedMoves ==
    ASSUME IInv, Sourced, RowsSame, NEW c \in Everyone, NEW k, req' = [req EXCEPT ![c] = k],
           k.at = "create" => k.runtime \in Runtimes[k.commit],
           k.at = "publish" => Small[k.commit] /\ ~Unpacked[k.commit].err
    PROVE  Sourced'
    <1>1. \A x \in Everyone : req'[x] = IF x = c THEN k ELSE req[x]
        BY DEF IInv, WorldTypes
    <1>2. \A d \in Ids : Row(deployment[d])' => deployment'[d].runtime \in Runtimes[deployment'[d].commit]
        BY DEF Sourced, RowsSame
    <1>3. \A b \in Ids : Row(build[b])' => Small[build'[b].source] /\ ~Unpacked[build'[b].source].err
        BY DEF Sourced, RowsSame
    <1>4. ASSUME NEW x \in Everyone
          PROVE  /\ req'[x].at = "create" => req'[x].runtime \in Runtimes[req'[x].commit]
                 /\ req'[x].at = "publish" => Small[req'[x].commit] /\ ~Unpacked[req'[x].commit].err
        BY <1>1 DEF Sourced
    <1>5. QED
        BY <1>2, <1>3, <1>4 DEF Sourced

\* A request that ends, or moves on to where it inserts nothing.
LEMMA ElsewhereSame ==
    ASSUME IInv, NEW c \in Everyone,
           \/ Close(c) \/ Done(c) \/ FindInstallation(c) \/ Resolve(c) \/ ListConnected(c) \/ NextApp(c)
    PROVE  \A x \in Everyone : RequestSame(x)
    <1>1. req \in [Everyone -> Requests]
        BY DEF IInv, WorldTypes
    <1>2. Idle.at = "idle"
        BY DEF Idle
    <1>3. CASE Close(c)
        BY <1>1, <1>2, <1>3 DEF Close, RequestSame
    <1>4. CASE Done(c)
        <2>1. CASE req[c].op = "push"
            <3>1. /\ \A x \in Everyone \ {c} : req'[x] = req[x]
                  /\ req'[c].at = "each"
                BY <1>1, <1>4, <2>1 DEF Done, Requests
            <3>2. QED
                BY <3>1 DEF RequestSame
        <2>2. QED
            BY <1>3, <1>4, <2>1 DEF Done
    <1>5. CASE FindInstallation(c)
        <2>1. CASE ByOrganization(req[c].org) = NULL
            BY <1>3, <1>5, <2>1 DEF FindInstallation
        <2>2. CASE ByOrganization(req[c].org) # NULL
            <3>1. /\ \A x \in Everyone \ {c} : req'[x] = req[x]
                  /\ req'[c].at \in {"source", "resolve"}
                BY <1>1, <1>5, <2>2 DEF FindInstallation, Requests
            <3>2. QED
                BY <3>1 DEF RequestSame
        <2>3. QED
            BY <2>1, <2>2
    <1>6. CASE Resolve(c)
        <2>1. CASE ~Close(c)
            <3>1. /\ \A x \in Everyone \ {c} : req'[x] = req[x]
                  /\ req'[c].at \in {"source", "write"}
                BY <1>1, <1>6, <2>1 DEF Resolve, Requests
            <3>2. QED
                BY <3>1 DEF RequestSame
        <2>2. QED
            BY <1>3, <2>1
    <1>7. CASE ListConnected(c)
        <2>1. /\ \A x \in Everyone \ {c} : req'[x] = req[x]
              /\ req'[c].at = "each"
            BY <1>1, <1>7 DEF ListConnected, Requests
        <2>2. QED
            BY <2>1 DEF RequestSame
    <1>8. CASE NextApp(c)
        <2>1. CASE ~Close(c)
            <3>1. PICK y \in req[c].todo :
                     req' = [req EXCEPT ![c].at = "source", ![c].app = y.app, ![c].row = y.row,
                                        ![c].todo = @ \ {y}, ![c].due = @ \ {y.app}]
                BY <1>8, <2>1 DEF NextApp
            <3>2. /\ \A x \in Everyone \ {c} : req'[x] = req[x]
                  /\ req'[c].at = "source"
                BY <1>1, <3>1 DEF Requests
            <3>3. QED
                BY <3>2 DEF RequestSame
        <2>2. QED
            BY <1>3, <2>1
    <1>9. QED
        BY <1>3, <1>4, <1>5, <1>6, <1>7, <1>8

\* Deletes take rows away, and change none.
LEMMA CascadeSame ==
    ASSUME IInv, NEW gone, Cascade(gone)
    PROVE  RowsSame
    <1>1. /\ \A d \in Ids : deployment'[d] = deployment[d] \/ deployment'[d] = DELETED
          /\ \A b \in Ids : build'[b] = build[b] \/ build'[b] = DELETED
        BY DEF Cascade
    <1>2. QED
        BY <1>1 DEF RowsSame, Row

\* A request that begins inserts nothing yet.
LEMMA OpenSame ==
    ASSUME IInv, NEW c \in Everyone, NEW k, Open(c, k), k.at \notin {"create", "publish"}
    PROVE  RowsSame /\ \A x \in Everyone : RequestSame(x)
    <1>1. UNCHANGED <<deployment, build>>
        BY DEF Open, rows
    <1>2. \A x \in Everyone : req'[x] = IF x = c THEN k ELSE req[x]
        BY DEF Open, IInv, WorldTypes
    <1>3. QED
        BY <1>1, <1>2 DEF RowsSame, RequestSame, Row

\* No request begins with an insert.
LEMMA BeginSame ==
    ASSUME IInv, NEW c \in Everyone, Begin(c) \/ \E o \in Orgs, m \in delivery : gitHubWebhook(c, o, m)
    PROVE  RowsSame /\ \A x \in Everyone : RequestSame(x)
    <1> DEFINE Begins == \E k : Open(c, k) /\ k.at \notin {"create", "publish"}
    <1>1. ASSUME NEW o, NEW p, NEW n, UpdateProject(c, o, p, n) PROVE Begins
        <2>1. PICK k : k = [Idle EXCEPT !.op = "updateProject", !.at = "write", !.org = o, !.project = p,
                                         !.name = n]
            OBVIOUS
        <2>2. k.at = "write"
            BY <2>1 DEF Idle
        <2>3. Open(c, k)
            BY <1>1, <2>1 DEF UpdateProject
        <2>4. QED
            BY <2>2, <2>3
    <1>2. ASSUME NEW o, NEW p, NEW n, NEW r, NEW ref, CreateApp(c, o, p, n, r, ref) PROVE Begins
        <2>1. PICK k : k = [Idle EXCEPT !.op = "createApp", !.at = "resolve", !.org = o,
                                         !.inst = ByOrganization(o), !.row = Connect(NewApp(p, n), r, ref),
                                         !.repo = r, !.ref = ref]
            OBVIOUS
        <2>2. k.at = "resolve"
            BY <2>1 DEF Idle
        <2>3. Open(c, k)
            BY <1>2, <2>1 DEF CreateApp
        <2>4. QED
            BY <2>2, <2>3
    <1>3. ASSUME NEW o, NEW a, NEW n, UpdateApp(c, o, a, n) PROVE Begins
        <2>1. PICK k : k = [Idle EXCEPT !.op = "updateApp", !.at = "write", !.org = o, !.app = a,
                                         !.row = app[a], !.name = n]
            OBVIOUS
        <2>2. k.at = "write"
            BY <2>1 DEF Idle
        <2>3. Open(c, k)
            BY <1>3, <2>1 DEF UpdateApp
        <2>4. QED
            BY <2>2, <2>3
    <1>4. ASSUME NEW o, NEW a, NEW b, Activate(c, o, a, b) PROVE Begins
        <2>1. PICK k : k = [Idle EXCEPT !.op = "activateBuild", !.at = "write", !.org = o, !.app = a,
                                         !.row = app[a], !.build = b]
            OBVIOUS
        <2>2. k.at = "write"
            BY <2>1 DEF Idle
        <2>3. Open(c, k)
            BY <1>4, <2>1 DEF Activate
        <2>4. QED
            BY <2>2, <2>3
    <1>5. ASSUME NEW o, NEW a, NEW r, NEW ref, ConnectTo(c, o, a, r, ref) PROVE Begins
        <2>1. PICK k : k = [Idle EXCEPT !.op = "connect",
                                         !.at = IF r = NULL THEN "write" ELSE "installation", !.org = o,
                                         !.app = a, !.row = app[a], !.repo = r, !.ref = ref]
            OBVIOUS
        <2>2. k.at = IF r = NULL THEN "write" ELSE "installation"
            BY <2>1 DEF Idle
        <2>3. Open(c, k)
            BY <1>5, <2>1 DEF ConnectTo
        <2>4. QED
            BY <2>2, <2>3
    <1>6. ASSUME NEW o, NEW a, NEW ref, Deploy(c, o, a, ref) PROVE Begins
        <2>1. PICK k : k = [Idle EXCEPT !.op = "deploy", !.at = "installation", !.org = o, !.app = a,
                                         !.row = app[a], !.repo = app[a].repository,
                                         !.ref = IF ref = NULL THEN app[a].ref ELSE ref]
            OBVIOUS
        <2>2. k.at = "installation"
            BY <2>1 DEF Idle
        <2>3. Open(c, k)
            BY <1>6, <2>1 DEF Deploy
        <2>4. QED
            BY <2>2, <2>3
    <1>7. ASSUME NEW o, NEW d, Retry(c, o, d) PROVE Begins
        <2>1. PICK k : k = [Idle EXCEPT !.op = "retry", !.at = "installation", !.org = o,
                                         !.app = deployment[d].app, !.row = app[deployment[d].app],
                                         !.repo = app[deployment[d].app].repository, !.ref = deployment[d].ref,
                                         !.commit = deployment[d].commit, !.asked = deployment[d].commit]
            OBVIOUS
        <2>2. k.at = "installation"
            BY <2>1 DEF Idle
        <2>3. Open(c, k)
            BY <1>7, <2>1 DEF Retry
        <2>4. QED
            BY <2>2, <2>3
    <1>8. ASSUME NEW o, NEW m, Push(c, o, m) PROVE Begins
        <2>1. PICK k : k = Handling(o, m)
            OBVIOUS
        <2>2. k.at = "list"
            BY <2>1 DEF Handling, Idle
        <2>3. Open(c, k)
            BY <1>8, <2>1 DEF Push
        <2>4. QED
            BY <2>2, <2>3
    <1>9. Begins
        BY <1>1, <1>2, <1>3, <1>4, <1>5, <1>6, <1>7, <1>8
           DEF Begin, updateProject, createApp, updateApp, activateBuild, connectRepository, deployRef,
               retryDeployment, gitHubWebhook
    <1>10. QED
        BY <1>9, OpenSame

\* The source a deployment is about to be made of has its runtime.
LEMMA SourceSourced ==
    ASSUME IInv, Sourced, NEW c \in Everyone, Source(c)
    PROVE  Sourced'
    <1>1. PICK r \in Requests : r = req[c]
        BY Knows
    <1>2. PICK runtime \in Runtimes[r.commit] :
             req' = [req EXCEPT ![c].at = "create", ![c].runtime = runtime]
        BY <1>1 DEF Source
    <1>3. PICK k : k = [r EXCEPT !.at = "create", !.runtime = runtime]
        OBVIOUS
    <1>4. k.at = "create" /\ k.runtime = runtime /\ k.commit = r.commit
        BY <1>3 DEF Requests
    <1>5. req' = [req EXCEPT ![c] = k]
        BY <1>1, <1>2, <1>3 DEF IInv, WorldTypes
    <1>6. RowsSame
        BY DEF Source, rows, RowsSame, Row
    <1>7. QED
        BY <1>2, <1>4, <1>5, <1>6, SourcedMoves

\* The source a build is about to be made of was within the limits, and extracted.
LEMMA UnpackSourced ==
    ASSUME IInv, Sourced, NEW c \in Everyone, Unpack(c)
    PROVE  Sourced'
    <1>1. PICK r \in Requests : r = req[c]
        BY Knows
    <1>2. Small[r.commit] /\ ~Unpacked[r.commit].err
        BY <1>1 DEF Unpack, Served
    <1>3. PICK k : k = [r EXCEPT !.at = "publish"]
        OBVIOUS
    <1>4. k.at = "publish" /\ k.commit = r.commit
        BY <1>3 DEF Requests
    <1>5. req' = [req EXCEPT ![c] = k]
        BY <1>1, <1>3 DEF Unpack, IInv, WorldTypes
    <1>6. RowsSame
        BY DEF Unpack, rows, RowsSame, Row
    <1>7. QED
        BY <1>2, <1>4, <1>5, <1>6, SourcedMoves

\* The deployment inserted has a runtime of its commit.
LEMMA CreateSourced ==
    ASSUME IInv, Sourced, NEW c \in Everyone, CreateDeployment(c)
    PROVE  Sourced'
    <1>1. PICK r \in Requests : r = req[c]
        BY Knows
    <1>2. PICK d : d = 1 + Cardinality({x \in Ids : deployment[x] # NULL})
        OBVIOUS
    <1>3. PICK new : new = NewDeployment(r)
        OBVIOUS
    <1>4. new.runtime = r.runtime /\ new.commit = r.commit /\ r.runtime \in Runtimes[r.commit]
        BY <1>1, <1>3 DEF NewDeployment, CreateDeployment, Sourced
    <1>5. deployment' = deployment \/ deployment' = [deployment EXCEPT ![d] = new]
        BY <1>1, <1>2, <1>3 DEF CreateDeployment
    <1>6. \A x \in Ids : deployment'[x] = deployment[x] \/ deployment'[x] = new
        BY <1>5 DEF IInv, TypeOK
    <1>7. UNCHANGED build /\ \A x \in Everyone : RequestSame(x)
        BY ElsewhereSame DEF CreateDeployment
    <1>8. \A x \in Ids : Row(deployment[x])' => deployment'[x].runtime \in Runtimes[deployment'[x].commit]
        BY <1>4, <1>6 DEF Sourced, Row
    <1>9. \A b \in Ids : Row(build[b])' => Small[build'[b].source] /\ ~Unpacked[build'[b].source].err
        BY <1>7 DEF Sourced, Row
    <1>10. ASSUME NEW x \in Everyone
          PROVE  /\ req'[x].at = "create" => req'[x].runtime \in Runtimes[req'[x].commit]
                 /\ req'[x].at = "publish" => Small[req'[x].commit] /\ ~Unpacked[req'[x].commit].err
        BY <1>7 DEF Sourced, RequestSame
    <1>11. QED
        BY <1>8, <1>9, <1>10 DEF Sourced

\* The build saved is of what was extracted.
LEMMA PublishSourced ==
    ASSUME IInv, Sourced, NEW w \in Everyone, Publish(w)
    PROVE  Sourced'
    <1>1. PICK r \in Requests : r = req[w] /\ Sound(r)
        BY Knows
    <1>2. r.at = "publish" /\ r.dep \in Ids
        BY <1>1 DEF Publish, Sound, Staged, Idle, Fetches
    <1>3. Small[r.commit] /\ ~Unpacked[r.commit].err
        BY <1>1, <1>2 DEF Sourced
    <1>4. \A x \in Everyone : RequestSame(x)
        BY ElsewhereSame DEF Publish
    <1>5. CASE ~Row(deployment[r.dep])
        <2>1. UNCHANGED <<build, deployment>>
            BY <1>1, <1>5 DEF Publish
        <2>2. RowsSame
            BY <2>1 DEF RowsSame, Row
        <2>3. QED
            BY <1>4, <2>2, SourcedKept
    <1>6. CASE Row(deployment[r.dep])
        <2>1. PICK new : new = [app |-> r.app, source |-> r.commit, via |-> r.inst,
                                at |-> Cardinality({b \in Ids : build[b] # NULL})]
            OBVIOUS
        <2>2. new.source = r.commit
            BY <2>1
        <2>3. build' = [build EXCEPT ![r.dep] = new]
            BY <1>1, <1>6, <2>1 DEF Publish
        <2>4. \A b \in Ids : build'[b] = build[b] \/ build'[b] = new
            BY <2>3 DEF IInv, TypeOK
        <2>5. PICK row \in DeploymentRows : row = deployment[r.dep]
            BY <1>2, <1>6 DEF IInv, TypeOK, Row
        <2>6. PICK ready : ready = [row EXCEPT !.status = "ready"]
            OBVIOUS
        <2>7. ready.runtime = row.runtime /\ ready.commit = row.commit
            BY <2>6 DEF DeploymentRows
        <2>8. \A x \in Ids : deployment'[x] = IF x = r.dep THEN ready ELSE deployment[x]
            BY <1>1, <1>6, <2>5, <2>6 DEF Publish, IInv, TypeOK
        <2>9. \A x \in Ids : Row(deployment[x])' => deployment'[x].runtime \in Runtimes[deployment'[x].commit]
            BY <1>2, <1>6, <2>5, <2>7, <2>8 DEF Sourced, Row
        <2>10. \A b \in Ids : Row(build[b])' => Small[build'[b].source] /\ ~Unpacked[build'[b].source].err
            BY <1>3, <2>2, <2>4 DEF Sourced, Row
        <2>11. ASSUME NEW x \in Everyone
              PROVE  /\ req'[x].at = "create" => req'[x].runtime \in Runtimes[req'[x].commit]
                     /\ req'[x].at = "publish" => Small[req'[x].commit] /\ ~Unpacked[req'[x].commit].err
            BY <1>4 DEF Sourced, RequestSame
        <2>12. QED
            BY <2>9, <2>10, <2>11 DEF Sourced
    <1>7. QED
        BY <1>5, <1>6

\* The deployer's claim is a change of status.
LEMMA FetchSame ==
    ASSUME IInv, NEW w \in Deployers, NEW d \in Ids, Fetch(w, d)
    PROVE  RowsSame /\ \A x \in Everyone : RequestSame(x)
    <1>1. PICK s \in {"building", "failed"} : deployment' = [deployment EXCEPT ![d].status = s]
        BY DEF Fetch
    <1>2. Row(deployment[d]) /\ UNCHANGED build
        BY DEF Fetch, NextQueued
    <1>3. RowsSame
        BY <1>1, <1>2, StatusSame
    <1>4. w \in Everyone /\ req \in [Everyone -> Requests]
        BY DEF IInv, WorldTypes, Everyone
    <1>5. req' = req \/ \E k : req' = [req EXCEPT ![w] = k] /\ k.at = "installation"
        <2>1. PICK k : k = [Idle EXCEPT
                    !.op = "fetch", !.at = "installation", !.dep = d,
                    !.org = OrganizationOf(deployment[d].app), !.app = deployment[d].app,
                    !.row = app[deployment[d].app], !.commit = deployment[d].commit]
            OBVIOUS
        <2>2. k.at = "installation"
            BY <2>1 DEF Idle
        <2>3. req' = req \/ req' = [req EXCEPT ![w] = k]
            BY <2>1 DEF Fetch
        <2>4. QED
            BY <2>2, <2>3
    <1>6. QED
        BY <1>3, <1>4, <1>5 DEF RequestSame

\* Every step of an open request.
LEMMA StepSourced ==
    ASSUME IInv, Sourced, NEW c \in Everyone, Step(c) \/ Abort(c)
    PROVE  Sourced'
    <1>1. CASE WriteProject(c) \/ InsertApp(c) \/ WriteApp(c)
        <2>1. Close(c) /\ UNCHANGED <<deployment, build>>
            BY <1>1 DEF WriteProject, InsertApp, WriteApp
        <2>2. RowsSame
            BY <2>1 DEF RowsSame, Row
        <2>3. QED
            BY <2>1, <2>2, ElsewhereSame, SourcedKept
    <1>2. CASE Resolve(c) \/ ListConnected(c) \/ NextApp(c)
        <2>1. UNCHANGED <<deployment, build>>
            BY <1>2 DEF Resolve, ListConnected, NextApp, rows
        <2>2. RowsSame
            BY <2>1 DEF RowsSame, Row
        <2>3. QED
            BY <1>2, <2>2, ElsewhereSame, SourcedKept
    <1>3. CASE FindInstallation(c)
        <2>1. Fail(c) \/ UNCHANGED <<deployment, build>>
            BY <1>3 DEF FindInstallation, rows
        <2>2. RowsSame
            BY <2>1, FailSame DEF RowsSame, Row
        <2>3. QED
            BY <1>3, <2>2, ElsewhereSame, SourcedKept
    <1>4. CASE SourceFails(c) \/ Abort(c)
        <2>1. Fail(c) /\ (Done(c) \/ Close(c))
            BY <1>4 DEF SourceFails, Abort
        <2>2. QED
            BY <2>1, FailSame, ElsewhereSame, SourcedKept
    <1>5. QED
        BY <1>1, <1>2, <1>3, <1>4, SourceSourced, UnpackSourced, CreateSourced, PublishSourced DEF Step

\* What is inserted is sourced, in every state.
LEMMA SourcedInv == Spec => []Sourced
    <1>1. Init => Sourced
        <2>1. SUFFICES ASSUME Init PROVE Sourced
            OBVIOUS
        <2>2. PICK first \in Runtimes[FirstCommit] : first = CHOOSE x \in Runtimes[FirstCommit] : TRUE
            BY FirstAssumption
        <2>3. PICK via : via = Installed0[Projects0[Apps0[Built0].project].org]
            OBVIOUS
        <2>4. \A d \in Ids : deployment[d] = IF d # 1 THEN NULL ELSE
                [app |-> Built0, runtime |-> first, commit |-> FirstCommit, ref |-> NULL, status |-> "ready",
                 via |-> via, asked |-> FirstCommit]
            BY <2>1, <2>2, <2>3 DEF Init
        <2>5. \A b \in Ids : build[b] = IF b # 1 THEN NULL ELSE
                [app |-> Built0, source |-> FirstCommit, via |-> via, at |-> 0]
            BY <2>1, <2>3 DEF Init
        <2>6. \A c \in Everyone : req[c].at = "idle"
            BY <2>1 DEF Init, Idle, Everyone
        <2>7. \A d \in Ids : Row(deployment[d]) => deployment[d].runtime \in Runtimes[deployment[d].commit]
            BY <2>4 DEF Row
        <2>8. \A b \in Ids : Row(build[b]) => build[b].source = FirstCommit
            BY <2>5 DEF Row
        <2>9. QED
            BY <2>6, <2>7, <2>8, FirstAssumption DEF Sourced
    <1>2. IInv /\ Sourced /\ [Next]_vars => Sourced'
        <2>1. SUFFICES ASSUME IInv, Sourced, [Next]_vars PROVE Sourced'
            OBVIOUS
        <2>2. CASE UNCHANGED <<deployment, build, req>>
            <3>1. RowsSame /\ \A x \in Everyone : RequestSame(x)
                BY <2>2 DEF RowsSame, RequestSame, Row
            <3>2. QED
                BY <2>1, <3>1, SourcedKept
        <2>3. CASE UNCHANGED vars \/ GitHub
            BY <2>2, <2>3 DEF vars, GitHub, Pushed, Granted, rows
        <2>4. CASE \E c \in Clients : Begin(c) \/ \E o \in Orgs, m \in delivery : gitHubWebhook(c, o, m)
            BY <2>1, <2>4, BeginSame, SourcedKept DEF Everyone
        <2>5. CASE \E w \in Deployers, d \in Ids : Fetch(w, d)
            BY <2>1, <2>5, FetchSame, SourcedKept
        <2>6. CASE \E c \in Clients \cup Deployers : Step(c) \/ Abort(c)
            BY <2>1, <2>6, StepSourced DEF Everyone
        <2>7. CASE AtOnce
            <3>1. CASE \E gone : Cascade(gone) /\ UNCHANGED req
                <4>1. RowsSame /\ \A x \in Everyone : RequestSame(x)
                    BY <2>1, <3>1, CascadeSame DEF RequestSame
                <4>2. QED
                    BY <2>1, <4>1, SourcedKept
            <3>2. QED
                BY <2>2, <2>7, <3>1
                   DEF AtOnce, createProject, CreateProject, deleteProject, DeleteProject, deleteApp, DeleteApp,
                       recordInstallation, Install, deleteInstallation, Uninstall
        <2>8. CASE Next
            <3>1. ASSUME NEW c, c = CHOOSE x \in Clients : req[x] = Idle, \E x \in Clients : req[x] = Idle
                  PROVE  c \in Clients
                BY <3>1
            <3>2. QED
                BY <2>3, <2>4, <2>5, <2>6, <2>7, <2>8, <3>1 DEF Next
        <2>9. QED
            BY <2>1, <2>3, <2>8
    <1>3. QED
        BY <1>1, <1>2, AppsInvariant, PTL DEF Spec

\* A commit with a manifest has one runtime.
LEMMA ManifestRuntime ==
    ASSUME ArchivesKeep, NEW k \in Commits, HasManifest[k], NEW x \in Runtimes[k], NEW y \in Runtimes[k]
    PROVE  x = y
    <1>1. PICK names : names = ZIPNames(Zip[k])
        OBVIOUS
    <1>2. Manifests(names) # {}
        BY <1>1 DEF ArchivesKeep
    <1>3. Runtimes[k] = DetectRuntime(names)
        BY <1>1 DEF Runtimes
    <1>4. PICK m : m = Manifests(names)
        OBVIOUS
    <1>5. Runtimes[k] = {markers[i][2] : i \in {z \in m : \A w \in m : z <= w}}
        BY <1>2, <1>3, <1>4 DEF DetectRuntime
    <1>6. m \subseteq Nat
        BY <1>4 DEF Manifests, markers
    <1>7. PICK i \in m, j \in m : x = markers[i][2] /\ y = markers[j][2] /\ i <= j /\ j <= i
        BY <1>5
    <1>8. i = j
        BY <1>6, <1>7
    <1>9. QED
        BY <1>7, <1>8

\* If the archives lose nothing (which is a statement about the commits alone), then every
\* deployment has the commit that was asked for and the runtime its manifest says, and every
\* build is of the files of that commit: however requests, deletes and pushes fall between each
\* other's steps.
THEOREM BuildsAsAsked ==
    ASSUME ArchivesKeep
    PROVE  Spec => []BuildsWhatWasAsked
    <1>1. IInv /\ Sourced => BuildsWhatWasAsked
        <2>1. SUFFICES ASSUME IInv, Sourced PROVE BuildsWhatWasAsked
            OBVIOUS
        <2>2. AskedCommit
            BY <2>1 DEF IInv, TablesInv
        <2>3. \A d \in Ids : Row(deployment[d]) => deployment[d] \in DeploymentRows
            BY <2>1 DEF IInv, TypeOK, Row
        <2>4. \A d \in Ids : Row(deployment[d]) => deployment[d].commit \in Commits
            BY <2>3 DEF DeploymentRows
        <2>5. ManifestDecides
            BY <2>1, <2>4, ManifestRuntime DEF ManifestDecides, Sourced
        <2>6. ASSUME NEW b \in Ids, Row(build[b])
              PROVE  GivenFiles[build[b].source] = FilesOfCommit[deployment[b].asked]
            <3>1. Row(deployment[b])
                BY <2>1, <2>6 DEF IInv, TypeOK, NoOrphans
            <3>2. build[b].source = deployment[b].asked /\ build[b].source \in Commits
                BY <2>2, <2>4, <2>6, <3>1 DEF AskedCommit
            <3>3. Small[build[b].source] /\ ~Unpacked[build[b].source].err
                BY <2>1, <2>6 DEF Sourced
            <3>4. QED
                BY <3>2, <3>3 DEF ArchivesKeep
        <2>7. QED
            BY <2>2, <2>5, <2>6 DEF BuildsWhatWasAsked, TreeComplete
    <1>2. QED
        BY <1>1, AppsInvariant, SourcedInv, PTL
=============================================================================
