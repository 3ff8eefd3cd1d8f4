-------------------------------- MODULE Apps --------------------------------
(***************************************************************************)
(* Projects, apps, the GitHub installation of an organization, and what    *)
(* turns a commit into a deployment and a build: manual deploys, retries,  *)
(* push deliveries, and the fetch a deployer makes for what it claimed.    *)
(*                                                                         *)
(* An action is one statement of the database or one call to GitHub;       *)
(* between two of them every other request runs.  A change of an app reads *)
(* the whole row, and writes the whole row back.  Reads of a row that      *)
(* cannot change until it is deleted are taken together with the next      *)
(* statement, which fails when the row is gone.                            *)
(*                                                                         *)
(* GitHub is another system, modelled from the calls the code makes: a     *)
(* repository is read through one installation at most, a commit is its    *)
(* content, and a delivery may be late, repeated or never arrive.  The     *)
(* spellings of a ref (x, refs/heads/x, refs/tags/x) are one name; an      *)
(* empty ref and HEAD are both NULL.  Timestamps are left out: the ids of  *)
(* rows are never used again, and created_at never changes.                *)
(***************************************************************************)
EXTENDS Naturals, FiniteSets, Archives

CONSTANTS
    NULL,            \* no row, no value
    DELETED,         \* the row of an id that was used and is gone
    Orgs,            \* organizations
    Installs,        \* installation ids of GitHub
    Projects,        \* ids of projects
    AppIds,          \* ids of apps
    Names,           \* names of projects and apps
    Given,           \* the names that requests give
    Repos,           \* owner/name as it is typed
    Lower,           \* the repository that a spelling names
    Branches,        \* refs of a repository
    Default,         \* the default branch
    Commits,         \* commits, by their SHA
    Tarball,         \* the archive GitHub serves of a commit
    FirstCommit,     \* the commit every default branch starts from
    Targets,         \* the pairs of a repository and a ref that requests name
    Callers,         \* the organizations whose members make requests; all may install
    Clients,         \* requests and deliveries that can be handled at once
    Deployers,       \* deployers, one deployment at a time each
    Projects0,       \* the tables at the start
    Apps0,
    Installed0,
    Built0,          \* the app that the first build is of
    Readable0,       \* what GitHub grants at the start
    MaxCalls,        \* bound on the requests that begin
    MaxDeployments,  \* bound on the deployments
    MaxEvents        \* bound on installs, what happens at GitHub, and requests cut short

Ids == 1..MaxDeployments
Refs == Branches \cup {NULL}
ProjectRows == [org : Orgs, name : Names]
AppRows == [project : Projects, name : Names, repository : Repos \cup {NULL},
            ref : Refs, active : Ids \cup {NULL}]
DeploymentRows == [app : AppIds, runtime : runtimes, commit : Commits, ref : Refs,
                   status : {"queued", "building", "ready", "failed"},
                   via : Installs, asked : Commits]
BuildRows == [app : AppIds, source : Commits, via : Installs, at : Nat]

ASSUME AppsAssumption ==
    /\ Lower \in [Repos -> Repos] /\ \A r \in Repos : Lower[Lower[r]] = Lower[r]
    /\ Default \in Branches /\ FirstCommit \in Commits
    /\ \A k \in Commits : \A i \in DOMAIN Tarball[k] :
        /\ Tarball[k][i].kind \in {"file", "dir", "link"} /\ Tarball[k][i].size \in Nat
        /\ Tarball[k][i].name # << >>
    /\ Projects0 \in [Projects -> ProjectRows \cup {NULL}]
    /\ Apps0 \in [AppIds -> AppRows \cup {NULL}]
    /\ \A a \in AppIds : Apps0[a] # NULL =>
        /\ Projects0[Apps0[a].project] # NULL
        /\ Apps0[a].active = NULL /\ (Apps0[a].ref # NULL => Apps0[a].repository # NULL)
    /\ Installed0 \in [Orgs -> Installs \cup {NULL}]
    /\ Built0 \in AppIds /\ Apps0[Built0] # NULL
    /\ Installed0[Projects0[Apps0[Built0].project].org] # NULL
    /\ Readable0 \in [Repos -> Installs]
    /\ Targets \subseteq (Repos \cup {NULL}) \X Refs /\ Callers \subseteq Orgs
    /\ Given \subseteq Names
    /\ MaxCalls \in Nat /\ MaxDeployments \in Nat \ {0} /\ MaxEvents \in Nat
    /\ Clients \cap Deployers = {} /\ IsFiniteSet(Clients) /\ IsFiniteSet(AppIds)

\* NULL and DELETED are none of the values they stand beside.
ASSUME RowAssumption ==
    /\ NULL # DELETED
    /\ NULL \notin Orgs \cup Installs \cup Projects \cup AppIds \cup Names \cup Repos
                  \cup Branches \cup Commits \cup Ids
    /\ NULL \notin {"updateProject", "createApp", "updateApp", "activateBuild", "connect",
                   "deploy", "retry", "push", "fetch"}
    /\ {NULL, DELETED} \cap ProjectRows = {} /\ {NULL, DELETED} \cap AppRows = {}
    /\ {NULL, DELETED} \cap DeploymentRows = {} /\ {NULL, DELETED} \cap BuildRows = {}

VARIABLES
    project,       \* projects
    app,           \* apps
    deployment,    \* deployments; via is history: the installation it was read through,
                   \* and asked the commit that was asked for
    build,         \* builds, by the deployment that made them; via likewise
    installation,  \* github_installations, by organization
    readable,      \* GitHub: the installation that grants a repository
    head,          \* GitHub: what the branches of a repository point at
    holds,         \* GitHub: the commits of a repository
    delivery,      \* GitHub: the push deliveries sent so far
    req,           \* what each open request knows and where it is
    left,          \* what is left of the bounds
    seen,          \* history: the installations organizations held since the start, and
                   \* the connections GitHub resolved
    acked          \* history: what was last answered about an app, NULL once two
                   \* changes of it overlapped

github == <<readable, head, holds, delivery>>
rows == <<project, app, deployment, build, installation>>
vars == <<project, app, deployment, build, installation, readable, head, holds, delivery,
          req, left, seen, acked>>

Idle == [op |-> NULL, at |-> "idle", org |-> NULL, app |-> NULL, row |-> NULL, project |-> NULL,
         name |-> NULL, repo |-> NULL, ref |-> NULL, build |-> NULL, inst |-> NULL,
         commit |-> NULL, runtime |-> NULL, asked |-> NULL, dep |-> NULL, todo |-> {}, due |-> {}]

Row(t) == t \notin {NULL, DELETED}

---------------------------------------------------------------------------
(* The app record. *)

NewApp(p, n) == [project |-> p, name |-> n, repository |-> NULL, ref |-> NULL, active |-> NULL]

\* App.Connect: disconnecting clears the ref too.
Connect(row, repository, ref) ==
    [row EXCEPT !.repository = repository, !.ref = IF repository = NULL THEN NULL ELSE ref]

\* App.TracksRef
TracksRef(row, ref) ==
    /\ row.repository # NULL
    /\ ref = IF row.ref = NULL THEN Default ELSE row.ref

\* App.ActivateBuild; NULL releases the pin.
ActivateBuild(row, b) == [row EXCEPT !.active = b]

Rename(row, name) == [row EXCEPT !.name = name]

\* App.Validate: what is left of it once names and ids are well formed.
Validate(row) == row.ref # NULL => row.repository # NULL

\* The source of each commit: its ZIP, whether it is within the limits, what it says
\* about the runtime, and what extraction makes of it.
Zip == [k \in Commits |-> repack(Tarball[k])]
Small == [k \in Commits |-> Repacks(Tarball[k])]
Runtimes == [k \in Commits |-> DetectRuntime(ZIPNames(Zip[k]))]
Unpacked == [k \in Commits |-> ExtractZIP(Zip[k])]

\* The commit of the first build could be built.
ASSUME FirstAssumption ==
    Small[FirstCommit] /\ Runtimes[FirstCommit] # {} /\ ~Unpacked[FirstCommit].err

---------------------------------------------------------------------------
(* Reads. *)

\* ProjectRepository.GetByID
ProjectByID(o, p) == Row(project[p]) /\ project[p].org = o

\* inOrganization, AppRepository.GetByID
GetByID(o, a) == Row(app[a]) /\ ProjectByID(o, app[a].project)

\* AppRepository.OrganizationOf, of an app that exists
OrganizationOf(a) == project[app[a].project].org

\* AppRepository.ConnectedTo: the case of a name does not matter.
ConnectedTo(o, r) ==
    {a \in AppIds : /\ GetByID(o, a) /\ app[a].repository # NULL
                    /\ Lower[app[a].repository] = Lower[r]}

\* BuildRepository.Get: builds are reached through their app.
BuildGet(o, b) == build[b] # NULL /\ build[b] # DELETED /\ GetByID(o, build[b].app)

\* BuildRepository.ActiveForApp: the pinned build of the app, or the newest;
\* NULL is ErrNotReady.
ActiveForApp(a) ==
    LET own == {b \in Ids : /\ Row(build[b]) /\ build[b].app = a
                            /\ app[a].active \in {NULL, b}}
    IN IF own = {} THEN NULL
       ELSE CHOOSE b \in own : \A other \in own : build[other].at <= build[b].at

\* GitHubInstallationRepository.ByOrganization
ByOrganization(o) == installation[o]

\* GitHubInstallationRepository.ByInstallationID: the column is unique.
ByInstallationID(i) == {o \in Orgs : installation[o] = i}

\* Client.ResolveRef: NULL is a repository the installation cannot read, or a
\* ref that is not there.
ResolveRef(i, r, ref) ==
    IF readable[Lower[r]] = i THEN head[Lower[r]][IF ref = NULL THEN Default ELSE ref] ELSE NULL

---------------------------------------------------------------------------
(* The unique indexes, and the rows that go when their parent goes. *)

ProjectNameFree(o, n, but) ==
    \A p \in Projects \ {but} : Row(project[p]) /\ project[p].org = o => project[p].name # n

AppNameFree(p, n, but) ==
    \A a \in AppIds \ {but} : Row(app[a]) /\ app[a].project = p => app[a].name # n

\* ON DELETE CASCADE of deployments, and not of builds.
CascadeDeployments(gone) ==
    /\ app' = [a \in AppIds |-> IF a \in gone THEN DELETED ELSE app[a]]
    /\ deployment' = [d \in Ids |->
        IF Row(deployment[d]) /\ deployment[d].app \in gone THEN DELETED ELSE deployment[d]]
    /\ build' = build

\* ON DELETE CASCADE: an app takes its deployments and its builds.
Cascade(gone) ==
    /\ app' = [a \in AppIds |-> IF a \in gone THEN DELETED ELSE app[a]]
    /\ deployment' = [d \in Ids |->
        IF Row(deployment[d]) /\ deployment[d].app \in gone THEN DELETED ELSE deployment[d]]
    /\ build' = [b \in Ids |->
        IF Row(build[b]) /\ build[b].app \in gone THEN DELETED ELSE build[b]]

---------------------------------------------------------------------------
(* Requests. *)

Call == left.calls > 0 /\ left' = [left EXCEPT !.calls = @ - 1]

Reinstall == left.events > 0 /\ left' = [left EXCEPT !.events = @ - 1]

\* A request that will insert n deployments at most.
CallFor(n) ==
    /\ left.calls > 0 /\ left.ids >= n
    /\ left' = [left EXCEPT !.calls = @ - 1, !.ids = @ - n]

\* A request begins, and has made its first read.
Open(c, r) ==
    /\ req[c] = Idle /\ req' = [req EXCEPT ![c] = r]
    /\ UNCHANGED <<rows, github, seen, acked>>

Close(c) == req' = [req EXCEPT ![c] = Idle]

NewProject(o, n) == [org |-> o, name |-> n]

RenameProject(row, n) == [row EXCEPT !.name = n]

\* ProjectService.Create
CreateProject(o, p, n) ==
    /\ project[p] = NULL /\ ProjectNameFree(o, n, p)
    /\ project' = [project EXCEPT ![p] = NewProject(o, n)]
    /\ UNCHANGED <<app, deployment, build, installation, github, req, seen, acked>>

createProject(o, p, n) == Call /\ CreateProject(o, p, n)

\* ProjectService.Update reads the project.
UpdateProject(c, o, p, n) ==
    /\ ProjectByID(o, p)
    /\ Open(c, [Idle EXCEPT !.op = "updateProject", !.at = "write", !.org = o, !.project = p,
                            !.name = n])

updateProject(c, o, p, n) == Call /\ UpdateProject(c, o, p, n)

\* ProjectRepository.Update: no row, or a name that is taken, changes nothing.
WriteProject(c) ==
    LET r == req[c] IN
    /\ r.op = "updateProject" /\ Close(c)
    /\ project' = IF ProjectByID(r.org, r.project) /\ ProjectNameFree(r.org, r.name, r.project)
                  THEN [project EXCEPT ![r.project] = RenameProject(@, r.name)] ELSE project
    /\ UNCHANGED <<app, deployment, build, installation, github, left, seen, acked>>

\* ProjectRepository.Delete
DeleteProject(o, p) ==
    /\ ProjectByID(o, p)
    /\ project' = [project EXCEPT ![p] = DELETED]
    /\ Cascade({a \in AppIds : Row(app[a]) /\ app[a].project = p})
    /\ UNCHANGED <<installation, github, req, seen, acked>>

deleteProject(o, p) == Call /\ DeleteProject(o, p)

\* AppService.Delete
DeleteApp(o, a) ==
    /\ GetByID(o, a)
    /\ Cascade({a})
    /\ UNCHANGED <<project, installation, github, req, seen, acked>>

deleteApp(o, a) == Call /\ DeleteApp(o, a)

\* GitHubInstallationRepository.Save: the row of the organization is replaced, and
\* the installation may not be another's (to record the same one again changes
\* nothing here).
SaveInstallation(o, i) ==
    /\ ByInstallationID(i) = {}
    /\ installation' = [installation EXCEPT ![o] = i]

\* GitHubService.Install: GitHub names the account.
Install(o, i) ==
    /\ SaveInstallation(o, i)
    /\ seen' = [seen EXCEPT !.held = @ \cup {<<o, i>>}]
    /\ UNCHANGED <<project, app, deployment, build, github, req, acked>>

recordInstallation(o, i) == Reinstall /\ Install(o, i)

\* GitHubService.Uninstall
Uninstall(o) ==
    /\ installation[o] # NULL
    /\ installation' = [installation EXCEPT ![o] = NULL]
    /\ UNCHANGED <<project, app, deployment, build, github, req, seen, acked>>

deleteInstallation(o) == Reinstall /\ Uninstall(o)

---------------------------------------------------------------------------
(* Requests about one app begin with a read of it, all but createApp. *)

\* GitHubService.CreateApp: a repository is required, and the organization's
\* installation is read.
CreateApp(c, o, p, n, r, ref) ==
    /\ ByOrganization(o) # NULL
    /\ Open(c, [Idle EXCEPT !.op = "createApp", !.at = "resolve", !.org = o,
                            !.inst = ByOrganization(o),
                            !.row = Connect(NewApp(p, n), r, ref), !.repo = r, !.ref = ref])

\* (as many at once as there are ids left for; an app that a push may still find
\* needs a deployment)
createApp(c, o, p, n, r, ref) ==
    /\ CallFor(Cardinality({x \in Clients : req[x].op = "push"}))
    /\ CreateApp(c, o, p, n, r, ref)
    /\ Cardinality({x \in Clients : req[x].op = "createApp"})
            < Cardinality({a \in AppIds : app[a] = NULL})

\* AppService.Update
UpdateApp(c, o, a, n) ==
    /\ GetByID(o, a)
    /\ Open(c, [Idle EXCEPT !.op = "updateApp", !.at = "write", !.org = o, !.app = a,
                            !.row = app[a], !.name = n])

updateApp(c, o, a, n) == Call /\ UpdateApp(c, o, a, n)

\* AppService.ActivateBuild
Activate(c, o, a, b) ==
    /\ GetByID(o, a)
    /\ Open(c, [Idle EXCEPT !.op = "activateBuild", !.at = "write", !.org = o, !.app = a,
                            !.row = app[a], !.build = b])

activateBuild(c, o, a, b) == Call /\ Activate(c, o, a, b)

\* GitHubService.Connect: an empty repository disconnects and asks GitHub nothing.
ConnectTo(c, o, a, r, ref) ==
    /\ GetByID(o, a)
    /\ Open(c, [Idle EXCEPT !.op = "connect", !.at = IF r = NULL THEN "write" ELSE "installation",
                            !.org = o, !.app = a, !.row = app[a], !.repo = r, !.ref = ref])

connectRepository(c, o, a, r, ref) == Call /\ ConnectTo(c, o, a, r, ref)

\* GitHubService.Deploy: an empty ref is the app's production ref.
Deploy(c, o, a, ref) ==
    /\ GetByID(o, a) /\ app[a].repository # NULL
    /\ Open(c, [Idle EXCEPT !.op = "deploy", !.at = "installation", !.org = o, !.app = a,
                            !.row = app[a], !.repo = app[a].repository,
                            !.ref = IF ref = NULL THEN app[a].ref ELSE ref])

deployRef(c, o, a, ref) == CallFor(1) /\ Deploy(c, o, a, ref)

\* GitHubService.Retry: whatever became of the deployment, its commit and its
\* ref, in the repository the app is connected to now.
Retry(c, o, d) ==
    LET a == deployment[d].app IN
    /\ Row(deployment[d]) /\ GetByID(o, a) /\ app[a].repository # NULL
    /\ Open(c, [Idle EXCEPT !.op = "retry", !.at = "installation", !.org = o, !.app = a,
                            !.row = app[a], !.repo = app[a].repository,
                            !.ref = deployment[d].ref, !.commit = deployment[d].commit,
                            !.asked = deployment[d].commit])

retryDeployment(c, o, d) == CallFor(1) /\ Retry(c, o, d)

\* ParsePush: GitHub signed the delivery, and it carries a commit.
ParsePush(m) == m \in delivery /\ m.commit # NULL

\* What Push knows of a delivery, as it handles it for an organization.
Handling(o, m) == [Idle EXCEPT !.op = "push", !.at = "list", !.org = o, !.inst = m.inst,
                               !.repo = m.repo, !.ref = m.ref, !.commit = m.commit,
                               !.asked = m.commit]

\* The organization is whatever the body of the delivery says.
PushTrusting(c, o, m) == Open(c, Handling(o, m))

\* Push finds the organization behind the installation.
Push(c, o, m) == o \in ByInstallationID(m.inst) /\ Open(c, Handling(o, m))

\* gitHubWebhook answers 202, and the delivery is handled after that.  Nothing
\* remembers which deliveries were handled.
gitHubWebhook(c, o, m) ==
    /\ ParsePush(m) /\ Push(c, o, m)
    /\ CallFor(Cardinality({a \in AppIds : GetByID(o, a)})
                + Cardinality({x \in Clients : req[x].op = "createApp"}))

---------------------------------------------------------------------------
(* The steps the requests share. *)

\* A deployment its deployer gives up.
Fail(c) ==
    /\ deployment' = IF req[c].op = "fetch" /\ Row(deployment[req[c].dep])
                     THEN [deployment EXCEPT ![req[c].dep].status = "failed"] ELSE deployment
    /\ UNCHANGED <<project, app, build, installation>>

\* The organization's installation is read; without one the request ends.
FindInstallation(c) ==
    LET i == ByOrganization(req[c].org) IN
    /\ req[c].at = "installation"
    /\ IF i = NULL THEN Close(c) /\ Fail(c)
       ELSE /\ req' = [req EXCEPT ![c].inst = i,
                 ![c].at = IF req[c].op \in {"retry", "fetch"} THEN "source" ELSE "resolve"]
            /\ UNCHANGED rows
    /\ UNCHANGED <<github, left, seen, acked>>

\* The repository is stored whether GitHub resolves it or not.
ResolveAnything(c) ==
    LET r == req[c]
        commit == ResolveRef(r.inst, r.repo, r.ref)
    IN
    /\ r.at = "resolve"
    /\ IF r.op = "deploy"
       THEN IF commit = NULL THEN Close(c)
            ELSE req' = [req EXCEPT ![c].commit = commit, ![c].asked = commit, ![c].at = "source"]
       ELSE req' = [req EXCEPT ![c].at = "write"]
    /\ seen' = IF commit = NULL \/ r.op = "deploy" THEN seen
               ELSE [seen EXCEPT !.resolved = @ \cup {<<r.org, r.repo, r.ref>>}]
    /\ UNCHANGED <<rows, github, left, acked>>

\* GitHub resolves the ref: for a deploy the commit, for a connection only the
\* proof that the installation can read it.
Resolve(c) ==
    LET r == req[c]
        commit == ResolveRef(r.inst, r.repo, r.ref)
    IN
    /\ r.at = "resolve"
    /\ IF commit = NULL THEN Close(c) /\ UNCHANGED seen
       ELSE /\ req' = IF r.op = "deploy"
                      THEN [req EXCEPT ![c].commit = commit, ![c].asked = commit,
                                       ![c].at = "source"]
                      ELSE [req EXCEPT ![c].at = "write"]
            /\ seen' = IF r.op = "deploy" THEN seen
                       ELSE [seen EXCEPT !.resolved = @ \cup {<<r.org, r.repo, r.ref>>}]
    /\ UNCHANGED <<rows, github, left, acked>>

\* AppService.Create and the insert: the project has to be there, and be the
\* organization's.
InsertApp(c) ==
    LET r == req[c]
        a == CHOOSE x \in AppIds : app[x] = NULL
        inserted == /\ ProjectByID(r.org, r.row.project) /\ Validate(r.row)
                    /\ AppNameFree(r.row.project, r.row.name, a)
    IN
    /\ r.op = "createApp" /\ r.at = "write" /\ Close(c)
    /\ app' = IF inserted THEN [app EXCEPT ![a] = r.row] ELSE app
    /\ acked' = IF inserted THEN [acked EXCEPT ![a] = r.row] ELSE acked
    /\ UNCHANGED <<project, deployment, build, installation, github, left, seen>>

\* The row a request writes: the one it read, with what it changes.
Changed(r) ==
    IF r.op = "updateApp" THEN Rename(r.row, r.name)
    ELSE IF r.op = "connect" THEN Connect(r.row, r.repo, r.ref)
    ELSE ActivateBuild(r.row, r.build)

\* AppService.ActivateBuild pins any build of the organization.
MayPinAny(r) == r.build # NULL => BuildGet(r.org, r.build)

\* AppService.ActivateBuild: the build is one of this app's.
MayPin(r) == r.build # NULL => BuildGet(r.org, r.build) /\ build[r.build].app = r.app

\* What the request was answered to have changed.
Answered(r, row) ==
    IF r.op = "updateApp" THEN [row EXCEPT !.name = r.name]
    ELSE IF r.op = "activateBuild" THEN [row EXCEPT !.active = r.build]
    ELSE [row EXCEPT !.repository = r.repo, !.ref = IF r.repo = NULL THEN NULL ELSE r.ref]

\* AppRepository.Update: every column of the row as it was read.
WriteApp(c) ==
    LET r == req[c]
        row == Changed(r)
        written == /\ GetByID(r.org, r.app) /\ Validate(row) /\ MayPin(r)
                   /\ AppNameFree(row.project, row.name, r.app)
    IN
    /\ r.op \in {"updateApp", "connect", "activateBuild"} /\ r.at = "write" /\ Close(c)
    /\ app' = IF written THEN [app EXCEPT ![r.app] = row] ELSE app
    /\ acked' = IF ~written \/ acked[r.app] = NULL THEN acked
                ELSE [acked EXCEPT ![r.app] = IF app[r.app] = r.row THEN Answered(r, @) ELSE NULL]
    /\ UNCHANGED <<project, deployment, build, installation, github, left, seen>>

\* The apps a push of this ref is for.
Followers(o, r, ref) ==
    {a \in AppIds : /\ Row(app[a]) /\ project[app[a].project].org = o
                    /\ app[a].repository # NULL /\ Lower[app[a].repository] = Lower[r]
                    /\ ref = IF app[a].ref = NULL THEN Default ELSE app[a].ref}

\* Push: the apps connected to the repository, as they are now; the ones that
\* follow the ref are built one after the other.
ListConnected(c) ==
    LET r == req[c] IN
    /\ r.at = "list"
    /\ req' = [req EXCEPT ![c].at = "each", ![c].due = Followers(r.org, r.repo, r.ref),
                 ![c].todo = {[app |-> a, row |-> app[a]] :
                    a \in {x \in ConnectedTo(r.org, r.repo) : TracksRef(app[x], r.ref)}}]
    /\ UNCHANGED <<rows, github, left, seen, acked>>

\* Push: the next app of the list, in one fixed order, or the end.
NextApp(c) ==
    LET r == req[c] IN
    /\ r.at = "each"
    /\ \/ r.todo = {} /\ Close(c)
       \/ LET x == CHOOSE y \in r.todo : TRUE IN
            /\ r.todo # {}
            /\ req' = [req EXCEPT ![c].at = "source", ![c].app = x.app, ![c].row = x.row,
                                  ![c].todo = @ \ {x}, ![c].due = @ \ {x.app}]
    /\ UNCHANGED <<rows, github, left, seen, acked>>

\* Where a request goes when it is done with one app.
Done(c) ==
    IF req[c].op = "push"
    THEN req' = [req EXCEPT ![c].at = "each", ![c].app = NULL, ![c].row = NULL,
                            ![c].runtime = NULL]
    ELSE Close(c)

\* Client.Source: GitHub serves a commit of a repository the installation may read,
\* and what it serves is within the limits.
Served(r) ==
    LET repo == Lower[r.row.repository] IN
    readable[repo] = r.inst /\ r.commit \in holds[repo] /\ Small[r.commit]

\* GitHubService.build downloads the source to learn the runtime of the deployment
\* it is about to make.
Source(c) ==
    LET r == req[c] IN
    /\ r.at = "source" /\ r.op # "fetch" /\ Served(r)
    /\ \E runtime \in Runtimes[r.commit] :
            req' = [req EXCEPT ![c].at = "create", ![c].runtime = runtime]
    /\ UNCHANGED <<rows, github, left, seen, acked>>

\* The deployer downloads it again and extracts it for the toolchain.
Unpack(c) ==
    LET r == req[c] IN
    /\ r.at = "source" /\ r.op = "fetch" /\ Served(r)
    /\ ~Unpacked[r.commit].err
    /\ req' = [req EXCEPT ![c].at = "publish"]
    /\ UNCHANGED <<rows, github, left, seen, acked>>

\* The first app that fails ends the push.
SourceFailsAll(c) ==
    /\ req[c].at = "source"
    /\ Close(c) /\ Fail(c)
    /\ UNCHANGED <<github, left, seen, acked>>

\* A push stays with an app until its source arrives.
SourceFailsRetried(c) ==
    /\ req[c].at = "source"
    /\ IF req[c].op = "push" THEN req' = req ELSE Close(c)
    /\ Fail(c)
    /\ UNCHANGED <<github, left, seen, acked>>

\* The download fails, is too big, holds no runtime or cannot be extracted: one app
\* failing does not stop the rest of a push.
SourceFails(c) ==
    /\ req[c].at = "source"
    /\ Done(c) /\ Fail(c)
    /\ UNCHANGED <<github, left, seen, acked>>

\* The deployment that a request inserts.
NewDeployment(r) == [app |-> r.app, runtime |-> r.runtime, commit |-> r.commit, ref |-> r.ref,
                     status |-> "queued", via |-> r.inst, asked |-> r.asked]

\* DeploymentService.Create: the app is read again, and the row inserted.
CreateDeployment(c) ==
    LET r == req[c]
        d == 1 + Cardinality({x \in Ids : deployment[x] # NULL})
    IN
    /\ r.at = "create" /\ Done(c)
    /\ deployment' = IF GetByID(r.org, r.app)
                     THEN [deployment EXCEPT ![d] = NewDeployment(r)] ELSE deployment
    /\ UNCHANGED <<project, app, build, installation, github, left, seen, acked>>

\* A client that goes away, a timeout, or a control plane that dies between two
\* calls; what a deployer had claimed is recovered as failed.
Abort(c) ==
    /\ req[c] # Idle /\ left.events > 0
    /\ left' = [left EXCEPT !.events = @ - 1]
    /\ Close(c) /\ Fail(c)
    /\ UNCHANGED <<github, seen, acked>>

---------------------------------------------------------------------------
(* The deployer's side: the commit of a deployment it claimed. *)

\* The oldest queued deployment, which the deployer claims (the queue itself is
\* Deployments).
NextQueued(d) ==
    /\ Row(deployment[d]) /\ deployment[d].status = "queued"
    /\ \A e \in 1..(d - 1) : Row(deployment[e]) => deployment[e].status # "queued"

\* Fetch builds what the default branch points at.
FetchHead(w, d) ==
    LET a == deployment[d].app IN
    /\ req[w] = Idle /\ NextQueued(d)
    /\ IF app[a].repository = NULL
       THEN deployment' = [deployment EXCEPT ![d].status = "failed"] /\ req' = req
       ELSE /\ deployment' = [deployment EXCEPT ![d].status = "building"]
            /\ req' = [req EXCEPT ![w] = [Idle EXCEPT
                    !.op = "fetch", !.at = "installation", !.dep = d, !.org = OrganizationOf(a),
                    !.app = a, !.row = app[a],
                    !.commit = head[Lower[app[a].repository]][Default]]]
    /\ UNCHANGED <<project, app, build, installation, github, left, seen, acked>>

\* GitHubService.Fetch: the organization comes from the app, and the repository
\* is the one the app is connected to now.
Fetch(w, d) ==
    LET a == deployment[d].app IN
    /\ req[w] = Idle /\ NextQueued(d)
    /\ IF app[a].repository = NULL
       THEN deployment' = [deployment EXCEPT ![d].status = "failed"] /\ req' = req
       ELSE /\ deployment' = [deployment EXCEPT ![d].status = "building"]
            /\ req' = [req EXCEPT ![w] = [Idle EXCEPT
                    !.op = "fetch", !.at = "installation", !.dep = d, !.org = OrganizationOf(a),
                    !.app = a, !.row = app[a], !.commit = deployment[d].commit]]
    /\ UNCHANGED <<project, app, build, installation, github, left, seen, acked>>

\* The build of the source is saved and the deployment is ready; both rows need
\* their parents.
Publish(w) ==
    LET r == req[w]
        d == r.dep
    IN
    /\ r.at = "publish" /\ Close(w)
    /\ IF Row(deployment[d])
       THEN /\ build' = [build EXCEPT ![d] =
                [app |-> r.app, source |-> r.commit, via |-> r.inst,
                 at |-> Cardinality({b \in Ids : build[b] # NULL})]]
            /\ deployment' = [deployment EXCEPT ![d].status = "ready"]
       ELSE UNCHANGED <<build, deployment>>
    /\ UNCHANGED <<project, app, installation, github, left, seen, acked>>

---------------------------------------------------------------------------
(* GitHub. *)

Event == left.events > 0 /\ left' = [left EXCEPT !.events = @ - 1]

\* A new commit is pushed; the installation that grants the repository is told.
Pushed(r, b, k) ==
    /\ Event /\ \A x \in Branches : head[r][x] # k
    /\ head' = [head EXCEPT ![r][b] = k] /\ holds' = [holds EXCEPT ![r] = @ \cup {k}]
    /\ delivery' = IF readable[r] = NULL THEN delivery
                   ELSE delivery \cup {[inst |-> readable[r], repo |-> r, ref |-> b, commit |-> k]}
    /\ UNCHANGED <<rows, readable, req, seen, acked>>

\* A repository changes hands, or is withdrawn from an installation.
Granted(r, i) ==
    /\ Event /\ readable[r] # i
    /\ readable' = [readable EXCEPT ![r] = i]
    /\ UNCHANGED <<rows, head, holds, delivery, req, seen, acked>>

---------------------------------------------------------------------------

Step(c) ==
    \/ WriteProject(c) \/ FindInstallation(c) \/ Resolve(c) \/ InsertApp(c) \/ WriteApp(c)
    \/ ListConnected(c) \/ NextApp(c) \/ Source(c) \/ Unpack(c) \/ SourceFails(c)
    \/ CreateDeployment(c) \/ Publish(c)

Begin(c) ==
    \E o \in Callers :
        \/ \E p \in Projects, n \in Given : updateProject(c, o, p, n)
        \/ \E p \in {x \in Projects : project[x] # NULL}, n \in Given, t \in Targets :
                t[1] # NULL /\ createApp(c, o, p, n, t[1], t[2])
        \/ \E a \in AppIds :
            \/ \E n \in Given : updateApp(c, o, a, n)
            \/ \E b \in {d \in Ids : build[d] # NULL} \cup {NULL} : activateBuild(c, o, a, b)
            \/ \E t \in Targets : connectRepository(c, o, a, t[1], t[2])
            \/ \E t \in Targets : deployRef(c, o, a, t[2])
        \/ \E d \in Ids : retryDeployment(c, o, d)

\* Requests of one statement.
AtOnce ==
    \/ \E o \in Callers :
        \/ \E p \in Projects, n \in Given : createProject(o, p, n)
        \/ \E p \in Projects : deleteProject(o, p)
        \/ \E a \in AppIds : deleteApp(o, a)
    \/ \E o \in Orgs :
        \/ \E i \in Installs : recordInstallation(o, i)
        \/ deleteInstallation(o)

GitHub ==
    \E r \in {Lower[x] : x \in Repos} :
        \/ \E b \in Branches, k \in Commits : Pushed(r, b, k)
        \/ \E i \in Installs \cup {NULL} : Granted(r, i)

Init ==
    /\ project = Projects0 /\ app = Apps0 /\ installation = Installed0
    /\ LET via == Installed0[Projects0[Apps0[Built0].project].org] IN
        /\ deployment = [d \in Ids |-> IF d # 1 THEN NULL ELSE
            [app |-> Built0, runtime |-> CHOOSE x \in Runtimes[FirstCommit] : TRUE,
             commit |-> FirstCommit, ref |-> NULL, status |-> "ready",
             via |-> via, asked |-> FirstCommit]]
        /\ build = [b \in Ids |-> IF b # 1 THEN NULL ELSE
            [app |-> Built0, source |-> FirstCommit, via |-> via, at |-> 0]]
    /\ readable = Readable0
    /\ head = [r \in Repos |->
                [b \in Branches |-> IF b = Default THEN FirstCommit ELSE NULL]]
    /\ holds = [r \in Repos |-> {FirstCommit}]
    /\ delivery = {[inst |-> Readable0[r], repo |-> r, ref |-> Default, commit |-> FirstCommit] :
                    r \in {Lower[x] : x \in Repos}}
    /\ req = [c \in Clients \cup Deployers |-> Idle]
    /\ left = [calls |-> MaxCalls, ids |-> MaxDeployments - 1, events |-> MaxEvents]
    /\ seen = [held |-> {<<o, Installed0[o]>> : o \in {x \in Orgs : Installed0[x] # NULL}},
               resolved |-> {<<Projects0[Apps0[a].project].org, Apps0[a].repository,
                               Apps0[a].ref>> : a \in {x \in AppIds : Apps0[x] # NULL}}]
    /\ acked = Apps0

\* The requests in progress are alike: one begins in whichever place is free.
Next ==
    \/ /\ \E c \in Clients : req[c] = Idle
       /\ LET c == CHOOSE x \in Clients : req[x] = Idle IN
            Begin(c) \/ \E o \in Orgs, m \in delivery : gitHubWebhook(c, o, m)
    \/ \E w \in Deployers, d \in Ids : Fetch(w, d)
    \/ \E c \in Clients \cup Deployers : Step(c) \/ Abort(c)
    \/ AtOnce \/ GitHub

\* The database answers, and every call to GitHub has a time limit: an open
\* request takes its next step.  Nobody has to make a request.
Fairness == \A c \in Clients \cup Deployers : WF_vars(Step(c))

Spec == Init /\ [][Next]_vars /\ Fairness

---------------------------------------------------------------------------
(* Properties. *)

\* No row outlives its parent: an app its project, a deployment its app, a build
\* its deployment, however a delete falls between the steps of a request that
\* creates one.
NoOrphans ==
    /\ \A a \in AppIds : Row(app[a]) => Row(project[app[a].project])
    /\ \A d \in Ids : Row(deployment[d]) => Row(app[deployment[d].app])
    /\ \A b \in Ids : Row(build[b]) => Row(deployment[b]) /\ deployment[b].app = build[b].app

\* Every row and every request is well formed, and every row has its parent: among
\* the rest that a production ref comes with a repository, that a pin names a
\* build id, and that a deployment is in one of the four statuses the deployer
\* gives it.
TypeOK ==
    /\ project \in [Projects -> ProjectRows \cup {NULL, DELETED}]
    /\ app \in [AppIds -> AppRows \cup {NULL, DELETED}]
    /\ \A a \in AppIds : Row(app[a]) /\ app[a].ref # NULL => app[a].repository # NULL
    /\ deployment \in [Ids -> DeploymentRows \cup {NULL, DELETED}]
    /\ build \in [Ids -> BuildRows \cup {NULL, DELETED}]
    /\ installation \in [Orgs -> Installs \cup {NULL}]
    /\ \A c \in Clients \cup Deployers :
        (req[c].at = "idle") <=> (req[c] = Idle)
    /\ NoOrphans

\* An app that has a build has one to run, and it is its own: active_build_id
\* has no foreign key, and stale rows are written over newer ones, but no order
\* of pins, renames, connections and deletes leaves an app pinned to a build
\* that ActiveForApp does not find.
AlwaysRunnable ==
    \A a \in AppIds :
        Row(app[a]) /\ (\E b \in Ids : Row(build[b]) /\ build[b].app = a)
            => ActiveForApp(a) # NULL

\* Every connection an app has is one GitHub resolved for its organization, the
\* repository together with the ref: stale writes may bring back an older
\* connection, never a mixture of two.
ConnectionsResolved ==
    \A a \in AppIds : Row(app[a]) /\ app[a].repository # NULL =>
        <<project[app[a].project].org, app[a].repository, app[a].ref>> \in seen.resolved

\* The source of a deployment, and of a build, was read through an installation
\* that the organization of its app has held: a delivery never reaches the apps
\* of another account, even when the installation or the repository changes
\* hands while it is handled.
OwnInstallation ==
    \A d \in Ids : Row(deployment[d]) =>
        LET o == project[app[deployment[d].app].project].org IN
        /\ <<o, deployment[d].via>> \in seen.held
        /\ Row(build[d]) => <<o, build[d].via>> \in seen.held

\* A deployment is of the commit that was asked for (the one pushed, the one
\* retried, the one the ref named), and its build is of that commit, however
\* often the branch moves meanwhile.
AskedCommit ==
    \A d \in Ids : Row(deployment[d]) =>
        /\ deployment[d].commit = deployment[d].asked
        /\ Row(build[d]) => build[d].source = deployment[d].asked

\* The files of a commit, each where it is below the directory GitHub adds.
FilesOfCommit == [k \in Commits |->
    {<<Tail(Tarball[k][i].name), Tarball[k][i].size>> :
        i \in {x \in DOMAIN Tarball[k] : Tarball[k][x].kind = "file"}}]

HasManifest == [k \in Commits |->
    \E f \in FilesOfCommit[k], i \in 1..5 : Len(f[1]) = 1 /\ f[1][1].text = markers[i][1]]

\* Two deployments of one commit that has a manifest build it for the same
\* runtime, whoever asked for them.  (A commit of loose scripts in several
\* languages has no such guarantee.)
ManifestDecides ==
    \A d, e \in Ids :
        /\ Row(deployment[d]) /\ Row(deployment[e]) /\ deployment[d].commit = deployment[e].commit
        /\ HasManifest[deployment[d].commit]
        => deployment[d].runtime = deployment[e].runtime

GivenFiles == [k \in Commits |->
    {<<f.name, f.size>> : f \in {x \in Unpacked[k].tree : x.kind = "file"}}]

\* The toolchain is given the files of the commit that was asked for, all of them and
\* nothing else, through repacking, inspection and extraction.
TreeComplete ==
    \A b \in Ids : Row(build[b]) =>
        GivenFiles[build[b].source] = FilesOfCommit[deployment[b].asked]

\* The archives lose nothing on the way: the ZIP of a commit that has a manifest has
\* one, and what is extracted of it are the files of the commit.  (A statement about
\* the commits, not about a state.)
ArchivesKeep ==
    \A k \in Commits :
        /\ HasManifest[k] => Manifests(ZIPNames(Zip[k])) # {}
        /\ Small[k] /\ ~Unpacked[k].err => GivenFiles[k] = FilesOfCommit[k]

\* A deploy, a push and a retry build what they were asked to, and a retry the
\* same as the original.
BuildsWhatWasAsked == AskedCommit /\ ManifestDecides /\ TreeComplete

\* A change of an app that was answered stays until another change of the same
\* thing, as long as no two changes of the app overlapped.
AnsweredChangesStay ==
    \A a \in AppIds : Row(app[a]) /\ acked[a] # NULL => app[a] = acked[a]

\* What an app's row says is what its callers were answered, and, when stale rows
\* were written over newer ones, still a connection that GitHub resolved.
ChangesHold == AnsweredChangesStay /\ ConnectionsResolved

\* A push tries only apps of the organization that follow the ref, and, when it
\* is not cut short, all of them, however the repository is spelled and whatever
\* becomes of the other apps.
PushReachesFollowers ==
    [][\A c \in Clients : req[c].op = "push" =>
        /\ req[c].at = "each" /\ req'[c].at = "source" => req'[c].app \in req[c].due
        /\ req'[c] = Idle /\ left'.events = left.events => req[c].due = {}]_vars

\* Every request ends: a push over several apps, some of which fail, too.
RequestsEnd == \A c \in Clients \cup Deployers : []<>(req[c] = Idle)

=============================================================================
