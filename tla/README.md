# Verification of the neurun control plane

TLA+ models of the parts of neurun that keep state under concurrency and
failure, TLC configurations that check them on small instances, and TLAPS
proofs of the results that should hold for every instance.

| file | what it is |
|------|------------|
| `ExecutionLifecycle.tla` | what an execution promises its caller (abstract) |
| `Executions.tla` | executions table, requests, workers, recovery, faults |
| `MCExecutions.tla`, `exec_*.cfg` | instances of `Executions` for TLC |
| `ExecutionsProofs.tla`, `ExecutionRunsProofs.tla` | theorems about `Executions`: who runs what; what a run leaves |
| `DeploymentLifecycle.tla` | what a deployment promises its follower (abstract) |
| `Deployments.tla` | deployments and builds tables, requests, deployers, recovery, faults |
| `MCDeployments.tla`, `deploy_*.cfg` | instances of `Deployments` for TLC |
| `DeploymentsProofs.tla` | theorems about `Deployments` |
| `ArtifactCache.tla` | the artifact store: bucket, read-through cache, local directory, materialize |
| `MCArtifactCache.tla`, `cache_*.cfg` | instances of `ArtifactCache` for TLC |
| `ArtifactCacheProofs.tla` | theorems about `ArtifactCache` |
| `Tenancy.tla`, `MCTenancy.tla`, `tenancy.cfg` | accounts, organizations, invitations, sign-in sessions, API keys |
| `TenancyProofs.tla` | theorems about `Tenancy` |
| `Browsers.tla`, `MCBrowsers.tla`, `browsers.cfg` | browser sessions, the driver, the supervisor, browser profiles |
| `BrowsersProofs.tla` | theorems about `Browsers` |
| `Apps.tla`, `MCApps.tla`, `apps.cfg` | projects, apps, GitHub installations, pushes, deploys, retries, fetches |
| `AppsProofs.tla` | theorems about `Apps` |
| `Extrema.tla` | a lemma on greatest elements (used by `AppsProofs`) |
| `Archives.tla` | repacking, runtime detection, inspection and extraction of archives (used by `Apps`) |
| `PROJECT.json` | components, runs, source map, findings, hazards, theorems |

## 1. The system

neurun is a control plane that turns commits into builds and runs builds as
executions. One Go binary (`cmd/neurun/main.go`, `serve`) holds everything; a
host may run several of them ("replicas") over one PostgreSQL, one Redis and one
object store.

| component | state | operations | talks to |
|-----------|-------|------------|----------|
| Execution service, repository, domain | `executions` rows: status, pinned build, rerun link, logs, output, failure, version | create, rerun, claim, save logs, finalize, recover | builds (resolve), worker |
| Worker | one run in memory: record, log buffer, flusher goroutine, token | poll, prepare, run handler, flush, finish | executions, artifact store, tokens, child process |
| Execution tokens | Redis entries with a TTL | mint, resolve, revoke | worker, browser gRPC |
| Deployment service, repository, domain | `deployments` rows: status, commit, started, logs, failure | create, save (an upsert), claim, recover, load | builds, deployer |
| Deployer | one build in memory: record shared with the log flusher | poll, fetch, run toolchain, flush, advance, store, seal, save | GitHub, artifact store, both tables |
| Builds | `builds` rows, written once | save, resolve the active one | apps, executions |
| Apps | `apps` rows: name, repository, production ref, pinned build | create, update, activate, connect, delete (cascades) | everything below an app |
| GitHub | installations; pushes and source archives | push, deploy, retry, fetch | apps, deployments |
| Artifact store and cache | objects; an LRU directory with a byte budget | put, open, delete, fill, evict, trim | deployer, worker |
| Browser sessions, driver, supervisor | leases in Redis; one child process and its connection | open, adopt, touch, heartbeat, close, start | handlers over gRPC, operators over HTTP |
| Organizations, invitations | memberships, roles, invitation tokens | invite, redeem, set role, remove | sessions |
| Accounts, keys, sign-in sessions | users, keys; sessions in Redis | sign in, resolve, prune | every request |
| Process | runtime context, four background loops, HTTP server | boot, recover, serve, stop | all of the above |

What is hard here:

* **Rows are the queue and the claim.** Several replicas poll the same tables
  with `FOR UPDATE SKIP LOCKED`; everything else a worker knows dies with it.
* **Recovery at boot** cannot tell a crashed owner from a live one.
* **Two writers of one row**: a flusher goroutine mirrors output onto the row
  that the main goroutine goes on to finish.
* **Two tables written one after the other** (the build, then the deployment
  that names it), read by validation that demands that they agree.
* **Calls whose outcome is unknown**: a commit that happened although the caller
  was told it failed; a statement executed after its client has gone.
* **Shutdown**: one context cancels polling, running handlers and, unless it is
  replaced in time, the write that records how they ended.
* **Any error of `ProcessOne` ends the process.**

Correctness, per component: an execution's handler runs at most once, its row is
always readable, its answer is final and comes from the pinned build, every
accepted execution ends; a toolchain runs at most once per deployment, stages
never go back, a visible build is complete, every accepted deployment ends; a
token does not outlive its run; an app runs a build that is ready; the cache
never serves other bytes than were stored and accounts for what it holds; a
closed browser session stays closed; an owner stays an owner; a session ends
when its account or membership does, and not before.

## 2. Executions

**State.** `exec` is the table (a row or `NULL` per id; ids are in `created_at`
order), `apps` the apps table, `pending` the requests between resolving a build
and inserting. Per replica: `phase` (down, booting, up, stopping), `pc` (where
`Worker.ProcessOne` is), `job`, `record`, `result`, the flusher's `flushing` and
`written`. Outside both: `late`, statements whose client has gone; `token`, the
Redis entry; `printed` and `ran`, what handlers really did.

**Actions**, in the code's order. `CreateResolve`, `RerunResolve`, `Insert`,
`Refuse` are `ExecutionService.Create` and `Rerun`; `DeleteApp` is
`AppRepository.Delete` with the schema's cascades. `Boot`, `Recover`,
`RecoverError`, `Stop`, `StopIdle`, `ExitProcess`, `Crash` are `serve` and
`Worker.Run`. `ClaimSelect` and `ClaimCommit` are the two halves of
`ClaimQueued`, split because its row lock is what another replica's
`SKIP LOCKED` observes. `PrepareFails`, `StartHandler`, `HandlerPrints`,
`FlushTake`, `FlushSave`, `HandlerReturns`, `CloseStream` are `Worker.execute`
and its `logStream`; `Finish`, `FinishInvalid`, `Finalize`, `FinalizeConflict`
the rest of `ProcessOne`. Every database call has an `...Error` action (it
failed, and nothing happened) and, where it commits a transaction, a `...Lost`
action (it failed, and it happened).

**Early clocks.** A worker reads its clock before the transaction of a claim, a boot
before that of its recovery. `later` holds the executions requested or claimed since
then (with "early" in `Faults`); such a row may be claimed in time all the same, as
clocks are read to the microsecond, or `Execution.Claim` and `Fail` refuse the
disordered times: `ClaimRefused` ends the process, `RecoverRefused` the boot. Both
are rolled back, so the row is as it was; `Poll` is the tick that reads the clock
again.

**Abstractions.** The input is left out, and of all times only that order is kept:
the clocks of the replicas are taken to agree (skew between them only makes the
window wider). The `version` column is left out: every write that compares it holds
the row's lock from the read on. Whether the columns of a row accept what a run has
left is a choice (`storable`, made in `HandlerReturns`): its logs may hold NUL or end
in half a character at their cap, its output be more than jsonb takes. `FlushRefused`
is logged, `FinalizeRefused` ends the process. Output is a number of units; `MaxLogBytes`,
`LogLimit` and `MarkerLen` are numbers of the same units, so that truncation and
its marker are exact. A handler's output is named by the build whose code
returned it, so that a wrong pin shows. Failure codes are collapsed to
"unprepared", "failed" and "worker_restarted". Redis is required by `serve`, so
tokens survive a crash; the TTL is twice the run timeout (`main.go:351`), so
none expires under its run.

**Properties** and the runs that check them:

* `exec_safety` (two replicas, two executions, two builds, one deletable app,
  one fault of any kind; about 0.6 million states): `NeverRerun`,
  `RowsReadable`, `FinalLogsWin`, `PinKept` (`Provenance`: the output is the
  pinned build's; `RerunRepeats`: a rerun pins the original's), `TokenSpent`,
  and `ImplementsLifecycle`, the refinement of `ExecutionLifecycle`. Two
  executions are what a rerun, and a claim that passes over a locked row, need;
  two builds show a wrong pin. Symmetry in builds and replicas is sound: no
  property tells them apart and all are safety properties.
  Early clocks, which leave the table as it was, are left to the next two runs.
* `exec_stops` (two replicas, one execution, the default limits, two crashes or
  stops, early clocks, a deletable app): `StopsForCause`, which says why a process
  that is up can stop: it was told to, the database failed, or one of the causes
  `FatalCause` names (a row requested after the clock of its claim, an outcome no
  row can carry, a row taken away by a recovery or with its app). Each of them
  occurs in the run. The rest of what requests, other workers, late flushes and
  boots do to the table must not reach `Run`. `LogsOnlyGrow` is checked there too;
  "dberror" is left out for it, as a worker that is told that a flush failed flushes
  on, and the failed one may still be applied.
* `exec_liveness` (two replicas, two faults, early clocks, a deletable app; about
  0.3 million states): `EverySettles`. Nothing is printed, but a row may refuse the
  outcome of any run, so the path through a process that stops itself and a boot
  that settles the run is part of it. Logs too long for their row take the same
  path one step earlier (`FinishInvalid`), in `exec_stops`.

## 3. Deployments

**State.** `dep`, `build` and `blobs` are the two tables and the artifact store;
the rest is as in `Executions`, with `produced` for the sealed build a deployer
holds.

**Actions.** `CreateResolve` is `Push` or `Deploy` up to
`DeploymentService.Create`, `RetryResolve` is `Retry`; both queue a row that
`Insert` writes through the same upsert (`Upsertable`, `Upsert`:
`saveDeployment`) as every later write. `StartToolchain` needs the app, through
which the source is fetched. `FlushTake` snapshots the record the deployer
itself holds; `CloseStream` waits for the flusher, which flushes once more when
it is closed. `AdvanceSave`, `StoreLayer`, `Seal`, `SaveBuild`, `Finish`,
`SaveFinal` are the rest of `build` and `ProcessOne`, each with its refused and
its failed form. `Recover` loads every running row through `Validate`, as
`RecoverBuilding` does; `RecoverRefused` is the boot that fails on one.

**Early clocks.** The deployer reads its clock before the claim's transaction
(deployer.go:140) and before the recovery's, and both write through
`saveDeployment`, which does not validate. What was requested or claimed since is in
`later`, and may be stored with `timely` false: started before it was created, or
finished before either. `Validate` refuses such a row in every read, `Saveable` in
every save. A claim that wrote one leaves a row that no later save, read or recovery
accepts; a recovery that wrote one leaves a failed row that cannot be read.

**Abstractions.** Of the times only that order is kept; the replicas' clocks are
taken to agree. Logs are counted in bursts; trimming to the tail is left out, but it
cuts at a byte and output may contain anything, so a text column may refuse the logs
(`storable`) until later output makes them whole again.
A `Save` holds the deployment's advisory lock from its first statement to its
commit, so, unlike `SaveLogs`, one whose client has gone is in the table or
never will be. Failure codes are "build_failed" and "build_interrupted".

**Properties and runs:**

* `deploy_safety` (two replicas, two deployments, two commits, two layers, one
  fault, early clocks): `NeverRebuilt`, `PublishedWhole` (`BuildsComplete`: every
  layer of a visible build is stored; `FinishedLogsComplete`: a finished row has all
  of its output), `ImplementsLifecycle`. Two layers are what a build sealed too
  early needs.
* `deploy_liveness` (two replicas, one fault, early clocks, no deletions):
  `SettlesUnlessStranded`: every deployment settles, unless one is left for ever
  with a build and not ready, or started before it was created. Both exceptions are
  real: `deploy_boot` shows the first, `deploy_early.cfg` (section 9) the second,
  which needs no fault at all. That a deployer does not wait for its flusher for
  ever is part of it.

## 4. The artifact store

**State.** `store` is what the bucket (or Local's directory) holds, `recorded`
the artifacts whose Put returned, which are the ones a build names; `disk`,
`staged` and `orphans` are the files of the cache, `entries` and `bytes` its
index, `flight` the singleflight group, `call` what each goroutine is doing.
A file is absent, part or whole; `entries` is in order of last use, which is all
the access clock is for.

**Actions.** One per call to the file system or the bucket and per section under
`Cache.mu`: `Put`, `CopyDone`, `Upload`, `Rename`, `PublishTouch`, `Trim`,
`EvictFile`, `EvictEntry`, `TrimEnds` are `Cache.Put`, `stage`, `publish`, `trim`
and `evict`; `Open`, `HitTouch`, `Join`, `FillStat`, `Fetch`, `Filled`, `Bypass`
are `Cache.Open`, `hit` and `fill`; `Link` and `LocalOpen` are `Local`;
`Materialize` is the worker's check; `Delete`, `PeerPut` (another process on the
same bucket) and `Restart` (crash, `NewCache`, `index`) the rest. The `...Fails`
actions are the failures that change something; a failed call that changes
nothing is left out. Keys are used for one Put, as `Deployer.store` allocates
them, so ErrExists and the head-then-put race do not occur.

**Properties and runs:**

* `cache_safety` (two goroutines, three artifacts of which one is as big as the
  budget, one failing call, one crash, one deletion, both backends; about a
  million states): `NothingTorn`, `NotFoundIsTrue`, `OneFillPerKey`,
  `Accounted` (`BytesMatchIndex` and `StagingSwept`). Two goroutines are what a shared flight and
  an eviction that meets a fill need.
* `cache_single` (one goroutine, two crashes, no failing call):
  `RestsInsideBudget`. With two goroutines it does not hold (section 9).
* `cache_liveness` (two goroutines, an artifact over the budget, one failing
  call): `CallsReturn`.

## 5. Tenancy

**State.** `user`, `org`, `member`, `invite` and `key` are the tables, `order`
the `created_at` order of a user's memberships, `session` the sign-in sessions in
the cache. `req` is what each open request knows and where it is; `had`, `joined`
and `held` are history that the properties refer to.

**Actions.** A request is authenticated first (`ReadSession`, `ByToken`,
`AuthenticateKey`: `middleware.go`, `SessionRepository.ByToken`) and acts
afterwards on the principal it was given, so every check of a scope may be stale.
`Login`, `LoginFirst`, `StartSession`, `Issue`, `Logout`, `Reissue` are
`SessionService` and `reissue`; `Register`, `UpdateUser`, `UpdateUserRow`,
`DeleteUser`, `CreateAPIKey`, `RevokeAPIKey` the account handlers;
`CreateOrganization`, `InsertOrganization`, `UpdateMember`, `ExpelMember`,
`CreateInvite`, `RevokeInvite`, `Accept`, `Redeem` those of organizations. What is
one transaction is one action; `Create` of an organization is two, because its
look-up takes no lock and the unique index decides. `Answer` ends a request that
only reads or is refused.

**Abstractions.** Passwords, digests, names and timestamps are left out: the
secret of a session, a key or an invitation is its identity. Reading scopes gate
nothing that changes state. An organization's name never matters, so its rename is
left out.

**Run** `tenancy` (two users, three organizations, one invitation, two sessions,
two keys, two requests at a time and five in all, one failing call or expiry).
Five requests are what inviting, registering, accepting, and acting on the result
take. `OwnersKept` (the owner of an organization is one of its members, owns no
other, and is demoted by nothing but an invitation the owner accepted),
`ActsAsGranted` (a request acts with the scopes of a role its account has held
since the request began; no chain of keys widens), `InviteSpentOnce`,
`SessionsEndForCause`. Symmetry is in clients, keys and the organizations that do
not exist yet, and all properties are safety properties.

## 6. Browsers

**State.** Per host: `service` (the supervisor's field: none, up, dead and not
noticed), `starting` (who holds its mutex), `children`. `browser` is what runs,
by the session id the service minted; `record` the sessions in the cache;
`profile` the table; `live` the executions whose token resolves; `call` the open
requests. A cookie jar is the set of the organizations whose logins it holds.

**Actions.** Both doors, gRPC for a handler (`browsergrpc/server.go`) and HTTP for
an operator (`api/browsersessions.go`, `api/browsercommands.go`), lead to the same
driver. `Open` is `persona`, `Spawn`, `Seed`, `Adopt` and, on failure, `abandon`;
`Driving` is `Touch` (read, then save) followed by `Relay`; `Close` is
`saveCookies`, `SaveCookies`, `WriteProfile`, `Stop`, `Forget`. `Client`,
`StartReady`, `StartFails`, `SupervisorClose` are the supervisor;
`createBrowserProfile` to `saveBrowserProfileState` the profile handlers. The
commands of the two doors (navigate, click, type, read, cookies...) differ only in
what they do to the page, so they share `Relay`, which may leave the jar, add the
caller's login or empty it. `Cancel`, `Revoke`, `Expire`, `ServiceDies` and
`PlaneDies` are the world.

The browser service is another program and is modelled from the calls the driver
makes. What the plane can no longer stop is marked `lost`, where the plane failed
to stop it or forgot it; `lost` appears in no guard.

**Run** `browsers` (two hosts, two organizations, one handler, an operator of its
own organization at the other host and one of the other organization at its own,
one session, one profile, three requests, one fault). Three requests are what
opening, driving and closing take. `TenantsApart`, `OpensWhole` (a running browser
is held by a record or by the Open that started it, is seeded before it is listed,
and a host has one service), `CloseNeverErases`, and, under fairness, `RecordsEnd`
and `CallsReturn`.

## 7. Apps

**State.** `project`, `app`, `deployment`, `build`, `installation` are the tables;
`readable`, `head`, `holds`, `delivery` what GitHub grants, has and has sent; `req`
the open requests, handled deliveries and fetches. History: `seen` (which
installations an organization held, which connections GitHub resolved), `acked`
(what was last answered about an app), and `via` and `asked` in a deployment.

**Actions.** `createProject`, `deleteProject`, `deleteApp`, `recordInstallation`,
`deleteInstallation` are one statement each. `updateProject`, `createApp`,
`updateApp`, `activateBuild`, `connectRepository`, `deployRef`, `retryDeployment`
begin with a read and end, some steps later, in `WriteProject`, `InsertApp`,
`WriteApp` or `CreateDeployment`; in between `FindInstallation`, `Resolve` and
`Source` are the calls they share. `gitHubWebhook` is a delivery: `ListConnected`,
then `NextApp`, `Source` or `SourceFails`, `CreateDeployment` for one app after the
other. `Fetch`, `Unpack` and `Publish` are the deployer's side. `Abort` is a request cut
short anywhere. `Pushed` and `Granted` are GitHub.

**Abstractions.** The queue itself, the toolchain and recovery are `Deployments`;
here a deployer takes the oldest queued row and either publishes or fails. A commit
is its content, `Tarball` the archive GitHub serves of it.
The spellings of a ref are one name, those of a repository are kept, because
`ConnectedTo` has to see through them.

**Archives.** What happens to a source between GitHub and the toolchain is a pure
computation in a directory nobody else uses, so it is operators: `repack` and
`strip` turn the tarball into a ZIP, `ZIPNames` and `DetectRuntime` read the runtime
off it when the deployment is made, and `ExtractZIP` (`inspectArchive`, then
`MkdirAll` and `CopyFile` for one entry after the other) extracts it when it is
built. A name is a sequence of components, of which only what the code asks is
kept. `MCApps` assumes, and TLC evaluates, `ExtractsWhole`: over every archive of
two entries of five names, with true and untrue sizes at and over the limit, and
every one of three empty entries, in every order, extraction accepts exactly what
inspection accepts and whose data is what its header says, gives exactly what is
meant, and otherwise leaves nothing. It also evaluates `ArchivesKeep` for the
commits of the run: the ZIP of a commit with a manifest has one, and what is
extracted of it are the commit's files.

**Run** `apps` (two organizations with apps on the same repository in two
spellings, one installation, two requests at a time, one deployer, three
deployments, two commits of which one has a manifest, two events; 0.33 million
states). `AlwaysRunnable`, `ChangesHold` (a change that was answered stays while no
two changes of the app overlap; when they do, the connection is still one GitHub
resolved), `OwnInstallation`, `BuildsWhatWasAsked` (the commit, the runtime its
manifest names, and all of its files), `PushReachesFollowers`, and, under fairness,
`RequestsEnd`. `TypeOK` includes that no row outlives its parent.

## 8. Faults, bounds, fairness

In `Executions` and `Deployments` faults are budgeted by `MaxFaults`: "crash" (the
process is killed), "stop" (SIGTERM, or another part of the process failed),
"dberror" (a call to the database or the cache fails). Consequences of a fault
(every later call of a stopping process may fail too) are free. `MaxExecutions`,
`MaxDeployments`, `MaxPrint`, `Layers` bound the rest; all are guards of actions.
"early" in `Faults` is not budgeted: it says that clocks may be read before what they
are compared with, as the code reads them. What a column refuses is free too.
In `ArtifactCache` `spent` counts what is left of `MaxCalls`, `MaxDeletes`,
`MaxFaults` and `MaxRestarts`. In `Tenancy`, `Browsers` and `Apps` `left` counts
what is left of `MaxRequests` or `MaxCalls`, `MaxDeployments` and `MaxEvents`; a call
that is bound to fail (a dead service, a caller that has gone) costs nothing.

Fairness is weak, per replica or per request, of the steps the code takes by
itself: the worker and deployer loops run on tickers; a handler and a toolchain
are killed at `RunTimeout` and `BuildTimeout`; the flusher runs on a ticker and is
closed; the process is restarted by systemd (`Restart=always`,
`deploy/bootstrap.sh`). The steps of a call to the cache are fair because file
system and bucket calls return, the steps of a request in `Apps` and `Browsers`
because the database, GitHub's client and the browser service's answer or time
out. The cache drops a record whose lease has run out (`Expire`), and whoever
watches a display stops at some time, which `pipeDisplay` makes fair; no other
property rests on it. Nothing is assumed of requests, output or faults. Runs are
checked without deadlock detection because the system really stops when all is
done: requests are optional and the bounds run out.

## 9. Where the code and its words disagree

`deploy_boot` is a run that TLC refutes, and `PROJECT.json` quotes its lines: a
crash between the build and the ready makes every later boot fail.

Four more have a configuration that shows them (`tlc -config <cfg> <module>`) and
are not among the runs:

* `exec_shutdown.cfg`, `ShutdownFinalizes`: a shutdown between the choice of the
  context (worker.go:193-196) and `Finalize` strands a finished run in running.
* `exec_truncation.cfg`, `KeptLogsFit`: with the default limits the truncation
  marker (python.go:177) does not fit the row, and the worker's process ends,
  although docs/execution.md:48-49 says that output is truncated.
* `deploy_early.cfg`, `EverySettles`: a deployment requested between the deployer's
  clock reading (deployer.go:140-141) and its claim is stored as started before it
  was created, because `ClaimQueued` saves without `Validate`
  (database/deployment.go:264-267). Every later `Save` refuses it, the process ends,
  and every boot fails on reading it (validate.go:50-53), although
  docs/deployment.md:50-51 says that the next start marks it failed. There is no
  fault in that run.
* `cache_digest.cfg`, `IntactAccepted`: neither a cache hit nor `S3.Open` reports a
  digest (s3.go:172-174), and `materialize` compares it (worker.go:314), so with
  the s3 backend every artifact is rejected.

Others were met while modelling and are behaviours of the modules, without a run
of their own.

Executions, deployments, artifacts:

* A replica that boots fails what a live one is running (`RecoverRunning` does
  not know whose rows they are), and the live one's process then ends. So does one
  whose app is deleted under a running execution (worker.go:203).
* So does one whose run leaves what its columns refuse (NUL or half a character in
  the logs, `\u0000` or too much in the output), and one that claims an execution
  requested after it read its clock (worker.go:179). A boot whose clock is older than
  a live peer's claim fails, and succeeds when it is tried again.
* Between `builds.Save` and the last `Save` every read of the deployment fails,
  and an app without a pin runs a build whose deployment is not ready.
* A restart fails deployments that were queued and never started, although
  docs/deployment.md says that nothing is lost to a restart.
* A recovery stores the deployments requested since it read its clock as finished
  before they were created: failed, and no longer readable.
* `evict` removes the file before it takes the lock. A fill that publishes the
  key in between is not counted, its entry is then dropped, and the cache rests
  over its budget (cache.go:296-307).
* A fill whose publish fails leaves its staged file until the next start
  (cache.go:220), although "The caller either publishes it under a key or
  removes it" (cache.go:225).

Tenancy:

* `SetMemberRole` locks the owner's role (organization.go:246-248), `Redeem`'s
  upsert does not (organization.go:437): an owner who accepts an invitation to the
  own organization takes the role it names. `OwnerDemotedByInviteOnly` says that
  nothing else does.
* `updateUser` writes the whole row it read (account.go:79): a change of an address
  that overlaps a disabling enables the account again.
* `ByToken` drops the session on any error of the account's read, a transient one
  included. `StartSession` does not look at `disabled`; the next request does.
* A pending invitation that has expired still blocks a new one to the same address.

Browsers:

* `abandon` runs with the caller's context (browserdriver.go:119, 138): when the
  caller has left, which is one of the failures it is there for, the browser stays
  although "every failure after the browser is up closes it again"
  (browserdriver.go:68-69).
* A Close through another replica than the one that opened the session removes the
  record and stops nothing.
* `Touch` reads and saves: it brings back the record of a session closed in between
  until its lease ends.
* The supervisor looks at `ProcessState`, which only `Wait` sets
  (supervisor.go:94-98): a service that has died is never replaced (compare
  supervisor.go:51).
* Profiles are read and written whole (service/browser.go:87-102): a rename that
  overlaps a close brings the old cookies back.

Apps:

* `AppRepository.Update` compares `created_at`, which never changes (app.go:197-231),
  so the guard that project.go:138-139 describes ("compare-and-set guard so a
  concurrent replacement cannot be silently overwritten") holds nothing back: of
  two overlapping changes of an app the second undoes the first.
* `DetectRuntime` iterates over a Go map (detect.go:45): two deployments of a commit
  of loose scripts in several languages may differ in their runtime, although a
  retry is meant to repeat (github.go:405-407). `ManifestDecides` is the part that
  holds.
* `repack` keeps names that `ExtractZIP` refuses (two that differ in case, `aux.py`,
  a trailing dot): a push of such a commit is queued, and fails whenever it is built.
* A delivery is answered before it is handled and is not remembered: a crash loses
  it, a redelivery builds it again.

## 10. Proofs

`ExecutionsProofs.tla` proves, for every number of replicas, executions, builds,
apps and faults and for all log limits, from `ConstantsAssumption`,
`NullAssumption` (NULL is none of the values it stands beside) and
`RowAssumption` (nor a row):

* `InvariantHolds`: `Spec => []IInv`;
* `TypeCorrect`, `HandlersRunOnce`, `TableReadable`: `TypeOK`, `NeverRerun`,
  `RowsReadable`;
* `TableImplementsLifecycle`: `Spec => ImplementsLifecycle`, the refinement.

`NeverRerun` is not inductive: a worker in "preparing" with a job that already
ran would start it again. `IInv` adds what excludes it. `FreshInv`: an id without
a row is known only to its request, so an insert cannot revive one. `HoldInv`:
a worker holds an execution exactly while `ProcessOne` is at it, no two hold the
same, only a claim in progress holds a queued one, and what is being finalized
is a valid terminal record. `RanInv`: nothing queued or being prepared has run.
`RowsReadable` is a part of it because recovery and finalization write rows
derived from stored ones. The proof has one lemma per action and, in each, one
step per conjunct the action disturbs. The refinement uses the same invariant:
each action is shown to be `Step(id)` of `ExecutionLifecycle` for every id.

`ArtifactCacheProofs.tla` proves, from `CacheAssumption`, for every set of keys
and goroutines, every budget and any number of faults and crashes:
`CacheInvariant` (`Spec => []IInv`), `NeverTorn`, `NotFoundHonest` and
`FillsCollapse`, that is `NothingTorn`, `NotFoundIsTrue` and `OneFillPerKey`. None
is inductive alone. A rename publishes what is staged, so `WholeInv` says that
what is about to be published is whole. A not found would become untrue when the
object arrives later, so `PuttingInv` says that an artifact still being put is not
recorded and has one writer, and that what is opened is recorded; `MissInv` says
the same of the error a flight hands to those who waited.

On top of it `CacheAccountKept` adds `AccountInv`, from which `CacheTyped`
(`TypeOK`) and `CacheAccountsForAll` (`Accounted`) follow. `IndexInv`: a key is
indexed once and `bytes` is the sum of the sizes; `StagedInv`: exactly the calls
between stage and publish own a staged file; `TodoInv`: an eviction has its
candidates once, and one at hand when it drops an entry; `SpentInv`: a fault was
spent for every file left behind. A sum over a set is a fold, about which nothing
can be proved here, so `SizeOf` counts bytes (pairs of a key and a number up to
its size): that adding a key adds its size is then a fact about the cardinality
of a disjoint union. `RestsWithinBudget` proves `RestsInsideBudget` under the
hypotheses of the run `cache_single`, one goroutine and no failing call; with more
it does not hold (section 9). Its invariant `Settled` says what the index and the
directory have to do with each other at each step of a call, and that a trim under
way has noted all that is indexed and by how much the budget is exceeded, so that
it can end only inside it.

`ExecutionRunsProofs.tla` extends `ExecutionsProofs` with what a run leaves:
`RunsInOrder` (`Spec => [](IInv /\ RunInv)`), and from it `LastLogsWin`,
`PinsKept` and `TokensSpent`, that is `FinalLogsWin`, `PinKept` and `TokenSpent`.
`RunInv` says of each row how its logs relate to what was printed in each status,
of each `SaveLogs` statement still on its way that it carries a prefix, and of
each worker what it is about to write; and that only a recovery can have finished
what a worker holds. `RunningLogsGrow` (`LogsOnlyGrow`) is an action property with a hypothesis, which the
run `exec_stops` satisfies too: no statement is answered with an error. It rests on
`GrowInv`: a late statement is the only one of its execution and belongs to a worker
that is gone or stopping. `StopsOnlyForCause` (`StopsForCause`) has none: it holds for
all limits, deletions, replicas and clocks. It rests on `OwnOf`: what a worker past its
claim holds is its row, of the same build and original, still running or failed by a
recovery, unless its app is gone. So a compare-and-set that fails was lost to a
recovery or a deletion (`ConflictCause`), and an outcome that does not validate is too
long (`FinishedFits`); no other action of `WorkerStep` stops a process that is up.

`DeploymentsProofs.tla` proves, from `ConstantsAssumption`, `NullAssumption` and
`RowAssumption` of `Deployments`: `DeploymentsInvariant`, `DeploymentsTyped`,
`BuiltAtMostOnce`, `PublicationWhole` and the refinement
`TablesImplementLifecycle`. The invariant has a part about each id (`IdInv`: what
the two tables, the store and the history say of it before and after its row is
inserted) and about each deployer: the row it claimed (`RowOf`: the one it
remembers, and finished by nobody but a recovery), its record (`RecordOf`) and the
snapshot its flusher is saving (`SnapshotOf`). `Save` being an upsert, what keeps
a deleted deployment from coming back is that a record whose app is there has its
row (`RecordOf`).

`TenancyProofs.tla` proves `TenancyInvariant`, `TenancyTyped`, `OwnersAlwaysKept`,
`NobodyOverreaches`, and the action properties `InvitesSpentOnce` and
`SessionsEndOnlyForCause`, from `TenancyAssumption` and `RowAssumption`. `Proper`
says what a request holds at each place it can be in although the rows it read
may have been written since; `AddressesKnown` relates sessions and invitations to
the addresses an account has had. The order of joining is a sequence: the lemmas
`AppendedOnce` and `WithoutOnce` say that it keeps every organization once, for
which `Without` is written as a function, not with `SelectSeq`.

`BrowsersProofs.tla` proves `BrowsersInvariant`, `BrowsersTyped`,
`TenantsKeptApart`, `OpenLeavesWhole` and the action property `ClosesNeverErase`,
from `BrowsersAssumption` and `RowAssumption`. None of the properties speaks of
what a request has in hand, and all depend on it: `Bound` says what a request
with a session id knows of the browser that has it (its organization; for an open
its host, its profile and the jar it was to load; for a close that is about to
forget the record that the browser is stopped or lost), `Carries` what it is about
to write. `Listed` and `Kept` relate a record to its browser, `HostOf` the
supervisor's processes to the mutex. `Moves` is what any step may do to a browser;
that a request's knowledge survives every `Moves` (`SoundKept`) is proved once and
used for every other request in every step.

`AppsProofs.tla` proves, from `AppsAssumption`, `RowAssumption` and
`FirstAssumption`: `AppsInvariant`, `AppsTyped`, `AppsRunnable`,
`AppsChangesHold`, `ReadThroughOwnInstallation`, `CommitAsAsked` and the action
property `PushesReachFollowers`. The properties are about tables that requests
write from rows they read several steps before, so the invariant is mostly about
requests: `Sound` says what an open request still knows of rows that others may
have written or deleted since. `Grows` is what any step may do to the tables (an
id is never used again; an app stays in its project; a build keeps its
deployment); that `Sound` survives every `Grows` (`SoundKept`) is proved once and
used for every other request in every step. `RoomInv` says that every app being
created finds an id. `AlwaysRunnable` also needs that the newest build exists:
`Extrema` has the lemma. `BuildsAsAsked` proves `BuildsWhatWasAsked` from a second
invariant, `Sourced`, and the hypothesis `ArchivesKeep`: which files and manifests
repacking and extraction keep is computed by folds and `SelectSeq`, so that TLC
evaluates it (`MCApps`) and the theorem carries it through requests, retries,
pushes and deletions.

Each inductive invariant was checked by TLC on the instance of its runs before it
was proved. All proofs are about every value of the constants; the bounds
(`MaxFaults`, `MaxCalls`, `MaxEvents`...) are any natural numbers.

Only model-checked: the liveness properties (`EverySettles`,
`SettlesUnlessStranded`, both `CallsReturn`, `RecordsEnd`, `RequestsEnd`), because
fairness is out of the prover's reach; and what archives are made of
(`ExtractsWhole`, `ArchivesKeep`), which folds compute (induction over data). Every
other property of a passing run is stated by a theorem, for three of them under the
hypotheses named above.

## 11. Not modelled, and the plan

Pure I/O (toolchains, runners, HTTP plumbing, DTOs, configuration), generated
protobuf code and cryptography stay out: they keep no state that two actors share.
`BrowserSessionService.Open` and `Heartbeat` and
`GitHubInstallationRepository.ByApp` have no callers. Which values jsonb and text refuse is a matter
of PostgreSQL: that they may refuse what a run or a build leaves is modelled.

Planned, in this order:

1. The connection pool and the lock order of `RecoverBuilding` and `Save`; clocks
   that differ between replicas or go back.
2. A composition of `Apps` with `Executions`: which build runs, through pins,
   deletions and pushes.
