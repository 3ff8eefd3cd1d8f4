------------------------------ MODULE Deployments ------------------------------
(***************************************************************************)
(* The deployment pipeline: the deployments and builds tables, the         *)
(* requests that queue commits, the processes ("replicas") that each run   *)
(* one deployer over the table, the toolchain output it mirrors onto the   *)
(* row while it runs, and the boot-time recovery.                          *)
(*                                                                         *)
(* A database call is one action, at the moment it commits; the claim,     *)
(* whose row lock others skip, is two.  Saves of one deployment exclude    *)
(* each other (the advisory lock), so a Save whose client has gone is      *)
(* either in the table or never will be.  Ids are naturals in created_at   *)
(* order; of the other times a row carries the model keeps whether they    *)
(* are in order, which a write with a clock read before its transaction    *)
(* may break.  The runtime is not modelled; logs are counted in bursts.    *)
(***************************************************************************)
EXTENDS Naturals, FiniteSets

CONSTANTS
    Apps,           \* apps that exist at the start
    Commits,        \* what can be deployed
    Replicas,       \* control-plane processes, one deployer each
    NULL,           \* absence of a value
    MaxDeployments, \* bound: how many deployments are ever requested
    MaxPrint,       \* bound: how many bursts of output a toolchain prints
    Layers,         \* how many layers a toolchain produces
    Deletable,      \* the apps somebody may delete
    Faults,         \* the fault kinds this instance exhibits, and "early" if
                    \* clocks may be read before what they are compared with
    MaxFaults       \* bound: how many faults happen

Ids == 1 .. MaxDeployments

ASSUME ConstantsAssumption ==
    /\ MaxDeployments \in Nat
    /\ MaxPrint \in Nat
    /\ Layers \in Nat \ {0}
    /\ MaxFaults \in Nat
    /\ Deletable \subseteq Apps
    /\ Faults \subseteq {"crash", "stop", "dberror", "early"}

ASSUME NullAssumption ==
    /\ NULL \notin Commits
    /\ NULL \notin Ids
    /\ NULL \notin {"ok", "build_failed", "build_interrupted"}

VARIABLES
    apps,       \* rows of the apps table
    dep,        \* the deployments table: a row or NULL
    build,      \* the builds table: what each deployment produced, or NULL
    blobs,      \* how many layers of each deployment's build are stored
    pending,    \* requests that have read their app, not yet inserted
    next,       \* the next deployment id
    phase,      \* each process: down, booting, up, stopping
    pc,         \* where each process's deployer is
    job,        \* the deployment id a deployer holds
    record,     \* the deployer's in-memory copy of the deployment
    result,     \* how the build ended: "ok" or a failure code
    produced,   \* the build the deployer has sealed
    flushing,   \* the snapshot the flusher has taken and is saving
    written,    \* whether there is output the flusher has not taken
    later,      \* what was requested or claimed since a clock was read
    printed,    \* what the toolchain of each deployment has printed
    runs,       \* history: how often a toolchain was started
    faults      \* how many faults have happened

tables  == <<apps, dep, build, blobs, pending, next>>
local   == <<job, record, result, produced, flushing, written, later>>
history == <<printed, runs>>
vars    == <<apps, dep, build, blobs, pending, next, phase, pc, job,
             record, result, produced, flushing, written, later, printed, runs,
             faults>>

-----------------------------------------------------------------------------
(* Rows *)

Running  == {"queued", "building", "publishing"}
Finished == {"ready", "failed"}
Failures == {"build_failed", "build_interrupted"}

Rows == [status   : Running \union Finished,
         app      : Apps,
         commit   : Commits,
         started  : BOOLEAN,
         timely   : BOOLEAN,    \* created, started and finished in this order
         logs     : 0 .. MaxPrint,
         storable : BOOLEAN,    \* whether a text column accepts the logs
         failure  : Failures \union {NULL}]

BuildRows == [app : Apps, commit : Commits, layers : 0 .. Layers]

ASSUME RowAssumption == NULL \notin Rows /\ NULL \notin BuildRows

New(a, c) ==
    [status |-> "queued", app |-> a, commit |-> c, started |-> FALSE,
     timely |-> TRUE, logs |-> 0, storable |-> TRUE, failure |-> NULL]

\* The only path through the running statuses; building starts the clock, once.
Advance(row) ==
    IF row.status = "queued"
    THEN [row EXCEPT !.status = "building", !.started = TRUE]
    ELSE [row EXCEPT !.status = "publishing"]

MarkReady(row) == [row EXCEPT !.status = "ready", !.failure = NULL]

Fail(row, code) == [row EXCEPT !.status = "failed", !.failure = code]

Exists(id) == dep[id] # NULL

StatusIn(id, S) == Exists(id) /\ dep[id].status \in S

\* loadDeployment joins a row with its build and validates the two together.
\* Every read of a deployment goes through it: the API's, the claim's and the
\* recovery's.
Validate(id) ==
    /\ dep[id].timely
    /\ dep[id].status \in Running => build[id] = NULL /\ dep[id].failure = NULL
    /\ dep[id].status = "queued" => ~dep[id].started
    /\ dep[id].status \in {"building", "publishing"} => dep[id].started
    /\ dep[id].status = "ready" => build[id] # NULL
    /\ dep[id].status = "failed" => dep[id].failure # NULL /\ build[id] = NULL

\* The conflict clause of saveDeployment's INSERT, and its foreign key.
Upsertable(row, id) ==
    /\ row.app \in apps
    /\ Exists(id) => dep[id].status \in Running \union {row.status}

\* Save validates the record first, its times included; the claim and the recovery
\* go to saveDeployment directly.
Saveable(row, id) == row.timely /\ row.storable /\ Upsertable(row, id)

Upsert(row, id) == [dep EXCEPT ![id] = row]

-----------------------------------------------------------------------------
Init ==
    /\ apps = Apps
    /\ dep = [id \in Ids |-> NULL]
    /\ build = [id \in Ids |-> NULL]
    /\ blobs = [id \in Ids |-> 0]
    /\ pending = {}
    /\ next = 1
    /\ phase = [p \in Replicas |-> "down"]
    /\ pc = [p \in Replicas |-> "off"]
    /\ job = [p \in Replicas |-> NULL]
    /\ record = [p \in Replicas |-> NULL]
    /\ result = [p \in Replicas |-> NULL]
    /\ produced = [p \in Replicas |-> NULL]
    /\ flushing = [p \in Replicas |-> NULL]
    /\ written = [p \in Replicas |-> FALSE]
    /\ later = [p \in Replicas |-> {}]
    /\ printed = [id \in Ids |-> 0]
    /\ runs = [id \in Ids |-> 0]
    /\ faults = 0

Fault(kind) ==
    /\ kind \in Faults
    /\ faults < MaxFaults
    /\ faults' = faults + 1

\* A call on the deployer's own context fails: because the process is stopping,
\* or because the database did.
Interrupted(p) ==
    \/ phase[p] = "stopping" /\ UNCHANGED faults
    \/ Fault("dberror")

-----------------------------------------------------------------------------
(* Requests *)

\* The API is served from the end of the boot until the process has drained.
Serving == \E p \in Replicas : phase[p] \in {"up", "stopping"}

\* Processes that have read their clock for a recovery, or for the next claim.
Booting == {p \in Replicas : phase[p] = "booting"}
Polling == {p \in Replicas : phase[p] = "up" /\ pc[p] = "idle"}

\* What happens to a deployment now is later than the clocks these have read.
Overtake(S, id) ==
    [p \in Replicas |-> IF p \in S /\ "early" \in Faults
                        THEN later[p] \union {id} ELSE later[p]]

\* The request is stamped with its created_at.
Queue(a, c) ==
    /\ next \in Ids
    /\ pending' = pending \union {[id |-> next, row |-> New(a, c)]}
    /\ next' = next + 1
    /\ later' = Overtake(Booting \union Polling, next)
    /\ UNCHANGED <<apps, dep, build, blobs, phase, pc, job, record, result,
                   produced, flushing, written, history, faults>>

\* Push or Deploy, and DeploymentService.Create up to the insert.
CreateResolve(a, c) ==
    /\ Serving
    /\ a \in apps
    /\ Queue(a, c)

\* GitHubService.Retry: the commit of the original, whatever its status.
RetryResolve(original) ==
    /\ Serving
    /\ Exists(original) /\ Validate(original)
    /\ Queue(dep[original].app, dep[original].commit)

Insert(req) ==
    /\ Serving
    /\ req \in pending
    /\ Saveable(req.row, req.id)
    /\ dep' = Upsert(req.row, req.id)
    /\ pending' = pending \ {req}
    /\ UNCHANGED <<apps, build, blobs, next, phase, pc, local, history,
                   faults>>

\* The app is gone, the client hung up, or its process went away.
Refuse(req) ==
    /\ req \in pending
    /\ pending' = pending \ {req}
    /\ UNCHANGED <<apps, dep, build, blobs, next, phase, pc, local,
                   history, faults>>

\* The row lock a claim in progress holds (FOR UPDATE OF d).
Locked(id) == \E p \in Replicas : pc[p] = "claiming" /\ job[p] = id

\* Deleting an app takes its deployments and their builds with it.
DeleteApp(a) ==
    /\ Serving
    /\ a \in apps \intersect Deletable
    /\ \A id \in Ids : Exists(id) /\ dep[id].app = a => ~Locked(id)
    /\ apps' = apps \ {a}
    /\ dep' = [id \in Ids |->
                 IF Exists(id) /\ dep[id].app = a THEN NULL ELSE dep[id]]
    /\ build' = [id \in Ids |->
                   IF Exists(id) /\ dep[id].app = a THEN NULL ELSE build[id]]
    /\ UNCHANGED <<blobs, pending, next, phase, pc, local, history,
                   faults>>

-----------------------------------------------------------------------------
(* Processes *)

\* The recovery reads its clock before its transaction.
Boot(p) ==
    /\ phase[p] = "down"
    /\ phase' = [phase EXCEPT ![p] = "booting"]
    /\ UNCHANGED <<tables, pc, local, history, faults>>

\* RecoverBuilding loads every running row, queued ones too, once no claim
\* holds one of them.
Recoverable ==
    /\ \A id \in Ids : ~Locked(id)
    /\ \A id \in Ids : StatusIn(id, Running) => Validate(id)

\* Variants: an interrupted deployment is queued again, or left as it is.
FailInterruptedRequeued(row) ==
    [row EXCEPT !.status = "queued", !.started = FALSE]

FailInterruptedNot(row) == row

FailInterrupted(row) == Fail(row, "build_interrupted")

\* A row created or claimed since the clock was read may be finished before that:
\* it is saved all the same.
Recover(p) ==
    /\ phase[p] = "booting"
    /\ Recoverable
    /\ \E early \in SUBSET later[p] :
          dep' = [id \in Ids |->
                    IF StatusIn(id, Running)
                    THEN [FailInterrupted(dep[id]) EXCEPT
                             !.timely = id \notin early]
                    ELSE dep[id]]
    /\ phase' = [phase EXCEPT ![p] = "up"]
    /\ pc' = [pc EXCEPT ![p] = "idle"]
    /\ later' = [later EXCEPT ![p] = {}]
    /\ UNCHANGED <<apps, build, blobs, pending, next, job, record, result,
                   produced, flushing, written, history, faults>>

\* A running row that does not validate fails the recovery, and with it the boot.
RecoverRefused(p) ==
    /\ phase[p] = "booting"
    /\ \E id \in Ids : StatusIn(id, Running) /\ ~Validate(id)
    /\ phase' = [phase EXCEPT ![p] = "down"]
    /\ later' = [later EXCEPT ![p] = {}]
    /\ UNCHANGED <<tables, pc, job, record, result, produced, flushing,
                   written, history, faults>>

RecoverError(p) ==
    /\ phase[p] = "booting"
    /\ Fault("dberror")
    /\ phase' = [phase EXCEPT ![p] = "down"]
    /\ later' = [later EXCEPT ![p] = {}]
    /\ UNCHANGED <<tables, pc, job, record, result, produced, flushing,
                   written, history>>

\* SIGTERM, or a fatal error of another part of the process.
Stop(p) ==
    /\ phase[p] = "up"
    /\ Fault("stop")
    /\ phase' = [phase EXCEPT ![p] = "stopping"]
    /\ UNCHANGED <<tables, pc, local, history>>

\* Run returns an error: the process stops with it.
ExitDeployer(p) ==
    /\ pc' = [pc EXCEPT ![p] = "exited"]
    /\ phase' = [phase EXCEPT ![p] = "stopping"]

ForgetJob(p) ==
    /\ job' = [job EXCEPT ![p] = NULL]
    /\ record' = [record EXCEPT ![p] = NULL]
    /\ result' = [result EXCEPT ![p] = NULL]
    /\ produced' = [produced EXCEPT ![p] = NULL]
    /\ flushing' = [flushing EXCEPT ![p] = NULL]
    /\ written' = [written EXCEPT ![p] = FALSE]

Forget(p) == ForgetJob(p) /\ later' = [later EXCEPT ![p] = {}]

StopIdle(p) ==
    /\ pc[p] = "idle" /\ phase[p] = "stopping"
    /\ ExitDeployer(p)
    /\ Forget(p)
    /\ UNCHANGED <<tables, history, faults>>

ExitProcess(p) ==
    /\ phase[p] = "stopping" /\ pc[p] = "exited"
    /\ phase' = [phase EXCEPT ![p] = "down"]
    /\ pc' = [pc EXCEPT ![p] = "off"]
    /\ UNCHANGED <<tables, local, history, faults>>

Crash(p) ==
    /\ phase[p] # "down"
    /\ Fault("crash")
    /\ phase' = [phase EXCEPT ![p] = "down"]
    /\ pc' = [pc EXCEPT ![p] = "off"]
    /\ Forget(p)
    /\ UNCHANGED <<tables, history>>

-----------------------------------------------------------------------------
(* The deployer: ClaimQueued *)

\* The next tick: an idle deployer reads its clock again, and then asks for a row.
Poll(p) ==
    /\ pc[p] = "idle" /\ phase[p] = "up"
    /\ later' = [later EXCEPT ![p] = {}]
    /\ UNCHANGED <<tables, phase, pc, job, record, result, produced, flushing,
                   written, history, faults>>

Claimable(id) == StatusIn(id, {"queued"}) /\ ~Locked(id)

ClaimSelect(p) ==
    /\ pc[p] = "idle" /\ phase[p] = "up"
    /\ \E id \in Ids :
          /\ Claimable(id)
          /\ \A other \in Ids : Claimable(other) => id <= other
          /\ job' = [job EXCEPT ![p] = id]
    /\ pc' = [pc EXCEPT ![p] = "claiming"]
    /\ UNCHANGED <<tables, phase, record, result, produced, flushing,
                   written, later, history, faults>>

\* The row as it is claimed: started before it was created, if it was requested
\* after the clock was read.
Claimed(p, timely) == [Advance(dep[job[p]]) EXCEPT !.timely = timely]

InTime(p) == {TRUE} \union {job[p] \notin later[p]}

ClaimCommit(p) ==
    /\ pc[p] = "claiming"
    /\ Validate(job[p])
    /\ \E timely \in InTime(p) :
          /\ dep' = Upsert(Claimed(p, timely), job[p])
          /\ record' = [record EXCEPT ![p] = Claimed(p, timely)]
    /\ pc' = [pc EXCEPT ![p] = "fetching"]
    /\ later' = [Overtake(Booting, job[p]) EXCEPT ![p] = {}]
    /\ UNCHANGED <<apps, build, blobs, pending, next, phase, job,
                   result, produced, flushing, written, history, faults>>

\* The claim fails, before or after it has found a row, and is rolled back.
ClaimError(p) ==
    /\ pc[p] \in {"idle", "claiming"}
    /\ Interrupted(p)
    /\ ExitDeployer(p)
    /\ Forget(p)
    /\ UNCHANGED <<tables, history>>

\* The claim commits and the deployer is told it failed.
ClaimLost(p) ==
    /\ pc[p] = "claiming"
    /\ Interrupted(p)
    /\ \E timely \in InTime(p) : dep' = Upsert(Claimed(p, timely), job[p])
    /\ ExitDeployer(p)
    /\ ForgetJob(p)
    /\ later' = [Overtake(Booting, job[p]) EXCEPT ![p] = {}]
    /\ UNCHANGED <<apps, build, blobs, pending, next, history>>

-----------------------------------------------------------------------------
(* The deployer: build *)

EndBuild(p, outcome) ==
    /\ result' = [result EXCEPT ![p] = outcome]
    /\ pc' = [pc EXCEPT ![p] = "finishing"]

\* No work directory, no toolchain, no source, or a cancelled context.
PrepareFails(p) ==
    /\ pc[p] = "fetching"
    /\ EndBuild(p, "build_failed")
    /\ UNCHANGED <<tables, phase, job, record, produced, flushing,
                   written, later, history, faults>>

\* The source is fetched through the app, which must still be there.
StartToolchain(p) ==
    /\ pc[p] = "fetching" /\ phase[p] = "up"
    /\ record[p].app \in apps
    /\ runs' = [runs EXCEPT ![job[p]] = @ + 1]
    /\ pc' = [pc EXCEPT ![p] = "building"]
    /\ UNCHANGED <<tables, phase, local, printed, faults>>

\* logStream.Write: output goes onto the record the deployer itself holds.  A
\* text column refuses NUL and half a character; at its cap a log loses its head,
\* and may lose, or gain, what is refused.
ToolchainPrints(p) ==
    /\ pc[p] = "building"
    /\ printed[job[p]] < MaxPrint
    /\ printed' = [printed EXCEPT ![job[p]] = @ + 1]
    /\ \E ok \in BOOLEAN :
          record' = [record EXCEPT ![p].logs = @ + 1, ![p].storable = ok]
    /\ written' = [written EXCEPT ![p] = TRUE]
    /\ UNCHANGED <<tables, phase, pc, job, result, produced, flushing,
                   later, runs, faults>>

\* logStream.flush, on the ticker or from Close, up to the Save of the snapshot;
\* with the context cancelled the Save is never sent.
FlushTake(p) ==
    /\ pc[p] \in {"building", "closing"} /\ flushing[p] = NULL /\ written[p]
    /\ written' = [written EXCEPT ![p] = FALSE]
    /\ flushing' = IF phase[p] = "up" THEN [flushing EXCEPT ![p] = record[p]]
                   ELSE flushing
    /\ UNCHANGED <<tables, phase, pc, job, record, result, produced,
                   later, history, faults>>

\* The snapshot is saved, or refused, by Validate, by the text column or because
\* the row has moved on, which is only logged.
FlushSave(p) ==
    /\ flushing[p] # NULL
    /\ dep' = IF Saveable(flushing[p], job[p])
              THEN Upsert(flushing[p], job[p]) ELSE dep
    /\ flushing' = [flushing EXCEPT ![p] = NULL]
    /\ UNCHANGED <<apps, build, blobs, pending, next, phase, pc, job,
                   record, result, produced, written, later, history, faults>>

FlushError(p) ==
    /\ flushing[p] # NULL
    /\ Interrupted(p)
    /\ flushing' = [flushing EXCEPT ![p] = NULL]
    /\ UNCHANGED <<tables, phase, pc, job, record, result, produced,
                   written, later, history>>

\* The toolchain ends, is killed at its timeout or by the shutdown.
ToolchainReturns(p) ==
    /\ pc[p] = "building"
    /\ \E r \in {"ok", "build_failed"} : result' = [result EXCEPT ![p] = r]
    /\ pc' = [pc EXCEPT ![p] = "closing"]
    /\ UNCHANGED <<tables, phase, job, record, produced, flushing,
                   written, later, history, faults>>

\* Variant: the flusher is told to stop and not waited for.
StreamClosedAsync(p) == TRUE

\* logStream.Close has returned: the last flush is over.
StreamClosed(p) == flushing[p] = NULL /\ ~written[p]

CloseStream(p) ==
    /\ pc[p] = "closing"
    /\ StreamClosed(p)
    /\ pc' = [pc EXCEPT ![p] = IF result[p] = "ok" THEN "advancing"
                               ELSE "finishing"]
    /\ UNCHANGED <<tables, phase, local, history, faults>>

\* advance: the record moves on first, then it is saved.
AdvanceSave(p) ==
    /\ pc[p] = "advancing"
    /\ record' = [record EXCEPT ![p] = Advance(@)]
    /\ Saveable(Advance(record[p]), job[p])
    /\ dep' = Upsert(Advance(record[p]), job[p])
    /\ pc' = [pc EXCEPT ![p] = "storing"]
    /\ UNCHANGED <<apps, build, blobs, pending, next, phase, job,
                   result, produced, flushing, written, later, history, faults>>

\* The Save is refused: by Validate or the text column, or because the row was
\* failed by a recovery, or is gone.
AdvanceRefused(p) ==
    /\ pc[p] = "advancing"
    /\ ~Saveable(Advance(record[p]), job[p])
    /\ record' = [record EXCEPT ![p] = Advance(@)]
    /\ EndBuild(p, "build_failed")
    /\ UNCHANGED <<tables, phase, job, produced, flushing, written,
                   later, history, faults>>

\* The Save fails, having committed or not.
AdvanceError(p) ==
    /\ pc[p] = "advancing"
    /\ Interrupted(p)
    /\ record' = [record EXCEPT ![p] = Advance(@)]
    /\ \/ UNCHANGED dep
       \/ /\ Saveable(Advance(record[p]), job[p])
          /\ dep' = Upsert(Advance(record[p]), job[p])
    /\ EndBuild(p, "build_failed")
    /\ UNCHANGED <<apps, build, blobs, pending, next, phase, job,
                   produced, flushing, written, later, history>>

\* One layer after the other goes to the artifact store.
StoreLayer(p) ==
    /\ pc[p] = "storing" /\ phase[p] = "up"
    /\ blobs[job[p]] < Layers
    /\ blobs' = [blobs EXCEPT ![job[p]] = @ + 1]
    /\ UNCHANGED <<apps, dep, build, pending, next, phase, pc, local,
                   history, faults>>

\* The store is down, the limit is exceeded or the context cancelled; layers
\* already stored stay there.
StoreFails(p) ==
    /\ pc[p] = "storing"
    /\ EndBuild(p, "build_failed")
    /\ UNCHANGED <<tables, phase, job, record, produced, flushing,
                   written, later, history, faults>>

\* Variant: the build is sealed with the layers stored so far.
AllStoredNot(p) == TRUE

AllStored(p) == blobs[job[p]] = Layers

\* build.New, before the build is saved.
Seal(p) ==
    /\ pc[p] = "storing" /\ AllStored(p)
    /\ produced' = [produced EXCEPT
          ![p] = [app |-> record[p].app, commit |-> record[p].commit,
                  layers |-> Layers]]
    /\ pc' = [pc EXCEPT ![p] = "sealed"]
    /\ UNCHANGED <<tables, phase, job, record, result, flushing, written,
                   later, history, faults>>

\* The foreign keys and the unique deployment_id of the builds table.
BuildInsertable(p) ==
    /\ produced[p].app \in apps /\ Exists(job[p])
    /\ build[job[p]] = NULL

SaveBuild(p) ==
    /\ pc[p] = "sealed"
    /\ BuildInsertable(p)
    /\ build' = [build EXCEPT ![job[p]] = produced[p]]
    /\ EndBuild(p, "ok")
    /\ UNCHANGED <<apps, dep, blobs, pending, next, phase, job, record,
                   produced, flushing, written, later, history, faults>>

SaveBuildRefused(p) ==
    /\ pc[p] = "sealed"
    /\ ~BuildInsertable(p)
    /\ EndBuild(p, "build_failed")
    /\ UNCHANGED <<tables, phase, job, record, produced, flushing,
                   written, later, history, faults>>

\* The insert fails, having committed or not.
SaveBuildError(p) ==
    /\ pc[p] = "sealed"
    /\ Interrupted(p)
    /\ \/ UNCHANGED build
       \/ /\ BuildInsertable(p)
          /\ build' = [build EXCEPT ![job[p]] = produced[p]]
    /\ EndBuild(p, "build_failed")
    /\ UNCHANGED <<apps, dep, blobs, pending, next, phase, job, record,
                   produced, flushing, written, later, history>>

-----------------------------------------------------------------------------
(* The deployer: the rest of ProcessOne *)

\* Variant: the test for a failure is the wrong way round.
OutcomeSwapped(p) ==
    IF result[p] # "ok" THEN MarkReady(record[p]) ELSE Fail(record[p], result[p])

Outcome(p) ==
    IF result[p] = "ok" THEN MarkReady(record[p]) ELSE Fail(record[p], result[p])

\* The context of the last Save is chosen here, once.
Finish(p) ==
    /\ pc[p] = "finishing"
    /\ record' = [record EXCEPT ![p] = Outcome(p)]
    /\ pc' = [pc EXCEPT ![p] = IF phase[p] = "stopping"
                               THEN "saving_detached" ELSE "saving"]
    /\ UNCHANGED <<tables, phase, job, result, produced, flushing,
                   written, later, history, faults>>

Saving(p) == pc[p] \in {"saving", "saving_detached"}

SaveFinal(p) ==
    /\ Saving(p)
    /\ Saveable(record[p], job[p])
    /\ dep' = Upsert(record[p], job[p])
    /\ pc' = [pc EXCEPT ![p] = "idle"]
    /\ Forget(p)
    /\ UNCHANGED <<apps, build, blobs, pending, next, phase, history,
                   faults>>

\* The last Save is refused, likewise or because the row has another outcome: the
\* deployer ends on the error.
SaveConflict(p) ==
    /\ Saving(p)
    /\ ~Saveable(record[p], job[p])
    /\ ExitDeployer(p)
    /\ Forget(p)
    /\ UNCHANGED <<tables, history, faults>>

\* The last Save fails, having committed or not.
SaveError(p) ==
    /\ \/ pc[p] = "saving" /\ Interrupted(p)
       \/ pc[p] = "saving_detached" /\ Fault("dberror")
    /\ \/ UNCHANGED dep
       \/ Saveable(record[p], job[p]) /\ dep' = Upsert(record[p], job[p])
    /\ ExitDeployer(p)
    /\ Forget(p)
    /\ UNCHANGED <<apps, build, blobs, pending, next, history>>

-----------------------------------------------------------------------------
DeployerStep(p) ==
    \/ StopIdle(p) \/ Poll(p) \/ ClaimSelect(p) \/ ClaimCommit(p)
    \/ PrepareFails(p) \/ StartToolchain(p)
    \/ FlushTake(p) \/ FlushSave(p) \/ ToolchainReturns(p) \/ CloseStream(p)
    \/ AdvanceSave(p) \/ AdvanceRefused(p)
    \/ StoreLayer(p) \/ StoreFails(p) \/ Seal(p)
    \/ SaveBuild(p) \/ SaveBuildRefused(p)
    \/ Finish(p) \/ SaveFinal(p) \/ SaveConflict(p)
    \/ ExitProcess(p) \/ Boot(p) \/ Recover(p) \/ RecoverRefused(p)

FaultStep(p) ==
    \/ Stop(p) \/ Crash(p) \/ RecoverError(p)
    \/ ClaimError(p) \/ ClaimLost(p)
    \/ FlushError(p) \/ AdvanceError(p) \/ SaveBuildError(p) \/ SaveError(p)

Next ==
    \/ \E a \in Apps, c \in Commits : CreateResolve(a, c)
    \/ \E id \in Ids : RetryResolve(id)
    \/ \E req \in pending : Insert(req) \/ Refuse(req)
    \/ \E a \in Apps : DeleteApp(a)
    \/ \E p \in Replicas : DeployerStep(p) \/ FaultStep(p) \/ ToolchainPrints(p)

Spec == Init /\ [][Next]_vars

\* The deployer loop, the build timeout and systemd's Restart=always each take
\* their next step eventually; nothing is assumed of faults, requests or output.
Fairness == \A p \in Replicas : WF_vars(DeployerStep(p))

FairSpec == Spec /\ Fairness

-----------------------------------------------------------------------------
(* Properties *)

Phases == {"down", "booting", "up", "stopping"}

DeployerStates == {"off", "idle", "claiming", "fetching", "building", "closing",
                   "advancing", "storing", "sealed", "finishing", "saving",
                   "saving_detached", "exited"}

\* Every variable has its type.
TypeOK ==
    /\ apps \subseteq Apps
    /\ dep \in [Ids -> Rows \union {NULL}]
    /\ build \in [Ids -> BuildRows \union {NULL}]
    /\ blobs \in [Ids -> 0 .. Layers]
    /\ pending \subseteq [id : Ids, row : Rows]
    /\ next \in 1 .. (MaxDeployments + 1)
    /\ phase \in [Replicas -> Phases]
    /\ pc \in [Replicas -> DeployerStates]
    /\ job \in [Replicas -> Ids \union {NULL}]
    /\ record \in [Replicas -> Rows \union {NULL}]
    /\ result \in [Replicas -> {"ok", "build_failed", NULL}]
    /\ produced \in [Replicas -> BuildRows \union {NULL}]
    /\ flushing \in [Replicas -> Rows \union {NULL}]
    /\ written \in [Replicas -> BOOLEAN]
    /\ later \in [Replicas -> SUBSET Ids]
    /\ printed \in [Ids -> 0 .. MaxPrint]
    /\ runs \in [Ids -> Nat]
    /\ faults \in 0 .. MaxFaults

\* A toolchain is started at most once for a deployment, and never for one that
\* is still queued: claims exclude each other, recovery does not requeue ("It is
\* never retried automatically", docs/deployment.md) and a lost claim is not
\* taken up again.
NeverRebuilt ==
    \A id \in Ids :
        /\ runs[id] <= 1
        /\ StatusIn(id, {"queued"}) => runs[id] = 0

\* Every build anybody can run has all its layers in the artifact store, and the
\* toolchain of its deployment really ran, for the commit the deployment names:
\* however a process stopped between storing, sealing and saving.
BuildsComplete ==
    \A id \in Ids : build[id] # NULL =>
        /\ blobs[id] = build[id].layers /\ blobs[id] = Layers
        /\ runs[id] = 1
        /\ Exists(id) /\ build[id].commit = dep[id].commit

\* A deployment its deployer finished carries everything the toolchain printed,
\* whatever flushes failed or came to nothing on the way; one that recovery
\* finished carries a prefix of it.
FinishedLogsComplete ==
    \A id \in Ids : StatusIn(id, Finished) =>
        IF dep[id].failure = "build_interrupted"
        THEN dep[id].logs <= printed[id]
        ELSE dep[id].logs = printed[id]

\* What a reader finds of a build, its artifacts and its logs, is whole as soon as
\* the row says that it is there.
PublishedWhole == BuildsComplete /\ FinishedLogsComplete

-----------------------------------------------------------------------------
Unborn(id) == id >= next \/ \E req \in pending : req.id = id

StageOf(id) ==
    IF Exists(id) THEN dep[id].status
    ELSE IF Unborn(id) THEN "new" ELSE "gone"

Lifecycle == INSTANCE DeploymentLifecycle WITH
    stage    <- [id \in Ids |-> StageOf(id)],
    commit   <- [id \in Ids |-> IF Exists(id) THEN dep[id].commit ELSE NULL],
    runnable <- [id \in Ids |-> IF build[id] # NULL THEN build[id].commit
                                ELSE NULL]

\* Every behaviour of the two tables, the deployers and the requests is one of
\* the abstract lifecycle: no flush, late save or recovery moves a deployment
\* back a stage or out of a finished one, although Save is an upsert whose guard
\* lets publishing become building again.
ImplementsLifecycle == Lifecycle!Spec

\* Every deployment that was queued or running is finished eventually, or its
\* app is deleted.
EverySettles ==
    \A id \in Ids :
        StatusIn(id, Running) ~> (~Exists(id) \/ StatusIn(id, Finished))

\* A deployment that nobody works on any more, and that no recovery can read: it
\* has a build and is not ready, or it was started before it was created.
Stranded ==
    \E id \in Ids :
        /\ StatusIn(id, Running)
        /\ build[id] # NULL \/ ~dep[id].timely
        /\ \A p \in Replicas : job[p] # id

\* Under every fault, and however early clocks are read, two things alone can keep
\* deployments from finishing: one that is stranded between its build and its
\* ready, and one whose claim was stamped with a time before its request.  No
\* other crash, failed or refused save or lost claim is beyond recovery, and no
\* deployer waits for its flusher forever.
SettlesUnlessStranded == EverySettles \/ <>[]Stranded

=============================================================================
