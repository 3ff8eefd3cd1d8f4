------------------------------ MODULE Executions ------------------------------
(***************************************************************************)
(* The execution pipeline of the control plane: the executions table, the  *)
(* API requests that queue rows, the processes ("replicas") that each run  *)
(* one worker over the table, and the boot-time recovery.  A row is the    *)
(* queue and the claim; everything a worker knows about a run besides the  *)
(* row dies with its process.                                              *)
(*                                                                         *)
(* Every database call is one action, at the moment it commits.  The one   *)
(* transaction whose locks another actor can observe, the claim with its   *)
(* FOR UPDATE SKIP LOCKED, is two actions.  Ids are naturals in created_at *)
(* order; of the other times the model keeps which rows are later than a   *)
(* clock that was read before its transaction.  Input and the row's        *)
(* version column are not modelled (see the README); amounts of handler    *)
(* output are small numbers.                                               *)
(***************************************************************************)
EXTENDS Naturals, FiniteSets

CONSTANTS
    Apps,           \* apps that exist at the start
    Builds,         \* their builds
    AppOf,          \* the app that owns each build
    Replicas,       \* control-plane processes, one worker each
    NULL,           \* absence of a value
    MaxExecutions,  \* bound: how many executions are ever requested
    MaxPrint,       \* bound: how much one handler prints
    MaxLogBytes,    \* execution.MaxLogBytes: what a row may carry
    LogLimit,       \* worker option MaxLogBytes: the head that is kept
    MarkerLen,      \* length of the "[logs truncated]" marker
    Deletable,      \* the apps somebody may delete
    Faults,         \* the fault kinds this instance exhibits, and "early" if
                    \* clocks may be read before what they are compared with
    MaxFaults       \* bound: how many faults happen

Ids == 1 .. MaxExecutions

ASSUME ConstantsAssumption ==
    /\ AppOf \in [Builds -> Apps]
    /\ MaxExecutions \in Nat
    /\ MaxPrint \in Nat
    /\ MaxLogBytes \in Nat
    /\ LogLimit \in Nat
    /\ MarkerLen \in Nat
    /\ MaxFaults \in Nat
    /\ Deletable \subseteq Apps
    /\ Faults \subseteq {"crash", "stop", "dberror", "early"}

ASSUME NullAssumption ==
    /\ NULL \notin Builds
    /\ NULL \notin Ids
    /\ NULL \notin Nat
    /\ NULL \notin {"ok", "unprepared", "failed", "worker_restarted"}

VARIABLES
    apps,       \* rows of the apps table
    exec,       \* the executions table: a row or NULL
    pending,    \* requests that have resolved their build, not yet inserted
    next,       \* the next execution id
    phase,      \* each process: down, booting, up, stopping
    pc,         \* where each process's worker is
    job,        \* the execution id a worker holds
    record,     \* the worker's in-memory copy of the execution
    result,     \* what the handler returned: "ok" or a failure code
    flushing,   \* logs the flusher has taken and is writing
    written,    \* whether there is output the flusher has not taken
    storable,   \* whether the columns accept what the run has left
    later,      \* what was requested or claimed since a clock was read
    late,       \* SaveLogs statements whose client has gone
    printed,    \* what the handler of each execution has printed
    token,      \* the execution token: none, live, or unrevoked
    ran,        \* history: how often a handler was started
    faults      \* how many faults have happened

table    == <<apps, exec, pending, next>>
local    == <<job, record, result, flushing, written, storable, later>>
outside  == <<late, printed, token, ran>>
vars     == <<apps, exec, pending, next, phase, pc, job, record, result,
              flushing, written, storable, later, late, printed, token, ran,
              faults>>

-----------------------------------------------------------------------------
(* Rows *)

FailureCodes == {"unprepared", "failed", "worker_restarted"}
Terminal     == {"succeeded", "failed"}
Statuses     == {"queued", "running"} \union Terminal
LogLengths   == 0 .. (MaxPrint + LogLimit + MarkerLen)

Rows == [status  : Statuses,
         build   : Builds,
         rerunOf : Ids \union {NULL},
         logs    : LogLengths,
         output  : Builds \union {NULL},
         failure : FailureCodes \union {NULL}]

ASSUME RowAssumption == NULL \notin Rows

New(b, original) ==
    [status |-> "queued", build |-> b, rerunOf |-> original,
     logs |-> 0, output |-> NULL, failure |-> NULL]

Claim(row) ==
    [row EXCEPT !.status = "running", !.output = NULL, !.failure = NULL,
                !.logs = 0]

\* The output a handler returns is named by the build whose code returned it.
Succeed(row, output, n) ==
    [row EXCEPT !.status = "succeeded", !.output = output, !.failure = NULL,
                !.logs = n]

Fail(row, code, n) ==
    [row EXCEPT !.status = "failed", !.output = NULL, !.failure = code,
                !.logs = n]

\* Variant: logs of exactly the bound are refused.
ValidateBelow(row) ==
    /\ row.status = "queued" =>
          row.output = NULL /\ row.failure = NULL /\ row.logs = 0
    /\ row.status = "running" => row.output = NULL /\ row.failure = NULL
    /\ row.status = "succeeded" => row.output # NULL /\ row.failure = NULL
    /\ row.status = "failed" => row.output = NULL /\ row.failure # NULL
    /\ row.logs < MaxLogBytes

\* Validate, less the identifiers, and less the times, which only the claim and
\* the recovery can put in disorder (see there).  Every read of a row ends in
\* it (scanExecution), and so does every write.
Validate(row) ==
    /\ row.status = "queued" =>
          row.output = NULL /\ row.failure = NULL /\ row.logs = 0
    /\ row.status = "running" => row.output = NULL /\ row.failure = NULL
    /\ row.status = "succeeded" => row.output # NULL /\ row.failure = NULL
    /\ row.status = "failed" => row.output = NULL /\ row.failure # NULL
    /\ row.logs <= MaxLogBytes

ValidateTransitionTo(current, new) ==
    /\ current.status = "running"
    /\ new.status \in Terminal
    /\ current.build = new.build
    /\ current.rerunOf = new.rerunOf

\* limitedBuffer.String: the head of the output, and a marker when there is more.
Capped(n) == IF n > LogLimit THEN LogLimit + MarkerLen ELSE n

Exists(id) == exec[id] # NULL

StatusIs(id, s) == Exists(id) /\ exec[id].status = s

HasStatusIn(id, S) == Exists(id) /\ exec[id].status \in S

-----------------------------------------------------------------------------
Init ==
    /\ apps = Apps
    /\ exec = [id \in Ids |-> NULL]
    /\ pending = {}
    /\ next = 1
    /\ phase = [p \in Replicas |-> "down"]
    /\ pc = [p \in Replicas |-> "off"]
    /\ job = [p \in Replicas |-> NULL]
    /\ record = [p \in Replicas |-> NULL]
    /\ result = [p \in Replicas |-> NULL]
    /\ flushing = [p \in Replicas |-> NULL]
    /\ written = [p \in Replicas |-> FALSE]
    /\ storable = [p \in Replicas |-> TRUE]
    /\ later = [p \in Replicas |-> {}]
    /\ late = {}
    /\ printed = [id \in Ids |-> 0]
    /\ token = [id \in Ids |-> "none"]
    /\ ran = [id \in Ids |-> 0]
    /\ faults = 0

Fault(kind) ==
    /\ kind \in Faults
    /\ faults < MaxFaults
    /\ faults' = faults + 1

\* A call on the worker's own context fails: because the process is stopping,
\* or because the database did.
Interrupted(p) ==
    \/ phase[p] = "stopping" /\ UNCHANGED faults
    \/ Fault("dberror")

-----------------------------------------------------------------------------
(* Requests.  What a request has read can be stale by the time it inserts. *)

\* The API is served from the end of the boot until the process has drained.
Serving == \E p \in Replicas : phase[p] \in {"up", "stopping"}

\* Processes that have read their clock for a recovery, or for the next claim.
Booting == {p \in Replicas : phase[p] = "booting"}
Polling == {p \in Replicas : phase[p] = "up" /\ pc[p] = "idle"}

\* What happens to an execution now is later than the clocks these have read.
Overtake(S, id) ==
    [p \in Replicas |-> IF p \in S /\ "early" \in Faults
                        THEN later[p] \union {id} ELSE later[p]]

\* The request takes the next id and stamps its row with its created_at.
Request(row) ==
    /\ next \in Ids
    /\ pending' = pending \union {[id |-> next, row |-> row]}
    /\ next' = next + 1
    /\ later' = Overtake(Polling, next)
    /\ UNCHANGED <<apps, exec, phase, pc, job, record, result, flushing, written,
                   storable, outside, faults>>

\* ExecutionService.Create up to the insert: the app's build is resolved.
CreateResolve(b) ==
    /\ Serving
    /\ AppOf[b] \in apps
    /\ Request(New(b, NULL))

\* ExecutionService.Rerun up to the insert.
RerunResolve(original) ==
    /\ Serving
    /\ HasStatusIn(original, Terminal)
    /\ Request(New(exec[original].build, original))

\* The foreign keys of the executions table.
Insertable(row) ==
    /\ AppOf[row.build] \in apps
    /\ row.rerunOf # NULL => Exists(row.rerunOf)

Insert(req) ==
    /\ Serving
    /\ req \in pending
    /\ Insertable(req.row)
    /\ exec' = [exec EXCEPT ![req.id] = req.row]
    /\ pending' = pending \ {req}
    /\ UNCHANGED <<apps, next, phase, pc, local, outside, faults>>

\* The insert fails: a foreign key is violated, the client hung up (its request
\* context is the one the insert runs under) or its process went away.
Refuse(req) ==
    /\ req \in pending
    /\ pending' = pending \ {req}
    /\ UNCHANGED <<apps, exec, next, phase, pc, local, outside, faults>>

\* The row lock a claim in progress holds (FOR UPDATE OF e).
LockedBy(p, id) == pc[p] = "claiming" /\ job[p] = id

Locked(id) == \E p \in Replicas : LockedBy(p, id)

\* Deleting an app takes its builds and its executions with it, and waits for
\* whoever holds one of the rows.
DeleteApp(a) ==
    /\ Serving
    /\ a \in apps \intersect Deletable
    /\ \A id \in Ids : Exists(id) /\ AppOf[exec[id].build] = a => ~Locked(id)
    /\ apps' = apps \ {a}
    /\ exec' = [id \in Ids |->
                  IF Exists(id) /\ AppOf[exec[id].build] = a
                  THEN NULL ELSE exec[id]]
    /\ UNCHANGED <<pending, next, phase, pc, local, outside, faults>>

-----------------------------------------------------------------------------
(* Processes *)

\* serve() up to executor.Recover, which reads its clock before its transaction;
\* systemd starts it again whenever it ends.
Boot(p) ==
    /\ phase[p] = "down"
    /\ phase' = [phase EXCEPT ![p] = "booting"]
    /\ UNCHANGED <<table, pc, local, outside, faults>>

\* Variants: an interrupted execution is queued again; its status is changed
\* and nothing else; it is left as it was found.
RecoveredRequeued(row) ==
    [row EXCEPT !.status = "queued", !.logs = 0]

RecoveredStatusOnly(row) == [row EXCEPT !.status = "failed"]

RecoveredNot(row) == row

\* RecoverRunning: every running row, whoever runs it, in one transaction.
Recovered(row) == Fail(row, "worker_restarted", row.logs)

Recover(p) ==
    /\ phase[p] = "booting"
    /\ exec' = [id \in Ids |->
                  IF StatusIs(id, "running") THEN Recovered(exec[id])
                  ELSE exec[id]]
    /\ phase' = [phase EXCEPT ![p] = "up"]
    /\ pc' = [pc EXCEPT ![p] = "idle"]
    /\ later' = [later EXCEPT ![p] = {}]
    /\ UNCHANGED <<apps, pending, next, job, record, result, flushing, written,
                   storable, outside, faults>>

\* A row claimed since the clock was read would be finished before it was started:
\* Fail refuses it, and the boot fails.
RecoverRefused(p) ==
    /\ phase[p] = "booting"
    /\ \E id \in later[p] : StatusIs(id, "running")
    /\ phase' = [phase EXCEPT ![p] = "down"]
    /\ later' = [later EXCEPT ![p] = {}]
    /\ UNCHANGED <<table, pc, job, record, result, flushing, written, storable,
                   outside, faults>>

RecoverError(p) ==
    /\ phase[p] = "booting"
    /\ Fault("dberror")
    /\ phase' = [phase EXCEPT ![p] = "down"]
    /\ later' = [later EXCEPT ![p] = {}]
    /\ UNCHANGED <<table, pc, job, record, result, flushing, written, storable,
                   outside>>

\* SIGTERM, or a fatal error of another part of the process: the runtime
\* context is cancelled.
Stop(p) ==
    /\ phase[p] = "up"
    /\ Fault("stop")
    /\ phase' = [phase EXCEPT ![p] = "stopping"]
    /\ UNCHANGED <<table, pc, local, outside>>

\* Run returns an error: the process stops with it (sendRuntimeError).
ExitWorker(p) ==
    /\ pc' = [pc EXCEPT ![p] = "exited"]
    /\ phase' = [phase EXCEPT ![p] = "stopping"]

ForgetJob(p) ==
    /\ job' = [job EXCEPT ![p] = NULL]
    /\ record' = [record EXCEPT ![p] = NULL]
    /\ result' = [result EXCEPT ![p] = NULL]
    /\ flushing' = [flushing EXCEPT ![p] = NULL]
    /\ written' = [written EXCEPT ![p] = FALSE]
    /\ storable' = [storable EXCEPT ![p] = TRUE]

Forget(p) == ForgetJob(p) /\ later' = [later EXCEPT ![p] = {}]

\* Between two polls the worker sees its context is done.
StopIdle(p) ==
    /\ pc[p] = "idle" /\ phase[p] = "stopping"
    /\ ExitWorker(p)
    /\ Forget(p)
    /\ UNCHANGED <<table, outside, faults>>

\* serve() returns once the worker has.
ExitProcess(p) ==
    /\ phase[p] = "stopping" /\ pc[p] = "exited"
    /\ phase' = [phase EXCEPT ![p] = "down"]
    /\ pc' = [pc EXCEPT ![p] = "off"]
    /\ UNCHANGED <<table, local, outside, faults>>

\* Variant: whether a flush is in progress is not looked at.
LateOnesAlways(p) == {[id |-> job[p], logs |-> flushing[p]]}

\* A SaveLogs statement already sent can still be executed by the server.
LateOnes(p) ==
    IF flushing[p] # NULL THEN {[id |-> job[p], logs |-> flushing[p]]} ELSE {}

Crash(p) ==
    /\ phase[p] # "down"
    /\ Fault("crash")
    /\ phase' = [phase EXCEPT ![p] = "down"]
    /\ pc' = [pc EXCEPT ![p] = "off"]
    /\ late' = late \union LateOnes(p)
    /\ Forget(p)
    /\ UNCHANGED <<table, printed, token, ran>>

-----------------------------------------------------------------------------
(* The worker: ClaimQueued *)

\* The next tick: an idle worker reads its clock again, and then asks for a row.
Poll(p) ==
    /\ pc[p] = "idle" /\ phase[p] = "up"
    /\ later' = [later EXCEPT ![p] = {}]
    /\ UNCHANGED <<table, phase, pc, job, record, result, flushing, written,
                   storable, outside, faults>>

Claimable(id) == StatusIs(id, "queued") /\ ~Locked(id)

ClaimSelect(p) ==
    /\ pc[p] = "idle" /\ phase[p] = "up"
    /\ \E id \in Ids :
          /\ Claimable(id)
          /\ \A other \in Ids : Claimable(other) => id <= other
          /\ job' = [job EXCEPT ![p] = id]
    /\ pc' = [pc EXCEPT ![p] = "claiming"]
    /\ UNCHANGED <<table, phase, record, result, flushing, written, storable,
                   later, outside, faults>>

ClaimCommit(p) ==
    /\ pc[p] = "claiming"
    /\ StatusIs(job[p], "queued")
    /\ exec' = [exec EXCEPT ![job[p]] = Claim(@)]
    /\ record' = [record EXCEPT ![p] = Claim(exec[job[p]])]
    /\ pc' = [pc EXCEPT ![p] = "preparing"]
    /\ later' = [Overtake(Booting, job[p]) EXCEPT ![p] = {}]
    /\ UNCHANGED <<apps, pending, next, phase, job, result, flushing, written,
                   storable, outside, faults>>

\* The row was requested after the clock was read: started before it was created,
\* Claim refuses it, and the worker ends on the error.
ClaimRefused(p) ==
    /\ pc[p] = "claiming"
    /\ job[p] \in later[p]
    /\ ExitWorker(p)
    /\ Forget(p)
    /\ UNCHANGED <<table, outside, faults>>

\* The claim fails, before or after it has found a row, and is rolled back.
ClaimError(p) ==
    /\ pc[p] \in {"idle", "claiming"}
    /\ Interrupted(p)
    /\ ExitWorker(p)
    /\ Forget(p)
    /\ UNCHANGED <<table, outside>>

\* The claim commits and the worker is told it failed.
ClaimLost(p) ==
    /\ pc[p] = "claiming"
    /\ Interrupted(p)
    /\ exec' = [exec EXCEPT ![job[p]] = Claim(@)]
    /\ ExitWorker(p)
    /\ ForgetJob(p)
    /\ later' = [Overtake(Booting, job[p]) EXCEPT ![p] = {}]
    /\ UNCHANGED <<apps, pending, next, outside>>

-----------------------------------------------------------------------------
(* The worker: execute *)

\* The build is gone, an artifact does not verify, the runtime is unknown, or
\* the context is cancelled under any of these.
PrepareFails(p) ==
    /\ pc[p] = "preparing"
    /\ pc' = [pc EXCEPT ![p] = "finishing"]
    /\ result' = [result EXCEPT ![p] = "unprepared"]
    /\ UNCHANGED <<table, phase, job, record, flushing, written, storable, later,
                   outside, faults>>

\* A token is minted, or is not and the handler does without.  A handler is
\* never started under a cancelled context.
StartHandler(p) ==
    /\ pc[p] = "preparing" /\ phase[p] = "up"
    /\ AppOf[record[p].build] \in apps
    /\ \E t \in {"none", "live"} : token' = [token EXCEPT ![job[p]] = t]
    /\ ran' = [ran EXCEPT ![job[p]] = @ + 1]
    /\ pc' = [pc EXCEPT ![p] = "running"]
    /\ UNCHANGED <<table, phase, local, late, printed, faults>>

\* The handler writes a line, which limitedBuffer mirrors into the logStream.
HandlerPrints(p) ==
    /\ pc[p] = "running"
    /\ printed[job[p]] < MaxPrint
    /\ printed' = [printed EXCEPT ![job[p]] = @ + 1]
    /\ written' = [written EXCEPT ![p] = TRUE]
    /\ UNCHANGED <<table, phase, pc, job, record, result, flushing, storable,
                   later, late, token, ran, faults>>

\* Variant: statements are still sent after the context is cancelled.
FlushTakeCancelled(p) ==
    /\ pc[p] \in {"running", "closing"} /\ flushing[p] = NULL /\ written[p]
    /\ written' = [written EXCEPT ![p] = FALSE]
    /\ flushing' = [flushing EXCEPT ![p] = printed[job[p]]]
    /\ UNCHANGED <<table, phase, pc, job, record, result, storable, later,
                   outside, faults>>

\* logStream.flush up to the statement, until Close has stopped the flusher;
\* with the context cancelled the statement is never sent.
FlushTake(p) ==
    /\ pc[p] \in {"running", "closing"} /\ flushing[p] = NULL /\ written[p]
    /\ written' = [written EXCEPT ![p] = FALSE]
    /\ flushing' = IF phase[p] = "up"
                   THEN [flushing EXCEPT ![p] = printed[job[p]]]
                   ELSE flushing
    /\ UNCHANGED <<table, phase, pc, job, record, result, storable, later,
                   outside, faults>>

\* Variant: logs are written whatever the status of the row.
SaveLogsAnyStatus(id, n) ==
    IF Exists(id) /\ n <= MaxLogBytes
    THEN [exec EXCEPT ![id].logs = n]
    ELSE exec

\* UPDATE executions SET logs ... WHERE id = $1 AND status = 'running', with
\* the table's bound on the length of logs.
SaveLogs(id, n) ==
    IF StatusIs(id, "running") /\ n <= MaxLogBytes
    THEN [exec EXCEPT ![id].logs = n]
    ELSE exec

FlushSave(p) ==
    /\ flushing[p] # NULL
    /\ exec' = SaveLogs(job[p], flushing[p])
    /\ flushing' = [flushing EXCEPT ![p] = NULL]
    /\ UNCHANGED <<apps, pending, next, phase, pc, job, record, result, written,
                   storable, later, outside, faults>>

\* The text column refuses NUL and half a character, which is only logged.
FlushRefused(p) ==
    /\ flushing[p] # NULL
    /\ flushing' = [flushing EXCEPT ![p] = NULL]
    /\ UNCHANGED <<table, phase, pc, job, record, result, written, storable,
                   later, outside, faults>>

\* The statement fails, which is only logged; it may still be on its way.
FlushError(p) ==
    /\ flushing[p] # NULL
    /\ Interrupted(p)
    /\ late' \in {late, late \union LateOnes(p)}
    /\ flushing' = [flushing EXCEPT ![p] = NULL]
    /\ UNCHANGED <<table, phase, pc, job, record, result, written, storable,
                   later, printed, token, ran>>

LateFlush(stmt) ==
    /\ stmt \in late
    /\ exec' = SaveLogs(stmt.id, stmt.logs)
    /\ late' = late \ {stmt}
    /\ UNCHANGED <<apps, pending, next, phase, pc, local, printed, token, ran,
                   faults>>

\* The handler ends, is killed at its timeout or by the shutdown.  Its logs may
\* hold what a text column refuses, or end in half a character at their cap, and
\* its output or its error what a jsonb column refuses.
HandlerReturns(p) ==
    /\ pc[p] = "running"
    /\ \E r \in {"ok", "failed"} : result' = [result EXCEPT ![p] = r]
    /\ \E ok \in BOOLEAN : storable' = [storable EXCEPT ![p] = ok]
    /\ pc' = [pc EXCEPT ![p] = "closing"]
    /\ UNCHANGED <<table, phase, job, record, flushing, written, later, outside,
                   faults>>

\* Variant: the token is left to its TTL.
RevokedNot(id) == token

\* The deferred calls of execute: wait for the flusher, then revoke the token.
Revoked(id) ==
    IF token[id] = "live" THEN [token EXCEPT ![id] = "none"] ELSE token

CloseStream(p) ==
    /\ pc[p] = "closing" /\ flushing[p] = NULL
    /\ token' = Revoked(job[p])
    /\ pc' = [pc EXCEPT ![p] = "finishing"]
    /\ UNCHANGED <<table, phase, local, late, printed, ran, faults>>

\* The cache cannot be reached: the token stays until its TTL.
CloseStreamUnrevoked(p) ==
    /\ pc[p] = "closing" /\ flushing[p] = NULL
    /\ token[job[p]] = "live"
    /\ Fault("dberror")
    /\ token' = [token EXCEPT ![job[p]] = "unrevoked"]
    /\ pc' = [pc EXCEPT ![p] = "finishing"]
    /\ UNCHANGED <<table, phase, local, late, printed, ran>>

\* The TTL is twice the run timeout, so no token expires under its run.
TokenExpires(id) ==
    /\ token[id] # "none"
    /\ \A p \in Replicas : job[p] # id
    /\ token' = [token EXCEPT ![id] = "none"]
    /\ UNCHANGED <<table, phase, pc, local, late, printed, ran, faults>>

-----------------------------------------------------------------------------
(* The worker: the rest of ProcessOne *)

\* Variant: only a handler's own failure counts as one.
FinishedUnlessFailed(p) ==
    IF result[p] # "failed"
    THEN Succeed(record[p], record[p].build, Capped(printed[job[p]]))
    ELSE Fail(record[p], result[p], Capped(printed[job[p]]))

Finished(p) ==
    IF result[p] = "ok"
    THEN Succeed(record[p], record[p].build, Capped(printed[job[p]]))
    ELSE Fail(record[p], result[p], Capped(printed[job[p]]))

\* The context Finalize will use is chosen here, once.
Finish(p) ==
    /\ pc[p] = "finishing"
    /\ Validate(Finished(p))
    /\ record' = [record EXCEPT ![p] = Finished(p)]
    /\ pc' = [pc EXCEPT ![p] = IF phase[p] = "stopping"
                               THEN "finalizing_detached" ELSE "finalizing"]
    /\ UNCHANGED <<table, phase, job, result, flushing, written, storable, later,
                   outside, faults>>

\* Succeed or Fail refuses the record, and the worker ends on it.
FinishInvalid(p) ==
    /\ pc[p] = "finishing"
    /\ ~Validate(Finished(p))
    /\ ExitWorker(p)
    /\ Forget(p)
    /\ UNCHANGED <<table, outside, faults>>

Finalizing(p) == pc[p] \in {"finalizing", "finalizing_detached"}

\* Variant: the stored status is not compared.
FinalizableAny(p) == Exists(job[p])

\* The compare-and-set of Finalize holds.
Finalizable(p) ==
    Exists(job[p]) /\ ValidateTransitionTo(exec[job[p]], record[p])

Finalize(p) ==
    /\ Finalizing(p)
    /\ Finalizable(p) /\ storable[p]
    /\ exec' = [exec EXCEPT ![job[p]] = record[p]]
    /\ pc' = [pc EXCEPT ![p] = "idle"]
    /\ Forget(p)
    /\ UNCHANGED <<apps, pending, next, phase, outside, faults>>

\* The row is gone, or no longer the running one: the worker ends on the error.
FinalizeConflict(p) ==
    /\ Finalizing(p)
    /\ ~Finalizable(p)
    /\ ExitWorker(p)
    /\ Forget(p)
    /\ UNCHANGED <<table, outside, faults>>

\* A column refuses the logs, the output or the failure: the worker ends on that.
FinalizeRefused(p) ==
    /\ Finalizing(p)
    /\ Finalizable(p) /\ ~storable[p]
    /\ ExitWorker(p)
    /\ Forget(p)
    /\ UNCHANGED <<table, outside, faults>>

\* Finalize fails; the detached context survives the shutdown but not the
\* database.
FinalizeInterrupted(p) ==
    \/ pc[p] = "finalizing" /\ Interrupted(p)
    \/ pc[p] = "finalizing_detached" /\ Fault("dberror")

FinalizeError(p) ==
    /\ FinalizeInterrupted(p)
    /\ ExitWorker(p)
    /\ Forget(p)
    /\ UNCHANGED <<table, outside>>

\* Finalize commits and the worker is told it failed.
FinalizeLost(p) ==
    /\ FinalizeInterrupted(p)
    /\ Finalizable(p) /\ storable[p]
    /\ exec' = [exec EXCEPT ![job[p]] = record[p]]
    /\ ExitWorker(p)
    /\ Forget(p)
    /\ UNCHANGED <<apps, pending, next, outside>>

-----------------------------------------------------------------------------
WorkerStep(p) ==
    \/ StopIdle(p) \/ Poll(p)
    \/ ClaimSelect(p) \/ ClaimCommit(p) \/ ClaimRefused(p)
    \/ PrepareFails(p) \/ StartHandler(p)
    \/ FlushSave(p) \/ FlushRefused(p) \/ HandlerReturns(p) \/ CloseStream(p)
    \/ Finish(p) \/ FinishInvalid(p)
    \/ Finalize(p) \/ FinalizeConflict(p) \/ FinalizeRefused(p)
    \/ ExitProcess(p) \/ Boot(p) \/ Recover(p) \/ RecoverRefused(p)

FaultStep(p) ==
    \/ Stop(p) \/ Crash(p) \/ RecoverError(p)
    \/ ClaimError(p) \/ ClaimLost(p)
    \/ FlushError(p) \/ CloseStreamUnrevoked(p)
    \/ FinalizeError(p) \/ FinalizeLost(p)

Next ==
    \/ \E b \in Builds : CreateResolve(b)
    \/ \E id \in Ids : RerunResolve(id)
    \/ \E req \in pending : Insert(req) \/ Refuse(req)
    \/ \E a \in Apps : DeleteApp(a)
    \/ \E p \in Replicas :
          \/ WorkerStep(p) \/ FaultStep(p)
          \/ HandlerPrints(p) \/ FlushTake(p)
    \/ \E stmt \in late : LateFlush(stmt)
    \/ \E id \in Ids : TokenExpires(id)

Spec == Init /\ [][Next]_vars

\* The worker loop, the handler's timeout and systemd's Restart=always each
\* take their next step eventually; nothing is assumed of faults, requests or
\* handler output.
Fairness == \A p \in Replicas : WF_vars(WorkerStep(p))

FairSpec == Spec /\ Fairness

-----------------------------------------------------------------------------
(* Properties *)

Phases == {"down", "booting", "up", "stopping"}

WorkerStates == {"off", "idle", "claiming", "preparing", "running", "closing",
                 "finishing", "finalizing", "finalizing_detached", "exited"}

\* Every variable has its type.
TypeOK ==
    /\ apps \subseteq Apps
    /\ exec \in [Ids -> Rows \union {NULL}]
    /\ pending \subseteq [id : Ids, row : Rows]
    /\ next \in 1 .. (MaxExecutions + 1)
    /\ phase \in [Replicas -> Phases]
    /\ pc \in [Replicas -> WorkerStates]
    /\ job \in [Replicas -> Ids \union {NULL}]
    /\ record \in [Replicas -> Rows \union {NULL}]
    /\ result \in [Replicas -> {"ok", "unprepared", "failed", NULL}]
    /\ flushing \in [Replicas -> 0 .. MaxPrint \union {NULL}]
    /\ written \in [Replicas -> BOOLEAN]
    /\ storable \in [Replicas -> BOOLEAN]
    /\ later \in [Replicas -> SUBSET Ids]
    /\ late \subseteq [id : Ids, logs : 0 .. MaxPrint]
    /\ printed \in [Ids -> 0 .. MaxPrint]
    /\ token \in [Ids -> {"none", "live", "unrevoked"}]
    /\ ran \in [Ids -> Nat]
    /\ faults \in 0 .. MaxFaults

\* A handler is started at most once for an execution, and never for one that
\* is still queued: claims exclude each other, recovery does not requeue
\* ("They are never re-run", docs/execution.md), and a lost claim is not retried.
NeverRerun ==
    \A id \in Ids :
        /\ ran[id] <= 1
        /\ StatusIs(id, "queued") => ran[id] = 0

\* Every stored row passes Validate, so scanExecution never refuses to read one
\* back: a single unreadable row would fail every list and every boot recovery.
RowsReadable ==
    \A id \in Ids : Exists(id) => Validate(exec[id])

\* When a run ends in its worker's Finalize its row carries the output of the
\* whole run, whatever SaveLogs statements were still on their way ("that write
\* is the one that has to win", worker.go); an interrupted run keeps a prefix.
FinalLogsWin ==
    \A id \in Ids : HasStatusIn(id, Terminal) =>
        IF exec[id].failure = "worker_restarted"
        THEN exec[id].logs <= printed[id]
        ELSE exec[id].logs = Capped(printed[id])

\* A succeeded execution carries the output of the build its row names, and a
\* handler really ran: the pin made at creation survives claim, run and finish.
Provenance ==
    \A id \in Ids : StatusIs(id, "succeeded") =>
        exec[id].output = exec[id].build /\ ran[id] = 1

\* A rerun names an execution that exists, had finished, and ran the same build,
\* so the immutable-metadata check of Finalize never trips over an original
\* deleted (rerun_of_execution_id SET NULL) under a running rerun.
RerunRepeats ==
    \A id \in Ids : Exists(id) /\ exec[id].rerunOf # NULL =>
        LET original == exec[id].rerunOf IN
            /\ HasStatusIn(original, Terminal)
            /\ exec[original].build = exec[id].build

\* The build a caller is promised when the execution is accepted is the one that
\* answers, in the execution itself and in every rerun of it.
PinKept == Provenance /\ RerunRepeats

\* Once a worker has finished an execution its token no longer resolves, unless
\* the revocation itself failed; only a run whose row was failed by recovery can
\* leave a live token behind.
TokenSpent ==
    \A id \in Ids :
        HasStatusIn(id, Terminal) /\ token[id] = "live" =>
            exec[id].failure = "worker_restarted"

\* What a run printed does not fit a row, whatever is kept of it: with the default
\* options the cap leaves no room for the marker.
TooLong(n) ==
    IF n > LogLimit THEN LogLimit + MarkerLen > MaxLogBytes ELSE n > MaxLogBytes

\* What ProcessOne cannot survive: a row requested after its clock was read, output
\* that no row can carry, and a row that was taken from it, by a recovery or with
\* its app.
FatalCause(p) ==
    \/ pc[p] = "claiming" /\ job[p] \in later[p]
    \/ pc[p] = "finishing" /\ TooLong(printed[job[p]])
    \/ /\ Finalizing(p)
       /\ \/ ~storable[p]
          \/ Exists(job[p]) /\ exec[job[p]].failure = "worker_restarted"
          \/ AppOf[record[p].build] \notin apps

\* A process that is up stops only because it was told to, because the database
\* failed, or for one of these causes: whatever requests, other workers, late
\* flushes and recoveries do to the table meanwhile, no other error of ProcessOne
\* ends Run.
StopsForCause ==
    [][\A p \in Replicas :
          phase[p] = "up" /\ phase'[p] = "stopping" =>
              faults' > faults \/ FatalCause(p)]_vars

\* What the worker keeps of a run's output, marker included, fits a row.  It does not
\* under the default options (exec_truncation.cfg).
KeptLogsFit ==
    \A p \in Replicas : pc[p] = "finishing" => Capped(printed[job[p]]) <= MaxLogBytes

\* The logs a reader follows never shrink while the execution runs, although a
\* flush whose client has gone may be applied late.
LogsOnlyGrow ==
    [][\A id \in Ids :
          StatusIs(id, "running") /\ StatusIs(id, "running")' =>
              exec'[id].logs >= exec[id].logs]_vars

-----------------------------------------------------------------------------
(* The inductive invariant behind NeverRerun and ImplementsLifecycle. *)

Unborn(id) == id >= next \/ \E req \in pending : req.id = id

\* An id that has no row yet is known to nobody but its request.
FreshInv ==
    /\ \A req \in pending :
          /\ req.id < next
          /\ req.row = New(req.row.build, req.row.rerunOf)
    /\ \A r1, r2 \in pending : r1.id = r2.id => r1 = r2
    /\ \A id \in Ids : Unborn(id) => exec[id] = NULL /\ ran[id] = 0
    /\ \A id \in Ids, p \in Replicas : Unborn(id) => job[p] # id

Holding == {"claiming", "preparing", "running", "closing", "finishing",
            "finalizing", "finalizing_detached"}

\* A worker holds an execution exactly while ProcessOne is at it, no two hold
\* the same one, and only a claim in progress holds a queued one.
HoldInv ==
    /\ \A p \in Replicas : pc[p] = "off" <=> phase[p] \in {"down", "booting"}
    /\ \A p \in Replicas : flushing[p] # NULL => pc[p] \in {"running", "closing"}
    /\ \A p \in Replicas : pc[p] \in {"closing", "finishing"} => result[p] # NULL
    /\ \A p \in Replicas : job[p] # NULL <=> pc[p] \in Holding
    /\ \A p, q \in Replicas : job[p] # NULL /\ job[p] = job[q] => p = q
    /\ \A p \in Replicas : pc[p] = "claiming" => StatusIs(job[p], "queued")
    /\ \A p \in Replicas :
          pc[p] \in Holding \ {"claiming"} =>
              /\ ~StatusIs(job[p], "queued")
              /\ record[p] # NULL
    /\ \A p \in Replicas :
          Finalizing(p) => record[p].status \in Terminal /\ Validate(record[p])

\* No handler has been started for what is queued or still being prepared.
RanInv ==
    /\ NeverRerun
    /\ \A p \in Replicas : pc[p] = "preparing" => ran[job[p]] = 0

IInv == TypeOK /\ FreshInv /\ HoldInv /\ RanInv /\ RowsReadable

-----------------------------------------------------------------------------
\* The caller's view of the table behaves as ExecutionLifecycle promises.
StageOf(id) ==
    IF Exists(id) THEN exec[id].status
    ELSE IF Unborn(id) THEN "new" ELSE "gone"

Lifecycle == INSTANCE ExecutionLifecycle WITH
    stage  <- [id \in Ids |-> StageOf(id)],
    pin    <- [id \in Ids |-> IF Exists(id) THEN exec[id].build ELSE NULL],
    logs   <- [id \in Ids |-> IF Exists(id) THEN exec[id].logs ELSE 0],
    answer <- [id \in Ids |-> IF ~Exists(id) THEN NULL
                              ELSE IF exec[id].output # NULL
                                   THEN exec[id].output ELSE exec[id].failure]

\* Every behaviour of the table, the workers and the requests is one of the
\* abstract lifecycle: statuses move forward only, the pin never moves, and a
\* finished execution is never written again.
ImplementsLifecycle == Lifecycle!Spec

\* Every execution that was queued or running is finished eventually, or its app
\* is deleted: through crashes, lost claims, failed finalizations and shutdowns,
\* as long as the faults stop and the process is restarted.
EverySettles ==
    \A id \in Ids :
        HasStatusIn(id, {"queued", "running"}) ~>
            (~Exists(id) \/ HasStatusIn(id, Terminal))

\* worker.go: "A cancelled context must not strand the execution in running".
\* No process is left, none of them crashed, yet a run that ended is running.
ShutdownFinalizes ==
    (\A p \in Replicas : phase[p] = "down") =>
        \A id \in Ids : ~(StatusIs(id, "running") /\ ran[id] = 1)

=============================================================================
