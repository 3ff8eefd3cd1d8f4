------------------------- MODULE ExecutionRunsProofs -------------------------
(***************************************************************************)
(* What an execution ends with, for every number of apps, builds,          *)
(* replicas, executions and faults, and every setting of the log limits:   *)
(* the logs of its last Finalize, the output of the build it was pinned    *)
(* to, and no token; that followed logs only grow; and what a process that *)
(* stops by itself stopped for.                                            *)
(*                                                                         *)
(* The invariant here rests on the one of ExecutionsProofs, which says who *)
(* holds an execution; it is proved to be preserved in the states where    *)
(* that one holds.                                                         *)
(***************************************************************************)
EXTENDS ExecutionsProofs

-----------------------------------------------------------------------------
(* The invariant. *)

\* One execution: nothing is printed and no token minted before it is claimed; while it
\* runs, and when a recovery ended it, its logs are a prefix of the output; when its own
\* worker ended it they are all of it, capped, its token is spent, and an output is that of
\* its build.
RunOf(id) ==
    /\ Unborn(id) \/ StatusIs(id, "queued") => printed[id] = 0 /\ token[id] = "none"
    /\ StatusIs(id, "running") => exec[id].logs <= printed[id]
    /\ HasStatusIn(id, Terminal) =>
          IF exec[id].failure = "worker_restarted"
          THEN exec[id].logs <= printed[id]
          ELSE exec[id].logs = Capped(printed[id]) /\ token[id] # "live"
    /\ StatusIs(id, "succeeded") => exec[id].output = exec[id].build /\ ran[id] = 1

\* The original a row names was there once; as long as it is, it has finished and ran the
\* same build.
RerunOf(row) ==
    row.rerunOf # NULL =>
        /\ ~Unborn(row.rerunOf)
        /\ Exists(row.rerunOf) =>
              HasStatusIn(row.rerunOf, Terminal) /\ exec[row.rerunOf].build = row.build

RerunsInv ==
    /\ \A req \in pending : RerunOf(req.row)
    /\ \A id \in Ids : Exists(id) =>
          RerunOf(exec[id]) /\ (exec[id].rerunOf # NULL => Exists(exec[id].rerunOf))

\* A SaveLogs statement on its way carries a prefix of the output.
LateInv == \A stmt \in late : stmt.logs <= printed[stmt.id]

\* One worker: only a recovery can have finished what it holds, and what it is about to
\* write is what its handler did.
WorkerOf(p) ==
    /\ pc[p] \in Holding \ {"claiming"} /\ HasStatusIn(job[p], Terminal) =>
          exec[job[p]].failure = "worker_restarted"
    /\ flushing[p] # NULL => flushing[p] <= printed[job[p]]
    /\ pc[p] = "preparing" => printed[job[p]] = 0 /\ token[job[p]] = "none"
    /\ pc[p] \in {"running", "closing"} => ran[job[p]] = 1
    /\ pc[p] = "finishing" => token[job[p]] # "live" /\ (result[p] = "ok" => ran[job[p]] = 1)
    /\ Finalizing(p) =>
          /\ token[job[p]] # "live" /\ record[p].logs = Capped(printed[job[p]])
          /\ record[p].failure # "worker_restarted"
          /\ record[p].status = "succeeded" => record[p].output = record[p].build /\ ran[job[p]] = 1

RunInv ==
    /\ RerunsInv /\ LateInv
    /\ \A id \in Ids : RunOf(id)
    /\ \A p \in Replicas : WorkerOf(p)

-----------------------------------------------------------------------------
(* Facts the steps below share. *)

\* What the tables hold of an execution that a step leaves alone.
RunSame(id) ==
    /\ exec'[id] = exec[id] /\ printed'[id] = printed[id] /\ token'[id] = token[id]
    /\ ran'[id] = ran[id]

\* What a worker has that a step leaves alone.
WorkerSame(p) ==
    /\ pc'[p] = pc[p] /\ job'[p] = job[p] /\ record'[p] = record[p] /\ result'[p] = result[p]
    /\ flushing'[p] = flushing[p]

\* What every step but a deletion or an insert does to a row.
RowKept(id) ==
    /\ Exists(id)' <=> Exists(id)
    /\ Exists(id) =>
          /\ exec'[id].build = exec[id].build /\ exec'[id].rerunOf = exec[id].rerunOf
          /\ exec[id].status \in Terminal => exec'[id].status \in Terminal

\* A step that touches no execution but the one a worker holds and leaves that one and the
\* worker in order.
RunStep(p) ==
    /\ UNCHANGED <<pending, next>>
    /\ \A q \in Replicas \ {p} : WorkerSame(q)
    /\ \A id \in Ids : RunSame(id) \/ (id = job[p] /\ RowKept(id) /\ RunOf(id)')
    /\ LateInv' /\ WorkerOf(p)'

\* An execution that a step leaves alone stays in order.
LEMMA RunKept ==
    ASSUME NEW id \in Ids, RunOf(id), RunSame(id), Unborn(id)' => Unborn(id)
    PROVE  RunOf(id)'
    BY DEF RunOf, RunSame, StatusIs, HasStatusIn, Exists

\* So does a worker, with the execution it holds.
LEMMA WorkerKept ==
    ASSUME IInv, NEW p \in Replicas, WorkerOf(p), WorkerSame(p),
           job[p] # NULL => RunSame(job[p])
    PROVE  WorkerOf(p)'
    <1>1. CASE job[p] # NULL
        BY <1>1 DEF WorkerOf, WorkerSame, RunSame, Finalizing, HasStatusIn, Exists
    <1>2. CASE job[p] = NULL
        BY <1>2 DEF IInv, HoldInv, WorkerOf, WorkerSame, Finalizing, Holding
    <1>3. QED
        BY <1>1, <1>2

\* The originals of reruns stay in order while rows keep what they are about.
LEMMA RerunsKept ==
    ASSUME TypeOK, RerunsInv, UNCHANGED <<pending, next>>, \A id \in Ids : RowKept(id)
    PROVE  RerunsInv'
    <1>1. ASSUME NEW row \in Rows, RerunOf(row) PROVE RerunOf(row)'
        <2>1. CASE row.rerunOf = NULL
            BY <2>1 DEF RerunOf
        <2>2. CASE row.rerunOf # NULL
            <3>1. row.rerunOf \in Ids
                BY <2>2 DEF Rows
            <3>2. Unborn(row.rerunOf)' <=> Unborn(row.rerunOf)
                BY DEF Unborn
            <3>3. QED
                BY <1>1, <3>1, <3>2 DEF RerunOf, RowKept, HasStatusIn, Exists
        <2>3. QED
            BY <2>1, <2>2
    <1>2. \A req \in pending' : RerunOf(req.row)'
        BY <1>1 DEF RerunsInv, TypeOK
    <1>3. ASSUME NEW id \in Ids, Exists(id)'
          PROVE  RerunOf(exec[id])' /\ (exec[id].rerunOf # NULL => Exists(exec[id].rerunOf))'
        <2>1. Exists(id) /\ exec'[id].build = exec[id].build /\ exec'[id].rerunOf = exec[id].rerunOf
            BY <1>3 DEF RowKept
        <2>2. PICK row \in Rows : row = exec[id]
            BY <2>1 DEF TypeOK, Exists
        <2>3. RerunOf(row) /\ (row.rerunOf # NULL => Exists(row.rerunOf))
            BY <2>1, <2>2 DEF RerunsInv
        <2>4. row.rerunOf \in Ids \union {NULL}
            BY DEF Rows
        <2>5. RerunOf(row)' /\ (row.rerunOf # NULL => Exists(row.rerunOf)')
            BY <1>1, <2>3, <2>4 DEF RowKept
        <2>6. QED
            BY <2>1, <2>2, <2>5 DEF RerunOf, Exists, HasStatusIn, Unborn
    <1>4. QED
        BY <1>2, <1>3 DEF RerunsInv

\* A row that a step does not write keeps what it is about.
LEMMA SameKept ==
    ASSUME NEW id, exec'[id] = exec[id]
    PROVE  RowKept(id)
    BY DEF RowKept, Exists

\* A step of one worker keeps the invariant.
LEMMA RunStepKeeps ==
    ASSUME IInv, RunInv, NEW p \in Replicas, RunStep(p)
    PROVE  RunInv'
    <1>1. \A id \in Ids : RowKept(id)
        BY SameKept DEF RunStep, RunSame
    <1>2. RerunsInv'
        BY <1>1, RerunsKept DEF IInv, RunInv, RunStep
    <1>3. \A id \in Ids : RunOf(id)'
        <2>1. \A id \in Ids : Unborn(id)' => Unborn(id)
            BY DEF RunStep, Unborn
        <2>2. QED
            BY <2>1, RunKept DEF RunInv, RunStep
    <1>4. ASSUME NEW q \in Replicas PROVE WorkerOf(q)'
        <2>1. CASE q = p
            BY <2>1 DEF RunStep
        <2>2. CASE q # p
            <3>1. WorkerSame(q) /\ WorkerOf(q)
                BY <2>2 DEF RunStep, RunInv
            <3>2. ASSUME job[q] # NULL PROVE RunSame(job[q])
                <4>1. job[q] \in Ids /\ job[q] # job[p]
                    BY <2>2, <3>2 DEF IInv, TypeOK, HoldInv
                <4>2. QED
                    BY <4>1 DEF RunStep
            <3>3. QED
                BY <3>1, <3>2, WorkerKept
        <2>3. QED
            BY <2>1, <2>2
    <1>5. QED
        BY <1>2, <1>3, <1>4 DEF RunInv, RunStep

-----------------------------------------------------------------------------
(* Steps that write neither the table nor the histories. *)

\* Such a step is in order when the worker that takes it is, and no statement is left behind.
LEMMA QuietRun ==
    ASSUME RunInv, NEW p \in Replicas, UNCHANGED <<exec, pending, next, printed, token, ran>>,
           late' \subseteq late, \A q \in Replicas \ {p} : WorkerSame(q), WorkerOf(p)'
    PROVE  RunStep(p)
    <1>1. \A id \in Ids : RunSame(id)
        BY DEF RunSame
    <1>2. LateInv'
        BY DEF RunInv, LateInv
    <1>3. QED
        BY <1>1, <1>2 DEF RunStep

\* A worker that lets go of what it holds is in order.
LEMMA LetsGo ==
    ASSUME TypeOK, NEW p \in Replicas, ForgetJob(p), NEW x \in {"off", "exited", "idle"},
           pc' = [pc EXCEPT ![p] = x]
    PROVE  WorkerOf(p)' /\ \A q \in Replicas \ {p} : WorkerSame(q)
    <1>1. pc'[p] = x /\ flushing'[p] = NULL
        BY DEF TypeOK, ForgetJob
    <1>2. WorkerOf(p)'
        BY <1>1 DEF WorkerOf, Holding, Finalizing
    <1>3. \A q \in Replicas \ {p} : WorkerSame(q)
        BY DEF TypeOK, ForgetJob, WorkerSame
    <1>4. QED
        BY <1>2, <1>3

\* A worker that holds nothing, and moves between places where nothing is held, is in order.
LEMMA Rests ==
    ASSUME IInv, NEW p \in Replicas, flushing[p] = NULL, NEW x \in {"off", "exited", "idle"},
           pc' = [pc EXCEPT ![p] = x], UNCHANGED <<job, record, result, flushing>>
    PROVE  WorkerOf(p)' /\ \A q \in Replicas \ {p} : WorkerSame(q)
    <1>1. pc'[p] = x /\ flushing'[p] = NULL
        BY DEF IInv, TypeOK
    <1>2. WorkerOf(p)'
        BY <1>1 DEF WorkerOf, Holding, Finalizing
    <1>3. \A q \in Replicas \ {p} : WorkerSame(q)
        BY DEF IInv, TypeOK, WorkerSame
    <1>4. QED
        BY <1>2, <1>3

\* Starting, stopping, and the calls that fail and leave nothing behind.
LEMMA ProcessRun ==
    ASSUME IInv, RunInv, NEW p \in Replicas,
           \/ Boot(p) \/ RecoverRefused(p) \/ RecoverError(p) \/ Stop(p) \/ Poll(p)
           \/ ExitProcess(p) \/ StopIdle(p) \/ ClaimRefused(p) \/ ClaimError(p) \/ FinishInvalid(p)
           \/ FinalizeConflict(p) \/ FinalizeRefused(p) \/ FinalizeError(p)
    PROVE  RunStep(p)
    <1>1. CASE Boot(p) \/ RecoverRefused(p) \/ RecoverError(p) \/ Stop(p) \/ Poll(p)
        <2>1. UNCHANGED <<exec, pending, next, printed, token, ran, late, pc, job, record, result, flushing>>
            BY <1>1 DEF Boot, RecoverRefused, RecoverError, Stop, Poll, table, local, outside
        <2>2. \A q \in Replicas : WorkerSame(q)
            BY <2>1 DEF WorkerSame
        <2>3. WorkerOf(p)'
            BY <2>1 DEF RunInv, WorkerOf, Finalizing, HasStatusIn, Exists
        <2>4. QED
            BY <2>1, <2>2, <2>3, QuietRun
    <1>2. CASE ExitProcess(p)
        <2>1. pc' = [pc EXCEPT ![p] = "off"]
            BY <1>2 DEF ExitProcess
        <2>2. UNCHANGED <<exec, pending, next, printed, token, ran, late, job, record, result, flushing>>
            BY <1>2 DEF ExitProcess, table, local, outside
        <2>3. flushing[p] = NULL
            BY <1>2 DEF ExitProcess, IInv, HoldInv
        <2>4. QED
            BY <2>1, <2>2, <2>3, Rests, QuietRun
    <1>3. CASE \/ StopIdle(p) \/ ClaimRefused(p) \/ ClaimError(p) \/ FinishInvalid(p)
               \/ FinalizeConflict(p) \/ FinalizeRefused(p) \/ FinalizeError(p)
        <2>1. ForgetJob(p) /\ pc' = [pc EXCEPT ![p] = "exited"]
            BY <1>3 DEF StopIdle, ClaimRefused, ClaimError, FinishInvalid, FinalizeConflict,
                        FinalizeRefused, FinalizeError, ExitWorker, Forget
        <2>2. UNCHANGED <<exec, pending, next, printed, token, ran, late>>
            BY <1>3 DEF StopIdle, ClaimRefused, ClaimError, FinishInvalid, FinalizeConflict,
                        FinalizeRefused, FinalizeError, table, outside
        <2>3. WorkerOf(p)' /\ \A q \in Replicas \ {p} : WorkerSame(q)
            BY <2>1, LetsGo DEF IInv
        <2>4. QED
            BY <2>2, <2>3, QuietRun
    <1>4. QED
        BY <1>1, <1>2, <1>3

\* A crash may leave behind the statement its flusher had sent.
LEMMA CrashRun ==
    ASSUME IInv, RunInv, NEW p \in Replicas, Crash(p)
    PROVE  RunStep(p)
    <1>1. /\ ForgetJob(p) /\ pc' = [pc EXCEPT ![p] = "off"] /\ late' = late \union LateOnes(p)
          /\ UNCHANGED <<exec, pending, next, printed, token, ran>>
        BY DEF Crash, Forget, table
    <1>2. WorkerOf(p)' /\ \A q \in Replicas \ {p} : WorkerSame(q)
        BY <1>1, LetsGo DEF IInv
    <1>3. LateInv'
        BY <1>1 DEF RunInv, LateInv, LateOnes, WorkerOf
    <1>4. \A id \in Ids : RunSame(id)
        BY <1>1 DEF RunSame
    <1>5. QED
        BY <1>1, <1>2, <1>3, <1>4 DEF RunStep

\* ClaimSelect holds a queued row.
LEMMA ClaimSelectRun ==
    ASSUME IInv, RunInv, NEW p \in Replicas, ClaimSelect(p)
    PROVE  RunStep(p)
    <1>1. /\ pc[p] = "idle" /\ pc' = [pc EXCEPT ![p] = "claiming"]
          /\ UNCHANGED <<exec, pending, next, printed, token, ran, late, record, result, flushing>>
        BY DEF ClaimSelect, table, outside
    <1>2. PICK id \in Ids : job' = [job EXCEPT ![p] = id]
        BY DEF ClaimSelect
    <1>3. \A q \in Replicas \ {p} : WorkerSame(q)
        BY <1>1, <1>2 DEF IInv, TypeOK, WorkerSame
    <1>4. flushing[p] = NULL /\ pc'[p] = "claiming"
        BY <1>1 DEF IInv, HoldInv, TypeOK
    <1>5. WorkerOf(p)'
        BY <1>1, <1>4 DEF WorkerOf, Finalizing
    <1>6. QED
        BY <1>1, <1>3, <1>5, QuietRun

\* What Finished makes of the record.
LEMMA FinishedRow ==
    ASSUME IInv, NEW p \in Replicas, pc[p] = "finishing"
    PROVE  /\ Finished(p).logs = Capped(printed[job[p]])
           /\ Finished(p).failure # "worker_restarted"
           /\ Finished(p).status = "succeeded" =>
                 Finished(p).output = Finished(p).build /\ result[p] = "ok"
    <1>1. PICK row \in Rows : row = record[p]
        BY Held DEF IInv, Holding
    <1>2. result[p] \in {"ok", "unprepared", "failed"}
        BY DEF IInv, TypeOK, HoldInv
    <1>3. CASE result[p] = "ok"
        BY <1>1, <1>3, NullAssumption DEF Finished, Succeed, Rows
    <1>4. CASE result[p] # "ok"
        BY <1>1, <1>2, <1>4 DEF Finished, Fail, Rows
    <1>5. QED
        BY <1>3, <1>4

\* Preparing fails, the handler returns, the outcome is chosen.
LEMMA OutcomeRun ==
    ASSUME IInv, RunInv, NEW p \in Replicas, PrepareFails(p) \/ HandlerReturns(p) \/ Finish(p)
    PROVE  RunStep(p)
    <1>1. /\ UNCHANGED <<exec, pending, next, printed, token, ran, late, job, flushing>>
          /\ pc[p] \in {"preparing", "running", "finishing"}
        BY DEF PrepareFails, HandlerReturns, Finish, table, outside
    <1>2. \A q \in Replicas \ {p} : WorkerSame(q)
        BY <1>1 DEF PrepareFails, HandlerReturns, Finish, IInv, TypeOK, WorkerSame
    <1>3. WorkerOf(p)
        BY DEF RunInv
    <1>4. CASE PrepareFails(p)
        <2>1. pc[p] = "preparing" /\ pc'[p] = "finishing" /\ result'[p] = "unprepared"
            BY <1>4 DEF PrepareFails, IInv, TypeOK
        <2>2. WorkerOf(p)'
            BY <1>1, <1>3, <2>1 DEF WorkerOf, Finalizing, Holding, HasStatusIn, Exists
        <2>3. QED
            BY <1>1, <1>2, <2>2, QuietRun
    <1>5. CASE HandlerReturns(p)
        <2>1. pc[p] = "running" /\ pc'[p] = "closing"
            BY <1>5 DEF HandlerReturns, IInv, TypeOK
        <2>2. WorkerOf(p)'
            BY <1>1, <1>3, <2>1 DEF WorkerOf, Finalizing, Holding, HasStatusIn, Exists
        <2>3. QED
            BY <1>1, <1>2, <2>2, QuietRun
    <1>6. CASE Finish(p)
        <2>1. /\ pc[p] = "finishing" /\ pc'[p] \in {"finalizing", "finalizing_detached"}
              /\ record'[p] = Finished(p)
            BY <1>6 DEF Finish, IInv, TypeOK
        <2>2. PICK row : row = Finished(p)
            OBVIOUS
        <2>3. /\ row.logs = Capped(printed[job[p]]) /\ row.failure # "worker_restarted"
              /\ row.status = "succeeded" => row.output = row.build /\ result[p] = "ok"
            BY <2>1, <2>2, FinishedRow
        <2>4. flushing[p] = NULL
            BY <2>1 DEF IInv, HoldInv
        <2>5. WorkerOf(p)'
            BY <1>1, <1>3, <2>1, <2>2, <2>3, <2>4
            DEF WorkerOf, Finalizing, Holding, HasStatusIn, Exists, Capped
        <2>6. QED
            BY <1>1, <1>2, <2>5, QuietRun
    <1>7. QED
        BY <1>4, <1>5, <1>6

\* The flusher takes what is printed, and a statement that fails may still be on its way.
LEMMA FlusherRun ==
    ASSUME IInv, RunInv, NEW p \in Replicas, FlushTake(p) \/ FlushRefused(p) \/ FlushError(p)
    PROVE  RunStep(p)
    <1>1. /\ UNCHANGED <<exec, pending, next, printed, token, ran, pc, job, record, result>>
          /\ pc[p] \in {"running", "closing"}
          /\ late' \subseteq late \union LateOnes(p)
          /\ flushing' \in {flushing, [flushing EXCEPT ![p] = printed[job[p]]],
                            [flushing EXCEPT ![p] = NULL]}
        BY DEF FlushTake, FlushRefused, FlushError, table, outside, IInv, HoldInv
    <1>2. \A q \in Replicas \ {p} : WorkerSame(q)
        BY <1>1 DEF IInv, TypeOK, WorkerSame
    <1>3. job[p] \in Ids
        BY <1>1, Held DEF IInv, Holding
    <1>4. printed[job[p]] \in Nat /\ flushing'[p] \in {flushing[p], printed[job[p]], NULL}
        BY <1>1, <1>3 DEF IInv, TypeOK
    <1>5. WorkerOf(p)'
        BY <1>1, <1>4 DEF RunInv, WorkerOf, Finalizing, HasStatusIn, Exists
    <1>6. LateInv'
        BY <1>1 DEF RunInv, LateInv, LateOnes, WorkerOf
    <1>7. \A id \in Ids : RunSame(id)
        BY <1>1 DEF RunSame
    <1>8. QED
        BY <1>1, <1>2, <1>5, <1>6, <1>7 DEF RunStep

-----------------------------------------------------------------------------
(* Steps that write the execution a worker holds. *)

\* What a worker past its claim may rely on.
LEMMA HolderFacts ==
    ASSUME IInv, RunInv, NEW p \in Replicas, pc[p] \in Holding \ {"claiming"}
    PROVE  /\ job[p] \in Ids /\ job[p] # NULL /\ ~Unborn(job[p]) /\ ~StatusIs(job[p], "queued")
           /\ record[p] \in Rows /\ WorkerOf(p) /\ RunOf(job[p])
           /\ Exists(job[p]) => exec[job[p]] \in Rows
    <1>1. job[p] \in Ids /\ record[p] \in Rows
        BY Held DEF IInv
    <1>2. ~Unborn(job[p]) /\ ~StatusIs(job[p], "queued")
        BY <1>1 DEF IInv, FreshInv, HoldInv
    <1>3. QED
        BY <1>1, <1>2, NullAssumption DEF RunInv, IInv, TypeOK, Exists

\* A row's logs and the amount printed are numbers.
LEMMA Lengths ==
    ASSUME TypeOK, NEW id \in Ids
    PROVE  printed[id] \in Nat /\ (Exists(id) => exec[id] \in Rows /\ exec[id].logs \in Nat)
    <1>1. Exists(id) => exec[id] \in Rows
        BY DEF TypeOK, Exists
    <1>2. Exists(id) => exec[id].logs \in Nat
        BY <1>1, ConstantsAssumption DEF Rows, LogLengths
    <1>3. QED
        BY <1>1, <1>2, ConstantsAssumption DEF TypeOK

\* A step that leaves the row alone and works on the histories of the execution it holds.
LEMMA HistoryRun ==
    ASSUME IInv, RunInv, NEW p \in Replicas, pc[p] \in Holding \ {"claiming"},
           UNCHANGED <<exec, pending, next, late, job>>,
           \A id \in Ids \ {job[p]} : RunSame(id), \A q \in Replicas \ {p} : WorkerSame(q),
           printed'[job[p]] \in Nat, printed'[job[p]] >= printed[job[p]],
           RunOf(job[p])', WorkerOf(p)'
    PROVE  RunStep(p)
    <1>1. job'[p] = job[p]
        OBVIOUS
    <1>2. LateInv'
        <2>1. ASSUME NEW stmt \in late PROVE stmt.logs <= printed'[stmt.id]
            <3>1. stmt.id \in Ids /\ stmt.logs \in Nat /\ stmt.logs <= printed[stmt.id]
                BY ConstantsAssumption DEF IInv, TypeOK, RunInv, LateInv
            <3>2. printed[stmt.id] \in Nat
                BY <3>1, Lengths DEF IInv
            <3>3. CASE stmt.id = job[p]
                BY <3>1, <3>2, <3>3
            <3>4. CASE stmt.id # job[p]
                BY <3>1, <3>4 DEF RunSame
            <3>5. QED
                BY <3>3, <3>4
        <2>2. QED
            BY <2>1 DEF LateInv
    <1>3. ASSUME NEW id \in Ids, id = job[p] PROVE RowKept(id) /\ RunOf(id)'
        BY <1>1, <1>3, SameKept DEF RunOf, StatusIs, HasStatusIn, Exists, Unborn
    <1>4. QED
        BY <1>2, <1>3 DEF RunStep

\* The handler is started, with a token or without.
LEMMA StartRun ==
    ASSUME IInv, RunInv, NEW p \in Replicas, StartHandler(p)
    PROVE  RunStep(p)
    <1>1. /\ pc[p] = "preparing" /\ pc' = [pc EXCEPT ![p] = "running"]
          /\ ran' = [ran EXCEPT ![job[p]] = @ + 1]
          /\ UNCHANGED <<exec, pending, next, late, job, record, result, flushing, printed>>
        BY DEF StartHandler, table, local
    <1>2. PICK t \in {"none", "live"} : token' = [token EXCEPT ![job[p]] = t]
        BY DEF StartHandler
    <1>3. pc[p] \in Holding \ {"claiming"}
        BY <1>1 DEF Holding
    <1>4. /\ job[p] \in Ids /\ job[p] # NULL /\ ~Unborn(job[p]) /\ ~StatusIs(job[p], "queued")
          /\ WorkerOf(p) /\ RunOf(job[p]) /\ printed[job[p]] \in Nat
        BY <1>3, HolderFacts, Lengths DEF IInv
    <1>5. ran[job[p]] = 0 /\ ran'[job[p]] = 1 /\ token'[job[p]] = t /\ pc'[p] = "running"
        BY <1>1, <1>2, <1>4 DEF IInv, RanInv, TypeOK
    <1>6. (\A id \in Ids \ {job[p]} : RunSame(id)) /\ \A q \in Replicas \ {p} : WorkerSame(q)
        BY <1>1, <1>2 DEF RunSame, WorkerSame, IInv, TypeOK
    <1>7. RunOf(job[p])'
        BY <1>1, <1>3, <1>4, <1>5
        DEF RunOf, WorkerOf, StatusIs, HasStatusIn, Exists, Unborn, Terminal
    <1>8. WorkerOf(p)'
        BY <1>1, <1>3, <1>4, <1>5 DEF WorkerOf, Finalizing, Holding, HasStatusIn, Exists
    <1>9. QED
        BY <1>1, <1>3, <1>4, <1>6, <1>7, <1>8, HistoryRun

\* The handler prints.
LEMMA PrintsRun ==
    ASSUME IInv, RunInv, NEW p \in Replicas, HandlerPrints(p)
    PROVE  RunStep(p)
    <1>1. /\ pc[p] = "running" /\ printed' = [printed EXCEPT ![job[p]] = @ + 1]
          /\ UNCHANGED <<exec, pending, next, late, pc, job, record, result, flushing, token, ran>>
        BY DEF HandlerPrints, table
    <1>2. pc[p] \in Holding \ {"claiming"}
        BY <1>1 DEF Holding
    <1>3. /\ job[p] \in Ids /\ job[p] # NULL /\ ~Unborn(job[p]) /\ ~StatusIs(job[p], "queued")
          /\ WorkerOf(p) /\ RunOf(job[p]) /\ printed[job[p]] \in Nat
          /\ Exists(job[p]) => exec[job[p]].logs \in Nat
        BY <1>2, HolderFacts, Lengths DEF IInv
    <1>4. printed'[job[p]] = printed[job[p]] + 1
        BY <1>1, <1>3 DEF IInv, TypeOK
    <1>5. (\A id \in Ids \ {job[p]} : RunSame(id)) /\ \A q \in Replicas \ {p} : WorkerSame(q)
        BY <1>1 DEF RunSame, WorkerSame, IInv, TypeOK
    <1>6. RunOf(job[p])'
        BY <1>1, <1>2, <1>3, <1>4
        DEF RunOf, WorkerOf, StatusIs, HasStatusIn, Exists, Unborn, Terminal
    <1>7. flushing[p] # NULL => flushing[p] \in Nat
        BY ConstantsAssumption DEF IInv, TypeOK
    <1>8. WorkerOf(p)'
        BY <1>1, <1>3, <1>4, <1>7 DEF WorkerOf, Finalizing, Holding, HasStatusIn, Exists
    <1>9. printed'[job[p]] \in Nat /\ printed'[job[p]] >= printed[job[p]]
        BY <1>3, <1>4
    <1>10. QED
        BY <1>1, <1>2, <1>5, <1>6, <1>8, <1>9, HistoryRun

\* The deferred calls of execute: the token is revoked, or left to its TTL.
LEMMA CloseRun ==
    ASSUME IInv, RunInv, NEW p \in Replicas, CloseStream(p) \/ CloseStreamUnrevoked(p)
    PROVE  RunStep(p)
    <1>1. /\ pc[p] = "closing" /\ pc' = [pc EXCEPT ![p] = "finishing"] /\ flushing[p] = NULL
          /\ UNCHANGED <<exec, pending, next, late, job, record, result, flushing, printed, ran>>
        BY DEF CloseStream, CloseStreamUnrevoked, table, local
    <1>2. pc[p] \in Holding \ {"claiming"}
        BY <1>1 DEF Holding
    <1>3. /\ job[p] \in Ids /\ job[p] # NULL /\ ~Unborn(job[p]) /\ ~StatusIs(job[p], "queued")
          /\ WorkerOf(p) /\ RunOf(job[p]) /\ printed[job[p]] \in Nat
        BY <1>2, HolderFacts, Lengths DEF IInv
    <1>4. token'[job[p]] # "live" /\ \A id \in Ids \ {job[p]} : token'[id] = token[id]
        BY <1>3 DEF CloseStream, CloseStreamUnrevoked, Revoked, IInv, TypeOK
    <1>5. (\A id \in Ids \ {job[p]} : RunSame(id)) /\ (\A q \in Replicas \ {p} : WorkerSame(q))
          /\ pc'[p] = "finishing"
        BY <1>1, <1>4 DEF RunSame, WorkerSame, IInv, TypeOK
    <1>6. RunOf(job[p])'
        BY <1>1, <1>2, <1>3, <1>4
        DEF RunOf, WorkerOf, StatusIs, HasStatusIn, Exists, Unborn, Terminal
    <1>7. WorkerOf(p)'
        BY <1>1, <1>2, <1>3, <1>4, <1>5 DEF WorkerOf, Finalizing, Holding, HasStatusIn, Exists
    <1>8. QED
        BY <1>1, <1>2, <1>3, <1>5, <1>6, <1>7, HistoryRun

\* The claim: nothing is printed and there is no token yet.
LEMMA ClaimRun ==
    ASSUME IInv, RunInv, NEW p \in Replicas, ClaimCommit(p) \/ ClaimLost(p)
    PROVE  RunStep(p)
    <1>1. /\ pc[p] = "claiming" /\ pc[p] \in Holding
          /\ exec' = [exec EXCEPT ![job[p]] = Claim(exec[job[p]])]
          /\ UNCHANGED <<pending, next, printed, token, ran, late>>
        <2>1. pc[p] = "claiming" /\ pc[p] \in Holding
            BY DEF ClaimCommit, ClaimLost, Holding
        <2>2. job[p] \in Ids
            BY <2>1, Held DEF IInv
        <2>3. QED
            BY <2>1, <2>2 DEF ClaimCommit, ClaimLost, outside, IInv, TypeOK
    <1>2. PICK i \in Ids, old \in Rows : i = job[p] /\ old = exec[i] /\ old.status = "queued"
        BY <1>1, Held DEF IInv
    <1>3. PICK row \in Rows : row = Claim(old)
        BY ClaimIsRow
    <1>4. /\ row.status = "running" /\ row.build = old.build /\ row.rerunOf = old.rerunOf
          /\ row.logs = 0 /\ row # NULL /\ old # NULL
        BY <1>3, ClaimIsRow, RowAssumption
    <1>5. exec'[i] = row /\ \A id \in Ids \ {i} : exec'[id] = exec[id]
        BY <1>1, <1>2, <1>3 DEF IInv, TypeOK
    <1>6. \A id \in Ids \ {i} : RunSame(id)
        BY <1>1, <1>5 DEF RunSame
    <1>7. RunOf(i) /\ printed[i] = 0 /\ token[i] = "none"
        BY <1>2, <1>4 DEF RunInv, RunOf, StatusIs, Exists
    <1>8. RowKept(i) /\ RunOf(i)'
        BY <1>1, <1>2, <1>4, <1>5, <1>7
        DEF RowKept, RunOf, Exists, StatusIs, HasStatusIn, Terminal, Unborn
    <1>9. LateInv'
        BY <1>1 DEF RunInv, LateInv
    <1>10. CASE ClaimLost(p)
        <2>1. WorkerOf(p)' /\ \A q \in Replicas \ {p} : WorkerSame(q)
            BY <1>10, LetsGo DEF IInv, ClaimLost, ExitWorker
        <2>2. QED
            BY <1>1, <1>2, <1>6, <1>8, <1>9, <2>1 DEF RunStep
    <1>11. CASE ClaimCommit(p)
        <2>1. /\ pc'[p] = "preparing" /\ job'[p] = i /\ flushing'[p] = NULL
              /\ \A q \in Replicas \ {p} : WorkerSame(q)
            BY <1>1, <1>2, <1>11 DEF ClaimCommit, IInv, TypeOK, HoldInv, WorkerSame
        <2>2. WorkerOf(p)'
            BY <1>1, <1>4, <1>5, <1>7, <2>1 DEF WorkerOf, Finalizing, HasStatusIn, Exists, Terminal
        <2>3. QED
            BY <1>1, <1>2, <1>6, <1>8, <1>9, <2>1, <2>2 DEF RunStep
    <1>12. QED
        BY <1>10, <1>11

\* Finalize writes what the handler did over a row that is still running.
LEMMA FinalizeRun ==
    ASSUME IInv, RunInv, NEW p \in Replicas, Finalize(p) \/ FinalizeLost(p)
    PROVE  RunStep(p)
    <1>1. /\ Finalizing(p) /\ Finalizable(p) /\ exec' = [exec EXCEPT ![job[p]] = record[p]]
          /\ ForgetJob(p) /\ UNCHANGED <<pending, next, printed, token, ran, late>>
        BY DEF Finalize, FinalizeLost, FinalizeInterrupted, Finalizing, Forget, outside
    <1>2. pc[p] \in Holding \ {"claiming"}
        BY <1>1 DEF Finalizing, Holding
    <1>3. PICK x \in {"idle", "exited"} : pc' = [pc EXCEPT ![p] = x]
        BY DEF Finalize, FinalizeLost, ExitWorker
    <1>4. WorkerOf(p)' /\ \A q \in Replicas \ {p} : WorkerSame(q)
        BY <1>1, <1>3, LetsGo DEF IInv
    <1>5. PICK i \in Ids, row \in Rows : i = job[p] /\ row = record[p]
        BY <1>2, HolderFacts
    <1>6. ~Unborn(i) /\ WorkerOf(p)
        BY <1>2, <1>5, HolderFacts
    <1>7. /\ row.status \in Terminal /\ row # NULL
          /\ Exists(i) /\ exec[i].build = row.build /\ exec[i].rerunOf = row.rerunOf
          /\ exec[i].status = "running"
        BY <1>1, <1>5, RowAssumption DEF Finalizable, ValidateTransitionTo
    <1>8. /\ token[i] # "live" /\ row.logs = Capped(printed[i])
          /\ row.failure # "worker_restarted"
          /\ row.status = "succeeded" => row.output = row.build /\ ran[i] = 1
        BY <1>1, <1>5, <1>6 DEF WorkerOf
    <1>9. exec'[i] = row /\ \A id \in Ids \ {i} : exec'[id] = exec[id]
        BY <1>1, <1>5 DEF IInv, TypeOK
    <1>10. \A id \in Ids \ {i} : RunSame(id)
        BY <1>1, <1>9 DEF RunSame
    <1>11. RowKept(i)
        BY <1>7, <1>9 DEF RowKept, Exists
    <1>12. RunOf(i)'
        BY <1>1, <1>6, <1>7, <1>8, <1>9
        DEF RunOf, Exists, StatusIs, HasStatusIn, Terminal, Unborn, Capped
    <1>13. LateInv'
        BY <1>1 DEF RunInv, LateInv
    <1>14. QED
        BY <1>1, <1>4, <1>5, <1>10, <1>11, <1>12, <1>13 DEF RunStep

-----------------------------------------------------------------------------
(* Steps that write rows whoever holds them. *)

\* What a statement may do to the row of a running execution: change its logs, or fail it.
RowEnded(id) ==
    /\ exec[id] # NULL /\ exec'[id] # NULL /\ exec[id].status = "running"
    /\ exec'[id].build = exec[id].build /\ exec'[id].rerunOf = exec[id].rerunOf
    /\ exec'[id].logs <= printed[id]
    /\ \/ exec'[id].status = "running"
       \/ exec'[id].status = "failed" /\ exec'[id].failure = "worker_restarted"

\* A statement that leaves each row alone or does that keeps every execution in order, and
\* every worker that it leaves alone.
LEMMA RowsEndedKeeps ==
    ASSUME IInv, RunInv, UNCHANGED <<pending, next, printed, token, ran>>,
           \A id \in Ids : exec'[id] = exec[id] \/ RowEnded(id)
    PROVE  /\ RerunsInv' /\ \A id \in Ids : RunOf(id)'
           /\ \A p \in Replicas : WorkerSame(p) => WorkerOf(p)'
    <1>1. \A id \in Ids : RowKept(id)
        BY SameKept DEF RowEnded, RowKept, Exists, Terminal
    <1>2. RerunsInv'
        BY <1>1, RerunsKept DEF IInv, RunInv
    <1>3. ASSUME NEW id \in Ids PROVE RunOf(id)'
        <2>1. CASE exec'[id] = exec[id]
            BY <2>1, RunKept DEF RunInv, RunSame, Unborn
        <2>2. CASE RowEnded(id)
            <3>1. ~Unborn(id)
                BY <2>2 DEF RowEnded, IInv, FreshInv
            <3>2. QED
                BY <2>2, <3>1 DEF RowEnded, RunOf, Unborn, StatusIs, HasStatusIn, Exists, Terminal
        <2>3. QED
            BY <2>1, <2>2
    <1>4. ASSUME NEW p \in Replicas, WorkerSame(p) PROVE WorkerOf(p)'
        <2>1. WorkerOf(p)
            BY DEF RunInv
        <2>2. CASE job[p] = NULL
            BY <1>4, <2>1, <2>2, WorkerKept
        <2>3. CASE job[p] # NULL
            <3>1. PICK i \in Ids : i = job[p] /\ i = job'[p]
                BY <1>4, <2>3 DEF IInv, TypeOK, WorkerSame
            <3>2. HasStatusIn(i, Terminal)' => \/ exec'[i] = exec[i]
                                               \/ exec'[i].failure = "worker_restarted"
                BY DEF RowEnded, HasStatusIn, Exists, Terminal
            <3>3. QED
                BY <1>4, <2>1, <3>1, <3>2 DEF WorkerOf, WorkerSame, Finalizing, HasStatusIn, Exists
        <2>4. QED
            BY <2>2, <2>3
    <1>5. QED
        BY <1>2, <1>3, <1>4

\* SaveLogs is such a statement when it carries a prefix of the output.
LEMMA SaveLogsEnds ==
    ASSUME IInv, NEW i \in Ids, NEW n \in 0 .. MaxPrint, n <= printed[i], exec' = SaveLogs(i, n)
    PROVE  \A id \in Ids : exec'[id] = exec[id] \/ RowEnded(id)
    <1>1. CASE StatusIs(i, "running") /\ n <= MaxLogBytes
        <2>1. PICK old \in Rows : old = exec[i] /\ old # NULL /\ old.status = "running"
            BY <1>1 DEF IInv, TypeOK, StatusIs, Exists
        <2>2. PICK row : row = [old EXCEPT !.logs = n]
            OBVIOUS
        <2>3. exec'[i] = row /\ \A id \in Ids \ {i} : exec'[id] = exec[id]
            BY <1>1, <2>1, <2>2 DEF SaveLogs, IInv, TypeOK
        <2>4. n \in LogLengths
            BY ConstantsAssumption DEF LogLengths
        <2>5. /\ row \in Rows /\ row.logs = n /\ row.build = old.build /\ row.rerunOf = old.rerunOf
              /\ row.status = "running"
            BY <2>1, <2>2, <2>4 DEF Rows
        <2>6. row # NULL
            BY <2>5, RowAssumption
        <2>7. QED
            BY <2>1, <2>3, <2>5, <2>6 DEF RowEnded
    <1>2. CASE ~(StatusIs(i, "running") /\ n <= MaxLogBytes)
        BY <1>2 DEF SaveLogs
    <1>3. QED
        BY <1>1, <1>2

\* Both flushes carry a prefix, the one in time and the late one.
LEMMA FlushEnds ==
    ASSUME IInv, RunInv, (\E p \in Replicas : FlushSave(p)) \/ \E stmt \in late : LateFlush(stmt)
    PROVE  \A id \in Ids : exec'[id] = exec[id] \/ RowEnded(id)
    <1>1. ASSUME NEW p \in Replicas, FlushSave(p)
          PROVE  \A id \in Ids : exec'[id] = exec[id] \/ RowEnded(id)
        <2>1. flushing[p] # NULL /\ exec' = SaveLogs(job[p], flushing[p])
            BY <1>1 DEF FlushSave
        <2>2. job[p] \in Ids
            BY <2>1, Held DEF IInv, HoldInv, Holding
        <2>3. flushing[p] \in 0 .. MaxPrint /\ flushing[p] <= printed[job[p]]
            BY <2>1 DEF IInv, TypeOK, RunInv, WorkerOf
        <2>4. QED
            BY <2>1, <2>2, <2>3, SaveLogsEnds
    <1>2. ASSUME NEW stmt \in late, LateFlush(stmt)
          PROVE  \A id \in Ids : exec'[id] = exec[id] \/ RowEnded(id)
        <2>1. exec' = SaveLogs(stmt.id, stmt.logs)
            BY <1>2 DEF LateFlush
        <2>2. stmt.id \in Ids /\ stmt.logs \in 0 .. MaxPrint /\ stmt.logs <= printed[stmt.id]
            BY DEF IInv, TypeOK, RunInv, LateInv
        <2>3. QED
            BY <2>1, <2>2, SaveLogsEnds
    <1>3. QED
        BY <1>1, <1>2

\* A flush, in time or late.
LEMMA FlushKeeps ==
    ASSUME IInv, RunInv, (\E p \in Replicas : FlushSave(p)) \/ \E stmt \in late : LateFlush(stmt)
    PROVE  RunInv'
    <1>0. \A id \in Ids : exec'[id] = exec[id] \/ RowEnded(id)
        BY FlushEnds
    <1>1. ASSUME NEW p \in Replicas, FlushSave(p) PROVE RunInv'
        <2>1. /\ flushing[p] # NULL /\ exec' = SaveLogs(job[p], flushing[p])
              /\ flushing' = [flushing EXCEPT ![p] = NULL]
              /\ UNCHANGED <<pending, next, printed, token, ran, late, pc, job, record, result>>
            BY <1>1 DEF FlushSave, outside
        <2>2. pc[p] \in {"running", "closing"}
            BY <2>1 DEF IInv, HoldInv
        <2>3. PICK i \in Ids : i = job[p]
            BY <2>2, Held DEF IInv, Holding
        <2>5. /\ RerunsInv' /\ \A id \in Ids : RunOf(id)'
              /\ \A q \in Replicas : WorkerSame(q) => WorkerOf(q)'
            BY <1>0, <2>1, RowsEndedKeeps
        <2>6. \A q \in Replicas \ {p} : WorkerSame(q)
            BY <2>1 DEF IInv, TypeOK, WorkerSame
        <2>7. WorkerOf(p)'
            <3>1. flushing'[p] = NULL
                BY <2>1 DEF IInv, TypeOK
            <3>2. exec'[i] = exec[i] \/ exec'[i].failure = "worker_restarted"
                      \/ exec'[i].status \notin Terminal
                BY <1>0 DEF RowEnded, Terminal
            <3>3. QED
                BY <2>1, <2>2, <2>3, <3>1, <3>2
                DEF RunInv, WorkerOf, Finalizing, HasStatusIn, Exists
        <2>8. LateInv'
            BY <2>1 DEF RunInv, LateInv
        <2>9. QED
            BY <2>5, <2>6, <2>7, <2>8 DEF RunInv
    <1>2. ASSUME NEW stmt \in late, LateFlush(stmt) PROVE RunInv'
        <2>1. /\ exec' = SaveLogs(stmt.id, stmt.logs) /\ late' = late \ {stmt}
              /\ UNCHANGED <<pending, next, printed, token, ran, pc, job, record, result, flushing>>
            BY <1>2 DEF LateFlush, local
        <2>4. /\ RerunsInv' /\ \A id \in Ids : RunOf(id)'
              /\ \A q \in Replicas : WorkerSame(q) => WorkerOf(q)'
            BY <1>0, <2>1, RowsEndedKeeps
        <2>5. \A q \in Replicas : WorkerSame(q)
            BY <2>1 DEF WorkerSame
        <2>6. LateInv'
            BY <2>1 DEF RunInv, LateInv
        <2>7. QED
            BY <2>4, <2>5, <2>6 DEF RunInv
    <1>3. QED
        BY <1>1, <1>2

\* Recovery fails every running row with the logs it has.
LEMMA RecoverEnds ==
    ASSUME IInv, RunInv, NEW p \in Replicas, Recover(p), NEW id \in Ids
    PROVE  exec'[id] = exec[id] \/ RowEnded(id)
    <1>1. exec'[id] = IF StatusIs(id, "running") THEN Recovered(exec[id]) ELSE exec[id]
        BY DEF Recover
    <1>2. CASE StatusIs(id, "running")
        <2>1. PICK old \in Rows : old = exec[id] /\ old # NULL /\ old.status = "running"
            BY <1>2 DEF IInv, TypeOK, StatusIs, Exists
        <2>2. PICK row : row = Recovered(old)
            OBVIOUS
        <2>3. /\ row.logs = old.logs /\ row.build = old.build /\ row.rerunOf = old.rerunOf
              /\ row.status = "failed" /\ row.failure = "worker_restarted"
            BY <2>2 DEF Recovered, Fail, Rows
        <2>4. row \in Rows
            BY <1>2, <2>1, <2>2, RecoveredIsRow DEF IInv, RowsReadable, StatusIs
        <2>5. row # NULL
            BY <2>4, RowAssumption
        <2>6. old.logs <= printed[id]
            BY <1>2, <2>1 DEF RunInv, RunOf
        <2>7. exec'[id] = row
            BY <1>1, <1>2, <2>1, <2>2
        <2>8. QED
            BY <2>1, <2>3, <2>5, <2>6, <2>7 DEF RowEnded
    <1>3. CASE ~StatusIs(id, "running")
        BY <1>1, <1>3
    <1>4. QED
        BY <1>2, <1>3

\* So it keeps the invariant.
LEMMA RecoverKeeps ==
    ASSUME IInv, RunInv, NEW p \in Replicas, Recover(p)
    PROVE  RunInv'
    <1>1. /\ phase[p] = "booting" /\ pc' = [pc EXCEPT ![p] = "idle"]
          /\ UNCHANGED <<job, record, result, flushing>>
          /\ UNCHANGED <<pending, next, printed, token, ran, late>>
        BY DEF Recover, outside
    <1>2. \A id \in Ids : exec'[id] = exec[id] \/ RowEnded(id)
        BY RecoverEnds
    <1>3. /\ RerunsInv' /\ \A id \in Ids : RunOf(id)'
          /\ \A q \in Replicas : WorkerSame(q) => WorkerOf(q)'
        BY <1>1, <1>2, RowsEndedKeeps
    <1>4. flushing[p] = NULL
        BY <1>1 DEF IInv, HoldInv
    <1>5. WorkerOf(p)' /\ \A q \in Replicas \ {p} : WorkerSame(q)
        BY <1>1, <1>4, Rests
    <1>6. LateInv'
        BY <1>1 DEF RunInv, LateInv
    <1>7. QED
        BY <1>3, <1>5, <1>6 DEF RunInv

\* Requests: a rerun is resolved from an execution that has finished, and its row is
\* inserted only while that one is there.
LEMMA ResolveKeeps ==
    ASSUME IInv, RunInv, NEW b \in Builds, NEW o \in Ids \union {NULL},
           o # NULL => HasStatusIn(o, Terminal) /\ exec[o].build = b,
           next \in Ids, pending' = pending \union {[id |-> next, row |-> New(b, o)]},
           next' = next + 1,
           UNCHANGED <<exec, pc, job, record, result, flushing, late, printed, token, ran>>
    PROVE  RunInv'
    <1>1. PICK req : req = [id |-> next, row |-> New(b, o)]
        OBVIOUS
    <1>2. req.row.rerunOf = o /\ req.row.build = b
        BY <1>1 DEF New
    <1>3. \A id \in Ids : Unborn(id)' <=> Unborn(id)
        <2>1. \A r \in pending : r.id < next
            BY DEF IInv, FreshInv
        <2>2. next \in Nat /\ \A id \in Ids : id \in Nat
            BY DEF Ids
        <2>3. pending' = pending \union {req} /\ req.id = next
            BY <1>1
        <2>4. QED
            BY <2>1, <2>2, <2>3 DEF Unborn
    <1>4. ASSUME NEW row \in Rows PROVE RerunOf(row)' <=> RerunOf(row)
        <2>1. row.rerunOf \in Ids \union {NULL}
            BY DEF Rows
        <2>2. QED
            BY <1>3, <2>1 DEF RerunOf, Exists, HasStatusIn
    <1>5. RerunOf(req.row)'
        <2>1. o # NULL => ~Unborn(o)
            BY DEF HasStatusIn, Exists, IInv, FreshInv
        <2>2. req.row \in Rows
            BY <1>1, NewIsRow
        <2>3. RerunOf(req.row)
            BY <1>2, <2>1 DEF RerunOf
        <2>4. QED
            BY <1>4, <2>2, <2>3
    <1>6. RerunsInv'
        <2>1. \A r \in pending' : RerunOf(r.row)'
            BY <1>1, <1>4, <1>5 DEF RunInv, RerunsInv, IInv, TypeOK
        <2>2. ASSUME NEW id \in Ids, Exists(id)'
              PROVE  RerunOf(exec[id])' /\ (exec[id].rerunOf # NULL => Exists(exec[id].rerunOf))'
            <3>1. PICK row \in Rows : row = exec[id] /\ row = exec'[id]
                BY <2>2 DEF IInv, TypeOK, Exists
            <3>2. RerunOf(row) /\ (row.rerunOf # NULL => Exists(row.rerunOf))
                BY <2>2, <3>1 DEF RunInv, RerunsInv, Exists
            <3>3. RerunOf(row)'
                BY <1>4, <3>2
            <3>4. QED
                BY <3>1, <3>2, <3>3 DEF RerunOf, Exists, HasStatusIn, Unborn
        <2>3. QED
            BY <2>1, <2>2 DEF RerunsInv
    <1>7. ASSUME NEW id \in Ids PROVE RunOf(id)'
        BY <1>3, RunKept DEF RunInv, RunSame
    <1>8. ASSUME NEW p \in Replicas PROVE WorkerOf(p)'
        <2>1. WorkerSame(p) /\ \A id \in Ids : RunSame(id)
            BY DEF WorkerSame, RunSame
        <2>2. job[p] # NULL => job[p] \in Ids
            BY DEF IInv, TypeOK
        <2>3. QED
            BY <2>1, <2>2, WorkerKept DEF RunInv
    <1>9. LateInv'
        BY DEF RunInv, LateInv
    <1>10. QED
        BY <1>6, <1>7, <1>8, <1>9 DEF RunInv

\* The two requests that resolve a build.
LEMMA RequestsResolve ==
    ASSUME IInv, RunInv, (\E b \in Builds : CreateResolve(b)) \/ \E id \in Ids : RerunResolve(id)
    PROVE  RunInv'
    <1>1. ASSUME NEW b \in Builds, CreateResolve(b) PROVE RunInv'
        BY <1>1, ResolveKeeps DEF CreateResolve, Request, outside
    <1>2. ASSUME NEW id \in Ids, RerunResolve(id) PROVE RunInv'
        <2>1. exec[id] \in Rows
            BY <1>2 DEF RerunResolve, HasStatusIn, Exists, IInv, TypeOK
        <2>2. PICK b \in Builds : b = exec[id].build
            BY <2>1 DEF Rows
        <2>3. QED
            BY <1>2, <2>2, ResolveKeeps DEF RerunResolve, Request, outside
    <1>3. QED
        BY <1>1, <1>2

\* A request inserts its row or is refused.
LEMMA InsertKeeps ==
    ASSUME IInv, RunInv, NEW req \in pending, Insert(req) \/ Refuse(req)
    PROVE  RunInv'
    <1>1. /\ pending' = pending \ {req}
          /\ UNCHANGED <<next, pc, job, record, result, flushing, late, printed, token, ran>>
          /\ \/ Insertable(req.row) /\ exec' = [exec EXCEPT ![req.id] = req.row]
             \/ UNCHANGED exec
        BY DEF Insert, Refuse, local, outside
    <1>2. PICK i \in Ids, row \in Rows : i = req.id /\ row = req.row
        BY DEF IInv, TypeOK
    <1>3. Unborn(i) /\ exec[i] = NULL /\ printed[i] = 0 /\ token[i] = "none"
        BY <1>2 DEF Unborn, IInv, FreshInv, RunInv, RunOf
    <1>4. \A id \in Ids : Unborn(id)' => Unborn(id)
        BY <1>1 DEF Unborn
    <1>5. row # NULL /\ row.status = "queued"
        <2>1. row.build \in Builds /\ row.rerunOf \in Ids \union {NULL}
            BY DEF Rows
        <2>2. row = New(row.build, row.rerunOf)
            BY <1>2 DEF IInv, FreshInv
        <2>3. QED
            BY <2>1, <2>2, NewIsRow, RowAssumption
    <1>6. /\ \A id \in Ids \ {i} : exec'[id] = exec[id]
          /\ \/ exec'[i] = NULL
             \/ exec'[i] = row /\ (row.rerunOf # NULL => Exists(row.rerunOf))
        BY <1>1, <1>2, <1>3 DEF IInv, TypeOK, Insertable
    <1>7. ASSUME NEW r \in Rows, RerunOf(r) PROVE RerunOf(r)'
        <2>1. CASE r.rerunOf = NULL
            BY <2>1 DEF RerunOf
        <2>2. CASE r.rerunOf # NULL
            <3>1. r.rerunOf \in Ids /\ r.rerunOf # i
                BY <1>3, <1>7, <2>2 DEF Rows, RerunOf
            <3>2. exec'[r.rerunOf] = exec[r.rerunOf] /\ ~Unborn(r.rerunOf)'
                BY <1>4, <1>6, <1>7, <2>2, <3>1 DEF RerunOf
            <3>3. QED
                BY <1>7, <3>2 DEF RerunOf, Exists, HasStatusIn
        <2>3. QED
            BY <2>1, <2>2
    <1>8. ASSUME NEW o \in Ids, Exists(o) PROVE Exists(o)'
        BY <1>3, <1>6, <1>8 DEF Exists
    <1>9. RerunsInv'
        <2>1. \A r \in pending' : RerunOf(r.row)'
            BY <1>1, <1>7 DEF RunInv, RerunsInv, IInv, TypeOK
        <2>2. ASSUME NEW id \in Ids, Exists(id)'
              PROVE  RerunOf(exec[id])' /\ (exec[id].rerunOf # NULL => Exists(exec[id].rerunOf))'
            <3>1. PICK r \in Rows : /\ r = exec'[id] /\ RerunOf(r)
                                    /\ r.rerunOf # NULL => Exists(r.rerunOf)
                <4>1. CASE id = i
                    BY <1>2, <1>6, <2>2, <4>1 DEF RunInv, RerunsInv, Exists
                <4>2. CASE id # i
                    <5>1. exec'[id] = exec[id] /\ exec[id] # NULL /\ exec[id] \in Rows
                        BY <1>6, <2>2, <4>2 DEF Exists, IInv, TypeOK
                    <5>2. QED
                        BY <5>1 DEF RunInv, RerunsInv, Exists
                <4>3. QED
                    BY <4>1, <4>2
            <3>2. r.rerunOf \in Ids \union {NULL}
                BY DEF Rows
            <3>3. RerunOf(r)' /\ (r.rerunOf # NULL => Exists(r.rerunOf)')
                BY <1>7, <1>8, <3>1, <3>2
            <3>4. QED
                BY <3>1, <3>3 DEF RerunOf, Exists, HasStatusIn, Unborn
        <2>3. QED
            BY <2>1, <2>2 DEF RerunsInv
    <1>10. ASSUME NEW id \in Ids PROVE RunOf(id)'
        <2>1. CASE id = i
            BY <1>1, <1>3, <1>5, <1>6, <2>1 DEF RunOf, StatusIs, HasStatusIn, Exists, Terminal
        <2>2. CASE id # i
            BY <1>1, <1>4, <1>6, <2>2, RunKept DEF RunInv, RunSame
        <2>3. QED
            BY <2>1, <2>2
    <1>11. ASSUME NEW p \in Replicas PROVE WorkerOf(p)'
        <2>1. job[p] # NULL => job[p] \in Ids \ {i}
            BY <1>3 DEF IInv, TypeOK, FreshInv
        <2>2. WorkerSame(p) /\ \A id \in Ids \ {i} : RunSame(id)
            BY <1>1, <1>6 DEF WorkerSame, RunSame
        <2>3. QED
            BY <2>1, <2>2, WorkerKept DEF RunInv
    <1>12. LateInv'
        BY <1>1 DEF RunInv, LateInv
    <1>13. QED
        BY <1>9, <1>10, <1>11, <1>12 DEF RunInv

\* A deletion takes an original and its reruns alike: they have the same build.
LEMMA DeleteKeeps ==
    ASSUME IInv, RunInv, NEW a \in Apps, DeleteApp(a)
    PROVE  RunInv'
    <1>1. /\ exec' = [id \in Ids |-> IF Exists(id) /\ AppOf[exec[id].build] = a THEN NULL ELSE exec[id]]
          /\ UNCHANGED <<pending, next, pc, job, record, result, flushing, late, printed, token, ran>>
        BY DEF DeleteApp, local, outside
    <1>2. \A id : Unborn(id)' <=> Unborn(id)
        BY <1>1 DEF Unborn
    <1>3. \A id \in Ids : \/ exec'[id] = NULL /\ (Exists(id) => AppOf[exec[id].build] = a)
                          \/ exec'[id] = exec[id] /\ Exists(id) /\ AppOf[exec[id].build] # a
        BY <1>1 DEF Exists
    <1>4. ASSUME NEW r \in Rows, RerunOf(r) PROVE RerunOf(r)'
        <2>1. r.rerunOf \in Ids \union {NULL}
            BY DEF Rows
        <2>2. QED
            BY <1>2, <1>3, <1>4, <2>1 DEF RerunOf, Exists, HasStatusIn
    <1>5. RerunsInv'
        <2>1. \A r \in pending' : RerunOf(r.row)'
            BY <1>1, <1>4 DEF RunInv, RerunsInv, IInv, TypeOK
        <2>2. ASSUME NEW id \in Ids, Exists(id)'
              PROVE  RerunOf(exec[id])' /\ (exec[id].rerunOf # NULL => Exists(exec[id].rerunOf))'
            <3>1. PICK r \in Rows : r = exec[id] /\ r = exec'[id] /\ AppOf[r.build] # a /\ Exists(id)
                BY <1>3, <2>2 DEF Exists, IInv, TypeOK
            <3>2. RerunOf(r) /\ (r.rerunOf # NULL => Exists(r.rerunOf))
                BY <3>1 DEF RunInv, RerunsInv
            <3>3. r.rerunOf \in Ids \union {NULL}
                BY DEF Rows
            <3>4. r.rerunOf # NULL => exec'[r.rerunOf] = exec[r.rerunOf]
                BY <1>3, <3>1, <3>2, <3>3 DEF RerunOf
            <3>5. RerunOf(r)' /\ (r.rerunOf # NULL => Exists(r.rerunOf)')
                BY <1>4, <3>2, <3>4 DEF Exists
            <3>6. QED
                BY <3>1, <3>5 DEF RerunOf, Exists, HasStatusIn, Unborn
        <2>3. QED
            BY <2>1, <2>2 DEF RerunsInv
    <1>6. ASSUME NEW id \in Ids PROVE RunOf(id)'
        <2>1. RunOf(id)
            BY DEF RunInv
        <2>2. QED
            BY <1>1, <1>2, <1>3, <2>1 DEF RunOf, StatusIs, HasStatusIn, Exists
    <1>7. ASSUME NEW p \in Replicas PROVE WorkerOf(p)'
        <2>1. WorkerOf(p)
            BY DEF RunInv
        <2>2. CASE job[p] = NULL
            <3>1. WorkerSame(p)
                BY <1>1 DEF WorkerSame
            <3>2. QED
                BY <2>1, <2>2, <3>1, WorkerKept
        <2>3. CASE job[p] # NULL
            <3>1. PICK i \in Ids : i = job[p] /\ i = job'[p]
                BY <1>1, <2>3 DEF IInv, TypeOK
            <3>2. exec'[i] = NULL \/ exec'[i] = exec[i]
                BY <1>3
            <3>3. QED
                BY <1>1, <2>1, <3>1, <3>2 DEF WorkerOf, Finalizing, HasStatusIn, Exists
        <2>4. QED
            BY <2>2, <2>3
    <1>8. LateInv'
        BY <1>1 DEF RunInv, LateInv
    <1>9. QED
        BY <1>5, <1>6, <1>7, <1>8 DEF RunInv

\* A token expires when nobody holds its execution.
LEMMA ExpireKeeps ==
    ASSUME IInv, RunInv, NEW i \in Ids, TokenExpires(i)
    PROVE  RunInv'
    <1>1. /\ \A p \in Replicas : job[p] # i
          /\ token' = [token EXCEPT ![i] = "none"]
          /\ UNCHANGED <<exec, pending, next, pc, job, record, result, flushing, late, printed, ran>>
        BY DEF TokenExpires, table, local
    <1>2. /\ \A id \in Ids \ {i} : RunSame(id)
          /\ token'[i] = "none" /\ \A p \in Replicas : WorkerSame(p)
        BY <1>1 DEF RunSame, WorkerSame, IInv, TypeOK
    <1>3. ASSUME NEW id \in Ids PROVE RunOf(id)'
        <2>1. Unborn(id)' <=> Unborn(id)
            BY <1>1 DEF Unborn
        <2>2. CASE id = i
            BY <1>1, <1>2, <2>1, <2>2 DEF RunInv, RunOf, StatusIs, HasStatusIn, Exists
        <2>3. CASE id # i
            BY <1>2, <2>1, <2>3, RunKept DEF RunInv
        <2>4. QED
            BY <2>2, <2>3
    <1>4. ASSUME NEW p \in Replicas PROVE WorkerOf(p)'
        <2>1. job[p] # NULL => job[p] \in Ids \ {i}
            BY <1>1 DEF IInv, TypeOK
        <2>2. QED
            BY <1>2, <2>1, WorkerKept DEF RunInv
    <1>5. RerunsInv'
        BY <1>1, SameKept, RerunsKept DEF IInv, RunInv
    <1>6. LateInv'
        BY <1>1 DEF RunInv, LateInv
    <1>7. QED
        BY <1>3, <1>4, <1>5, <1>6 DEF RunInv

-----------------------------------------------------------------------------
(* The invariant holds. *)

\* It holds before anything has happened.
LEMMA RunInit == Init => RunInv
    <1>1. SUFFICES ASSUME Init PROVE RunInv
        OBVIOUS
    <1>2. RerunsInv /\ LateInv
        BY <1>1 DEF Init, RerunsInv, LateInv, Exists
    <1>3. ASSUME NEW id \in Ids PROVE RunOf(id)
        BY <1>1 DEF Init, RunOf, StatusIs, HasStatusIn, Exists
    <1>4. ASSUME NEW p \in Replicas PROVE WorkerOf(p)
        BY <1>1 DEF Init, WorkerOf, Finalizing, Holding
    <1>5. QED
        BY <1>2, <1>3, <1>4 DEF RunInv

\* Every step keeps it.
LEMMA RunNext ==
    ASSUME IInv, RunInv, [Next]_vars
    PROVE  RunInv'
    <1>1. ASSUME NEW p \in Replicas, WorkerStep(p) \/ FaultStep(p) \/ HandlerPrints(p) \/ FlushTake(p)
          PROVE  RunInv'
        <2>1. CASE \/ Boot(p) \/ RecoverRefused(p) \/ RecoverError(p) \/ Stop(p) \/ Poll(p)
                   \/ ExitProcess(p) \/ StopIdle(p) \/ ClaimRefused(p) \/ ClaimError(p)
                   \/ FinishInvalid(p) \/ FinalizeConflict(p) \/ FinalizeRefused(p)
                   \/ FinalizeError(p) \/ Crash(p) \/ ClaimSelect(p) \/ ClaimCommit(p) \/ ClaimLost(p)
            BY <2>1, ProcessRun, CrashRun, ClaimSelectRun, ClaimRun, RunStepKeeps
        <2>2. CASE \/ PrepareFails(p) \/ HandlerReturns(p) \/ Finish(p) \/ FlushTake(p)
                   \/ FlushRefused(p) \/ FlushError(p) \/ StartHandler(p) \/ HandlerPrints(p)
                   \/ CloseStream(p) \/ CloseStreamUnrevoked(p) \/ Finalize(p) \/ FinalizeLost(p)
            BY <2>2, OutcomeRun, FlusherRun, StartRun, PrintsRun, CloseRun, FinalizeRun, RunStepKeeps
        <2>3. QED
            BY <1>1, <2>1, <2>2, FlushKeeps, RecoverKeeps DEF WorkerStep, FaultStep
    <1>2. CASE UNCHANGED vars
        <2>1. /\ \A id \in Ids : RunSame(id) /\ (Unborn(id)' <=> Unborn(id))
              /\ \A p \in Replicas : WorkerSame(p)
              /\ UNCHANGED <<pending, next, late, exec, printed>>
            BY <1>2 DEF vars, RunSame, WorkerSame, Unborn
        <2>2. \A id \in Ids : RunOf(id)'
            BY <2>1, RunKept DEF RunInv
        <2>3. ASSUME NEW p \in Replicas PROVE WorkerOf(p)'
            <3>1. job[p] # NULL => job[p] \in Ids
                BY DEF IInv, TypeOK
            <3>2. QED
                BY <2>1, <3>1, WorkerKept DEF RunInv
        <2>4. RerunsInv'
            BY <2>1, SameKept, RerunsKept DEF IInv, RunInv
        <2>5. LateInv'
            BY <2>1 DEF RunInv, LateInv
        <2>6. QED
            BY <2>2, <2>3, <2>4, <2>5 DEF RunInv
    <1>3. QED
        BY <1>1, <1>2, RequestsResolve, InsertKeeps, DeleteKeeps, FlushKeeps, ExpireKeeps DEF Next

\* Every reachable state is in order, beside the claims: what is in the table, on its way to
\* it, and in the workers' hands agrees with what the handlers did.
THEOREM RunsInOrder == Spec => [](IInv /\ RunInv)
    <1>1. Init => IInv /\ RunInv
        BY InitInv, RunInit
    <1>2. IInv /\ RunInv /\ [Next]_vars => (IInv /\ RunInv)'
        BY NextInv, RunNext
    <1>3. QED
        BY <1>1, <1>2, PTL DEF Spec

\* A run that its own worker ends has the logs of the whole run, whatever SaveLogs
\* statements are still on their way; an interrupted one has a prefix.
THEOREM LastLogsWin == Spec => []FinalLogsWin
    <1>1. RunInv => FinalLogsWin
        BY DEF RunInv, RunOf, FinalLogsWin
    <1>2. QED
        BY <1>1, RunsInOrder, PTL

\* The build pinned when an execution is accepted is the one that answers, in it and in
\* every rerun of it, whatever is deleted meanwhile.
THEOREM PinsKept == Spec => []PinKept
    <1>1. ASSUME RunInv PROVE PinKept
        <2>1. Provenance
            BY <1>1 DEF RunInv, RunOf, Provenance
        <2>2. RerunRepeats
            BY <1>1 DEF RunInv, RerunsInv, RerunOf, RerunRepeats
        <2>3. QED
            BY <2>1, <2>2 DEF PinKept
    <1>2. QED
        BY <1>1, RunsInOrder, PTL

\* No execution that its worker finished has a token that still resolves, unless the
\* revocation itself failed.
THEOREM TokensSpent == Spec => []TokenSpent
    <1>1. RunInv => TokenSpent
        BY DEF RunInv, RunOf, TokenSpent
    <1>2. QED
        BY <1>1, RunsInOrder, PTL

-----------------------------------------------------------------------------
(* Logs only grow. *)

\* A SaveLogs statement on its way is the only one of its execution, carries no less than
\* the row has, and belongs to a worker that is gone or stopping, if to any.  A database
\* error breaks this: the worker flushes on while a statement it was told had failed is
\* still on its way.
GrowInv ==
    /\ \A stmt \in late : /\ ~Unborn(stmt.id) /\ ~StatusIs(stmt.id, "queued")
                          /\ StatusIs(stmt.id, "running") => exec[stmt.id].logs <= stmt.logs
    /\ \A s1, s2 \in late : s1.id = s2.id => s1 = s2
    /\ \A p \in Replicas :
          flushing[p] # NULL /\ StatusIs(job[p], "running") => exec[job[p]].logs <= flushing[p]
    /\ \A p \in Replicas, stmt \in late :
          job[p] = stmt.id => flushing[p] = NULL /\ phase[p] = "stopping"

\* What every step but a flush does to a row.
RowQuiet(id) ==
    /\ Unborn(id)' => Unborn(id)
    /\ StatusIs(id, "queued")' => StatusIs(id, "queued") \/ Unborn(id)
    /\ StatusIs(id, "running")' =>
          \/ StatusIs(id, "running") /\ exec'[id].logs = exec[id].logs
          \/ StatusIs(id, "queued") /\ exec'[id].logs = 0

\* What every step but one about a flush does to a worker.
FlusherQuiet(p) ==
    \/ job'[p] = NULL /\ flushing'[p] = NULL
    \/ /\ job'[p] = job[p] /\ flushing'[p] \in {flushing[p], NULL}
       /\ phase[p] = "stopping" => phase'[p] = "stopping"
    \/ job'[p] \in Ids /\ StatusIs(job'[p], "queued") /\ flushing'[p] = NULL

\* A step that is quiet about rows, workers and statements keeps GrowInv.
LEMMA QuietGrows ==
    ASSUME IInv, GrowInv, UNCHANGED late, \A id \in Ids : RowQuiet(id),
           \A p \in Replicas : FlusherQuiet(p)
    PROVE  GrowInv'
    <1>1. ASSUME NEW stmt \in late
          PROVE  /\ ~Unborn(stmt.id)' /\ ~StatusIs(stmt.id, "queued")'
                 /\ StatusIs(stmt.id, "running")' => exec'[stmt.id].logs <= stmt.logs
        <2>1. stmt.id \in Ids /\ stmt.logs \in Nat
            BY ConstantsAssumption DEF IInv, TypeOK
        <2>2. RowQuiet(stmt.id)
            BY <2>1
        <2>3. QED
            BY <2>1, <2>2 DEF GrowInv, RowQuiet
    <1>2. ASSUME NEW p \in Replicas, flushing'[p] # NULL, StatusIs(job[p], "running")'
          PROVE  exec'[job'[p]].logs <= flushing'[p]
        <2>1. job'[p] = job[p] /\ flushing'[p] = flushing[p] /\ FlusherQuiet(p)
            BY <1>2 DEF FlusherQuiet
        <2>2. PICK i \in Ids : i = job[p] /\ ~StatusIs(i, "queued")
            <3>1. pc[p] \in {"running", "closing"}
                BY <1>2, <2>1 DEF IInv, HoldInv
            <3>2. job[p] \in Ids /\ ~StatusIs(job[p], "queued")
                BY <3>1, Held DEF IInv, HoldInv, Holding
            <3>3. QED
                BY <3>2
        <2>3. StatusIs(i, "running")'
            BY <1>2, <2>1, <2>2 DEF StatusIs, Exists
        <2>4. StatusIs(i, "running") /\ exec'[i].logs = exec[i].logs
            BY <2>2, <2>3 DEF RowQuiet
        <2>5. QED
            BY <1>2, <2>1, <2>2, <2>4 DEF GrowInv
    <1>3. ASSUME NEW p \in Replicas, NEW stmt \in late, job'[p] = stmt.id
          PROVE  flushing'[p] = NULL /\ phase'[p] = "stopping"
        <2>1. stmt.id \in Ids /\ ~StatusIs(stmt.id, "queued")
            BY DEF IInv, TypeOK, GrowInv
        <2>2. QED
            BY <1>3, <2>1, NullAssumption DEF GrowInv, FlusherQuiet
    <1>4. QED
        BY <1>1, <1>2, <1>3 DEF GrowInv

\* Steps that leave the table and the requests alone are quiet about every row.
LEMMA UnwrittenQuiet ==
    ASSUME NEW id, UNCHANGED <<exec, pending, next>>
    PROVE  RowQuiet(id)
    BY DEF RowQuiet, Unborn, StatusIs, Exists

\* So are those that write it, but for flushes.
LEMMA WrittenQuiet ==
    ASSUME IInv, NEW id \in Ids,
           \/ \E b \in Builds : CreateResolve(b)
           \/ \E o \in Ids : RerunResolve(o)
           \/ \E req \in pending : Insert(req) \/ Refuse(req)
           \/ \E a \in Apps : DeleteApp(a)
           \/ \E p \in Replicas : \/ Recover(p) \/ ClaimCommit(p) \/ ClaimLost(p)
                                  \/ Finalize(p) \/ FinalizeLost(p)
    PROVE  RowQuiet(id)
    <1>1. CASE (\E b \in Builds : CreateResolve(b)) \/ \E o \in Ids : RerunResolve(o)
        <2>1. UNCHANGED exec /\ next' = next + 1 /\ next \in Nat /\ id \in Nat
            BY <1>1 DEF CreateResolve, RerunResolve, Request, Ids
        <2>2. PICK req : req.id = next /\ pending' = pending \union {req}
            <3>1. ASSUME NEW b, NEW o
                  PROVE  [id |-> next, row |-> New(b, o)].id = next
                OBVIOUS
            <3>2. QED
                BY <1>1, <3>1 DEF CreateResolve, RerunResolve, Request
        <2>3. Unborn(id)' => Unborn(id)
            BY <2>1, <2>2 DEF Unborn
        <2>4. QED
            BY <2>1, <2>3 DEF RowQuiet, StatusIs, Exists
    <1>2. ASSUME NEW req \in pending, Insert(req) \/ Refuse(req) PROVE RowQuiet(id)
        <2>1. /\ pending' = pending \ {req} /\ UNCHANGED next
              /\ exec' = [exec EXCEPT ![req.id] = req.row] \/ UNCHANGED exec
            BY <1>2 DEF Insert, Refuse
        <2>2. PICK i \in Ids, row \in Rows : i = req.id /\ row = req.row /\ Unborn(i)
            BY DEF IInv, TypeOK, Unborn
        <2>3. row.status = "queued"
            <3>1. row = New(row.build, row.rerunOf)
                BY <2>2 DEF IInv, FreshInv
            <3>2. QED
                BY <3>1 DEF New
        <2>4. Unborn(id)' => Unborn(id)
            BY <2>1 DEF Unborn
        <2>5. exec'[id] = exec[id] \/ (id = i /\ exec'[id] = row)
            BY <2>1, <2>2 DEF IInv, TypeOK
        <2>6. QED
            BY <2>2, <2>3, <2>4, <2>5 DEF RowQuiet, StatusIs, Exists
    <1>3. ASSUME NEW a \in Apps, DeleteApp(a) PROVE RowQuiet(id)
        BY <1>3 DEF DeleteApp, RowQuiet, Unborn, StatusIs, Exists
    <1>4. ASSUME NEW p \in Replicas, Recover(p) PROVE RowQuiet(id)
        <2>1. /\ UNCHANGED <<pending, next>>
              /\ exec'[id] = IF StatusIs(id, "running") THEN Recovered(exec[id]) ELSE exec[id]
            BY <1>4 DEF Recover
        <2>2. StatusIs(id, "running") => Recovered(exec[id]).status = "failed"
            BY RecoveredIsRow DEF IInv, TypeOK, RowsReadable, StatusIs, Exists
        <2>3. QED
            BY <2>1, <2>2 DEF RowQuiet, Unborn, StatusIs, Exists
    <1>5. ASSUME NEW p \in Replicas, ClaimCommit(p) \/ ClaimLost(p) PROVE RowQuiet(id)
        <2>1. pc[p] = "claiming" /\ UNCHANGED <<pending, next>>
              /\ exec' = [exec EXCEPT ![job[p]] = Claim(@)]
            BY <1>5 DEF ClaimCommit, ClaimLost
        <2>2. PICK i \in Ids, old \in Rows : i = job[p] /\ old = exec[i] /\ old.status = "queued"
            BY <2>1, Held DEF IInv, Holding
        <2>3. old # NULL /\ Claim(old).status = "running" /\ Claim(old).logs = 0
            BY ClaimIsRow, RowAssumption
        <2>4. exec'[id] = exec[id] \/ (id = i /\ exec'[id] = Claim(old))
            BY <2>1, <2>2 DEF IInv, TypeOK
        <2>5. QED
            BY <2>1, <2>2, <2>3, <2>4 DEF RowQuiet, Unborn, StatusIs, Exists
    <1>6. ASSUME NEW p \in Replicas, Finalize(p) \/ FinalizeLost(p) PROVE RowQuiet(id)
        <2>1. /\ Finalizing(p) /\ UNCHANGED <<pending, next>>
              /\ exec' = [exec EXCEPT ![job[p]] = record[p]]
            BY <1>6, FinalizeInterruptedBound DEF Finalize, FinalizeLost, IInv, TypeOK
        <2>2. record[p].status \in Terminal
            BY <2>1 DEF IInv, HoldInv
        <2>3. exec'[id] = exec[id] \/ exec'[id] = record[p]
            BY <2>1 DEF IInv, TypeOK
        <2>4. QED
            BY <2>1, <2>2, <2>3 DEF RowQuiet, Unborn, StatusIs, Exists, Terminal
    <1>7. QED
        BY <1>1, <1>2, <1>3, <1>4, <1>5, <1>6

\* A worker that lets go is quiet, and so are the others.
LEMMA ForgetQuiet ==
    ASSUME TypeOK, NEW p \in Replicas, ForgetJob(p), \A q \in Replicas \ {p} : phase'[q] = phase[q]
    PROVE  \A q \in Replicas : FlusherQuiet(q)
    BY DEF TypeOK, ForgetJob, FlusherQuiet

\* So are those that keep what they hold.
LEMMA KeepQuiet ==
    ASSUME IInv, UNCHANGED job, \A q \in Replicas : flushing'[q] \in {flushing[q], NULL},
           \A q \in Replicas : job[q] # NULL /\ phase[q] = "stopping" => phase'[q] = "stopping"
    PROVE  \A q \in Replicas : FlusherQuiet(q)
    <1>1. ASSUME NEW q \in Replicas, job[q] = NULL PROVE flushing[q] = NULL
        BY <1>1 DEF IInv, HoldInv, Holding
    <1>2. QED
        BY <1>1 DEF FlusherQuiet

\* Every step but one about a flush is quiet.
LEMMA QuietStep ==
    ASSUME IInv, [Next]_vars, ~\E stmt \in late : LateFlush(stmt),
           ~\E p \in Replicas : FlushTake(p) \/ FlushSave(p) \/ FlushError(p) \/ Crash(p)
    PROVE  UNCHANGED late /\ (\A id \in Ids : RowQuiet(id)) /\ \A p \in Replicas : FlusherQuiet(p)
    <1>1. CASE \/ \E b \in Builds : CreateResolve(b)
               \/ \E o \in Ids : RerunResolve(o)
               \/ \E req \in pending : Insert(req) \/ Refuse(req)
               \/ \E a \in Apps : DeleteApp(a)
        <2>1. UNCHANGED <<late, job, flushing, phase>>
            BY <1>1 DEF CreateResolve, RerunResolve, Request, Insert, Refuse, DeleteApp, local, outside
        <2>2. QED
            BY <1>1, <2>1, WrittenQuiet, KeepQuiet
    <1>2. CASE UNCHANGED vars \/ \E id \in Ids : TokenExpires(id)
        <2>1. UNCHANGED <<late, job, flushing, phase, exec, pending, next>>
            BY <1>2 DEF vars, TokenExpires, table, local
        <2>2. QED
            BY <2>1, UnwrittenQuiet, KeepQuiet
    <1>3. ASSUME NEW p \in Replicas,
                 \/ StopIdle(p) \/ ClaimRefused(p) \/ ClaimError(p) \/ ClaimLost(p)
                 \/ FinishInvalid(p) \/ Finalize(p) \/ FinalizeConflict(p) \/ FinalizeRefused(p)
                 \/ FinalizeError(p) \/ FinalizeLost(p)
          PROVE  UNCHANGED late /\ (\A id \in Ids : RowQuiet(id)) /\ \A q \in Replicas : FlusherQuiet(q)
        <2>1. ForgetJob(p) /\ UNCHANGED late
            BY <1>3 DEF StopIdle, ClaimRefused, ClaimError, ClaimLost, FinishInvalid, Finalize,
                        FinalizeConflict, FinalizeRefused, FinalizeError, FinalizeLost, Forget,
                        outside
        <2>2. \A q \in Replicas \ {p} : phase'[q] = phase[q]
            BY <1>3 DEF StopIdle, ClaimRefused, ClaimError, ClaimLost, FinishInvalid, Finalize,
                        FinalizeConflict, FinalizeRefused, FinalizeError, FinalizeLost,
                        ExitWorker, IInv, TypeOK
        <2>3. \/ ClaimLost(p) \/ Finalize(p) \/ FinalizeLost(p)
              \/ UNCHANGED <<exec, pending, next>>
            BY <1>3 DEF StopIdle, ClaimRefused, ClaimError, FinishInvalid, FinalizeConflict,
                        FinalizeRefused, FinalizeError, table
        <2>4. QED
            BY <2>1, <2>2, <2>3, ForgetQuiet, WrittenQuiet, UnwrittenQuiet DEF IInv
    <1>4. ASSUME NEW p \in Replicas, ClaimSelect(p)
          PROVE  UNCHANGED late /\ (\A id \in Ids : RowQuiet(id)) /\ \A q \in Replicas : FlusherQuiet(q)
        <2>1. /\ pc[p] = "idle" /\ UNCHANGED <<late, flushing, phase, exec, pending, next>>
              /\ \E id \in Ids : StatusIs(id, "queued") /\ job' = [job EXCEPT ![p] = id]
            BY <1>4 DEF ClaimSelect, Claimable, table, outside
        <2>2. flushing[p] = NULL
            BY <2>1 DEF IInv, HoldInv
        <2>3. \A q \in Replicas : FlusherQuiet(q)
            BY <2>1, <2>2 DEF FlusherQuiet, IInv, TypeOK
        <2>4. QED
            BY <2>1, <2>3, UnwrittenQuiet
    <1>5. ASSUME NEW p \in Replicas,
                 \/ Boot(p) \/ Recover(p) \/ RecoverRefused(p) \/ RecoverError(p) \/ Stop(p)
                 \/ Poll(p) \/ ExitProcess(p) \/ ClaimCommit(p) \/ PrepareFails(p) \/ StartHandler(p)
                 \/ HandlerPrints(p) \/ FlushRefused(p) \/ HandlerReturns(p) \/ CloseStream(p)
                 \/ CloseStreamUnrevoked(p) \/ Finish(p)
          PROVE  UNCHANGED late /\ (\A id \in Ids : RowQuiet(id)) /\ \A q \in Replicas : FlusherQuiet(q)
        <2>1. UNCHANGED <<late, job>> /\ \A q \in Replicas : flushing'[q] \in {flushing[q], NULL}
            BY <1>5 DEF Boot, Recover, RecoverRefused, RecoverError, Stop, Poll, ExitProcess,
                        ClaimCommit, FlushRefused, IInv, TypeOK,
                        PrepareFails, StartHandler, HandlerPrints, HandlerReturns, CloseStream,
                        CloseStreamUnrevoked, Finish, local, outside
        <2>2. \/ Recover(p) \/ ClaimCommit(p)
              \/ UNCHANGED <<exec, pending, next>>
            BY <1>5 DEF Boot, RecoverRefused, RecoverError, Stop, Poll, ExitProcess, FlushRefused,
                        PrepareFails, StartHandler, HandlerPrints, HandlerReturns, CloseStream,
                        CloseStreamUnrevoked, Finish, table
        <2>3. ASSUME NEW q \in Replicas, job[q] # NULL, phase[q] = "stopping"
              PROVE  phase'[q] = "stopping"
            <3>1. pc[q] \in Holding
                BY <2>3 DEF IInv, HoldInv
            <3>2. CASE Boot(p) \/ Recover(p) \/ RecoverRefused(p) \/ RecoverError(p) \/ Stop(p)
                BY <2>3, <3>2 DEF Boot, Recover, RecoverRefused, RecoverError, Stop, IInv, TypeOK
            <3>3. CASE ExitProcess(p)
                BY <2>3, <3>1, <3>3 DEF ExitProcess, IInv, TypeOK, Holding
            <3>4. CASE \/ Poll(p) \/ ClaimCommit(p) \/ PrepareFails(p) \/ StartHandler(p)
                       \/ HandlerPrints(p) \/ FlushRefused(p) \/ HandlerReturns(p) \/ CloseStream(p)
                       \/ CloseStreamUnrevoked(p) \/ Finish(p)
                BY <2>3, <3>4 DEF Poll, ClaimCommit, PrepareFails, StartHandler, HandlerPrints, FlushRefused,
                                  HandlerReturns, CloseStream, CloseStreamUnrevoked, Finish
            <3>5. QED
                BY <1>5, <3>2, <3>3, <3>4
        <2>4. QED
            BY <2>1, <2>2, <2>3, KeepQuiet, WrittenQuiet, UnwrittenQuiet
    <1>6. QED
        BY <1>1, <1>2, <1>3, <1>4, <1>5 DEF Next, WorkerStep, FaultStep

\* The flusher takes at least what the row has, and only while no other statement of the
\* execution is on its way.
LEMMA FlushTakeGrows ==
    ASSUME IInv, RunInv, GrowInv, NEW p \in Replicas, FlushTake(p)
    PROVE  GrowInv' /\ UNCHANGED exec
    <1>1. /\ pc[p] \in {"running", "closing"}
          /\ UNCHANGED <<exec, pending, next, late, phase, job>>
          /\ \/ UNCHANGED flushing
             \/ phase[p] = "up" /\ flushing' = [flushing EXCEPT ![p] = printed[job[p]]]
        BY DEF FlushTake, table, outside
    <1>2. job[p] \in Ids
        BY <1>1, Held DEF IInv, Holding
    <1>3. StatusIs(job[p], "running") => exec[job[p]].logs <= printed[job[p]]
        BY <1>2 DEF RunInv, RunOf
    <1>4. \A q \in Replicas : \/ flushing'[q] = flushing[q]
                              \/ q = p /\ phase[p] = "up" /\ flushing'[p] = printed[job[p]]
        BY <1>1 DEF IInv, TypeOK
    <1>5. \A s \in late : ~Unborn(s.id)' /\ ~StatusIs(s.id, "queued")'
                          /\ (StatusIs(s.id, "running")' => exec'[s.id].logs <= s.logs)
        BY <1>1 DEF GrowInv, Unborn, StatusIs, Exists
    <1>6. \A q \in Replicas : flushing'[q] # NULL /\ StatusIs(job[q], "running")' =>
                              exec'[job'[q]].logs <= flushing'[q]
        BY <1>1, <1>3, <1>4 DEF GrowInv, StatusIs, Exists
    <1>7. \A q \in Replicas, s \in late : job'[q] = s.id => flushing'[q] = NULL /\ phase'[q] = "stopping"
        BY <1>1, <1>4 DEF GrowInv
    <1>8. QED
        BY <1>1, <1>5, <1>6, <1>7 DEF GrowInv

\* A worker that ends on a statement leaves at most that one behind.
LEMMA LeftBehind ==
    ASSUME IInv, GrowInv, "dberror" \notin Faults, NEW p \in Replicas, FlushError(p) \/ Crash(p)
    PROVE  GrowInv' /\ UNCHANGED exec
    <1>1. /\ UNCHANGED <<exec, pending, next>> /\ late' \in {late, late \union LateOnes(p)}
          /\ flushing' = [flushing EXCEPT ![p] = NULL]
          /\ \/ /\ UNCHANGED <<phase, job>> /\ phase[p] = "stopping"
             \/ /\ job' = [job EXCEPT ![p] = NULL]
                /\ phase' = [phase EXCEPT ![p] = "down"]
        BY DEF FlushError, Crash, Forget, ForgetJob, Interrupted, Fault, table
    <1>2. flushing[p] # NULL => job[p] \in Ids /\ ~Unborn(job[p]) /\ ~StatusIs(job[p], "queued")
        <2>1. flushing[p] # NULL => pc[p] \in Holding \ {"claiming"}
            BY DEF IInv, HoldInv, Holding
        <2>2. QED
            BY <2>1, Held DEF IInv, HoldInv, FreshInv
    <1>3. /\ flushing'[p] = NULL /\ \A q \in Replicas \ {p} : flushing'[q] = flushing[q]
          /\ \A q \in Replicas \ {p} : job'[q] = job[q] /\ phase'[q] = phase[q]
          /\ job'[p] = NULL \/ (job'[p] = job[p] /\ phase'[p] = "stopping")
        BY <1>1 DEF IInv, TypeOK
    <1>4. \A s \in late' : s \in late \/ (flushing[p] # NULL /\ s.id = job[p] /\ s.logs = flushing[p])
        BY <1>1 DEF LateOnes
    <1>5. \A s \in late' : ~Unborn(s.id) /\ ~StatusIs(s.id, "queued")
                           /\ (StatusIs(s.id, "running") => exec[s.id].logs <= s.logs)
        BY <1>2, <1>4 DEF GrowInv
    <1>6. \A s1, s2 \in late' : s1.id = s2.id => s1 = s2
        <2>1. flushing[p] # NULL => \A s \in late : s.id # job[p]
            BY DEF GrowInv
        <2>2. QED
            BY <1>1, <2>1 DEF GrowInv, LateOnes
    <1>7. ASSUME NEW q \in Replicas, NEW s \in late', job'[q] = s.id
          PROVE  flushing'[q] = NULL /\ phase'[q] = "stopping"
        <2>1. CASE q = p
            <3>1. s.id # NULL
                BY <1>2, <1>4, NullAssumption DEF IInv, TypeOK
            <3>2. QED
                BY <1>3, <1>7, <2>1, <3>1
        <2>2. CASE q # p
            <3>1. job[q] = s.id /\ s.id # NULL
                BY <1>2, <1>3, <1>4, <1>7, <2>2, NullAssumption DEF IInv, TypeOK
            <3>2. s \in late
                BY <1>4, <2>2, <3>1 DEF IInv, HoldInv
            <3>3. QED
                BY <1>3, <2>2, <3>1, <3>2 DEF GrowInv
        <2>3. QED
            BY <2>1, <2>2
    <1>8. \A s \in late' : ~Unborn(s.id)' /\ ~StatusIs(s.id, "queued")'
                           /\ (StatusIs(s.id, "running")' => exec'[s.id].logs <= s.logs)
        BY <1>1, <1>5 DEF Unborn, StatusIs, Exists
    <1>9. \A q \in Replicas : flushing'[q] # NULL /\ StatusIs(job[q], "running")' =>
                              exec'[job'[q]].logs <= flushing'[q]
        BY <1>1, <1>3 DEF GrowInv, StatusIs, Exists
    <1>10. QED
        BY <1>1, <1>6, <1>7, <1>8, <1>9 DEF GrowInv

\* The logs of one running row, and no other, become those of the statement.
LEMMA SaveLogsGrows ==
    ASSUME IInv, NEW i \in Ids, NEW n \in 0 .. MaxPrint, exec' = SaveLogs(i, n),
           StatusIs(i, "running") => exec[i].logs <= n
    PROVE  \A id \in Ids :
               /\ \A s : StatusIs(id, s)' <=> StatusIs(id, s)
               /\ \/ exec'[id] = exec[id]
                  \/ /\ id = i /\ StatusIs(i, "running") /\ exec'[i].logs = n
                     /\ exec[i].logs <= exec'[i].logs
    <1>1. CASE StatusIs(i, "running") /\ n <= MaxLogBytes
        <2>1. PICK old \in Rows : old = exec[i] /\ old # NULL /\ old.status = "running"
            BY <1>1 DEF IInv, TypeOK, StatusIs, Exists
        <2>2. PICK row : row = [old EXCEPT !.logs = n]
            OBVIOUS
        <2>3. exec'[i] = row /\ \A id \in Ids \ {i} : exec'[id] = exec[id]
            BY <1>1, <2>1, <2>2 DEF SaveLogs, IInv, TypeOK
        <2>4. n \in LogLengths
            BY ConstantsAssumption DEF LogLengths
        <2>5. row \in Rows /\ row.logs = n /\ row.status = "running"
            BY <2>1, <2>2, <2>4 DEF Rows
        <2>6. row # NULL
            BY <2>5, RowAssumption
        <2>7. QED
            BY <1>1, <2>1, <2>3, <2>5, <2>6 DEF StatusIs, Exists
    <1>2. CASE ~(StatusIs(i, "running") /\ n <= MaxLogBytes)
        BY <1>2 DEF SaveLogs, StatusIs, Exists
    <1>3. QED
        BY <1>1, <1>2

\* A flush, in time or late, takes a row no further back.
LEMMA FlushGrows ==
    ASSUME IInv, GrowInv, (\E p \in Replicas : FlushSave(p)) \/ \E stmt \in late : LateFlush(stmt)
    PROVE  /\ GrowInv'
           /\ \A id \in Ids : StatusIs(id, "running") => exec[id].logs <= exec'[id].logs
    <1>1. PICK i \in Ids, n \in 0 .. MaxPrint, gone \in SUBSET late :
              /\ exec' = SaveLogs(i, n)
              /\ StatusIs(i, "running") => exec[i].logs <= n
              /\ late' = late \ gone /\ UNCHANGED <<pending, next, phase, job>>
              /\ \A q \in Replicas : flushing'[q] # NULL => flushing'[q] = flushing[q] /\ job[q] # i
              /\ \A s \in late : s.id = i => s \in gone
              /\ \A q \in Replicas : flushing'[q] = flushing[q] \/ flushing'[q] = NULL
        <2>1. ASSUME NEW p \in Replicas, FlushSave(p)
              PROVE  \E i \in Ids, n \in 0 .. MaxPrint, gone \in SUBSET late :
                      /\ exec' = SaveLogs(i, n)
                      /\ StatusIs(i, "running") => exec[i].logs <= n
                      /\ late' = late \ gone /\ UNCHANGED <<pending, next, phase, job>>
                      /\ \A q \in Replicas : flushing'[q] # NULL => flushing'[q] = flushing[q] /\ job[q] # i
                      /\ \A s \in late : s.id = i => s \in gone
                      /\ \A q \in Replicas : flushing'[q] = flushing[q] \/ flushing'[q] = NULL
            <3>1. /\ flushing[p] # NULL /\ exec' = SaveLogs(job[p], flushing[p])
                  /\ flushing' = [flushing EXCEPT ![p] = NULL]
                  /\ UNCHANGED <<pending, next, phase, job, late>>
                BY <2>1 DEF FlushSave, outside
            <3>2. job[p] \in Ids /\ flushing[p] \in 0 .. MaxPrint
                BY <3>1, Held DEF IInv, TypeOK, HoldInv, Holding
            <3>3. /\ StatusIs(job[p], "running") => exec[job[p]].logs <= flushing[p]
                  /\ \A s \in late : s.id # job[p]
                BY <3>1 DEF GrowInv
            <3>4. \A q \in Replicas : \/ q = p /\ flushing'[q] = NULL
                                      \/ q # p /\ flushing'[q] = flushing[q] /\ job[q] # job[p]
                BY <3>1, <3>2, NullAssumption DEF IInv, TypeOK, HoldInv
            <3>5. late' = late \ {} /\ {} \in SUBSET late
                BY <3>1
            <3>6. QED
                BY <3>1, <3>2, <3>3, <3>4, <3>5
        <2>2. ASSUME NEW stmt \in late, LateFlush(stmt)
              PROVE  \E i \in Ids, n \in 0 .. MaxPrint, gone \in SUBSET late :
                      /\ exec' = SaveLogs(i, n)
                      /\ StatusIs(i, "running") => exec[i].logs <= n
                      /\ late' = late \ gone /\ UNCHANGED <<pending, next, phase, job>>
                      /\ \A q \in Replicas : flushing'[q] # NULL => flushing'[q] = flushing[q] /\ job[q] # i
                      /\ \A s \in late : s.id = i => s \in gone
                      /\ \A q \in Replicas : flushing'[q] = flushing[q] \/ flushing'[q] = NULL
            <3>1. /\ exec' = SaveLogs(stmt.id, stmt.logs) /\ late' = late \ {stmt}
                  /\ UNCHANGED <<pending, next, phase, job, flushing>>
                BY <2>2 DEF LateFlush, local
            <3>2. stmt.id \in Ids /\ stmt.logs \in 0 .. MaxPrint
                BY DEF IInv, TypeOK
            <3>3. /\ StatusIs(stmt.id, "running") => exec[stmt.id].logs <= stmt.logs
                  /\ \A s \in late : s.id = stmt.id => s \in {stmt}
                  /\ \A q \in Replicas : flushing[q] # NULL => job[q] # stmt.id
                BY DEF GrowInv
            <3>4. {stmt} \in SUBSET late
                OBVIOUS
            <3>5. QED
                BY <3>1, <3>2, <3>3, <3>4
        <2>3. QED
            BY <2>1, <2>2
    <1>2. \A id \in Ids :
              /\ \A s : StatusIs(id, s)' <=> StatusIs(id, s)
              /\ \/ exec'[id] = exec[id]
                 \/ /\ id = i /\ StatusIs(i, "running") /\ exec'[i].logs = n
                    /\ exec[i].logs <= exec'[i].logs
        BY <1>1, SaveLogsGrows
    <1>3. ASSUME NEW s \in late'
          PROVE  /\ ~Unborn(s.id)' /\ ~StatusIs(s.id, "queued")'
                 /\ StatusIs(s.id, "running")' => exec'[s.id].logs <= s.logs
        <2>1. s \in late /\ s.id \in Ids /\ s.id # i
            BY <1>1, <1>3 DEF IInv, TypeOK
        <2>2. ~Unborn(s.id)'
            BY <1>1, <2>1 DEF GrowInv, Unborn
        <2>3. exec'[s.id] = exec[s.id]
            BY <1>2, <2>1
        <2>4. QED
            BY <1>2, <2>1, <2>2, <2>3 DEF GrowInv
    <1>4. ASSUME NEW q \in Replicas, flushing'[q] # NULL, StatusIs(job[q], "running")'
          PROVE  exec'[job'[q]].logs <= flushing'[q]
        <2>1. flushing[q] # NULL /\ flushing'[q] = flushing[q] /\ job'[q] = job[q] /\ job[q] # i
            BY <1>1, <1>4
        <2>2. PICK k \in Ids : k = job[q]
            BY <2>1, Held DEF IInv, HoldInv, Holding
        <2>3. exec'[k] = exec[k]
            BY <1>2, <2>1, <2>2
        <2>4. StatusIs(k, "running")
            BY <1>4, <2>1, <2>2, <2>3 DEF StatusIs, Exists
        <2>5. QED
            BY <2>1, <2>2, <2>3, <2>4 DEF GrowInv
    <1>5. \A q \in Replicas, s \in late' : job'[q] = s.id => flushing'[q] = NULL /\ phase'[q] = "stopping"
        BY <1>1 DEF GrowInv
    <1>6. \A s1, s2 \in late' : s1.id = s2.id => s1 = s2
        BY <1>1 DEF GrowInv
    <1>7. GrowInv'
        BY <1>3, <1>4, <1>5, <1>6 DEF GrowInv
    <1>8. ASSUME NEW id \in Ids, StatusIs(id, "running") PROVE exec[id].logs <= exec'[id].logs
        <2>1. exec[id].logs \in Nat
            BY <1>8, Lengths DEF IInv, StatusIs
        <2>2. QED
            BY <1>2, <2>1
    <1>9. QED
        BY <1>7, <1>8

\* As long as the database answers, the logs a reader follows never shrink while the
\* execution runs, however processes crash and stop: a flush that comes late is the only
\* one of its execution.
THEOREM RunningLogsGrow ==
    ASSUME "dberror" \notin Faults
    PROVE  Spec => LogsOnlyGrow
    <1>1. Init => GrowInv
        BY DEF Init, GrowInv
    <1>2. ASSUME IInv, RunInv, GrowInv, [Next]_vars
          PROVE  /\ GrowInv'
                 /\ \A id \in Ids : StatusIs(id, "running") /\ StatusIs(id, "running")' =>
                                    exec'[id].logs >= exec[id].logs
        <2>1. ASSUME NEW id \in Ids PROVE StatusIs(id, "running") => exec[id].logs \in Nat
            BY <1>2, Lengths DEF IInv, StatusIs
        <2>2. CASE \E p \in Replicas : FlushTake(p) \/ FlushError(p) \/ Crash(p)
            BY <1>2, <2>1, <2>2, FlushTakeGrows, LeftBehind
        <2>3. CASE (\E p \in Replicas : FlushSave(p)) \/ \E stmt \in late : LateFlush(stmt)
            <3>1. /\ GrowInv'
                  /\ \A id \in Ids : StatusIs(id, "running") => exec[id].logs <= exec'[id].logs
                BY <1>2, <2>3, FlushGrows
            <3>2. QED
                BY <3>1
        <2>4. CASE ~\/ \E stmt \in late : LateFlush(stmt)
                    \/ \E p \in Replicas : FlushTake(p) \/ FlushSave(p) \/ FlushError(p) \/ Crash(p)
            <3>1. UNCHANGED late /\ (\A id \in Ids : RowQuiet(id)) /\ \A p \in Replicas : FlusherQuiet(p)
                BY <1>2, <2>4, QuietStep
            <3>2. GrowInv'
                BY <1>2, <3>1, QuietGrows
            <3>3. ASSUME NEW id \in Ids, StatusIs(id, "running"), StatusIs(id, "running")'
                  PROVE  exec'[id].logs >= exec[id].logs
                <4>1. exec'[id].logs = exec[id].logs
                    BY <3>1, <3>3 DEF RowQuiet, StatusIs
                <4>2. QED
                    BY <2>1, <3>3, <4>1
            <3>4. QED
                BY <3>2, <3>3
        <2>5. QED
            BY <2>2, <2>3, <2>4
    <1>3. QED
        BY <1>1, <1>2, RunsInOrder, PTL DEF Spec, LogsOnlyGrow

-----------------------------------------------------------------------------
(* Why a process stops. *)

Past == Holding \ {"claiming"}

\* A worker past its claim has the row it claimed, of the same build and the same
\* original, which is still running unless a recovery failed it; or the app is gone, and
\* the row with it.
OwnOf(p) ==
    pc[p] \in Past =>
        \/ AppOf[record[p].build] \notin apps
        \/ /\ Exists(job[p])
           /\ exec[job[p]].build = record[p].build /\ exec[job[p]].rerunOf = record[p].rerunOf
           /\ exec[job[p]].status = "running" \/ exec[job[p]].failure = "worker_restarted"

\* A step that stops a process has a cause.
Excused(p) == phase[p] = "up" /\ phase'[p] = "stopping" => faults' > faults \/ FatalCause(p)

\* What a step that does not claim does to a worker, as far as OwnOf looks.
OwnSame(p) ==
    pc'[p] \in Past =>
        /\ pc[p] \in Past /\ job'[p] = job[p]
        /\ record'[p].build = record[p].build /\ record'[p].rerunOf = record[p].rerunOf

\* What a step of somebody else does to the row it holds.
HeldStill(p) ==
    pc[p] \in Past =>
        \/ exec'[job[p]] = exec[job[p]]
        \/ RowEnded(job[p])
        \/ exec'[job[p]] = NULL /\ AppOf[exec[job[p]].build] \notin apps'

\* A worker and a row of which that is true stay as they should be.
LEMMA OwnKept ==
    ASSUME NEW p \in Replicas, OwnOf(p), apps' \subseteq apps, OwnSame(p), HeldStill(p)
    PROVE  OwnOf(p)'
    <1>1. SUFFICES ASSUME pc'[p] \in Past PROVE OwnOf(p)'
        BY DEF OwnOf
    <1>2. /\ pc[p] \in Past /\ job'[p] = job[p]
          /\ record'[p].build = record[p].build /\ record'[p].rerunOf = record[p].rerunOf
        BY <1>1 DEF OwnSame
    <1>3. CASE AppOf[record[p].build] \notin apps
        BY <1>2, <1>3 DEF OwnOf
    <1>4. CASE AppOf[record[p].build] \in apps
        <2>1. PICK i : i = job[p] /\ i = job'[p]
            BY <1>2
        <2>2. /\ exec[i] # NULL
              /\ exec[i].build = record[p].build /\ exec[i].rerunOf = record[p].rerunOf
              /\ exec[i].status = "running" \/ exec[i].failure = "worker_restarted"
            BY <1>2, <1>4, <2>1 DEF OwnOf, Exists
        <2>3. CASE exec'[i] = exec[i] \/ RowEnded(i)
            BY <1>2, <2>1, <2>2, <2>3 DEF OwnOf, Exists, RowEnded
        <2>4. CASE AppOf[exec[i].build] \notin apps'
            BY <1>2, <2>2, <2>4 DEF OwnOf
        <2>5. QED
            BY <1>2, <2>1, <2>3, <2>4 DEF HeldStill
    <1>5. QED
        BY <1>3, <1>4

\* A fault counts as one.
LEMMA FaultCounts ==
    ASSUME TypeOK, NEW kind, Fault(kind)
    PROVE  faults' > faults
    BY ConstantsAssumption DEF TypeOK, Fault

\* A worker that a step leaves alone, with the row it holds.
LEMMA AloneOwn ==
    ASSUME NEW p \in Replicas, OwnOf(p), apps' \subseteq apps, HeldStill(p),
           pc'[p] = pc[p], job'[p] = job[p], record'[p] = record[p], phase'[p] = phase[p]
    PROVE  OwnOf(p)' /\ Excused(p)
    <1>1. OwnSame(p)
        BY DEF OwnSame
    <1>2. QED
        BY <1>1, OwnKept DEF Excused

\* Requests, deletions, the clock and late flushes leave every worker alone, and take a row
\* it holds only with the app.
LEMMA OutsideOwn ==
    ASSUME IInv, RunInv, NEW p \in Replicas, OwnOf(p),
           \/ \E b \in Builds : CreateResolve(b)
           \/ \E id \in Ids : RerunResolve(id)
           \/ \E req \in pending : Insert(req) \/ Refuse(req)
           \/ \E a \in Apps : DeleteApp(a)
           \/ \E stmt \in late : LateFlush(stmt)
           \/ \E id \in Ids : TokenExpires(id)
           \/ UNCHANGED vars
    PROVE  OwnOf(p)' /\ Excused(p)
    <1>1. UNCHANGED <<pc, job, record, phase>> /\ apps' \subseteq apps
        BY DEF CreateResolve, RerunResolve, Request, Insert, Refuse, DeleteApp, LateFlush,
               TokenExpires, table, local, outside, vars
    <1>2. SUFFICES ASSUME pc[p] \in Past PROVE HeldStill(p)
        BY <1>1, AloneOwn DEF HeldStill
    <1>3. PICK i \in Ids : i = job[p] /\ ~Unborn(i)
        BY <1>2, HolderFacts DEF Past
    <1>4. CASE \E req \in pending : Insert(req)
        <2>1. PICK req \in pending : Insert(req)
            BY <1>4
        <2>2. req.id # i
            BY <1>3 DEF Unborn
        <2>3. exec'[i] = exec[i]
            BY <2>1, <2>2 DEF Insert, IInv, TypeOK
        <2>4. QED
            BY <1>3, <2>3 DEF HeldStill
    <1>5. CASE \E a \in Apps : DeleteApp(a)
        <2>1. PICK a \in Apps : DeleteApp(a)
            BY <1>5
        <2>2. /\ exec'[i] = IF Exists(i) /\ AppOf[exec[i].build] = a THEN NULL ELSE exec[i]
              /\ a \notin apps'
            BY <2>1 DEF DeleteApp
        <2>3. QED
            BY <1>3, <2>2 DEF HeldStill
    <1>6. CASE \E stmt \in late : LateFlush(stmt)
        BY <1>3, <1>6, FlushEnds DEF HeldStill
    <1>7. CASE UNCHANGED exec
        BY <1>7 DEF HeldStill
    <1>8. QED
        BY <1>4, <1>5, <1>6, <1>7
        DEF CreateResolve, RerunResolve, Request, Refuse, TokenExpires, table, vars

\* What a worker does leaves the others alone.
LEMMA OthersOwn ==
    ASSUME IInv, RunInv, NEW p \in Replicas, NEW q \in Replicas \ {p}, OwnOf(q), RunStep(p),
           apps' \subseteq apps, phase'[q] = phase[q]
    PROVE  OwnOf(q)' /\ Excused(q)
    <1>1. pc'[q] = pc[q] /\ job'[q] = job[q] /\ record'[q] = record[q]
        BY DEF RunStep, WorkerSame
    <1>2. HeldStill(q)
        <2>1. SUFFICES ASSUME pc[q] \in Past PROVE exec'[job[q]] = exec[job[q]]
            BY DEF HeldStill
        <2>2. job[q] \in Ids /\ job[q] # NULL
            BY <2>1, HolderFacts DEF Past
        <2>3. job[q] # job[p]
            BY <2>2 DEF IInv, HoldInv
        <2>4. QED
            BY <2>2, <2>3 DEF RunStep, RunSame
    <1>3. QED
        BY <1>1, <1>2, AloneOwn

\* The steps after which the worker holds nothing.
LEMMA LetGoOwn ==
    ASSUME NEW p \in Replicas, pc'[p] \in {"off", "idle", "claiming", "exited"}
    PROVE  OwnOf(p)'
    BY DEF OwnOf, Past, Holding

\* The steps of a worker that leave the table, its copy and what is due of it alone.
LEMMA InsideOwn ==
    ASSUME IInv, NEW p \in Replicas, OwnOf(p),
           \/ Boot(p) \/ RecoverRefused(p) \/ RecoverError(p) \/ Poll(p)
           \/ PrepareFails(p) \/ StartHandler(p) \/ HandlerPrints(p)
           \/ FlushTake(p) \/ FlushRefused(p) \/ FlushError(p) \/ HandlerReturns(p)
           \/ CloseStream(p) \/ CloseStreamUnrevoked(p) \/ Stop(p)
    PROVE  OwnOf(p)' /\ Excused(p)
    <1>1. UNCHANGED <<apps, exec, record, job>>
        BY DEF Boot, RecoverRefused, RecoverError, Poll, PrepareFails, StartHandler, HandlerPrints,
               FlushTake, FlushRefused, FlushError, HandlerReturns, CloseStream,
               CloseStreamUnrevoked, Stop, table, local, outside
    <1>2. HeldStill(p)
        BY <1>1 DEF HeldStill
    <1>3. CASE \/ Boot(p) \/ RecoverRefused(p) \/ RecoverError(p) \/ Poll(p) \/ HandlerPrints(p)
               \/ FlushTake(p) \/ FlushRefused(p) \/ FlushError(p) \/ Stop(p)
        <2>1. UNCHANGED pc
            BY <1>3 DEF Boot, RecoverRefused, RecoverError, Poll, HandlerPrints, FlushTake,
                        FlushRefused, FlushError, Stop, local
        <2>2. OwnOf(p)'
            BY <1>1, <1>2, <2>1, OwnKept DEF OwnSame
        <2>3. CASE Stop(p)
            BY <2>2, <2>3, FaultCounts DEF Stop, Excused, IInv
        <2>4. CASE Boot(p) \/ RecoverRefused(p) \/ RecoverError(p)
            BY <2>2, <2>4 DEF Boot, RecoverRefused, RecoverError, Excused
        <2>5. CASE Poll(p) \/ HandlerPrints(p) \/ FlushTake(p) \/ FlushRefused(p) \/ FlushError(p)
            BY <2>2, <2>5 DEF Poll, HandlerPrints, FlushTake, FlushRefused, FlushError, Excused
        <2>6. QED
            BY <1>3, <2>3, <2>4, <2>5
    <1>4. CASE \/ PrepareFails(p) \/ StartHandler(p) \/ HandlerReturns(p) \/ CloseStream(p)
               \/ CloseStreamUnrevoked(p)
        <2>1. phase' = phase /\ pc[p] \in {"preparing", "running", "closing"}
            BY <1>4 DEF PrepareFails, StartHandler, HandlerReturns, CloseStream,
                        CloseStreamUnrevoked
        <2>2. OwnSame(p)
            BY <1>1, <2>1 DEF OwnSame, Past, Holding
        <2>3. QED
            BY <1>1, <1>2, <2>1, <2>2, OwnKept DEF Excused
    <1>5. QED
        BY <1>3, <1>4

\* The claim gives the worker a copy of the row it wrote.
LEMMA ClaimOwn ==
    ASSUME IInv, NEW p \in Replicas, ClaimCommit(p)
    PROVE  OwnOf(p)' /\ Excused(p)
    <1>1. PICK i \in Ids, old \in Rows : i = job[p] /\ old = exec[i]
        BY Held DEF ClaimCommit, IInv, Holding
    <1>2. PICK row \in Rows : row = Claim(old) /\ row.status = "running"
        BY ClaimIsRow
    <1>3. row # NULL
        BY RowAssumption
    <1>4. exec'[i] = row /\ record'[p] = row /\ job'[p] = i /\ phase' = phase
        BY <1>1, <1>2 DEF ClaimCommit, IInv, TypeOK
    <1>5. QED
        BY <1>2, <1>3, <1>4 DEF OwnOf, Exists, Excused

\* The outcome of a run is about the same build and the same original, and it is readable
\* if what is kept of the output fits a row.
LEMMA FinishedFits ==
    ASSUME IInv, NEW p \in Replicas, pc[p] = "finishing"
    PROVE  /\ Finished(p).build = record[p].build /\ Finished(p).rerunOf = record[p].rerunOf
           /\ TooLong(printed[job[p]]) \/ Validate(Finished(p))
    <1>1. PICK row \in Rows : row = record[p] /\ job[p] \in Ids
        BY Held DEF IInv, Holding
    <1>2. result[p] \in {"ok", "unprepared", "failed"}
        BY DEF IInv, TypeOK, HoldInv
    <1>3. PICK n \in LogLengths :
              n = Capped(printed[job[p]]) /\ (TooLong(printed[job[p]]) \/ n <= MaxLogBytes)
        <2>1. PICK m \in 0 .. MaxPrint : m = printed[job[p]]
            BY <1>1 DEF IInv, TypeOK
        <2>2. Capped(m) \in LogLengths /\ (TooLong(m) \/ Capped(m) <= MaxLogBytes)
            BY <2>1, CappedIsLength, ConstantsAssumption DEF Capped, TooLong
        <2>3. QED
            BY <2>1, <2>2
    <1>4. CASE result[p] = "ok"
        <2>1. Finished(p) = [row EXCEPT !.status = "succeeded", !.output = row.build,
                                        !.failure = NULL, !.logs = n]
            BY <1>1, <1>3, <1>4 DEF Finished, Succeed
        <2>2. row.build # NULL
            BY NullAssumption DEF Rows
        <2>3. QED
            BY <1>1, <1>3, <2>1, <2>2 DEF Validate, Rows
    <1>5. CASE result[p] \in {"unprepared", "failed"}
        <2>1. Finished(p) = [row EXCEPT !.status = "failed", !.output = NULL,
                                        !.failure = result[p], !.logs = n]
            BY <1>1, <1>3, <1>5 DEF Finished, Fail
        <2>2. result[p] # NULL
            BY <1>5, NullAssumption
        <2>3. QED
            BY <1>1, <1>3, <2>1, <2>2 DEF Validate, Rows
    <1>6. QED
        BY <1>2, <1>4, <1>5

\* So only output that no row can carry ends a worker there.
LEMMA FinishOwn ==
    ASSUME IInv, NEW p \in Replicas, OwnOf(p), Finish(p) \/ FinishInvalid(p)
    PROVE  OwnOf(p)' /\ Excused(p)
    <1>1. pc[p] = "finishing" /\ UNCHANGED <<apps, exec>>
        BY DEF Finish, FinishInvalid, table
    <1>2. PICK fin : /\ fin = Finished(p)
                     /\ fin.build = record[p].build /\ fin.rerunOf = record[p].rerunOf
                     /\ TooLong(printed[job[p]]) \/ Validate(fin)
        BY <1>1, FinishedFits
    <1>3. CASE Finish(p)
        <2>1. record'[p] = fin /\ UNCHANGED <<job, phase>>
            BY <1>2, <1>3 DEF Finish, IInv, TypeOK
        <2>2. OwnSame(p) /\ HeldStill(p)
            BY <1>1, <1>2, <2>1 DEF OwnSame, HeldStill, Past, Holding
        <2>3. QED
            BY <1>1, <2>1, <2>2, OwnKept DEF Excused
    <1>4. CASE FinishInvalid(p)
        <2>1. TooLong(printed[job[p]]) /\ pc'[p] = "exited"
            BY <1>2, <1>4 DEF FinishInvalid, ExitWorker, IInv, TypeOK
        <2>2. QED
            BY <1>1, <2>1, LetGoOwn DEF Excused, FatalCause
    <1>5. QED
        BY <1>3, <1>4

\* Finalize finds the row that the worker runs, unless a recovery or a deletion took it.
LEMMA ConflictCause ==
    ASSUME IInv, NEW p \in Replicas, OwnOf(p), Finalizing(p), ~Finalizable(p)
    PROVE  FatalCause(p)
    <1>1. pc[p] \in Past /\ record[p].status \in Terminal
        BY DEF IInv, HoldInv, Finalizing, Past, Holding
    <1>2. QED
        BY <1>1 DEF OwnOf, Exists, Finalizable, ValidateTransitionTo, FatalCause

\* The steps that end with the worker holding nothing.
LEMMA EndsOwn ==
    ASSUME IInv, NEW p \in Replicas, OwnOf(p),
           \/ StopIdle(p) \/ ExitProcess(p) \/ Crash(p) \/ Recover(p) \/ ClaimSelect(p)
           \/ Finalize(p) \/ ClaimRefused(p) \/ FinalizeConflict(p) \/ FinalizeRefused(p)
           \/ ClaimError(p) \/ ClaimLost(p) \/ FinalizeError(p) \/ FinalizeLost(p)
    PROVE  OwnOf(p)' /\ Excused(p)
    <1>1. pc'[p] \in {"off", "idle", "claiming", "exited"}
        BY DEF StopIdle, ExitProcess, Crash, Recover, ClaimSelect, Finalize, ClaimRefused,
               FinalizeConflict, FinalizeRefused, ClaimError, ClaimLost, FinalizeError,
               FinalizeLost, ExitWorker, IInv, TypeOK
    <1>2. OwnOf(p)'
        BY <1>1, LetGoOwn
    <1>3. CASE \/ StopIdle(p) \/ ExitProcess(p) \/ Crash(p) \/ Recover(p) \/ ClaimSelect(p)
               \/ Finalize(p)
        BY <1>2, <1>3
        DEF StopIdle, ExitProcess, Crash, Recover, ClaimSelect, Finalize, Excused, IInv, TypeOK
    <1>4. CASE ClaimRefused(p) \/ FinalizeRefused(p)
        BY <1>2, <1>4 DEF ClaimRefused, FinalizeRefused, Excused, FatalCause
    <1>5. CASE FinalizeConflict(p)
        BY <1>2, <1>5, ConflictCause DEF FinalizeConflict, Excused
    <1>6. CASE ClaimError(p) \/ ClaimLost(p) \/ FinalizeError(p) \/ FinalizeLost(p)
        <2>1. phase[p] = "stopping" \/ Fault("dberror")
            BY <1>6 DEF ClaimError, ClaimLost, FinalizeError, FinalizeLost, FinalizeInterrupted,
                        Interrupted
        <2>2. QED
            BY <1>2, <2>1, FaultCounts DEF Excused, IInv
    <1>7. QED
        BY <1>3, <1>4, <1>5, <1>6

\* A flush or a recovery does to every row what one may do to the row of a running execution.
LEMMA EndedOwn ==
    ASSUME IInv, RunInv, NEW p \in Replicas, NEW q \in Replicas, OwnOf(q),
           FlushSave(p) \/ (Recover(p) /\ q # p)
    PROVE  OwnOf(q)' /\ Excused(q)
    <1>1. \A id \in Ids : exec'[id] = exec[id] \/ RowEnded(id)
        BY FlushEnds, RecoverEnds
    <1>2. HeldStill(q)
        <2>1. SUFFICES ASSUME pc[q] \in Past
                       PROVE  exec'[job[q]] = exec[job[q]] \/ RowEnded(job[q])
            BY DEF HeldStill
        <2>2. job[q] \in Ids
            BY <2>1, HolderFacts DEF Past
        <2>3. QED
            BY <1>1, <2>2
    <1>3. /\ apps' = apps /\ pc'[q] = pc[q] /\ job'[q] = job[q] /\ record'[q] = record[q]
          /\ phase'[q] = phase[q]
        BY DEF FlushSave, Recover, IInv, TypeOK
    <1>4. QED
        BY <1>2, <1>3, AloneOwn

\* No step of a process touches the phase of another, or an app.
LEMMA OthersPhase ==
    ASSUME TypeOK, NEW p \in Replicas, NEW q \in Replicas, q # p,
           WorkerStep(p) \/ FaultStep(p) \/ HandlerPrints(p) \/ FlushTake(p)
    PROVE  apps' = apps /\ phase'[q] = phase[q]
    <1>1. CASE \/ StopIdle(p) \/ Poll(p) \/ ClaimSelect(p) \/ ClaimCommit(p) \/ ClaimRefused(p)
               \/ PrepareFails(p) \/ StartHandler(p) \/ FlushSave(p) \/ FlushRefused(p)
               \/ HandlerReturns(p) \/ CloseStream(p) \/ Finish(p) \/ FinishInvalid(p)
               \/ HandlerPrints(p) \/ FlushTake(p)
        BY <1>1 DEF StopIdle, Poll, ClaimSelect, ClaimCommit, ClaimRefused, PrepareFails,
                    StartHandler, FlushSave, FlushRefused, HandlerReturns, CloseStream, Finish,
                    FinishInvalid, HandlerPrints, FlushTake, ExitWorker, TypeOK, table
    <1>2. CASE \/ Finalize(p) \/ FinalizeConflict(p) \/ FinalizeRefused(p) \/ ExitProcess(p)
               \/ Boot(p) \/ Recover(p) \/ RecoverRefused(p)
        BY <1>2 DEF Finalize, FinalizeConflict, FinalizeRefused, ExitProcess, Boot, Recover,
                    RecoverRefused, ExitWorker, TypeOK, table
    <1>3. CASE FaultStep(p)
        BY <1>3 DEF FaultStep, Stop, Crash, RecoverError, ClaimError, ClaimLost, FlushError,
                    CloseStreamUnrevoked, FinalizeError, FinalizeLost, ExitWorker, TypeOK, table
    <1>4. QED
        BY <1>1, <1>2, <1>3 DEF WorkerStep

\* A process that is up stops only because it was told to, because the database failed, or
\* for one of the causes that FatalCause lists; for every number of processes, executions
\* and faults, every setting of the log limits, and with apps deleted under their runs.
THEOREM StopsOnlyForCause == Spec => StopsForCause
    <1> DEFINE Own == \A p \in Replicas : OwnOf(p)
    <1>1. Init => Own
        BY DEF Init, OwnOf, Past, Holding
    <1>2. ASSUME IInv, RunInv, Own, [Next]_vars
          PROVE  Own' /\ \A p \in Replicas : Excused(p)
        <2>1. SUFFICES ASSUME NEW q \in Replicas PROVE OwnOf(q)' /\ Excused(q)
            OBVIOUS
        <2>2. OwnOf(q)
            BY <1>2
        <2>3. ASSUME NEW p \in Replicas,
                     WorkerStep(p) \/ FaultStep(p) \/ HandlerPrints(p) \/ FlushTake(p)
              PROVE  OwnOf(q)' /\ Excused(q)
            <3>1. CASE FlushSave(p) \/ (Recover(p) /\ q # p)
                BY <1>2, <2>2, <3>1, EndedOwn
            <3>2. CASE q = p /\ ~FlushSave(p)
                BY <1>2, <2>2, <2>3, <3>2, InsideOwn, ClaimOwn, FinishOwn, EndsOwn
                DEF WorkerStep, FaultStep
            <3>3. CASE q # p /\ ~FlushSave(p) /\ ~Recover(p)
                <4>1. RunStep(p)
                    BY <1>2, <2>3, <3>3, ProcessRun, CrashRun, ClaimSelectRun, ClaimRun,
                       OutcomeRun, FlusherRun, StartRun, PrintsRun, CloseRun, FinalizeRun
                    DEF WorkerStep, FaultStep
                <4>2. apps' = apps /\ phase'[q] = phase[q]
                    BY <1>2, <2>3, <3>3, OthersPhase DEF IInv
                <4>3. QED
                    BY <1>2, <2>2, <3>3, <4>1, <4>2, OthersOwn
            <3>4. QED
                BY <3>1, <3>2, <3>3
        <2>4. QED
            BY <1>2, <2>2, <2>3, OutsideOwn DEF Next
    <1>3. ASSUME IInv, RunInv, Own, [Next]_vars
          PROVE  \A p \in Replicas :
                     phase[p] = "up" /\ phase'[p] = "stopping" => faults' > faults \/ FatalCause(p)
        BY <1>2, <1>3 DEF Excused
    <1>4. QED
        BY <1>1, <1>2, <1>3, RunsInOrder, PTL DEF Spec, StopsForCause

=============================================================================
