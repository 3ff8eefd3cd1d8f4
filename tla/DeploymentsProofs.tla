-------------------------- MODULE DeploymentsProofs --------------------------
(***************************************************************************)
(* Proofs about Deployments for every number of apps, commits, replicas,   *)
(* deployments, layers and faults, and any amount of output.               *)
(*                                                                         *)
(* The inductive invariant says what a deployer in the middle of           *)
(* ProcessOne may rely on although requests, recoveries and deletions      *)
(* write the tables between any two of its calls.                          *)
(***************************************************************************)
EXTENDS Deployments, TLAPS

-----------------------------------------------------------------------------
(* The inductive invariant. *)

\* A request that has not inserted its row holds a fresh row under an id of its own.
PendingInv ==
    /\ \A req \in pending : req.id < next /\ req.row = New(req.row.app, req.row.commit)
    /\ \A r1, r2 \in pending : r1.id = r2.id => r1 = r2

\* What the tables say of one id: nothing before its row is inserted; afterwards the row
\* belongs to an app that is there, its logs are a prefix of the output (all of it once
\* its deployer has finished it), at most one toolchain ran, none while it is queued, and
\* a build is complete and of the commit the row names.
IdInv(id) ==
    /\ Unborn(id) => dep[id] = NULL /\ build[id] = NULL /\ runs[id] = 0 /\ printed[id] = 0
    /\ Exists(id) => dep[id].app \in apps /\ dep[id].logs <= printed[id]
    /\ StatusIn(id, {"queued"}) => printed[id] = 0 /\ runs[id] = 0 /\ dep[id].failure = NULL
    /\ runs[id] <= 1
    /\ build[id] # NULL => /\ blobs[id] = build[id].layers /\ blobs[id] = Layers
                           /\ runs[id] = 1
                           /\ Exists(id) /\ build[id].commit = dep[id].commit
    /\ StatusIn(id, Finished) =>
          dep[id].failure = "build_interrupted" \/ dep[id].logs = printed[id]

PastClaim == {"fetching", "building", "closing", "advancing", "storing", "sealed", "finishing",
            "saving", "saving_detached"}

\* No two deployers hold the same deployment, and none one that has no row yet.
JobInv ==
    /\ \A p, q \in Replicas : job[p] # NULL /\ job[p] = job[q] => p = q
    /\ \A p \in Replicas : job[p] # NULL => ~Unborn(job[p])

\* The row of a claimed deployment, as long as it is there: what the deployer remembers
\* of it, and not finished by anybody but a recovery.
RowOf(p) ==
    Exists(job[p]) =>
        /\ dep[job[p]].app = record[p].app /\ dep[job[p]].commit = record[p].commit
        /\ dep[job[p]].status # "queued"
        /\ dep[job[p]].status \in Finished =>
              dep[job[p]].status = "failed" /\ dep[job[p]].failure = "build_interrupted"
        /\ pc[p] \in {"fetching", "building", "closing", "advancing"} =>
              dep[job[p]].status # "publishing"
        /\ pc[p] \in {"storing", "sealed"} => dep[job[p]].status # "building"
        /\ Saving(p) /\ record[p].status = "ready" =>
              dep[job[p]].status # "building" /\ build[job[p]] # NULL
        /\ pc[p] = "finishing" /\ result[p] = "ok" =>
              dep[job[p]].status # "building" /\ build[job[p]] # NULL

\* What the deployer itself holds.
RecordOf(p) ==
    /\ record[p] # NULL /\ record[p].logs = printed[job[p]]
    /\ record[p].app \in apps => Exists(job[p])
    /\ pc[p] \in {"fetching", "building", "closing", "advancing"} =>
          record[p].status = "building" /\ record[p].failure = NULL
    /\ pc[p] \in {"storing", "sealed"} => record[p].status = "publishing"
    /\ pc[p] \in {"closing", "finishing"} => result[p] # NULL
    /\ pc[p] = "fetching" => runs[job[p]] = 0
    /\ pc[p] \in {"building", "closing", "advancing", "storing", "sealed"} => runs[job[p]] = 1
    /\ pc[p] = "finishing" => record[p].status \in {"building", "publishing"}
    /\ Saving(p) => /\ record[p].status \in Finished
                    /\ record[p].failure # "build_interrupted"
    /\ pc[p] = "sealed" =>
          /\ produced[p] = [app |-> record[p].app, commit |-> record[p].commit, layers |-> Layers]
          /\ blobs[job[p]] = Layers

\* The snapshot a flusher is saving is an earlier state of the record.
SnapshotOf(p) ==
    flushing[p] # NULL =>
        /\ pc[p] \in {"building", "closing"}
        /\ flushing[p].status = "building" /\ flushing[p].failure = NULL
        /\ flushing[p].app = record[p].app /\ flushing[p].commit = record[p].commit
        /\ flushing[p].logs <= printed[job[p]]

\* A deployer holds a deployment exactly while ProcessOne is at it, and only a claim in
\* progress holds a queued one.
DeployerInv(p) ==
    /\ phase[p] \in {"booting", "down"} => pc[p] = "off"
    /\ job[p] # NULL <=> pc[p] \in PastClaim \union {"claiming"}
    /\ pc[p] = "claiming" => StatusIn(job[p], {"queued"})
    /\ pc[p] \in PastClaim => RowOf(p) /\ RecordOf(p)
    /\ SnapshotOf(p)

IInv ==
    /\ TypeOK /\ PendingInv /\ JobInv
    /\ \A id \in Ids : IdInv(id)
    /\ \A p \in Replicas : DeployerInv(p)

-----------------------------------------------------------------------------
(* What the operations on a row return. *)

\* New makes a queued row.
LEMMA NewIsRow ==
    ASSUME NEW a \in Apps, NEW c \in Commits
    PROVE  /\ New(a, c) \in Rows /\ New(a, c) # NULL
           /\ New(a, c).status = "queued" /\ New(a, c).logs = 0 /\ New(a, c).failure = NULL
           /\ New(a, c).app = a /\ New(a, c).commit = c
    <1>1. New(a, c) \in Rows
        BY ConstantsAssumption DEF New, Rows, Running, Finished, Failures
    <1>2. QED
        BY <1>1, RowAssumption DEF New

\* Advance moves the status and nothing else anybody relies on.
LEMMA AdvanceIsRow ==
    ASSUME NEW row \in Rows
    PROVE  /\ Advance(row) \in Rows /\ Advance(row) # NULL
           /\ Advance(row).app = row.app /\ Advance(row).commit = row.commit
           /\ Advance(row).logs = row.logs /\ Advance(row).failure = row.failure
           /\ Advance(row).status = IF row.status = "queued" THEN "building" ELSE "publishing"
    <1>1. /\ Advance(row) \in Rows
          /\ Advance(row).app = row.app /\ Advance(row).commit = row.commit
          /\ Advance(row).logs = row.logs /\ Advance(row).failure = row.failure
          /\ Advance(row).status = IF row.status = "queued" THEN "building" ELSE "publishing"
        BY DEF Advance, Rows, Running, Finished
    <1>2. QED
        BY <1>1, RowAssumption

\* Fail keeps what the row is about and its logs.
LEMMA FailIsRow ==
    ASSUME NEW row \in Rows, NEW code \in Failures
    PROVE  /\ Fail(row, code) \in Rows /\ Fail(row, code) # NULL
           /\ Fail(row, code).app = row.app /\ Fail(row, code).commit = row.commit
           /\ Fail(row, code).logs = row.logs /\ Fail(row, code).status = "failed"
           /\ Fail(row, code).failure = code
    <1>1. /\ Fail(row, code) \in Rows
          /\ Fail(row, code).app = row.app /\ Fail(row, code).commit = row.commit
          /\ Fail(row, code).logs = row.logs /\ Fail(row, code).status = "failed"
          /\ Fail(row, code).failure = code
        BY DEF Fail, Rows, Running, Finished, Failures
    <1>2. QED
        BY <1>1, RowAssumption

\* So does MarkReady.
LEMMA ReadyIsRow ==
    ASSUME NEW row \in Rows
    PROVE  /\ MarkReady(row) \in Rows /\ MarkReady(row) # NULL
           /\ MarkReady(row).app = row.app /\ MarkReady(row).commit = row.commit
           /\ MarkReady(row).logs = row.logs /\ MarkReady(row).status = "ready"
           /\ MarkReady(row).failure = NULL
    <1>1. /\ MarkReady(row) \in Rows
          /\ MarkReady(row).app = row.app /\ MarkReady(row).commit = row.commit
          /\ MarkReady(row).logs = row.logs /\ MarkReady(row).status = "ready"
          /\ MarkReady(row).failure = NULL
        BY DEF MarkReady, Rows, Running, Finished, Failures
    <1>2. QED
        BY <1>1, RowAssumption

\* Whether its times are in order says nothing about the rest of a row.
LEMMA TimelyIsRow ==
    ASSUME NEW row \in Rows, NEW b \in BOOLEAN
    PROVE  /\ [row EXCEPT !.timely = b] \in Rows /\ [row EXCEPT !.timely = b] # NULL
           /\ [row EXCEPT !.timely = b].app = row.app
           /\ [row EXCEPT !.timely = b].commit = row.commit
           /\ [row EXCEPT !.timely = b].logs = row.logs
           /\ [row EXCEPT !.timely = b].status = row.status
           /\ [row EXCEPT !.timely = b].failure = row.failure
    <1>1. [row EXCEPT !.timely = b] \in Rows
        BY DEF Rows
    <1>2. QED
        BY <1>1, RowAssumption DEF Rows

\* A claim takes a queued row to building.
LEMMA ClaimedIsRow ==
    ASSUME NEW p \in Replicas, dep[job[p]] \in Rows, dep[job[p]].status = "queued",
           NEW b \in BOOLEAN
    PROVE  /\ Claimed(p, b) \in Rows /\ Claimed(p, b) # NULL
           /\ Claimed(p, b).app = dep[job[p]].app /\ Claimed(p, b).commit = dep[job[p]].commit
           /\ Claimed(p, b).logs = dep[job[p]].logs
           /\ Claimed(p, b).failure = dep[job[p]].failure /\ Claimed(p, b).status = "building"
    <1>1. PICK row : row = Advance(dep[job[p]])
        OBVIOUS
    <1>2. /\ row \in Rows /\ row.app = dep[job[p]].app /\ row.commit = dep[job[p]].commit
          /\ row.logs = dep[job[p]].logs /\ row.failure = dep[job[p]].failure
          /\ row.status = "building"
        BY <1>1, AdvanceIsRow
    <1>3. Claimed(p, b) = [row EXCEPT !.timely = b]
        BY <1>1 DEF Claimed
    <1>4. QED
        BY <1>2, <1>3, TimelyIsRow

-----------------------------------------------------------------------------
(* Facts the steps below share. *)

\* A call that is interrupted stays within the bound on faults.
LEMMA FaultBound ==
    ASSUME faults \in 0 .. MaxFaults, NEW kind, Fault(kind)
    PROVE  faults' \in 0 .. MaxFaults
    BY ConstantsAssumption DEF Fault

\* So does a call on the deployer's own context.
LEMMA InterruptedBound ==
    ASSUME faults \in 0 .. MaxFaults, NEW p, Interrupted(p)
    PROVE  faults' \in 0 .. MaxFaults
    BY FaultBound DEF Interrupted

\* What a deployer past its claim holds.
LEMMA Held ==
    ASSUME IInv, NEW p \in Replicas, pc[p] \in PastClaim
    PROVE  /\ job[p] \in Ids /\ record[p] \in Rows
           /\ RowOf(p) /\ RecordOf(p) /\ SnapshotOf(p) /\ IdInv(job[p])
           /\ ~Unborn(job[p])
    BY DEF IInv, DeployerInv, RecordOf, TypeOK, JobInv

\* What the tables say of an id that a step leaves alone.
IdSame(id) ==
    /\ dep'[id] = dep[id] /\ build'[id] = build[id] /\ blobs'[id] = blobs[id]
    /\ printed'[id] = printed[id] /\ runs'[id] = runs[id]

\* What a replica has that a step leaves alone.
LocalSame(p) ==
    /\ phase'[p] = phase[p] /\ pc'[p] = pc[p] /\ job'[p] = job[p] /\ record'[p] = record[p]
    /\ result'[p] = result[p] /\ produced'[p] = produced[p] /\ flushing'[p] = flushing[p]

\* A step of one deployer touches no row but that of the deployment it holds, and leaves
\* that deployment and itself in order.
StepOf(p) ==
    /\ TypeOK' /\ UNCHANGED <<apps, pending, next>>
    /\ \A q \in Replicas \ {p} : LocalSame(q)
    /\ \A id \in Ids : IdSame(id) \/ (id = job[p] /\ IdInv(id)')
    /\ DeployerInv(p)'
    /\ \/ job'[p] \in {job[p], NULL}
       \/ /\ job'[p] \in Ids /\ ~Unborn(job'[p])
          /\ \A q \in Replicas \ {p} : job[q] # job'[p]

\* A replica that a step leaves alone, with the row it works on, stays in order.
LEMMA OthersKept ==
    ASSUME NEW q \in Replicas, DeployerInv(q), LocalSame(q), UNCHANGED apps,
           job[q] # NULL => IdSame(job[q])
    PROVE  DeployerInv(q)'
    <1>1. CASE job[q] # NULL
        BY <1>1 DEF DeployerInv, LocalSame, IdSame, RowOf, RecordOf, SnapshotOf, StatusIn, Exists,
                    Saving
    <1>2. CASE job[q] = NULL
        BY <1>2 DEF DeployerInv, LocalSame, SnapshotOf, PastClaim
    <1>3. QED
        BY <1>1, <1>2

\* An id that a step leaves alone stays in order.
LEMMA IdKept ==
    ASSUME NEW id \in Ids, IdInv(id), IdSame(id), UNCHANGED <<apps, pending, next>>
    PROVE  IdInv(id)'
    BY DEF IdInv, IdSame, Unborn, StatusIn, Exists

\* A step of one deployer keeps the invariant.
LEMMA StepKeeps ==
    ASSUME IInv, NEW p \in Replicas, StepOf(p)
    PROVE  IInv'
    <1>1. PendingInv'
        BY DEF StepOf, IInv, PendingInv, New
    <1>2. \A id \in Ids : IdInv(id)'
        BY IdKept DEF StepOf, IInv
    <1>3. ASSUME NEW q \in Replicas
          PROVE  DeployerInv(q)'
        <2>1. CASE q = p
            BY <2>1 DEF StepOf
        <2>2. CASE q # p
            <3>1. LocalSame(q) /\ DeployerInv(q) /\ UNCHANGED apps
                BY <2>2 DEF StepOf, IInv
            <3>2. ASSUME job[q] # NULL
                  PROVE  IdSame(job[q])
                <4>1. job[q] \in Ids /\ job[q] # job[p]
                    BY <2>2, <3>2 DEF IInv, TypeOK, JobInv
                <4>2. QED
                    BY <4>1 DEF StepOf
            <3>3. QED
                BY <3>1, <3>2, OthersKept
        <2>3. QED
            BY <2>1, <2>2
    <1>4. JobInv'
        <2>1. \A id : Unborn(id)' <=> Unborn(id)
            BY DEF StepOf, Unborn
        <2>2. \A q \in Replicas \ {p} : job'[q] = job[q]
            BY DEF StepOf, LocalSame
        <2>3. \A q, r \in Replicas : job[q] # NULL /\ job[q] = job[r] => q = r
            BY DEF IInv, JobInv
        <2>4. \A q, r \in Replicas : job'[q] # NULL /\ job'[q] = job'[r] => q = r
            BY <2>2, <2>3 DEF StepOf
        <2>5. ASSUME NEW q \in Replicas, job'[q] # NULL
              PROVE  ~Unborn(job'[q])
            BY <2>2, <2>5 DEF StepOf, IInv, JobInv
        <2>6. QED
            BY <2>1, <2>4, <2>5 DEF JobInv, Unborn
    <1>5. QED
        BY <1>1, <1>2, <1>3, <1>4 DEF IInv, StepOf

-----------------------------------------------------------------------------
(* Steps that write no table. *)

LocalTypes ==
    /\ phase \in [Replicas -> Phases]
    /\ pc \in [Replicas -> DeployerStates]
    /\ job \in [Replicas -> Ids \union {NULL}]
    /\ record \in [Replicas -> Rows \union {NULL}]
    /\ result \in [Replicas -> {"ok", "build_failed", NULL}]
    /\ produced \in [Replicas -> BuildRows \union {NULL}]
    /\ flushing \in [Replicas -> Rows \union {NULL}]
    /\ written \in [Replicas -> BOOLEAN]
    /\ later \in [Replicas -> SUBSET Ids]

TableTypes ==
    /\ apps \subseteq Apps
    /\ dep \in [Ids -> Rows \union {NULL}]
    /\ build \in [Ids -> BuildRows \union {NULL}]
    /\ blobs \in [Ids -> 0 .. Layers]
    /\ pending \subseteq [id : Ids, row : Rows]
    /\ next \in 1 .. (MaxDeployments + 1)
    /\ printed \in [Ids -> 0 .. MaxPrint]
    /\ runs \in [Ids -> Nat]

\* TypeOK, by what a deployer has and what everybody shares.
LEMMA TypesSplit == TypeOK <=> LocalTypes /\ TableTypes /\ faults \in 0 .. MaxFaults
    BY DEF TypeOK, LocalTypes, TableTypes

\* The same after a step.
LEMMA TypesJoined ==
    ASSUME LocalTypes', TableTypes', faults' \in 0 .. MaxFaults
    PROVE  TypeOK'
    BY DEF TypeOK, LocalTypes, TableTypes

\* A clock overtaken stays a set of deployments.
LEMMA OvertakeTyped ==
    ASSUME LocalTypes, NEW S, NEW id \in Ids
    PROVE  Overtake(S, id) \in [Replicas -> SUBSET Ids]
    BY DEF LocalTypes, Overtake

\* A step that writes no table leaves every id alone.
LEMMA QuietTables ==
    ASSUME TableTypes, UNCHANGED <<tables, history>>
    PROVE  TableTypes' /\ UNCHANGED <<apps, pending, next>> /\ \A id \in Ids : IdSame(id)
    BY DEF TableTypes, tables, history, IdSame

\* A clock read again has nothing later than it.
LEMMA Cleared ==
    ASSUME NEW f \in [Replicas -> SUBSET Ids], NEW p \in Replicas
    PROVE  [f EXCEPT ![p] = {}] \in [Replicas -> SUBSET Ids]
    OBVIOUS

\* A deployer that lets go of its deployment.
LEMMA Forgets ==
    ASSUME LocalTypes, NEW p \in Replicas, ForgetJob(p), NEW x \in {"off", "exited", "idle"},
           pc' = [pc EXCEPT ![p] = x],
           phase' \in [Replicas -> Phases],
           \A q \in Replicas \ {p} : phase'[q] = phase[q],
           phase'[p] \in {"booting", "down"} => x = "off",
           later' \in [Replicas -> SUBSET Ids]
    PROVE  /\ LocalTypes' /\ DeployerInv(p)' /\ job'[p] = NULL
           /\ \A q \in Replicas \ {p} : LocalSame(q)
    <1>1. x \in DeployerStates /\ x \notin PastClaim \union {"claiming"}
        BY DEF DeployerStates, PastClaim
    <1>2. LocalTypes'
        BY <1>1 DEF LocalTypes, ForgetJob
    <1>3. job'[p] = NULL /\ flushing'[p] = NULL /\ pc'[p] = x
        BY <1>1 DEF LocalTypes, ForgetJob
    <1>4. DeployerInv(p)'
        BY <1>1, <1>3 DEF DeployerInv, SnapshotOf
    <1>5. \A q \in Replicas \ {p} : LocalSame(q)
        BY DEF LocalTypes, ForgetJob, LocalSame
    <1>6. QED
        BY <1>2, <1>3, <1>4, <1>5

\* What the process of a deployer is when it stops.
LEMMA Exits ==
    ASSUME LocalTypes, NEW p \in Replicas, ExitDeployer(p)
    PROVE  /\ pc' = [pc EXCEPT ![p] = "exited"]
           /\ phase' \in [Replicas -> Phases] /\ phase'[p] = "stopping"
           /\ \A q \in Replicas \ {p} : phase'[q] = phase[q]
    BY DEF LocalTypes, ExitDeployer, Phases

\* A replica that holds nothing and moves between places where nothing is held.
LEMMA RestingStep ==
    ASSUME IInv, NEW p \in Replicas, job[p] = NULL, NEW x \in {"off", "exited", "idle"},
           pc' = [pc EXCEPT ![p] = x],
           phase' \in [Replicas -> Phases],
           \A q \in Replicas \ {p} : phase'[q] = phase[q],
           phase'[p] \in {"booting", "down"} => x = "off",
           faults' \in 0 .. MaxFaults,
           UNCHANGED <<tables, job, record, result, produced, flushing, written, history>>,
           later' \in [Replicas -> SUBSET Ids]
    PROVE  StepOf(p)
    <1>1. LocalTypes /\ TableTypes /\ DeployerInv(p)
        BY TypesSplit DEF IInv
    <1>2. TableTypes' /\ UNCHANGED <<apps, pending, next>> /\ \A id \in Ids : IdSame(id)
        BY <1>1, QuietTables
    <1>3. x \in DeployerStates /\ x \notin PastClaim \union {"claiming"}
        BY DEF DeployerStates, PastClaim
    <1>4. LocalTypes'
        BY <1>1, <1>3 DEF LocalTypes
    <1>5. flushing[p] = NULL
        BY <1>1 DEF DeployerInv, SnapshotOf, PastClaim
    <1>6. pc'[p] = x /\ job'[p] = NULL /\ flushing'[p] = NULL
        BY <1>1, <1>5 DEF LocalTypes
    <1>7. DeployerInv(p)'
        BY <1>3, <1>6 DEF DeployerInv, SnapshotOf
    <1>8. \A q \in Replicas \ {p} : LocalSame(q)
        BY <1>1 DEF LocalTypes, LocalSame
    <1>9. QED
        BY <1>2, <1>4, <1>6, <1>7, <1>8, TypesJoined DEF StepOf

\* A deployer that gives up what it holds and writes nothing.
LEMMA ForgetStep ==
    ASSUME IInv, NEW p \in Replicas, Forget(p), NEW x \in {"off", "exited", "idle"},
           pc' = [pc EXCEPT ![p] = x],
           phase' \in [Replicas -> Phases],
           \A q \in Replicas \ {p} : phase'[q] = phase[q],
           phase'[p] \in {"booting", "down"} => x = "off",
           faults' \in 0 .. MaxFaults,
           UNCHANGED <<tables, history>>
    PROVE  StepOf(p)
    <1>1. LocalTypes /\ TableTypes
        BY TypesSplit DEF IInv
    <1>2. TableTypes' /\ UNCHANGED <<apps, pending, next>> /\ \A id \in Ids : IdSame(id)
        BY <1>1, QuietTables
    <1>3. /\ LocalTypes' /\ DeployerInv(p)' /\ job'[p] = NULL
          /\ \A q \in Replicas \ {p} : LocalSame(q)
        BY <1>1, Forgets, Cleared DEF Forget, LocalTypes
    <1>4. QED
        BY <1>2, <1>3, TypesJoined DEF StepOf

\* Stopping, starting and crashing, and the calls that fail and leave nothing behind.
LEMMA ProcessSteps ==
    ASSUME IInv, NEW p \in Replicas,
           \/ Boot(p) \/ RecoverRefused(p) \/ RecoverError(p) \/ StopIdle(p) \/ ExitProcess(p)
           \/ Poll(p) \/ Crash(p) \/ ClaimError(p) \/ SaveConflict(p)
    PROVE  StepOf(p)
    <1>1. LocalTypes /\ faults \in 0 .. MaxFaults /\ DeployerInv(p)
        BY TypesSplit DEF IInv
    <1>2. pc[p] \in {"off", "idle", "exited"} => job[p] = NULL
        BY <1>1 DEF DeployerInv, PastClaim
    <1>3. CASE Boot(p) \/ RecoverRefused(p) \/ RecoverError(p)
        <2>1. /\ phase[p] \in {"booting", "down"}
              /\ UNCHANGED <<tables, pc, job, record, result, produced, flushing, written, history>>
              /\ later' \in {later, [later EXCEPT ![p] = {}]} /\ faults' \in 0 .. MaxFaults
            BY <1>1, <1>3, FaultBound DEF Boot, RecoverRefused, RecoverError, local
        <2>2. pc[p] = "off" /\ job[p] = NULL
            BY <1>1, <1>2, <2>1 DEF DeployerInv
        <2>3. pc' = [pc EXCEPT ![p] = "off"]
            BY <1>1, <2>1, <2>2 DEF LocalTypes
        <2>4. phase' \in [Replicas -> Phases] /\ \A q \in Replicas \ {p} : phase'[q] = phase[q]
            BY <1>1, <1>3 DEF LocalTypes, Phases, Boot, RecoverRefused, RecoverError
        <2>5. later' \in [Replicas -> SUBSET Ids]
            BY <1>1, <2>1, Cleared DEF LocalTypes
        <2>6. QED
            BY <2>1, <2>2, <2>3, <2>4, <2>5, RestingStep
    <1>4. CASE StopIdle(p)
        BY <1>1, <1>4, Exits, ForgetStep DEF StopIdle
    <1>5. CASE ExitProcess(p)
        <2>1. phase' \in [Replicas -> Phases] /\ \A q \in Replicas \ {p} : phase'[q] = phase[q]
            BY <1>1, <1>5 DEF LocalTypes, Phases, ExitProcess
        <2>2. QED
            BY <1>1, <1>2, <1>5, <2>1, RestingStep DEF ExitProcess, local, LocalTypes
    <1>6. CASE Crash(p)
        <2>1. phase' \in [Replicas -> Phases] /\ \A q \in Replicas \ {p} : phase'[q] = phase[q]
            BY <1>1, <1>6 DEF LocalTypes, Phases, Crash
        <2>2. QED
            BY <1>1, <1>6, <2>1, FaultBound, ForgetStep DEF Crash
    <1>7. CASE ClaimError(p)
        BY <1>1, <1>7, Exits, InterruptedBound, ForgetStep DEF ClaimError
    <1>8. CASE SaveConflict(p)
        BY <1>1, <1>8, Exits, ForgetStep DEF SaveConflict
    <1>9. CASE Poll(p)
        <2>1. pc[p] = "idle" /\ phase[p] = "up" /\ job[p] = NULL /\ pc' = [pc EXCEPT ![p] = "idle"]
            BY <1>1, <1>2, <1>9 DEF Poll, LocalTypes
        <2>2. later' \in [Replicas -> SUBSET Ids]
            BY <1>1, <1>9, Cleared DEF Poll, LocalTypes
        <2>3. QED
            BY <1>1, <1>9, <2>1, <2>2, RestingStep DEF Poll, LocalTypes
    <1>10. QED
        BY <1>3, <1>4, <1>5, <1>6, <1>7, <1>8, <1>9

\* SIGTERM changes nothing but the phase.
LEMMA StopStep ==
    ASSUME IInv, NEW p \in Replicas, Stop(p)
    PROVE  StepOf(p)
    <1>1. LocalTypes /\ TableTypes /\ faults \in 0 .. MaxFaults /\ DeployerInv(p)
        BY TypesSplit DEF IInv
    <1>2. /\ phase' = [phase EXCEPT ![p] = "stopping"] /\ faults' \in 0 .. MaxFaults
          /\ UNCHANGED <<tables, pc, local, history>>
        BY <1>1, FaultBound DEF Stop
    <1>3. TableTypes' /\ UNCHANGED <<apps, pending, next>> /\ \A id \in Ids : IdSame(id)
        BY <1>1, <1>2, QuietTables
    <1>4. LocalTypes' /\ \A q \in Replicas \ {p} : LocalSame(q)
        BY <1>1, <1>2 DEF LocalTypes, LocalSame, local, Phases
    <1>5. phase'[p] = "stopping"
        BY <1>1, <1>2 DEF LocalTypes
    <1>6. DeployerInv(p)'
        BY <1>1, <1>2, <1>5
        DEF DeployerInv, RowOf, RecordOf, SnapshotOf, StatusIn, Exists, Saving, local, tables, history
    <1>7. QED
        BY <1>2, <1>3, <1>4, <1>6, TypesJoined DEF StepOf, local

\* ClaimSelect holds a queued row that nobody else holds.
LEMMA ClaimSelectStep ==
    ASSUME IInv, NEW p \in Replicas, ClaimSelect(p)
    PROVE  StepOf(p)
    <1>1. LocalTypes /\ TableTypes /\ faults \in 0 .. MaxFaults /\ DeployerInv(p)
        BY TypesSplit DEF IInv
    <1>2. PICK id \in Ids : Claimable(id) /\ job' = [job EXCEPT ![p] = id]
        BY DEF ClaimSelect
    <1>3. /\ pc[p] = "idle" /\ phase[p] = "up" /\ pc' = [pc EXCEPT ![p] = "claiming"]
          /\ UNCHANGED <<tables, phase, record, result, produced, flushing, written, later, history,
                         faults>>
        BY DEF ClaimSelect
    <1>4. TableTypes' /\ UNCHANGED <<apps, pending, next>> /\ \A i \in Ids : IdSame(i)
        BY <1>1, <1>3, QuietTables
    <1>5. LocalTypes' /\ \A q \in Replicas \ {p} : LocalSame(q)
        BY <1>1, <1>2, <1>3 DEF LocalTypes, LocalSame, DeployerStates
    <1>6. StatusIn(id, {"queued"}) /\ ~Unborn(id)
        BY <1>2 DEF Claimable, IInv, IdInv, StatusIn, Exists
    <1>7. ASSUME NEW q \in Replicas \ {p}
          PROVE  job[q] # id
        <2>1. SUFFICES ASSUME job[q] = id PROVE FALSE
            OBVIOUS
        <2>2. job[q] # NULL
            BY <2>1, NullAssumption
        <2>3. CASE pc[q] = "claiming"
            BY <1>2, <2>1, <2>3 DEF Claimable, Locked
        <2>4. CASE pc[q] \in PastClaim
            BY <1>6, <2>1, <2>4 DEF IInv, DeployerInv, RowOf, StatusIn
        <2>5. QED
            BY <2>2, <2>3, <2>4 DEF IInv, DeployerInv
    <1>8. flushing[p] = NULL
        BY <1>1, <1>3 DEF DeployerInv, SnapshotOf
    <1>9. job'[p] = id /\ pc'[p] = "claiming" /\ id # NULL /\ phase'[p] = "up" /\ flushing'[p] = NULL
        BY <1>1, <1>2, <1>3, <1>8, NullAssumption DEF LocalTypes
    <1>10. StatusIn(job[p], {"queued"})'
        BY <1>3, <1>6, <1>9 DEF StatusIn, Exists, tables
    <1>11. DeployerInv(p)'
        BY <1>9, <1>10 DEF DeployerInv, SnapshotOf, PastClaim
    <1>12. QED
        BY <1>1, <1>3, <1>4, <1>5, <1>6, <1>7, <1>9, <1>11, TypesJoined DEF StepOf

-----------------------------------------------------------------------------
(* Steps of a deployer at a deployment it has claimed. *)

\* Such a step is in order when it leaves the deployment, its deployer and the other
\* replicas in order.
LEMMA HolderStep ==
    ASSUME IInv, NEW p \in Replicas, job[p] # NULL, pc'[p] \in PastClaim,
           UNCHANGED <<apps, pending, next, phase, job>>,
           LocalTypes', TableTypes', faults' \in 0 .. MaxFaults,
           \A q \in Replicas \ {p} : LocalSame(q),
           \A id \in Ids \ {job[p]} : IdSame(id),
           IdInv(job[p])', RowOf(p)', RecordOf(p)', SnapshotOf(p)'
    PROVE  StepOf(p)
    <1>1. DeployerInv(p) /\ job[p] \in Ids
        BY DEF IInv, TypeOK
    <1>2. pc[p] # "off" /\ pc'[p] # "off" /\ pc'[p] # "claiming"
        BY <1>1 DEF DeployerInv, PastClaim
    <1>3. phase'[p] \notin {"booting", "down"} /\ job'[p] # NULL
        BY <1>1, <1>2, NullAssumption DEF DeployerInv
    <1>4. DeployerInv(p)'
        BY <1>2, <1>3 DEF DeployerInv
    <1>5. job'[p] = job[p]
        OBVIOUS
    <1>6. \A id \in Ids : IdSame(id) \/ (id = job[p] /\ IdInv(id)')
        <2>1. ASSUME NEW id \in Ids, id = job[p] PROVE IdInv(id)'
            BY <1>5, <2>1 DEF IdInv, Unborn, StatusIn, Exists
        <2>2. QED
            BY <2>1
    <1>7. QED
        BY <1>4, <1>5, <1>6, TypesJoined DEF StepOf

\* A step that writes no table leaves the deployment in order.
LEMMA QuietStep ==
    ASSUME IInv, NEW p \in Replicas, pc[p] \in PastClaim, pc'[p] \in PastClaim,
           UNCHANGED <<tables, phase, job, history>>,
           LocalTypes', faults' \in 0 .. MaxFaults,
           \A q \in Replicas \ {p} : LocalSame(q),
           RowOf(p)', RecordOf(p)', SnapshotOf(p)'
    PROVE  StepOf(p)
    <1>1. job[p] \in Ids /\ IdInv(job[p]) /\ TableTypes
        BY Held, TypesSplit DEF IInv
    <1>2. TableTypes' /\ UNCHANGED <<apps, pending, next>> /\ \A id \in Ids : IdSame(id)
        BY <1>1, QuietTables
    <1>3. PICK i \in Ids : i = job[p]
        BY <1>1
    <1>4. IdInv(i)'
        BY <1>1, <1>2, <1>3, IdKept
    <1>5. i = job'[p]
        BY <1>3
    <1>6. IdInv(job[p])'
        BY <1>4, <1>5 DEF IdInv, Unborn, StatusIn, Exists
    <1>7. QED
        BY <1>1, <1>2, <1>6, HolderStep, NullAssumption

\* The places of a build that ended are its deployer's next.
LEMMA Ended ==
    ASSUME LocalTypes, NEW p \in Replicas, NEW r \in {"ok", "build_failed"}, EndBuild(p, r)
    PROVE  /\ pc'[p] = "finishing" /\ result'[p] = r
           /\ pc' \in [Replicas -> DeployerStates]
           /\ result' \in [Replicas -> {"ok", "build_failed", NULL}]
           /\ \A q \in Replicas \ {p} : pc'[q] = pc[q] /\ result'[q] = result[q]
    BY DEF LocalTypes, EndBuild, DeployerStates

\* Preparing, storing or sealing fails.
LEMMA BuildFailsStep ==
    ASSUME IInv, NEW p \in Replicas, PrepareFails(p) \/ StoreFails(p) \/ SaveBuildRefused(p)
    PROVE  StepOf(p)
    <1>1. /\ pc[p] \in {"fetching", "storing", "sealed"} /\ EndBuild(p, "build_failed")
          /\ UNCHANGED <<tables, phase, job, record, produced, flushing, written, later, history,
                         faults>>
        BY DEF PrepareFails, StoreFails, SaveBuildRefused
    <1>2. pc[p] \in PastClaim /\ "finishing" \in PastClaim
        BY <1>1 DEF PastClaim
    <1>3. /\ LocalTypes /\ faults \in 0 .. MaxFaults /\ RowOf(p) /\ RecordOf(p) /\ SnapshotOf(p)
        BY <1>2, Held, TypesSplit DEF IInv
    <1>4. /\ pc'[p] = "finishing" /\ result'[p] = "build_failed"
          /\ pc' \in [Replicas -> DeployerStates]
          /\ result' \in [Replicas -> {"ok", "build_failed", NULL}]
          /\ \A q \in Replicas \ {p} : pc'[q] = pc[q] /\ result'[q] = result[q]
        BY <1>1, <1>3, Ended
    <1>5. LocalTypes' /\ \A q \in Replicas \ {p} : LocalSame(q)
        BY <1>1, <1>3, <1>4 DEF LocalTypes, LocalSame
    <1>6. RowOf(p)'
        BY <1>1, <1>3, <1>4 DEF RowOf, Exists, Saving, tables
    <1>7. RecordOf(p)'
        BY <1>1, <1>3, <1>4, NullAssumption DEF RecordOf, Exists, Saving, tables, history
    <1>8. SnapshotOf(p)'
        BY <1>1, <1>3 DEF SnapshotOf
    <1>9. QED
        BY <1>1, <1>2, <1>3, <1>4, <1>5, <1>6, <1>7, <1>8, QuietStep

\* The flusher takes its snapshot, and loses it when the Save fails.
LEMMA FlusherStep ==
    ASSUME IInv, NEW p \in Replicas, FlushTake(p) \/ FlushError(p)
    PROVE  StepOf(p)
    <1>1. /\ pc[p] \in {"building", "closing"}
          /\ UNCHANGED <<tables, phase, pc, job, record, result, produced, later, history>>
          /\ flushing' \in {flushing, [flushing EXCEPT ![p] = record[p]], [flushing EXCEPT ![p] = NULL]}
          /\ written' \in {written, [written EXCEPT ![p] = FALSE]}
        BY DEF FlushTake, FlushError, IInv, DeployerInv, SnapshotOf
    <1>2. pc[p] \in PastClaim
        BY <1>1 DEF PastClaim
    <1>3. /\ LocalTypes /\ TableTypes /\ faults \in 0 .. MaxFaults /\ job[p] \in Ids
          /\ record[p] \in Rows /\ RowOf(p) /\ RecordOf(p) /\ SnapshotOf(p)
        BY <1>2, Held, TypesSplit DEF IInv
    <1>4. faults' \in 0 .. MaxFaults
        BY <1>3, InterruptedBound DEF FlushTake, FlushError
    <1>5. LocalTypes' /\ \A q \in Replicas \ {p} : LocalSame(q)
        BY <1>1, <1>3 DEF LocalTypes, LocalSame
    <1>6. RowOf(p)'
        BY <1>1, <1>3 DEF RowOf, Exists, Saving, tables
    <1>7. RecordOf(p)'
        BY <1>1, <1>3 DEF RecordOf, Exists, Saving, tables, history
    <1>8. flushing'[p] \in {flushing[p], record[p], NULL}
        BY <1>1, <1>3 DEF LocalTypes
    <1>9. printed[job[p]] \in Nat
        BY <1>3 DEF TableTypes
    <1>10. SnapshotOf(p)'
        BY <1>1, <1>3, <1>8, <1>9 DEF SnapshotOf, RecordOf, history
    <1>11. QED
        BY <1>1, <1>2, <1>4, <1>5, <1>6, <1>7, <1>10, QuietStep

\* The toolchain returns and the stream is closed.
LEMMA ClosingStep ==
    ASSUME IInv, NEW p \in Replicas, ToolchainReturns(p) \/ CloseStream(p)
    PROVE  StepOf(p)
    <1>1. /\ pc[p] \in {"building", "closing"}
          /\ UNCHANGED <<tables, phase, job, record, produced, flushing, written, later, history,
                         faults>>
        BY DEF ToolchainReturns, CloseStream, local
    <1>2. pc[p] \in PastClaim
        BY <1>1 DEF PastClaim
    <1>3. /\ LocalTypes /\ faults \in 0 .. MaxFaults /\ RowOf(p) /\ RecordOf(p) /\ SnapshotOf(p)
        BY <1>2, Held, TypesSplit DEF IInv
    <1>4. \/ /\ pc[p] = "building" /\ pc' = [pc EXCEPT ![p] = "closing"]
             /\ \E r \in {"ok", "build_failed"} : result' = [result EXCEPT ![p] = r]
          \/ /\ pc[p] = "closing" /\ flushing[p] = NULL /\ UNCHANGED result
             /\ pc' = [pc EXCEPT ![p] = IF result[p] = "ok" THEN "advancing" ELSE "finishing"]
        BY DEF ToolchainReturns, CloseStream, StreamClosed, local
    <1>5. LocalTypes' /\ \A q \in Replicas \ {p} : LocalSame(q)
        BY <1>1, <1>3, <1>4 DEF LocalTypes, LocalSame, DeployerStates
    <1>6. \/ /\ pc[p] = "building" /\ pc'[p] = "closing" /\ result'[p] \in {"ok", "build_failed"}
          \/ /\ pc[p] = "closing" /\ flushing[p] = NULL /\ result'[p] = result[p]
             /\ pc'[p] = IF result[p] = "ok" THEN "advancing" ELSE "finishing"
        BY <1>3, <1>4 DEF LocalTypes
    <1>7. RowOf(p)'
        BY <1>1, <1>3, <1>6 DEF RowOf, Exists, Saving, tables
    <1>8. RecordOf(p)'
        BY <1>1, <1>3, <1>6, NullAssumption DEF RecordOf, Exists, Saving, tables, history
    <1>9. SnapshotOf(p)'
        BY <1>1, <1>3, <1>6 DEF SnapshotOf, history
    <1>10. pc'[p] \in PastClaim
        BY <1>6 DEF PastClaim
    <1>11. QED
        BY <1>1, <1>2, <1>3, <1>5, <1>7, <1>8, <1>9, <1>10, QuietStep

\* Sealing a build, all of whose layers are stored, and choosing the outcome.
LEMMA SealStep ==
    ASSUME IInv, NEW p \in Replicas, Seal(p)
    PROVE  StepOf(p)
    <1>1. /\ pc[p] = "storing" /\ blobs[job[p]] = Layers
          /\ UNCHANGED <<tables, phase, job, record, result, flushing, written, later, history,
                         faults>>
          /\ pc' = [pc EXCEPT ![p] = "sealed"]
        BY DEF Seal, AllStored
    <1>2. pc[p] \in PastClaim /\ "sealed" \in PastClaim
        BY <1>1 DEF PastClaim
    <1>3. /\ LocalTypes /\ faults \in 0 .. MaxFaults /\ record[p] \in Rows
          /\ RowOf(p) /\ RecordOf(p) /\ SnapshotOf(p)
        BY <1>2, Held, TypesSplit DEF IInv
    <1>4. PICK b : b = [app |-> record[p].app, commit |-> record[p].commit, layers |-> Layers]
        OBVIOUS
    <1>5. produced' = [produced EXCEPT ![p] = b]
        BY <1>4 DEF Seal
    <1>6. b \in BuildRows
        BY <1>3, <1>4, ConstantsAssumption DEF Rows, BuildRows
    <1>7. LocalTypes' /\ (\A q \in Replicas \ {p} : LocalSame(q)) /\ pc'[p] = "sealed" /\ produced'[p] = b
        BY <1>1, <1>3, <1>5, <1>6 DEF LocalTypes, LocalSame, DeployerStates
    <1>8. RowOf(p)'
        BY <1>1, <1>3, <1>7 DEF RowOf, Exists, Saving, tables
    <1>9. RecordOf(p)'
        BY <1>1, <1>3, <1>4, <1>7 DEF RecordOf, Exists, Saving, tables, history
    <1>10. SnapshotOf(p)'
        BY <1>1, <1>3, <1>7 DEF SnapshotOf
    <1>11. QED
        BY <1>1, <1>2, <1>3, <1>7, <1>8, <1>9, <1>10, QuietStep

\* Finish gives the record its outcome.
LEMMA FinishStep ==
    ASSUME IInv, NEW p \in Replicas, Finish(p)
    PROVE  StepOf(p)
    <1>1. /\ pc[p] = "finishing"
          /\ UNCHANGED <<tables, phase, job, result, produced, flushing, written, later, history,
                         faults>>
          /\ record' = [record EXCEPT ![p] = Outcome(p)]
          /\ \/ pc' = [pc EXCEPT ![p] = "saving"]
             \/ pc' = [pc EXCEPT ![p] = "saving_detached"]
        BY DEF Finish
    <1>2. pc[p] \in PastClaim /\ "saving" \in PastClaim /\ "saving_detached" \in PastClaim
        BY <1>1 DEF PastClaim
    <1>3. /\ LocalTypes /\ faults \in 0 .. MaxFaults /\ record[p] \in Rows
          /\ RowOf(p) /\ RecordOf(p) /\ SnapshotOf(p)
        BY <1>2, Held, TypesSplit DEF IInv
    <1>4. result[p] \in {"ok", "build_failed"}
        BY <1>1, <1>3 DEF LocalTypes, RecordOf
    <1>5. PICK row : row = Outcome(p)
        OBVIOUS
    <1>6. /\ row \in Rows /\ row # NULL /\ row.app = record[p].app /\ row.commit = record[p].commit
          /\ row.logs = record[p].logs /\ row.status \in Finished
          /\ row.failure # "build_interrupted"
          /\ row.status = "ready" => result[p] = "ok"
        BY <1>3, <1>4, <1>5, FailIsRow, ReadyIsRow, NullAssumption DEF Outcome, Failures, Finished
    <1>7. /\ LocalTypes' /\ \A q \in Replicas \ {p} : LocalSame(q)
        BY <1>1, <1>3, <1>5, <1>6 DEF LocalTypes, LocalSame, DeployerStates
    <1>8. pc'[p] \in {"saving", "saving_detached"} /\ record'[p] = row
        BY <1>1, <1>3, <1>5 DEF LocalTypes
    <1>9. RowOf(p)'
        BY <1>1, <1>3, <1>6, <1>8 DEF RowOf, Exists, Saving, tables
    <1>10. RecordOf(p)'
        BY <1>1, <1>3, <1>6, <1>8 DEF RecordOf, Exists, Saving, tables, history
    <1>11. SnapshotOf(p)'
        BY <1>1, <1>3 DEF SnapshotOf
    <1>12. QED
        BY <1>1, <1>2, <1>3, <1>7, <1>8, <1>9, <1>10, <1>11, QuietStep

\* A Save of a deployment somebody holds writes over a row that is there.
LEMMA SaveLands ==
    ASSUME IInv, NEW p \in Replicas, pc[p] \in PastClaim, NEW row \in Rows,
           row.app = record[p].app, Upsertable(row, job[p]), dep' = Upsert(row, job[p])
    PROVE  /\ dep' \in [Ids -> Rows \union {NULL}] /\ dep'[job[p]] = row
           /\ \A id \in Ids \ {job[p]} : dep'[id] = dep[id]
           /\ Exists(job[p]) /\ row.app \in apps /\ dep[job[p]].commit = record[p].commit
           /\ row # NULL
           /\ dep[job[p]].status \in Running \union {row.status}
    <1>1. dep \in [Ids -> Rows \union {NULL}] /\ job[p] \in Ids /\ RecordOf(p) /\ RowOf(p)
        BY Held DEF IInv, TypeOK
    <1>2. Exists(job[p]) /\ row.app \in apps
        BY <1>1 DEF Upsertable, RecordOf
    <1>3. QED
        BY <1>1, <1>2, RowAssumption DEF Upsert, Upsertable, RowOf

\* advance, whatever becomes of its Save.
LEMMA AdvanceStep ==
    ASSUME IInv, NEW p \in Replicas, AdvanceSave(p) \/ AdvanceRefused(p) \/ AdvanceError(p)
    PROVE  StepOf(p)
    <1>1. pc[p] = "advancing" /\ pc[p] \in PastClaim
        BY DEF AdvanceSave, AdvanceRefused, AdvanceError, PastClaim
    <1>2. /\ LocalTypes /\ TableTypes /\ faults \in 0 .. MaxFaults /\ job[p] \in Ids
          /\ record[p] \in Rows /\ RowOf(p) /\ RecordOf(p) /\ SnapshotOf(p) /\ IdInv(job[p])
          /\ ~Unborn(job[p])
        BY <1>1, Held, TypesSplit DEF IInv
    <1>3. PICK row : row = Advance(record[p])
        OBVIOUS
    <1>4. /\ row \in Rows /\ row # NULL /\ row.app = record[p].app /\ row.commit = record[p].commit
          /\ row.logs = record[p].logs /\ row.status = "publishing" /\ row.failure = NULL
        BY <1>1, <1>2, <1>3, AdvanceIsRow DEF RecordOf
    <1>5. /\ UNCHANGED <<apps, build, blobs, pending, next, phase, job, produced, flushing, written,
                         later, history>>
          /\ record' = [record EXCEPT ![p] = row] /\ faults' \in 0 .. MaxFaults
        BY <1>2, <1>3, InterruptedBound DEF AdvanceSave, AdvanceRefused, AdvanceError, tables
    <1>6. \/ /\ pc' = [pc EXCEPT ![p] = "storing"] /\ UNCHANGED result
             /\ Upsertable(row, job[p]) /\ dep' = Upsert(row, job[p])
          \/ EndBuild(p, "build_failed") /\ UNCHANGED dep
          \/ /\ EndBuild(p, "build_failed")
             /\ Upsertable(row, job[p]) /\ dep' = Upsert(row, job[p])
        BY <1>3 DEF AdvanceSave, AdvanceRefused, AdvanceError, Saveable, tables
    <1>7. /\ LocalTypes' /\ (\A q \in Replicas \ {p} : LocalSame(q)) /\ record'[p] = row
          /\ \/ pc'[p] = "storing" /\ dep' = Upsert(row, job[p])
             \/ pc'[p] = "finishing" /\ result'[p] = "build_failed"
        <2>1. pc' \in [Replicas -> DeployerStates] /\ result' \in [Replicas -> {"ok", "build_failed", NULL}]
            BY <1>2, <1>6, Ended DEF LocalTypes, DeployerStates
        <2>2. \A q \in Replicas \ {p} : pc'[q] = pc[q] /\ result'[q] = result[q]
            BY <1>2, <1>6, Ended DEF LocalTypes
        <2>3. \/ pc'[p] = "storing" /\ dep' = Upsert(row, job[p])
              \/ pc'[p] = "finishing" /\ result'[p] = "build_failed"
            BY <1>2, <1>6, Ended DEF LocalTypes
        <2>4. QED
            BY <1>2, <1>4, <1>5, <2>1, <2>2, <2>3 DEF LocalTypes, LocalSame
    <1>8. \/ UNCHANGED dep /\ pc'[p] = "finishing"
          \/ /\ dep' \in [Ids -> Rows \union {NULL}] /\ dep'[job[p]] = row
             /\ \A id \in Ids \ {job[p]} : dep'[id] = dep[id]
             /\ Exists(job[p]) /\ row.app \in apps /\ dep[job[p]].commit = record[p].commit
        BY <1>1, <1>2, <1>4, <1>6, Ended, SaveLands
    <1>9. TableTypes' /\ \A id \in Ids \ {job[p]} : IdSame(id)
        BY <1>2, <1>5, <1>8 DEF TableTypes, IdSame, history
    <1>10. IdInv(job[p])'
        BY <1>2, <1>4, <1>5, <1>8 DEF IdInv, Unborn, StatusIn, Exists, Finished, history, RecordOf,
                                      TableTypes
    <1>11. RowOf(p)'
        BY <1>1, <1>2, <1>4, <1>5, <1>7, <1>8 DEF RowOf, Exists, Saving, Finished
    <1>12. RecordOf(p)'
        BY <1>1, <1>2, <1>4, <1>5, <1>7, <1>8, NullAssumption DEF RecordOf, Exists, Saving, history
    <1>13. SnapshotOf(p)'
        BY <1>1, <1>2, <1>5 DEF SnapshotOf
    <1>14. pc'[p] \in PastClaim
        BY <1>7 DEF PastClaim
    <1>15. QED
        BY <1>1, <1>2, <1>5, <1>7, <1>9, <1>10, <1>11, <1>12, <1>13, <1>14, HolderStep, NullAssumption

\* The toolchain is started by the only deployer the deployment ever has.
LEMMA StartStep ==
    ASSUME IInv, NEW p \in Replicas, StartToolchain(p)
    PROVE  StepOf(p)
    <1>1. /\ pc[p] = "fetching" /\ pc[p] \in PastClaim /\ "building" \in PastClaim
          /\ runs' = [runs EXCEPT ![job[p]] = @ + 1] /\ pc' = [pc EXCEPT ![p] = "building"]
          /\ UNCHANGED <<tables, phase, local, printed, faults>>
        BY DEF StartToolchain, PastClaim
    <1>2. /\ LocalTypes /\ TableTypes /\ faults \in 0 .. MaxFaults /\ job[p] \in Ids
          /\ RowOf(p) /\ RecordOf(p) /\ SnapshotOf(p) /\ IdInv(job[p]) /\ ~Unborn(job[p])
        BY <1>1, Held, TypesSplit DEF IInv
    <1>3. LocalTypes' /\ (\A q \in Replicas \ {p} : LocalSame(q)) /\ pc'[p] = "building"
        BY <1>1, <1>2 DEF LocalTypes, LocalSame, local, DeployerStates
    <1>4. runs[job[p]] = 0 /\ runs'[job[p]] = 1
        BY <1>1, <1>2 DEF RecordOf, TableTypes
    <1>5. TableTypes' /\ \A id \in Ids \ {job[p]} : IdSame(id)
        BY <1>1, <1>2 DEF TableTypes, IdSame, tables
    <1>6. IdInv(job[p])'
        BY <1>1, <1>2, <1>4 DEF IdInv, RowOf, Unborn, StatusIn, Exists, tables, local
    <1>7. RowOf(p)'
        BY <1>1, <1>2, <1>3 DEF RowOf, Exists, Saving, tables, local
    <1>8. RecordOf(p)'
        BY <1>1, <1>2, <1>3, <1>4 DEF RecordOf, Exists, Saving, tables, local
    <1>9. SnapshotOf(p)'
        BY <1>1, <1>2, <1>3 DEF SnapshotOf, local
    <1>10. QED
        BY <1>1, <1>2, <1>3, <1>5, <1>6, <1>7, <1>8, <1>9, HolderStep, NullAssumption DEF tables, local

\* Output goes to the record and the history alike.
LEMMA PrintsStep ==
    ASSUME IInv, NEW p \in Replicas, ToolchainPrints(p)
    PROVE  StepOf(p)
    <1>1. /\ pc[p] = "building" /\ pc[p] \in PastClaim /\ printed[job[p]] < MaxPrint
          /\ printed' = [printed EXCEPT ![job[p]] = @ + 1]
          /\ \E ok \in BOOLEAN :
                record' = [record EXCEPT ![p].logs = @ + 1, ![p].storable = ok]
          /\ written' = [written EXCEPT ![p] = TRUE]
          /\ UNCHANGED <<tables, phase, pc, job, result, produced, flushing, later, runs, faults>>
        BY DEF ToolchainPrints, PastClaim
    <1>2. /\ LocalTypes /\ TableTypes /\ faults \in 0 .. MaxFaults /\ job[p] \in Ids
          /\ record[p] \in Rows /\ RowOf(p) /\ RecordOf(p) /\ SnapshotOf(p) /\ IdInv(job[p])
          /\ ~Unborn(job[p])
        BY <1>1, Held, TypesSplit DEF IInv
    <1>3. PICK row : \E ok \in BOOLEAN :
              /\ record' = [record EXCEPT ![p].logs = @ + 1, ![p].storable = ok]
              /\ row = [record[p] EXCEPT !.logs = @ + 1, !.storable = ok]
        BY <1>1
    <1>4. record' = [record EXCEPT ![p] = row]
        BY <1>1, <1>2, <1>3 DEF LocalTypes
    <1>5. PICK n \in Nat : n = printed[job[p]] /\ record[p].logs = n /\ n + 1 \in 0 .. MaxPrint
        BY <1>1, <1>2, ConstantsAssumption DEF RecordOf, TableTypes
    <1>6. /\ row \in Rows /\ row.logs = n + 1 /\ row.app = record[p].app
          /\ row.commit = record[p].commit /\ row.status = record[p].status
          /\ row.failure = record[p].failure
        <2>1. PICK old \in Rows, ok \in BOOLEAN :
                  old = record[p] /\ old.logs = n /\ row = [old EXCEPT !.logs = n + 1, !.storable = ok]
            BY <1>2, <1>3, <1>5
        <2>2. row \in Rows
            BY <1>5, <2>1 DEF Rows
        <2>3. QED
            BY <2>1, <2>2 DEF Rows
    <1>7. row # NULL
        BY <1>6, RowAssumption
    <1>8. /\ LocalTypes' /\ (\A q \in Replicas \ {p} : LocalSame(q)) /\ record'[p] = row
        BY <1>1, <1>2, <1>4, <1>6 DEF LocalTypes, LocalSame
    <1>9. TableTypes' /\ (\A id \in Ids \ {job[p]} : IdSame(id)) /\ printed'[job[p]] = n + 1
        BY <1>1, <1>2, <1>5 DEF TableTypes, IdSame, tables
    <1>10. dep[job[p]] # NULL => dep[job[p]].logs \in Nat
        <2>1. dep[job[p]] # NULL => dep[job[p]] \in Rows
            BY <1>2 DEF TableTypes
        <2>2. QED
            BY <2>1, ConstantsAssumption DEF Rows
    <1>11. IdInv(job[p])'
        BY <1>1, <1>2, <1>5, <1>9, <1>10
        DEF IdInv, RowOf, Unborn, StatusIn, Exists, tables
    <1>12. RowOf(p)'
        BY <1>1, <1>2, <1>6, <1>8 DEF RowOf, Exists, Saving, tables
    <1>13. RecordOf(p)'
        <2>1. /\ pc'[p] = "building" /\ job'[p] = job[p] /\ dep'[job[p]] = dep[job[p]]
              /\ apps' = apps /\ runs'[job[p]] = runs[job[p]]
            BY <1>1 DEF tables
        <2>2. /\ record[p].app \in apps => dep[job[p]] # NULL
              /\ record[p].status = "building" /\ record[p].failure = NULL /\ runs[job[p]] = 1
            BY <1>1, <1>2 DEF RecordOf, Exists
        <2>3. QED
            BY <1>6, <1>7, <1>8, <1>9, <2>1, <2>2 DEF RecordOf, Exists, Saving
    <1>14. SnapshotOf(p)'
        <2>1. flushing[p] # NULL => flushing[p] \in Rows
            BY <1>2 DEF LocalTypes
        <2>2. flushing[p] # NULL => flushing[p].logs \in Nat
            BY <2>1, ConstantsAssumption DEF Rows
        <2>3. QED
            BY <1>1, <1>2, <1>5, <1>6, <1>8, <1>9, <2>2 DEF SnapshotOf
    <1>15. QED
        BY <1>1, <1>2, <1>8, <1>9, <1>11, <1>12, <1>13, <1>14, HolderStep, NullAssumption DEF tables

\* A flushed snapshot is saved only over a row that is still building.
LEMMA FlushSaveStep ==
    ASSUME IInv, NEW p \in Replicas, FlushSave(p)
    PROVE  StepOf(p)
    <1>1. /\ flushing[p] # NULL
          /\ \/ UNCHANGED dep
             \/ Upsertable(flushing[p], job[p]) /\ dep' = Upsert(flushing[p], job[p])
          /\ flushing' = [flushing EXCEPT ![p] = NULL]
          /\ UNCHANGED <<apps, build, blobs, pending, next, phase, pc, job, record, result, produced,
                         written, later, history, faults>>
        BY DEF FlushSave, Saveable
    <1>2. pc[p] \in {"building", "closing"} /\ pc[p] \in PastClaim
        BY <1>1 DEF IInv, DeployerInv, SnapshotOf, PastClaim
    <1>3. /\ LocalTypes /\ TableTypes /\ faults \in 0 .. MaxFaults /\ job[p] \in Ids
          /\ RowOf(p) /\ RecordOf(p) /\ SnapshotOf(p) /\ IdInv(job[p]) /\ ~Unborn(job[p])
        BY <1>2, Held, TypesSplit DEF IInv
    <1>4. LocalTypes' /\ (\A q \in Replicas \ {p} : LocalSame(q)) /\ flushing'[p] = NULL
        BY <1>1, <1>3 DEF LocalTypes, LocalSame
    <1>5. PICK row : row = flushing[p]
        OBVIOUS
    <1>6. /\ row \in Rows /\ row.app = record[p].app /\ row.commit = record[p].commit
          /\ row.status = "building" /\ row.failure = NULL /\ row.logs <= printed[job[p]]
        BY <1>1, <1>3, <1>5 DEF LocalTypes, SnapshotOf
    <1>7. \/ UNCHANGED dep
          \/ /\ dep' \in [Ids -> Rows \union {NULL}] /\ dep'[job[p]] = row /\ row # NULL
             /\ \A id \in Ids \ {job[p]} : dep'[id] = dep[id]
             /\ Exists(job[p]) /\ row.app \in apps /\ dep[job[p]].commit = record[p].commit
        BY <1>1, <1>2, <1>5, <1>6, SaveLands
    <1>8. TableTypes' /\ \A id \in Ids \ {job[p]} : IdSame(id)
        BY <1>1, <1>3, <1>7 DEF TableTypes, IdSame, history
    <1>9. IdInv(job[p])'
        BY <1>1, <1>3, <1>6, <1>7 DEF IdInv, Unborn, StatusIn, Exists, Finished, history
    <1>10. RowOf(p)'
        BY <1>1, <1>2, <1>3, <1>6, <1>7 DEF RowOf, Exists, Saving, Finished
    <1>11. RecordOf(p)'
        BY <1>1, <1>2, <1>3, <1>7 DEF RecordOf, Exists, Saving, history
    <1>12. SnapshotOf(p)'
        BY <1>4 DEF SnapshotOf
    <1>13. QED
        BY <1>1, <1>2, <1>3, <1>4, <1>8, <1>9, <1>10, <1>11, <1>12, HolderStep, NullAssumption

\* A layer is stored while there is no build yet.
LEMMA StoreLayerStep ==
    ASSUME IInv, NEW p \in Replicas, StoreLayer(p)
    PROVE  StepOf(p)
    <1>1. /\ pc[p] = "storing" /\ pc[p] \in PastClaim /\ blobs[job[p]] < Layers
          /\ blobs' = [blobs EXCEPT ![job[p]] = @ + 1]
          /\ UNCHANGED <<apps, dep, build, pending, next, phase, pc, local, history, faults>>
        BY DEF StoreLayer, PastClaim
    <1>2. /\ LocalTypes /\ TableTypes /\ faults \in 0 .. MaxFaults /\ job[p] \in Ids
          /\ RowOf(p) /\ RecordOf(p) /\ SnapshotOf(p) /\ IdInv(job[p]) /\ ~Unborn(job[p])
        BY <1>1, Held, TypesSplit DEF IInv
    <1>3. LocalTypes' /\ \A q \in Replicas \ {p} : LocalSame(q)
        BY <1>1, <1>2 DEF LocalTypes, LocalSame, local
    <1>4. TableTypes' /\ \A id \in Ids \ {job[p]} : IdSame(id)
        BY <1>1, <1>2, ConstantsAssumption DEF TableTypes, IdSame, history
    <1>5. build[job[p]] = NULL
        BY <1>1, <1>2, ConstantsAssumption DEF IdInv, TableTypes
    <1>6. IdInv(job[p])'
        BY <1>1, <1>2, <1>5 DEF IdInv, Unborn, StatusIn, Exists, history, local
    <1>7. RowOf(p)' /\ SnapshotOf(p)'
        BY <1>1, <1>2 DEF RowOf, SnapshotOf, Exists, Saving, local, history
    <1>8. RecordOf(p)'
        BY <1>1, <1>2 DEF RecordOf, Exists, Saving, history, local
    <1>9. QED
        BY <1>1, <1>2, <1>3, <1>4, <1>6, <1>7, <1>8, HolderStep, NullAssumption DEF local

\* The build that is saved is the sealed one, whether or not the deployer hears of it.
LEMMA SaveBuildStep ==
    ASSUME IInv, NEW p \in Replicas, SaveBuild(p) \/ SaveBuildError(p)
    PROVE  StepOf(p)
    <1>1. pc[p] = "sealed" /\ pc[p] \in PastClaim /\ "finishing" \in PastClaim
        BY DEF SaveBuild, SaveBuildError, PastClaim
    <1>2. /\ LocalTypes /\ TableTypes /\ faults \in 0 .. MaxFaults /\ job[p] \in Ids
          /\ record[p] \in Rows /\ RowOf(p) /\ RecordOf(p) /\ SnapshotOf(p) /\ IdInv(job[p])
          /\ ~Unborn(job[p])
        BY <1>1, Held, TypesSplit DEF IInv
    <1>3. /\ UNCHANGED <<apps, dep, blobs, pending, next, phase, job, record, produced, flushing,
                         written, later, history>>
          /\ faults' \in 0 .. MaxFaults
        BY <1>2, InterruptedBound DEF SaveBuild, SaveBuildError
    <1>4. \/ /\ BuildInsertable(p) /\ build' = [build EXCEPT ![job[p]] = produced[p]]
             /\ EndBuild(p, "ok") \/ EndBuild(p, "build_failed")
          \/ UNCHANGED build /\ EndBuild(p, "build_failed")
        BY DEF SaveBuild, SaveBuildError
    <1>5. /\ pc'[p] = "finishing"
          /\ result'[p] \in {"ok", "build_failed"}
          /\ \/ BuildInsertable(p) /\ build' = [build EXCEPT ![job[p]] = produced[p]]
             \/ UNCHANGED build /\ result'[p] = "build_failed"
          /\ pc' \in [Replicas -> DeployerStates]
          /\ result' \in [Replicas -> {"ok", "build_failed", NULL}]
          /\ \A q \in Replicas \ {p} : pc'[q] = pc[q] /\ result'[q] = result[q]
        BY <1>2, <1>4, Ended
    <1>6. LocalTypes' /\ \A q \in Replicas \ {p} : LocalSame(q)
        BY <1>2, <1>3, <1>5 DEF LocalTypes, LocalSame
    <1>7. PICK b : b = produced[p]
        OBVIOUS
    <1>8. b = [app |-> record[p].app, commit |-> record[p].commit, layers |-> Layers]
        BY <1>1, <1>2, <1>7 DEF RecordOf
    <1>9. b \in BuildRows /\ b.layers = Layers /\ b.commit = record[p].commit
        BY <1>2, <1>8, ConstantsAssumption DEF Rows, BuildRows
    <1>10. b # NULL
        BY <1>9, RowAssumption
    <1>11. /\ \/ UNCHANGED build /\ result'[p] = "build_failed"
              \/ build'[job[p]] = b /\ Exists(job[p])
           /\ \A id \in Ids \ {job[p]} : build'[id] = build[id]
           /\ build' \in [Ids -> BuildRows \union {NULL}]
        BY <1>2, <1>5, <1>7, <1>9 DEF TableTypes, BuildInsertable
    <1>12. TableTypes' /\ \A id \in Ids \ {job[p]} : IdSame(id)
        BY <1>2, <1>3, <1>11 DEF TableTypes, IdSame, history
    <1>13. IdInv(job[p])'
        BY <1>1, <1>2, <1>3, <1>9, <1>11
        DEF IdInv, RowOf, RecordOf, Unborn, StatusIn, Exists, history
    <1>14. RowOf(p)'
        BY <1>1, <1>2, <1>3, <1>5, <1>10, <1>11 DEF RowOf, Exists, Saving
    <1>15. RecordOf(p)'
        BY <1>1, <1>2, <1>3, <1>5, NullAssumption DEF RecordOf, Exists, Saving, history
    <1>16. SnapshotOf(p)'
        BY <1>1, <1>2, <1>3 DEF SnapshotOf
    <1>17. QED
        BY <1>1, <1>2, <1>3, <1>5, <1>6, <1>12, <1>13, <1>14, <1>15, <1>16, HolderStep,
           NullAssumption

\* The last Save carries the whole output; then the deployer lets go, whatever it hears.
LEMMA LastSaveStep ==
    ASSUME IInv, NEW p \in Replicas, SaveFinal(p) \/ SaveError(p)
    PROVE  StepOf(p)
    <1>1. Saving(p) /\ pc[p] \in PastClaim
        BY DEF SaveFinal, SaveError, Saving, PastClaim
    <1>2. /\ LocalTypes /\ TableTypes /\ faults \in 0 .. MaxFaults /\ job[p] \in Ids
          /\ record[p] \in Rows /\ RowOf(p) /\ RecordOf(p) /\ IdInv(job[p]) /\ ~Unborn(job[p])
          /\ phase[p] \notin {"booting", "down"}
        BY <1>1, Held, TypesSplit DEF IInv, DeployerInv, PastClaim
    <1>3. /\ UNCHANGED <<apps, build, blobs, pending, next, history>> /\ faults' \in 0 .. MaxFaults
          /\ Forget(p)
          /\ \/ UNCHANGED dep
             \/ Upsertable(record[p], job[p]) /\ dep' = Upsert(record[p], job[p])
        BY <1>2, InterruptedBound, FaultBound DEF SaveFinal, SaveError, Saveable
    <1>4. PICK x \in {"idle", "exited"} : pc' = [pc EXCEPT ![p] = x]
        BY DEF SaveFinal, SaveError, ExitDeployer
    <1>5. /\ phase' \in [Replicas -> Phases] /\ \A q \in Replicas \ {p} : phase'[q] = phase[q]
          /\ phase'[p] \notin {"booting", "down"}
        BY <1>2, Exits DEF SaveFinal, SaveError, LocalTypes
    <1>6. /\ LocalTypes' /\ DeployerInv(p)' /\ job'[p] = NULL
          /\ \A q \in Replicas \ {p} : LocalSame(q)
        BY <1>2, <1>3, <1>4, <1>5, Forgets, Cleared DEF Forget, LocalTypes
    <1>7. PICK i \in Ids, row \in Rows : i = job[p] /\ row = record[p]
        BY <1>2
    <1>8. /\ row.status \in Finished /\ row.logs = printed[i]
          /\ row.commit = record[p].commit
        BY <1>1, <1>2, <1>7 DEF RecordOf
    <1>9. \/ UNCHANGED dep
          \/ /\ dep' \in [Ids -> Rows \union {NULL}] /\ dep'[i] = row
             /\ \A id \in Ids \ {i} : dep'[id] = dep[id]
             /\ Exists(i) /\ row.app \in apps /\ dep[i].commit = record[p].commit /\ row # NULL
        BY <1>1, <1>2, <1>3, <1>7, SaveLands
    <1>10. TableTypes' /\ \A id \in Ids \ {i} : IdSame(id)
        BY <1>2, <1>3, <1>9 DEF TableTypes, IdSame, history
    <1>11. printed[i] \in Nat /\ row.status # "queued"
        BY <1>2, <1>7, <1>8 DEF TableTypes, Finished
    <1>12. IdInv(i)'
        BY <1>2, <1>3, <1>7, <1>8, <1>9, <1>11 DEF IdInv, Unborn, StatusIn, Exists, history
    <1>13. QED
        BY <1>3, <1>6, <1>7, <1>10, <1>12, TypesJoined DEF StepOf

\* What a claim writes, its time being in order or not.
LEMMA ClaimWrites ==
    ASSUME NEW p, ClaimCommit(p) \/ ClaimLost(p)
    PROVE  \E row : \E timely \in BOOLEAN :
              /\ row = Claimed(p, timely) /\ dep' = Upsert(row, job[p])
              /\ ClaimCommit(p) => record' = [record EXCEPT ![p] = row]
    <1>1. InTime(p) \subseteq BOOLEAN
        BY DEF InTime
    <1>2. CASE ClaimCommit(p)
        <2>1. PICK timely \in InTime(p) :
                  /\ dep' = Upsert(Claimed(p, timely), job[p])
                  /\ record' = [record EXCEPT ![p] = Claimed(p, timely)]
            BY <1>2 DEF ClaimCommit
        <2>2. QED
            BY <1>1, <2>1
    <1>3. CASE ~ClaimCommit(p)
        <2>1. PICK timely \in InTime(p) : dep' = Upsert(Claimed(p, timely), job[p])
            BY <1>3 DEF ClaimLost
        <2>2. QED
            BY <1>1, <1>3, <2>1
    <1>4. QED
        BY <1>2, <1>3

\* The claim commits: the row is building and the deployer, if it hears of it, holds it.
LEMMA ClaimStep ==
    ASSUME IInv, NEW p \in Replicas, ClaimCommit(p) \/ ClaimLost(p)
    PROVE  StepOf(p)
    <1>1. /\ pc[p] = "claiming" /\ UNCHANGED <<apps, build, blobs, pending, next, history>>
          /\ later' = [Overtake(Booting, job[p]) EXCEPT ![p] = {}]
        BY DEF ClaimCommit, ClaimLost
    <1>2. /\ LocalTypes /\ TableTypes /\ faults \in 0 .. MaxFaults /\ DeployerInv(p) /\ JobInv
        BY TypesSplit DEF IInv
    <1>3. job[p] # NULL /\ StatusIn(job[p], {"queued"})
        BY <1>1, <1>2 DEF DeployerInv
    <1>4. PICK i \in Ids : i = job[p]
        BY <1>2, <1>3 DEF LocalTypes
    <1>5. IdInv(i) /\ ~Unborn(i)
        BY <1>2, <1>3, <1>4 DEF IInv, JobInv
    <1>6. dep[i] \in Rows /\ dep[i].status = "queued"
        BY <1>2, <1>3, <1>4 DEF TableTypes, StatusIn, Exists
    <1>7. PICK row : \E timely \in BOOLEAN :
              /\ row = Claimed(p, timely) /\ dep' = Upsert(row, job[p])
              /\ ClaimCommit(p) => record' = [record EXCEPT ![p] = row]
        BY ClaimWrites
    <1>8. /\ row \in Rows /\ row # NULL /\ row.app = dep[i].app /\ row.commit = dep[i].commit
          /\ row.logs = dep[i].logs /\ row.failure = dep[i].failure /\ row.status = "building"
        BY <1>4, <1>6, <1>7, ClaimedIsRow
    <1>9. dep' = [dep EXCEPT ![i] = row] /\ later' \in [Replicas -> SUBSET Ids]
        BY <1>1, <1>2, <1>4, <1>7, OvertakeTyped, Cleared DEF Upsert
    <1>10. TableTypes' /\ (\A id \in Ids \ {i} : IdSame(id)) /\ dep'[i] = row
        BY <1>1, <1>2, <1>8, <1>9 DEF TableTypes, IdSame, history
    <1>11. /\ printed[i] = 0 /\ runs[i] = 0 /\ dep[i].failure = NULL /\ dep[i].app \in apps
           /\ dep[i].logs <= printed[i] /\ dep[i] # NULL
        BY <1>3, <1>4, <1>5 DEF IdInv, StatusIn, Exists
    <1>12. IdInv(i)'
        BY <1>1, <1>5, <1>8, <1>10, <1>11 DEF IdInv, Unborn, StatusIn, Exists, Finished, history
    <1>13. CASE ClaimLost(p)
        <2>1. ForgetJob(p) /\ ExitDeployer(p) /\ faults' \in 0 .. MaxFaults
            BY <1>2, <1>13, InterruptedBound DEF ClaimLost
        <2>2. /\ LocalTypes' /\ DeployerInv(p)' /\ job'[p] = NULL
              /\ \A q \in Replicas \ {p} : LocalSame(q)
            BY <1>2, <1>9, <2>1, Exits, Forgets
        <2>3. QED
            BY <1>1, <1>4, <1>10, <1>12, <2>1, <2>2, TypesJoined DEF StepOf
    <1>14. CASE ClaimCommit(p)
        <2>1. /\ record' = [record EXCEPT ![p] = row] /\ pc' = [pc EXCEPT ![p] = "fetching"]
              /\ UNCHANGED <<phase, job, result, produced, flushing, written, faults>>
            BY <1>4, <1>7, <1>14 DEF ClaimCommit
        <2>2. /\ LocalTypes' /\ (\A q \in Replicas \ {p} : LocalSame(q))
              /\ pc'[p] = "fetching" /\ record'[p] = row /\ job'[p] = i
            BY <1>2, <1>4, <1>8, <1>9, <2>1 DEF LocalTypes, LocalSame, DeployerStates
        <2>3. flushing[p] = NULL
            BY <1>1, <1>2 DEF DeployerInv, SnapshotOf
        <2>4. SnapshotOf(p)'
            BY <2>1, <2>3 DEF SnapshotOf
        <2>5. dep[i].logs \in Nat
            BY <1>6, ConstantsAssumption DEF Rows
        <2>6. RowOf(p)' /\ RecordOf(p)'
            BY <1>1, <1>8, <1>10, <1>11, <2>2, <2>5
            DEF RowOf, RecordOf, Exists, Saving, Finished, history
        <2>7. IdInv(job[p])'
            BY <1>12, <2>2 DEF IdInv, Unborn, StatusIn, Exists
        <2>8. pc'[p] \in PastClaim
            BY <2>2 DEF PastClaim
        <2>9. QED
            BY <1>1, <1>2, <1>3, <1>4, <1>10, <2>1, <2>2, <2>4, <2>6, <2>7, <2>8, HolderStep
    <1>15. QED
        BY <1>13, <1>14

-----------------------------------------------------------------------------
(* Requests, the deletion of an app, and recovery. *)

\* A request takes the next id for its own, which no row has had before.
LEMMA QueueKeeps ==
    ASSUME IInv, NEW a \in Apps, NEW c \in Commits, Queue(a, c)
    PROVE  IInv'
    <1>1. /\ LocalTypes /\ TableTypes /\ faults \in 0 .. MaxFaults /\ PendingInv /\ JobInv
        BY TypesSplit DEF IInv
    <1>2. PICK req : req = [id |-> next, row |-> New(a, c)]
        OBVIOUS
    <1>3. /\ next \in Ids /\ pending' = pending \union {req} /\ next' = next + 1
          /\ later' = Overtake(Booting \union Polling, next)
          /\ UNCHANGED <<apps, dep, build, blobs, phase, pc, job, record, result, produced,
                         flushing, written, history, faults>>
        BY <1>2 DEF Queue
    <1>4. /\ req \in [id : Ids, row : Rows] /\ req.id = next
          /\ req.row = New(req.row.app, req.row.commit)
        BY <1>2, <1>3, NewIsRow
    <1>5. LocalTypes'
        BY <1>1, <1>3, OvertakeTyped DEF LocalTypes
    <1>6. TableTypes'
        <2>1. next' \in 1 .. (MaxDeployments + 1)
            BY <1>3, ConstantsAssumption DEF Ids
        <2>2. QED
            BY <1>1, <1>3, <1>4, <2>1 DEF TableTypes, history
    <1>7. next \in Nat /\ \A r \in pending : r.id \in Nat
        BY <1>1, ConstantsAssumption DEF TableTypes, Ids
    <1>8. PendingInv'
        <2>1. \A r \in pending' : r.id < next' /\ r.row = New(r.row.app, r.row.commit)
            BY <1>1, <1>3, <1>4, <1>7 DEF PendingInv
        <2>2. \A r1, r2 \in pending' : r1.id = r2.id => r1 = r2
            BY <1>1, <1>3, <1>4, <1>7 DEF PendingInv
        <2>3. QED
            BY <2>1, <2>2 DEF PendingInv, New
    <1>9. \A id \in Ids : Unborn(id)' <=> Unborn(id)
        BY <1>3, <1>4, <1>7, ConstantsAssumption DEF Unborn, Ids
    <1>10. ASSUME NEW id \in Ids PROVE IdInv(id)'
        BY <1>3, <1>9 DEF IInv, IdInv, StatusIn, Exists, history
    <1>11. \A q \in Replicas : job'[q] = job[q] /\ LocalSame(q)
        BY <1>3 DEF LocalSame
    <1>12. JobInv'
        BY <1>1, <1>9, <1>11 DEF JobInv, LocalTypes, Unborn
    <1>13. ASSUME NEW q \in Replicas PROVE DeployerInv(q)'
        <2>1. \A id \in Ids : IdSame(id)
            BY <1>3 DEF IdSame, history
        <2>2. job[q] # NULL => job[q] \in Ids
            BY <1>1 DEF LocalTypes
        <2>3. QED
            BY <1>3, <1>11, <2>1, <2>2, OthersKept DEF IInv
    <1>14. QED
        BY <1>1, <1>3, <1>5, <1>6, <1>8, <1>10, <1>12, <1>13, TypesJoined DEF IInv

\* A request inserts its row, or is refused: either way its id is spent.
LEMMA RequestKeeps ==
    ASSUME IInv, NEW req \in pending, Insert(req) \/ Refuse(req)
    PROVE  IInv'
    <1>1. /\ LocalTypes /\ TableTypes /\ faults \in 0 .. MaxFaults /\ PendingInv /\ JobInv
        BY TypesSplit DEF IInv
    <1>2. /\ pending' = pending \ {req}
          /\ UNCHANGED <<apps, build, blobs, next, phase, pc, local, history, faults>>
          /\ \/ dep' = [dep EXCEPT ![req.id] = req.row] /\ req.row.app \in apps
             \/ UNCHANGED dep
        BY DEF Insert, Refuse, Upsert, Saveable, Upsertable
    <1>3. PICK i \in Ids, row \in Rows : i = req.id /\ row = req.row
        BY <1>1 DEF TableTypes
    <1>4. row.status = "queued" /\ row.logs = 0 /\ row.failure = NULL /\ row # NULL
        <2>1. row.app \in Apps /\ row.commit \in Commits /\ row = New(row.app, row.commit)
            BY <1>1, <1>3 DEF Rows, PendingInv
        <2>2. QED
            BY <2>1, NewIsRow
    <1>5. Unborn(i) /\ ~Unborn(i)'
        <2>1. next \in Nat /\ i < next
            BY <1>1, <1>3, ConstantsAssumption DEF TableTypes, PendingInv
        <2>2. \A r \in pending : r.id = i => r = req
            BY <1>1, <1>3 DEF PendingInv
        <2>3. i \in Nat
            BY <1>3 DEF Ids
        <2>4. QED
            BY <1>2, <1>3, <2>1, <2>2, <2>3 DEF Unborn
    <1>6. \A id \in Ids \ {i} : Unborn(id)' <=> Unborn(id)
        BY <1>2, <1>3 DEF Unborn
    <1>7. \A id \in Ids \ {i} : IdSame(id)
        BY <1>1, <1>2, <1>3 DEF TableTypes, IdSame, history
    <1>8. /\ dep'[i] = NULL \/ (dep'[i] = row /\ row.app \in apps)
          /\ dep' \in [Ids -> Rows \union {NULL}]
          /\ build[i] = NULL /\ runs[i] = 0 /\ printed[i] = 0
        BY <1>1, <1>2, <1>3, <1>5 DEF IInv, IdInv, TableTypes
    <1>9. LocalTypes' /\ TableTypes'
        <2>1. LocalTypes'
            BY <1>1, <1>2 DEF LocalTypes, local
        <2>2. TableTypes'
            BY <1>1, <1>2, <1>8 DEF TableTypes, history
        <2>3. QED
            BY <2>1, <2>2
    <1>10. PendingInv'
        BY <1>1, <1>2 DEF PendingInv, New
    <1>11. ASSUME NEW id \in Ids PROVE IdInv(id)'
        <2>1. CASE id = i
            BY <1>2, <1>4, <1>5, <1>8, <2>1 DEF IdInv, StatusIn, Exists, Finished, history
        <2>2. CASE id # i
            BY <1>2, <1>6, <1>7, <2>2 DEF IInv, IdInv, IdSame, StatusIn, Exists
        <2>3. QED
            BY <2>1, <2>2
    <1>12. \A q \in Replicas : LocalSame(q) /\ job'[q] = job[q] /\ job[q] # i
        BY <1>1, <1>2, <1>5, <1>3, NullAssumption DEF LocalSame, local, JobInv
    <1>13. ASSUME NEW q \in Replicas PROVE DeployerInv(q)'
        <2>1. job[q] # NULL => job[q] \in Ids \ {i}
            BY <1>1, <1>12 DEF LocalTypes
        <2>2. QED
            BY <1>2, <1>7, <1>12, <2>1, OthersKept DEF IInv
    <1>14. JobInv'
        <2>1. ASSUME NEW q \in Replicas, job'[q] # NULL PROVE ~Unborn(job[q])'
            <3>1. PICK k \in Ids \ {i} : k = job[q] /\ k = job'[q]
                BY <1>1, <1>12, <2>1 DEF LocalTypes
            <3>2. ~Unborn(k)'
                BY <1>1, <1>6, <2>1, <3>1 DEF JobInv
            <3>3. QED
                BY <3>1, <3>2 DEF Unborn
        <2>2. QED
            BY <1>1, <1>12, <2>1 DEF JobInv
    <1>15. QED
        BY <1>1, <1>2, <1>9, <1>10, <1>11, <1>13, <1>14, TypesJoined DEF IInv

\* Deleting an app takes whole deployments away, and none that is being claimed.
LEMMA DeleteKeeps ==
    ASSUME IInv, NEW a \in Apps, DeleteApp(a)
    PROVE  IInv'
    <1>1. /\ LocalTypes /\ TableTypes /\ faults \in 0 .. MaxFaults /\ PendingInv /\ JobInv
        BY TypesSplit DEF IInv
    <1>2. /\ \A id \in Ids : Exists(id) /\ dep[id].app = a => ~Locked(id)
          /\ apps' = apps \ {a}
          /\ dep' = [id \in Ids |-> IF Exists(id) /\ dep[id].app = a THEN NULL ELSE dep[id]]
          /\ build' = [id \in Ids |-> IF Exists(id) /\ dep[id].app = a THEN NULL ELSE build[id]]
          /\ UNCHANGED <<blobs, pending, next, phase, pc, local, history, faults>>
        BY DEF DeleteApp
    <1>3. LocalTypes' /\ \A q \in Replicas : LocalSame(q)
        BY <1>1, <1>2 DEF LocalTypes, LocalSame, local
    <1>4. dep' \in [Ids -> Rows \union {NULL}] /\ build' \in [Ids -> BuildRows \union {NULL}]
        BY <1>1, <1>2 DEF TableTypes
    <1>5. TableTypes'
        BY <1>1, <1>2, <1>4 DEF TableTypes, history
    <1>6. PendingInv'
        BY <1>1, <1>2 DEF PendingInv, New
    <1>7. ASSUME NEW id \in Ids
          PROVE  \/ dep'[id] = NULL /\ build'[id] = NULL /\ (Exists(id) => dep[id].app = a)
                 \/ dep'[id] = dep[id] /\ build'[id] = build[id] /\ Exists(id) /\ dep[id].app # a
        <2>1. ~Exists(id) => build[id] = NULL
            BY DEF IInv, IdInv
        <2>2. QED
            BY <1>2, <2>1 DEF Exists
    <1>8. ASSUME NEW id \in Ids PROVE IdInv(id)'
        <2>1. Unborn(id)' <=> Unborn(id)
            BY <1>2 DEF Unborn
        <2>2. IdInv(id)
            BY DEF IInv
        <2>3. QED
            BY <1>2, <1>7, <2>1, <2>2 DEF IdInv, StatusIn, Exists, history
    <1>9. JobInv'
        BY <1>1, <1>2 DEF JobInv, Unborn, local
    <1>10. ASSUME NEW q \in Replicas PROVE DeployerInv(q)'
        <2>1. DeployerInv(q) /\ LocalSame(q)
            BY <1>3 DEF IInv
        <2>2. CASE job[q] = NULL
            BY <2>1, <2>2 DEF DeployerInv, LocalSame, SnapshotOf, PastClaim
        <2>3. CASE job[q] # NULL
            <3>1. PICK i \in Ids : i = job[q] /\ i = job'[q]
                BY <1>1, <1>3, <2>3 DEF LocalTypes, LocalSame
            <3>2. \/ dep'[i] = NULL /\ build'[i] = NULL /\ (Exists(i) => dep[i].app = a)
                  \/ dep'[i] = dep[i] /\ build'[i] = build[i] /\ Exists(i) /\ dep[i].app # a
                BY <1>7
            <3>3. pc[q] = "claiming" => Exists(i) /\ dep[i].app # a
                BY <1>2, <2>1, <3>1 DEF DeployerInv, StatusIn, Locked
            <3>4. pc[q] = "claiming" => StatusIn(job[q], {"queued"})'
                BY <2>1, <3>1, <3>2, <3>3 DEF DeployerInv, StatusIn, Exists
            <3>5. pc[q] \in PastClaim => RowOf(q)'
                BY <2>1, <3>1, <3>2 DEF DeployerInv, RowOf, Exists, LocalSame, Saving
            <3>6. pc[q] \in PastClaim => RecordOf(q)'
                BY <1>2, <2>1, <3>1, <3>2
                DEF DeployerInv, RowOf, RecordOf, Exists, LocalSame, Saving, history
            <3>7. SnapshotOf(q)'
                BY <1>2, <2>1, <3>1 DEF DeployerInv, SnapshotOf, LocalSame, history
            <3>8. QED
                BY <2>1, <3>4, <3>5, <3>6, <3>7 DEF DeployerInv, LocalSame
        <2>4. QED
            BY <2>2, <2>3
    <1>11. QED
        BY <1>1, <1>2, <1>3, <1>5, <1>6, <1>8, <1>9, <1>10, TypesJoined DEF IInv

\* Recovery fails every running row, and changes nothing a deployer relies on.
LEMMA RecoverKeeps ==
    ASSUME IInv, NEW p \in Replicas, Recover(p)
    PROVE  IInv'
    <1>1. /\ LocalTypes /\ TableTypes /\ faults \in 0 .. MaxFaults /\ PendingInv /\ JobInv
        BY TypesSplit DEF IInv
    <1>2. /\ phase[p] = "booting" /\ \A id \in Ids : ~Locked(id)
          /\ \E early \in SUBSET later[p] :
                dep' = [id \in Ids |-> IF StatusIn(id, Running)
                                      THEN [FailInterrupted(dep[id]) EXCEPT !.timely = id \notin early]
                                      ELSE dep[id]]
          /\ phase' = [phase EXCEPT ![p] = "up"] /\ pc' = [pc EXCEPT ![p] = "idle"]
          /\ later' = [later EXCEPT ![p] = {}]
          /\ UNCHANGED <<apps, build, blobs, pending, next, job, record, result, produced,
                         flushing, written, history, faults>>
        BY DEF Recover, Recoverable
    <1>3. ASSUME NEW id \in Ids
          PROVE  \/ dep'[id] = dep[id] /\ ~StatusIn(id, Running)
                 \/ /\ StatusIn(id, Running) /\ dep'[id] \in Rows /\ dep'[id] # NULL
                    /\ dep'[id].app = dep[id].app /\ dep'[id].commit = dep[id].commit
                    /\ dep'[id].logs = dep[id].logs /\ dep'[id].status = "failed"
                    /\ dep'[id].failure = "build_interrupted"
        <2>1. CASE StatusIn(id, Running)
            <3>1. PICK row : row = dep[id]
                OBVIOUS
            <3>2. row \in Rows
                BY <1>1, <2>1, <3>1 DEF TableTypes, StatusIn, Exists
            <3>3. PICK failed : failed = Fail(row, "build_interrupted")
                OBVIOUS
            <3>4. /\ failed \in Rows /\ failed.app = row.app /\ failed.commit = row.commit
                  /\ failed.logs = row.logs /\ failed.status = "failed"
                  /\ failed.failure = "build_interrupted"
                BY <3>2, <3>3, FailIsRow DEF Failures
            <3>5. PICK b \in BOOLEAN : dep'[id] = [failed EXCEPT !.timely = b]
                BY <1>2, <2>1, <3>1, <3>3 DEF FailInterrupted
            <3>6. QED
                BY <2>1, <3>1, <3>4, <3>5, TimelyIsRow
        <2>2. CASE ~StatusIn(id, Running)
            BY <1>2, <2>2
        <2>3. QED
            BY <2>1, <2>2
    <1>4. DOMAIN dep' = Ids /\ dep' = [id \in Ids |-> dep'[id]]
        BY <1>2
    <1>5. \A id \in Ids : dep'[id] \in Rows \union {NULL}
        BY <1>1, <1>3 DEF TableTypes
    <1>6. TableTypes'
        BY <1>1, <1>2, <1>4, <1>5 DEF TableTypes, history
    <1>7. LocalTypes'
        BY <1>1, <1>2 DEF LocalTypes, Phases, DeployerStates
    <1>8. PendingInv'
        BY <1>1, <1>2 DEF PendingInv, New
    <1>9. JobInv'
        BY <1>1, <1>2 DEF JobInv, Unborn
    <1>10. ASSUME NEW id \in Ids PROVE IdInv(id)'
        <2>1. Unborn(id)' <=> Unborn(id)
            BY <1>2 DEF Unborn
        <2>2. IdInv(id)
            BY DEF IInv
        <2>3. QED
            BY <1>2, <1>3, <2>1, <2>2 DEF IdInv, StatusIn, Exists, history
    <1>11. pc[p] = "off" /\ job[p] = NULL /\ flushing[p] = NULL
        BY <1>2 DEF IInv, DeployerInv, SnapshotOf, PastClaim
    <1>12. ASSUME NEW q \in Replicas PROVE DeployerInv(q)'
        <2>1. CASE q = p
            <3>1. pc'[p] = "idle" /\ phase'[p] = "up" /\ job'[p] = NULL /\ flushing'[p] = NULL
                BY <1>1, <1>2, <1>11 DEF LocalTypes
            <3>2. QED
                BY <2>1, <3>1 DEF DeployerInv, SnapshotOf, PastClaim
        <2>2. CASE q # p
            <3>1. DeployerInv(q) /\ LocalSame(q)
                BY <1>1, <1>2, <2>2 DEF LocalSame, IInv, LocalTypes
            <3>2. CASE job[q] = NULL
                BY <3>1, <3>2 DEF DeployerInv, LocalSame, SnapshotOf, PastClaim
            <3>3. CASE job[q] # NULL
                <4>1. PICK i \in Ids : i = job[q] /\ i = job'[q]
                    BY <1>1, <3>1, <3>3 DEF LocalTypes, LocalSame
                <4>2. pc[q] # "claiming"
                    BY <1>2, <4>1 DEF Locked
                <4>3. \/ dep'[i] = dep[i]
                      \/ /\ dep[i] # NULL /\ dep'[i] # NULL /\ dep'[i].app = dep[i].app
                         /\ dep'[i].commit = dep[i].commit /\ dep'[i].status = "failed"
                         /\ dep'[i].failure = "build_interrupted"
                    BY <1>3 DEF StatusIn, Exists
                <4>4. ASSUME pc[q] \in PastClaim PROVE RowOf(q)'
                    <5>1. RowOf(q) /\ UNCHANGED build
                        BY <1>2, <3>1, <4>4 DEF DeployerInv
                    <5>2. QED
                        BY <3>1, <4>1, <4>3, <5>1 DEF RowOf, Exists, LocalSame, Saving, Finished
                <4>5. pc[q] \in PastClaim => RecordOf(q)'
                    BY <1>2, <3>1, <4>1, <4>3 DEF DeployerInv, RecordOf, Exists, LocalSame, Saving, history
                <4>6. SnapshotOf(q)'
                    BY <1>2, <3>1, <4>1 DEF DeployerInv, SnapshotOf, LocalSame, history
                <4>7. QED
                    BY <3>1, <4>2, <4>4, <4>5, <4>6 DEF DeployerInv, LocalSame
            <3>4. QED
                BY <3>2, <3>3
        <2>3. QED
            BY <2>1, <2>2
    <1>13. QED
        BY <1>1, <1>2, <1>6, <1>7, <1>8, <1>9, <1>10, <1>12, TypesJoined DEF IInv

-----------------------------------------------------------------------------
(* The invariant holds. *)

\* It holds before anything has happened.
LEMMA InitHolds == Init => IInv
    <1>1. SUFFICES ASSUME Init PROVE IInv
        OBVIOUS
    <1>2. LocalTypes
        BY <1>1 DEF Init, LocalTypes, Phases, DeployerStates
    <1>3. TableTypes /\ faults \in 0 .. MaxFaults
        BY <1>1, ConstantsAssumption DEF Init, TableTypes
    <1>4. PendingInv /\ JobInv
        BY <1>1 DEF Init, PendingInv, JobInv
    <1>5. ASSUME NEW id \in Ids PROVE IdInv(id)
        BY <1>1 DEF Init, IdInv, StatusIn, Exists
    <1>6. ASSUME NEW p \in Replicas PROVE DeployerInv(p)
        BY <1>1 DEF Init, DeployerInv, SnapshotOf, PastClaim
    <1>7. QED
        BY <1>2, <1>3, <1>4, <1>5, <1>6, TypesSplit DEF IInv

\* Every step of a deployer or of a fault at it, but a recovery, is one of the steps above.
LEMMA DeployerSteps ==
    ASSUME IInv, NEW p \in Replicas, DeployerStep(p) \/ FaultStep(p) \/ ToolchainPrints(p),
           ~Recover(p)
    PROVE  StepOf(p)
    <1>1. CASE Stop(p) \/ ClaimSelect(p) \/ ClaimCommit(p) \/ ClaimLost(p) \/ Boot(p)
               \/ RecoverRefused(p) \/ RecoverError(p) \/ StopIdle(p) \/ ExitProcess(p)
               \/ Poll(p) \/ Crash(p) \/ ClaimError(p) \/ SaveConflict(p)
        BY <1>1, StopStep, ClaimSelectStep, ClaimStep, ProcessSteps
    <1>2. CASE PrepareFails(p) \/ StartToolchain(p) \/ ToolchainPrints(p) \/ FlushTake(p)
               \/ FlushSave(p) \/ FlushError(p) \/ ToolchainReturns(p) \/ CloseStream(p)
        BY <1>2, BuildFailsStep, StartStep, PrintsStep, FlusherStep, FlushSaveStep, ClosingStep
    <1>3. CASE AdvanceSave(p) \/ AdvanceRefused(p) \/ AdvanceError(p) \/ StoreLayer(p)
               \/ StoreFails(p) \/ Seal(p)
        BY <1>3, AdvanceStep, StoreLayerStep, BuildFailsStep, SealStep
    <1>4. CASE SaveBuild(p) \/ SaveBuildRefused(p) \/ SaveBuildError(p) \/ Finish(p)
               \/ SaveFinal(p) \/ SaveError(p)
        BY <1>4, SaveBuildStep, BuildFailsStep, FinishStep, LastSaveStep
    <1>5. QED
        BY <1>1, <1>2, <1>3, <1>4 DEF DeployerStep, FaultStep

\* Every step keeps it.
LEMMA NextKeeps ==
    ASSUME IInv, [Next]_vars
    PROVE  IInv'
    <1>1. ASSUME NEW a \in Apps, NEW c \in Commits, CreateResolve(a, c) PROVE IInv'
        BY <1>1, QueueKeeps DEF CreateResolve
    <1>2. ASSUME NEW id \in Ids, RetryResolve(id) PROVE IInv'
        <2>1. dep[id] \in Rows
            BY <1>2 DEF RetryResolve, Exists, IInv, TypeOK
        <2>2. dep[id].app \in Apps /\ dep[id].commit \in Commits
            BY <2>1 DEF Rows
        <2>3. QED
            BY <1>2, <2>2, QueueKeeps DEF RetryResolve
    <1>3. ASSUME NEW p \in Replicas, DeployerStep(p) \/ FaultStep(p) \/ ToolchainPrints(p)
          PROVE  IInv'
        BY <1>3, RecoverKeeps, DeployerSteps, StepKeeps
    <1>4. CASE UNCHANGED vars
        <2>1. LocalTypes /\ TableTypes /\ faults \in 0 .. MaxFaults
            BY TypesSplit DEF IInv
        <2>2. LocalTypes' /\ TableTypes' /\ faults' \in 0 .. MaxFaults
            BY <1>4, <2>1 DEF vars, LocalTypes, TableTypes
        <2>3. PendingInv' /\ JobInv'
            BY <1>4 DEF vars, IInv, PendingInv, New, JobInv, Unborn
        <2>4. ASSUME NEW id \in Ids PROVE IdInv(id)'
            BY <1>4 DEF vars, IInv, IdInv, Unborn, StatusIn, Exists
        <2>5. ASSUME NEW q \in Replicas PROVE DeployerInv(q)'
            <3>1. LocalSame(q) /\ UNCHANGED apps /\ DeployerInv(q) /\ \A id \in Ids : IdSame(id)
                BY <1>4 DEF vars, LocalSame, IdSame, IInv
            <3>2. job[q] # NULL => job[q] \in Ids
                BY <2>1 DEF LocalTypes
            <3>3. QED
                BY <3>1, <3>2, OthersKept
        <2>6. QED
            BY <2>2, <2>3, <2>4, <2>5, TypesJoined DEF IInv
    <1>5. QED
        BY <1>1, <1>2, <1>3, <1>4, RequestKeeps, DeleteKeeps DEF Next

\* Every reachable state of the two tables and the deployers is in order (claims, saves,
\* flushes, recoveries and deletions in any order, with crashes between them).
THEOREM DeploymentsInvariant == Spec => []IInv
    BY InitHolds, NextKeeps, PTL DEF Spec

\* Every variable keeps its type: in particular no Save ever writes anything but a row.
THEOREM DeploymentsTyped == Spec => []TypeOK
    BY DeploymentsInvariant, PTL DEF IInv

\* A toolchain runs at most once for a deployment, and never for one that is queued.
THEOREM BuiltAtMostOnce == Spec => []NeverRebuilt
    <1>1. IInv => NeverRebuilt
        BY DEF IInv, IdInv, NeverRebuilt
    <1>2. QED
        BY <1>1, DeploymentsInvariant, PTL

\* A build anybody can run has all its layers and comes from the commit its deployment
\* names, and a finished deployment has all its output unless a recovery finished it.
THEOREM PublicationWhole == Spec => []PublishedWhole
    <1>1. IInv => PublishedWhole
        BY DEF IInv, IdInv, PublishedWhole, BuildsComplete, FinishedLogsComplete, StatusIn
    <1>2. QED
        BY <1>1, DeploymentsInvariant, PTL

-----------------------------------------------------------------------------
(* The two tables implement the lifecycle. *)

\* What one step may do to one deployment.
Absent(id) ==
    dep[id] = NULL /\ dep'[id] = NULL /\ build'[id] = build[id] /\ (Unborn(id)' => Unborn(id))

Accepted(id) ==
    /\ dep[id] = NULL /\ Unborn(id)
    /\ dep'[id] # NULL /\ dep'[id].status = "queued" /\ dep'[id].commit # NULL
    /\ build'[id] = NULL

Kept(id) == dep[id] # NULL /\ dep'[id] # NULL /\ dep'[id].commit = dep[id].commit

Unmoved(id) == Kept(id) /\ dep'[id].status = dep[id].status /\ build'[id] = build[id]

Advanced(id) ==
    /\ Kept(id) /\ build'[id] = build[id]
    /\ \/ dep[id].status = "queued" /\ dep'[id].status = "building"
       \/ dep[id].status = "building" /\ dep'[id].status = "publishing"

Produced(id) ==
    /\ Kept(id) /\ dep'[id].status = dep[id].status
    /\ build[id] = NULL /\ build'[id] # NULL /\ build'[id].commit = dep[id].commit

Readied(id) ==
    /\ Kept(id) /\ build'[id] = build[id]
    /\ dep[id].status = "publishing" /\ dep'[id].status = "ready"
    /\ build[id] # NULL /\ build[id].commit = dep[id].commit

Failed(id) ==
    /\ Kept(id) /\ build'[id] = build[id]
    /\ dep[id].status \in Running /\ dep'[id].status = "failed"

Removed(id) == dep[id] # NULL /\ dep'[id] = NULL /\ ~Unborn(id)'

TableStep(id) ==
    \/ Absent(id) \/ Accepted(id) \/ Unmoved(id) \/ Advanced(id) \/ Produced(id)
    \/ Readied(id) \/ Failed(id) \/ Removed(id)

\* Each of them is a step of the abstract lifecycle.
LEMMA TableStepIsLifecycle ==
    ASSUME IInv, NEW id \in Ids, TableStep(id)
    PROVE  Lifecycle!Step(id)
    <1> USE DEF StageOf, Exists
    <1>1. CASE Absent(id)
        BY <1>1 DEF Absent, Lifecycle!Step, Lifecycle!Same, Lifecycle!Vanish
    <1>2. CASE Accepted(id)
        BY <1>2 DEF Accepted, Lifecycle!Step, Lifecycle!Accept
    <1>3. CASE Unmoved(id)
        BY <1>3 DEF Unmoved, Kept, Lifecycle!Step, Lifecycle!Same
    <1>4. CASE Advanced(id)
        BY <1>4 DEF Advanced, Kept, Lifecycle!Step, Lifecycle!Advance, Lifecycle!Following
    <1>5. CASE Produced(id)
        BY <1>5 DEF Produced, Kept, Lifecycle!Step, Lifecycle!Produce
    <1>6. CASE Readied(id)
        BY <1>6 DEF Readied, Kept, Lifecycle!Step, Lifecycle!MarkReady
    <1>7. CASE Failed(id)
        BY <1>7 DEF Failed, Kept, Running, Lifecycle!Step, Lifecycle!Fail, Lifecycle!Running
    <1>8. CASE Removed(id)
        <2>1. dep[id] \in Rows
            BY <1>8 DEF Removed, IInv, TypeOK
        <2>2. dep[id].status # "gone"
            BY <2>1 DEF Rows, Running, Finished
        <2>3. QED
            BY <1>8, <2>2 DEF Removed, Lifecycle!Step, Lifecycle!Vanish
    <1>9. QED
        BY <1>1, <1>2, <1>3, <1>4, <1>5, <1>6, <1>7, <1>8 DEF TableStep

\* A deployment whose two rows a step does not write does not move.
LEMMA UnwrittenStep ==
    ASSUME NEW id \in Ids, dep'[id] = dep[id], build'[id] = build[id],
           Unborn(id)' => Unborn(id)
    PROVE  TableStep(id)
    BY DEF TableStep, Absent, Unmoved, Kept

\* Nor does any while only the deployers' memory changes.
LEMMA UntouchedTables ==
    ASSUME NEW id \in Ids, UNCHANGED <<dep, build, pending, next>>
    PROVE  TableStep(id)
    BY UnwrittenStep DEF Unborn

\* A Save by the deployment's holder moves it to the status of what is saved.
LEMMA SaveTableStep ==
    ASSUME IInv, NEW p \in Replicas, pc[p] \in PastClaim, NEW row \in Rows,
           row.app = record[p].app, row.commit = record[p].commit,
           Upsertable(row, job[p]), dep' = Upsert(row, job[p]), UNCHANGED <<build, pending, next>>,
           NEW id \in Ids
    PROVE  \/ TableStep(id)
           \/ /\ id = job[p] /\ Kept(id) /\ build'[id] = build[id] /\ dep'[id].status = row.status
              /\ dep[id].status \in Running \union {row.status}
    <1>1. /\ dep'[job[p]] = row
          /\ \A i \in Ids \ {job[p]} : dep'[i] = dep[i]
          /\ Exists(job[p]) /\ dep[job[p]].commit = record[p].commit /\ row # NULL
          /\ dep[job[p]].status \in Running \union {row.status}
        BY SaveLands
    <1>2. CASE id = job[p]
        BY <1>1, <1>2 DEF Kept, Exists
    <1>3. CASE id # job[p]
        BY <1>1, <1>3, UnwrittenStep DEF Unborn
    <1>4. QED
        BY <1>2, <1>3

\* The claim, whoever hears of it.
LEMMA ClaimTableStep ==
    ASSUME IInv, NEW p \in Replicas, ClaimCommit(p) \/ ClaimLost(p), NEW id \in Ids
    PROVE  TableStep(id)
    <1>1. /\ pc[p] = "claiming" /\ UNCHANGED <<build, pending, next>>
        BY DEF ClaimCommit, ClaimLost
    <1>2. /\ StatusIn(job[p], {"queued"}) /\ job[p] # NULL
          /\ dep \in [Ids -> Rows \union {NULL}] /\ job \in [Replicas -> Ids \union {NULL}]
        BY <1>1 DEF IInv, DeployerInv, TypeOK
    <1>3. CASE id = job[p]
        <2>1. dep[id] \in Rows /\ dep[id].status = "queued" /\ dep[id] # NULL
            BY <1>2, <1>3 DEF StatusIn, Exists
        <2>2. PICK row : /\ \E timely \in BOOLEAN : row = Claimed(p, timely)
                         /\ dep' = Upsert(row, job[p])
            BY ClaimWrites
        <2>3. Advanced(id)
            BY <1>1, <1>2, <1>3, <2>1, <2>2, ClaimedIsRow DEF Advanced, Kept, Upsert
        <2>4. QED
            BY <2>3 DEF TableStep
    <1>4. CASE id # job[p]
        <2>1. dep'[id] = dep[id]
            BY <1>1, <1>2, <1>4, ClaimWrites DEF Upsert
        <2>2. QED
            BY <1>1, <2>1, UnwrittenStep DEF Unborn
    <1>5. QED
        BY <1>3, <1>4

\* A flush leaves the deployment where it is: building.
LEMMA FlushTableStep ==
    ASSUME IInv, NEW p \in Replicas, FlushSave(p), NEW id \in Ids
    PROVE  TableStep(id)
    <1>1. /\ flushing[p] # NULL /\ UNCHANGED <<build, pending, next>>
          /\ \/ UNCHANGED dep
             \/ Upsertable(flushing[p], job[p]) /\ dep' = Upsert(flushing[p], job[p])
        BY DEF FlushSave, Saveable
    <1>2. pc[p] \in {"building", "closing"} /\ pc[p] \in PastClaim /\ SnapshotOf(p)
        BY <1>1 DEF IInv, DeployerInv, SnapshotOf, PastClaim
    <1>3. PICK row : row = flushing[p]
        OBVIOUS
    <1>4. /\ row \in Rows /\ row.app = record[p].app /\ row.commit = record[p].commit
          /\ row.status = "building"
        BY <1>1, <1>2, <1>3 DEF SnapshotOf, IInv, TypeOK
    <1>5. RowOf(p)
        BY <1>2, Held
    <1>6. CASE UNCHANGED dep
        BY <1>1, <1>6, UntouchedTables
    <1>7. CASE Upsertable(row, job[p]) /\ dep' = Upsert(row, job[p])
        <2>1. \/ TableStep(id)
              \/ /\ id = job[p] /\ Kept(id) /\ build'[id] = build[id] /\ dep'[id].status = "building"
                 /\ dep[id].status \in Running \union {"building"}
            BY <1>1, <1>2, <1>4, <1>7, SaveTableStep
        <2>2. id = job[p] /\ Kept(id) => dep[id].status \notin {"queued", "publishing"}
            BY <1>2, <1>5 DEF RowOf, Kept, Exists
        <2>3. QED
            BY <2>1, <2>2 DEF TableStep, Unmoved, Running
    <1>8. QED
        BY <1>1, <1>3, <1>6, <1>7

\* advance moves a building deployment on.
LEMMA AdvanceTableStep ==
    ASSUME IInv, NEW p \in Replicas, AdvanceSave(p) \/ AdvanceRefused(p) \/ AdvanceError(p),
           NEW id \in Ids
    PROVE  TableStep(id)
    <1>1. /\ pc[p] = "advancing" /\ pc[p] \in PastClaim /\ UNCHANGED <<build, pending, next>>
          /\ \/ UNCHANGED dep
             \/ /\ Upsertable(Advance(record[p]), job[p])
                /\ dep' = Upsert(Advance(record[p]), job[p])
        BY DEF AdvanceSave, AdvanceRefused, AdvanceError, Saveable, PastClaim, tables
    <1>2. record[p] \in Rows /\ RowOf(p) /\ RecordOf(p)
        BY <1>1, Held
    <1>3. PICK row : row = Advance(record[p])
        OBVIOUS
    <1>4. /\ row \in Rows /\ row.app = record[p].app /\ row.commit = record[p].commit
          /\ row.status = "publishing"
        BY <1>1, <1>2, <1>3, AdvanceIsRow DEF RecordOf
    <1>5. CASE UNCHANGED dep
        BY <1>1, <1>5, UntouchedTables
    <1>6. CASE Upsertable(row, job[p]) /\ dep' = Upsert(row, job[p])
        <2>1. \/ TableStep(id)
              \/ /\ id = job[p] /\ Kept(id) /\ build'[id] = build[id] /\ dep'[id].status = "publishing"
                 /\ dep[id].status \in Running \union {"publishing"}
            BY <1>1, <1>4, <1>6, SaveTableStep
        <2>2. id = job[p] /\ Kept(id) => dep[id].status \notin {"queued", "publishing"}
            BY <1>1, <1>2 DEF RowOf, Kept, Exists
        <2>3. QED
            BY <2>1, <2>2 DEF TableStep, Advanced, Running
    <1>7. QED
        BY <1>1, <1>3, <1>5, <1>6

\* The build appears under a deployment that has none.
LEMMA SaveBuildTableStep ==
    ASSUME IInv, NEW p \in Replicas, SaveBuild(p) \/ SaveBuildError(p), NEW id \in Ids
    PROVE  TableStep(id)
    <1>1. /\ pc[p] = "sealed" /\ pc[p] \in PastClaim /\ UNCHANGED <<dep, pending, next>>
          /\ \/ UNCHANGED build
             \/ BuildInsertable(p) /\ build' = [build EXCEPT ![job[p]] = produced[p]]
        BY DEF SaveBuild, SaveBuildError, PastClaim
    <1>2. /\ RowOf(p) /\ RecordOf(p) /\ build \in [Ids -> BuildRows \union {NULL}]
          /\ job[p] \in Ids /\ record[p] \in Rows
        BY <1>1, Held DEF IInv, TypeOK
    <1>3. CASE UNCHANGED build
        BY <1>1, <1>3, UntouchedTables
    <1>4. CASE BuildInsertable(p) /\ build' = [build EXCEPT ![job[p]] = produced[p]]
        <2>1. CASE id = job[p]
            <3>1. PICK b : b = produced[p]
                OBVIOUS
            <3>2. b = [app |-> record[p].app, commit |-> record[p].commit, layers |-> Layers]
                BY <1>1, <1>2, <3>1 DEF RecordOf
            <3>3. b \in BuildRows /\ b.commit = record[p].commit
                BY <1>2, <3>2, ConstantsAssumption DEF Rows, BuildRows
            <3>4. b # NULL
                BY <3>3, RowAssumption
            <3>5. build'[id] = b /\ build[id] = NULL /\ Exists(id)
                BY <1>2, <1>4, <2>1, <3>1 DEF BuildInsertable
            <3>6. Produced(id)
                BY <1>1, <1>2, <2>1, <3>3, <3>4, <3>5 DEF Produced, Kept, RowOf, Exists
            <3>7. QED
                BY <3>6 DEF TableStep
        <2>2. CASE id # job[p]
            <3>1. build'[id] = build[id]
                BY <1>2, <1>4, <2>2
            <3>2. QED
                BY <1>1, <3>1, UnwrittenStep DEF Unborn
        <2>3. QED
            BY <2>1, <2>2
    <1>5. QED
        BY <1>1, <1>3, <1>4

\* The last Save makes it ready, with its build there, or failed; over a row a recovery
\* failed it says failed again.
LEMMA LastSaveTableStep ==
    ASSUME IInv, NEW p \in Replicas, SaveFinal(p) \/ SaveError(p), NEW id \in Ids
    PROVE  TableStep(id)
    <1>1. /\ Saving(p) /\ pc[p] \in PastClaim /\ UNCHANGED <<build, pending, next>>
          /\ \/ UNCHANGED dep
             \/ Upsertable(record[p], job[p]) /\ dep' = Upsert(record[p], job[p])
        BY DEF SaveFinal, SaveError, Saveable, Saving, PastClaim
    <1>2. record[p] \in Rows /\ RowOf(p) /\ record[p].status \in Finished
        BY <1>1, Held DEF RecordOf
    <1>3. CASE UNCHANGED dep
        BY <1>1, <1>3, UntouchedTables
    <1>4. CASE Upsertable(record[p], job[p]) /\ dep' = Upsert(record[p], job[p])
        <2>1. \/ TableStep(id)
              \/ /\ id = job[p] /\ Kept(id) /\ build'[id] = build[id]
                 /\ dep'[id].status = record[p].status
                 /\ dep[id].status \in Running \union {record[p].status}
            BY <1>1, <1>2, <1>4, SaveTableStep
        <2>2. SUFFICES ASSUME id = job[p], Kept(id), build'[id] = build[id],
                              dep'[id].status = record[p].status,
                              dep[id].status \in Running \union {record[p].status}
                       PROVE  TableStep(id)
            BY <2>1
        <2>3. CASE record[p].status = "failed"
            BY <2>2, <2>3 DEF TableStep, Failed, Unmoved
        <2>4. CASE record[p].status = "ready"
            <3>1. /\ dep[id].status \notin {"queued", "building"} /\ build[id] # NULL
                  /\ dep[id].status \in Finished => dep[id].status = "failed"
                BY <1>1, <1>2, <2>2, <2>4 DEF RowOf, Kept, Exists
            <3>2. dep[id].status = "publishing"
                BY <2>2, <2>4, <3>1 DEF Running, Finished
            <3>3. build[id].commit = dep[id].commit
                BY <3>1 DEF IInv, IdInv
            <3>4. QED
                BY <2>2, <2>4, <3>1, <3>2, <3>3 DEF TableStep, Readied
        <2>5. QED
            BY <1>2, <2>3, <2>4 DEF Finished
    <1>5. QED
        BY <1>1, <1>3, <1>4

\* Requests, the deletion of an app and recovery.
LEMMA RequestTableStep ==
    ASSUME IInv, NEW id \in Ids,
           \/ \E a, c : Queue(a, c)
           \/ \E req \in pending : Insert(req) \/ Refuse(req)
           \/ \E a \in Apps : DeleteApp(a)
           \/ \E p \in Replicas : Recover(p)
    PROVE  TableStep(id)
    <1>1. ASSUME NEW a, NEW c, Queue(a, c) PROVE TableStep(id)
        <2>1. UNCHANGED <<dep, build>> /\ next \in Nat /\ next' = next + 1
              /\ pending' = pending \union {[id |-> next, row |-> New(a, c)]}
            BY <1>1, ConstantsAssumption DEF Queue, Ids
        <2>2. id \in Nat
            BY ConstantsAssumption DEF Ids
        <2>3. Unborn(id)' => Unborn(id)
            BY <2>1, <2>2 DEF Unborn
        <2>4. QED
            BY <2>1, <2>3, UnwrittenStep
    <1>2. ASSUME NEW req \in pending, Insert(req) \/ Refuse(req) PROVE TableStep(id)
        <2>1. /\ pending' = pending \ {req} /\ UNCHANGED <<build, next>>
              /\ dep' = [dep EXCEPT ![req.id] = req.row] \/ UNCHANGED dep
            BY <1>2 DEF Insert, Refuse, Upsert
        <2>2. dep \in [Ids -> Rows \union {NULL}] /\ req.id \in Ids /\ req.row \in Rows
            BY DEF IInv, TypeOK
        <2>3. Unborn(id)' => Unborn(id)
            BY <2>1 DEF Unborn
        <2>4. CASE dep'[id] = dep[id]
            BY <2>1, <2>3, <2>4, UnwrittenStep
        <2>5. CASE dep'[id] # dep[id]
            <3>1. id = req.id /\ dep'[id] = req.row
                BY <2>1, <2>2, <2>5
            <3>2. Unborn(id)
                BY <3>1 DEF Unborn
            <3>3. dep[id] = NULL /\ build[id] = NULL
                BY <3>2 DEF IInv, IdInv
            <3>4. PICK row \in Rows : row = req.row /\ row = New(row.app, row.commit)
                BY <2>2 DEF IInv, PendingInv
            <3>5. row.app \in Apps /\ row.commit \in Commits
                BY <3>4 DEF Rows
            <3>6. row.status = "queued" /\ row # NULL /\ row.commit # NULL
                BY <3>4, <3>5, NewIsRow, NullAssumption
            <3>7. QED
                BY <2>1, <3>1, <3>2, <3>3, <3>4, <3>6 DEF TableStep, Accepted
        <2>6. QED
            BY <2>4, <2>5
    <1>3. ASSUME NEW a \in Apps, DeleteApp(a) PROVE TableStep(id)
        <2>1. /\ dep'[id] = IF Exists(id) /\ dep[id].app = a THEN NULL ELSE dep[id]
              /\ build'[id] = IF Exists(id) /\ dep[id].app = a THEN NULL ELSE build[id]
              /\ UNCHANGED <<pending, next>>
            BY <1>3 DEF DeleteApp
        <2>2. Unborn(id)' <=> Unborn(id)
            BY <2>1 DEF Unborn
        <2>3. CASE Exists(id) /\ dep[id].app = a
            <3>1. ~Unborn(id)
                BY <2>3 DEF IInv, IdInv, Exists
            <3>2. QED
                BY <2>1, <2>2, <2>3, <3>1 DEF TableStep, Removed, Exists
        <2>4. CASE ~(Exists(id) /\ dep[id].app = a)
            BY <2>1, <2>2, <2>4, UnwrittenStep
        <2>5. QED
            BY <2>3, <2>4
    <1>4. ASSUME NEW p \in Replicas, Recover(p) PROVE TableStep(id)
        <2>1. /\ \E b \in BOOLEAN :
                    dep'[id] = IF StatusIn(id, Running)
                               THEN [FailInterrupted(dep[id]) EXCEPT !.timely = b] ELSE dep[id]
              /\ UNCHANGED <<build, pending, next>>
            BY <1>4 DEF Recover
        <2>2. CASE StatusIn(id, Running)
            <3>1. dep[id] \in Rows /\ dep[id] # NULL /\ dep[id].status \in Running
                BY <2>2 DEF IInv, TypeOK, StatusIn, Exists
            <3>2. PICK row : /\ row = Fail(dep[id], "build_interrupted")
                             /\ \E b \in BOOLEAN : dep'[id] = [row EXCEPT !.timely = b]
                BY <2>1, <2>2 DEF FailInterrupted
            <3>3. row \in Rows /\ row.commit = dep[id].commit /\ row.status = "failed"
                BY <3>1, <3>2, FailIsRow DEF Failures
            <3>4. dep'[id] # NULL /\ dep'[id].commit = row.commit /\ dep'[id].status = "failed"
                BY <3>2, <3>3, TimelyIsRow
            <3>5. Failed(id)
                BY <2>1, <3>1, <3>3, <3>4 DEF Failed, Kept
            <3>6. QED
                BY <3>5 DEF TableStep
        <2>3. CASE ~StatusIn(id, Running)
            BY <2>1, <2>3, UnwrittenStep DEF Unborn
        <2>4. QED
            BY <2>2, <2>3
    <1>5. QED
        BY <1>1, <1>2, <1>3, <1>4

\* Every step moves every deployment as the lifecycle allows.
LEMMA NextTableStep ==
    ASSUME IInv, [Next]_vars, NEW id \in Ids
    PROVE  TableStep(id)
    <1>1. ASSUME NEW p \in Replicas, DeployerStep(p) \/ FaultStep(p) \/ ToolchainPrints(p)
          PROVE  TableStep(id)
        <2>1. CASE \/ StopIdle(p) \/ ClaimSelect(p) \/ PrepareFails(p) \/ StartToolchain(p)
                   \/ FlushTake(p) \/ ToolchainReturns(p) \/ CloseStream(p) \/ StoreLayer(p)
                   \/ StoreFails(p) \/ Seal(p) \/ SaveBuildRefused(p) \/ Finish(p)
                   \/ SaveConflict(p) \/ ExitProcess(p) \/ Boot(p) \/ RecoverRefused(p)
                   \/ Stop(p) \/ Crash(p) \/ RecoverError(p) \/ ClaimError(p) \/ FlushError(p)
                   \/ ToolchainPrints(p) \/ Poll(p)
            <3>1. UNCHANGED <<dep, build, pending, next>>
                BY <2>1 DEF StopIdle, ClaimSelect, PrepareFails, StartToolchain, FlushTake,
                            ToolchainReturns, CloseStream, StoreLayer, StoreFails, Seal,
                            SaveBuildRefused, Finish, SaveConflict, ExitProcess, Boot,
                            RecoverRefused, Stop, Crash, RecoverError, ClaimError, FlushError,
                            ToolchainPrints, Poll, tables
            <3>2. QED
                BY <3>1, UntouchedTables
        <2>2. CASE \/ ClaimCommit(p) \/ ClaimLost(p) \/ FlushSave(p) \/ AdvanceSave(p)
                   \/ AdvanceRefused(p) \/ AdvanceError(p) \/ SaveBuild(p) \/ SaveBuildError(p)
                   \/ SaveFinal(p) \/ SaveError(p)
            BY <2>2, ClaimTableStep, FlushTableStep, AdvanceTableStep, SaveBuildTableStep,
               LastSaveTableStep
        <2>3. QED
            BY <1>1, <2>1, <2>2, RequestTableStep DEF DeployerStep, FaultStep
    <1>2. CASE UNCHANGED vars
        BY <1>2, UntouchedTables DEF vars
    <1>3. CASE \/ \E a \in Apps, c \in Commits : CreateResolve(a, c)
               \/ \E i \in Ids : RetryResolve(i)
               \/ \E req \in pending : Insert(req) \/ Refuse(req)
               \/ \E a \in Apps : DeleteApp(a)
        <2>1. \/ \E a, c : Queue(a, c)
              \/ \E req \in pending : Insert(req) \/ Refuse(req)
              \/ \E a \in Apps : DeleteApp(a)
            BY <1>3 DEF CreateResolve, RetryResolve
        <2>2. QED
            BY <2>1, RequestTableStep
    <1>4. QED
        BY <1>1, <1>2, <1>3 DEF Next

\* The lifecycle starts with nothing requested.
LEMMA LifecycleInit == Init => Lifecycle!Init
    <1>1. SUFFICES ASSUME Init PROVE Lifecycle!Init
        OBVIOUS
    <1>2. \A id \in Ids : id >= 1
        BY ConstantsAssumption DEF Ids
    <1>3. QED
        BY <1>1, <1>2 DEF Init, Lifecycle!Init, StageOf, Exists, Unborn

\* Whatever replicas, flushers, recoveries, deletions and lost answers do to the two tables,
\* whoever follows a deployment sees the lifecycle docs/deployment.md promises: no Save
\* moves it back a stage or out of a finished one, and ready comes with its own build.
THEOREM TablesImplementLifecycle == Spec => ImplementsLifecycle
    <1>1. IInv /\ [Next]_vars => Lifecycle!Next
        <2>1. SUFFICES ASSUME IInv, [Next]_vars, NEW id \in Ids
                       PROVE  Lifecycle!Step(id)
            BY DEF Lifecycle!Next
        <2>2. QED
            BY <2>1, NextTableStep, TableStepIsLifecycle
    <1>2. QED
        BY <1>1, LifecycleInit, DeploymentsInvariant, PTL
        DEF Spec, ImplementsLifecycle, Lifecycle!Spec

=============================================================================
