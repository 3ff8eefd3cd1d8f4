--------------------------- MODULE ExecutionsProofs ---------------------------
(***************************************************************************)
(* Proofs about Executions for every number of apps, builds, replicas,     *)
(* executions and faults, and every setting of the log limits.             *)
(***************************************************************************)
EXTENDS Executions, TLAPS

USE DEF Ids, ConstantsAssumption, NullAssumption, RowAssumption

-----------------------------------------------------------------------------
(* What the operations on a row return. *)

\* New makes a readable queued row.
LEMMA NewIsRow ==
    ASSUME NEW b \in Builds, NEW o \in Ids \union {NULL}
    PROVE  /\ New(b, o) \in Rows
           /\ New(b, o).status = "queued"
           /\ Validate(New(b, o))
    BY ConstantsAssumption
    DEF New, Rows, Statuses, Terminal, FailureCodes, LogLengths, Validate

\* Claiming a row keeps its type and its pin, clears the rest, and the result is readable.
LEMMA ClaimIsRow ==
    ASSUME NEW row \in Rows
    PROVE  /\ Claim(row) \in Rows
           /\ Claim(row).status = "running"
           /\ Claim(row).build = row.build
           /\ Claim(row).rerunOf = row.rerunOf
           /\ Claim(row).logs = 0
           /\ Claim(row).output = NULL
           /\ Claim(row).failure = NULL
           /\ Validate(Claim(row))
    <1>1. 0 \in LogLengths
        BY ConstantsAssumption DEF LogLengths
    <1>2. Claim(row) \in Rows
        BY <1>1 DEF Claim, Rows, Statuses
    <1>3. /\ Claim(row).status = "running"
          /\ Claim(row).build = row.build
          /\ Claim(row).rerunOf = row.rerunOf
          /\ Claim(row).logs = 0
          /\ Claim(row).output = NULL
          /\ Claim(row).failure = NULL
        BY DEF Claim, Rows
    <1>4. Validate(Claim(row))
        BY <1>3, ConstantsAssumption DEF Validate
    <1>5. QED
        BY <1>2, <1>3, <1>4

\* Failing a row keeps its type and its pin; it stays readable when its logs fit.
LEMMA FailIsRow ==
    ASSUME NEW row \in Rows, NEW code \in FailureCodes, NEW n \in LogLengths
    PROVE  /\ Fail(row, code, n) \in Rows
           /\ Fail(row, code, n).status = "failed"
           /\ Fail(row, code, n).build = row.build
           /\ Fail(row, code, n).logs = n
           /\ Fail(row, code, n).output = NULL
           /\ Fail(row, code, n).failure = code
    BY DEF Fail, Rows, Statuses, Terminal, FailureCodes

\* Succeeding keeps the type and the pin.
LEMMA SucceedIsRow ==
    ASSUME NEW row \in Rows, NEW b \in Builds, NEW n \in LogLengths
    PROVE  /\ Succeed(row, b, n) \in Rows
           /\ Succeed(row, b, n).status = "succeeded"
           /\ Succeed(row, b, n).build = row.build
    BY DEF Succeed, Rows, Statuses, Terminal, FailureCodes

\* The capped length of any amount of output is a length a row type admits.
LEMMA CappedIsLength ==
    ASSUME NEW n \in 0 .. MaxPrint
    PROVE  Capped(n) \in LogLengths
    BY ConstantsAssumption DEF Capped, LogLengths

\* A recovered row stays readable.
LEMMA RecoveredIsRow ==
    ASSUME NEW row \in Rows, Validate(row)
    PROVE  /\ Recovered(row) \in Rows
           /\ Recovered(row).status = "failed"
           /\ Recovered(row).build = row.build
           /\ Recovered(row).output = NULL
           /\ Recovered(row).failure # NULL
           /\ Validate(Recovered(row))
    <1>1. row.logs \in LogLengths /\ row.logs <= MaxLogBytes
        BY DEF Rows, Validate
    <1>2. "worker_restarted" \in FailureCodes
        BY DEF FailureCodes
    <1> DEFINE r == Fail(row, "worker_restarted", row.logs)
    <1>3. /\ r \in Rows /\ r.status = "failed" /\ r.build = row.build
          /\ r.logs = row.logs /\ r.output = NULL
          /\ r.failure = "worker_restarted"
        BY <1>1, <1>2, FailIsRow
    <1>4. "worker_restarted" # NULL
        BY NullAssumption
    <1>5. QED
        BY <1>1, <1>3, <1>4 DEF Recovered, Validate

-----------------------------------------------------------------------------
(* Facts the steps below share. *)

\* A fault stays within the bound.
LEMMA FaultBound ==
    ASSUME faults \in 0 .. MaxFaults, NEW kind, Fault(kind)
    PROVE  faults' \in 0 .. MaxFaults
    BY ConstantsAssumption DEF Fault

\* An interrupted call stays within the bound on faults.
LEMMA InterruptedBound ==
    ASSUME faults \in 0 .. MaxFaults, NEW p, Interrupted(p)
    PROVE  faults' \in 0 .. MaxFaults
    BY FaultBound DEF Interrupted

\* A failed Finalize stays within the bound on faults.
LEMMA FinalizeInterruptedBound ==
    ASSUME faults \in 0 .. MaxFaults, NEW p, FinalizeInterrupted(p)
    PROVE  faults' \in 0 .. MaxFaults /\ Finalizing(p)
    BY FaultBound, InterruptedBound DEF FinalizeInterrupted, Finalizing

\* Clocks are overtaken by executions, and read again.
LEMMA OvertakeTyped ==
    ASSUME later \in [Replicas -> SUBSET Ids], NEW S, NEW id \in Ids
    PROVE  Overtake(S, id) \in [Replicas -> SUBSET Ids]
    BY DEF Overtake

\* A clock that is read again is behind nothing.
LEMMA Cleared ==
    ASSUME NEW f \in [Replicas -> SUBSET Ids], NEW p \in Replicas
    PROVE  [f EXCEPT ![p] = {}] \in [Replicas -> SUBSET Ids]
    OBVIOUS

\* What a worker in the middle of ProcessOne holds.
LEMMA Held ==
    ASSUME TypeOK, HoldInv, NEW p \in Replicas, pc[p] \in Holding
    PROVE  /\ job[p] \in Ids
           /\ pc[p] # "claiming" => record[p] \in Rows
           /\ pc[p] = "claiming" => /\ exec[job[p]] \in Rows
                                    /\ exec[job[p]].status = "queued"
    BY DEF TypeOK, HoldInv, StatusIs, Exists

\* SaveLogs changes nothing but the logs of a running row, and leaves it readable.
LEMMA SaveLogsKeeps ==
    ASSUME TypeOK, RowsReadable, NEW id \in Ids, NEW n \in 0 .. MaxPrint
    PROVE  /\ SaveLogs(id, n) \in [Ids -> Rows \union {NULL}]
           /\ \A i \in Ids :
                /\ exec[i] = NULL <=> SaveLogs(id, n)[i] = NULL
                /\ exec[i] # NULL =>
                     /\ SaveLogs(id, n)[i].status = exec[i].status
                     /\ SaveLogs(id, n)[i].build = exec[i].build
                     /\ SaveLogs(id, n)[i].output = exec[i].output
                     /\ SaveLogs(id, n)[i].failure = exec[i].failure
                     /\ exec[i].status # "running" =>
                            SaveLogs(id, n)[i] = exec[i]
                     /\ Validate(SaveLogs(id, n)[i])
    <1> DEFINE new == [exec EXCEPT ![id].logs = n]
    <1>1. CASE StatusIs(id, "running") /\ n <= MaxLogBytes
        <2>1. exec[id] \in Rows /\ exec[id].status = "running" /\ exec[id] # NULL
            BY <1>1 DEF TypeOK, StatusIs, Exists
        <2>2. n \in LogLengths
            BY ConstantsAssumption DEF LogLengths
        <2>3. new[id] = [exec[id] EXCEPT !.logs = n]
            BY DEF TypeOK
        <2>4. /\ new[id] \in Rows
              /\ new[id].status = exec[id].status
              /\ new[id].build = exec[id].build
              /\ new[id].output = exec[id].output
              /\ new[id].failure = exec[id].failure
              /\ new[id].logs = n
            BY <2>1, <2>2, <2>3 DEF Rows
        <2>5. new[id] # NULL
            BY <2>4, RowAssumption
        <2>6. Validate(new[id])
            BY <1>1, <2>1, <2>4 DEF Validate, RowsReadable, Exists
        <2>7. \A i \in Ids \ {id} : new[i] = exec[i]
            BY DEF TypeOK
        <2>8. SaveLogs(id, n) = new
            BY <1>1 DEF SaveLogs
        <2>9. new \in [Ids -> Rows \union {NULL}]
            BY <2>4, <2>7 DEF TypeOK
        <2>10. QED
            BY <2>1, <2>4, <2>5, <2>6, <2>7, <2>8, <2>9
            DEF TypeOK, RowsReadable, Exists
    <1>2. CASE ~(StatusIs(id, "running") /\ n <= MaxLogBytes)
        BY <1>2 DEF SaveLogs, TypeOK, RowsReadable, Exists
    <1>3. QED
        BY <1>1, <1>2

-----------------------------------------------------------------------------
(* Every action preserves the inductive invariant. *)

\* A request that takes the next id preserves it.
LEMMA RequestInv ==
    ASSUME IInv, NEW b \in Builds, NEW o \in Ids \union {NULL}, Request(New(b, o))
    PROVE  IInv'
    <1>1. TypeOK'
        <2>1. New(b, o) \in Rows
            BY NewIsRow
        <2>2. next \in Ids /\ next + 1 \in 1 .. (MaxExecutions + 1)
            BY ConstantsAssumption DEF Request
        <2>3. pending' \subseteq [id : Ids, row : Rows]
            BY <2>1, <2>2 DEF Request, IInv, TypeOK
        <2>4. later' \in [Replicas -> SUBSET Ids]
            BY <2>2, OvertakeTyped DEF Request, IInv, TypeOK
        <2>5. QED
            BY <2>2, <2>3, <2>4 DEF Request, IInv, TypeOK, outside
    <1>2. FreshInv'
        <2> DEFINE new == [id |-> next, row |-> New(b, o)]
        <2>1. /\ pending' = pending \union {new}
              /\ next \in Ids /\ next' = next + 1
              /\ UNCHANGED <<exec, ran, job>>
            BY DEF Request, outside
        <2>2. \A id \in Ids : Unborn(id)' => Unborn(id)
            BY <2>1 DEF Unborn
        <2>3. \A req \in pending : req.id < next
            BY DEF IInv, FreshInv
        <2>4. new.row = New(new.row.build, new.row.rerunOf)
            BY DEF New
        <2>5. \A req \in pending' :
                  req.id < next' /\ req.row = New(req.row.build, req.row.rerunOf)
            BY <2>1, <2>3, <2>4 DEF IInv, FreshInv, TypeOK
        <2>6. \A r1, r2 \in pending' : r1.id = r2.id => r1 = r2
            BY <2>1, <2>3 DEF IInv, FreshInv, TypeOK
        <2>7. QED
            BY <2>1, <2>2, <2>5, <2>6 DEF IInv, FreshInv
    <1>3. HoldInv'
        BY DEF IInv, HoldInv, Holding, Finalizing, StatusIs, Exists, Request
    <1>4. RanInv'
        BY DEF IInv, RanInv, NeverRerun, StatusIs, Exists, Request, outside
    <1>5. RowsReadable'
        BY DEF IInv, RowsReadable, Exists, Request
    <1>6. QED
        BY <1>1, <1>2, <1>3, <1>4, <1>5 DEF IInv

\* Resolving a build for a new execution preserves it.
LEMMA CreateResolveInv ==
    ASSUME IInv, NEW b \in Builds, CreateResolve(b)
    PROVE  IInv'
    BY RequestInv DEF CreateResolve

\* Resolving a rerun preserves it.
LEMMA RerunResolveInv ==
    ASSUME IInv, NEW original \in Ids, RerunResolve(original)
    PROVE  IInv'
    <1>1. exec[original].build \in Builds
        BY DEF RerunResolve, HasStatusIn, Exists, IInv, TypeOK, Rows
    <1>2. QED
        BY <1>1, RequestInv DEF RerunResolve

\* Inserting the queued row preserves it.
LEMMA InsertInv ==
    ASSUME IInv, NEW req \in pending, Insert(req)
    PROVE  IInv'
    <1>1. TypeOK'
        BY ConstantsAssumption, NullAssumption
        DEF IInv, TypeOK, HoldInv, FreshInv, Holding, Phases, WorkerStates,
            Insert, table, local, outside
    <1>2. FreshInv'
        BY ConstantsAssumption, NullAssumption
        DEF IInv, TypeOK, HoldInv, FreshInv, Holding, Unborn,
            Insert, table, local, outside
    <1>3. HoldInv'
        <2>1. /\ req.id \in Ids /\ Unborn(req.id)
              /\ exec' = [exec EXCEPT ![req.id] = req.row]
              /\ UNCHANGED <<phase, pc, job, record, result, flushing>>
            BY DEF Insert, IInv, TypeOK, Unborn, local
        <2>2. \A p \in Replicas : job[p] # req.id
            BY <2>1 DEF IInv, FreshInv
        <2>3. \A p \in Replicas :
                  job[p] # NULL => (StatusIs(job[p], "queued"))' = StatusIs(job[p], "queued")
            BY <2>1, <2>2 DEF StatusIs, Exists, IInv, TypeOK
        <2>4. QED
            BY <2>1, <2>3 DEF IInv, HoldInv, Finalizing, Holding, TypeOK
    <1>4. RanInv'
        <2>1. req.id \in Ids /\ ran[req.id] = 0
            BY DEF IInv, TypeOK, FreshInv, Unborn
        <2>2. \A id \in Ids \ {req.id} : exec'[id] = exec[id]
            BY DEF Insert, IInv, TypeOK
        <2>3. QED
            BY <2>1, <2>2
            DEF Insert, IInv, TypeOK, RanInv, NeverRerun, StatusIs, Exists, local, outside
    <1>5. RowsReadable'
        <2>1. req.id \in Ids /\ req.row \in Rows
            BY DEF IInv, TypeOK
        <2>2. Validate(req.row)
            BY <2>1, NewIsRow DEF IInv, FreshInv, Rows
        <2>3. exec' = [exec EXCEPT ![req.id] = req.row]
            BY DEF Insert
        <2>4. QED
            BY <2>1, <2>2, <2>3 DEF IInv, TypeOK, RowsReadable, Exists
    <1>6. QED
        BY <1>1, <1>2, <1>3, <1>4, <1>5 DEF IInv

\* A refused request preserves it.
LEMMA RefuseInv ==
    ASSUME IInv, NEW req \in pending, Refuse(req)
    PROVE  IInv'
    <1>1. TypeOK'
        BY ConstantsAssumption, NullAssumption
        DEF IInv, TypeOK, HoldInv, FreshInv, Holding, Phases, WorkerStates,
            Refuse, table, local, outside
    <1>2. FreshInv'
        BY ConstantsAssumption, NullAssumption
        DEF IInv, TypeOK, HoldInv, FreshInv, Holding, Unborn,
            Refuse, table, local, outside
    <1>3. HoldInv'
        BY ConstantsAssumption, NullAssumption
        DEF IInv, TypeOK, HoldInv, FreshInv, Holding, Finalizing, StatusIs, Exists,
            Refuse, table, local, outside
    <1>4. RanInv'
        BY ConstantsAssumption, NullAssumption
        DEF IInv, TypeOK, RanInv, HoldInv, FreshInv, Holding, NeverRerun, StatusIs, Exists,
            Refuse, table, local, outside
    <1>5. RowsReadable'
        BY ConstantsAssumption, NullAssumption
        DEF IInv, TypeOK, HoldInv, FreshInv, RowsReadable, Exists, StatusIs, Holding,
            Refuse, table, local, outside
    <1>6. QED
        BY <1>1, <1>2, <1>3, <1>4, <1>5 DEF IInv

\* Deleting an app preserves it.
LEMMA DeleteAppInv ==
    ASSUME IInv, NEW a \in Apps, DeleteApp(a)
    PROVE  IInv'
    <1>1. TypeOK'
        BY ConstantsAssumption, NullAssumption
        DEF IInv, TypeOK, HoldInv, FreshInv, Holding, Phases, WorkerStates,
            DeleteApp, table, local, outside
    <1>2. FreshInv'
        BY ConstantsAssumption, NullAssumption
        DEF IInv, TypeOK, HoldInv, FreshInv, Holding, Unborn,
            DeleteApp, table, local, outside
    <1>3. HoldInv'
        <2>1. UNCHANGED <<phase, pc, job, record, result, flushing>>
            BY DEF DeleteApp, local
        <2>2. \A id \in Ids : exec'[id] = NULL \/ exec'[id] = exec[id]
            BY DEF DeleteApp
        <2>3. ASSUME NEW p \in Replicas, pc[p] = "claiming"
              PROVE  exec'[job[p]] = exec[job[p]]
            <3>1. job[p] \in Ids
                BY <2>3, Held DEF IInv, Holding
            <3>2. Locked(job[p])
                BY <2>3 DEF Locked, LockedBy
            <3>3. QED
                BY <3>1, <3>2 DEF DeleteApp
        <2>4. \A p \in Replicas : pc[p] \in Holding => job[p] \in Ids
            BY Held DEF IInv
        <2>5. QED
            BY <2>1, <2>2, <2>3, <2>4
            DEF IInv, HoldInv, Finalizing, Holding, StatusIs, Exists
    <1>4. RanInv'
        BY ConstantsAssumption, NullAssumption
        DEF IInv, TypeOK, RanInv, HoldInv, FreshInv, Holding, NeverRerun, StatusIs, Exists,
            DeleteApp, table, local, outside
    <1>5. RowsReadable'
        BY ConstantsAssumption, NullAssumption
        DEF IInv, TypeOK, HoldInv, FreshInv, RowsReadable, Exists, StatusIs, Holding,
            DeleteApp, table, local, outside
    <1>6. QED
        BY <1>1, <1>2, <1>3, <1>4, <1>5 DEF IInv

\* A late SaveLogs statement preserves it.
LEMMA LateFlushInv ==
    ASSUME IInv, NEW stmt \in late, LateFlush(stmt)
    PROVE  IInv'
    <1>1. TypeOK'
        <2>1. stmt.id \in Ids /\ stmt.logs \in 0 .. MaxPrint
            BY DEF IInv, TypeOK
        <2>2. exec' = SaveLogs(stmt.id, stmt.logs)
            BY DEF LateFlush
        <2>3. exec' \in [Ids -> Rows \union {NULL}]
            BY <2>1, <2>2, SaveLogsKeeps DEF IInv
        <2>4. QED
            BY <2>3 DEF LateFlush, IInv, TypeOK, table, local, outside
    <1>2. FreshInv'
        <2>1. stmt.id \in Ids /\ stmt.logs \in 0 .. MaxPrint
            BY DEF IInv, TypeOK
        <2>2. exec' = SaveLogs(stmt.id, stmt.logs)
            BY DEF LateFlush
        <2>3. \A i \in Ids : exec[i] = NULL => exec'[i] = NULL
            BY <2>1, <2>2, SaveLogsKeeps DEF IInv
        <2>4. QED
            BY <2>3 DEF LateFlush, IInv, FreshInv, Unborn, local, outside
    <1>3. HoldInv'
        <2>1. stmt.id \in Ids /\ stmt.logs \in 0 .. MaxPrint
            BY DEF IInv, TypeOK
        <2>2. exec' = SaveLogs(stmt.id, stmt.logs)
            BY DEF LateFlush
        <2>3. \A i \in Ids : StatusIs(i, "queued")' = StatusIs(i, "queued")
            BY <2>1, <2>2, SaveLogsKeeps DEF IInv, StatusIs, Exists
        <2>4. /\ UNCHANGED <<phase, pc, job, record, result>>
              /\ \A q \in Replicas : flushing'[q] # NULL => flushing[q] # NULL
            BY DEF LateFlush, local, IInv, TypeOK
        <2>5. \A q \in Replicas : pc[q] \in Holding => job[q] \in Ids
            BY Held DEF IInv
        <2>6. QED
            BY <2>3, <2>4, <2>5 DEF IInv, HoldInv, Finalizing, Holding
    <1>4. RanInv'
        <2>1. stmt.id \in Ids /\ stmt.logs \in 0 .. MaxPrint
            BY DEF IInv, TypeOK
        <2>2. exec' = SaveLogs(stmt.id, stmt.logs)
            BY DEF LateFlush
        <2>3. \A i \in Ids : StatusIs(i, "queued")' = StatusIs(i, "queued")
            BY <2>1, <2>2, SaveLogsKeeps DEF IInv, StatusIs, Exists
        <2>4. QED
            BY <2>3 DEF LateFlush, IInv, RanInv, NeverRerun, local, outside
    <1>5. RowsReadable'
        <2>1. stmt.id \in Ids /\ stmt.logs \in 0 .. MaxPrint
            BY DEF IInv, TypeOK
        <2>2. exec' = SaveLogs(stmt.id, stmt.logs)
            BY DEF LateFlush
        <2>3. QED
            BY <2>1, <2>2, SaveLogsKeeps DEF IInv, RowsReadable, Exists
    <1>6. QED
        BY <1>1, <1>2, <1>3, <1>4, <1>5 DEF IInv

\* A token's expiry preserves it.
LEMMA TokenExpiresInv ==
    ASSUME IInv, NEW id \in Ids, TokenExpires(id)
    PROVE  IInv'
    <1>1. TypeOK'
        BY ConstantsAssumption, NullAssumption
        DEF IInv, TypeOK, HoldInv, FreshInv, Holding, Phases, WorkerStates,
            TokenExpires, table, local, outside
    <1>2. FreshInv'
        BY ConstantsAssumption, NullAssumption
        DEF IInv, TypeOK, HoldInv, FreshInv, Holding, Unborn,
            TokenExpires, table, local, outside
    <1>3. HoldInv'
        BY ConstantsAssumption, NullAssumption
        DEF IInv, TypeOK, HoldInv, FreshInv, Holding, Finalizing, StatusIs, Exists,
            TokenExpires, table, local, outside
    <1>4. RanInv'
        BY ConstantsAssumption, NullAssumption
        DEF IInv, TypeOK, RanInv, HoldInv, FreshInv, Holding, NeverRerun, StatusIs, Exists,
            TokenExpires, table, local, outside
    <1>5. RowsReadable'
        BY ConstantsAssumption, NullAssumption
        DEF IInv, TypeOK, HoldInv, FreshInv, RowsReadable, Exists, StatusIs, Holding,
            TokenExpires, table, local, outside
    <1>6. QED
        BY <1>1, <1>2, <1>3, <1>4, <1>5 DEF IInv

\* Boot preserves it.
LEMMA BootInv ==
    ASSUME IInv, NEW p \in Replicas, Boot(p)
    PROVE  IInv'
    <1>1. TypeOK'
        BY ConstantsAssumption, NullAssumption
        DEF IInv, TypeOK, HoldInv, FreshInv, Holding, Phases, WorkerStates,
            Boot, table, local, outside
    <1>2. FreshInv'
        BY ConstantsAssumption, NullAssumption
        DEF IInv, TypeOK, HoldInv, FreshInv, Holding, Unborn,
            Boot, table, local, outside
    <1>3. HoldInv'
        BY ConstantsAssumption, NullAssumption
        DEF IInv, TypeOK, HoldInv, FreshInv, Holding, Finalizing, StatusIs, Exists,
            Boot, table, local, outside
    <1>4. RanInv'
        BY ConstantsAssumption, NullAssumption
        DEF IInv, TypeOK, RanInv, HoldInv, FreshInv, Holding, NeverRerun, StatusIs, Exists,
            Boot, table, local, outside
    <1>5. RowsReadable'
        BY ConstantsAssumption, NullAssumption
        DEF IInv, TypeOK, HoldInv, FreshInv, RowsReadable, Exists, StatusIs, Holding,
            Boot, table, local, outside
    <1>6. QED
        BY <1>1, <1>2, <1>3, <1>4, <1>5 DEF IInv

\* Recover preserves it.
LEMMA RecoverInv ==
    ASSUME IInv, NEW p \in Replicas, Recover(p)
    PROVE  IInv'
    <1>1. TypeOK'
        <2>1. \A i \in Ids :
                  exec'[i] = IF StatusIs(i, "running") THEN Recovered(exec[i])
                             ELSE exec[i]
            BY DEF Recover
        <2>2. \A i \in Ids : StatusIs(i, "running") =>
                  /\ Recovered(exec[i]) \in Rows
                  /\ Recovered(exec[i]).status = "failed"
                  /\ Validate(Recovered(exec[i]))
            BY RecoveredIsRow DEF IInv, TypeOK, RowsReadable, StatusIs, Exists
        <2>3. \A i \in Ids : /\ exec'[i] = NULL <=> exec[i] = NULL
                             /\ StatusIs(i, "queued")' = StatusIs(i, "queued")
            BY <2>1, <2>2, RowAssumption DEF StatusIs, Exists, IInv, TypeOK
        <2>4. exec' \in [Ids -> Rows \union {NULL}]
            BY <2>2 DEF Recover, IInv, TypeOK
        <2>5. QED
            BY <2>4 DEF Recover, IInv, TypeOK, Phases, WorkerStates, local, outside
    <1>2. FreshInv'
        <2>1. \A i \in Ids :
                  exec'[i] = IF StatusIs(i, "running") THEN Recovered(exec[i])
                             ELSE exec[i]
            BY DEF Recover
        <2>2. \A i \in Ids : StatusIs(i, "running") =>
                  /\ Recovered(exec[i]) \in Rows
                  /\ Recovered(exec[i]).status = "failed"
                  /\ Validate(Recovered(exec[i]))
            BY RecoveredIsRow DEF IInv, TypeOK, RowsReadable, StatusIs, Exists
        <2>3. \A i \in Ids : /\ exec'[i] = NULL <=> exec[i] = NULL
                             /\ StatusIs(i, "queued")' = StatusIs(i, "queued")
            BY <2>1, <2>2, RowAssumption DEF StatusIs, Exists, IInv, TypeOK
        <2>4. QED
            BY <2>3 DEF Recover, IInv, FreshInv, Unborn, local, outside
    <1>3. HoldInv'
        <2>1. \A i \in Ids :
                  exec'[i] = IF StatusIs(i, "running") THEN Recovered(exec[i])
                             ELSE exec[i]
            BY DEF Recover
        <2>2. \A i \in Ids : StatusIs(i, "running") =>
                  /\ Recovered(exec[i]) \in Rows
                  /\ Recovered(exec[i]).status = "failed"
                  /\ Validate(Recovered(exec[i]))
            BY RecoveredIsRow DEF IInv, TypeOK, RowsReadable, StatusIs, Exists
        <2>3. \A i \in Ids : /\ exec'[i] = NULL <=> exec[i] = NULL
                             /\ StatusIs(i, "queued")' = StatusIs(i, "queued")
            BY <2>1, <2>2, RowAssumption DEF StatusIs, Exists, IInv, TypeOK
        <2>4. job[p] = NULL
            BY DEF Recover, IInv, HoldInv, Holding
        <2>5. \A q \in Replicas : pc[q] \in Holding => job[q] \in Ids
            BY Held DEF IInv
        <2>6. QED
            BY <2>3, <2>4, <2>5
            DEF Recover, IInv, TypeOK, HoldInv, Finalizing, Holding, local
    <1>4. RanInv'
        <2>1. \A i \in Ids :
                  exec'[i] = IF StatusIs(i, "running") THEN Recovered(exec[i])
                             ELSE exec[i]
            BY DEF Recover
        <2>2. \A i \in Ids : StatusIs(i, "running") =>
                  /\ Recovered(exec[i]) \in Rows
                  /\ Recovered(exec[i]).status = "failed"
                  /\ Validate(Recovered(exec[i]))
            BY RecoveredIsRow DEF IInv, TypeOK, RowsReadable, StatusIs, Exists
        <2>3. \A i \in Ids : /\ exec'[i] = NULL <=> exec[i] = NULL
                             /\ StatusIs(i, "queued")' = StatusIs(i, "queued")
            BY <2>1, <2>2, RowAssumption DEF StatusIs, Exists, IInv, TypeOK
        <2>4. QED
            BY <2>3 DEF Recover, IInv, TypeOK, RanInv, NeverRerun, local, outside
    <1>5. RowsReadable'
        <2>1. \A i \in Ids :
                  exec'[i] = IF StatusIs(i, "running") THEN Recovered(exec[i])
                             ELSE exec[i]
            BY DEF Recover
        <2>2. \A i \in Ids : StatusIs(i, "running") =>
                  /\ Recovered(exec[i]) \in Rows
                  /\ Recovered(exec[i]).status = "failed"
                  /\ Validate(Recovered(exec[i]))
            BY RecoveredIsRow DEF IInv, TypeOK, RowsReadable, StatusIs, Exists
        <2>3. \A i \in Ids : /\ exec'[i] = NULL <=> exec[i] = NULL
                             /\ StatusIs(i, "queued")' = StatusIs(i, "queued")
            BY <2>1, <2>2, RowAssumption DEF StatusIs, Exists, IInv, TypeOK
        <2>4. QED
            BY <2>1, <2>2 DEF IInv, RowsReadable, Exists
    <1>6. QED
        BY <1>1, <1>2, <1>3, <1>4, <1>5 DEF IInv

\* A recovery that a row refuses preserves it.
LEMMA RecoverRefusedInv ==
    ASSUME IInv, NEW p \in Replicas, RecoverRefused(p)
    PROVE  IInv'
    <1>1. TypeOK'
        BY ConstantsAssumption, NullAssumption
        DEF IInv, TypeOK, HoldInv, FreshInv, Holding, Phases, WorkerStates,
            RecoverRefused, table, local, outside
    <1>2. FreshInv'
        BY ConstantsAssumption, NullAssumption
        DEF IInv, TypeOK, HoldInv, FreshInv, Holding, Unborn,
            RecoverRefused, table, local, outside
    <1>3. HoldInv'
        BY ConstantsAssumption, NullAssumption
        DEF IInv, TypeOK, HoldInv, FreshInv, Holding, Finalizing, StatusIs, Exists,
            RecoverRefused, table, local, outside
    <1>4. RanInv'
        BY ConstantsAssumption, NullAssumption
        DEF IInv, TypeOK, RanInv, HoldInv, FreshInv, Holding, NeverRerun, StatusIs, Exists,
            RecoverRefused, table, local, outside
    <1>5. RowsReadable'
        BY ConstantsAssumption, NullAssumption
        DEF IInv, TypeOK, HoldInv, FreshInv, RowsReadable, Exists, StatusIs, Holding,
            RecoverRefused, table, local, outside
    <1>6. QED
        BY <1>1, <1>2, <1>3, <1>4, <1>5 DEF IInv

\* RecoverError preserves it.
LEMMA RecoverErrorInv ==
    ASSUME IInv, NEW p \in Replicas, RecoverError(p)
    PROVE  IInv'
    <1>1. TypeOK'
        BY FaultBound DEF RecoverError, IInv, TypeOK, Phases, WorkerStates, table, local, outside
    <1>2. FreshInv'
        BY ConstantsAssumption, NullAssumption
        DEF IInv, TypeOK, HoldInv, FreshInv, Holding, Unborn,
            RecoverError, Fault, table, local, outside
    <1>3. HoldInv'
        BY ConstantsAssumption, NullAssumption
        DEF IInv, TypeOK, HoldInv, FreshInv, Holding, Finalizing, StatusIs, Exists,
            RecoverError, Fault, table, local, outside
    <1>4. RanInv'
        BY ConstantsAssumption, NullAssumption
        DEF IInv, TypeOK, RanInv, HoldInv, FreshInv, Holding, NeverRerun, StatusIs, Exists,
            RecoverError, Fault, table, local, outside
    <1>5. RowsReadable'
        BY ConstantsAssumption, NullAssumption
        DEF IInv, TypeOK, HoldInv, FreshInv, RowsReadable, Exists, StatusIs, Holding,
            RecoverError, Fault, table, local, outside
    <1>6. QED
        BY <1>1, <1>2, <1>3, <1>4, <1>5 DEF IInv

\* Stop preserves it.
LEMMA StopInv ==
    ASSUME IInv, NEW p \in Replicas, Stop(p)
    PROVE  IInv'
    <1>1. TypeOK'
        BY FaultBound DEF Stop, IInv, TypeOK, Phases, WorkerStates, table, local, outside
    <1>2. FreshInv'
        BY ConstantsAssumption, NullAssumption
        DEF IInv, TypeOK, HoldInv, FreshInv, Holding, Unborn,
            Stop, Fault, table, local, outside
    <1>3. HoldInv'
        BY ConstantsAssumption, NullAssumption
        DEF IInv, TypeOK, HoldInv, FreshInv, Holding, Finalizing, StatusIs, Exists,
            Stop, Fault, table, local, outside
    <1>4. RanInv'
        BY ConstantsAssumption, NullAssumption
        DEF IInv, TypeOK, RanInv, HoldInv, FreshInv, Holding, NeverRerun, StatusIs, Exists,
            Stop, Fault, table, local, outside
    <1>5. RowsReadable'
        BY ConstantsAssumption, NullAssumption
        DEF IInv, TypeOK, HoldInv, FreshInv, RowsReadable, Exists, StatusIs, Holding,
            Stop, Fault, table, local, outside
    <1>6. QED
        BY <1>1, <1>2, <1>3, <1>4, <1>5 DEF IInv

\* StopIdle preserves it.
LEMMA StopIdleInv ==
    ASSUME IInv, NEW p \in Replicas, StopIdle(p)
    PROVE  IInv'
    <1>1. TypeOK'
        BY ConstantsAssumption, NullAssumption
        DEF IInv, TypeOK, HoldInv, FreshInv, Holding, Phases, WorkerStates,
            StopIdle, ExitWorker, Forget, ForgetJob, table, local, outside
    <1>2. FreshInv'
        BY ConstantsAssumption, NullAssumption
        DEF IInv, TypeOK, HoldInv, FreshInv, Holding, Unborn,
            StopIdle, ExitWorker, Forget, ForgetJob, table, local, outside
    <1>3. HoldInv'
        BY ConstantsAssumption, NullAssumption
        DEF IInv, TypeOK, HoldInv, FreshInv, Holding, Finalizing, StatusIs, Exists,
            StopIdle, ExitWorker, Forget, ForgetJob, table, local, outside
    <1>4. RanInv'
        BY ConstantsAssumption, NullAssumption
        DEF IInv, TypeOK, RanInv, HoldInv, FreshInv, Holding, NeverRerun, StatusIs, Exists,
            StopIdle, ExitWorker, Forget, ForgetJob, table, local, outside
    <1>5. RowsReadable'
        BY ConstantsAssumption, NullAssumption
        DEF IInv, TypeOK, HoldInv, FreshInv, RowsReadable, Exists, StatusIs, Holding,
            StopIdle, ExitWorker, Forget, ForgetJob, table, local, outside
    <1>6. QED
        BY <1>1, <1>2, <1>3, <1>4, <1>5 DEF IInv

\* ExitProcess preserves it.
LEMMA ExitProcessInv ==
    ASSUME IInv, NEW p \in Replicas, ExitProcess(p)
    PROVE  IInv'
    <1>1. TypeOK'
        BY ConstantsAssumption, NullAssumption
        DEF IInv, TypeOK, HoldInv, FreshInv, Holding, Phases, WorkerStates,
            ExitProcess, table, local, outside
    <1>2. FreshInv'
        BY ConstantsAssumption, NullAssumption
        DEF IInv, TypeOK, HoldInv, FreshInv, Holding, Unborn,
            ExitProcess, table, local, outside
    <1>3. HoldInv'
        BY ConstantsAssumption, NullAssumption
        DEF IInv, TypeOK, HoldInv, FreshInv, Holding, Finalizing, StatusIs, Exists,
            ExitProcess, table, local, outside
    <1>4. RanInv'
        BY ConstantsAssumption, NullAssumption
        DEF IInv, TypeOK, RanInv, HoldInv, FreshInv, Holding, NeverRerun, StatusIs, Exists,
            ExitProcess, table, local, outside
    <1>5. RowsReadable'
        BY ConstantsAssumption, NullAssumption
        DEF IInv, TypeOK, HoldInv, FreshInv, RowsReadable, Exists, StatusIs, Holding,
            ExitProcess, table, local, outside
    <1>6. QED
        BY <1>1, <1>2, <1>3, <1>4, <1>5 DEF IInv

\* Crash preserves it.
LEMMA CrashInv ==
    ASSUME IInv, NEW p \in Replicas, Crash(p)
    PROVE  IInv'
    <1>1. TypeOK'
        <2>1. LateOnes(p) \subseteq [id : Ids, logs : 0 .. MaxPrint]
            BY Held, SMTT(60) DEF LateOnes, IInv, TypeOK, HoldInv, Holding
        <2>2. QED
            BY <2>1, FaultBound DEF Crash, Forget, ForgetJob, IInv, TypeOK, Phases,
                WorkerStates, table
    <1>2. FreshInv'
        BY ConstantsAssumption, NullAssumption
        DEF IInv, TypeOK, HoldInv, FreshInv, Holding, Unborn,
            Crash, Fault, Forget, ForgetJob, LateOnes, table, local, outside
    <1>3. HoldInv'
        BY ConstantsAssumption, NullAssumption
        DEF IInv, TypeOK, HoldInv, FreshInv, Holding, Finalizing, StatusIs, Exists,
            Crash, Fault, Forget, ForgetJob, LateOnes, table, local, outside
    <1>4. RanInv'
        BY ConstantsAssumption, NullAssumption
        DEF IInv, TypeOK, RanInv, HoldInv, FreshInv, Holding, NeverRerun, StatusIs, Exists,
            Crash, Fault, Forget, ForgetJob, LateOnes, table, local, outside
    <1>5. RowsReadable'
        BY ConstantsAssumption, NullAssumption
        DEF IInv, TypeOK, HoldInv, FreshInv, RowsReadable, Exists, StatusIs, Holding,
            Crash, Fault, Forget, ForgetJob, LateOnes, table, local, outside
    <1>6. QED
        BY <1>1, <1>2, <1>3, <1>4, <1>5 DEF IInv

\* A new reading of the clock preserves it.
LEMMA PollInv ==
    ASSUME IInv, NEW p \in Replicas, Poll(p)
    PROVE  IInv'
    <1>1. TypeOK'
        BY ConstantsAssumption, NullAssumption
        DEF IInv, TypeOK, HoldInv, FreshInv, Holding, Phases, WorkerStates,
            Poll, table, local, outside
    <1>2. FreshInv'
        BY ConstantsAssumption, NullAssumption
        DEF IInv, TypeOK, HoldInv, FreshInv, Holding, Unborn,
            Poll, table, local, outside
    <1>3. HoldInv'
        BY ConstantsAssumption, NullAssumption
        DEF IInv, TypeOK, HoldInv, FreshInv, Holding, Finalizing, StatusIs, Exists,
            Poll, table, local, outside
    <1>4. RanInv'
        BY ConstantsAssumption, NullAssumption
        DEF IInv, TypeOK, RanInv, HoldInv, FreshInv, Holding, NeverRerun, StatusIs, Exists,
            Poll, table, local, outside
    <1>5. RowsReadable'
        BY ConstantsAssumption, NullAssumption
        DEF IInv, TypeOK, HoldInv, FreshInv, RowsReadable, Exists, StatusIs, Holding,
            Poll, table, local, outside
    <1>6. QED
        BY <1>1, <1>2, <1>3, <1>4, <1>5 DEF IInv

\* ClaimSelect preserves it.
LEMMA ClaimSelectInv ==
    ASSUME IInv, NEW p \in Replicas, ClaimSelect(p)
    PROVE  IInv'
    <1>1. TypeOK'
        <2>1. PICK id \in Ids : Claimable(id) /\ job' = [job EXCEPT ![p] = id]
            BY DEF ClaimSelect
        <2>2. QED
            BY <2>1 DEF ClaimSelect, IInv, TypeOK, WorkerStates, table, outside
    <1>2. FreshInv'
        <2>1. PICK id \in Ids : Claimable(id) /\ job' = [job EXCEPT ![p] = id]
            BY DEF ClaimSelect
        <2>2. exec[id] # NULL
            BY <2>1 DEF Claimable, StatusIs, Exists
        <2>3. ~Unborn(id)
            BY <2>2 DEF IInv, FreshInv
        <2>4. QED
            BY <2>1, <2>3
            DEF ClaimSelect, IInv, TypeOK, FreshInv, Unborn, table, outside
    <1>3. HoldInv'
        <2>1. PICK id \in Ids : Claimable(id) /\ job' = [job EXCEPT ![p] = id]
            BY DEF ClaimSelect
        <2>2. \A q \in Replicas : job[q] # id
            <3> SUFFICES ASSUME NEW q \in Replicas, job[q] = id PROVE FALSE
                OBVIOUS
            <3>1. pc[q] \in Holding
                BY NullAssumption DEF IInv, HoldInv
            <3>2. pc[q] # "claiming"
                BY <2>1 DEF Claimable, Locked, LockedBy
            <3>3. QED
                BY <2>1, <3>1, <3>2 DEF Claimable, IInv, HoldInv
        <2>3. StatusIs(id, "queued")
            BY <2>1 DEF Claimable
        <2>4. /\ pc[p] = "idle" /\ pc' = [pc EXCEPT ![p] = "claiming"]
              /\ UNCHANGED <<exec, phase, record, result, flushing>>
            BY DEF ClaimSelect, table
        <2>5. QED
            BY <2>1, <2>2, <2>3, <2>4, NullAssumption
            DEF IInv, TypeOK, HoldInv, Holding, Finalizing, StatusIs, Exists
    <1>4. RanInv'
        BY ConstantsAssumption, NullAssumption
        DEF IInv, TypeOK, RanInv, HoldInv, FreshInv, Holding, NeverRerun, StatusIs, Exists,
            ClaimSelect, Claimable, Locked, LockedBy, table, local, outside
    <1>5. RowsReadable'
        BY ConstantsAssumption, NullAssumption
        DEF IInv, TypeOK, HoldInv, FreshInv, RowsReadable, Exists, StatusIs, Holding,
            ClaimSelect, Claimable, Locked, LockedBy, table, local, outside
    <1>6. QED
        BY <1>1, <1>2, <1>3, <1>4, <1>5 DEF IInv

\* ClaimCommit preserves it.
LEMMA ClaimCommitInv ==
    ASSUME IInv, NEW p \in Replicas, ClaimCommit(p)
    PROVE  IInv'
    <1>1. TypeOK'
        <2>1. /\ pc[p] = "claiming" /\ job[p] \in Ids
              /\ exec[job[p]] \in Rows /\ exec[job[p]].status = "queued"
            BY Held DEF ClaimCommit, IInv, Holding
        <2>2. exec' = [exec EXCEPT ![job[p]] = Claim(exec[job[p]])]
            BY DEF ClaimCommit
        <2>3. /\ Claim(exec[job[p]]) \in Rows
              /\ Claim(exec[job[p]]).status = "running"
              /\ Claim(exec[job[p]]) # NULL
              /\ Validate(Claim(exec[job[p]]))
            BY <2>1, ClaimIsRow, RowAssumption
        <2>4. later' \in [Replicas -> SUBSET Ids]
            BY <2>1, OvertakeTyped, Cleared DEF ClaimCommit, IInv, TypeOK
        <2>5. exec' \in [Ids -> Rows \union {NULL}] /\ record' \in [Replicas -> Rows \union {NULL}]
            BY <2>1, <2>2, <2>3 DEF ClaimCommit, IInv, TypeOK
        <2>6. QED
            BY <2>4, <2>5 DEF ClaimCommit, IInv, TypeOK, WorkerStates, outside
    <1>2. FreshInv'
        BY ConstantsAssumption, NullAssumption
        DEF IInv, TypeOK, HoldInv, FreshInv, Holding, Unborn,
            ClaimCommit, table, local, outside
    <1>3. HoldInv'
        <2>1. /\ pc[p] = "claiming" /\ job[p] \in Ids
              /\ exec[job[p]] \in Rows /\ exec[job[p]].status = "queued"
            BY Held DEF ClaimCommit, IInv, Holding
        <2>2. exec' = [exec EXCEPT ![job[p]] = Claim(exec[job[p]])]
            BY DEF ClaimCommit
        <2>3. /\ Claim(exec[job[p]]) \in Rows
              /\ Claim(exec[job[p]]).status = "running"
              /\ Claim(exec[job[p]]) # NULL
              /\ Validate(Claim(exec[job[p]]))
            BY <2>1, ClaimIsRow, RowAssumption
        <2>4. \A q \in Replicas \ {p} : job[q] # NULL =>
                  /\ job[q] # job[p]
                  /\ StatusIs(job[q], "queued")' = StatusIs(job[q], "queued")
            BY <2>1, <2>2 DEF ClaimCommit, IInv, TypeOK, HoldInv, StatusIs, Exists
        <2>5. ~StatusIs(job[p], "queued")' /\ record'[p] # NULL
            BY <2>1, <2>2, <2>3 DEF ClaimCommit, IInv, TypeOK, StatusIs, Exists
        <2>6. QED
            BY <2>1, <2>4, <2>5
            DEF ClaimCommit, IInv, TypeOK, HoldInv, Holding, Finalizing
    <1>4. RanInv'
        BY ConstantsAssumption, NullAssumption
        DEF IInv, TypeOK, RanInv, HoldInv, FreshInv, Holding, NeverRerun, StatusIs, Exists,
            ClaimCommit, table, local, outside
    <1>5. RowsReadable'
        <2>1. /\ pc[p] = "claiming" /\ job[p] \in Ids
              /\ exec[job[p]] \in Rows /\ exec[job[p]].status = "queued"
            BY Held DEF ClaimCommit, IInv, Holding
        <2>2. exec' = [exec EXCEPT ![job[p]] = Claim(exec[job[p]])]
            BY DEF ClaimCommit
        <2>3. /\ Claim(exec[job[p]]) \in Rows
              /\ Claim(exec[job[p]]).status = "running"
              /\ Claim(exec[job[p]]) # NULL
              /\ Validate(Claim(exec[job[p]]))
            BY <2>1, ClaimIsRow, RowAssumption
        <2>4. QED
            BY <2>1, <2>2, <2>3 DEF IInv, TypeOK, RowsReadable, Exists
    <1>6. QED
        BY <1>1, <1>2, <1>3, <1>4, <1>5 DEF IInv

\* A refused claim preserves it.
LEMMA ClaimRefusedInv ==
    ASSUME IInv, NEW p \in Replicas, ClaimRefused(p)
    PROVE  IInv'
    <1>1. TypeOK'
        BY ConstantsAssumption, NullAssumption
        DEF IInv, TypeOK, HoldInv, FreshInv, Holding, Phases, WorkerStates,
            ClaimRefused, ExitWorker, Forget, ForgetJob, table, local, outside
    <1>2. FreshInv'
        BY ConstantsAssumption, NullAssumption
        DEF IInv, TypeOK, HoldInv, FreshInv, Holding, Unborn,
            ClaimRefused, ExitWorker, Forget, ForgetJob, table, local, outside
    <1>3. HoldInv'
        BY ConstantsAssumption, NullAssumption
        DEF IInv, TypeOK, HoldInv, FreshInv, Holding, Finalizing, StatusIs, Exists,
            ClaimRefused, ExitWorker, Forget, ForgetJob, table, local, outside
    <1>4. RanInv'
        BY ConstantsAssumption, NullAssumption
        DEF IInv, TypeOK, RanInv, HoldInv, FreshInv, Holding, NeverRerun, StatusIs, Exists,
            ClaimRefused, ExitWorker, Forget, ForgetJob, table, local, outside
    <1>5. RowsReadable'
        BY ConstantsAssumption, NullAssumption
        DEF IInv, TypeOK, HoldInv, FreshInv, RowsReadable, Exists, StatusIs, Holding,
            ClaimRefused, ExitWorker, Forget, ForgetJob, table, local, outside
    <1>6. QED
        BY <1>1, <1>2, <1>3, <1>4, <1>5 DEF IInv

\* ClaimError preserves it.
LEMMA ClaimErrorInv ==
    ASSUME IInv, NEW p \in Replicas, ClaimError(p)
    PROVE  IInv'
    <1>1. TypeOK'
        BY InterruptedBound
        DEF ClaimError, ExitWorker, Forget, ForgetJob, IInv, TypeOK, Phases,
            WorkerStates, table, outside
    <1>2. FreshInv'
        BY ConstantsAssumption, NullAssumption
        DEF IInv, TypeOK, HoldInv, FreshInv, Holding, Unborn,
            ClaimError, Interrupted, Fault, ExitWorker, Forget, ForgetJob, table, local, outside
    <1>3. HoldInv'
        BY ConstantsAssumption, NullAssumption
        DEF IInv, TypeOK, HoldInv, FreshInv, Holding, Finalizing, StatusIs, Exists,
            ClaimError, Interrupted, Fault, ExitWorker, Forget, ForgetJob, table, local, outside
    <1>4. RanInv'
        BY ConstantsAssumption, NullAssumption
        DEF IInv, TypeOK, RanInv, HoldInv, FreshInv, Holding, NeverRerun, StatusIs, Exists,
            ClaimError, Interrupted, Fault, ExitWorker, Forget, ForgetJob, table, local, outside
    <1>5. RowsReadable'
        BY ConstantsAssumption, NullAssumption
        DEF IInv, TypeOK, HoldInv, FreshInv, RowsReadable, Exists, StatusIs, Holding,
            ClaimError, Interrupted, Fault, ExitWorker, Forget, ForgetJob, table, local, outside
    <1>6. QED
        BY <1>1, <1>2, <1>3, <1>4, <1>5 DEF IInv

\* ClaimLost preserves it.
LEMMA ClaimLostInv ==
    ASSUME IInv, NEW p \in Replicas, ClaimLost(p)
    PROVE  IInv'
    <1>1. TypeOK'
        <2>1. /\ pc[p] = "claiming" /\ job[p] \in Ids
              /\ exec[job[p]] \in Rows /\ exec[job[p]].status = "queued"
            BY Held DEF ClaimLost, IInv, Holding
        <2>2. exec' = [exec EXCEPT ![job[p]] = Claim(exec[job[p]])]
            BY DEF ClaimLost
        <2>3. /\ Claim(exec[job[p]]) \in Rows
              /\ Claim(exec[job[p]]).status = "running"
              /\ Claim(exec[job[p]]) # NULL
              /\ Validate(Claim(exec[job[p]]))
            BY <2>1, ClaimIsRow, RowAssumption
        <2>4. later' \in [Replicas -> SUBSET Ids]
            BY <2>1, OvertakeTyped, Cleared DEF ClaimLost, IInv, TypeOK
        <2>5. QED
            BY <2>1, <2>2, <2>3, <2>4, InterruptedBound, SMTT(60)
            DEF ClaimLost, ExitWorker, ForgetJob, IInv, TypeOK, Phases, WorkerStates, outside
    <1>2. FreshInv'
        BY ConstantsAssumption, NullAssumption
        DEF IInv, TypeOK, HoldInv, FreshInv, Holding, Unborn,
            ClaimLost, Interrupted, Fault, ExitWorker, ForgetJob, table, local, outside
    <1>3. HoldInv'
        <2>1. /\ pc[p] = "claiming" /\ job[p] \in Ids
              /\ exec[job[p]] \in Rows /\ exec[job[p]].status = "queued"
            BY Held DEF ClaimLost, IInv, Holding
        <2>2. exec' = [exec EXCEPT ![job[p]] = Claim(exec[job[p]])]
            BY DEF ClaimLost
        <2>3. /\ Claim(exec[job[p]]) \in Rows
              /\ Claim(exec[job[p]]).status = "running"
              /\ Claim(exec[job[p]]) # NULL
              /\ Validate(Claim(exec[job[p]]))
            BY <2>1, ClaimIsRow, RowAssumption
        <2>4. \A q \in Replicas \ {p} : job[q] # NULL =>
                  /\ job[q] # job[p]
                  /\ StatusIs(job[q], "queued")' = StatusIs(job[q], "queued")
            BY <2>1, <2>2 DEF ClaimLost, Forget, ForgetJob, IInv, TypeOK, HoldInv, StatusIs, Exists
        <2>5. QED
            BY <2>1, <2>4
            DEF ClaimLost, ExitWorker, Forget, ForgetJob, IInv, TypeOK, HoldInv, Holding, Finalizing
    <1>4. RanInv'
        BY ConstantsAssumption, NullAssumption, SMTT(60)
        DEF IInv, TypeOK, RanInv, HoldInv, FreshInv, Holding, NeverRerun, StatusIs, Exists,
            ClaimLost, Interrupted, Fault, ExitWorker, ForgetJob, table, local, outside
    <1>5. RowsReadable'
        <2>1. /\ pc[p] = "claiming" /\ job[p] \in Ids
              /\ exec[job[p]] \in Rows /\ exec[job[p]].status = "queued"
            BY Held DEF ClaimLost, IInv, Holding
        <2>2. exec' = [exec EXCEPT ![job[p]] = Claim(exec[job[p]])]
            BY DEF ClaimLost
        <2>3. /\ Claim(exec[job[p]]) \in Rows
              /\ Claim(exec[job[p]]).status = "running"
              /\ Claim(exec[job[p]]) # NULL
              /\ Validate(Claim(exec[job[p]]))
            BY <2>1, ClaimIsRow, RowAssumption
        <2>4. QED
            BY <2>1, <2>2, <2>3 DEF IInv, TypeOK, RowsReadable, Exists
    <1>6. QED
        BY <1>1, <1>2, <1>3, <1>4, <1>5 DEF IInv

\* PrepareFails preserves it.
LEMMA PrepareFailsInv ==
    ASSUME IInv, NEW p \in Replicas, PrepareFails(p)
    PROVE  IInv'
    <1>1. TypeOK'
        BY ConstantsAssumption, NullAssumption
        DEF IInv, TypeOK, HoldInv, FreshInv, Holding, Phases, WorkerStates,
            PrepareFails, table, local, outside
    <1>2. FreshInv'
        BY ConstantsAssumption, NullAssumption
        DEF IInv, TypeOK, HoldInv, FreshInv, Holding, Unborn,
            PrepareFails, table, local, outside
    <1>3. HoldInv'
        BY ConstantsAssumption, NullAssumption
        DEF IInv, TypeOK, HoldInv, FreshInv, Holding, Finalizing, StatusIs, Exists,
            PrepareFails, table, local, outside
    <1>4. RanInv'
        BY ConstantsAssumption, NullAssumption
        DEF IInv, TypeOK, RanInv, HoldInv, FreshInv, Holding, NeverRerun, StatusIs, Exists,
            PrepareFails, table, local, outside
    <1>5. RowsReadable'
        BY ConstantsAssumption, NullAssumption
        DEF IInv, TypeOK, HoldInv, FreshInv, RowsReadable, Exists, StatusIs, Holding,
            PrepareFails, table, local, outside
    <1>6. QED
        BY <1>1, <1>2, <1>3, <1>4, <1>5 DEF IInv

\* StartHandler preserves it.
LEMMA StartHandlerInv ==
    ASSUME IInv, NEW p \in Replicas, StartHandler(p)
    PROVE  IInv'
    <1>1. TypeOK'
        <2>1. job[p] \in Ids
            BY Held DEF StartHandler, IInv, Holding
        <2>2. token' \in [Ids -> {"none", "live", "unrevoked"}]
            BY <2>1 DEF StartHandler, IInv, TypeOK
        <2>3. ran' \in [Ids -> Nat]
            BY <2>1 DEF StartHandler, IInv, TypeOK
        <2>4. QED
            BY <2>2, <2>3 DEF StartHandler, IInv, TypeOK, WorkerStates, table, local
    <1>2. FreshInv'
        BY ConstantsAssumption, NullAssumption, SMTT(60)
        DEF IInv, TypeOK, HoldInv, FreshInv, Holding, Unborn,
            StartHandler, table, local, outside
    <1>3. HoldInv'
        BY ConstantsAssumption, NullAssumption
        DEF IInv, TypeOK, HoldInv, FreshInv, Holding, Finalizing, StatusIs, Exists,
            StartHandler, table, local, outside
    <1>4. RanInv'
        BY ConstantsAssumption, NullAssumption
        DEF IInv, TypeOK, RanInv, HoldInv, FreshInv, Holding, NeverRerun, StatusIs, Exists,
            StartHandler, table, local, outside
    <1>5. RowsReadable'
        BY ConstantsAssumption, NullAssumption
        DEF IInv, TypeOK, HoldInv, FreshInv, RowsReadable, Exists, StatusIs, Holding,
            StartHandler, table, local, outside
    <1>6. QED
        BY <1>1, <1>2, <1>3, <1>4, <1>5 DEF IInv

\* HandlerPrints preserves it.
LEMMA HandlerPrintsInv ==
    ASSUME IInv, NEW p \in Replicas, HandlerPrints(p)
    PROVE  IInv'
    <1>1. TypeOK'
        <2>1. job[p] \in Ids
            BY Held DEF HandlerPrints, IInv, Holding
        <2>2. printed' \in [Ids -> 0 .. MaxPrint]
            BY <2>1, ConstantsAssumption DEF HandlerPrints, IInv, TypeOK
        <2>3. QED
            BY <2>2 DEF HandlerPrints, IInv, TypeOK, table
    <1>2. FreshInv'
        BY ConstantsAssumption, NullAssumption, SMTT(60)
        DEF IInv, TypeOK, HoldInv, FreshInv, Holding, Unborn,
            HandlerPrints, table, local, outside
    <1>3. HoldInv'
        BY ConstantsAssumption, NullAssumption
        DEF IInv, TypeOK, HoldInv, FreshInv, Holding, Finalizing, StatusIs, Exists,
            HandlerPrints, table, local, outside
    <1>4. RanInv'
        BY ConstantsAssumption, NullAssumption
        DEF IInv, TypeOK, RanInv, HoldInv, FreshInv, Holding, NeverRerun, StatusIs, Exists,
            HandlerPrints, table, local, outside
    <1>5. RowsReadable'
        BY ConstantsAssumption, NullAssumption
        DEF IInv, TypeOK, HoldInv, FreshInv, RowsReadable, Exists, StatusIs, Holding,
            HandlerPrints, table, local, outside
    <1>6. QED
        BY <1>1, <1>2, <1>3, <1>4, <1>5 DEF IInv

\* FlushTake preserves it.
LEMMA FlushTakeInv ==
    ASSUME IInv, NEW p \in Replicas, FlushTake(p)
    PROVE  IInv'
    <1>1. TypeOK'
        BY ConstantsAssumption, NullAssumption, ZenonT(60)
        DEF IInv, TypeOK, HoldInv, FreshInv, Holding, Phases, WorkerStates,
            FlushTake, table, local, outside
    <1>2. FreshInv'
        BY ConstantsAssumption, NullAssumption
        DEF IInv, TypeOK, HoldInv, FreshInv, Holding, Unborn,
            FlushTake, table, local, outside
    <1>3. HoldInv'
        BY ConstantsAssumption, NullAssumption
        DEF IInv, TypeOK, HoldInv, FreshInv, Holding, Finalizing, StatusIs, Exists,
            FlushTake, table, local, outside
    <1>4. RanInv'
        BY ConstantsAssumption, NullAssumption
        DEF IInv, TypeOK, RanInv, HoldInv, FreshInv, Holding, NeverRerun, StatusIs, Exists,
            FlushTake, table, local, outside
    <1>5. RowsReadable'
        BY ConstantsAssumption, NullAssumption
        DEF IInv, TypeOK, HoldInv, FreshInv, RowsReadable, Exists, StatusIs, Holding,
            FlushTake, table, local, outside
    <1>6. QED
        BY <1>1, <1>2, <1>3, <1>4, <1>5 DEF IInv

\* FlushSave preserves it.
LEMMA FlushSaveInv ==
    ASSUME IInv, NEW p \in Replicas, FlushSave(p)
    PROVE  IInv'
    <1>1. TypeOK'
        <2>1. job[p] \in Ids /\ flushing[p] \in 0 .. MaxPrint
            BY Held, SMTT(60) DEF FlushSave, IInv, TypeOK, HoldInv, Holding
        <2>2. exec' = SaveLogs(job[p], flushing[p])
            BY DEF FlushSave
        <2>3. exec' \in [Ids -> Rows \union {NULL}]
            BY <2>1, <2>2, SaveLogsKeeps DEF IInv
        <2>4. QED
            BY <2>3 DEF FlushSave, IInv, TypeOK, table, local, outside
    <1>2. FreshInv'
        <2>1. job[p] \in Ids /\ flushing[p] \in 0 .. MaxPrint
            BY Held, SMTT(60) DEF FlushSave, IInv, TypeOK, HoldInv, Holding
        <2>2. exec' = SaveLogs(job[p], flushing[p])
            BY DEF FlushSave
        <2>3. \A i \in Ids : exec[i] = NULL => exec'[i] = NULL
            BY <2>1, <2>2, SaveLogsKeeps DEF IInv
        <2>4. QED
            BY <2>3 DEF FlushSave, IInv, FreshInv, Unborn, local, outside
    <1>3. HoldInv'
        <2>1. job[p] \in Ids /\ flushing[p] \in 0 .. MaxPrint
            BY Held, SMTT(60) DEF FlushSave, IInv, TypeOK, HoldInv, Holding
        <2>2. exec' = SaveLogs(job[p], flushing[p])
            BY DEF FlushSave
        <2>3. \A i \in Ids : StatusIs(i, "queued")' = StatusIs(i, "queued")
            BY <2>1, <2>2, SaveLogsKeeps DEF IInv, StatusIs, Exists
        <2>4. /\ UNCHANGED <<phase, pc, job, record, result>>
              /\ \A q \in Replicas : flushing'[q] # NULL => flushing[q] # NULL
            BY DEF FlushSave, local, IInv, TypeOK
        <2>5. \A q \in Replicas : pc[q] \in Holding => job[q] \in Ids
            BY Held DEF IInv
        <2>6. QED
            BY <2>3, <2>4, <2>5 DEF IInv, HoldInv, Finalizing, Holding
    <1>4. RanInv'
        <2>1. job[p] \in Ids /\ flushing[p] \in 0 .. MaxPrint
            BY Held, SMTT(60) DEF FlushSave, IInv, TypeOK, HoldInv, Holding
        <2>2. exec' = SaveLogs(job[p], flushing[p])
            BY DEF FlushSave
        <2>3. \A i \in Ids : StatusIs(i, "queued")' = StatusIs(i, "queued")
            BY <2>1, <2>2, SaveLogsKeeps DEF IInv, StatusIs, Exists
        <2>4. QED
            BY <2>3 DEF FlushSave, IInv, RanInv, NeverRerun, local, outside
    <1>5. RowsReadable'
        <2>1. job[p] \in Ids /\ flushing[p] \in 0 .. MaxPrint
            BY Held, SMTT(60) DEF FlushSave, IInv, TypeOK, HoldInv, Holding
        <2>2. exec' = SaveLogs(job[p], flushing[p])
            BY DEF FlushSave
        <2>3. QED
            BY <2>1, <2>2, SaveLogsKeeps DEF IInv, RowsReadable, Exists
    <1>6. QED
        BY <1>1, <1>2, <1>3, <1>4, <1>5 DEF IInv

\* A flush the column refuses preserves it.
LEMMA FlushRefusedInv ==
    ASSUME IInv, NEW p \in Replicas, FlushRefused(p)
    PROVE  IInv'
    <1>1. TypeOK'
        BY ConstantsAssumption, NullAssumption
        DEF IInv, TypeOK, HoldInv, FreshInv, Holding, Phases, WorkerStates,
            FlushRefused, table, local, outside
    <1>2. FreshInv'
        BY ConstantsAssumption, NullAssumption
        DEF IInv, TypeOK, HoldInv, FreshInv, Holding, Unborn,
            FlushRefused, table, local, outside
    <1>3. HoldInv'
        BY ConstantsAssumption, NullAssumption
        DEF IInv, TypeOK, HoldInv, FreshInv, Holding, Finalizing, StatusIs, Exists,
            FlushRefused, table, local, outside
    <1>4. RanInv'
        BY ConstantsAssumption, NullAssumption
        DEF IInv, TypeOK, RanInv, HoldInv, FreshInv, Holding, NeverRerun, StatusIs, Exists,
            FlushRefused, table, local, outside
    <1>5. RowsReadable'
        BY ConstantsAssumption, NullAssumption
        DEF IInv, TypeOK, HoldInv, FreshInv, RowsReadable, Exists, StatusIs, Holding,
            FlushRefused, table, local, outside
    <1>6. QED
        BY <1>1, <1>2, <1>3, <1>4, <1>5 DEF IInv

\* FlushError preserves it.
LEMMA FlushErrorInv ==
    ASSUME IInv, NEW p \in Replicas, FlushError(p)
    PROVE  IInv'
    <1>1. TypeOK'
        <2>1. LateOnes(p) \subseteq [id : Ids, logs : 0 .. MaxPrint]
            BY Held, SMTT(60) DEF LateOnes, IInv, TypeOK, HoldInv, Holding
        <2>2. QED
            BY <2>1, InterruptedBound DEF FlushError, IInv, TypeOK, table
    <1>2. FreshInv'
        BY ConstantsAssumption, NullAssumption
        DEF IInv, TypeOK, HoldInv, FreshInv, Holding, Unborn,
            FlushError, Interrupted, Fault, LateOnes, table, local, outside
    <1>3. HoldInv'
        BY ConstantsAssumption, NullAssumption
        DEF IInv, TypeOK, HoldInv, FreshInv, Holding, Finalizing, StatusIs, Exists,
            FlushError, Interrupted, Fault, LateOnes, table, local, outside
    <1>4. RanInv'
        BY ConstantsAssumption, NullAssumption
        DEF IInv, TypeOK, RanInv, HoldInv, FreshInv, Holding, NeverRerun, StatusIs, Exists,
            FlushError, Interrupted, Fault, LateOnes, table, local, outside
    <1>5. RowsReadable'
        BY ConstantsAssumption, NullAssumption
        DEF IInv, TypeOK, HoldInv, FreshInv, RowsReadable, Exists, StatusIs, Holding,
            FlushError, Interrupted, Fault, LateOnes, table, local, outside
    <1>6. QED
        BY <1>1, <1>2, <1>3, <1>4, <1>5 DEF IInv

\* HandlerReturns preserves it.
LEMMA HandlerReturnsInv ==
    ASSUME IInv, NEW p \in Replicas, HandlerReturns(p)
    PROVE  IInv'
    <1>1. TypeOK'
        <2>1. result' \in [Replicas -> {"ok", "unprepared", "failed", NULL}]
            BY DEF HandlerReturns, IInv, TypeOK
        <2>2. QED
            BY <2>1 DEF HandlerReturns, IInv, TypeOK, WorkerStates, table, outside
    <1>2. FreshInv'
        BY ConstantsAssumption, NullAssumption, SMTT(60)
        DEF IInv, TypeOK, HoldInv, FreshInv, Holding, Unborn,
            HandlerReturns, table, local, outside
    <1>3. HoldInv'
        BY ConstantsAssumption, NullAssumption
        DEF IInv, TypeOK, HoldInv, FreshInv, Holding, Finalizing, StatusIs, Exists,
            HandlerReturns, table, local, outside
    <1>4. RanInv'
        BY ConstantsAssumption, NullAssumption
        DEF IInv, TypeOK, RanInv, HoldInv, FreshInv, Holding, NeverRerun, StatusIs, Exists,
            HandlerReturns, table, local, outside
    <1>5. RowsReadable'
        BY ConstantsAssumption, NullAssumption
        DEF IInv, TypeOK, HoldInv, FreshInv, RowsReadable, Exists, StatusIs, Holding,
            HandlerReturns, table, local, outside
    <1>6. QED
        BY <1>1, <1>2, <1>3, <1>4, <1>5 DEF IInv

\* CloseStream preserves it.
LEMMA CloseStreamInv ==
    ASSUME IInv, NEW p \in Replicas, CloseStream(p)
    PROVE  IInv'
    <1>1. TypeOK'
        BY ConstantsAssumption, NullAssumption
        DEF IInv, TypeOK, HoldInv, FreshInv, Holding, Phases, WorkerStates,
            CloseStream, Revoked, table, local, outside
    <1>2. FreshInv'
        BY ConstantsAssumption, NullAssumption
        DEF IInv, TypeOK, HoldInv, FreshInv, Holding, Unborn,
            CloseStream, Revoked, table, local, outside
    <1>3. HoldInv'
        BY ConstantsAssumption, NullAssumption, SMTT(60)
        DEF IInv, TypeOK, HoldInv, FreshInv, Holding, Finalizing, StatusIs, Exists,
            CloseStream, Revoked, table, local, outside
    <1>4. RanInv'
        BY ConstantsAssumption, NullAssumption
        DEF IInv, TypeOK, RanInv, HoldInv, FreshInv, Holding, NeverRerun, StatusIs, Exists,
            CloseStream, Revoked, table, local, outside
    <1>5. RowsReadable'
        BY ConstantsAssumption, NullAssumption
        DEF IInv, TypeOK, HoldInv, FreshInv, RowsReadable, Exists, StatusIs, Holding,
            CloseStream, Revoked, table, local, outside
    <1>6. QED
        BY <1>1, <1>2, <1>3, <1>4, <1>5 DEF IInv

\* CloseStreamUnrevoked preserves it.
LEMMA CloseStreamUnrevokedInv ==
    ASSUME IInv, NEW p \in Replicas, CloseStreamUnrevoked(p)
    PROVE  IInv'
    <1>1. TypeOK'
        <2>1. job[p] \in Ids
            BY Held DEF CloseStreamUnrevoked, IInv, Holding
        <2>2. QED
            BY <2>1, FaultBound DEF CloseStreamUnrevoked, IInv, TypeOK, WorkerStates, table, local
    <1>2. FreshInv'
        BY ConstantsAssumption, NullAssumption
        DEF IInv, TypeOK, HoldInv, FreshInv, Holding, Unborn,
            CloseStreamUnrevoked, Fault, table, local, outside
    <1>3. HoldInv'
        BY ConstantsAssumption, NullAssumption
        DEF IInv, TypeOK, HoldInv, FreshInv, Holding, Finalizing, StatusIs, Exists,
            CloseStreamUnrevoked, Fault, table, local, outside
    <1>4. RanInv'
        BY ConstantsAssumption, NullAssumption
        DEF IInv, TypeOK, RanInv, HoldInv, FreshInv, Holding, NeverRerun, StatusIs, Exists,
            CloseStreamUnrevoked, Fault, table, local, outside
    <1>5. RowsReadable'
        BY ConstantsAssumption, NullAssumption
        DEF IInv, TypeOK, HoldInv, FreshInv, RowsReadable, Exists, StatusIs, Holding,
            CloseStreamUnrevoked, Fault, table, local, outside
    <1>6. QED
        BY <1>1, <1>2, <1>3, <1>4, <1>5 DEF IInv

\* Finish preserves it.
LEMMA FinishInv ==
    ASSUME IInv, NEW p \in Replicas, Finish(p)
    PROVE  IInv'
    <1>1. TypeOK'
        <2>1. pc[p] = "finishing" /\ job[p] \in Ids /\ record[p] \in Rows
            BY Held DEF Finish, IInv, Holding
        <2>2. Capped(printed[job[p]]) \in LogLengths
            BY <2>1, CappedIsLength DEF IInv, TypeOK
        <2>3. Finished(p) \in Rows /\ Finished(p).status \in Terminal
            <3>1. record[p].build \in Builds
                BY <2>1 DEF Rows
            <3>2. CASE result[p] = "ok"
                BY <2>1, <2>2, <3>1, <3>2, SucceedIsRow DEF Finished, Terminal
            <3>3. CASE result[p] # "ok"
                <4>1. result[p] \in FailureCodes
                    BY <2>1, <3>3 DEF IInv, TypeOK, HoldInv, FailureCodes
                <4>2. QED
                    BY <2>1, <2>2, <3>3, <4>1, FailIsRow DEF Finished, Terminal
            <3>4. QED
                BY <3>2, <3>3
        <2>4. QED
            BY <2>3 DEF Finish, IInv, TypeOK, WorkerStates, table, outside
    <1>2. FreshInv'
        BY ConstantsAssumption, NullAssumption, SMTT(60)
        DEF IInv, TypeOK, HoldInv, FreshInv, Holding, Unborn,
            Finish, table, local, outside
    <1>3. HoldInv'
        <2>1. pc[p] = "finishing" /\ job[p] \in Ids /\ record[p] \in Rows
            BY Held DEF Finish, IInv, Holding
        <2>2. Capped(printed[job[p]]) \in LogLengths
            BY <2>1, CappedIsLength DEF IInv, TypeOK
        <2>3. Finished(p) \in Rows /\ Finished(p).status \in Terminal
            <3>1. record[p].build \in Builds
                BY <2>1 DEF Rows
            <3>2. CASE result[p] = "ok"
                BY <2>1, <2>2, <3>1, <3>2, SucceedIsRow DEF Finished, Terminal
            <3>3. CASE result[p] # "ok"
                <4>1. result[p] \in FailureCodes
                    BY <2>1, <3>3 DEF IInv, TypeOK, HoldInv, FailureCodes
                <4>2. QED
                    BY <2>1, <2>2, <3>3, <4>1, FailIsRow DEF Finished, Terminal
            <3>4. QED
                BY <3>2, <3>3
        <2>4. Validate(Finished(p)) /\ Finished(p) # NULL
            BY <2>3, RowAssumption DEF Finish
        <2>5. record' = [record EXCEPT ![p] = Finished(p)]
            BY DEF Finish
        <2>6. QED
            BY <2>1, <2>3, <2>4, <2>5
            DEF Finish, IInv, TypeOK, HoldInv, Holding, Finalizing, StatusIs, Exists, table
    <1>4. RanInv'
        BY ConstantsAssumption, NullAssumption
        DEF IInv, TypeOK, RanInv, HoldInv, FreshInv, Holding, NeverRerun, StatusIs, Exists,
            Finish, table, local, outside
    <1>5. RowsReadable'
        BY ConstantsAssumption, NullAssumption
        DEF IInv, TypeOK, HoldInv, FreshInv, RowsReadable, Exists, StatusIs, Holding,
            Finish, table, local, outside
    <1>6. QED
        BY <1>1, <1>2, <1>3, <1>4, <1>5 DEF IInv

\* FinishInvalid preserves it.
LEMMA FinishInvalidInv ==
    ASSUME IInv, NEW p \in Replicas, FinishInvalid(p)
    PROVE  IInv'
    <1>1. TypeOK'
        BY ConstantsAssumption, NullAssumption
        DEF IInv, TypeOK, HoldInv, FreshInv, Holding, Phases, WorkerStates,
            FinishInvalid, ExitWorker, Forget, ForgetJob, table, local, outside
    <1>2. FreshInv'
        BY ConstantsAssumption, NullAssumption
        DEF IInv, TypeOK, HoldInv, FreshInv, Holding, Unborn,
            FinishInvalid, ExitWorker, Forget, ForgetJob, table, local, outside
    <1>3. HoldInv'
        BY ConstantsAssumption, NullAssumption
        DEF IInv, TypeOK, HoldInv, FreshInv, Holding, Finalizing, StatusIs, Exists,
            FinishInvalid, ExitWorker, Forget, ForgetJob, table, local, outside
    <1>4. RanInv'
        BY ConstantsAssumption, NullAssumption
        DEF IInv, TypeOK, RanInv, HoldInv, FreshInv, Holding, NeverRerun, StatusIs, Exists,
            FinishInvalid, ExitWorker, Forget, ForgetJob, table, local, outside
    <1>5. RowsReadable'
        BY ConstantsAssumption, NullAssumption
        DEF IInv, TypeOK, HoldInv, FreshInv, RowsReadable, Exists, StatusIs, Holding,
            FinishInvalid, ExitWorker, Forget, ForgetJob, table, local, outside
    <1>6. QED
        BY <1>1, <1>2, <1>3, <1>4, <1>5 DEF IInv

\* Finalize preserves it.
LEMMA FinalizeInv ==
    ASSUME IInv, NEW p \in Replicas, Finalize(p)
    PROVE  IInv'
    <1>1. TypeOK'
        <2>1. /\ Finalizing(p) /\ job[p] \in Ids /\ record[p] \in Rows
              /\ record[p].status \in Terminal /\ Validate(record[p])
            BY Held DEF Finalize, Finalizing, IInv, TypeOK, HoldInv, Holding
        <2>2. exec' = [exec EXCEPT ![job[p]] = record[p]]
            BY DEF Finalize
        <2>3. QED
            BY <2>1, <2>2
            DEF Finalize, Forget, ForgetJob, IInv, TypeOK, Phases, WorkerStates, outside
    <1>2. FreshInv'
        BY ConstantsAssumption, NullAssumption, SMTT(60)
        DEF IInv, TypeOK, HoldInv, FreshInv, Holding, Unborn,
            Finalize, Forget, ForgetJob, Finalizable, ValidateTransitionTo, table, local, outside
    <1>3. HoldInv'
        BY ConstantsAssumption, NullAssumption
        DEF IInv, TypeOK, HoldInv, FreshInv, Holding, Finalizing, StatusIs, Exists,
            Finalize, Forget, ForgetJob, Finalizable, ValidateTransitionTo, table, local, outside
    <1>4. RanInv'
        <2>1. /\ Finalizing(p) /\ job[p] \in Ids /\ record[p] \in Rows
              /\ record[p].status \in Terminal /\ Validate(record[p])
            BY Held DEF Finalize, Finalizing, IInv, TypeOK, HoldInv, Holding
        <2>2. exec' = [exec EXCEPT ![job[p]] = record[p]]
            BY DEF Finalize
        <2>3. \A id \in Ids : StatusIs(id, "queued")' => StatusIs(id, "queued")
            BY <2>1, <2>2 DEF Terminal, StatusIs, Exists, IInv, TypeOK
        <2>4. QED
            BY <2>3 DEF Finalize, Forget, ForgetJob, IInv, TypeOK, RanInv, NeverRerun, outside
    <1>5. RowsReadable'
        <2>1. /\ Finalizing(p) /\ job[p] \in Ids /\ record[p] \in Rows
              /\ record[p].status \in Terminal /\ Validate(record[p])
            BY Held DEF Finalize, Finalizing, IInv, TypeOK, HoldInv, Holding
        <2>2. exec' = [exec EXCEPT ![job[p]] = record[p]]
            BY DEF Finalize
        <2>3. QED
            BY <2>1, <2>2 DEF IInv, TypeOK, RowsReadable, Exists
    <1>6. QED
        BY <1>1, <1>2, <1>3, <1>4, <1>5 DEF IInv

\* FinalizeConflict preserves it.
LEMMA FinalizeConflictInv ==
    ASSUME IInv, NEW p \in Replicas, FinalizeConflict(p)
    PROVE  IInv'
    <1>1. TypeOK'
        BY ConstantsAssumption, NullAssumption
        DEF IInv, TypeOK, HoldInv, FreshInv, Holding, Phases, WorkerStates,
            FinalizeConflict, ExitWorker, Forget, ForgetJob, table, local, outside
    <1>2. FreshInv'
        BY ConstantsAssumption, NullAssumption
        DEF IInv, TypeOK, HoldInv, FreshInv, Holding, Unborn,
            FinalizeConflict, ExitWorker, Forget, ForgetJob, table, local, outside
    <1>3. HoldInv'
        BY ConstantsAssumption, NullAssumption, SMTT(60)
        DEF IInv, TypeOK, HoldInv, FreshInv, Holding, Finalizing, StatusIs, Exists,
            FinalizeConflict, ExitWorker, Forget, ForgetJob, table, local, outside
    <1>4. RanInv'
        BY ConstantsAssumption, NullAssumption
        DEF IInv, TypeOK, RanInv, HoldInv, FreshInv, Holding, NeverRerun, StatusIs, Exists,
            FinalizeConflict, ExitWorker, Forget, ForgetJob, table, local, outside
    <1>5. RowsReadable'
        BY ConstantsAssumption, NullAssumption
        DEF IInv, TypeOK, HoldInv, FreshInv, RowsReadable, Exists, StatusIs, Holding,
            FinalizeConflict, ExitWorker, Forget, ForgetJob, table, local, outside
    <1>6. QED
        BY <1>1, <1>2, <1>3, <1>4, <1>5 DEF IInv

\* A final write the columns refuse preserves it.
LEMMA FinalizeRefusedInv ==
    ASSUME IInv, NEW p \in Replicas, FinalizeRefused(p)
    PROVE  IInv'
    <1>1. TypeOK'
        BY ConstantsAssumption, NullAssumption
        DEF IInv, TypeOK, HoldInv, FreshInv, Holding, Phases, WorkerStates,
            FinalizeRefused, ExitWorker, Forget, ForgetJob, table, local, outside
    <1>2. FreshInv'
        BY ConstantsAssumption, NullAssumption
        DEF IInv, TypeOK, HoldInv, FreshInv, Holding, Unborn,
            FinalizeRefused, ExitWorker, Forget, ForgetJob, table, local, outside
    <1>3. HoldInv'
        BY ConstantsAssumption, NullAssumption
        DEF IInv, TypeOK, HoldInv, FreshInv, Holding, Finalizing, StatusIs, Exists,
            FinalizeRefused, ExitWorker, Forget, ForgetJob, table, local, outside
    <1>4. RanInv'
        BY ConstantsAssumption, NullAssumption
        DEF IInv, TypeOK, RanInv, HoldInv, FreshInv, Holding, NeverRerun, StatusIs, Exists,
            FinalizeRefused, ExitWorker, Forget, ForgetJob, table, local, outside
    <1>5. RowsReadable'
        BY ConstantsAssumption, NullAssumption
        DEF IInv, TypeOK, HoldInv, FreshInv, RowsReadable, Exists, StatusIs, Holding,
            FinalizeRefused, ExitWorker, Forget, ForgetJob, table, local, outside
    <1>6. QED
        BY <1>1, <1>2, <1>3, <1>4, <1>5 DEF IInv

\* FinalizeError preserves it.
LEMMA FinalizeErrorInv ==
    ASSUME IInv, NEW p \in Replicas, FinalizeError(p)
    PROVE  IInv'
    <1>1. TypeOK'
        BY FinalizeInterruptedBound
        DEF FinalizeError, ExitWorker, Forget, ForgetJob, IInv, TypeOK, Phases,
            WorkerStates, table, outside
    <1>2. FreshInv'
        BY ConstantsAssumption, NullAssumption
        DEF IInv, TypeOK, HoldInv, FreshInv, Holding, Unborn,
            FinalizeError, FinalizeInterrupted, Interrupted, Fault, ExitWorker, Forget,
            ForgetJob, table, local, outside
    <1>3. HoldInv'
        BY ConstantsAssumption, NullAssumption, SMTT(60)
        DEF IInv, TypeOK, HoldInv, FreshInv, Holding, Finalizing, StatusIs, Exists,
            FinalizeError, FinalizeInterrupted, Interrupted, Fault, ExitWorker, Forget,
            ForgetJob, table, local, outside
    <1>4. RanInv'
        BY ConstantsAssumption, NullAssumption
        DEF IInv, TypeOK, RanInv, HoldInv, FreshInv, Holding, NeverRerun, StatusIs, Exists,
            FinalizeError, FinalizeInterrupted, Interrupted, Fault, ExitWorker, Forget,
            ForgetJob, table, local, outside
    <1>5. RowsReadable'
        BY ConstantsAssumption, NullAssumption
        DEF IInv, TypeOK, HoldInv, FreshInv, RowsReadable, Exists, StatusIs, Holding,
            FinalizeError, FinalizeInterrupted, Interrupted, Fault, ExitWorker, Forget,
            ForgetJob, table, local, outside
    <1>6. QED
        BY <1>1, <1>2, <1>3, <1>4, <1>5 DEF IInv

\* FinalizeLost preserves it.
LEMMA FinalizeLostInv ==
    ASSUME IInv, NEW p \in Replicas, FinalizeLost(p)
    PROVE  IInv'
    <1>1. TypeOK'
        <2>1. /\ Finalizing(p) /\ job[p] \in Ids /\ record[p] \in Rows
              /\ record[p].status \in Terminal /\ Validate(record[p])
            BY Held, FinalizeInterruptedBound DEF FinalizeLost, Finalizing, IInv, TypeOK, HoldInv, Holding
        <2>2. exec' = [exec EXCEPT ![job[p]] = record[p]]
            BY DEF FinalizeLost
        <2>3. QED
            BY <2>1, <2>2, FinalizeInterruptedBound
            DEF FinalizeLost, ExitWorker, Forget, ForgetJob, IInv, TypeOK, Phases,
                WorkerStates, outside
    <1>2. FreshInv'
        BY ConstantsAssumption, NullAssumption, SMTT(60)
        DEF IInv, TypeOK, HoldInv, FreshInv, Holding, Unborn,
            FinalizeLost, FinalizeInterrupted, Interrupted, Fault, ExitWorker, Forget,
            ForgetJob, Finalizable, ValidateTransitionTo, table, local, outside
    <1>3. HoldInv'
        BY ConstantsAssumption, NullAssumption
        DEF IInv, TypeOK, HoldInv, FreshInv, Holding, Finalizing, StatusIs, Exists,
            FinalizeLost, FinalizeInterrupted, Interrupted, Fault, ExitWorker, Forget,
            ForgetJob, Finalizable, ValidateTransitionTo, table, local, outside
    <1>4. RanInv'
        <2>1. /\ Finalizing(p) /\ job[p] \in Ids /\ record[p] \in Rows
              /\ record[p].status \in Terminal /\ Validate(record[p])
            BY Held, FinalizeInterruptedBound DEF FinalizeLost, Finalizing, IInv, TypeOK, HoldInv, Holding
        <2>2. exec' = [exec EXCEPT ![job[p]] = record[p]]
            BY DEF FinalizeLost
        <2>3. \A id \in Ids : StatusIs(id, "queued")' => StatusIs(id, "queued")
            BY <2>1, <2>2 DEF Terminal, StatusIs, Exists, IInv, TypeOK
        <2>4. QED
            BY <2>3 DEF FinalizeLost, ExitWorker, Forget, ForgetJob, IInv, TypeOK,
                RanInv, NeverRerun, outside
    <1>5. RowsReadable'
        <2>1. /\ Finalizing(p) /\ job[p] \in Ids /\ record[p] \in Rows
              /\ record[p].status \in Terminal /\ Validate(record[p])
            BY Held, FinalizeInterruptedBound DEF FinalizeLost, Finalizing, IInv, TypeOK, HoldInv, Holding
        <2>2. exec' = [exec EXCEPT ![job[p]] = record[p]]
            BY DEF FinalizeLost
        <2>3. QED
            BY <2>1, <2>2 DEF IInv, TypeOK, RowsReadable, Exists
    <1>6. QED
        BY <1>1, <1>2, <1>3, <1>4, <1>5 DEF IInv

-----------------------------------------------------------------------------
(* The invariant holds initially and along every step. *)

\* The empty table with every process down satisfies the invariant.
LEMMA InitInv == Init => IInv
    <1> SUFFICES ASSUME Init PROVE IInv
        OBVIOUS
    <1>1. TypeOK
        BY ConstantsAssumption DEF Init, TypeOK, Phases, WorkerStates
    <1>2. FreshInv
        BY NullAssumption DEF Init, FreshInv
    <1>3. HoldInv
        BY DEF Init, HoldInv, Holding, Finalizing
    <1>4. RanInv
        BY DEF Init, RanInv, NeverRerun, StatusIs, Exists
    <1>5. RowsReadable
        BY DEF Init, RowsReadable, Exists
    <1>6. QED
        BY <1>1, <1>2, <1>3, <1>4, <1>5 DEF IInv

\* A step in which nothing changes keeps the invariant.
LEMMA StutterInv == IInv /\ UNCHANGED vars => IInv'
    BY DEF IInv, TypeOK, FreshInv, Unborn, HoldInv, Holding, Finalizing, RanInv,
           NeverRerun, RowsReadable, StatusIs, Exists, vars

\* Every step of a worker keeps the invariant.
LEMMA WorkerStepInv ==
    ASSUME IInv, NEW p \in Replicas, WorkerStep(p)
    PROVE  IInv'
    BY BootInv, RecoverInv, StopIdleInv, ExitProcessInv, ClaimSelectInv,
       ClaimCommitInv, PrepareFailsInv, StartHandlerInv, FlushSaveInv,
       HandlerReturnsInv, CloseStreamInv, FinishInv, FinishInvalidInv,
       FinalizeInv, FinalizeConflictInv, PollInv, ClaimRefusedInv, FlushRefusedInv,
       FinalizeRefusedInv, RecoverRefusedInv
    DEF WorkerStep

\* Every fault keeps the invariant.
LEMMA FaultStepInv ==
    ASSUME IInv, NEW p \in Replicas, FaultStep(p)
    PROVE  IInv'
    BY StopInv, CrashInv, RecoverErrorInv, ClaimErrorInv, ClaimLostInv,
       FlushErrorInv, CloseStreamUnrevokedInv, FinalizeErrorInv, FinalizeLostInv
    DEF FaultStep

\* Every step of the system keeps the invariant.
LEMMA NextInv == IInv /\ [Next]_vars => IInv'
    <1> SUFFICES ASSUME IInv, [Next]_vars PROVE IInv'
        OBVIOUS
    <1>1. CASE \E b \in Builds : CreateResolve(b)
        BY <1>1, CreateResolveInv
    <1>2. CASE \E id \in Ids : RerunResolve(id)
        BY <1>2, RerunResolveInv
    <1>3. CASE \E req \in pending : Insert(req) \/ Refuse(req)
        BY <1>3, InsertInv, RefuseInv
    <1>4. CASE \E a \in Apps : DeleteApp(a)
        BY <1>4, DeleteAppInv
    <1>5. CASE \E p \in Replicas : WorkerStep(p) \/ FaultStep(p)
        BY <1>5, WorkerStepInv, FaultStepInv
    <1>6. CASE \E p \in Replicas : HandlerPrints(p) \/ FlushTake(p)
        BY <1>6, HandlerPrintsInv, FlushTakeInv
    <1>7. CASE \E stmt \in late : LateFlush(stmt)
        BY <1>7, LateFlushInv
    <1>8. CASE \E id \in Ids : TokenExpires(id)
        BY <1>8, TokenExpiresInv
    <1>9. CASE UNCHANGED vars
        BY <1>9, StutterInv
    <1>10. QED
        BY <1>1, <1>2, <1>3, <1>4, <1>5, <1>6, <1>7, <1>8, <1>9 DEF Next

\* The inductive invariant holds in every reachable state, for any number of
\* replicas, executions, builds and faults.
THEOREM InvariantHolds == Spec => []IInv
    BY InitInv, NextInv, PTL DEF Spec

\* Every variable keeps its type, for every value of the constants.
THEOREM TypeCorrect == Spec => []TypeOK
    <1>1. IInv => TypeOK
        BY DEF IInv
    <1>2. QED
        BY <1>1, InvariantHolds, PTL

\* However many replicas claim, crash, recover and delete concurrently, no
\* handler is started twice for one execution, and none for a queued one.
THEOREM HandlersRunOnce == Spec => []NeverRerun
    <1>1. IInv => NeverRerun
        BY DEF IInv, RanInv
    <1>2. QED
        BY <1>1, InvariantHolds, PTL

\* Every row any of the writers leaves in the table passes the check every
\* reader applies to it, so no read of the table ever fails on its contents.
THEOREM TableReadable == Spec => []RowsReadable
    <1>1. IInv => RowsReadable
        BY DEF IInv
    <1>2. QED
        BY <1>1, InvariantHolds, PTL

-----------------------------------------------------------------------------
(* The table implements the lifecycle the caller is promised. *)

\* What one step may do to one row.
Quiet(id) == exec'[id] = exec[id] /\ (Unborn(id)' => Unborn(id))

Accepted(id) ==
    /\ exec[id] = NULL /\ Unborn(id) /\ exec'[id] # NULL
    /\ exec'[id].build # NULL
    /\ exec'[id].status = "queued" /\ exec'[id].logs = 0
    /\ exec'[id].output = NULL /\ exec'[id].failure = NULL

Kept(id) ==
    /\ exec[id] # NULL /\ exec'[id] # NULL
    /\ exec'[id].build = exec[id].build

Started(id) ==
    /\ Kept(id)
    /\ exec[id].status = "queued" /\ exec'[id].status = "running"
    /\ exec'[id].logs = 0
    /\ exec'[id].output = NULL /\ exec'[id].failure = NULL

Followed(id) ==
    /\ Kept(id)
    /\ exec[id].status = "running" /\ exec'[id].status = "running"
    /\ exec'[id].output = NULL /\ exec'[id].failure = NULL

Answered(id) ==
    /\ Kept(id)
    /\ exec[id].status = "running" /\ exec'[id].status \in Terminal
    /\ exec'[id].output # NULL \/ exec'[id].failure # NULL

Removed(id) == exec[id] # NULL /\ exec'[id] = NULL /\ ~Unborn(id)'

RowStep(id) ==
    \/ Quiet(id) \/ Accepted(id) \/ Started(id) \/ Followed(id)
    \/ Answered(id) \/ Removed(id)

\* Each of them is a step of the abstract lifecycle.
LEMMA RowStepIsLifecycle ==
    ASSUME IInv, NEW id \in Ids, RowStep(id)
    PROVE  Lifecycle!Step(id)
    <1> USE DEF StageOf, Exists
    <1>1. CASE Quiet(id) /\ Exists(id)
        BY <1>1 DEF Quiet, Lifecycle!Step, Lifecycle!Same
    <1>2. CASE Quiet(id) /\ ~Exists(id)
        BY <1>2
        DEF Quiet, Lifecycle!Step, Lifecycle!Same, Lifecycle!Vanish
    <1>3. CASE Accepted(id)
        BY <1>3 DEF Accepted, Lifecycle!Step, Lifecycle!Accept
    <1>4. CASE Started(id)
        BY <1>4 DEF Started, Kept, Lifecycle!Step, Lifecycle!Start
    <1>5. CASE Followed(id)
        BY <1>5 DEF Followed, Kept, Lifecycle!Step, Lifecycle!Follow
    <1>6. CASE Answered(id)
        BY <1>6
        DEF Answered, Kept, Terminal, Lifecycle!Step, Lifecycle!Answer,
            Lifecycle!Finished
    <1>7. CASE Removed(id)
        BY <1>7
        DEF Removed, IInv, TypeOK, Rows, Statuses, Terminal,
            Lifecycle!Step, Lifecycle!Vanish
    <1>8. QED
        BY <1>1, <1>2, <1>3, <1>4, <1>5, <1>6, <1>7 DEF RowStep

\* A step that writes neither the table nor the requests moves no row.
LEMMA UnwrittenStep ==
    ASSUME UNCHANGED <<exec, pending, next>>, NEW id \in Ids
    PROVE  RowStep(id)
    BY DEF RowStep, Quiet, Unborn

\* A running row carries no answer yet.
LEMMA RunningUnanswered ==
    ASSUME IInv, NEW id \in Ids, StatusIs(id, "running")
    PROVE  exec[id].output = NULL /\ exec[id].failure = NULL
    BY DEF IInv, RowsReadable, Validate, StatusIs, Exists

\* A request that resolves its build moves no row.
LEMMA ResolveStep ==
    ASSUME IInv, NEW id \in Ids, NEW row,
           next \in Ids, next' = next + 1, exec' = exec,
           pending' = pending \union {[id |-> next, row |-> row]}
    PROVE  RowStep(id)
    BY DEF RowStep, Quiet, Unborn

\* The insert accepts one execution.
LEMMA InsertStep ==
    ASSUME IInv, NEW id \in Ids, NEW req \in pending, Insert(req)
    PROVE  RowStep(id)
    <1>1. /\ req.id \in Ids /\ req.row \in Rows /\ Unborn(req.id)
          /\ exec' = [exec EXCEPT ![req.id] = req.row]
          /\ next' = next /\ pending' \subseteq pending
        BY DEF Insert, IInv, TypeOK, Unborn
    <1>2. CASE id = req.id
        <2>1. req.row = New(req.row.build, req.row.rerunOf)
            BY DEF IInv, FreshInv
        <2>2. exec[id] = NULL
            BY <1>1, <1>2 DEF IInv, FreshInv
        <2>3. req.row # NULL /\ req.row.build # NULL
            BY <1>1, RowAssumption, NullAssumption DEF Rows
        <2>4. QED
            BY <1>1, <1>2, <2>1, <2>2, <2>3
            DEF RowStep, Accepted, New, IInv, TypeOK
    <1>3. CASE id # req.id
        BY <1>1, <1>3 DEF RowStep, Quiet, Unborn, IInv, TypeOK
    <1>4. QED
        BY <1>2, <1>3

\* A deletion removes rows and touches no other.
LEMMA DeleteAppStep ==
    ASSUME IInv, NEW id \in Ids, NEW a \in Apps, DeleteApp(a)
    PROVE  RowStep(id)
    <1>1. /\ exec'[id] = NULL \/ exec'[id] = exec[id]
          /\ Unborn(id)' <=> Unborn(id)
        BY DEF DeleteApp, Unborn
    <1>2. exec[id] # NULL => ~Unborn(id)
        BY DEF IInv, FreshInv
    <1>3. QED
        BY <1>1, <1>2 DEF RowStep, Quiet, Removed

\* A step that writes one claimed row starts one execution.
LEMMA ClaimStep ==
    ASSUME IInv, NEW id \in Ids, NEW p \in Replicas, pc[p] = "claiming",
           exec' = [exec EXCEPT ![job[p]] = Claim(@)],
           UNCHANGED <<pending, next>>
    PROVE  RowStep(id)
    <1>1. /\ job[p] \in Ids
          /\ exec[job[p]] \in Rows /\ exec[job[p]].status = "queued"
        BY Held DEF IInv, Holding
    <1>2. CASE id = job[p]
        <2>1. exec'[id] = Claim(exec[id])
            BY <1>1, <1>2 DEF IInv, TypeOK
        <2>2. /\ Claim(exec[id]).status = "running"
              /\ Claim(exec[id]).build = exec[id].build
              /\ Claim(exec[id]).logs = 0
              /\ Claim(exec[id]).output = NULL /\ Claim(exec[id]).failure = NULL
            BY <1>1, <1>2 DEF Claim, Rows
        <2>3. exec[id] # NULL /\ Claim(exec[id]) # NULL
            BY <1>1, <1>2, ClaimIsRow, RowAssumption
        <2>4. QED
            BY <1>1, <1>2, <2>1, <2>2, <2>3 DEF RowStep, Started, Kept
    <1>3. CASE id # job[p]
        BY <1>3 DEF RowStep, Quiet, Unborn, IInv, TypeOK
    <1>4. QED
        BY <1>2, <1>3

\* Recovery answers what was running.
LEMMA RecoverStep ==
    ASSUME IInv, NEW id \in Ids, NEW p \in Replicas, Recover(p)
    PROVE  RowStep(id)
    <1>1. /\ exec'[id] = IF StatusIs(id, "running") THEN Recovered(exec[id])
                         ELSE exec[id]
          /\ UNCHANGED <<pending, next>>
        BY DEF Recover
    <1>2. CASE StatusIs(id, "running")
        <2>1. exec[id] \in Rows /\ exec[id] # NULL /\ exec[id].status = "running"
            BY <1>2 DEF StatusIs, Exists, IInv, TypeOK
        <2>2. /\ Recovered(exec[id]).status = "failed"
              /\ Recovered(exec[id]).build = exec[id].build
              /\ Recovered(exec[id]).failure = "worker_restarted"
            BY <2>1 DEF Recovered, Fail, Rows
        <2>3. Recovered(exec[id]) # NULL
            BY <2>1, RecoveredIsRow, RowAssumption
               DEF IInv, RowsReadable, Exists
        <2>4. QED
            BY <1>1, <1>2, <2>1, <2>2, <2>3, NullAssumption
            DEF RowStep, Answered, Kept, Terminal
    <1>3. CASE ~StatusIs(id, "running")
        BY <1>1, <1>3 DEF RowStep, Quiet, Unborn
    <1>4. QED
        BY <1>2, <1>3

\* SaveLogs is seen by the reader who follows a running execution.
LEMMA SaveLogsStep ==
    ASSUME IInv, NEW id \in Ids, NEW i \in Ids, NEW n \in 0 .. MaxPrint,
           exec' = SaveLogs(i, n), UNCHANGED <<pending, next>>
    PROVE  RowStep(id)
    <1>1. CASE exec'[id] = exec[id]
        BY <1>1 DEF RowStep, Quiet, Unborn
    <1>2. CASE exec'[id] # exec[id]
        <2>1. /\ exec[id] # NULL /\ exec'[id] # NULL
              /\ exec[id].status = "running" /\ exec'[id].status = "running"
              /\ exec'[id].build = exec[id].build
              /\ exec'[id].output = exec[id].output
              /\ exec'[id].failure = exec[id].failure
            BY <1>2, SaveLogsKeeps DEF IInv
        <2>2. exec[id].output = NULL /\ exec[id].failure = NULL
            BY <2>1, RunningUnanswered DEF StatusIs, Exists
        <2>3. QED
            BY <2>1, <2>2 DEF RowStep, Followed, Kept
    <1>3. QED
        BY <1>1, <1>2

\* Finalize answers one execution: its compare-and-set holds.
LEMMA FinalizeStep ==
    ASSUME IInv, NEW id \in Ids, NEW p \in Replicas, Finalizing(p),
           Finalizable(p), exec' = [exec EXCEPT ![job[p]] = record[p]],
           UNCHANGED <<pending, next>>
    PROVE  RowStep(id)
    <1>1. /\ job[p] \in Ids /\ record[p] \in Rows
          /\ record[p].status \in Terminal /\ Validate(record[p])
        BY Held DEF Finalizing, IInv, HoldInv, Holding
    <1>2. CASE id = job[p]
        <2>1. exec'[id] = record[p]
            BY <1>1, <1>2 DEF IInv, TypeOK
        <2>2. /\ exec[id] # NULL /\ exec[id].status = "running"
              /\ record[p].build = exec[id].build
            BY <1>2 DEF Finalizable, ValidateTransitionTo, Exists
        <2>3. record[p].output # NULL \/ record[p].failure # NULL
            BY <1>1 DEF Validate, Terminal
        <2>4. record[p] # NULL
            BY <1>1, RowAssumption
        <2>5. QED
            BY <1>1, <2>1, <2>2, <2>3, <2>4 DEF RowStep, Answered, Kept
    <1>3. CASE id # job[p]
        BY <1>3 DEF RowStep, Quiet, Unborn, IInv, TypeOK
    <1>4. QED
        BY <1>2, <1>3

\* What a worker does to a row, at every one of its steps.
LEMMA WorkerRowStep ==
    ASSUME IInv, NEW id \in Ids, NEW p \in Replicas, WorkerStep(p)
    PROVE  RowStep(id)
    <1>1. CASE ClaimCommit(p)
        BY <1>1, ClaimStep DEF ClaimCommit
    <1>2. CASE FlushSave(p)
        <2>1. job[p] \in Ids /\ flushing[p] \in 0 .. MaxPrint
            BY <1>2, Held, SMTT(60) DEF FlushSave, IInv, TypeOK, HoldInv, Holding
        <2>2. QED
            BY <1>2, <2>1, SaveLogsStep DEF FlushSave
    <1>3. CASE Finalize(p)
        BY <1>3, FinalizeStep DEF Finalize
    <1>4. CASE Recover(p)
        BY <1>4, RecoverStep
    <1>5. CASE UNCHANGED <<exec, pending, next>>
        BY <1>5, UnwrittenStep
    <1>6. QED
        BY <1>1, <1>2, <1>3, <1>4, <1>5
        DEF WorkerStep, StopIdle, Poll, ClaimSelect, ClaimRefused, PrepareFails,
            StartHandler, FlushRefused, HandlerReturns, CloseStream, Finish,
            FinishInvalid, FinalizeConflict, FinalizeRefused, ExitProcess, Boot,
            RecoverRefused, table

\* What a fault does to a row: only a commit that reports an error writes.
LEMMA FaultRowStep ==
    ASSUME IInv, NEW id \in Ids, NEW p \in Replicas, FaultStep(p)
    PROVE  RowStep(id)
    <1>1. CASE ClaimLost(p)
        BY <1>1, ClaimStep DEF ClaimLost
    <1>2. CASE FinalizeLost(p)
        BY <1>2, FinalizeStep
        DEF FinalizeLost, FinalizeInterrupted, Finalizing
    <1>3. CASE UNCHANGED <<exec, pending, next>>
        BY <1>3, UnwrittenStep
    <1>4. QED
        BY <1>1, <1>2, <1>3
        DEF FaultStep, Stop, Crash, RecoverError, ClaimError, FlushError,
            CloseStreamUnrevoked, FinalizeError, table

\* Every step of the system moves every row as the lifecycle allows.
LEMMA NextRowStep ==
    ASSUME IInv, [Next]_vars, NEW id \in Ids
    PROVE  RowStep(id)
    <1>1. CASE \E b \in Builds : CreateResolve(b)
        BY <1>1, ResolveStep DEF CreateResolve, Request
    <1>2. CASE \E original \in Ids : RerunResolve(original)
        BY <1>2, ResolveStep DEF RerunResolve, Request
    <1>3. CASE \E req \in pending : Insert(req)
        BY <1>3, InsertStep
    <1>4. CASE \E req \in pending : Refuse(req)
        BY <1>4 DEF Refuse, RowStep, Quiet, Unborn
    <1>5. CASE \E a \in Apps : DeleteApp(a)
        BY <1>5, DeleteAppStep
    <1>6. CASE \E p \in Replicas : WorkerStep(p) \/ FaultStep(p)
        BY <1>6, WorkerRowStep, FaultRowStep
    <1>7. CASE \E stmt \in late : LateFlush(stmt)
        <2>1. PICK stmt \in late : LateFlush(stmt)
            BY <1>7
        <2>2. stmt.id \in Ids /\ stmt.logs \in 0 .. MaxPrint
            BY DEF IInv, TypeOK
        <2>3. QED
            BY <2>1, <2>2, SaveLogsStep DEF LateFlush
    <1>8. CASE UNCHANGED <<exec, pending, next>>
        BY <1>8, UnwrittenStep
    <1>9. QED
        BY <1>1, <1>2, <1>3, <1>4, <1>5, <1>6, <1>7, <1>8
        DEF Next, HandlerPrints, FlushTake, TokenExpires, table, vars

\* The empty table is the lifecycle's beginning.
LEMMA LifecycleInit == Init => Lifecycle!Init
    BY DEF Init, Lifecycle!Init, StageOf, Exists, Unborn

\* The executions table, under any number of concurrent workers, crashes,
\* recoveries, lost commits and deletions, implements the abstract lifecycle:
\* statuses only move forward, the pin never moves, an answer never changes.
THEOREM TableImplementsLifecycle == Spec => ImplementsLifecycle
    <1>1. IInv /\ [Next]_vars => Lifecycle!Next
        <2> SUFFICES ASSUME IInv, [Next]_vars, NEW id \in Ids
                     PROVE  Lifecycle!Step(id)
            BY DEF Lifecycle!Next
        <2>1. QED
            BY NextRowStep, RowStepIsLifecycle
    <1>2. QED
        BY <1>1, LifecycleInit, InvariantHolds, PTL
        DEF Spec, ImplementsLifecycle, Lifecycle!Spec

=============================================================================
