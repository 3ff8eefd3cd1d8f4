-------------------------- MODULE ExecutionLifecycle --------------------------
(***************************************************************************)
(* What an execution promises to the caller that created it, whatever the  *)
(* workers, processes and requests behind it do (docs/execution.md):       *)
(* queued, then running, then exactly one of succeeded or failed; pinned   *)
(* to one build from the moment it exists; logs that appear only once it   *)
(* runs and are final once it ends; one answer, which never changes.       *)
(* Several executions may step at once (recovery, the deletion of an app). *)
(***************************************************************************)
EXTENDS Naturals

CONSTANTS
    Ids,        \* execution ids
    NULL        \* absence of a value

VARIABLES
    stage,      \* where each execution stands
    pin,        \* the build it is pinned to
    logs,       \* how much output its row carries
    answer      \* its output or its failure

lifecycle == <<stage, pin, logs, answer>>

Stages == {"new", "queued", "running", "succeeded", "failed", "gone"}

Finished == {"succeeded", "failed"}

Init ==
    /\ stage  = [id \in Ids |-> "new"]
    /\ pin    = [id \in Ids |-> NULL]
    /\ logs   = [id \in Ids |-> 0]
    /\ answer = [id \in Ids |-> NULL]

Same(id) ==
    /\ stage'[id] = stage[id]
    /\ pin'[id] = pin[id]
    /\ logs'[id] = logs[id]
    /\ answer'[id] = answer[id]

Accept(id) ==
    /\ stage[id] = "new" /\ stage'[id] = "queued"
    /\ pin'[id] # NULL
    /\ logs'[id] = 0
    /\ answer'[id] = NULL

Start(id) ==
    /\ stage[id] = "queued" /\ stage'[id] = "running"
    /\ pin'[id] = pin[id]
    /\ logs'[id] = 0
    /\ answer'[id] = NULL

Follow(id) ==
    /\ stage[id] = "running" /\ stage'[id] = "running"
    /\ pin'[id] = pin[id]
    /\ answer'[id] = NULL

Answer(id) ==
    /\ stage[id] = "running" /\ stage'[id] \in Finished
    /\ pin'[id] = pin[id]
    /\ answer'[id] # NULL

\* The app was deleted, or the request never became a row.
Vanish(id) ==
    /\ stage[id] # "gone" /\ stage'[id] = "gone"

Step(id) ==
    \/ Same(id)
    \/ Accept(id)
    \/ Start(id)
    \/ Follow(id)
    \/ Answer(id)
    \/ Vanish(id)

Next == \A id \in Ids : Step(id)

Spec == Init /\ [][Next]_lifecycle

=============================================================================
