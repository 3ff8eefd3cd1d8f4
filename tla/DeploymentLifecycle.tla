-------------------------- MODULE DeploymentLifecycle --------------------------
(***************************************************************************)
(* What a deployment promises to whoever follows it (docs/deployment.md):  *)
(* queued, building, publishing, then ready or failed, one stage at a time *)
(* and never back; the commit it was asked for never changes; a failure is *)
(* possible from every running stage; ready comes with a build.            *)
(* Several deployments may step at once (recovery, the deletion of an app).*)
(***************************************************************************)
EXTENDS Naturals

CONSTANTS
    Ids,        \* deployment ids
    NULL        \* absence of a value

VARIABLES
    stage,      \* where each deployment stands
    commit,     \* the commit it builds
    runnable    \* the commit of the build it produced

lifecycle == <<stage, commit, runnable>>

Finished == {"ready", "failed"}

\* The only path through the running stages.
Following == [queued |-> "building", building |-> "publishing"]

Init ==
    /\ stage    = [id \in Ids |-> "new"]
    /\ commit   = [id \in Ids |-> NULL]
    /\ runnable = [id \in Ids |-> NULL]

Running(id) == stage[id] \in {"queued", "building", "publishing"}

Accept(id) ==
    /\ stage[id] = "new" /\ stage'[id] = "queued"
    /\ commit'[id] # NULL
    /\ runnable'[id] = NULL

Advance(id) ==
    /\ stage[id] \in DOMAIN Following /\ stage'[id] = Following[stage[id]]
    /\ commit'[id] = commit[id]
    /\ runnable'[id] = runnable[id]

\* The build is there before the deployment says so.
Produce(id) ==
    /\ stage'[id] = stage[id]
    /\ commit'[id] = commit[id]
    /\ runnable[id] = NULL /\ runnable'[id] = commit[id]

MarkReady(id) ==
    /\ stage[id] = "publishing" /\ stage'[id] = "ready"
    /\ commit'[id] = commit[id]
    /\ runnable[id] = commit[id] /\ runnable'[id] = runnable[id]

Fail(id) ==
    /\ Running(id) /\ stage'[id] = "failed"
    /\ commit'[id] = commit[id]
    /\ runnable'[id] = runnable[id]

\* The app was deleted, or the request never became a row.
Vanish(id) == stage[id] # "gone" /\ stage'[id] = "gone"

Same(id) ==
    /\ stage'[id] = stage[id]
    /\ commit'[id] = commit[id]
    /\ runnable'[id] = runnable[id]

Step(id) ==
    \/ Same(id) \/ Accept(id) \/ Advance(id) \/ Produce(id)
    \/ MarkReady(id) \/ Fail(id) \/ Vanish(id)

Next == \A id \in Ids : Step(id)

Spec == Init /\ [][Next]_lifecycle

=============================================================================
