-------------------------- MODULE ArtifactCacheProofs --------------------------
(***************************************************************************)
(* Proofs about ArtifactCache for every set of keys and goroutines, every  *)
(* budget and any number of calls, faults and crashes.                     *)
(***************************************************************************)
EXTENDS ArtifactCache, FiniteSetTheorems, FunctionTheorems, TLAPS

-----------------------------------------------------------------------------
(* The invariant *)

\* A call is a record with these fields, whatever the last two hold.
IsCall(c) ==
    c = [at |-> c.at, op |-> c.op, key |-> c.key, err |-> c.err, out |-> c.out,
         bytes |-> c.bytes, digest |-> c.digest, todo |-> c.todo, over |-> c.over]

\* Which operations take which steps.
CallInv(c) ==
    /\ IsCall(c)
    /\ c.op \in {"none", "put", "open", "delete", "boot"}
    /\ c.op \in {"put", "open", "delete"} => c.key \in Keys
    /\ c.at \in Steps
    /\ c.at \in {"touch", "join", "wait", "stat", "fetch", "filled", "bypass", "opened"}
         => c.op = "open"
    /\ c.at \in {"upload", "link"} => c.op = "put"
    /\ c.at \in {"copy", "publish", "index"} => c.op \in {"put", "open"}
    /\ c.at \in {"trim", "evict", "drop"} => c.op # "none"

ShapeInv ==
    /\ store \subseteq Keys /\ tried \subseteq Keys /\ recorded \subseteq tried
    /\ disk \in [Keys -> Contents]
    /\ staged \in [Procs -> Contents]
    /\ flight \in [Keys -> Procs \union {NoProc}]
    /\ call = [p \in Procs |-> call[p]]
    /\ \A p \in Procs : CallInv(call[p])

\* What is about to be published is whole.
WholeInv ==
    /\ NothingTorn
    /\ \A p \in Procs : call[p].at \in {"upload", "link", "publish"} => staged[p] = "whole"

\* An artifact that is still being put is nobody else's, and not recorded;
\* what is opened is recorded.
PuttingInv ==
    /\ \A p \in Procs :
         /\ call[p].op = "open" => call[p].key \in recorded
         /\ call[p].op = "put" => call[p].key \in tried
         /\ call[p].op = "put" /\ call[p].at \in {"copy", "upload", "link"} =>
              call[p].key \notin recorded
    /\ \A p, q \in Procs :
         /\ call[p].op = "put" /\ call[p].at # "idle"
         /\ call[q].op = "put" /\ call[q].at # "idle"
         /\ call[p].key = call[q].key
         => p = q

\* Neither a call nor the flight it waited for missed what is in the store.
MissInv ==
    \A p \in Procs :
        call[p].op = "open" /\ (call[p].out = "not_found" \/ call[p].err = "not_found")
            => call[p].key \notin store

IInv == ShapeInv /\ WholeInv /\ OneFillPerKey /\ PuttingInv /\ MissInv

-----------------------------------------------------------------------------
(* How a step changes the calls *)

\* Only p's call changes.
Others(p) ==
    /\ call' = [q \in Procs |-> call'[q]]
    /\ \A q \in Procs : q # p => call'[q] = call[q]

\* p is at step a; what it does and has seen is as in c.
Now(p, a, c) ==
    /\ IsCall(call'[p])
    /\ call'[p].at = a
    /\ call'[p].op = c.op
    /\ call'[p].key = c.key
    /\ call'[p].err = c.err
    /\ call'[p].out = c.out
    /\ call'[p].bytes = c.bytes

\* Becomes replaces one call.
LEMMA BecomesOne ==
    ASSUME ShapeInv, NEW p \in Procs, NEW c, Becomes(p, c)
    PROVE  call'[p] = c /\ Others(p)
    BY DEF ShapeInv, Becomes, Others

\* Goto moves one call to another step.
LEMMA GotoOne ==
    ASSUME ShapeInv, NEW p \in Procs, NEW a, Goto(p, a)
    PROVE  Now(p, a, call[p]) /\ Others(p)
    <1>1. IsCall(call[p])
        BY DEF ShapeInv, CallInv
    <1>2. call'[p] = [call[p] EXCEPT !.at = a] /\ Others(p)
        BY BecomesOne DEF Goto
    <1>3. Now(p, a, call[p])
        BY <1>1, <1>2 DEF Now, IsCall
    <1>4. QED
        BY <1>2, <1>3

\* Return ends one call, and keeps only what it was and how it ended.
LEMMA ReturnOne ==
    ASSUME ShapeInv, NEW p \in Procs, NEW r, Return(p, r)
    PROVE  /\ Others(p)
           /\ Now(p, "idle", [op |-> call[p].op, key |-> call[p].key, err |-> "none",
                              out |-> r, bytes |-> "absent"])
    <1>1. call'[p] = [Idle EXCEPT !.op = call[p].op, !.key = call[p].key, !.out = r]
          /\ Others(p)
        BY BecomesOne DEF Return
    <1>2. QED
        BY <1>1 DEF Now, IsCall, Idle

\* The leader of a flight and all who wait for it.
Woken(q, p) == q = p \/ (call[q].at = "wait" /\ call[q].key = call[p].key)

\* The end of a flight wakes them, and nobody else.
LEMMA EndFlightAll ==
    ASSUME ShapeInv, NEW p \in Procs, NEW r, EndFlight(p, r)
    PROVE  /\ call' = [q \in Procs |-> call'[q]]
           /\ \A q \in Procs : Woken(q, p) =>
                Now(q, "filled", [op |-> "open", key |-> call[p].key, err |-> r,
                                  out |-> "none", bytes |-> "absent"])
           /\ \A q \in Procs : ~Woken(q, p) => call'[q] = call[q]
           /\ flight' = [flight EXCEPT ![call[p].key] = NoProc]
    <1> DEFINE c(q) == [Started(q, "open", call[p].key, "filled") EXCEPT !.err = r]
    <1>1. /\ call' = [q \in Procs |-> IF Woken(q, p) THEN c(q) ELSE call[q]]
          /\ flight' = [flight EXCEPT ![call[p].key] = NoProc]
        BY DEF EndFlight, Woken
    <1>2. ASSUME NEW q \in Procs, Woken(q, p)
          PROVE  Now(q, "filled", [op |-> "open", key |-> call[p].key, err |-> r,
                                   out |-> "none", bytes |-> "absent"])
        <2>1. call'[q] = c(q)
            BY <1>1, <1>2
        <2>2. QED
            BY <2>1 DEF Now, IsCall, Started, Idle
    <1>3. QED
        BY <1>1, <1>2

\* A step of p that leaves the flights alone, and p as much at a fill as it was.
LEMMA FillFrame ==
    ASSUME ShapeInv, OneFillPerKey, NEW p \in Procs, Others(p), flight' = flight,
           Filling(p)' <=> Filling(p), Filling(p) => call'[p].key = call[p].key
    PROVE  OneFillPerKey'
    <1>1. \A q \in Procs : Filling(q)' <=> Filling(q)
        BY DEF Others, Filling
    <1>2. \A q \in Procs : Filling(q) => call'[q].key = call[q].key
        BY DEF Others
    <1>3. \A q \in Procs : Filling(q)' => flight'[call'[q].key] = q
        BY <1>1, <1>2 DEF OneFillPerKey
    <1>4. ASSUME NEW k \in Keys, flight'[k] # NoProc
          PROVE  Filling(flight[k])' /\ call'[flight'[k]].key = k
        <2>1. flight[k] \in Procs
            BY <1>4 DEF ShapeInv
        <2>2. QED
            BY <1>1, <1>2, <1>4, <2>1 DEF OneFillPerKey
    <1>5. QED
        BY <1>3, <1>4 DEF OneFillPerKey

-----------------------------------------------------------------------------
(* The first state, and the ways in which a call ends *)

\* A cache that was never used satisfies the invariant.
LEMMA InitInv == Init => IInv
    BY
    DEF Init, IInv, ShapeInv, WholeInv, OneFillPerKey, PuttingInv, MissInv,
        CallInv,
       IsCall, Steps, Idle, NothingTorn, OnDisk, Contents, Filling

\* A call that ends without having filled or put anything.
LEMMA EndsInv ==
    ASSUME IInv, NEW p \in Procs, NEW r, Return(p, r), ~Filling(p),
           r = "not_found" => call[p].key \notin store,
           UNCHANGED <<remote, disk, flight>>,
           staged' = staged \/ staged' = [staged EXCEPT ![p] = "absent"]
    PROVE  IInv'
    <1>1. /\ Others(p)
          /\ Now(p, "idle", [op |-> call[p].op, key |-> call[p].key, err |-> "none",
                             out |-> r, bytes |-> "absent"])
        BY ReturnOne DEF IInv
    <1>2. CallInv(call'[p])
        BY <1>1 DEF IInv, ShapeInv, CallInv, Steps, Now
    <1>3. staged' \in [Procs -> Contents]
        BY DEF IInv, ShapeInv, Contents
    <1>4. ShapeInv'
        BY <1>1, <1>2, <1>3 DEF IInv, ShapeInv, CallInv, Others, remote
    <1>5. WholeInv'
        BY <1>1 DEF IInv, ShapeInv, WholeInv, NothingTorn, OnDisk, Others, Now
    <1>6. OneFillPerKey'
        BY <1>1, FillFrame DEF IInv, Filling, Now
    <1>7. PuttingInv'
        BY <1>1 DEF IInv, ShapeInv, PuttingInv, Others, Now, remote
    <1>8. MissInv'
        BY <1>1 DEF IInv, ShapeInv, MissInv, Others, Now, remote
    <1>9. QED
        BY <1>4, <1>5, <1>6, <1>7, <1>8 DEF IInv

\* A flight that ends with r, which is not found only of what is not there.
LEMMA LandsInv ==
    ASSUME IInv, NEW p \in Procs, NEW r, EndFlight(p, r), Filling(p),
           r = "not_found" => call[p].key \notin store,
           UNCHANGED <<remote, disk>>,
           staged' = staged \/ staged' = [staged EXCEPT ![p] = "absent"]
    PROVE  IInv'
    <1>1. /\ call' = [q \in Procs |-> call'[q]]
          /\ \A q \in Procs : Woken(q, p) =>
               Now(q, "filled", [op |-> "open", key |-> call[p].key, err |-> r,
                                 out |-> "none", bytes |-> "absent"])
          /\ \A q \in Procs : ~Woken(q, p) => call'[q] = call[q]
          /\ flight' = [flight EXCEPT ![call[p].key] = NoProc]
        BY EndFlightAll DEF IInv
    <1>2. call[p].op = "open" /\ call[p].key \in Keys /\ call[p].key \in recorded
        BY DEF IInv, ShapeInv, CallInv, PuttingInv, Filling
    <1>3. \A q \in Procs : CallInv(call'[q])
        <2>1. ASSUME NEW q \in Procs, Woken(q, p) PROVE CallInv(call'[q])
            BY <1>1, <1>2, <2>1 DEF CallInv, Steps, Now
        <2>2. QED
            BY <1>1, <2>1 DEF IInv, ShapeInv
    <1>4. /\ staged' \in [Procs -> Contents]
          /\ flight' \in [Keys -> Procs \union {NoProc}]
        BY <1>1 DEF IInv, ShapeInv, Contents
    <1>5. ShapeInv'
        BY <1>1, <1>3, <1>4 DEF IInv, ShapeInv, remote
    <1>6. WholeInv'
        BY <1>1 DEF IInv, ShapeInv, WholeInv, NothingTorn, OnDisk, Now, Woken
    <1>7. OneFillPerKey'
        <2>1. \A q \in Procs : Filling(q)' => Filling(q) /\ ~Woken(q, p) /\ q # p
            BY <1>1 DEF Filling, Now, Woken
        <2>2. ASSUME NEW q \in Procs, Filling(q)' PROVE flight'[call'[q].key] = q
            <3>1. call'[q] = call[q] /\ Filling(q) /\ q # p
                BY <1>1, <2>1, <2>2
            <3>2. flight[call[q].key] = q /\ flight[call[p].key] = p
                BY <3>1 DEF IInv, OneFillPerKey
            <3>3. call[q].key \in Keys
                BY <3>1 DEF IInv, ShapeInv, CallInv, Filling
            <3>4. QED
                BY <1>1, <3>1, <3>2, <3>3 DEF IInv, ShapeInv
        <2>3. ASSUME NEW k \in Keys, flight'[k] # NoProc 
              PROVE  Filling(flight[k])' /\ call'[flight'[k]].key = k
            <3>1. k # call[p].key /\ flight'[k] = flight[k] /\ flight[k] \in Procs
                BY <1>1, <1>2, <2>3 DEF IInv, ShapeInv
            <3>2. Filling(flight[k]) /\ call[flight[k]].key = k
                BY <2>3, <3>1 DEF IInv, OneFillPerKey
            <3>3. ~Woken(flight[k], p)
                BY <3>1, <3>2 DEF Woken, Filling
            <3>4. QED
                BY <1>1, <3>1, <3>2, <3>3 DEF Filling
        <2>4. QED
            BY <2>2, <2>3 DEF OneFillPerKey
    <1>8. PuttingInv'
        BY <1>1, <1>2 DEF IInv, ShapeInv, CallInv, PuttingInv, Now, Woken, remote
    <1>9. MissInv'
        BY <1>1, <1>2 DEF IInv, ShapeInv, MissInv, Now, Woken, remote
    <1>10. QED
        BY <1>5, <1>6, <1>7, <1>8, <1>9 DEF IInv

\* A Put that returns: only now its artifact is recorded, and no other call
\* is still putting it.
LEMMA RecordsInv ==
    ASSUME IInv, NEW p \in Procs, Return(p, "ok"), call[p].op = "put",
           call[p].at # "idle", recorded' = recorded \union {call[p].key},
           UNCHANGED <<store, tried, disk, flight>>,
           staged' = staged \/ staged' = [staged EXCEPT ![p] = "absent"]
    PROVE  IInv'
    <1>1. /\ Others(p)
          /\ Now(p, "idle", [op |-> call[p].op, key |-> call[p].key, err |-> "none",
                             out |-> "ok", bytes |-> "absent"])
        BY ReturnOne DEF IInv
    <1>2. CallInv(call'[p])
        BY <1>1 DEF IInv, ShapeInv, CallInv, Steps, Now
    <1>3. staged' \in [Procs -> Contents]
        BY DEF IInv, ShapeInv, Contents
    <1>4. ShapeInv'
        BY <1>1, <1>2, <1>3 DEF IInv, ShapeInv, CallInv, PuttingInv, Others
    <1>5. WholeInv'
        BY <1>1 DEF IInv, ShapeInv, WholeInv, NothingTorn, OnDisk, Others, Now
    <1>6. OneFillPerKey'
        BY <1>1, FillFrame DEF IInv, Filling, Now
    <1>7. PuttingInv'
        BY <1>1 DEF IInv, ShapeInv, PuttingInv, Others, Now
    <1>8. MissInv'
        BY <1>1 DEF IInv, ShapeInv, MissInv, Others, Now
    <1>9. QED
        BY <1>4, <1>5, <1>6, <1>7, <1>8 DEF IInv

\* The boot that is done.
LEMMA BootedInv ==
    ASSUME IInv, NEW p \in Procs, Becomes(p, Idle), call[p].op = "boot",
           UNCHANGED <<remote, disk, flight>>,
           staged' = staged \/ staged' = [staged EXCEPT ![p] = "absent"]
    PROVE  IInv'
    <1>1. call'[p] = Idle /\ Others(p)
        BY BecomesOne DEF IInv
    <1>2. CallInv(call'[p])
        BY <1>1 DEF CallInv, IsCall, Steps, Idle
    <1>3. staged' \in [Procs -> Contents]
        BY DEF IInv, ShapeInv, Contents
    <1>4. ShapeInv'
        BY <1>1, <1>2, <1>3 DEF IInv, ShapeInv, CallInv, Others, remote
    <1>5. WholeInv'
        BY <1>1 DEF IInv, ShapeInv, WholeInv, NothingTorn, OnDisk, Others, Idle
    <1>6. OneFillPerKey'
        BY <1>1, FillFrame DEF IInv, Filling, Idle
    <1>7. PuttingInv'
        BY <1>1 DEF IInv, ShapeInv, PuttingInv, Others, Idle, remote
    <1>8. MissInv'
        BY <1>1 DEF IInv, ShapeInv, MissInv, Others, Idle, remote
    <1>9. QED
        BY <1>4, <1>5, <1>6, <1>7, <1>8 DEF IInv

\* What follows publish, trim and evict.
LEMMA PublishedInv ==
    ASSUME IInv, NEW p \in Procs, Published(p),
           call[p].at \in {"publish", "trim", "evict"},
           UNCHANGED <<store, tried, disk>>,
           staged' = staged \/ staged' = [staged EXCEPT ![p] = "absent"]
    PROVE  IInv'
    <1>1. call[p].op \in {"put", "open", "delete", "boot"}
        BY DEF IInv, ShapeInv, CallInv
    <1>2. CASE call[p].op = "open"
        <2>1. EndFlight(p, "ok") /\ UNCHANGED recorded /\ Filling(p)
            BY <1>2 DEF Published, Filling
        <2>2. QED
            BY <2>1, LandsInv DEF remote
    <1>3. CASE call[p].op = "put"
        <2>1. /\ Return(p, "ok") /\ UNCHANGED flight
              /\ recorded' = recorded \union {call[p].key}
            BY <1>3 DEF Published
        <2>2. QED
            BY <1>3, <2>1, RecordsInv
    <1>4. CASE call[p].op = "boot"
        <2>1. Becomes(p, Idle) /\ UNCHANGED <<recorded, flight>>
            BY <1>4 DEF Published
        <2>2. QED
            BY <1>4, <2>1, BootedInv DEF remote
    <1>5. CASE call[p].op = "delete"
        <2>1. Return(p, "ok") /\ UNCHANGED <<recorded, flight>>
            BY <1>5 DEF Published
        <2>2. QED
            BY <1>5, <2>1, EndsInv DEF remote, Filling
    <1>6. QED
        BY <1>1, <1>2, <1>3, <1>4, <1>5

-----------------------------------------------------------------------------
(* One lemma per action *)

\* The key is fresh, so no other call has it.
LEMMA PutInv ==
    ASSUME IInv, NEW p \in Procs, NEW k \in Keys, Put(p, k)
    PROVE  IInv'
    <1>1. /\ Others(p)
          /\ Now(p, "copy", [op |-> "put", key |-> k, err |-> "none",
                             out |-> "none", bytes |-> "absent"])
        <2>1. call'[p] = Started(p, "put", k, "copy") /\ Others(p)
            BY BecomesOne DEF IInv, Put
        <2>2. QED
            BY <2>1 DEF Now, IsCall, Started, Idle
    <1>2. CallInv(call'[p])
        BY <1>1 DEF IInv, ShapeInv, CallInv, Steps, Now, Put, Ready, index
    <1>3. disk' \in [Keys -> Contents] /\ staged' \in [Procs -> Contents]
        BY DEF IInv, ShapeInv, Contents, Put, Ready, index
    <1>4. ShapeInv'
        BY <1>1, <1>2, <1>3 DEF IInv, ShapeInv, CallInv, Others, Put, Ready, index
    <1>5. WholeInv'
        BY <1>1
        DEF IInv, ShapeInv, CallInv, WholeInv, NothingTorn, OnDisk, Others,
            Now, Put, Ready, index
    <1>6. OneFillPerKey'
        BY <1>1, FillFrame
        DEF IInv, ShapeInv, CallInv, Filling, Now, Put, Ready, index
    <1>7. PuttingInv'
        BY <1>1
        DEF IInv, ShapeInv, CallInv, PuttingInv, Others, Now, Put, Ready,
            index
    <1>8. MissInv'
        BY <1>1
        DEF IInv, ShapeInv, CallInv, PuttingInv, MissInv, Others, Now, Put,
            Ready, index
    <1>9. QED
        BY <1>4, <1>5, <1>6, <1>7, <1>8 DEF IInv

\* A copy that is done is whole.
LEMMA CopyDoneInv ==
    ASSUME IInv, NEW p \in Procs, CopyDone(p)
    PROVE  IInv'
    <1>1. /\ Others(p)
          /\ Now(p, call'[p].at, call[p])
          /\ IF call[p].op = "open" THEN call'[p].at = "publish"
                                    ELSE call'[p].at \in {"upload", "link"}
        <2> DEFINE a == IF call[p].op = "open" THEN "publish"
                        ELSE IF backend = "s3" THEN "upload" ELSE "link"
        <2>1. Goto(p, a) /\ call[p].at = "copy"
            BY DEF CopyDone
        <2>2. IF call[p].op = "open" THEN a = "publish" ELSE a \in {"upload", "link"}
            OBVIOUS
        <2> HIDE DEF a
        <2>3. Now(p, a, call[p]) /\ Others(p)
            BY <2>1, GotoOne DEF IInv
        <2>4. QED
            BY <2>2, <2>3 DEF Now
    <1>2. CallInv(call'[p])
        BY <1>1 DEF IInv, ShapeInv, CallInv, Steps, Now, CopyDone, remote, index
    <1>3. disk' \in [Keys -> Contents] /\ staged' \in [Procs -> Contents]
        BY DEF IInv, ShapeInv, Contents, CopyDone, remote, index
    <1>4. ShapeInv'
        BY <1>1, <1>2, <1>3
        DEF IInv, ShapeInv, CallInv, Others, CopyDone, remote, index
    <1>5. WholeInv'
        BY <1>1
        DEF IInv, ShapeInv, CallInv, WholeInv, NothingTorn, OnDisk, Others,
            Now, CopyDone, remote, index
    <1>6. OneFillPerKey'
        BY <1>1, FillFrame
        DEF IInv, ShapeInv, CallInv, Filling, Now, CopyDone, remote, index
    <1>7. PuttingInv'
        BY <1>1
        DEF IInv, ShapeInv, CallInv, PuttingInv, Others, Now, CopyDone,
            remote, index
    <1>8. MissInv'
        BY <1>1
        DEF IInv, ShapeInv, CallInv, PuttingInv, MissInv, Others, Now,
            CopyDone, remote, index
    <1>9. QED
        BY <1>4, <1>5, <1>6, <1>7, <1>8 DEF IInv

\* A copy that fails ends a flight or a Put.
LEMMA CopyFailsInv ==
    ASSUME IInv, NEW p \in Procs, CopyFails(p)
    PROVE  IInv'
    <1>1. /\ call[p].at = "copy" /\ UNCHANGED <<remote, disk>>
          /\ staged' = [staged EXCEPT ![p] = "absent"]
        BY DEF CopyFails
    <1>2. CASE call[p].op = "open"
        BY <1>1, <1>2, LandsInv DEF CopyFails, Filling
    <1>3. CASE call[p].op # "open"
        BY <1>1, <1>3, EndsInv DEF CopyFails, Filling
    <1>4. QED
        BY <1>2, <1>3

\* The object that lands was not recorded, so nobody has missed it.
LEMMA UploadInv ==
    ASSUME IInv, NEW p \in Procs, Upload(p)
    PROVE  IInv'
    <1>1. Now(p, "publish", call[p]) /\ Others(p)
        BY GotoOne DEF IInv, Upload
    <1>2. CallInv(call'[p])
        BY <1>1 DEF IInv, ShapeInv, CallInv, Steps, Now, Upload, files, index
    <1>3. disk' \in [Keys -> Contents] /\ staged' \in [Procs -> Contents]
        BY DEF IInv, ShapeInv, Contents, Upload, files, index
    <1>4. ShapeInv'
        BY <1>1, <1>2, <1>3
        DEF IInv, ShapeInv, CallInv, Others, Upload, files, index
    <1>5. WholeInv'
        BY <1>1
        DEF IInv, ShapeInv, CallInv, WholeInv, NothingTorn, OnDisk, Others,
            Now, Upload, files, index
    <1>6. OneFillPerKey'
        BY <1>1, FillFrame
        DEF IInv, ShapeInv, CallInv, Filling, Now, Upload, files, index
    <1>7. PuttingInv'
        BY <1>1
        DEF IInv, ShapeInv, CallInv, PuttingInv, Others, Now, Upload, files,
            index
    <1>8. MissInv'
        BY <1>1
        DEF IInv, ShapeInv, CallInv, PuttingInv, MissInv, Others, Now,
            Upload, files, index
    <1>9. QED
        BY <1>4, <1>5, <1>6, <1>7, <1>8 DEF IInv

\* Nor was the one of a request that failed.
LEMMA UploadFailsInv ==
    ASSUME IInv, NEW p \in Procs, UploadFails(p)
    PROVE  IInv'
    <1>1. /\ Others(p)
          /\ Now(p, "idle", [op |-> call[p].op, key |-> call[p].key, err |-> "none",
                             out |-> "error", bytes |-> "absent"])
        BY ReturnOne DEF IInv, UploadFails
    <1>2. CallInv(call'[p])
        BY <1>1 DEF IInv, ShapeInv, CallInv, Steps, Now, UploadFails, index
    <1>3. disk' \in [Keys -> Contents] /\ staged' \in [Procs -> Contents]
        BY DEF IInv, ShapeInv, Contents, UploadFails, index
    <1>4. ShapeInv'
        BY <1>1, <1>2, <1>3 DEF IInv, ShapeInv, CallInv, Others, UploadFails, index
    <1>5. WholeInv'
        BY <1>1
        DEF IInv, ShapeInv, CallInv, WholeInv, NothingTorn, OnDisk, Others,
            Now, UploadFails, index
    <1>6. OneFillPerKey'
        BY <1>1, FillFrame
        DEF IInv, ShapeInv, CallInv, Filling, Now, UploadFails, index
    <1>7. PuttingInv'
        BY <1>1
        DEF IInv, ShapeInv, CallInv, PuttingInv, Others, Now, UploadFails,
            index
    <1>8. MissInv'
        BY <1>1
        DEF IInv, ShapeInv, CallInv, PuttingInv, MissInv, Others, Now,
            UploadFails, index
    <1>9. QED
        BY <1>4, <1>5, <1>6, <1>7, <1>8 DEF IInv

\* Nor was the file that Local.Put links.
LEMMA LinkInv ==
    ASSUME IInv, NEW p \in Procs, Link(p)
    PROVE  IInv'
    <1>1. /\ Others(p)
          /\ Now(p, "idle", [op |-> call[p].op, key |-> call[p].key, err |-> "none",
                             out |-> "ok", bytes |-> "absent"])
        BY ReturnOne DEF IInv, Link
    <1>2. CallInv(call'[p])
        BY <1>1 DEF IInv, ShapeInv, CallInv, Steps, Now, Link, PuttingInv, index
    <1>3. disk' \in [Keys -> Contents] /\ staged' \in [Procs -> Contents]
        BY DEF IInv, ShapeInv, Contents, Link, PuttingInv, index
    <1>4. ShapeInv'
        BY <1>1, <1>2, <1>3
        DEF IInv, ShapeInv, CallInv, Others, Link, PuttingInv, index
    <1>5. WholeInv'
        BY <1>1
        DEF IInv, ShapeInv, CallInv, WholeInv, NothingTorn, OnDisk, Others,
            Now, Link, PuttingInv, index
    <1>6. OneFillPerKey'
        BY <1>1, FillFrame
        DEF IInv, ShapeInv, CallInv, Filling, Now, Link, PuttingInv, index
    <1>7. PuttingInv'
        BY <1>1
        DEF IInv, ShapeInv, CallInv, PuttingInv, Others, Now, Link,
            PuttingInv, index
    <1>8. MissInv'
        BY <1>1
        DEF IInv, ShapeInv, CallInv, PuttingInv, MissInv, Others, Now, Link,
            PuttingInv, index
    <1>9. QED
        BY <1>4, <1>5, <1>6, <1>7, <1>8 DEF IInv

\* Another process puts a fresh key.
LEMMA PeerPutInv ==
    ASSUME IInv, NEW k \in Keys, PeerPut(k)
    PROVE  IInv'
    <1>1. ShapeInv'
        BY DEF IInv, ShapeInv, CallInv, PeerPut, files
    <1>2. WholeInv'
        BY DEF IInv, WholeInv, NothingTorn, OnDisk, PeerPut, files
    <1>3. OneFillPerKey'
        BY DEF IInv, OneFillPerKey, Filling, PeerPut
    <1>4. PuttingInv'
        BY DEF IInv, ShapeInv, PuttingInv, PeerPut
    <1>5. MissInv'
        BY DEF IInv, ShapeInv, PuttingInv, MissInv, PeerPut
    <1>6. QED
        BY <1>1, <1>2, <1>3, <1>4, <1>5 DEF IInv

\* The file that appears under the key is the staged one, which is whole.
LEMMA RenameInv ==
    ASSUME IInv, NEW p \in Procs, Rename(p)
    PROVE  IInv'
    <1>1. Now(p, "index", call[p]) /\ Others(p)
        BY GotoOne DEF IInv, Rename
    <1>2. CallInv(call'[p])
        BY <1>1 DEF IInv, ShapeInv, CallInv, Steps, Now, Rename, remote, index
    <1>3. disk' \in [Keys -> Contents] /\ staged' \in [Procs -> Contents]
        BY DEF IInv, ShapeInv, Contents, Rename, remote, index
    <1>4. ShapeInv'
        BY <1>1, <1>2, <1>3
        DEF IInv, ShapeInv, CallInv, Others, Rename, remote, index
    <1>5. WholeInv'
        BY <1>1
        DEF IInv, ShapeInv, CallInv, WholeInv, NothingTorn, OnDisk, Others,
            Now, Rename, remote, index
    <1>6. OneFillPerKey'
        BY <1>1, FillFrame
        DEF IInv, ShapeInv, CallInv, Filling, Now, Rename, remote, index
    <1>7. PuttingInv'
        BY <1>1
        DEF IInv, ShapeInv, CallInv, PuttingInv, Others, Now, Rename,
            remote, index
    <1>8. MissInv'
        BY <1>1
        DEF IInv, ShapeInv, CallInv, PuttingInv, MissInv, Others, Now,
            Rename, remote, index
    <1>9. QED
        BY <1>4, <1>5, <1>6, <1>7, <1>8 DEF IInv

\* A publish that fails goes on as one that is done.
LEMMA RenameFailsInv ==
    ASSUME IInv, NEW p \in Procs, RenameFails(p)
    PROVE  IInv'
    BY PublishedInv DEF RenameFails

\* The index is no part of the invariant.
LEMMA PublishTouchInv ==
    ASSUME IInv, NEW p \in Procs, PublishTouch(p)
    PROVE  IInv'
    <1>1. Now(p, "trim", call[p]) /\ Others(p)
        BY GotoOne DEF IInv, PublishTouch
    <1>2. CallInv(call'[p])
        BY <1>1 DEF IInv, ShapeInv, CallInv, Steps, Now, PublishTouch, remote, files
    <1>3. disk' \in [Keys -> Contents] /\ staged' \in [Procs -> Contents]
        BY DEF IInv, ShapeInv, Contents, PublishTouch, remote, files
    <1>4. ShapeInv'
        BY <1>1, <1>2, <1>3
        DEF IInv, ShapeInv, CallInv, Others, PublishTouch, remote, files
    <1>5. WholeInv'
        BY <1>1
        DEF IInv, ShapeInv, CallInv, WholeInv, NothingTorn, OnDisk, Others,
            Now, PublishTouch, remote, files
    <1>6. OneFillPerKey'
        BY <1>1, FillFrame
        DEF IInv, ShapeInv, CallInv, Filling, Now, PublishTouch, remote,
            files
    <1>7. PuttingInv'
        BY <1>1
        DEF IInv, ShapeInv, CallInv, PuttingInv, Others, Now, PublishTouch,
            remote, files
    <1>8. MissInv'
        BY <1>1
        DEF IInv, ShapeInv, CallInv, PuttingInv, MissInv, Others, Now,
            PublishTouch, remote, files
    <1>9. QED
        BY <1>4, <1>5, <1>6, <1>7, <1>8 DEF IInv

\* A trim that begins moves one call.
LEMMA TrimBeginsInv ==
    ASSUME IInv, NEW p \in Procs, call[p].at \in {"trim", "evict", "drop"},
           Now(p, "evict", call[p]), Others(p),
           UNCHANGED <<remote, disk, staged, flight>>
    PROVE  IInv'
    <1>1. CallInv(call'[p])
        BY DEF IInv, ShapeInv, CallInv, Steps, Now
    <1>2. ShapeInv'
        BY <1>1 DEF IInv, ShapeInv, CallInv, Others, remote
    <1>3. WholeInv'
        BY DEF IInv, ShapeInv, WholeInv, NothingTorn, OnDisk, Others, Now
    <1>4. OneFillPerKey'
        BY FillFrame DEF IInv, Filling, Now
    <1>5. PuttingInv'
        BY DEF IInv, PuttingInv, Others, Now, remote
    <1>6. MissInv'
        BY DEF IInv, MissInv, Others, Now, remote
    <1>7. QED
        BY <1>2, <1>3, <1>4, <1>5, <1>6 DEF IInv

\* trim is done at once, or begins.
LEMMA TrimInv ==
    ASSUME IInv, NEW p \in Procs, Trim(p)
    PROVE  IInv'
    <1>1. CASE bytes <= MaxBytes
        BY <1>1, PublishedInv DEF Trim, files
    <1>2. CASE ~(bytes <= MaxBytes)
        <2>1. Becomes(p, [call[p] EXCEPT !.at = "evict", !.todo = entries,
                                         !.over = bytes - MaxBytes])
            BY <1>2 DEF Trim
        <2>2. /\ call'[p] = [call[p] EXCEPT !.at = "evict", !.todo = entries,
                                            !.over = bytes - MaxBytes]
              /\ Others(p)
            BY <2>1, BecomesOne DEF IInv
        <2>3. Now(p, "evict", call[p])
            BY <2>2, ZenonT(60) DEF IInv, ShapeInv, CallInv, IsCall, Now
        <2>4. QED
            BY <1>2, <2>2, <2>3, TrimBeginsInv DEF Trim, remote, files
    <1>3. QED
        BY <1>1, <1>2

\* A file less.
LEMMA EvictFileInv ==
    ASSUME IInv, NEW p \in Procs, EvictFile(p)
    PROVE  IInv'
    <1>1. Now(p, "drop", call[p]) /\ Others(p)
        BY GotoOne DEF IInv, EvictFile
    <1>2. CallInv(call'[p])
        BY <1>1 DEF IInv, ShapeInv, CallInv, Steps, Now, EvictFile, remote, index
    <1>3. disk' \in [Keys -> Contents] /\ staged' \in [Procs -> Contents]
        BY DEF IInv, ShapeInv, Contents, EvictFile, remote, index
    <1>4. ShapeInv'
        BY <1>1, <1>2, <1>3
        DEF IInv, ShapeInv, CallInv, Others, EvictFile, remote, index
    <1>5. WholeInv'
        BY <1>1
        DEF IInv, ShapeInv, CallInv, WholeInv, NothingTorn, OnDisk, Others,
            Now, EvictFile, remote, index
    <1>6. OneFillPerKey'
        BY <1>1, FillFrame
        DEF IInv, ShapeInv, CallInv, Filling, Now, EvictFile, remote, index
    <1>7. PuttingInv'
        BY <1>1
        DEF IInv, ShapeInv, CallInv, PuttingInv, Others, Now, EvictFile,
            remote, index
    <1>8. MissInv'
        BY <1>1
        DEF IInv, ShapeInv, CallInv, PuttingInv, MissInv, Others, Now,
            EvictFile, remote, index
    <1>9. QED
        BY <1>4, <1>5, <1>6, <1>7, <1>8 DEF IInv

\* trim goes on with the next candidate.
LEMMA SkipOne ==
    ASSUME IInv, NEW p \in Procs, Becomes(p, Skip(p))
    PROVE  Now(p, "evict", call[p]) /\ Others(p)
    <1>1. call'[p] = Skip(p) /\ Others(p)
        BY BecomesOne DEF IInv
    <1>2. IsCall(call[p])
        BY DEF IInv, ShapeInv, CallInv
    <1>3. Now(p, "evict", call[p])
        BY <1>1, <1>2 DEF IsCall, Now, Skip
    <1>4. QED
        BY <1>1, <1>3

\* A file that stays, stays whole.
LEMMA EvictFailsInv ==
    ASSUME IInv, NEW p \in Procs, EvictFails(p)
    PROVE  IInv'
    BY SkipOne, TrimBeginsInv DEF EvictFails, files

\* An entry less.
LEMMA EvictEntryInv ==
    ASSUME IInv, NEW p \in Procs, EvictEntry(p)
    PROVE  IInv'
    BY SkipOne, TrimBeginsInv DEF EvictEntry, files

\* trim is done.
LEMMA TrimEndsInv ==
    ASSUME IInv, NEW p \in Procs, TrimEnds(p)
    PROVE  IInv'
    BY PublishedInv DEF TrimEnds, files

-----------------------------------------------------------------------------
\* hit opens the file that is there, which is whole, or goes on to missed.
LEMMA TryHitInv ==
    ASSUME IInv, NEW p \in Procs, NEW c, NEW missed \in {"join", "bypass"},
           IsCall(c), c.op = "open", c.key \in recorded, TryHit(p, c, missed),
           c.out = "not_found" \/ c.err = "not_found" => c.key \notin store,
           ~Filling(p),
           UNCHANGED <<remote, disk, staged, flight>>
    PROVE  IInv'
    <1>1. Others(p) /\ IsCall(call'[p])
          /\ call'[p].op = "open" /\ call'[p].key = c.key
          /\ call'[p].out = c.out /\ call'[p].err = c.err
          /\ IF disk[c.key] # "absent"
             THEN call'[p].at = "touch" /\ call'[p].bytes = disk[c.key]
             ELSE call'[p].at = missed
        <2>1. CASE disk[c.key] # "absent"
            <3>1. /\ call'[p] = [c EXCEPT !.at = "touch", !.bytes = disk[c.key]]
                  /\ Others(p)
                BY <2>1, BecomesOne DEF IInv, TryHit
            <3>2. QED
                BY <2>1, <3>1 DEF IsCall
        <2>2. CASE disk[c.key] = "absent"
            <3>1. call'[p] = [c EXCEPT !.at = missed] /\ Others(p)
                BY <2>2, BecomesOne DEF IInv, TryHit
            <3>2. QED
                BY <2>2, <3>1 DEF IsCall
        <2>3. QED
            BY <2>1, <2>2
    <1>2. CallInv(call'[p])
        BY <1>1 DEF IInv, ShapeInv, CallInv, Steps
    <1>3. ShapeInv'
        BY <1>1, <1>2 DEF IInv, ShapeInv, CallInv, Others, remote
    <1>4. WholeInv'
        BY <1>1 DEF IInv, ShapeInv, WholeInv, NothingTorn, OnDisk, Others
    <1>5. OneFillPerKey'
        BY <1>1, FillFrame DEF IInv, Filling
    <1>6. PuttingInv'
        BY <1>1 DEF IInv, PuttingInv, Others, remote
    <1>7. MissInv'
        BY <1>1 DEF IInv, MissInv, Others, remote
    <1>8. QED
        BY <1>3, <1>4, <1>5, <1>6, <1>7 DEF IInv

\* A call that has just started.
LEMMA StartedIs ==
    ASSUME NEW p, NEW op, NEW k, NEW at, NEW c, c = Started(p, op, k, at)
    PROVE  IsCall(c) /\ c.at = at /\ c.op = op /\ c.key = k /\ c.out = "none"
           /\ c.err = "none" /\ c.bytes = "absent"
    BY DEF IsCall, Started, Idle

\* Only recorded artifacts are opened.
LEMMA OpenInv ==
    ASSUME IInv, NEW p \in Procs, NEW k \in Keys, Open(p, k)
    PROVE  IInv'
    <1> DEFINE c == Started(p, "open", k, "join")
    <1>1. IsCall(c) /\ c.op = "open" /\ c.key = k /\ c.out = "none" /\ c.err = "none"
        BY StartedIs
    <1>2. TryHit(p, c, "join") /\ call[p].at = "idle" /\ k \in recorded
          /\ UNCHANGED <<remote, disk, staged, flight>>
        BY DEF Open, Ready, files
    <1> HIDE DEF c
    <1>3. QED
        BY <1>1, <1>2, TryHitInv DEF Filling

\* The reader keeps what hit opened.
LEMMA HitTouchInv ==
    ASSUME IInv, NEW p \in Procs, HitTouch(p)
    PROVE  IInv'
    <1>1. Others(p) /\ Now(p, "opened", [op |-> call[p].op, key |-> call[p].key, err |-> "none",
                             out |-> call[p].out, bytes |-> call[p].bytes])
        <2>1. call'[p] = Handed(p, call[p].bytes, FALSE) /\ Others(p)
            BY BecomesOne DEF IInv, HitTouch
        <2>2. IsCall(call[p])
            BY DEF IInv, ShapeInv, CallInv
        <2>3. QED
            BY <2>1, <2>2 DEF Now, IsCall, Handed
    <1>2. CallInv(call'[p])
        BY <1>1 DEF IInv, ShapeInv, CallInv, Steps, Now, HitTouch, remote, files
    <1>3. disk' \in [Keys -> Contents] /\ staged' \in [Procs -> Contents]
        BY DEF IInv, ShapeInv, Contents, HitTouch, remote, files
    <1>4. ShapeInv'
        BY <1>1, <1>2, <1>3
        DEF IInv, ShapeInv, CallInv, Others, HitTouch, remote, files
    <1>5. WholeInv'
        BY <1>1
        DEF IInv, ShapeInv, CallInv, WholeInv, NothingTorn, OnDisk, Others,
            Now, HitTouch, remote, files
    <1>6. OneFillPerKey'
        BY <1>1, FillFrame
        DEF IInv, ShapeInv, CallInv, Filling, Now, HitTouch, remote, files
    <1>7. PuttingInv'
        BY <1>1
        DEF IInv, ShapeInv, CallInv, PuttingInv, Others, Now, HitTouch,
            remote, files
    <1>8. MissInv'
        BY <1>1
        DEF IInv, ShapeInv, CallInv, PuttingInv, MissInv, Others, Now,
            HitTouch, remote, files
    <1>9. QED
        BY <1>4, <1>5, <1>6, <1>7, <1>8 DEF IInv

\* Join takes the flight when there is none, and waits for it otherwise.
LEMMA JoinInv ==
    ASSUME IInv, NEW p \in Procs, Join(p)
    PROVE  IInv'
    <1>1. /\ call[p].at = "join" /\ call[p].op = "open" /\ call[p].key \in Keys
          /\ ~Filling(p)
        BY DEF IInv, ShapeInv, CallInv, Join, Filling
    <1>2. /\ Others(p) /\ Now(p, call'[p].at, call[p])
          /\ \/ /\ call'[p].at = "stat" /\ flight[call[p].key] = NoProc
                /\ flight' = [flight EXCEPT ![call[p].key] = p]
             \/ call'[p].at = "wait" /\ flight' = flight
        <2>1. CASE flight[call[p].key] = NoProc
            BY <2>1, GotoOne DEF IInv, Join, Now
        <2>2. CASE flight[call[p].key] # NoProc
            BY <2>2, GotoOne DEF IInv, Join, Now
        <2>3. QED
            BY <2>1, <2>2
    <1>3. CallInv(call'[p])
        BY <1>1, <1>2 DEF CallInv, Steps, Now
    <1>4. flight' \in [Keys -> Procs \union {NoProc}]
        BY <1>2 DEF IInv, ShapeInv
    <1>5. ShapeInv'
        BY <1>2, <1>3, <1>4 DEF IInv, ShapeInv, CallInv, Others, Join, remote, files
    <1>6. WholeInv'
        BY <1>2
        DEF IInv, ShapeInv, WholeInv, NothingTorn, OnDisk, Others, Now,
            Join, files
    <1>7. OneFillPerKey'
        <2>1. CASE call'[p].at = "wait" /\ flight' = flight
            BY <1>1, <1>2, <2>1, FillFrame DEF IInv, Filling, Now
        <2>2. CASE /\ call'[p].at = "stat" /\ flight[call[p].key] = NoProc
                   /\ flight' = [flight EXCEPT ![call[p].key] = p]
            <3>1. Filling(p)' /\ call'[p].key = call[p].key
                BY <1>1, <1>2, <2>2 DEF Filling, Now
            <3>2. \A q \in Procs : q # p => call'[q] = call[q] /\ (Filling(q)' <=> Filling(q))
                BY <1>2 DEF Others, Filling
            <3>3. ASSUME NEW q \in Procs, Filling(q)' PROVE flight'[call'[q].key] = q
                <4>1. CASE q = p
                    BY <1>1, <2>2, <3>1, <4>1 DEF IInv, ShapeInv
                <4>2. CASE q # p
                    <5>1. Filling(q) /\ call'[q] = call[q] /\ flight[call[q].key] = q
                        BY <3>2, <3>3, <4>2 DEF IInv, OneFillPerKey
                    <5>2. call[q].key \in Keys /\ q # NoProc
                        BY <5>1, CacheAssumption
                        DEF IInv, ShapeInv, CallInv,
                            Filling, CacheAssumption
                    <5>3. QED
                        BY <2>2, <5>1, <5>2 DEF IInv, ShapeInv
                <4>3. QED
                    BY <4>1, <4>2
            <3>4. ASSUME NEW k \in Keys, flight'[k] # NoProc
                  PROVE  Filling(flight[k])' /\ call'[flight'[k]].key = k
                <4>1. CASE k = call[p].key
                    <5>1. flight'[k] = p
                        BY <1>1, <2>2, <4>1 DEF IInv, ShapeInv
                    <5>2. QED
                        BY <3>1, <4>1, <5>1 DEF Filling
                <4>2. CASE k # call[p].key
                    <5>1. flight'[k] = flight[k] /\ flight[k] \in Procs
                        BY <2>2, <3>4, <4>2 DEF IInv, ShapeInv
                    <5>2. Filling(flight[k]) /\ call[flight[k]].key = k /\ flight[k] # p
                        BY <1>1, <3>4, <5>1 DEF IInv, OneFillPerKey
                    <5>3. QED
                        BY <3>2, <5>1, <5>2 DEF Filling
                <4>3. QED
                    BY <4>1, <4>2
            <3>5. QED
                BY <3>3, <3>4 DEF OneFillPerKey
        <2>3. QED
            BY <1>2, <2>1, <2>2
    <1>8. PuttingInv'
        BY <1>1, <1>2 DEF IInv, PuttingInv, Others, Now, Join, remote
    <1>9. MissInv'
        BY <1>1, <1>2 DEF IInv, MissInv, Others, Now, Join, remote
    <1>10. QED
        BY <1>5, <1>6, <1>7, <1>8, <1>9 DEF IInv

\* A step of a fill that stays with its flight, and publishes nothing yet.
LEMMA StillFillingInv ==
    ASSUME IInv, NEW p \in Procs, NEW a \in {"fetch", "copy"}, Goto(p, a),
           call[p].at \in {"stat", "fetch"}, UNCHANGED <<remote, disk, flight>>,
           staged' = staged \/ staged' = [staged EXCEPT ![p] = "part"]
    PROVE  IInv'
    <1>1. Now(p, a, call[p]) /\ Others(p)
        BY GotoOne DEF IInv
    <1>2. call[p].op = "open" /\ CallInv(call'[p])
        BY <1>1 DEF IInv, ShapeInv, CallInv, Steps, Now
    <1>3. staged' \in [Procs -> Contents]
        BY DEF IInv, ShapeInv, Contents
    <1>4. ShapeInv'
        BY <1>1, <1>2, <1>3 DEF IInv, ShapeInv, CallInv, Others, remote
    <1>5. WholeInv'
        BY <1>1 DEF IInv, ShapeInv, WholeInv, NothingTorn, OnDisk, Others, Now
    <1>6. OneFillPerKey'
        BY <1>1, <1>2, FillFrame DEF IInv, Filling, Now
    <1>7. PuttingInv'
        BY <1>1, <1>2 DEF IInv, PuttingInv, Others, Now, remote
    <1>8. MissInv'
        BY <1>1 DEF IInv, MissInv, Others, Now, remote
    <1>9. QED
        BY <1>4, <1>5, <1>6, <1>7, <1>8 DEF IInv

\* fill looks again.
LEMMA FillStatInv ==
    ASSUME IInv, NEW p \in Procs, FillStat(p)
    PROVE  IInv'
    <1>1. call[p].at = "stat" /\ Filling(p) /\ UNCHANGED <<remote, disk, staged>>
        BY DEF IInv, ShapeInv, CallInv, FillStat, Filling, files
    <1>2. CASE disk[call[p].key] # "absent"
        BY <1>1, <1>2, LandsInv DEF FillStat
    <1>3. CASE disk[call[p].key] = "absent"
        BY <1>1, <1>3, StillFillingInv DEF FillStat
    <1>4. QED
        BY <1>2, <1>3

\* What the bucket does not have is not found.
LEMMA FetchInv ==
    ASSUME IInv, NEW p \in Procs, Fetch(p)
    PROVE  IInv'
    <1>1. call[p].at = "fetch" /\ Filling(p) /\ UNCHANGED <<remote, disk>>
        BY DEF IInv, ShapeInv, CallInv, Fetch, Filling
    <1>2. CASE call[p].key \in store
        BY <1>1, <1>2, StillFillingInv DEF Fetch
    <1>3. CASE call[p].key \notin store
        BY <1>1, <1>3, LandsInv DEF Fetch
    <1>4. QED
        BY <1>2, <1>3

\* A bucket that fails is not one that lacks the object.
LEMMA FetchFailsInv ==
    ASSUME IInv, NEW p \in Procs, FetchFails(p)
    PROVE  IInv'
    <1>1. Filling(p) /\ UNCHANGED <<remote, disk, staged>> /\ EndFlight(p, "error")
        BY DEF IInv, ShapeInv, CallInv, FetchFails, Filling, files
    <1>2. QED
        BY <1>1, LandsInv

\* The worker has looked at what it was handed.
LEMMA MaterializeInv ==
    ASSUME IInv, NEW p \in Procs, Materialize(p)
    PROVE  IInv'
    <1>1. Others(p) /\ Now(p, "idle", [op |-> call[p].op, key |-> call[p].key, err |-> call[p].err,
                             out |-> call'[p].out, bytes |-> call[p].bytes])
          /\ call'[p].out # "not_found"
        <2> DEFINE r == IF Accepts(call[p]) THEN "ok" ELSE "rejected"
        <2>1. call'[p] = [call[p] EXCEPT !.at = "idle", !.out = r] /\ Others(p)
            BY BecomesOne DEF IInv, Materialize
        <2>2. IsCall(call[p]) /\ r # "not_found"
            BY DEF IInv, ShapeInv, CallInv
        <2> HIDE DEF r
        <2>3. QED
            BY <2>1, <2>2 DEF Now, IsCall
    <1>2. CallInv(call'[p])
        BY <1>1
        DEF IInv, ShapeInv, CallInv, Steps, Now, Materialize, remote, files,
            index
    <1>3. disk' \in [Keys -> Contents] /\ staged' \in [Procs -> Contents]
        BY DEF IInv, ShapeInv, Contents, Materialize, remote, files, index
    <1>4. ShapeInv'
        BY <1>1, <1>2, <1>3
        DEF IInv, ShapeInv, CallInv, Others, Materialize, remote, files,
            index
    <1>5. WholeInv'
        BY <1>1
        DEF IInv, ShapeInv, CallInv, WholeInv, NothingTorn, OnDisk, Others,
            Now, Materialize, remote, files, index
    <1>6. OneFillPerKey'
        BY <1>1, FillFrame
        DEF IInv, ShapeInv, CallInv, Filling, Now, Materialize, remote,
            files, index
    <1>7. PuttingInv'
        BY <1>1
        DEF IInv, ShapeInv, CallInv, PuttingInv, Others, Now, Materialize,
            remote, files, index
    <1>8. MissInv'
        BY <1>1
        DEF IInv, ShapeInv, CallInv, PuttingInv, MissInv, Others, Now,
            Materialize, remote, files, index
    <1>9. QED
        BY <1>4, <1>5, <1>6, <1>7, <1>8 DEF IInv

\* Open after the flight.
LEMMA FilledInv ==
    ASSUME IInv, NEW p \in Procs, Filled(p)
    PROVE  IInv'
    <1>1. /\ call[p].at = "filled" /\ ~Filling(p) /\ IsCall(call[p])
          /\ call[p].op = "open" /\ call[p].key \in recorded
          /\ UNCHANGED <<remote, disk, staged, flight>>
        BY DEF IInv, ShapeInv, CallInv, PuttingInv, Filled, Filling, files
    <1>2. call[p].out = "not_found" \/ call[p].err = "not_found" => call[p].key \notin store
        BY <1>1 DEF IInv, MissInv
    <1>3. CASE call[p].err = "not_found"
        BY <1>1, <1>2, <1>3, EndsInv DEF Filled
    <1>4. CASE call[p].err = "error"
        <2>1. Now(p, "bypass", call[p]) /\ Others(p)
            BY <1>4, GotoOne DEF IInv, Filled
        <2>2. CallInv(call'[p])
            BY <1>1, <2>1 DEF IInv, ShapeInv, CallInv, Steps, Now
        <2>3. ShapeInv'
            BY <1>1, <2>1, <2>2 DEF IInv, ShapeInv, CallInv, Others, remote
        <2>4. WholeInv'
            BY <1>1, <2>1
            DEF IInv, ShapeInv, WholeInv, NothingTorn, OnDisk, Others,
                Now
        <2>5. OneFillPerKey'
            BY <1>1, <2>1, FillFrame DEF IInv, Filling, Now
        <2>6. PuttingInv'
            BY <1>1, <2>1 DEF IInv, PuttingInv, Others, Now, remote
        <2>7. MissInv'
            BY <1>1, <2>1 DEF IInv, MissInv, Others, Now, remote
        <2>8. QED
            BY <2>3, <2>4, <2>5, <2>6, <2>7 DEF IInv
    <1>5. CASE call[p].err # "not_found" /\ call[p].err # "error"
        <2>1. TryHit(p, call[p], "bypass")
            BY <1>5 DEF Filled
        <2>2. QED
            BY <1>1, <1>2, <2>1, TryHitInv
    <1>6. QED
        BY <1>3, <1>4, <1>5

\* A call that is handed the whole artifact.
LEMMA HandedInv ==
    ASSUME IInv, NEW p \in Procs, Others(p), IsCall(call'[p]),
           call'[p].at = "opened", call'[p].op = "open", call'[p].bytes = "whole",
           call'[p].key \in recorded, call'[p].key \in store, ~Filling(p),
           call'[p].out # "not_found", call'[p].err = "none",
           UNCHANGED <<remote, disk, staged, flight>>
    PROVE  IInv'
    <1>1. CallInv(call'[p])
        BY DEF IInv, ShapeInv, CallInv, Steps
    <1>2. ShapeInv'
        BY <1>1 DEF IInv, ShapeInv, CallInv, Others, remote
    <1>3. WholeInv'
        BY DEF IInv, ShapeInv, WholeInv, NothingTorn, OnDisk, Others
    <1>4. OneFillPerKey'
        BY FillFrame DEF IInv, Filling
    <1>5. PuttingInv'
        BY DEF IInv, PuttingInv, Others, remote
    <1>6. MissInv'
        BY DEF IInv, MissInv, Others, remote
    <1>7. QED
        BY <1>2, <1>3, <1>4, <1>5, <1>6 DEF IInv

\* The bucket answers the caller itself.
LEMMA BypassInv ==
    ASSUME IInv, NEW p \in Procs, Bypass(p)
    PROVE  IInv'
    <1>1. /\ call[p].at = "bypass" /\ ~Filling(p) /\ IsCall(call[p])
          /\ call[p].op = "open" /\ call[p].key \in recorded
          /\ UNCHANGED <<remote, disk, staged, flight>>
        BY DEF IInv, ShapeInv, CallInv, PuttingInv, Bypass, Filling, files
    <1>2. CASE call[p].key \in store
        <2>1. call[p].out # "not_found"
            BY <1>1, <1>2 DEF IInv, MissInv
        <2>2. call'[p] = Handed(p, "whole", FALSE) /\ Others(p)
            BY <1>2, BecomesOne DEF IInv, Bypass
        <2>3. /\ IsCall(call'[p]) /\ call'[p].at = "opened" /\ call'[p].op = "open"
              /\ call'[p].bytes = "whole" /\ call'[p].key = call[p].key
              /\ call'[p].out = call[p].out /\ call'[p].err = "none"
            BY <1>1, <2>2 DEF IsCall, Handed
        <2>4. QED
            BY <1>1, <1>2, <2>1, <2>2, <2>3, HandedInv
    <1>3. CASE call[p].key \notin store
        BY <1>1, <1>3, EndsInv DEF Bypass
    <1>4. QED
        BY <1>2, <1>3

\* The bucket fails, and so does the call.
LEMMA BypassFailsInv ==
    ASSUME IInv, NEW p \in Procs, BypassFails(p)
    PROVE  IInv'
    <1>1. ~Filling(p) /\ UNCHANGED <<remote, disk, staged, flight>> /\ Return(p, "error")
        BY DEF BypassFails, Filling, files
    <1>2. QED
        BY <1>1, EndsInv

\* A call that has nothing to do with the fills begins, or is over at once.
LEMMA AtOnceInv ==
    ASSUME IInv, NEW p \in Procs, NEW s \in SUBSET store, Others(p), IsCall(call'[p]),
           call'[p].op \in {"open", "delete"}, call'[p].key \in recorded,
           \/ call'[p].at = "idle"
           \/ call'[p].op = "delete" /\ call'[p].at = "evict",
           call'[p].out = "not_found" => call'[p].key \notin s,
           call'[p].err = "none", call[p].at = "idle", store' = s,
           UNCHANGED <<tried, recorded, disk, staged, flight>>
    PROVE  IInv'
    <1>1. CallInv(call'[p])
        BY DEF IInv, ShapeInv, CallInv, Steps
    <1>2. ShapeInv'
        BY <1>1 DEF IInv, ShapeInv, CallInv, Others
    <1>3. WholeInv'
        BY DEF IInv, ShapeInv, WholeInv, NothingTorn, OnDisk, Others
    <1>4. OneFillPerKey'
        BY FillFrame DEF IInv, Filling
    <1>5. PuttingInv'
        BY DEF IInv, PuttingInv, Others
    <1>6. MissInv'
        BY DEF IInv, MissInv, Others
    <1>7. QED
        BY <1>2, <1>3, <1>4, <1>5, <1>6 DEF IInv

\* Local.Open.
LEMMA LocalOpenInv ==
    ASSUME IInv, NEW p \in Procs, NEW k \in Keys, LocalOpen(p, k)
    PROVE  IInv'
    <1>1. /\ call[p].at = "idle" /\ ~Filling(p) /\ k \in recorded
          /\ UNCHANGED <<remote, disk, staged, flight>>
        BY DEF LocalOpen, Ready, Filling, files
    <1>2. CASE k \in store
        <2>1. call'[p] = [[Idle EXCEPT !.op = "open", !.key = k]
                            EXCEPT !.at = "opened", !.bytes = "whole", !.digest = TRUE]
              /\ Others(p)
            BY <1>2, BecomesOne DEF IInv, LocalOpen
        <2>2. /\ IsCall(call'[p]) /\ call'[p].at = "opened" /\ call'[p].op = "open"
              /\ call'[p].bytes = "whole" /\ call'[p].key = k
              /\ call'[p].out = "none" /\ call'[p].err = "none"
            BY <2>1 DEF IsCall, Idle
        <2>3. QED
            BY <1>1, <1>2, <2>1, <2>2, HandedInv
    <1>3. CASE k \notin store
        <2>1. call'[p] = [[Idle EXCEPT !.op = "open", !.key = k] EXCEPT !.out = "not_found"]
              /\ Others(p)
            BY <1>3, BecomesOne DEF IInv, LocalOpen
        <2>2. /\ IsCall(call'[p]) /\ call'[p].at = "idle" /\ call'[p].op = "open"
              /\ call'[p].key = k /\ call'[p].err = "none"
            BY <2>1 DEF IsCall, Idle
        <2>3. QED
            BY <1>1, <1>3, <2>1, <2>2, AtOnceInv DEF remote
    <1>4. QED
        BY <1>2, <1>3

\* Delete takes an object out of the store, so it makes no not found untrue.
LEMMA DeleteInv ==
    ASSUME IInv, NEW p \in Procs, NEW k \in Keys, Delete(p, k)
    PROVE  IInv'
    <1> DEFINE d == [Idle EXCEPT !.op = "delete", !.key = k]
               c == IF k \notin store THEN [d EXCEPT !.out = "not_found"]
                    ELSE IF backend = "local" THEN [d EXCEPT !.out = "ok"]
                    ELSE [d EXCEPT !.at = "evict", !.todo = <<k>>, !.over = Size[k]]
    <1>1. /\ call[p].at = "idle" /\ k \in recorded /\ store' = store \ {k}
          /\ UNCHANGED <<tried, recorded, disk, staged, flight>>
          /\ Becomes(p, c)
        BY DEF Delete, Ready, files
    <1>2. call'[p] = c /\ Others(p)
        BY <1>1, BecomesOne DEF IInv
    <1>3. /\ IsCall(call'[p]) /\ call'[p].op = "delete" /\ call'[p].key = k
          /\ call'[p].at \in {"idle", "evict"} /\ call'[p].err = "none"
        <2>1. CASE k \notin store
            BY <1>2, <2>1 DEF IsCall, Idle
        <2>2. CASE k \in store /\ backend = "local"
            BY <1>2, <2>2 DEF IsCall, Idle
        <2>3. CASE k \in store /\ backend # "local"
            BY <1>2, <2>3 DEF IsCall, Idle
        <2>4. QED
            BY <2>1, <2>2, <2>3
    <1> HIDE DEF c, d
    <1>4. QED
        BY <1>1, <1>2, <1>3, AtOnceInv

\* A crash leaves the files, all whole, and no call.
LEMMA RestartInv ==
    ASSUME IInv, NEW p \in Procs, Restart(p)
    PROVE  IInv'
    <1>1. /\ flight' = [k \in Keys |-> NoProc]
          /\ staged' = [q \in Procs |-> "absent"]
          /\ UNCHANGED <<remote, disk>>
        BY DEF Restart
    <1>2. /\ call' = [q \in Procs |-> call'[q]]
          /\ \A q \in Procs :
               \/ call'[q] = Idle
               \/ call'[q] = [Idle EXCEPT !.at = "trim", !.op = "boot"]
        <2>1. CASE backend = "s3"
            BY <2>1 DEF Restart
        <2>2. CASE backend # "s3"
            BY <2>2 DEF Restart
        <2>3. QED
            BY <2>1, <2>2
    <1>3. \A q \in Procs :
            /\ IsCall(call'[q]) /\ call'[q].at \in {"idle", "trim"}
            /\ IF call'[q].at = "idle" THEN call'[q].op = "none" ELSE call'[q].op = "boot"
        <2> TAKE q \in Procs
        <2>1. CASE call'[q] = Idle
            BY <2>1 DEF IsCall, Idle
        <2>2. CASE call'[q] = [Idle EXCEPT !.at = "trim", !.op = "boot"]
            BY <2>2 DEF IsCall, Idle
        <2>3. QED
            BY <1>2, <2>1, <2>2
    <1>4. \A q \in Procs : CallInv(call'[q])
        BY <1>3 DEF CallInv, Steps
    <1>5. ShapeInv'
        BY <1>1, <1>2, <1>4 DEF IInv, ShapeInv, Contents, remote
    <1>6. WholeInv'
        BY <1>1, <1>3 DEF IInv, WholeInv, NothingTorn, OnDisk
    <1>7. OneFillPerKey'
        BY <1>1, <1>3 DEF OneFillPerKey, Filling
    <1>8. PuttingInv'
        BY <1>3 DEF PuttingInv
    <1>9. MissInv'
        BY <1>3 DEF MissInv
    <1>10. QED
        BY <1>5, <1>6, <1>7, <1>8, <1>9 DEF IInv

-----------------------------------------------------------------------------
(* Theorems *)

\* Every step of the cache, the local store and their callers keeps the invariant.
LEMMA StepInv ==
    ASSUME IInv, [Next]_vars
    PROVE  IInv'
    <1>1. CASE UNCHANGED vars
        BY <1>1, ZenonT(60)
           DEF vars, IInv, ShapeInv, WholeInv, NothingTorn, OnDisk, OneFillPerKey, Filling, PuttingInv,
               MissInv
    <1>2. ASSUME NEW p \in Procs, Progress(p) PROVE IInv'
        BY <1>2, CopyDoneInv, UploadInv, LinkInv, RenameInv, PublishTouchInv,
           TrimInv,
           EvictFileInv, EvictEntryInv, TrimEndsInv, HitTouchInv, JoinInv, FillStatInv,
           FetchInv, FilledInv, BypassInv, MaterializeInv DEF Progress
    <1>3. ASSUME NEW p \in Procs, Failure(p) PROVE IInv'
        BY <1>3, CopyFailsInv, UploadFailsInv, RenameFailsInv, EvictFailsInv,
           FetchFailsInv, BypassFailsInv DEF Failure
    <1>4. QED
        BY <1>1, <1>2, <1>3, RestartInv, PutInv, OpenInv, LocalOpenInv, DeleteInv,
           PeerPutInv DEF Next

\* The invariant holds of every behaviour.
THEOREM CacheInvariant == Spec => []IInv
    <1>1. QED
        BY InitInv, StepInv, PTL DEF Spec

\* For every number of goroutines, artifacts, faults and crashes, the cache shows
\* and Open hands out whole artifacts only.
THEOREM NeverTorn == Spec => []NothingTorn
    <1>1. IInv => NothingTorn
        BY DEF IInv, WholeInv
    <1>2. QED
        BY <1>1, CacheInvariant, PTL

\* ... an artifact is not found only when it is not in the store, whoever filled
\* the key and however that failed.
THEOREM NotFoundHonest == Spec => []NotFoundIsTrue
    <1>1. IInv => NotFoundIsTrue
        BY DEF IInv, MissInv, NotFoundIsTrue
    <1>2. QED
        BY <1>1, CacheInvariant, PTL

\* ... and at any time at most one call fills a key, the one its flight names.
THEOREM FillsCollapse == Spec => []OneFillPerKey
    <1>1. IInv => OneFillPerKey
        BY DEF IInv
    <1>2. QED
        BY <1>1, CacheInvariant, PTL

-----------------------------------------------------------------------------
(* The index: sums and orders *)

\* The bytes of one artifact, and of several.
BytesOf(k) == {k} \X (1 .. Size[k])
AllBytes(keys) == UNION {BytesOf(k) : k \in keys}

\* An artifact is as large as it is.
LEMMA BytesOfOne ==
    ASSUME NEW k \in Keys
    PROVE  IsFiniteSet(BytesOf(k)) /\ Cardinality(BytesOf(k)) = Size[k]
    <1>1. PICK n \in Nat : n = Size[k]
        BY CacheAssumption
    <1>2. IsFiniteSet({k}) /\ Cardinality({k}) = 1
        BY FS_Singleton
    <1>3. IsFiniteSet(1 .. n) /\ Cardinality(1 .. n) = n
        BY FS_Interval
    <1>4. /\ IsFiniteSet({k} \X (1 .. n))
          /\ Cardinality({k} \X (1 .. n)) = Cardinality({k}) * Cardinality(1 .. n)
        BY <1>2, <1>3, FS_Product
    <1>5. 1 * n = n
        BY <1>1
    <1>6. QED
        BY <1>1, <1>2, <1>3, <1>4, <1>5 DEF BytesOf

\* The artifacts of a set of keys have finitely many bytes.
LEMMA BytesFinite ==
    ASSUME NEW S \in SUBSET Keys
    PROVE  IsFiniteSet(S) /\ IsFiniteSet(AllBytes(S)) /\ SizeOf(S) = Cardinality(AllBytes(S))
    <1>1. IsFiniteSet(S)
        BY CacheAssumption, FS_Subset
    <1> DEFINE T == {BytesOf(k) : k \in S}
               f == [k \in S |-> BytesOf(k)]
    <1>2. f \in Surjection(S, T)
        <2>1. f \in [S -> T]
            OBVIOUS
        <2>2. \A t \in T : \E k \in S : f[k] = t
            OBVIOUS
        <2>3. QED
            BY <2>1, <2>2, Fun_IsSurj
    <1>3. IsFiniteSet(T)
        BY <1>1, <1>2, FS_Surjection
    <1>4. \A t \in T : IsFiniteSet(t)
        BY BytesOfOne
    <1>5. IsFiniteSet(UNION T)
        BY <1>3, <1>4, FS_UNION
    <1>6. QED
        BY <1>1, <1>5 DEF AllBytes, SizeOf, BytesOf

\* What is left of a set of keys, and what is added to one.
LEMMA SizeAdds ==
    ASSUME NEW S \in SUBSET Keys, NEW k \in Keys, k \notin S
    PROVE  SizeOf(S \union {k}) = SizeOf(S) + Size[k] /\ SizeOf(S) \in Nat
    <1>1. IsFiniteSet(AllBytes(S)) /\ SizeOf(S) = Cardinality(AllBytes(S))
        BY BytesFinite
    <1>2. S \union {k} \in SUBSET Keys
        OBVIOUS
    <1>3. SizeOf(S \union {k}) = Cardinality(AllBytes(S \union {k}))
        BY <1>2, BytesFinite
    <1>4. AllBytes(S \union {k}) = AllBytes(S) \union BytesOf(k)
        BY DEF AllBytes
    <1>5. AllBytes(S) \intersect BytesOf(k) = {}
        BY DEF AllBytes, BytesOf
    <1>6. IsFiniteSet(BytesOf(k)) /\ Cardinality(BytesOf(k)) = Size[k]
        BY BytesOfOne
    <1>7. Cardinality(AllBytes(S) \union BytesOf(k)) =
            Cardinality(AllBytes(S)) + Cardinality(BytesOf(k)) - Cardinality(AllBytes(S) \intersect BytesOf(k))
        BY <1>1, <1>6, FS_Union
    <1>8. Cardinality(AllBytes(S) \intersect BytesOf(k)) = 0
        BY <1>5, FS_EmptySet
    <1>9. Cardinality(AllBytes(S)) \in Nat /\ Size[k] \in Nat
        BY <1>1, FS_CardinalityType, CacheAssumption
    <1>10. PICK m \in Nat, n \in Nat : m = Cardinality(AllBytes(S)) /\ n = Size[k]
        BY <1>9
    <1>11. SizeOf(S \union {k}) = m + n - 0
        BY <1>3, <1>4, <1>6, <1>7, <1>8, <1>10
    <1>12. QED
        BY <1>1, <1>10, <1>11

\* Every set of keys has a size, and none that of nothing.
LEMMA SizeTyped ==
    ASSUME NEW S \in SUBSET Keys
    PROVE  SizeOf(S) \in Nat /\ SizeOf({}) = 0
    <1>1. IsFiniteSet(AllBytes(S)) /\ SizeOf(S) = Cardinality(AllBytes(S))
        BY BytesFinite
    <1>2. AllBytes({}) = {} /\ SizeOf({}) = Cardinality(AllBytes({}))
        BY BytesFinite DEF AllBytes
    <1>3. QED
        BY <1>1, <1>2, FS_CardinalityType, FS_EmptySet

\* A list of keys that has each once.
Once(s) == s \in Seq(Keys) /\ \A i, j \in 1 .. Len(s) : s[i] = s[j] => i = j
Listed(s) == {s[i] : i \in 1 .. Len(s)}

\* What is used last comes last, once.
LEMMA AppendOnce ==
    ASSUME NEW s, Once(s), NEW k \in Keys, k \notin Listed(s)
    PROVE  Once(Append(s, k)) /\ Listed(Append(s, k)) = Listed(s) \union {k}
    <1> DEFINE t == Append(s, k)
    <1>1. /\ t \in Seq(Keys) /\ Len(t) = Len(s) + 1 /\ Len(s) \in Nat
          /\ \A n \in 1 .. Len(s) : t[n] = s[n]
          /\ t[Len(s) + 1] = k
        BY DEF Once
    <1> HIDE DEF t
    <1>2. \A m, n \in 1 .. Len(t) : t[m] = t[n] => m = n
        BY <1>1 DEF Once, Listed
    <1>3. \A x : x \in Listed(t) <=> (x = k \/ x \in Listed(s))
        BY <1>1 DEF Listed
    <1>4. QED
        BY <1>1, <1>2, <1>3 DEF t, Once

\* A key is taken out of the list.
LEMMA WithoutOne ==
    ASSUME NEW s, Once(s), NEW k \in Keys
    PROVE  Once(Without(s, k)) /\ Listed(Without(s, k)) = Listed(s) \ {k}
    <1>1. CASE k \notin Listed(s)
        <2>1. Without(s, k) = s
            BY <1>1 DEF Without, Listed
        <2>2. QED
            BY <1>1, <2>1
    <1>2. CASE k \in Listed(s)
        <2> DEFINE g == CHOOSE i \in 1 .. Len(s) : s[i] = k
                   t == Without(s, k)
        <2>1. g \in 1 .. Len(s) /\ s[g] = k
            BY <1>2 DEF Listed
        <2>2. t = [i \in 1 .. (Len(s) - 1) |-> IF i < g THEN s[i] ELSE s[i + 1]]
            BY <1>2 DEF Without, Listed
        <2>3. s \in Seq(Keys) /\ Len(s) \in Nat /\ Len(s) - 1 \in Nat
            BY <2>1 DEF Once
        <2> HIDE DEF g, t
        <2>4. \A n \in 1 .. (Len(s) - 1) : t[n] \in Keys
            BY <2>1, <2>2, <2>3
        <2>5. t \in Seq(Keys) /\ Len(t) = Len(s) - 1
            BY <2>2, <2>3, <2>4
        <2>6. \A m, n \in 1 .. Len(t) : t[m] = t[n] => m = n
            BY <2>1, <2>2, <2>3, <2>5 DEF Once
        <2>7. ASSUME NEW n \in 1 .. Len(t) PROVE t[n] \in Listed(s) \ {k}
            <3>1. CASE n < g
                BY <2>1, <2>2, <2>3, <2>5, <3>1 DEF Once, Listed
            <3>2. CASE ~(n < g)
                <4>1. n + 1 \in 1 .. Len(s) /\ s[n + 1] = t[n] /\ n + 1 # g
                    BY <2>1, <2>2, <2>3, <2>5, <3>2
                <4>2. QED
                    BY <2>1, <4>1 DEF Once, Listed
            <3>3. QED
                BY <3>1, <3>2
        <2>8. ASSUME NEW n \in 1 .. Len(s), s[n] # k PROVE s[n] \in Listed(t)
            <3>1. CASE n < g
                <4>1. n \in 1 .. Len(t) /\ t[n] = s[n]
                    BY <2>1, <2>2, <2>3, <2>5, <3>1
                <4>2. QED
                    BY <4>1 DEF Listed
            <3>2. CASE ~(n < g)
                <4>1. n # g
                    BY <2>1, <2>8
                <4>2. n - 1 \in 1 .. Len(t) /\ t[n - 1] = s[n]
                    BY <2>1, <2>2, <2>3, <2>5, <3>2, <4>1
                <4>3. QED
                    BY <4>2 DEF Listed
            <3>3. QED
                BY <3>1, <3>2
        <2>9. Listed(t) = Listed(s) \ {k}
            BY <2>7, <2>8 DEF Listed
        <2>10. Once(t)
            BY <2>5, <2>6 DEF Once
        <2>11. QED
            BY <2>9, <2>10 DEF t
    <1>3. QED
        BY <1>1, <1>2

\* The first key of a list is taken off.
LEMMA TailOne ==
    ASSUME NEW s, Once(s), s # <<>>
    PROVE  Head(s) \in Listed(s) /\ Head(s) \in Keys /\ Once(Tail(s)) /\ Listed(Tail(s)) = Listed(s) \ {Head(s)}
    <1> DEFINE t == Tail(s)
    <1>1. /\ s \in Seq(Keys) /\ Len(s) \in Nat /\ Len(s) > 0 /\ Head(s) = s[1]
          /\ t \in Seq(Keys) /\ Len(t) = Len(s) - 1 /\ \A n \in 1 .. Len(t) : t[n] = s[n + 1]
        BY DEF Once
    <1> HIDE DEF t
    <1>2. \A m, n \in 1 .. Len(t) : t[m] = t[n] => m = n
        BY <1>1 DEF Once
    <1>3. ASSUME NEW n \in 1 .. Len(t) PROVE t[n] \in Listed(s) \ {s[1]}
        <2>1. n + 1 \in 1 .. Len(s) /\ t[n] = s[n + 1] /\ n + 1 # 1 /\ 1 \in 1 .. Len(s)
            BY <1>1
        <2>2. QED
            BY <2>1 DEF Once, Listed
    <1>4. ASSUME NEW n \in 1 .. Len(s), s[n] # s[1] PROVE s[n] \in Listed(t)
        <2>1. n # 1
            BY <1>4
        <2>2. n - 1 \in 1 .. Len(t) /\ t[n - 1] = s[n]
            BY <1>1, <2>1
        <2>3. QED
            BY <2>2 DEF Listed
    <1>5. s[1] \in Listed(s) /\ s[1] \in Keys
        BY <1>1 DEF Listed
    <1>6. QED
        BY <1>1, <1>2, <1>3, <1>4, <1>5, SMTT(60) DEF t, Once, Listed

\* The orders of a set of keys have each of them once, and all of them.
LEMMA OrdersOnce ==
    ASSUME NEW S \in SUBSET Keys, NEW s \in Orders(S)
    PROVE  Once(s) /\ Listed(s) = S
    <1>1. IsFiniteSet(S)
        BY BytesFinite
    <1>2. PICK n \in Nat : n = Cardinality(S)
        BY <1>1, FS_CardinalityType
    <1>3. s \in [1 .. n -> S] /\ \A i, j \in 1 .. n : s[i] = s[j] => i = j
        BY <1>2 DEF Orders
    <1>4. s \in Seq(Keys) /\ Len(s) = n
        BY <1>2, <1>3
    <1>5. s \in Injection(1 .. n, S)
        BY <1>3, Fun_IsInj
    <1>6. Cardinality(1 .. n) = n
        BY FS_Interval
    <1>7. s \in Surjection(1 .. n, S)
        BY <1>1, <1>2, <1>5, <1>6, FS_Injection
    <1>8. \A x \in S : \E i \in 1 .. n : s[i] = x
        BY <1>7 DEF Surjection
    <1>9. QED
        BY <1>3, <1>4, <1>8 DEF Once, Listed

\* ... and such a list is an order of its keys.
LEMMA OnceOrders ==
    ASSUME NEW s, Once(s)
    PROVE  s \in Orders(Listed(s)) /\ Listed(s) \in SUBSET Keys
    <1>1. PICK n \in Nat : n = Len(s) /\ s \in Seq(Keys)
        BY DEF Once
    <1>2. s \in [1 .. n -> Listed(s)] /\ \A i, j \in 1 .. n : s[i] = s[j] => i = j
        BY <1>1 DEF Listed, Once
    <1>3. Listed(s) \in SUBSET Keys
        BY <1>1 DEF Listed
    <1>4. s \in Surjection(1 .. n, Listed(s)) /\ s \in Injection(1 .. n, Listed(s))
        <2>1. \A x \in Listed(s) : \E i \in 1 .. n : s[i] = x
            BY <1>1 DEF Listed
        <2>2. QED
            BY <1>2, <2>1, Fun_IsInj, Fun_IsSurj
    <1>5. IsFiniteSet(1 .. n) /\ Cardinality(1 .. n) = n
        BY FS_Interval
    <1>6. Cardinality(Listed(s)) = n
        BY <1>4, <1>5, FS_Surjection
    <1>7. QED
        BY <1>2, <1>3, <1>6 DEF Orders

-----------------------------------------------------------------------------
(* What the cache accounts for *)

IndexInv == Once(entries) /\ bytes = SizeOf(Indexed)

\* Who has a staged file, and which candidates an eviction has left.
Staging == {"copy", "upload", "link", "publish"}
CandidatesOf(c) == Once(c.todo) /\ (c.at = "drop" => c.todo # <<>>)
StagedInv == \A p \in Procs : call[p].at \in Staging <=> staged[p] # "absent"
TodoInv == \A p \in Procs : CandidatesOf(call[p])

\* What is left of the faults, and what was left behind for those that are gone.
SpentInv ==
    /\ spent \in [calls : Nat, deletes : Nat, faults : 0 .. MaxFaults, restarts : Nat]
    /\ orphans \in Nat /\ StagingSwept

AccountInv ==
    /\ backend \in Backends /\ store \subseteq tried
    /\ IndexInv /\ StagedInv /\ TodoInv /\ SpentInv

\* touch puts a key at the end of the index, and its size in the sum.
LEMMA TouchIndex ==
    ASSUME IndexInv, NEW k \in Keys, Touch(k)
    PROVE  IndexInv' /\ Indexed' = Indexed \union {k}
    <1>0. Indexed = Listed(entries)
        BY DEF Indexed, Listed
    <1>1. /\ Once(Without(entries, k)) /\ Listed(Without(entries, k)) = Indexed \ {k}
        BY <1>0, WithoutOne DEF IndexInv
    <1>2. /\ Once(Append(Without(entries, k), k))
          /\ Listed(Append(Without(entries, k), k)) = (Indexed \ {k}) \union {k}
        BY <1>1, AppendOnce
    <1>3. Once(entries)' /\ Indexed' = Indexed \union {k}
        BY <1>2 DEF Touch, Indexed, Listed, Once
    <1>4. Indexed \in SUBSET Keys
        BY OnceOrders DEF IndexInv, Indexed, Listed
    <1>5. CASE k \in Indexed
        <2>1. Indexed' = Indexed /\ bytes' = bytes
            BY <1>3, <1>5 DEF Touch
        <2>2. SizeOf(Indexed)' = SizeOf(Indexed)
            BY <2>1 DEF SizeOf
        <2>3. QED
            BY <1>3, <1>5, <2>1, <2>2 DEF IndexInv
    <1>6. CASE k \notin Indexed
        <2>1. bytes' = bytes + Size[k]
            BY <1>6 DEF Touch
        <2>2. SizeOf(Indexed \union {k}) = SizeOf(Indexed) + Size[k]
            BY <1>4, <1>6, SizeAdds
        <2>3. SizeOf(Indexed)' = SizeOf(Indexed \union {k})
            BY <1>3 DEF SizeOf
        <2>4. QED
            BY <1>3, <2>1, <2>2, <2>3 DEF IndexInv
    <1>7. QED
        BY <1>5, <1>6

\* evict takes a key out of the index, and its size out of the sum.
LEMMA ForgetIndex ==
    ASSUME IndexInv, NEW k \in Keys, Forget(k)
    PROVE  /\ IndexInv' /\ Indexed' = Indexed \ {k}
           /\ bytes' = IF k \in Indexed THEN bytes - Size[k] ELSE bytes
           /\ bytes \in Nat /\ bytes' \in Nat /\ Size[k] \in Nat
    <1>0. Indexed = Listed(entries)
        BY DEF Indexed, Listed
    <1>1. /\ Once(Without(entries, k)) /\ Listed(Without(entries, k)) = Indexed \ {k}
        BY <1>0, WithoutOne DEF IndexInv
    <1>2. Once(entries)' /\ Indexed' = Indexed \ {k}
        BY <1>1 DEF Forget, Indexed, Listed, Once
    <1>3. Indexed \in SUBSET Keys
        BY OnceOrders DEF IndexInv, Indexed, Listed
    <1>4. SizeOf(Indexed)' = SizeOf(Indexed \ {k})
        BY <1>2 DEF SizeOf
    <1>5. SizeOf(Indexed \ {k}) \in Nat /\ SizeOf(Indexed) \in Nat
        BY <1>3, SizeTyped
    <1>6. Size[k] \in Nat
        BY CacheAssumption
    <1>7. bytes' = SizeOf(Indexed \ {k})
        <2>1. CASE k \in Indexed
            <3>1. Indexed \ {k} \in SUBSET Keys /\ k \notin Indexed \ {k} /\ (Indexed \ {k}) \union {k} = Indexed
                BY <1>3, <2>1
            <3>2. SizeOf((Indexed \ {k}) \union {k}) = SizeOf(Indexed \ {k}) + Size[k]
                BY <3>1, SizeAdds
            <3>3. SizeOf(Indexed) = SizeOf(Indexed \ {k}) + Size[k]
                BY <3>1, <3>2
            <3>4. bytes = SizeOf(Indexed) /\ bytes' = bytes - Size[k]
                BY <2>1 DEF IndexInv, Forget
            <3>5. PICK m \in Nat, n \in Nat : m = SizeOf(Indexed \ {k}) /\ n = Size[k]
                BY <1>5, <1>6
            <3>6. bytes' = (m + n) - n
                BY <3>3, <3>4, <3>5
            <3>7. QED
                BY <3>5, <3>6
        <2>2. CASE k \notin Indexed
            <3>1. Indexed \ {k} = Indexed
                BY <2>2
            <3>2. QED
                BY <2>2, <3>1 DEF IndexInv, Forget
        <2>3. QED
            BY <2>1, <2>2
    <1>8. QED
        BY <1>2, <1>4, <1>5, <1>6, <1>7 DEF IndexInv, Forget

\* The index keeps its keys once and the sum of their sizes, in every step.
LEMMA IndexStep ==
    ASSUME IInv, AccountInv, [Next]_vars
    PROVE  IndexInv'
    <1>1. CASE UNCHANGED index
        <2>1. UNCHANGED <<entries, bytes>>
            BY <1>1 DEF index
        <2>2. Indexed' = Indexed
            BY <2>1 DEF Indexed
        <2>3. QED
            BY <2>1, <2>2 DEF AccountInv, IndexInv, Once, SizeOf
    <1>2. CASE \E k \in Keys : Touch(k) \/ Forget(k)
        BY <1>2, TouchIndex, ForgetIndex DEF AccountInv
    <1>3. ASSUME NEW p \in Procs, PublishTouch(p) \/ HitTouch(p) PROVE \E k \in Keys : Touch(k) \/ Forget(k)
        <2>1. call[p].key \in Keys
            BY <1>3 DEF PublishTouch, HitTouch, IInv, ShapeInv, CallInv
        <2>2. QED
            BY <1>3, <2>1 DEF PublishTouch, HitTouch
    <1>4. ASSUME NEW p \in Procs, EvictEntry(p) PROVE \E k \in Keys : Touch(k) \/ Forget(k)
        <2>1. Once(call[p].todo) /\ call[p].todo # <<>>
            BY <1>4 DEF EvictEntry, AccountInv, TodoInv, CandidatesOf
        <2>2. Head(call[p].todo) \in Keys
            BY <2>1, TailOne
        <2>3. QED
            BY <1>4, <2>2 DEF EvictEntry
    <1>5. CASE entries' \in Orders(OnDisk) /\ bytes' = SizeOf(OnDisk)
        <2>1. OnDisk \in SUBSET Keys
            BY DEF OnDisk
        <2>2. PICK s \in Orders(OnDisk) : s = entries'
            BY <1>5
        <2>3. Once(s) /\ Listed(s) = OnDisk
            BY <2>1, OrdersOnce
        <2>4. Once(entries)' /\ Indexed' = OnDisk
            BY <2>2, <2>3 DEF Once, Indexed, Listed
        <2>5. SizeOf(Indexed)' = SizeOf(OnDisk)
            BY <2>4 DEF SizeOf
        <2>6. QED
            BY <1>5, <2>4, <2>5 DEF IndexInv
    <1>6. ASSUME NEW p \in Procs, Restart(p) PROVE IndexInv'
        BY <1>1, <1>5, <1>6 DEF Restart
    <1>7. CASE UNCHANGED vars
        BY <1>1, <1>7 DEF vars, index
    <1>8. ASSUME NEW p \in Procs, Progress(p) PROVE IndexInv'
        BY <1>1, <1>2, <1>3, <1>4, <1>8
           DEF Progress, CopyDone, Upload, Link, Rename, Trim, EvictFile, TrimEnds, Join, FillStat, Fetch,
               Filled, Bypass, Materialize
    <1>9. ASSUME NEW p \in Procs, Failure(p) PROVE IndexInv'
        BY <1>1, <1>9 DEF Failure, CopyFails, UploadFails, RenameFails, EvictFails, FetchFails, BypassFails
    <1>10. QED
        BY <1>1, <1>6, <1>7, <1>8, <1>9 DEF Next, Put, Open, LocalOpen, Delete, PeerPut

\* Only what was put is in the store.
LEMMA StoreStep ==
    ASSUME IInv, AccountInv, [Next]_vars
    PROVE  backend' \in Backends /\ store' \subseteq tried'
    <1>1. SUFFICES store' \subseteq tried'
        BY DEF AccountInv, Next, vars
    <1>2. CASE UNCHANGED remote
        BY <1>2 DEF AccountInv, remote
    <1>3. \A p \in Procs : call[p].at \in {"upload", "link"} => call[p].key \in tried
        BY DEF IInv, ShapeInv, CallInv, PuttingInv
    <1>4. CASE store' \subseteq store /\ tried \subseteq tried'
        BY <1>4 DEF AccountInv
    <1>5. ASSUME NEW p \in Procs, Upload(p) \/ UploadFails(p) \/ Link(p) PROVE store' \subseteq tried'
        BY <1>3, <1>5 DEF AccountInv, Upload, UploadFails, Link
    <1>6. ASSUME NEW k \in Keys, PeerPut(k) PROVE store' \subseteq tried'
        BY <1>6 DEF AccountInv, PeerPut
    <1>7. ASSUME NEW p \in Procs, NEW k \in Keys, Put(p, k) \/ Open(p, k) \/ LocalOpen(p, k) \/ Delete(p, k)
          PROVE  store' \subseteq store /\ tried \subseteq tried'
        BY <1>7 DEF Put, Open, LocalOpen, Delete, remote
    <1>8. ASSUME NEW p \in Procs, Progress(p), ~Upload(p), ~Link(p)
          PROVE  store' \subseteq store /\ tried \subseteq tried'
        BY <1>8
           DEF Progress, CopyDone, Rename, PublishTouch, Trim, EvictFile, EvictEntry, TrimEnds, HitTouch,
               Join, FillStat, Fetch, Filled, Bypass, Materialize, remote
    <1>9. ASSUME NEW p \in Procs, Failure(p) \/ Restart(p), ~UploadFails(p)
          PROVE  store' \subseteq store /\ tried \subseteq tried'
        BY <1>9 DEF Failure, CopyFails, RenameFails, EvictFails, FetchFails, BypassFails, Restart, remote
    <1>10. CASE UNCHANGED vars
        BY <1>2, <1>10 DEF vars, remote
    <1>11. QED
        BY <1>4, <1>5, <1>6, <1>7, <1>8, <1>9, <1>10 DEF Next

\* A fault is spent for every staged file left behind, and a restart of the cache
\* leaves none.
LEMMA SpentStep ==
    ASSUME IInv, AccountInv, [Next]_vars
    PROVE  SpentInv'
    <1>1. PICK m \in Nat : m = MaxFaults
        BY CacheAssumption
    <1>2. PICK s \in [calls : Nat, deletes : Nat, faults : 0 .. MaxFaults, restarts : Nat] : s = spent
        BY DEF AccountInv, SpentInv
    <1>3. spent["faults"] = s.faults /\ s.faults \in 0 .. m /\ orphans \in Nat
        BY <1>1, <1>2 DEF AccountInv, SpentInv
    <1>4. backend = "s3" => orphans <= m - s.faults
        BY <1>1, <1>3 DEF AccountInv, SpentInv, StagingSwept
    <1>5. UNCHANGED backend
        BY DEF Next, vars
    <1>6. ASSUME UNCHANGED spent, UNCHANGED orphans PROVE SpentInv'
        BY <1>5, <1>6 DEF AccountInv, SpentInv, StagingSwept
    <1>7. ASSUME NEW what \in {"calls", "deletes"}, Spend(what), UNCHANGED orphans
          PROVE  SpentInv'
        <2>1. /\ spent' \in [calls : Nat, deletes : Nat, faults : 0 .. MaxFaults, restarts : Nat]
              /\ spent'["faults"] = s.faults
            BY <1>2, <1>7 DEF Spend
        <2>2. QED
            BY <1>1, <1>3, <1>4, <1>5, <1>7, <2>1 DEF SpentInv, StagingSwept
    <1>8. ASSUME Spend("faults"), orphans' \in {orphans, orphans + 1}
          PROVE  SpentInv'
        <2>1. s.faults > 0 /\ spent' = [s EXCEPT !.faults = s.faults - 1]
            BY <1>2, <1>8 DEF Spend
        <2>2. s.faults - 1 \in 0 .. MaxFaults
            BY <1>1, <1>3, <2>1
        <2>3. /\ spent' \in [calls : Nat, deletes : Nat, faults : 0 .. MaxFaults, restarts : Nat]
              /\ spent'["faults"] = s.faults - 1
            BY <2>1, <2>2
        <2>4. backend = "s3" => orphans' <= m - (s.faults - 1)
            BY <1>3, <1>4, <1>8
        <2>5. QED
            BY <1>1, <1>3, <1>5, <1>8, <2>3, <2>4 DEF SpentInv, StagingSwept
    <1>9. ASSUME NEW p \in Procs, Progress(p) PROVE SpentInv'
        BY <1>6, <1>9
           DEF Progress, CopyDone, Upload, Link, Rename, PublishTouch, Trim, EvictFile, EvictEntry, TrimEnds,
               HitTouch, Join, FillStat, Fetch, Filled, Bypass, Materialize, files
    <1>10. ASSUME NEW p \in Procs, Failure(p) PROVE SpentInv'
        BY <1>6, <1>8, <1>10
           DEF Failure, CopyFails, UploadFails, RenameFails, EvictFails, FetchFails, BypassFails, files
    <1>11. ASSUME NEW p \in Procs, Restart(p) PROVE SpentInv'
        <2>1. /\ IsFiniteSet({q \in Procs : staged[q] # "absent"})
            BY CacheAssumption, FS_Subset
        <2>2. Cardinality({q \in Procs : staged[q] # "absent"}) \in Nat
            BY <2>1, FS_CardinalityType
        <2>3. orphans' = IF backend = "s3" THEN 0
                         ELSE orphans + Cardinality({q \in Procs : staged[q] # "absent"})
            BY <1>11 DEF Restart, LeftStaged
        <2>4. orphans' \in Nat /\ (backend = "s3" => orphans' = 0)
            BY <1>3, <2>2, <2>3
        <2>5. spent' \in [calls : Nat, deletes : Nat, faults : 0 .. MaxFaults, restarts : Nat]
              /\ spent'["faults"] = s.faults
            BY <1>2, <1>11 DEF Restart, Spend
        <2>6. QED
            BY <1>1, <1>3, <1>5, <2>4, <2>5 DEF SpentInv, StagingSwept
    <1>12. ASSUME NEW k \in Keys, PeerPut(k) \/ \E p \in Procs : Put(p, k) \/ Open(p, k) \/ LocalOpen(p, k) \/ Delete(p, k)
           PROVE  SpentInv'
        <2>1. (Spend("calls") \/ Spend("deletes")) /\ UNCHANGED orphans
            BY <1>12 DEF PeerPut, Put, Open, LocalOpen, Delete, files
        <2>2. QED
            BY <1>3, <1>7, <2>1
    <1>13. CASE UNCHANGED vars
        BY <1>6, <1>13 DEF vars
    <1>14. QED
        BY <1>9, <1>10, <1>11, <1>12, <1>13 DEF Next

-----------------------------------------------------------------------------
(* The calls: what they staged, and what they may evict *)

\* The steps of one call, for what it staged and the candidates it has left.
CallOK(q) == (call[q].at \in Staging <=> staged[q] # "absent") /\ CandidatesOf(call[q])

\* One call changes, and its staged file.
LEMMA OneCall ==
    ASSUME IInv, AccountInv, NEW p \in Procs, Others(p), CallOK(p)',
           \A q \in Procs : q # p => staged'[q] = staged[q]
    PROVE  StagedInv' /\ TodoInv'
    BY DEF AccountInv, StagedInv, TodoInv, CallOK, CandidatesOf, Others

\* The list of nothing.
LEMMA NothingOnce == Once(<<>>) /\ Listed(<<>>) = {}
    BY DEF Once, Listed

\* A call goes on to another step.
LEMMA GotoTodo ==
    ASSUME IInv, NEW p \in Procs, NEW a, Goto(p, a)
    PROVE  Others(p) /\ call'[p].at = a /\ call'[p].todo = call[p].todo /\ call'[p].over = call[p].over
    <1>1. call'[p] = [call[p] EXCEPT !.at = a] /\ Others(p)
        BY BecomesOne DEF Goto, IInv
    <1>2. IsCall(call[p])
        BY DEF IInv, ShapeInv, CallInv
    <1>3. QED
        BY <1>1, <1>2 DEF IsCall

\* A call ends.
LEMMA ReturnTodo ==
    ASSUME IInv, NEW p \in Procs, NEW r, Return(p, r)
    PROVE  Others(p) /\ call'[p].at = "idle" /\ call'[p].todo = <<>>
    <1>1. call'[p] = [Idle EXCEPT !.op = call[p].op, !.key = call[p].key, !.out = r] /\ Others(p)
        BY BecomesOne DEF Return, IInv
    <1>2. QED
        BY <1>1 DEF Idle

\* A call ends, or goes on, and stages or drops its file.
LEMMA CallMoves ==
    ASSUME IInv, AccountInv, NEW p \in Procs, NEW a, Goto(p, a), a # "drop",
           \/ a \in Staging /\ \E c \in {"part", "whole"} : staged' = [staged EXCEPT ![p] = c]
           \/ a \notin Staging /\ staged' = [staged EXCEPT ![p] = "absent"]
           \/ (a \in Staging <=> call[p].at \in Staging) /\ staged' = staged
    PROVE  StagedInv' /\ TodoInv'
    <1>1. Others(p) /\ call'[p].at = a /\ call'[p].todo = call[p].todo
        BY GotoTodo
    <1>2. staged \in [Procs -> Contents]
        BY DEF IInv, ShapeInv
    <1>3. a \in Staging <=> staged'[p] # "absent"
        BY <1>2 DEF AccountInv, StagedInv
    <1>4. \A q \in Procs : q # p => staged'[q] = staged[q]
        BY <1>2
    <1>5. CallOK(p)'
        BY <1>1, <1>3 DEF CallOK, CandidatesOf, AccountInv, TodoInv, Once
    <1>6. QED
        BY <1>1, <1>4, <1>5, OneCall

\* A call returns, and nothing is staged for it any more.
LEMMA CallReturns ==
    ASSUME IInv, AccountInv, NEW p \in Procs, \E r : Return(p, r),
           \/ staged' = [staged EXCEPT ![p] = "absent"]
           \/ call[p].at \notin Staging /\ staged' = staged
    PROVE  StagedInv' /\ TodoInv'
    <1>1. Others(p) /\ call'[p].at = "idle" /\ call'[p].todo = <<>>
        BY ReturnTodo
    <1>2. staged \in [Procs -> Contents]
        BY DEF IInv, ShapeInv
    <1>3. staged'[p] = "absent" /\ \A q \in Procs : q # p => staged'[q] = staged[q]
        BY <1>2 DEF AccountInv, StagedInv
    <1>4. CandidatesOf(call[p])'
        BY <1>1, NothingOnce DEF CandidatesOf, Once
    <1>5. CallOK(p)'
        BY <1>1, <1>3, <1>4 DEF CallOK, Staging
    <1>6. QED
        BY <1>1, <1>3, <1>5, OneCall

\* A flight ends, for those who waited too, who have nothing staged.
LEMMA FlightEnds ==
    ASSUME IInv, AccountInv, NEW p \in Procs, NEW r, EndFlight(p, r),
           \/ staged' = [staged EXCEPT ![p] = "absent"]
           \/ call[p].at \notin Staging /\ staged' = staged
    PROVE  StagedInv' /\ TodoInv'
    <1>1. staged \in [Procs -> Contents]
        BY DEF IInv, ShapeInv
    <1>2. staged'[p] = "absent" /\ \A q \in Procs : q # p => staged'[q] = staged[q]
        BY <1>1 DEF AccountInv, StagedInv
    <1> DEFINE c(q) == [Started(q, "open", call[p].key, "filled") EXCEPT !.err = r]
    <1>3. call' = [q \in Procs |-> IF Woken(q, p) THEN c(q) ELSE call[q]]
        BY DEF EndFlight, Woken
    <1>4. \A q : c(q).at = "filled" /\ c(q).todo = <<>>
        BY DEF Started, Idle
    <1> HIDE DEF c
    <1>5. ASSUME NEW q \in Procs PROVE CallOK(q)'
        <2>1. CASE Woken(q, p)
            <3>1. call'[q].at = "filled" /\ call'[q].todo = <<>>
                BY <1>3, <1>4, <2>1
            <3>2. staged'[q] = "absent"
                BY <1>2, <2>1 DEF Woken, AccountInv, StagedInv, Staging
            <3>3. CandidatesOf(call[q])'
                BY <3>1, NothingOnce DEF CandidatesOf, Once
            <3>4. QED
                BY <3>1, <3>2, <3>3 DEF CallOK, Staging
        <2>2. CASE ~Woken(q, p)
            <3>1. call'[q] = call[q] /\ staged'[q] = staged[q]
                BY <1>2, <1>3, <2>2 DEF Woken
            <3>2. QED
                BY <3>1 DEF CallOK, CandidatesOf, Once, AccountInv, StagedInv, TodoInv
        <2>3. QED
            BY <2>1, <2>2
    <1>6. QED
        BY <1>5 DEF StagedInv, TodoInv, CallOK

\* A call becomes another, with nothing staged before or after.
LEMMA CallBecomes ==
    ASSUME IInv, AccountInv, NEW p \in Procs, NEW c, Becomes(p, c), staged' = staged,
           call[p].at \notin Staging, c.at \notin Staging, c.at # "drop", Once(c.todo)
    PROVE  StagedInv' /\ TodoInv'
    <1>1. call'[p] = c /\ Others(p)
        BY BecomesOne DEF IInv
    <1>2. CallOK(p)'
        BY <1>1 DEF CallOK, CandidatesOf, Once, AccountInv, StagedInv
    <1>3. QED
        BY <1>1, <1>2, OneCall

\* What follows publish, trim and evict.
LEMMA PublishedCalls ==
    ASSUME IInv, AccountInv, NEW p \in Procs, Published(p), call[p].at \in {"publish", "trim", "evict"},
           \/ staged' = [staged EXCEPT ![p] = "absent"] /\ call[p].at = "publish"
           \/ call[p].at \notin Staging /\ staged' = staged
    PROVE  StagedInv' /\ TodoInv'
    <1>1. call[p].op \in {"put", "open", "delete", "boot"} /\ (call[p].at = "publish" => call[p].op \in {"put", "open"})
        BY DEF IInv, ShapeInv, CallInv
    <1>2. CASE call[p].op = "open"
        <2>1. EndFlight(p, "ok")
            BY <1>2 DEF Published
        <2>2. QED
            BY <2>1, FlightEnds
    <1>3. CASE call[p].op \in {"put", "delete"}
        <2>1. Return(p, "ok")
            BY <1>3 DEF Published
        <2>2. QED
            BY <2>1, CallReturns
    <1>4. CASE call[p].op = "boot"
        <2>1. Becomes(p, Idle) /\ staged' = staged /\ call[p].at \notin Staging
            BY <1>1, <1>4 DEF Published
        <2>2. Idle.at = "idle" /\ Idle.todo = <<>>
            BY DEF Idle
        <2>3. Idle.at \notin Staging /\ Idle.at # "drop" /\ Once(Idle.todo)
            BY <2>2, NothingOnce DEF Staging
        <2>4. QED
            BY <2>1, <2>3, CallBecomes
    <1>5. QED
        BY <1>1, <1>2, <1>3, <1>4

\* hit opens a file, or goes on.
LEMMA TryHitCalls ==
    ASSUME IInv, AccountInv, NEW p \in Procs, NEW c, NEW missed \in {"join", "bypass"}, IsCall(c), Once(c.todo),
           TryHit(p, c, missed), call[p].at \notin Staging, staged' = staged
    PROVE  StagedInv' /\ TodoInv'
    <1> DEFINE d == IF disk[c.key] # "absent" THEN [c EXCEPT !.at = "touch", !.bytes = disk[c.key]]
                                             ELSE [c EXCEPT !.at = missed]
    <1>1. Becomes(p, d)
        BY DEF TryHit
    <1>2. d.at \in {"touch", "join", "bypass"} /\ d.todo = c.todo
        BY DEF IsCall
    <1> HIDE DEF d
    <1>3. d.at \notin Staging /\ d.at # "drop"
        BY <1>2 DEF Staging
    <1>4. QED
        BY <1>1, <1>2, <1>3, CallBecomes

\* The steps a call takes by itself.
LEMMA ProgressCalls ==
    ASSUME IInv, AccountInv, NEW p \in Procs, Progress(p)
    PROVE  StagedInv' /\ TodoInv'
    <1>0. IsCall(call[p]) /\ Once(call[p].todo)
        BY DEF IInv, ShapeInv, CallInv, AccountInv, TodoInv, CandidatesOf
    <1>1. CASE CopyDone(p)
        <2>1. PICK a \in {"publish", "upload", "link"} : Goto(p, a)
            BY <1>1 DEF CopyDone
        <2>2. QED
            BY <1>1, <2>1, CallMoves DEF CopyDone, Staging
    <1>2. CASE Upload(p)
        BY <1>2, CallMoves DEF Upload, Staging, files
    <1>3. CASE Link(p)
        BY <1>3, CallReturns DEF Link
    <1>4. CASE Rename(p)
        BY <1>4, CallMoves DEF Rename, Staging
    <1>5. CASE PublishTouch(p)
        BY <1>5, CallMoves DEF PublishTouch, Staging, files
    <1>6. CASE Trim(p)
        <2>1. CASE bytes <= MaxBytes
            BY <1>6, <2>1, PublishedCalls DEF Trim, files, Staging
        <2>2. CASE ~(bytes <= MaxBytes)
            <3>1. PICK c : c = [call[p] EXCEPT !.at = "evict", !.todo = entries, !.over = bytes - MaxBytes]
                OBVIOUS
            <3>2. c.at = "evict" /\ c.todo = entries
                BY <1>0, <3>1 DEF IsCall
            <3>3. Becomes(p, c) /\ staged' = staged /\ call[p].at = "trim"
                BY <1>6, <2>2, <3>1 DEF Trim, files
            <3>4. Once(c.todo)
                BY <3>2 DEF AccountInv, IndexInv
            <3>5. QED
                BY <3>2, <3>3, <3>4, CallBecomes DEF Staging
        <2>3. QED
            BY <2>1, <2>2
    <1>7. CASE EvictFile(p)
        <2>1. Others(p) /\ call'[p].at = "drop" /\ call'[p].todo = call[p].todo
            BY <1>7, GotoTodo DEF EvictFile
        <2>2. CallOK(p)'
            BY <1>0, <1>7, <2>1 DEF CallOK, CandidatesOf, Once, EvictFile, Staging, AccountInv, StagedInv
        <2>3. QED
            BY <1>7, <2>1, <2>2, OneCall DEF EvictFile
    <1>8. CASE EvictEntry(p)
        <2>1. PICK c : c = Skip(p)
            OBVIOUS
        <2>2. c.at = "evict" /\ c.todo = Tail(call[p].todo)
            BY <1>0, <2>1 DEF IsCall, Skip
        <2>3. Once(c.todo)
            BY <1>0, <1>8, <2>2, TailOne DEF EvictEntry, AccountInv, TodoInv, CandidatesOf
        <2>4. QED
            BY <1>8, <2>1, <2>2, <2>3, CallBecomes DEF EvictEntry, Staging, files
    <1>9. CASE TrimEnds(p)
        BY <1>9, PublishedCalls DEF TrimEnds, files, Staging
    <1>10. CASE HitTouch(p)
        <2>1. PICK c : c = Handed(p, call[p].bytes, FALSE)
            OBVIOUS
        <2>2. c.at = "opened" /\ c.todo = call[p].todo
            BY <1>0, <2>1 DEF IsCall, Handed
        <2>3. QED
            BY <1>0, <1>10, <2>1, <2>2, CallBecomes DEF HitTouch, Staging, files
    <1>11. CASE Join(p)
        <2>1. PICK a \in {"stat", "wait"} : Goto(p, a)
            BY <1>11 DEF Join
        <2>2. QED
            BY <1>11, <2>1, CallMoves DEF Join, Staging, files
    <1>12. CASE FillStat(p)
        <2>1. call[p].at = "stat" /\ staged' = staged
            BY <1>12 DEF FillStat, files
        <2>2. EndFlight(p, "ok") \/ Goto(p, "fetch")
            BY <1>12 DEF FillStat
        <2>3. QED
            BY <2>1, <2>2, CallMoves, FlightEnds DEF Staging
    <1>13. CASE Fetch(p)
        <2>1. \/ Goto(p, "copy") /\ staged' = [staged EXCEPT ![p] = "part"]
              \/ EndFlight(p, "not_found") /\ staged' = staged
            BY <1>13 DEF Fetch
        <2>2. QED
            BY <1>13, <2>1, CallMoves, FlightEnds DEF Fetch, Staging
    <1>14. CASE Filled(p)
        <2>1. call[p].at = "filled" /\ staged' = staged
            BY <1>14 DEF Filled, files
        <2>2. Return(p, "not_found") \/ Goto(p, "bypass") \/ TryHit(p, call[p], "bypass")
            BY <1>14 DEF Filled
        <2>3. QED
            BY <1>0, <2>1, <2>2, CallReturns, CallMoves, TryHitCalls DEF Staging
    <1>15. CASE Bypass(p)
        <2>1. call[p].at = "bypass" /\ staged' = staged
            BY <1>15 DEF Bypass, files
        <2>2. PICK c : c = Handed(p, "whole", FALSE)
            OBVIOUS
        <2>3. c.at = "opened" /\ c.todo = call[p].todo
            BY <1>0, <2>2 DEF IsCall, Handed
        <2>4. Return(p, "not_found") \/ Becomes(p, c)
            BY <1>15, <2>2 DEF Bypass
        <2>5. QED
            BY <1>0, <2>1, <2>3, <2>4, CallReturns, CallBecomes DEF Staging
    <1>16. CASE Materialize(p)
        <2>1. PICK c : c = [call[p] EXCEPT !.at = "idle", !.out = IF Accepts(call[p]) THEN "ok" ELSE "rejected"]
            OBVIOUS
        <2>2. c.at = "idle" /\ c.todo = call[p].todo
            BY <1>0, <2>1 DEF IsCall
        <2>3. call[p].at = "opened" /\ staged' = staged /\ Becomes(p, c)
            BY <1>16, <2>1 DEF Materialize, files
        <2>4. QED
            BY <1>0, <2>2, <2>3, CallBecomes DEF Staging
    <1>17. QED
        BY <1>1, <1>2, <1>3, <1>4, <1>5, <1>6, <1>7, <1>8, <1>9, <1>10, <1>11, <1>12, <1>13, <1>14, <1>15, <1>16
           DEF Progress

\* The calls that fail.
LEMMA FailureCalls ==
    ASSUME IInv, AccountInv, NEW p \in Procs, Failure(p)
    PROVE  StagedInv' /\ TodoInv'
    <1>1. CASE CopyFails(p)
        <2>1. staged' = [staged EXCEPT ![p] = "absent"] /\ (EndFlight(p, "error") \/ Return(p, "error"))
            BY <1>1 DEF CopyFails
        <2>2. QED
            BY <2>1, FlightEnds, CallReturns
    <1>2. CASE UploadFails(p)
        BY <1>2, CallReturns DEF UploadFails
    <1>3. CASE RenameFails(p)
        BY <1>3, PublishedCalls DEF RenameFails
    <1>4. CASE EvictFails(p)
        <2>1. PICK c : c = Skip(p)
            OBVIOUS
        <2>2. IsCall(call[p]) /\ Once(call[p].todo)
            BY DEF IInv, ShapeInv, CallInv, AccountInv, TodoInv, CandidatesOf
        <2>3. c.at = "evict" /\ c.todo = Tail(call[p].todo)
            BY <2>1, <2>2 DEF IsCall, Skip
        <2>4. Once(c.todo)
            BY <1>4, <2>2, <2>3, TailOne DEF EvictFails
        <2>5. QED
            BY <1>4, <2>1, <2>3, <2>4, CallBecomes DEF EvictFails, Staging, files
    <1>5. CASE FetchFails(p)
        BY <1>5, FlightEnds DEF FetchFails, files, Staging
    <1>6. CASE BypassFails(p)
        BY <1>6, CallReturns DEF BypassFails, files, Staging
    <1>7. QED
        BY <1>1, <1>2, <1>3, <1>4, <1>5, <1>6 DEF Failure

\* The calls that begin, and the one that ends at once.
LEMMA BeginCalls ==
    ASSUME IInv, AccountInv, NEW p \in Procs, NEW k \in Keys,
           Put(p, k) \/ Open(p, k) \/ LocalOpen(p, k) \/ Delete(p, k)
    PROVE  StagedInv' /\ TodoInv'
    <1>1. CASE Put(p, k)
        <2>1. PICK c : c = Started(p, "put", k, "copy")
            OBVIOUS
        <2>2. c.at = "copy" /\ c.todo = <<>>
            BY <2>1 DEF Started, Idle
        <2>3. call'[p] = c /\ Others(p)
            BY <1>1, <2>1, BecomesOne DEF Put, IInv
        <2>4. staged' = [staged EXCEPT ![p] = "part"] /\ staged \in [Procs -> Contents]
            BY <1>1 DEF Put, IInv, ShapeInv
        <2>5. CandidatesOf(call[p])'
            BY <2>2, <2>3, NothingOnce DEF CandidatesOf, Once
        <2>6. CallOK(p)'
            BY <2>2, <2>3, <2>4, <2>5 DEF CallOK, Staging
        <2>7. QED
            BY <2>3, <2>4, <2>6, OneCall
    <1>2. CASE Open(p, k)
        <2>1. PICK c : c = Started(p, "open", k, "join")
            OBVIOUS
        <2>2. IsCall(c) /\ c.todo = <<>>
            BY <2>1 DEF Started, Idle, IsCall
        <2>3. TryHit(p, c, "join") /\ call[p].at = "idle" /\ staged' = staged
            BY <1>2, <2>1 DEF Open, Ready, files
        <2>4. QED
            BY <2>2, <2>3, NothingOnce, TryHitCalls DEF Staging
    <1>3. CASE LocalOpen(p, k)
        <2>1. PICK c : Becomes(p, c) /\ c.at \in {"opened", "idle"} /\ c.todo = <<>>
            <3>1. PICK b : b = [Idle EXCEPT !.op = "open", !.key = k]
                OBVIOUS
            <3>2. PICK d : d = IF k \in store
                               THEN [b EXCEPT !.at = "opened", !.bytes = "whole", !.digest = TRUE]
                               ELSE [b EXCEPT !.out = "not_found"]
                OBVIOUS
            <3>3. d.at \in {"opened", "idle"} /\ d.todo = <<>>
                BY <3>1, <3>2 DEF Idle
            <3>4. Becomes(p, d)
                BY <1>3, <3>1, <3>2 DEF LocalOpen
            <3>5. QED
                BY <3>3, <3>4
        <2>2. QED
            BY <1>3, <2>1, NothingOnce, CallBecomes DEF LocalOpen, Ready, Staging, files
    <1>4. CASE Delete(p, k)
        <2>1. PICK c : Becomes(p, c) /\ c.at \in {"evict", "idle"} /\ c.todo \in {<<>>, <<k>>}
            <3>1. PICK b : b = [Idle EXCEPT !.op = "delete", !.key = k]
                OBVIOUS
            <3>2. PICK d : d = IF k \notin store THEN [b EXCEPT !.out = "not_found"]
                               ELSE IF backend = "local" THEN [b EXCEPT !.out = "ok"]
                               ELSE [b EXCEPT !.at = "evict", !.todo = <<k>>, !.over = Size[k]]
                OBVIOUS
            <3>3. d.at \in {"evict", "idle"} /\ d.todo \in {<<>>, <<k>>}
                BY <3>1, <3>2 DEF Idle
            <3>4. Becomes(p, d)
                BY <1>4, <3>1, <3>2 DEF Delete
            <3>5. QED
                BY <3>3, <3>4
        <2>2. Once(<<k>>)
            BY DEF Once
        <2>3. Once(c.todo)
            BY <2>1, <2>2, NothingOnce
        <2>4. QED
            BY <1>4, <2>1, <2>3, CallBecomes DEF Delete, Ready, Staging, files
    <1>5. QED
        BY <1>1, <1>2, <1>3, <1>4

\* A crash ends all calls and drops what they staged.
LEMMA RestartCalls ==
    ASSUME IInv, AccountInv, NEW p \in Procs, Restart(p)
    PROVE  StagedInv' /\ TodoInv'
    <1>1. PICK boot : boot = [Idle EXCEPT !.at = "trim", !.op = "boot"]
        OBVIOUS
    <1>2. boot.at = "trim" /\ boot.todo = <<>> /\ Idle.at = "idle" /\ Idle.todo = <<>>
        BY <1>1 DEF Idle
    <1>3. \A q \in Procs : call'[q] \in {Idle, boot} /\ staged'[q] = "absent"
        BY <1>1 DEF Restart
    <1>4. ASSUME NEW q \in Procs PROVE CallOK(q)'
        <2>1. call'[q].at \in {"trim", "idle"} /\ call'[q].todo = <<>> /\ staged'[q] = "absent"
            BY <1>2, <1>3
        <2>2. CandidatesOf(call[q])'
            BY <2>1, NothingOnce DEF CandidatesOf, Once
        <2>3. QED
            BY <2>1, <2>2 DEF CallOK, Staging
    <1>5. QED
        BY <1>4 DEF StagedInv, TodoInv, CallOK

\* Every step keeps the account.
LEMMA AccountStep == IInv /\ AccountInv /\ [Next]_vars => AccountInv'
    <1>1. SUFFICES ASSUME IInv, AccountInv, [Next]_vars PROVE AccountInv'
        OBVIOUS
    <1>2. StagedInv' /\ TodoInv'
        <2>1. CASE UNCHANGED vars \/ \E k \in Keys : PeerPut(k)
            <3>1. UNCHANGED <<call, staged>>
                BY <2>1 DEF vars, PeerPut, files
            <3>2. QED
                BY <1>1, <3>1 DEF AccountInv, StagedInv, TodoInv, CandidatesOf, Once
        <2>2. QED
            BY <1>1, <2>1, ProgressCalls, FailureCalls, BeginCalls, RestartCalls DEF Next
    <1>3. QED
        BY <1>1, <1>2, IndexStep, StoreStep, SpentStep DEF AccountInv

\* The account of a cache that was never used.
LEMMA AccountInit == Init => AccountInv
    <1>1. SUFFICES ASSUME Init PROVE AccountInv
        OBVIOUS
    <1>2. Once(entries) /\ Indexed = {}
        BY <1>1, NothingOnce DEF Init, Indexed, Listed
    <1>3. {} \in SUBSET Keys
        OBVIOUS
    <1>4. IndexInv
        BY <1>1, <1>2, <1>3, SizeTyped DEF Init, IndexInv
    <1>5. \A p \in Procs : call[p].at = "idle" /\ call[p].todo = <<>> /\ staged[p] = "absent"
        BY <1>1 DEF Init, Idle
    <1>6. StagedInv /\ TodoInv
        BY <1>5, NothingOnce DEF StagedInv, TodoInv, CandidatesOf, Staging
    <1>7. PICK m \in Nat : m = MaxFaults
        BY CacheAssumption
    <1>8. /\ spent \in [calls : Nat, deletes : Nat, faults : 0 .. MaxFaults, restarts : Nat]
          /\ spent["faults"] = m
        BY <1>1, <1>7, CacheAssumption DEF Init
    <1>9. SpentInv
        BY <1>1, <1>7, <1>8 DEF Init, SpentInv, StagingSwept
    <1>10. QED
        BY <1>1, <1>4, <1>6, <1>9 DEF Init, AccountInv

\* The account is kept in every behaviour.
THEOREM CacheAccountKept == Spec => [](IInv /\ AccountInv)
    BY AccountInit, AccountStep, CacheInvariant, PTL DEF Spec

\* The cache, its index and the calls stay well formed; and exactly the calls that are
\* between the copy and the rename, the upload or the link have a file staged.
THEOREM CacheTyped == Spec => []TypeOK
    <1>1. IInv /\ AccountInv => TypeOK
        <2>1. SUFFICES ASSUME IInv, AccountInv PROVE TypeOK
            OBVIOUS
        <2>2. Indexed = Listed(entries)
            BY DEF Indexed, Listed
        <2>3. entries \in Orders(Indexed) /\ Indexed \in SUBSET Keys
            BY <2>1, <2>2, OnceOrders DEF AccountInv, IndexInv
        <2>4. bytes \in Nat
            BY <2>1, <2>3, SizeTyped DEF AccountInv, IndexInv
        <2>5. \A p \in Procs : call[p].at \in Steps
            BY <2>1 DEF IInv, ShapeInv, CallInv
        <2>6. QED
            BY <2>1, <2>3, <2>4, <2>5 DEF TypeOK, IInv, ShapeInv, AccountInv, StagedInv, Staging, SpentInv
    <1>2. QED
        BY <1>1, CacheAccountKept, PTL

\* For any number of goroutines Cache.bytes is the sum of the sizes of the entries, and what
\* is left in the staging directory is one file at most for each call that failed.
THEOREM CacheAccountsForAll == Spec => []Accounted
    <1>1. IInv /\ AccountInv => Accounted
        BY DEF AccountInv, IndexInv, SpentInv, Accounted, BytesMatchIndex
    <1>2. QED
        BY <1>1, CacheAccountKept, PTL

-----------------------------------------------------------------------------
(* One call at a time, and no faults: the files, the index and the budget *)

\* What the index says of the files while a call is at each of its steps: between the
\* rename and touch a file is not indexed yet, between the two halves of evict an entry
\* has lost its file, and a trim that is under way has noted all that is indexed and by
\* how much the budget is exceeded.
Settled(c) ==
    /\ c.at \notin {"index", "drop"} => OnDisk = Indexed
    /\ c.at = "index" => OnDisk = Indexed \union {c.key}
    /\ c.at = "drop" => OnDisk = Indexed \ {Head(c.todo)}
    /\ c.at = "touch" => c.key \in OnDisk
    /\ c.at \notin {"trim", "evict", "drop"} => bytes <= MaxBytes
    /\ c.at \in {"evict", "drop"} =>
         bytes <= MaxBytes \/ (c.over = bytes - MaxBytes /\ Listed(c.todo) = Indexed)
    /\ backend = "local" =>
         c.at \in {"idle", "copy", "link", "opened"} /\ (c.at = "copy" => c.op = "put")

\* The steps between which files and index agree and are inside the budget.
Calm == Steps \ {"index", "trim", "evict", "drop"}

\* A step between two of them that touches neither.
LEMMA CalmSettled ==
    ASSUME NEW p \in Procs, Settled(call[p]), UNCHANGED <<backend, disk, entries, bytes>>,
           call[p].at \in Calm, call'[p].at \in Calm,
           call'[p].at = "touch" => call'[p].key \in OnDisk,
           backend = "local" => /\ call'[p].at \in {"idle", "copy", "link", "opened"}
                                /\ call'[p].at = "copy" => call'[p].op = "put"
    PROVE  Settled(call[p])'
    <1>1. OnDisk' = OnDisk /\ Indexed' = Indexed
        BY DEF OnDisk, Indexed
    <1>2. call[p].at \notin {"index", "trim", "evict", "drop"} /\ call'[p].at \notin {"index", "trim", "evict", "drop"}
        BY DEF Calm
    <1>3. OnDisk = Indexed /\ bytes <= MaxBytes
        BY <1>2 DEF Settled
    <1>4. QED
        BY <1>1, <1>2, <1>3 DEF Settled

\* What ends a publish or a trim ends the call, or the flight.
LEMMA PublishedAt ==
    ASSUME IInv, NEW p \in Procs, Published(p)
    PROVE  call'[p].at \in {"idle", "filled"}
    <1>1. CASE call[p].op = "open"
        <2>1. EndFlight(p, "ok")
            BY <1>1 DEF Published
        <2>2. QED
            BY <2>1, EndFlightAll DEF IInv, Woken, Now
    <1>2. CASE call[p].op = "boot"
        <2>1. Becomes(p, Idle)
            BY <1>2 DEF Published
        <2>2. QED
            BY <2>1, BecomesOne DEF IInv, Idle
    <1>3. CASE call[p].op \notin {"open", "boot"}
        <2>1. Return(p, "ok")
            BY <1>3 DEF Published
        <2>2. QED
            BY <2>1, ReturnTodo
    <1>4. QED
        BY <1>1, <1>2, <1>3

\* A publish or a trim ends when the index is inside the budget.
LEMMA DoneSettled ==
    ASSUME IInv, NEW p \in Procs, Settled(call[p]), Published(p), UNCHANGED <<backend, disk, entries, bytes>>,
           call[p].at \in {"trim", "evict"}, bytes <= MaxBytes
    PROVE  Settled(call[p])'
    <1>1. OnDisk' = OnDisk /\ Indexed' = Indexed
        BY DEF OnDisk, Indexed
    <1>2. OnDisk = Indexed /\ backend # "local"
        BY DEF Settled
    <1>3. call'[p].at \in {"idle", "filled"}
        BY PublishedAt
    <1>4. QED
        BY <1>1, <1>2, <1>3 DEF Settled

\* The steps that move a call and leave the files and the index alone.
LEMMA CalmSteps ==
    ASSUME IInv, NEW p \in Procs, Settled(call[p]), UNCHANGED backend,
           \/ CopyDone(p) \/ CopyFails(p) \/ Upload(p) \/ Link(p) \/ Join(p) \/ FillStat(p)
           \/ Fetch(p) \/ Bypass(p) \/ Materialize(p)
    PROVE  Settled(call[p])'
    <1>0. IsCall(call[p]) /\ (call[p].at \in {"stat", "fetch", "join", "bypass"} => backend # "local")
        BY DEF IInv, ShapeInv, CallInv, Settled
    <1>1. CASE CopyDone(p)
        <2>1. PICK a \in {"publish", "upload", "link"} : Goto(p, a) /\ (backend = "local" => a = "link")
            BY <1>1 DEF CopyDone, Settled
        <2>2. call'[p].at = a
            BY <2>1, GotoTodo
        <2>3. UNCHANGED <<disk, entries, bytes>> /\ call[p].at = "copy"
            BY <1>1 DEF CopyDone, index
        <2>4. QED
            BY <2>1, <2>2, <2>3, CalmSettled DEF Calm, Steps
    <1>2. CASE CopyFails(p)
        <2>1. (EndFlight(p, "error") /\ backend # "local") \/ Return(p, "error")
            BY <1>2 DEF CopyFails, Settled
        <2>2. (call'[p].at = "filled" /\ backend # "local") \/ call'[p].at = "idle"
            BY <2>1, EndFlightAll, ReturnTodo DEF IInv, Woken, Now
        <2>3. UNCHANGED <<disk, entries, bytes>> /\ call[p].at = "copy"
            BY <1>2 DEF CopyFails, index
        <2>4. QED
            BY <2>2, <2>3, CalmSettled DEF Calm, Steps
    <1>3. CASE Upload(p)
        <2>1. call'[p].at = "publish"
            BY <1>3, GotoTodo DEF Upload
        <2>2. UNCHANGED <<disk, entries, bytes>> /\ call[p].at = "upload" /\ backend # "local"
            BY <1>3 DEF Upload, files, index, Settled
        <2>3. QED
            BY <2>1, <2>2, CalmSettled DEF Calm, Steps
    <1>4. CASE Link(p)
        <2>1. call'[p].at = "idle"
            BY <1>4, ReturnTodo DEF Link
        <2>2. UNCHANGED <<disk, entries, bytes>> /\ call[p].at = "link"
            BY <1>4 DEF Link, index
        <2>3. QED
            BY <2>1, <2>2, CalmSettled DEF Calm, Steps
    <1>5. CASE Join(p)
        <2>1. PICK a \in {"stat", "wait"} : Goto(p, a)
            BY <1>5 DEF Join
        <2>2. call'[p].at = a
            BY <2>1, GotoTodo
        <2>3. UNCHANGED <<disk, entries, bytes>> /\ call[p].at = "join"
            BY <1>5 DEF Join, files, index
        <2>4. QED
            BY <1>0, <2>2, <2>3, CalmSettled DEF Calm, Steps
    <1>6. CASE FillStat(p)
        <2>1. EndFlight(p, "ok") \/ Goto(p, "fetch")
            BY <1>6 DEF FillStat
        <2>2. call'[p].at \in {"filled", "fetch"}
            BY <2>1, EndFlightAll, GotoTodo DEF IInv, Woken, Now
        <2>3. UNCHANGED <<disk, entries, bytes>> /\ call[p].at = "stat"
            BY <1>6 DEF FillStat, files, index
        <2>4. QED
            BY <1>0, <2>2, <2>3, CalmSettled DEF Calm, Steps
    <1>7. CASE Fetch(p)
        <2>1. EndFlight(p, "not_found") \/ Goto(p, "copy")
            BY <1>7 DEF Fetch
        <2>2. call'[p].at \in {"filled", "copy"}
            BY <2>1, EndFlightAll, GotoTodo DEF IInv, Woken, Now
        <2>3. UNCHANGED <<disk, entries, bytes>> /\ call[p].at = "fetch"
            BY <1>7 DEF Fetch, index
        <2>4. QED
            BY <1>0, <2>2, <2>3, CalmSettled DEF Calm, Steps
    <1>8. CASE Bypass(p)
        <2>1. PICK c : c = Handed(p, "whole", FALSE)
            OBVIOUS
        <2>2. c.at = "opened"
            BY <1>0, <2>1 DEF IsCall, Handed
        <2>3. Return(p, "not_found") \/ Becomes(p, c)
            BY <1>8, <2>1 DEF Bypass
        <2>4. call'[p].at \in {"idle", "opened"}
            BY <2>2, <2>3, ReturnTodo, BecomesOne DEF IInv
        <2>5. UNCHANGED <<disk, entries, bytes>> /\ call[p].at = "bypass"
            BY <1>8 DEF Bypass, files, index
        <2>6. QED
            BY <2>4, <2>5, CalmSettled DEF Calm, Steps
    <1>9. CASE Materialize(p)
        <2>1. PICK c : c = [call[p] EXCEPT !.at = "idle", !.out = IF Accepts(call[p]) THEN "ok" ELSE "rejected"]
            OBVIOUS
        <2>2. c.at = "idle"
            BY <1>0, <2>1 DEF IsCall
        <2>3. call'[p] = c
            BY <1>9, <2>1, BecomesOne DEF Materialize, IInv
        <2>4. UNCHANGED <<disk, entries, bytes>> /\ call[p].at = "opened"
            BY <1>9 DEF Materialize, files, index
        <2>5. QED
            BY <2>2, <2>3, <2>4, CalmSettled DEF Calm, Steps
    <1>10. QED
        BY <1>1, <1>2, <1>3, <1>4, <1>5, <1>6, <1>7, <1>8, <1>9

\* hit finds a file, or goes on.
LEMMA TryHitSettled ==
    ASSUME IInv, NEW p \in Procs, Settled(call[p]), UNCHANGED <<backend, disk, entries, bytes>>, backend # "local",
           NEW c, IsCall(c), c.key \in Keys, NEW missed \in {"join", "bypass"}, TryHit(p, c, missed),
           call[p].at \in Calm
    PROVE  Settled(call[p])'
    <1> DEFINE d == IF disk[c.key] # "absent" THEN [c EXCEPT !.at = "touch", !.bytes = disk[c.key]]
                                             ELSE [c EXCEPT !.at = missed]
    <1>1. Becomes(p, d)
        BY DEF TryHit
    <1>2. d.at \in {"touch", "join", "bypass"} /\ d.key = c.key /\ (d.at = "touch" => disk[c.key] # "absent")
        BY DEF IsCall
    <1> HIDE DEF d
    <1>3. call'[p] = d
        BY <1>1, BecomesOne DEF IInv
    <1>4. call'[p].at = "touch" => call'[p].key \in OnDisk
        BY <1>2, <1>3 DEF OnDisk
    <1>5. QED
        BY <1>2, <1>3, <1>4, CalmSettled DEF Calm, Steps

\* Open after the flight.
LEMMA FilledSettled ==
    ASSUME IInv, NEW p \in Procs, Settled(call[p]), UNCHANGED backend, Filled(p)
    PROVE  Settled(call[p])'
    <1>1. IsCall(call[p]) /\ call[p].key \in Keys /\ call[p].at = "filled" /\ backend # "local"
        BY DEF IInv, ShapeInv, CallInv, Filled, Settled
    <1>2. UNCHANGED <<disk, entries, bytes>>
        BY DEF Filled, files, index
    <1>3. call[p].at \in Calm
        BY <1>1 DEF Calm, Steps
    <1>4. Return(p, "not_found") \/ Goto(p, "bypass") \/ TryHit(p, call[p], "bypass")
        BY DEF Filled
    <1>5. CASE TryHit(p, call[p], "bypass")
        BY <1>1, <1>2, <1>3, <1>5, TryHitSettled
    <1>6. CASE Return(p, "not_found") \/ Goto(p, "bypass")
        <2>1. call'[p].at \in {"idle", "bypass"}
            BY <1>6, ReturnTodo, GotoTodo
        <2>2. QED
            BY <1>1, <1>2, <1>3, <2>1, CalmSettled DEF Calm, Steps
    <1>7. QED
        BY <1>4, <1>5, <1>6

\* The rename puts a file beside the index.
LEMMA RenameSettled ==
    ASSUME IInv, NEW p \in Procs, Settled(call[p]), UNCHANGED backend, Rename(p)
    PROVE  Settled(call[p])'
    <1>1. call[p].at = "publish" /\ call[p].key \in Keys /\ staged[p] = "whole" /\ disk \in [Keys -> Contents]
        BY DEF Rename, IInv, ShapeInv, CallInv, WholeInv
    <1>2. disk' = [disk EXCEPT ![call[p].key] = "whole"] /\ UNCHANGED <<entries, bytes>>
        BY <1>1 DEF Rename, index
    <1>3. OnDisk' = OnDisk \union {call[p].key} /\ Indexed' = Indexed
        BY <1>1, <1>2 DEF OnDisk, Indexed
    <1>4. call'[p].at = "index" /\ call'[p].key = call[p].key
        BY GotoOne DEF Rename, IInv, Now
    <1>5. QED
        BY <1>1, <1>2, <1>3, <1>4 DEF Settled

\* touch after publish puts it in the index.
LEMMA PublishTouchSettled ==
    ASSUME IInv, AccountInv, NEW p \in Procs, Settled(call[p]), UNCHANGED backend, PublishTouch(p)
    PROVE  Settled(call[p])'
    <1>1. call[p].at = "index" /\ call[p].key \in Keys
        BY DEF PublishTouch, IInv, ShapeInv, CallInv
    <1>2. Indexed' = Indexed \union {call[p].key}
        BY <1>1, TouchIndex DEF PublishTouch, AccountInv
    <1>3. OnDisk' = OnDisk
        BY DEF PublishTouch, files, OnDisk
    <1>4. call'[p].at = "trim"
        BY GotoTodo DEF PublishTouch
    <1>5. QED
        BY <1>1, <1>2, <1>3, <1>4 DEF Settled

\* touch after a hit moves what is indexed.
LEMMA HitTouchSettled ==
    ASSUME IInv, AccountInv, NEW p \in Procs, Settled(call[p]), UNCHANGED backend, HitTouch(p)
    PROVE  Settled(call[p])'
    <1>1. call[p].at = "touch" /\ call[p].key \in Keys /\ IsCall(call[p])
        BY DEF HitTouch, IInv, ShapeInv, CallInv
    <1>2. call[p].key \in Indexed /\ OnDisk = Indexed /\ bytes <= MaxBytes
        BY <1>1 DEF Settled
    <1>3. Indexed' = Indexed \union {call[p].key} /\ bytes' = bytes
        BY <1>1, <1>2, TouchIndex DEF HitTouch, AccountInv, Touch
    <1>4. OnDisk' = OnDisk
        BY DEF HitTouch, files, OnDisk
    <1>5. PICK c : c = Handed(p, call[p].bytes, FALSE)
        OBVIOUS
    <1>6. c.at = "opened"
        BY <1>1, <1>5 DEF IsCall, Handed
    <1>7. call'[p] = c
        BY <1>5, BecomesOne DEF HitTouch, IInv
    <1>8. QED
        BY <1>2, <1>3, <1>4, <1>6, <1>7 DEF Settled

\* trim ends, or notes what is indexed and by how much it is too much.
LEMMA TrimSettled ==
    ASSUME IInv, NEW p \in Procs, Settled(call[p]), UNCHANGED backend, Trim(p)
    PROVE  Settled(call[p])'
    <1>1. call[p].at = "trim" /\ UNCHANGED <<disk, entries, bytes>>
        BY DEF Trim, files, index
    <1>2. CASE bytes <= MaxBytes
        BY <1>1, <1>2, DoneSettled DEF Trim
    <1>3. CASE ~(bytes <= MaxBytes)
        <2>1. PICK c : c = [call[p] EXCEPT !.at = "evict", !.todo = entries, !.over = bytes - MaxBytes]
            OBVIOUS
        <2>2. IsCall(call[p])
            BY DEF IInv, ShapeInv, CallInv
        <2>3. c.at = "evict" /\ c.todo = entries /\ c.over = bytes - MaxBytes
            BY <2>1, <2>2 DEF IsCall
        <2>4. call'[p] = c
            BY <1>3, <2>1, BecomesOne DEF Trim, IInv
        <2>5. OnDisk' = OnDisk /\ Indexed' = Indexed /\ OnDisk = Indexed /\ backend # "local"
            BY <1>1 DEF OnDisk, Indexed, Settled
        <2>6. Listed(entries) = Indexed
            BY DEF Listed, Indexed
        <2>7. Listed(call[p].todo)' = Indexed'
            BY <2>3, <2>4, <2>5, <2>6 DEF Listed
        <2>8. QED
            BY <1>1, <2>3, <2>4, <2>5, <2>7 DEF Settled
    <1>4. QED
        BY <1>2, <1>3

\* The first half of evict takes the file.
LEMMA EvictFileSettled ==
    ASSUME IInv, AccountInv, NEW p \in Procs, Settled(call[p]), UNCHANGED backend, EvictFile(p)
    PROVE  Settled(call[p])'
    <1>1. call[p].at = "evict" /\ call[p].todo # <<>> /\ Once(call[p].todo) /\ disk \in [Keys -> Contents]
        BY DEF EvictFile, IInv, ShapeInv, AccountInv, TodoInv, CandidatesOf
    <1>2. Head(call[p].todo) \in Keys
        BY <1>1, TailOne
    <1>3. disk' = [disk EXCEPT ![Head(call[p].todo)] = "absent"] /\ UNCHANGED <<entries, bytes>>
        BY DEF EvictFile, index
    <1>4. OnDisk' = OnDisk \ {Head(call[p].todo)} /\ Indexed' = Indexed
        BY <1>1, <1>2, <1>3 DEF OnDisk, Indexed, Contents
    <1>5. call'[p].at = "drop" /\ call'[p].todo = call[p].todo /\ call'[p].over = call[p].over
        BY GotoTodo DEF EvictFile
    <1>6. Listed(call[p].todo)' = Listed(call[p].todo)
        BY <1>5 DEF Listed
    <1>7. QED
        BY <1>1, <1>3, <1>4, <1>5, <1>6 DEF Settled

\* The second half takes the entry; what the trim has left to evict is again all that
\* is indexed, and what it is short of is again what exceeds the budget.
LEMMA EvictEntrySettled ==
    ASSUME IInv, AccountInv, NEW p \in Procs, Settled(call[p]), UNCHANGED backend, EvictEntry(p)
    PROVE  Settled(call[p])'
    <1>1. call[p].at = "drop" /\ call[p].todo # <<>> /\ Once(call[p].todo) /\ IsCall(call[p])
        BY DEF EvictEntry, IInv, ShapeInv, CallInv, AccountInv, TodoInv, CandidatesOf
    <1>2. PICK h : h = Head(call[p].todo)
        OBVIOUS
    <1>3. /\ h \in Keys /\ h \in Listed(call[p].todo)
          /\ Listed(Tail(call[p].todo)) = Listed(call[p].todo) \ {h}
        BY <1>1, <1>2, TailOne
    <1>4. /\ Indexed' = Indexed \ {h} /\ bytes \in Nat /\ bytes' \in Nat /\ Size[h] \in Nat
          /\ bytes' = IF h \in Indexed THEN bytes - Size[h] ELSE bytes
        BY <1>2, <1>3, ForgetIndex DEF EvictEntry, AccountInv
    <1>5. OnDisk' = OnDisk
        BY DEF EvictEntry, files, OnDisk
    <1>6. PICK c : c = Skip(p)
        OBVIOUS
    <1>7. c.at = "evict" /\ c.todo = Tail(call[p].todo) /\ c.over = call[p].over - Size[h]
        BY <1>1, <1>2, <1>6 DEF IsCall, Skip
    <1>8. call'[p] = c
        BY <1>6, BecomesOne DEF EvictEntry, IInv
    <1>9. OnDisk' = Indexed' /\ backend # "local"
        BY <1>1, <1>2, <1>4, <1>5 DEF Settled
    <1>10. MaxBytes \in Nat
        BY CacheAssumption
    <1>11. CASE bytes <= MaxBytes
        <2>1. bytes' <= MaxBytes
            BY <1>4, <1>10, <1>11
        <2>2. QED
            BY <1>7, <1>8, <1>9, <2>1 DEF Settled
    <1>12. CASE call[p].over = bytes - MaxBytes /\ Listed(call[p].todo) = Indexed
        <2>1. bytes' = bytes - Size[h]
            BY <1>3, <1>4, <1>12
        <2>2. c.over = bytes' - MaxBytes
            BY <1>4, <1>7, <1>10, <1>12, <2>1
        <2>3. Listed(c.todo) = Indexed'
            BY <1>3, <1>4, <1>7, <1>12
        <2>4. Listed(call[p].todo)' = Listed(c.todo)
            BY <1>8 DEF Listed
        <2>5. QED
            BY <1>7, <1>8, <1>9, <2>2, <2>3, <2>4 DEF Settled
    <1>13. QED
        BY <1>1, <1>11, <1>12 DEF Settled

\* A trim ends when it has made room, or when nothing is left: it is inside the budget.
LEMMA TrimEndsSettled ==
    ASSUME IInv, AccountInv, NEW p \in Procs, Settled(call[p]), UNCHANGED backend, TrimEnds(p)
    PROVE  Settled(call[p])'
    <1>1. call[p].at = "evict" /\ Published(p) /\ UNCHANGED <<disk, entries, bytes>>
        BY DEF TrimEnds, files, index
    <1>2. Indexed \in SUBSET Keys
        BY OnceOrders DEF AccountInv, IndexInv, Indexed, Listed
    <1>3. bytes \in Nat /\ MaxBytes \in Nat /\ bytes = SizeOf(Indexed) /\ SizeOf({}) = 0
        BY <1>2, SizeTyped, CacheAssumption DEF AccountInv, IndexInv
    <1>4. bytes <= MaxBytes
        <2>1. CASE call[p].over = bytes - MaxBytes /\ Listed(call[p].todo) = Indexed
            <3>1. CASE call[p].todo = <<>>
                <4>1. Indexed = {}
                    BY <2>1, <3>1, NothingOnce
                <4>2. QED
                    BY <1>3, <4>1
            <3>2. CASE call[p].over <= 0
                BY <1>3, <2>1, <3>2
            <3>3. QED
                BY <3>1, <3>2 DEF TrimEnds
        <2>2. QED
            BY <1>1, <2>1 DEF Settled
    <1>5. QED
        BY <1>1, <1>4, DoneSettled

\* The calls that begin, and those that end at once.
LEMMA BeginSettled ==
    ASSUME IInv, NEW p \in Procs, Settled(call[p]), UNCHANGED backend, NEW k \in Keys,
           Put(p, k) \/ Open(p, k) \/ LocalOpen(p, k) \/ Delete(p, k)
    PROVE  Settled(call[p])'
    <1>1. call[p].at = "idle" /\ UNCHANGED <<disk, entries, bytes>>
        BY DEF Put, Open, LocalOpen, Delete, Ready, files, index
    <1>2. call[p].at \in Calm
        BY <1>1 DEF Calm, Steps
    <1>3. CASE Put(p, k)
        <2>1. PICK c : c = Started(p, "put", k, "copy")
            OBVIOUS
        <2>2. c.at = "copy" /\ c.op = "put"
            BY <2>1 DEF Started, Idle
        <2>3. call'[p] = c
            BY <1>3, <2>1, BecomesOne DEF Put, IInv
        <2>4. QED
            BY <1>1, <1>2, <2>2, <2>3, CalmSettled DEF Calm, Steps
    <1>4. CASE Open(p, k)
        <2>1. PICK c : c = Started(p, "open", k, "join")
            OBVIOUS
        <2>2. IsCall(c) /\ c.key = k
            BY <2>1 DEF Started, Idle, IsCall
        <2>3. TryHit(p, c, "join") /\ backend # "local"
            BY <1>4, <2>1 DEF Open
        <2>4. QED
            BY <1>1, <1>2, <2>2, <2>3, TryHitSettled
    <1>5. CASE LocalOpen(p, k)
        <2>1. PICK b : b = [Idle EXCEPT !.op = "open", !.key = k]
            OBVIOUS
        <2>2. PICK d : d = IF k \in store
                           THEN [b EXCEPT !.at = "opened", !.bytes = "whole", !.digest = TRUE]
                           ELSE [b EXCEPT !.out = "not_found"]
            OBVIOUS
        <2>3. d.at \in {"opened", "idle"}
            BY <2>1, <2>2 DEF Idle
        <2>4. call'[p] = d
            BY <1>5, <2>1, <2>2, BecomesOne DEF LocalOpen, IInv
        <2>5. QED
            BY <1>1, <1>2, <2>3, <2>4, CalmSettled DEF Calm, Steps
    <1>6. CASE Delete(p, k)
        <2>1. PICK b : b = [Idle EXCEPT !.op = "delete", !.key = k]
            OBVIOUS
        <2>2. PICK d : d = IF k \notin store THEN [b EXCEPT !.out = "not_found"]
                           ELSE IF backend = "local" THEN [b EXCEPT !.out = "ok"]
                           ELSE [b EXCEPT !.at = "evict", !.todo = <<k>>, !.over = Size[k]]
            OBVIOUS
        <2>3. d.at \in {"evict", "idle"} /\ (backend = "local" => d.at = "idle")
            BY <2>1, <2>2 DEF Idle
        <2>4. call'[p] = d
            BY <1>6, <2>1, <2>2, BecomesOne DEF Delete, IInv
        <2>5. OnDisk' = OnDisk /\ Indexed' = Indexed /\ OnDisk = Indexed /\ bytes <= MaxBytes
            BY <1>1 DEF OnDisk, Indexed, Settled
        <2>6. QED
            BY <1>1, <2>3, <2>4, <2>5 DEF Settled
    <1>7. QED
        BY <1>3, <1>4, <1>5, <1>6

\* A crash anywhere: NewCache indexes what is there, and trims before it serves.
LEMMA RestartSettled ==
    ASSUME IInv, AccountInv, NEW p \in Procs, Settled(call[p]), UNCHANGED backend, Restart(p)
    PROVE  Settled(call[p])'
    <1>1. OnDisk' = OnDisk /\ OnDisk \in SUBSET Keys
        BY DEF Restart, OnDisk
    <1>2. CASE backend = "s3"
        <2>1. PICK boot : boot = [Idle EXCEPT !.at = "trim", !.op = "boot"]
            OBVIOUS
        <2>2. boot.at = "trim"
            BY <2>1 DEF Idle
        <2>3. call'[p] = boot /\ entries' \in Orders(OnDisk)
            BY <1>2, <2>1 DEF Restart
        <2>4. PICK s \in Orders(OnDisk) : s = entries'
            BY <2>3
        <2>5. Listed(s) = OnDisk
            BY <1>1, OrdersOnce
        <2>6. Indexed' = OnDisk
            BY <2>4, <2>5 DEF Indexed, Listed
        <2>7. QED
            BY <1>1, <1>2, <2>2, <2>3, <2>6 DEF Settled
    <1>3. CASE backend # "s3"
        <2>1. backend = "local"
            BY <1>3, CacheAssumption DEF AccountInv
        <2>2. call'[p] = Idle /\ UNCHANGED <<entries, bytes>>
            BY <1>3 DEF Restart, index
        <2>3. Idle.at = "idle"
            BY DEF Idle
        <2>4. Indexed' = Indexed
            BY <2>2 DEF Indexed
        <2>5. QED
            BY <1>1, <2>1, <2>2, <2>3, <2>4 DEF Settled
    <1>4. QED
        BY <1>2, <1>3

\* Where one goroutine uses the cache and the file system does not fail, the cache
\* accounts for exactly what it holds and holds no more than its budget whenever
\* the call has ended, also after a crash anywhere.
THEOREM RestsWithinBudget ==
    ASSUME NEW p \in Procs, Procs = {p}, MaxFaults = 0
    PROVE  Spec => []RestsInsideBudget
    <1>1. Init => Settled(call[p])
        <2>1. SUFFICES ASSUME Init PROVE Settled(call[p])
            OBVIOUS
        <2>2. call[p].at = "idle" /\ OnDisk = {} /\ Indexed = {} /\ bytes = 0
            BY <2>1, NothingOnce DEF Init, Idle, OnDisk, Indexed, Listed
        <2>3. bytes <= MaxBytes
            BY <2>2, CacheAssumption
        <2>4. QED
            BY <2>2, <2>3 DEF Settled
    <1>2. IInv /\ AccountInv /\ Settled(call[p]) /\ [Next]_vars => Settled(call[p])'
        <2>1. SUFFICES ASSUME IInv, AccountInv, Settled(call[p]), [Next]_vars PROVE Settled(call[p])'
            OBVIOUS
        <2>2. ~Spend("faults") /\ UNCHANGED backend
            <3>1. spent["faults"] \in 0 .. 0
                BY <2>1 DEF AccountInv, SpentInv
            <3>2. QED
                BY <2>1, <3>1 DEF Spend, Next, vars
        <2>3. CASE Progress(p)
            BY <2>1, <2>2, <2>3, CalmSteps, FilledSettled, RenameSettled, PublishTouchSettled, HitTouchSettled,
               TrimSettled, EvictFileSettled, EvictEntrySettled, TrimEndsSettled
               DEF Progress
        <2>4. CASE Failure(p)
            BY <2>1, <2>2, <2>4, CalmSteps
               DEF Failure, UploadFails, RenameFails, EvictFails, FetchFails, BypassFails
        <2>5. CASE UNCHANGED vars \/ \E k \in Keys : PeerPut(k)
            <3>1. UNCHANGED <<backend, disk, entries, bytes, call>>
                BY <2>2, <2>5 DEF vars, PeerPut, files, index
            <3>2. QED
                BY <2>1, <3>1 DEF Settled, OnDisk, Indexed, Listed
        <2>6. QED
            BY <2>1, <2>2, <2>3, <2>4, <2>5, RestartSettled, BeginSettled DEF Next
    <1>3. IInv /\ AccountInv /\ Settled(call[p]) => RestsInsideBudget
        BY DEF RestsInsideBudget, AtRest, Settled, AccountInv, IndexInv
    <1>4. QED
        BY <1>1, <1>2, <1>3, CacheAccountKept, PTL DEF Spec

=============================================================================
