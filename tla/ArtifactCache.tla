----------------------------- MODULE ArtifactCache -----------------------------
(***************************************************************************)
(* The artifact store of one process (internal/repository/file): either a  *)
(* directory (Local) or a bucket (S3) behind a read-through cache on disk  *)
(* (Cache), the deployer's Put, the worker's Open with its integrity check *)
(* (Worker.materialize), and Delete.                                       *)
(*                                                                         *)
(* One action is one call to the file system or the bucket, or one section *)
(* under Cache.mu; between two of them any other goroutine may run.  A     *)
(* file's bytes are "whole" (what the build wrote), "part" or "absent".    *)
(* The access clock is the order of entries, least recently used first.    *)
(***************************************************************************)
EXTENDS Integers, Sequences, FiniteSets

CONSTANTS
    Keys,         \* storage keys; the deployer never uses one twice
    Size,         \* bytes of the artifact behind each key
    MaxBytes,     \* Cache.maxBytes, the budget on disk
    Procs,        \* goroutines: the deployer, the worker, requests
    NoProc,       \* nobody
    Backends,     \* the configured store: "s3" (with the cache), "local" or either
    MaxCalls,     \* bound: calls of Put, Open and Delete
    MaxDeletes,   \* bound: how many of them are Delete
    MaxFaults,    \* bound: calls that fail
    MaxRestarts   \* bound: crashes of the process

ASSUME CacheAssumption ==
    /\ Size \in [Keys -> Nat \ {0}]
    /\ MaxBytes \in Nat
    /\ NoProc \notin Procs
    /\ Backends \subseteq {"s3", "local"}
    /\ {MaxCalls, MaxDeletes, MaxFaults, MaxRestarts} \subseteq Nat
    /\ IsFiniteSet(Keys) /\ IsFiniteSet(Procs)

VARIABLES
    backend,   \* the store this process was configured with
    store,     \* the keys the bucket, or Local's directory, holds
    tried,     \* the keys some Put was called with
    recorded,  \* the artifacts whose Put returned, so that a build names them
    disk,      \* the cache's files: absent, part or whole
    staged,    \* the staging file a call owns: absent, part or whole
    orphans,   \* staging files no call owns
    entries,   \* Cache.entries, by Cache.clock of the last use
    bytes,     \* Cache.bytes
    flight,    \* Cache.fills: who runs the fill of a key
    call,      \* what each goroutine is doing
    spent      \* the bounded events so far

remote == <<store, tried, recorded>>
files  == <<disk, staged, orphans>>
index  == <<entries, bytes>>
vars   == <<backend, store, tried, recorded, disk, staged, orphans, entries,
            bytes, flight, call, spent>>

-----------------------------------------------------------------------------
(* Calls *)

Contents == {"absent", "part", "whole"}
Steps == {"idle", "touch", "join", "wait", "stat", "fetch", "copy", "upload",
          "link", "publish", "index", "trim", "evict", "drop", "filled",
          "bypass", "opened"}

\* A goroutine that has no call open.  out is how its last call ended, bytes
\* and digest are what Open handed it: the reader and Info.sha256.
Idle == [at |-> "idle", op |-> "none", key |-> "none", err |-> "none",
         out |-> "none", bytes |-> "absent", digest |-> FALSE,
         todo |-> <<>>, over |-> 0]

Spend(what) ==
    /\ spent[what] > 0
    /\ spent' = [spent EXCEPT ![what] = @ - 1]

Becomes(p, c) == call' = [call EXCEPT ![p] = c]
Goto(p, at)   == Becomes(p, [call[p] EXCEPT !.at = at])

\* The call ends; its key and what it was stay to be looked at.
Return(p, out) ==
    Becomes(p, [Idle EXCEPT !.op = call[p].op, !.key = call[p].key, !.out = out])

\* Open hands its caller a reader and an Info, with or without a digest.
Handed(p, content, digest) ==
    [call[p] EXCEPT !.at = "opened", !.bytes = content, !.digest = digest,
                    !.err = "none"]

Started(p, op, k, at) == [Idle EXCEPT !.at = at, !.op = op, !.key = k]

Booting == \E p \in Procs : call[p].op = "boot"
Ready(p) == call[p].at = "idle" /\ ~Booting

\* The bytes of the artifacts behind some keys, counted.
SizeOf(keys) == Cardinality(UNION {{k} \X (1 .. Size[k]) : k \in keys})
Indexed      == {entries[i] : i \in 1 .. Len(entries)}
OnDisk       == {k \in Keys : disk[k] # "absent"}

\* A key is in the index once.
Without(s, k) ==
    IF \A i \in 1 .. Len(s) : s[i] # k THEN s
    ELSE LET gone == CHOOSE i \in 1 .. Len(s) : s[i] = k
         IN  [i \in 1 .. (Len(s) - 1) |-> IF i < gone THEN s[i] ELSE s[i + 1]]

-----------------------------------------------------------------------------
(* The index, under Cache.mu *)

\* Cache.touch.
Touch(k) ==
    /\ entries' = Append(Without(entries, k), k)
    /\ bytes' = IF k \in Indexed THEN bytes ELSE bytes + Size[k]

\* The locked half of Cache.evict.
Forget(k) ==
    /\ entries' = Without(entries, k)
    /\ bytes' = IF k \in Indexed THEN bytes - Size[k] ELSE bytes

-----------------------------------------------------------------------------
(* Put *)

\* Deployer.store allocates a fresh key and calls Put, which creates a file to
\* copy into: Cache.stage, or Local's temporary beside the target.
Put(p, k) ==
    /\ Ready(p)
    /\ k \notin tried
    /\ Spend("calls")
    /\ tried' = tried \union {k}
    /\ staged' = [staged EXCEPT ![p] = "part"]
    /\ Becomes(p, Started(p, "put", k, "copy"))
    /\ UNCHANGED <<store, recorded, disk, orphans, index, flight>>

\* Mutant of EndFlight: those who wait are not told.
EndFlightAlone(p, r) ==
    /\ flight' = [flight EXCEPT ![call[p].key] = NoProc]
    /\ Becomes(p, [Started(p, "open", call[p].key, "filled") EXCEPT !.err = r])

\* The fill of p's key ends with r, for p and for all who waited for it.
EndFlight(p, r) ==
    LET k == call[p].key
        woken == {q \in Procs : call[q].at = "wait" /\ call[q].key = k}
    IN  /\ flight' = [flight EXCEPT ![k] = NoProc]
        /\ call' = [q \in Procs |->
             IF q \in woken \union {p}
             THEN [Started(q, "open", k, "filled") EXCEPT !.err = r]
             ELSE call[q]]

\* CopyAndHashContext within the limit: the caller's for Put, which the build
\* keeps to, the cache's own budget for a fill.
Fits(p) == call[p].op = "put" \/ Size[call[p].key] <= MaxBytes

\* stage, or Local.Put up to the link: the copy is complete and synced.
CopyDone(p) ==
    /\ call[p].at = "copy"
    /\ Fits(p)
    /\ staged' = [staged EXCEPT ![p] = "whole"]
    /\ Goto(p, IF call[p].op = "open" THEN "publish"
               ELSE IF backend = "s3" THEN "upload" ELSE "link")
    /\ UNCHANGED <<remote, disk, orphans, index, flight, spent>>

\* Mutant of CopyFails: the error of a copy in a fill is overlooked.
CopyFailsUnseen(p) ==
    /\ call[p].at = "copy" /\ call[p].op = "open"
    /\ Spend("faults")
    /\ Goto(p, "publish")
    /\ UNCHANGED <<remote, files, index, flight>>

\* The copy fails (the source, the disk, the context) or exceeds the limit:
\* the file is removed.  A fill that fails is the error of its flight.
CopyFails(p) ==
    /\ call[p].at = "copy"
    /\ IF Fits(p) THEN Spend("faults") ELSE UNCHANGED spent
    /\ staged' = [staged EXCEPT ![p] = "absent"]
    /\ IF call[p].op = "open"
       THEN EndFlight(p, "error")
       ELSE Return(p, "error") /\ UNCHANGED flight
    /\ UNCHANGED <<remote, disk, orphans, index>>

\* Mutant of UploadFails: the staged file is not removed.
UploadFailsKeeps(p) ==
    /\ call[p].at = "upload"
    /\ Spend("faults")
    /\ Return(p, "error")
    /\ UNCHANGED <<remote, files, index, flight>>

\* S3.Put from the staged file.  The key is fresh, so exists() says no.
Upload(p) ==
    /\ call[p].at = "upload"
    /\ call[p].key \notin store
    /\ store' = store \union {call[p].key}
    /\ Goto(p, "publish")
    /\ UNCHANGED <<tried, recorded, files, index, flight, spent>>

\* The request fails; whether the object landed is not known.
UploadFails(p) ==
    /\ call[p].at = "upload"
    /\ Spend("faults")
    /\ \E landed \in SUBSET {call[p].key} : store' = store \union landed
    /\ staged' = [staged EXCEPT ![p] = "absent"]
    /\ Return(p, "error")
    /\ UNCHANGED <<tried, recorded, disk, orphans, index, flight>>

\* Local.Put publishes by linking, which fails on a key that exists, and
\* removes its temporary; a link that fails ends like a copy that does.
Link(p) ==
    /\ call[p].at = "link"
    /\ call[p].key \notin store
    /\ store' = store \union {call[p].key}
    /\ recorded' = recorded \union {call[p].key}
    /\ staged' = [staged EXCEPT ![p] = "absent"]
    /\ Return(p, "ok")
    /\ UNCHANGED <<tried, disk, orphans, index, flight, spent>>

\* Another process of the plane stores an artifact in the shared bucket.
PeerPut(k) ==
    /\ backend = "s3"
    /\ k \notin tried
    /\ Spend("calls")
    /\ store' = store \union {k}
    /\ tried' = tried \union {k}
    /\ recorded' = recorded \union {k}
    /\ UNCHANGED <<files, index, flight, call>>

-----------------------------------------------------------------------------
(* publish, trim and evict *)

\* What follows publish and trim: Put returns, a fill ends, a boot is done,
\* Delete returns.
Published(p) ==
    CASE call[p].op = "open" -> EndFlight(p, "ok") /\ UNCHANGED recorded
      [] call[p].op = "put"  ->
           /\ Return(p, "ok")
           /\ recorded' = recorded \union {call[p].key}
           /\ UNCHANGED flight
      [] call[p].op = "boot" -> Becomes(p, Idle) /\ UNCHANGED <<recorded, flight>>
      [] OTHER               -> Return(p, "ok") /\ UNCHANGED <<recorded, flight>>

\* The atomic rename of publish.
Rename(p) ==
    /\ call[p].at = "publish"
    /\ disk' = [disk EXCEPT ![call[p].key] = staged[p]]
    /\ staged' = [staged EXCEPT ![p] = "absent"]
    /\ Goto(p, "index")
    /\ UNCHANGED <<remote, orphans, index, flight, spent>>

\* MkdirAll or the rename fails, which publish logs and swallows.  Put removes
\* its staged file when it returns; fill has nothing that does.
RenameFails(p) ==
    /\ call[p].at = "publish"
    /\ Spend("faults")
    /\ staged' = [staged EXCEPT ![p] = "absent"]
    /\ orphans' = IF call[p].op = "open" THEN orphans + 1 ELSE orphans
    /\ Published(p)
    /\ UNCHANGED <<store, tried, disk, index>>

PublishTouch(p) ==
    /\ call[p].at = "index"
    /\ Touch(call[p].key)
    /\ Goto(p, "trim")
    /\ UNCHANGED <<remote, files, flight, spent>>

\* Mutant of Trim: by how much the budget is exceeded is one too small.
TrimShort(p) ==
    /\ call[p].at = "trim"
    /\ IF bytes <= MaxBytes
       THEN Published(p)
       ELSE /\ Becomes(p, [call[p] EXCEPT !.at = "evict", !.todo = entries,
                                          !.over = bytes - MaxBytes - 1])
            /\ UNCHANGED <<recorded, flight>>
    /\ UNCHANGED <<store, tried, files, index, spent>>

\* The locked half of trim: inside the budget it is done, otherwise it notes
\* the entries, oldest first, and by how much the budget is exceeded.
Trim(p) ==
    /\ call[p].at = "trim"
    /\ IF bytes <= MaxBytes
       THEN Published(p)
       ELSE /\ Becomes(p, [call[p] EXCEPT !.at = "evict", !.todo = entries,
                                          !.over = bytes - MaxBytes])
            /\ UNCHANGED <<recorded, flight>>
    /\ UNCHANGED <<store, tried, files, index, spent>>

\* On to the next candidate.
Skip(p) == [call[p] EXCEPT !.at = "evict", !.todo = Tail(@),
                           !.over = @ - Size[Head(call[p].todo)]]

\* evict removes the file first; one that is gone already is no error.
EvictFile(p) ==
    /\ call[p].at = "evict"
    /\ call[p].over > 0 /\ call[p].todo # <<>>
    /\ disk' = [disk EXCEPT ![Head(call[p].todo)] = "absent"]
    /\ Goto(p, "drop")
    /\ UNCHANGED <<remote, staged, orphans, index, flight, spent>>

\* It cannot be removed: it stays indexed, and trim goes on.
EvictFails(p) ==
    /\ call[p].at = "evict"
    /\ call[p].over > 0 /\ call[p].todo # <<>>
    /\ disk[Head(call[p].todo)] # "absent"
    /\ Spend("faults")
    /\ Becomes(p, Skip(p))
    /\ UNCHANGED <<remote, files, index, flight>>

\* ... then the entry, under the lock.
EvictEntry(p) ==
    /\ call[p].at = "drop"
    /\ Forget(Head(call[p].todo))
    /\ Becomes(p, Skip(p))
    /\ UNCHANGED <<remote, files, flight, spent>>

TrimEnds(p) ==
    /\ call[p].at = "evict"
    /\ call[p].over <= 0 \/ call[p].todo = <<>>
    /\ Published(p)
    /\ UNCHANGED <<store, tried, files, index, spent>>

-----------------------------------------------------------------------------
(* Open *)

\* hit: the file is opened; whoever removes it now, the reader keeps it.
TryHit(p, c, missed) ==
    Becomes(p, IF disk[c.key] # "absent"
               THEN [c EXCEPT !.at = "touch", !.bytes = disk[c.key]]
               ELSE [c EXCEPT !.at = missed])

\* A worker opens a layer of a build, which names only recorded artifacts.  A
\* file that is there and cannot be opened is a miss like one that comes later.
Open(p, k) ==
    /\ backend = "s3"
    /\ Ready(p)
    /\ k \in recorded
    /\ Spend("calls")
    /\ TryHit(p, Started(p, "open", k, "join"), "join")
    /\ UNCHANGED <<remote, files, index, flight>>

\* The rest of hit.  Its Info has a size and no digest.
HitTouch(p) ==
    /\ call[p].at = "touch"
    /\ Touch(call[p].key)
    /\ Becomes(p, Handed(p, call[p].bytes, FALSE))
    /\ UNCHANGED <<remote, files, flight, spent>>

\* Mutant of Join: every miss runs a fill of its own.
JoinAlone(p) ==
    /\ call[p].at = "join"
    /\ flight' = [flight EXCEPT ![call[p].key] = p]
    /\ Goto(p, "stat")
    /\ UNCHANGED <<remote, files, index, spent>>

\* fills.Do: run the fill, or wait for whoever runs it.
Join(p) ==
    /\ call[p].at = "join"
    /\ IF flight[call[p].key] = NoProc
       THEN flight' = [flight EXCEPT ![call[p].key] = p] /\ Goto(p, "stat")
       ELSE Goto(p, "wait") /\ UNCHANGED flight
    /\ UNCHANGED <<remote, files, index, spent>>

\* fill looks once more whether the file is there.
FillStat(p) ==
    /\ call[p].at = "stat"
    /\ IF disk[call[p].key] # "absent"
       THEN EndFlight(p, "ok")
       ELSE Goto(p, "fetch") /\ UNCHANGED flight
    /\ UNCHANGED <<remote, files, index, spent>>

\* fill's remote.Open, and the staging file it copies into.
Fetch(p) ==
    /\ call[p].at = "fetch"
    /\ IF call[p].key \in store
       THEN /\ staged' = [staged EXCEPT ![p] = "part"]
            /\ Goto(p, "copy")
            /\ UNCHANGED flight
       ELSE EndFlight(p, "not_found") /\ UNCHANGED staged
    /\ UNCHANGED <<remote, disk, orphans, index, spent>>

FetchFails(p) ==
    /\ call[p].at = "fetch"
    /\ Spend("faults")
    /\ EndFlight(p, "error")
    /\ UNCHANGED <<remote, files, index>>

\* Mutant of Filled: every error of the fill is the caller's not found.
FilledOrNot(p) ==
    /\ call[p].at = "filled"
    /\ IF call[p].err = "ok" THEN TryHit(p, call[p], "bypass")
                             ELSE Return(p, "not_found")
    /\ UNCHANGED <<remote, files, index, flight, spent>>

\* Open after the flight: what is not there is not found, anything else that
\* went wrong is bypassed, and a filled key is tried once more.
Filled(p) ==
    /\ call[p].at = "filled"
    /\ CASE call[p].err = "not_found" -> Return(p, "not_found")
         [] call[p].err = "error"     -> Goto(p, "bypass")
         [] OTHER                     -> TryHit(p, call[p], "bypass")
    /\ UNCHANGED <<remote, files, index, flight, spent>>

\* remote.Open for the caller itself; S3 computes no digest.
Bypass(p) ==
    /\ call[p].at = "bypass"
    /\ IF call[p].key \in store
       THEN Becomes(p, Handed(p, "whole", FALSE))
       ELSE Return(p, "not_found")
    /\ UNCHANGED <<remote, files, index, flight, spent>>

BypassFails(p) ==
    /\ call[p].at = "bypass"
    /\ Spend("faults")
    /\ Return(p, "error")
    /\ UNCHANGED <<remote, files, index, flight>>

\* Local.Open reads the whole file to hash it; when that fails nothing has
\* happened.
LocalOpen(p, k) ==
    /\ backend = "local"
    /\ Ready(p)
    /\ k \in recorded
    /\ Spend("calls")
    /\ LET c == [Idle EXCEPT !.op = "open", !.key = k]
       IN  Becomes(p, IF k \in store
                      THEN [c EXCEPT !.at = "opened", !.bytes = "whole", !.digest = TRUE]
                      ELSE [c EXCEPT !.out = "not_found"])
    /\ UNCHANGED <<remote, files, index, flight>>

\* Worker.materialize: the Info must carry the size and the digest the build
\* recorded, and so must the bytes that were copied.
Accepts(c) == c.digest /\ c.bytes = "whole"

Materialize(p) ==
    /\ call[p].at = "opened"
    /\ Becomes(p, [call[p] EXCEPT !.at = "idle",
                     !.out = IF Accepts(call[p]) THEN "ok" ELSE "rejected"])
    /\ UNCHANGED <<remote, files, index, flight, spent>>

-----------------------------------------------------------------------------
(* Delete, restart *)

\* Cache.Delete: the bucket first, then evict; Local.Delete: the file.  When
\* that fails nothing has happened.  Nobody in the plane calls it yet.
Delete(p, k) ==
    /\ Ready(p)
    /\ k \in recorded
    /\ Spend("deletes")
    /\ store' = store \ {k}
    /\ LET c == [Idle EXCEPT !.op = "delete", !.key = k]
       IN  Becomes(p, IF k \notin store THEN [c EXCEPT !.out = "not_found"]
                      ELSE IF backend = "local" THEN [c EXCEPT !.out = "ok"]
                      ELSE [c EXCEPT !.at = "evict", !.todo = <<k>>, !.over = Size[k]])
    /\ UNCHANGED <<tried, recorded, files, index, flight>>

Orders(S) ==
    {f \in [1 .. Cardinality(S) -> S] : \A i, j \in DOMAIN f : f[i] = f[j] => i = j}

\* Mutant of LeftStaged: NewCache leaves the staging directory alone.
LeftStagedAll == orphans + Cardinality({q \in Procs : staged[q] # "absent"})

\* What a crash leaves of the staged files: NewCache empties the staging
\* directory, NewLocal leaves temporaries where they are.
LeftStaged ==
    IF backend = "s3" THEN 0
    ELSE orphans + Cardinality({q \in Procs : staged[q] # "absent"})

\* The process is killed and started again.  NewCache indexes the files
\* it finds and trims, before anything is served.
Restart(p) ==
    /\ Spend("restarts")
    /\ flight' = [k \in Keys |-> NoProc]
    /\ staged' = [q \in Procs |-> "absent"]
    /\ orphans' = LeftStaged
    /\ IF backend = "s3"
       THEN /\ entries' \in Orders(OnDisk)
            /\ bytes' = SizeOf(OnDisk)
            /\ call' = [q \in Procs |->
                 IF q = p THEN [Idle EXCEPT !.at = "trim", !.op = "boot"] ELSE Idle]
       ELSE call' = [q \in Procs |-> Idle] /\ UNCHANGED index
    /\ UNCHANGED <<remote, disk>>

-----------------------------------------------------------------------------
(* The specification *)

Init ==
    /\ backend \in Backends
    /\ store = {} /\ tried = {} /\ recorded = {}
    /\ disk = [k \in Keys |-> "absent"]
    /\ staged = [p \in Procs |-> "absent"]
    /\ orphans = 0
    /\ entries = <<>> /\ bytes = 0
    /\ flight = [k \in Keys |-> NoProc]
    /\ call = [p \in Procs |-> Idle]
    /\ spent = [calls |-> MaxCalls, deletes |-> MaxDeletes,
                faults |-> MaxFaults, restarts |-> MaxRestarts]

\* The steps a call takes by itself.
Progress(p) ==
    \/ CopyDone(p) \/ Upload(p) \/ Link(p)
    \/ Rename(p) \/ PublishTouch(p) \/ Trim(p)
    \/ EvictFile(p) \/ EvictEntry(p) \/ TrimEnds(p)
    \/ HitTouch(p) \/ Join(p) \/ FillStat(p) \/ Fetch(p)
    \/ Filled(p) \/ Bypass(p) \/ Materialize(p)

Failure(p) ==
    \/ CopyFails(p) \/ UploadFails(p) \/ RenameFails(p)
    \/ EvictFails(p) \/ FetchFails(p) \/ BypassFails(p)

Next ==
    /\ UNCHANGED backend
    /\ \/ \E p \in Procs : Progress(p) \/ Failure(p) \/ Restart(p)
       \/ \E p \in Procs, k \in Keys :
            Put(p, k) \/ Open(p, k) \/ LocalOpen(p, k) \/ Delete(p, k)
       \/ \E k \in Keys : PeerPut(k)

\* File system and bucket calls return, one way or the other; a fill over the
\* cache's budget ends in an error.
Fairness ==
    \A p \in Procs :
        WF_vars(UNCHANGED backend /\ (Progress(p) \/ (CopyFails(p) /\ ~Fits(p))))

Spec == Init /\ [][Next]_vars /\ Fairness

-----------------------------------------------------------------------------
(* Properties *)

TypeOK ==
    /\ backend \in Backends
    /\ store \subseteq tried /\ recorded \subseteq tried /\ tried \subseteq Keys
    /\ disk \in [Keys -> Contents]
    /\ staged \in [Procs -> Contents]
    /\ orphans \in Nat
    /\ entries \in Orders(Indexed) /\ Indexed \subseteq Keys
    /\ bytes \in Nat
    /\ flight \in [Keys -> Procs \union {NoProc}]
    /\ \A p \in Procs :
         /\ call[p].at \in Steps
         /\ call[p].at \in {"copy", "upload", "link", "publish"} <=> staged[p] # "absent"

\* The cache never shows, and Open never hands out, a prefix of an artifact:
\* stage, the rename of publish and the restart that drops what was staged.
NothingTorn ==
    /\ \A k \in OnDisk : disk[k] = "whole"
    /\ \A p \in Procs : call[p].at \in {"touch", "opened"} => call[p].bytes = "whole"

\* Open says ErrNotFound only of what is not in the store: a fill that failed,
\* for its caller or for those who waited for it, is never taken for that.
NotFoundIsTrue ==
    \A p \in Procs :
        call[p].op = "open" /\ call[p].out = "not_found" => call[p].key \notin store

Filling(p) == call[p].op = "open" /\
    call[p].at \in {"stat", "fetch", "copy", "publish", "index", "trim", "evict", "drop"}

\* "one fetch and [not] one per concurrent execution of the same build": at any
\* time one call fills a key, and it is the one the flight names.
OneFillPerKey ==
    /\ \A p \in Procs : Filling(p) => flight[call[p].key] = p
    /\ \A k \in Keys : flight[k] # NoProc =>
         Filling(flight[k]) /\ call[flight[k]].key = k

\* Cache.bytes is the sum of the entries, whatever touch, evict and trim of
\* several goroutines did in between.
BytesMatchIndex == bytes = SizeOf(Indexed)

\* Besides the files of open calls the cache's staging directory holds at most
\* one file for each fill whose publish failed: copies that fail, uploads that
\* fail and crashes leave nothing behind.
StagingSwept == backend = "s3" => orphans <= MaxFaults - spent["faults"]

\* The cache accounts for every file it holds, entries and staged files alike.
Accounted == BytesMatchIndex /\ StagingSwept

AtRest == \A p \in Procs : call[p].at = "idle"

\* When no call is open the cache accounts for exactly what it holds, and holds
\* no more than its budget ("trim drops least-recently-used entries until the
\* cache is inside its budget"), also after a crash anywhere.
RestsInsideBudget ==
    AtRest => OnDisk = Indexed /\ SizeOf(OnDisk) <= MaxBytes

\* Worker.materialize rejects only bytes that are not the artifact's: whatever
\* Put stored and Open hands out whole is accepted.
IntactAccepted ==
    \A p \in Procs : call[p].op = "open" /\ call[p].out = "rejected" => call[p].bytes # "whole"

\* Every call of Put, Open and Delete ends: nobody waits for ever for a fill that
\* failed, and trim ends.
CallsReturn == \A p \in Procs : call[p].at # "idle" ~> call[p].at = "idle"

=============================================================================
