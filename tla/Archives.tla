------------------------------ MODULE Archives ------------------------------
(***************************************************************************)
(* What becomes of the source of a commit on its way to a toolchain: the   *)
(* tarball GitHub serves is repacked as a ZIP (internal/github), its names *)
(* tell the runtime (internal/domain/build), and the ZIP is inspected and  *)
(* extracted (internal/files), as the artifacts of a build are later.      *)
(*                                                                         *)
(* A name is a sequence of components.  Of a component only what the code  *)
(* asks is kept: its text, the text in lower case, the extension, and      *)
(* whether extraction takes it (plain: no traversal, separator, control    *)
(* character, device name, trailing dot or space).  Of a file only the     *)
(* size is kept: as the header declares it, and of the data that follows.  *)
(* Modes and timestamps are left out.                                      *)
(***************************************************************************)
EXTENDS Naturals, Sequences
LOCAL INSTANCE SequencesExt

CONSTANTS
    MaxArchiveEntries,        \* of a tarball and of a ZIP
    MaxArchiveBytes,          \* of the files of a tarball
    MaxArchiveExpandedBytes   \* of the files of a ZIP

ASSUME LimitsAssumption ==
    {MaxArchiveEntries, MaxArchiveBytes, MaxArchiveExpandedBytes} \subseteq Nat \ {0}

\* The sum of what the headers declare.
Declared(entries) == FoldLeft(LAMBDA sum, e : sum + e.size, 0, entries)

---------------------------------------------------------------------------
(* Repacking. *)

\* strip takes the directory off that GitHub wraps everything in; << >> is a name
\* that does not lie in it.
strip(name) == IF Len(name) < 2 \/ name[2].text = ".." THEN << >> ELSE Tail(name)

\* The regular files of a tarball; everything else is passed over.
Regular(tarball) == SelectSeq(tarball, LAMBDA e : e.kind = "file" /\ strip(e.name) # << >>)

\* repack within its limits; otherwise ErrSourceTooBig.
Repacks(tarball) ==
    LET kept == Regular(tarball) IN
    Len(kept) <= MaxArchiveEntries /\ Declared(kept) <= MaxArchiveBytes

repack(tarball) ==
    LET kept == Regular(tarball) IN
    [i \in DOMAIN kept |-> [name |-> strip(kept[i].name), kind |-> "file",
                            size |-> kept[i].size, data |-> kept[i].size]]

\* ZIPNames
ZIPNames(zip) == {zip[i].name : i \in DOMAIN zip}

---------------------------------------------------------------------------
(* The runtime. *)

\* The manifests, each with its runtime; order decides ties.
markers == << <<"Cargo.toml", "rust">>, <<"go.mod", "go">>, <<"Gemfile", "ruby">>,
              <<"package.json", "node">>, <<"requirements.txt", "python">> >>

runtimes == {"rust", "go", "ruby", "node", "python"}

loose == {<<".py", "python">>, <<".rb", "ruby">>, <<".ts", "node">>, <<".js", "node">>}

\* The components of the names that lie at the root.
roots(names) == {n[1] : n \in {m \in names : Len(m) = 1}}

Manifests(names) == {i \in DOMAIN markers : \E c \in roots(names) : c.text = markers[i][1]}

\* DetectRuntime: the first manifest, or else one of the loose scripts, whichever
\* the iteration over a Go map meets first; {} is ErrInvalid.
DetectRuntime(names) ==
    IF Manifests(names) # {}
    THEN {markers[i][2] : i \in {x \in Manifests(names) : \A y \in Manifests(names) : x <= y}}
    ELSE {x[2] : x \in {y \in loose : \E c \in roots(names) : c.ext = y[1]}}

---------------------------------------------------------------------------
(* Inspection: the whole central directory, before anything is written. *)

safeArchiveName(name) == name # << >> /\ \A i \in DOMAIN name : name[i].plain

folded(name) == [i \in DOMAIN name |-> name[i].folded]

\* Whether a name lies below another.
Below(name, parent) == Len(parent) < Len(name) /\ SubSeq(name, 1, Len(parent)) = parent

\* A link or a device is refused, and a directory that has data.
Acceptable(e) ==
    safeArchiveName(e.name) /\ e.kind \in {"file", "dir"} /\ (e.kind = "dir" => e.size = 0)

FilesOf(zip) == SelectSeq(zip, LAMBDA e : e.kind = "file")

\* inspectArchive: no two names fold to one, and no file is the parent of another
\* entry.
inspectArchive(zip) ==
    /\ Len(zip) <= MaxArchiveEntries
    /\ \A i \in DOMAIN zip : Acceptable(zip[i])
    /\ \A i, j \in DOMAIN zip : folded(zip[i].name) = folded(zip[j].name) => i = j
    /\ Declared(FilesOf(zip)) <= MaxArchiveExpandedBytes
    /\ \A i, j \in DOMAIN zip : zip[i].kind = "file" => ~Below(zip[j].name, zip[i].name)

---------------------------------------------------------------------------
(* Extraction, into a staging directory. *)

Dir(name) == [name |-> name, kind |-> "dir", size |-> 0]

\* os.MkdirAll below the staging directory: a file in the way is an error.
MkdirAll(staging, name) ==
    LET parts == Prefixes(name) \ {<< >>} IN
    IF \E f \in staging.tree : f.kind = "file" /\ f.name \in parts
    THEN [staging EXCEPT !.err = TRUE]
    ELSE [staging EXCEPT !.tree = @ \cup {Dir(p) : p \in parts}]

\* CopyAndHash into a file that must be new, with what is left of the limit: the
\* data has the size the header declares, or extraction ends.
CopyFile(staging, e) ==
    IF \/ staging.err
       \/ \E f \in staging.tree : f.name = e.name
       \/ e.data > MaxArchiveExpandedBytes - staging.expanded
       \/ e.data # e.size
    THEN [staging EXCEPT !.err = TRUE]
    ELSE [staging EXCEPT !.tree = @ \cup {[name |-> e.name, kind |-> "file", size |-> e.data]},
                         !.expanded = @ + e.data]

Extracted(staging, e) ==
    IF staging.err THEN staging
    ELSE IF e.kind = "dir" THEN MkdirAll(staging, e.name)
    ELSE CopyFile(MkdirAll(staging, Front(e.name)), e)

\* Directories first.  (The names are sorted, too; inspection makes the rest of the
\* order immaterial.)
DirectoriesFirst(zip) == SelectSeq(zip, LAMBDA e : e.kind # "file") \o FilesOf(zip)

\* ExtractZIP: what is in the staging directory at the end; on an error it is
\* removed, otherwise it becomes the destination, which its callers have in a
\* directory nobody else uses.
ExtractZIP(zip) ==
    LET empty == [tree |-> {}, expanded |-> 0, err |-> ~inspectArchive(zip)]
        end == FoldLeft(Extracted, empty, DirectoriesFirst(zip))
    IN IF end.err THEN [end EXCEPT !.tree = {}] ELSE end

---------------------------------------------------------------------------
(* What is meant. *)

\* The files an archive is to give, and the directories above them or named by it.
Meant(zip) ==
    LET files == {i \in DOMAIN zip : zip[i].kind = "file"}
        inside == UNION {Prefixes(IF i \in files THEN Front(zip[i].name) ELSE zip[i].name) :
                            i \in DOMAIN zip}
    IN {[name |-> zip[i].name, kind |-> "file", size |-> zip[i].size] : i \in files}
       \cup {Dir(p) : p \in inside \ {<< >>}}

=============================================================================
