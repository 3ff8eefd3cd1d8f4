------------------------------- MODULE MCApps -------------------------------
(* Instances of Apps for TLC. *)
EXTENDS Apps, TLC

CONSTANTS o1, o2, i1, p1, p2, p3, a1, a2, a3, a4, n1, n2, n3, r1, R1, main, dev, k1, k2, c1, c2, w1

MCLower == r1 :> r1 @@ R1 :> r1

Part(text, low, ext) == [text |-> text, folded |-> low, ext |-> ext, plain |-> TRUE]
Wrap == Part("o-r-sha", "o-r-sha", "")
Lib == Part("lib", "lib", "")
Script == Part("gen.py", "gen.py", ".py")
Module == Part("go.mod", "go.mod", ".mod")
Needs == Part("requirements.txt", "requirements.txt", ".txt")

Item(name, kind, size) == [name |-> <<Wrap>> \o name, kind |-> kind, size |-> size]

\* A Go module with helper scripts, and loose scripts with a directory and a link.
MCTarball ==
    k1 :> <<Item(<<Module>>, "file", 1), Item(<<Needs>>, "file", 1), Item(<<Script>>, "file", 0)>>
    @@ k2 :> <<Item(<<Script>>, "file", 2), Item(<<Lib>>, "dir", 0),
               Item(<<Lib, Needs>>, "file", 1), Item(<<Module>>, "link", 0)>>

MCTargets == {<<R1, dev>>, <<NULL, NULL>>}

\* Each organization has a project and an app connected to the same repository;
\* the installation is the first one's, which has a second app, and was the
\* other's before.
MCProjects0 == p1 :> [org |-> o1, name |-> n1] @@ p2 :> [org |-> o2, name |-> n1] @@ p3 :> NULL

MCRow(p, n, r) == [project |-> p, name |-> n, repository |-> r, ref |-> NULL, active |-> NULL]

MCApps0 ==
    a1 :> MCRow(p1, n1, r1) @@ a2 :> MCRow(p1, n2, R1) @@ a3 :> MCRow(p2, n1, r1) @@ a4 :> NULL

MCInstalled0 == o1 :> i1 @@ o2 :> NULL

MCReadable0 == r1 :> i1 @@ R1 :> i1

\* The archives of these commits lose nothing.
ASSUME ArchivesKept == ArchivesKeep

---------------------------------------------------------------------------
(* ExtractZIP against what is meant, over small archives in every order. *)

Upper == Part("LIB", "lib", "")
Device == [Part("aux", "aux", "") EXCEPT !.plain = FALSE]
SmallNames == {<<Lib>>, <<Upper>>, <<Lib, Script>>, <<Upper, Script>>, <<Device>>}
SmallEntries ==
    [name : SmallNames, kind : {"file", "dir"}, size : 0..2, data : 0..2]
    \cup [name : {<<Script>>}, kind : {"link"}, size : {0}, data : {0}]
EmptyEntries == [name : SmallNames, kind : {"file", "dir"}, size : {0}, data : {0}]
SmallArchives == UNION {[1..n -> SmallEntries] : n \in 0..2} \cup [1..3 -> EmptyEntries]

\* The headers tell the truth about the data.
Honest(zip) == \A i \in DOMAIN zip : zip[i].kind = "file" => zip[i].data = zip[i].size

\* What inspection accepts, extraction carries out whole, in whatever order the
\* entries come and unless the data is not what its header says: no file is in the
\* way of another entry, and the limit holds for what is written.  Otherwise nothing
\* is left.
ASSUME ExtractsWhole ==
    \A zip \in SmallArchives :
        LET result == ExtractZIP(zip) IN
        /\ result.err <=> ~(inspectArchive(zip) /\ Honest(zip))
        /\ result.tree = IF result.err THEN {} ELSE Meant(zip)
        /\ result.expanded <= MaxArchiveExpandedBytes

\* The cases the bounds are for: a directory with its file, both orders; a lie; a
\* collision of cases.
ASSUME SmallCases ==
    /\ \E zip \in SmallArchives : ~ExtractZIP(zip).err /\ Len(zip) = 2 /\ zip[2].kind = "dir"
                                    /\ Below(zip[1].name, zip[2].name)
    /\ \E zip \in SmallArchives : inspectArchive(zip) /\ ExtractZIP(zip).err
    /\ ~inspectArchive(<<[name |-> <<Lib>>, kind |-> "file", size |-> 0, data |-> 0],
                         [name |-> <<Upper>>, kind |-> "file", size |-> 0, data |-> 0]>>)
=============================================================================
