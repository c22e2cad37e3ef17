---------------------------- MODULE MCStagingFile ----------------------------
(* Instances of StagingFile.                                                *)
EXTENDS StagingFile, TLC

\* Requests of one kind and inodes are interchangeable.
Symmetry == UNION {Permutations(S) : S \in {Putters, Labelers, Readers, Admins, Inodes}}

\* Two instances in one: PUTs, a set_labels and a GET of a daemon that may fail; and
\* PUTs beside an administrator who clears locks of any age.  (A sweep that meets the
\* orphan of a crash while a PUT re-creates it breaks PublishesOwnFile; the PUT then fails.)
Sweeping == \E a \in Admins : pc[a] # "idle" \/ cutoff[a] # 0
Serving == ~Sweeping /\ clock = 1
Clearing == \A p \in Labelers \cup Readers : pc[p] = "idle" /\ seen[p] = {}
MCSpec == Init /\ [][Next /\ (Serving \/ Clearing)']_vars

\* Every property is about states without a forced release.
NothingEvicted == evicted = {}
=============================================================================
