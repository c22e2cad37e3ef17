------------------------------- MODULE MCFuse -------------------------------
EXTENDS Fuse

MCPaths == {<<>>} \cup {<<d>> : d \in Dirs} \cup Keys
MCMetas == [size : 0..MaxLen, lab : SUBSET Labels]
MCRoot == <<>>

F == <<Top, "f">>
G == <<Top, "g">>
InD == <<"d", "f">>

\* One request at a time, two handles of one object.
Handles == [name |-> "handles", threads |-> 1, stored |-> {F}, lab |-> {"l"}, keys |-> {F}, fhs |-> 2, writes |-> 1, fails |-> 1,
            ops |-> {"lookup", "read", "write", "trunc", "setattr"}]
\* Two requests at a time on one object.
Pair == [Handles EXCEPT !.name = "pair", !.threads = 2, !.writes = 1, !.fails = 0,
                        !.ops = {"lookup", "write", "trunc"}]
\* Names come and go.
Namespace == [name |-> "names", threads |-> 1, stored |-> {F}, lab |-> {"l"}, keys |-> {F, G}, fhs |-> 2, writes |-> 1, fails |-> 0,
              ops |-> {"lookup", "write", "create", "unlink", "rename"}]
\* A file is written and flushed while it is moved.
Movers == [Namespace EXCEPT !.name = "movers", !.threads = 2, !.fhs = 1, !.writes = 2, !.fails = 1, !.ops = {"lookup", "write", "rename"}]
\* Directories come, move and go.
Tree == [name |-> "tree", threads |-> 1, stored |-> {InD}, lab |-> {"l"}, keys |-> {InD}, fhs |-> 1, writes |-> 1, fails |-> 1,
         ops |-> {"lookup", "readdir", "write", "mkdir", "rmdir", "renamedir"}]
\* Labels are set and removed between the other requests.
Labelled == [name |-> "labels", threads |-> 1, stored |-> {F}, lab |-> {"l"}, keys |-> {F}, fhs |-> 1, writes |-> 1, fails |-> 1,
             ops |-> {"lookup", "getattr", "expire", "write", "label"}]
PassingMixes == {Handles, Pair, Namespace, Movers, Tree, Labelled}

\* Among the movers, neither an open nor a flush overlaps a rename, and one flush runs at a time.
Apart ==
    traffic.name = "movers" =>
        /\ ~\E t, u \in Threads : op[t].pc \in {"open", "opened"} /\ Holds(op[u]) # {}
        /\ ~\E t, u \in Threads : t # u /\ "fh" \in DOMAIN op[t] /\ ("fh" \in DOMAIN op[u] \/ Holds(op[u]) # {})

MCSpec == FuseInit /\ [][FuseNext /\ Apart']_fuseVars

\* What is written, truncated and read through the mount is what the daemon stores: removed bytes stay removed, a
\* handle follows its file (FollowsInode), a flush stores the buffer where flushes do not overlap each other
\* (FlushedIsStored), and a read is right where no handle outlives its file and no answer of the daemon is applied
\* late (ReadTrue).
MountKeepsData ==
    /\ TruncSticks /\ FollowsInode
    /\ traffic.name # "pair" => FlushedIsStored
    /\ traffic.name \notin {"pair", "names"} => ReadTrue

=============================================================================
