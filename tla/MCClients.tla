----------------------------- MODULE MCClients -----------------------------
(***************************************************************************)
(* The terminal client, the client's files and the transfers, side by     *)
(* side: one of them runs, the others rest in an initial state.            *)
(***************************************************************************)
EXTENDS Tui, Profiles, Transfer

CONSTANTS p1, p2, t1, t2

VARIABLE part

vars == <<part, tuiVars, profileVars, transferVars>>

--------------------------------------------------------------------------
(* The terminal client: a small tree of files, two servers, mixes of keys. *)

File(n) == [k |-> "file", v |-> n]
MCTree == [root |-> <<>>, flat |-> <<File("f"), File("l")>>,
           home |-> <<[k |-> "dir", v |-> "sub"], File("f")>>, sub |-> <<[k |-> "up", v |-> "home"], File("l")>>]
MCUnder == [root |-> {}, flat |-> {<<"f">>, <<"l">>}, home |-> {<<"f">>, <<"sub", "l">>}, sub |-> {<<"l">>}]

TwoServers == [A |-> [x |-> {<<"a">>}, y |-> {<<"a">>, <<"c">>}], B |-> [x |-> {<<"b">>}]]
OneServer  == [A |-> [x |-> {<<"a">>, <<"f">>}, y |-> None], B |-> [x |-> None, y |-> None]]

\* "held" bounds what a bucket can ever hold in the mix.
Mix(name, keys, n) == [name |-> name, keys |-> keys, left |-> n, faults |-> {}, tabs |-> {}, ask |-> {}, names |-> {}, cwd |-> "root",
    rows |-> [users |-> {2}, locks |-> {1}, metrics |-> {2}],
    aliases |-> {"A"}, tokens |-> {"A"}, srv |-> OneServer,
    held |-> [A |-> [x |-> {<<"a">>, <<"b">>, <<"f">>, <<"l">>, <<"sub", "l">>}, y |-> {}], B |-> [x |-> {}, y |-> {}]]]
Two(m) == [m EXCEPT !.srv = TwoServers, !.held = TwoServers]

Mixes == {
    Two(Mix("browse", {"tab", "nav", "enter", "delete"}, 4)),
    [Two(Mix("leave", {"tab", "nav", "enter", "back", "refresh", "delete", "logout", "quit"}, 2)) EXCEPT
        !.aliases = {"A", "B"}, !.tokens = {"A", "B"}, !.faults = {"net"}],
    Mix("refresh", {"tab", "nav", "enter", "refresh"}, 3),
    [Mix("rename", {"tab", "nav", "enter", "rename", "delete"}, 3) EXCEPT !.names = {<<"b">>, <<"a">>}],
    Mix("edit", {"tab", "nav", "enter", "range", "config"}, 3),
    Mix("create", {"tab", "nav", "enter", "new"}, 2),
    Mix("labels", {"tab", "nav", "enter", "labels"}, 4),
    [Mix("copy", {"tab", "nav", "enter", "copy"}, 4) EXCEPT !.cwd = "home"],
    [Mix("mirror", {"tab", "nav", "enter", "mirror"}, 4) EXCEPT !.cwd = "flat"],
    [Two(Mix("aliases", {"login", "passwd", "logout", "new", "edit", "import", "export", "delete", "health"}, 1)) EXCEPT
        !.tokens = {}, !.faults = {"save"}],
    [Mix("remove", {"tab", "delete"}, 0) EXCEPT !.faults = {"save"}],
    [Mix("admin", {"tab", "enter", "admin", "manage"}, 5) EXCEPT !.ask = {"Locks", "Events"}, !.tabs = {"Locks", "Events"}, !.rows.locks = {0, 1}],
    [Mix("users", {"tab", "enter", "admin"}, 6) EXCEPT !.tabs = {"Locks", "Users"}, !.rows.users = {0, 2}],
    [Mix("ask", {"tab", "enter", "admin"}, 5) EXCEPT !.ask = {"Users"}, !.tabs = {"Locks", "Users"}, !.rows.locks = {0}],
    [Mix("metrics", {"tab", "enter", "admin"}, 6) EXCEPT !.tabs = {"Events", "Metrics"}],
    Mix("query", {"tab", "enter", "nav", "search", "find", "du", "tree", "diff", "mirror", "help"}, 3) }

--------------------------------------------------------------------------
(* The client's files: one process edits aliases, the other uses them. *)

MCCommands == [p \in {p1, p2} |-> IF p = p1 THEN {"set", "remove", "login"} ELSE {"login", "logout", "request"}]
Config == [n \in AliasNames |-> t1]

--------------------------------------------------------------------------
(* Transfers: an empty content and two of the same size. *)

MCSize == <<0, 1, 1>>
All == [Keys -> {Absent} \cup Contents]
Fix(a, b, c) == [k \in Keys |-> IF k = 1 THEN a ELSE IF k = 2 THEN b ELSE c]

Job(from, to, writing) == [from |-> from, to |-> to, overwrite |-> TRUE, remove |-> TRUE, exclude |-> {}, unsafe |-> {},
    faults |-> {}, writes |-> writing, srcs |-> {Fix(1, 2, 3), Fix(2, Absent, 3)}, dsts |-> {Fix(2, 2, 1)}]

Jobs == {
    [Job("remote", "remote", 0) EXCEPT !.unsafe = {3}, !.srcs = All, !.dsts = All],
    [Job("local", "remote", 0) EXCEPT !.exclude = {3}, !.overwrite = FALSE, !.srcs = All, !.dsts = All],
    [Job("remote", "local", 1) EXCEPT !.faults = {"kill", "norename", "full", "net", "denied"},
        !.srcs = {Fix(1, 2, Absent), Fix(2, Absent, 3)}, !.dsts = {Fix(2, Absent, 1), Fix(Absent, 2, 2)}],
    Job("remote", "remote", 2), Job("local", "remote", 2), Job("local", "local", 0) }

--------------------------------------------------------------------------

Init ==
    /\ part \in {"tui", "profiles", "transfer"}
    /\ TuiInit(IF part = "tui" THEN Mixes ELSE {Mix("none", {}, 0)})
    /\ ProfilesInit(IF part = "profiles" THEN {Config, [n \in AliasNames |-> NoTarget]} ELSE {Config})
    /\ TransferInit(IF part = "transfer" THEN Jobs ELSE {[Job("local", "local", 0) EXCEPT !.srcs = {Fix(1, 2, 3)}]})

Next ==
    \/ part = "tui" /\ TuiNext /\ UNCHANGED <<part, profileVars, transferVars>>
    \/ part = "profiles" /\ ProfilesNext /\ UNCHANGED <<part, tuiVars, transferVars>>
    \/ part = "transfer" /\ TransferNext /\ UNCHANGED <<part, tuiVars, profileVars>>

Spec == Init /\ [][Next]_vars
=============================================================================
