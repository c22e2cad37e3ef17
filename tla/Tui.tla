-------------------------------- MODULE Tui --------------------------------
(***************************************************************************)
(* The terminal client (crates/y2q-cli/src/tui). One loop applies keys and *)
(* events to the application state; every request to a server is a task of *)
(* its own, whose answer is applied whenever it arrives, whatever the user *)
(* has opened meanwhile. A mix says which keys are used.                   *)
(***************************************************************************)
EXTENDS Naturals, Sequences, FiniteSets, SequencesExt

CONSTANTS
    Tree,            \* local directory |-> its entries: [k |-> "up" | "dir" | "file", v |-> directory or name]
    Under,           \* local directory |-> the relative keys of the files below it
    MAX_TRANSFERS,   \* entries kept in the transfer bar (50)
    None

VARIABLES
    traffic,     \* the mix: keys used, faults, admin tabs, names typed, initial files and servers
    ui,          \* App: mode, focused, active_alias, remote_throbber, pending_mirror, should_quit
    pane,        \* RemotePane: level, entries, selected
    local,       \* LocalPane: cwd, selected
    transfers,   \* the transfer bar
    admin,       \* the views of the admin tabs
    files,       \* aliases in memory, on disk and shown; aliases a token is stored for
    srv,         \* the servers: alias |-> bucket |-> keys
    tasks,       \* spawned tasks
    left,        \* tasks that may still be spawned
    asked        \* history: what the user confirmed or named to be removed

tuiVars == <<traffic, ui, pane, local, transfers, admin, files, srv, tasks, left, asked>>

Pop(m)       == [m |-> m]
Browse       == Pop("Browse")
Admin(tab)   == [m |-> "Admin", tab |-> tab]
Input(act)   == [m |-> "Input", act |-> act]
Confirm(act) == [m |-> "Confirm", act |-> act]

Aliases == DOMAIN srv
Tabs == <<"Rebuild", "Locks", "Users", "Metrics", "Events">>

--------------------------------------------------------------------------
(* The remote pane. *)

Back == [k |-> "back"]
Rows(k, set) == LET s == SetToSeq(set) IN [i \in DOMAIN s |-> [k |-> k, v |-> s[i]]]

go_to_aliases(aliases) == [level |-> [at |-> "Aliases"], entries |-> Rows("alias", aliases), sel |-> 1]
set_buckets(alias, buckets) ==
    [level |-> [at |-> "Buckets", alias |-> alias], entries |-> <<Back>> \o Rows("bucket", buckets), sel |-> 1]

set_objects(alias, bucket, keys) ==
    [level |-> [at |-> "Objects", alias |-> alias, bucket |-> bucket],
     entries |-> <<Back>> \o Rows("object", keys), sel |-> 1]

\* Out of a bucket: the list of buckets is empty until it is asked for again.
go_back ==
    CASE pane.level.at = "Aliases" -> pane
      [] pane.level.at = "Buckets" -> go_to_aliases(files.shown)
      [] pane.level.at = "Objects" -> set_buckets(pane.level.alias, {})

selected_entry == IF pane.sel \in DOMAIN pane.entries THEN pane.entries[pane.sel] ELSE [k |-> "none"]

AtObjects == pane.level.at = "Objects"
OnObject  == ui.focus = "Remote" /\ selected_entry.k = "object" /\ AtObjects

\* Selected alias entry, or the currently open one.
target_alias ==
    IF pane.level.at # "Aliases" THEN ui.active
    ELSE IF selected_entry.k = "alias" THEN selected_entry.v ELSE None

remote_scope == IF pane.level.at = "Aliases" THEN ui.active ELSE pane.level.alias

\* What the handlers of a selected object name: the open alias, the bucket and the key of the row.
Target ==
    IF OnObject THEN [alias |-> ui.active, bucket |-> pane.level.bucket, key |-> selected_entry.v]
    ELSE [alias |-> None]

RowBucket == IF selected_entry.k = "bucket" THEN selected_entry.v ELSE None

--------------------------------------------------------------------------
(* Tasks and the transfer bar. A task takes the configuration along. *)

Task(op, alias) == [op |-> op, alias |-> alias]
On(op, t) == [op |-> op] @@ t

Spawn(ts) ==
    /\ left >= Len(ts)
    /\ tasks' = tasks \cup {ts[i] @@ [n |-> left - i + 1, pc |-> "run", known |-> ts[i].alias \in files.mem] : i \in DOMAIN ts}
    /\ left' = left - Len(ts)

\* The oldest entry makes room, whatever its state.
push_transfer(ts) ==
    LET all == transfers \o [i \in DOMAIN ts |-> [id |-> left - i + 1, st |-> "Queued"]]
    IN transfers' = SubSeq(all, IF Len(all) > MAX_TRANSFERS THEN Len(all) - MAX_TRANSFERS + 1 ELSE 1, Len(all))

Move(ts) == push_transfer(ts) /\ Spawn(ts)

Upload(alias, bucket, key) == [op |-> "upload", alias |-> alias, bucket |-> bucket, key |-> key]

--------------------------------------------------------------------------
(* Keys in Browse mode. *)

Key(k) == k \in traffic.keys /\ ui.mode.m = "Browse" /\ ~ui.quit
Spin == [ui EXCEPT !.spin = TRUE]
Ask(mode) == ui' = [ui EXCEPT !.mode = mode]

KeyQuit ==
    /\ Key("quit")
    /\ ui' = [ui EXCEPT !.quit = TRUE]
    /\ UNCHANGED <<traffic, pane, local, transfers, admin, files, srv, tasks, left, asked>>

KeyTab ==
    /\ Key("tab")
    /\ ui' = [ui EXCEPT !.focus = IF @ = "Local" THEN "Remote" ELSE "Local"]
    /\ UNCHANGED <<traffic, pane, local, transfers, admin, files, srv, tasks, left, asked>>

KeyNav ==
    /\ Key("nav")
    /\ \/ /\ ui.focus = "Local"
          /\ \E s \in {local.sel - 1, local.sel + 1} \cap DOMAIN Tree[local.cwd] : local' = [local EXCEPT !.sel = s]
          /\ UNCHANGED pane
       \/ /\ ui.focus = "Remote"
          /\ \E s \in {pane.sel - 1, pane.sel + 1} \cap DOMAIN pane.entries : pane' = [pane EXCEPT !.sel = s]
          /\ UNCHANGED local
    /\ UNCHANGED <<traffic, ui, transfers, admin, files, srv, tasks, left, asked>>

\* Enter and Backspace on the local pane do the same.
LocalEnter ==
    /\ Key("enter") /\ ui.focus = "Local" /\ local.sel \in DOMAIN Tree[local.cwd]
    /\ Tree[local.cwd][local.sel].k # "file"
    /\ local' = [cwd |-> Tree[local.cwd][local.sel].v, sel |-> 1]
    /\ UNCHANGED <<traffic, ui, pane, transfers, admin, files, srv, tasks, left, asked>>

fetch_buckets(alias) == Spawn(<<Task("buckets", alias)>>)
fetch_objects(alias, bucket) == Spawn(<<Task("objects", alias) @@ [bucket |-> bucket]>>)

handle_enter ==
    /\ Key("enter") /\ ui.focus = "Remote"
    /\ LET e == selected_entry IN
       \/ e.k = "back" /\ pane' = go_back /\ UNCHANGED <<ui, tasks, left>>
       \/ e.k = "alias" /\ ui' = [Spin EXCEPT !.active = e.v] /\ fetch_buckets(e.v) /\ UNCHANGED pane
       \/ /\ e.k = "bucket" /\ pane.level.at = "Buckets"
          /\ ui' = Spin /\ fetch_objects(pane.level.alias, e.v)
          /\ UNCHANGED pane
       \/ /\ e.k = "object" /\ AtObjects
          /\ Spawn(<<On("stat", [alias |-> pane.level.alias, bucket |-> pane.level.bucket, key |-> e.v])>>)
          /\ UNCHANGED <<ui, pane>>
    /\ UNCHANGED <<traffic, local, transfers, admin, files, srv, asked>>

KeyBack ==
    /\ Key("back") /\ ui.focus = "Remote" /\ pane.level.at # "Aliases"
    /\ pane' = go_back
    /\ UNCHANGED <<traffic, ui, local, transfers, admin, files, srv, tasks, left, asked>>

trigger_refresh ==
    /\ Key("refresh")
    /\ \/ pane.level.at = "Buckets" /\ fetch_buckets(pane.level.alias)
       \/ AtObjects /\ fetch_objects(pane.level.alias, pane.level.bucket)
    /\ ui' = Spin
    /\ UNCHANGED <<traffic, pane, local, transfers, admin, files, srv, asked>>

\* A directory becomes one upload for each file below it.
start_copy ==
    /\ Key("copy")
    /\ LET e == IF local.sel \in DOMAIN Tree[local.cwd] THEN Tree[local.cwd][local.sel] ELSE [k |-> "up"]
           keys == IF e.k = "dir" THEN SetToSeq({<<e.v>> \o rel : rel \in Under[e.v]}) ELSE <<<<e.v>>>>
       IN
       \/ /\ ui.focus = "Local" /\ e.k # "up" /\ AtObjects
          /\ Move([i \in DOMAIN keys |-> Upload(pane.level.alias, pane.level.bucket, keys[i])])
       \/ OnObject /\ Move(<<On("download", Target)>>)
    /\ UNCHANGED <<traffic, ui, pane, local, admin, files, srv, asked>>

request_delete ==
    /\ Key("delete") /\ ui.focus = "Remote"
    /\ LET e == selected_entry IN
       \/ OnObject /\ Ask(Confirm(On("DeleteRemote", Target)))
       \/ e.k = "bucket" /\ pane.level.at = "Buckets" /\ Ask(Confirm([op |-> "DeleteBucket", alias |-> pane.level.alias, bucket |-> e.v]))
       \/ e.k = "alias" /\ Ask(Confirm(Task("RemoveAlias", e.v)))
    /\ UNCHANGED <<traffic, pane, local, transfers, admin, files, srv, tasks, left, asked>>

\* Keys that open a prompt, when the handler's condition holds.
Prompt(key, act, ok) == [key |-> key, act |-> act, ok |-> ok]
AtAliases == pane.level.at = "Aliases"

start_rename       == Prompt("rename", On("RenameObject", Target), OnObject)
start_range_get    == Prompt("range", On("RangeGet", Target), OnObject)
start_search       == Prompt("search", Task("SearchQuery", remote_scope), remote_scope # None)
start_find         == Prompt("find", Task("FindName", remote_scope), AtObjects)
start_create_bucket == Prompt("new", Task("CreateBucket", remote_scope), ui.focus = "Remote" /\ pane.level.at = "Buckets")
start_create_alias == Prompt("new", Task("NewAliasName", None), AtAliases)
start_edit_alias   == Prompt("edit", Task("NewAliasUrl", target_alias), AtAliases /\ target_alias \in files.mem)
start_import_aliases == Prompt("import", Task("ImportAliases", None), AtAliases)
start_login        == Prompt("login", Task("LoginUsername", target_alias), target_alias # None)
start_passwd       == Prompt("passwd", Task("PasswdCurrent", target_alias), target_alias # None)

Prompts == {start_rename, start_range_get, start_search, start_find, start_create_bucket, start_create_alias,
            start_edit_alias, start_import_aliases, start_login, start_passwd}

OpenPrompt ==
    /\ ui.mode = Browse
    /\ \E x \in Prompts : x.ok /\ Key(x.key) /\ Ask(Input(x.act))
    /\ UNCHANGED <<traffic, pane, local, transfers, admin, files, srv, tasks, left, asked>>

\* Keys that ask a server at once; some start the spinner.
Request(key, task, ok, spin) == [key |-> key, task |-> task, ok |-> ok, spin |-> spin]

open_labels        == Request("labels", On("labels", Target), OnObject, FALSE)
open_bucket_config == Request("config", [op |-> "config", alias |-> remote_scope, bucket |-> RowBucket],
                           ui.focus = "Remote" /\ pane.level.at = "Buckets" /\ selected_entry.k = "bucket", FALSE)
start_health       == Request("health", Task("health", target_alias), target_alias # None, FALSE)
start_du           == Request("du", Task("du", remote_scope), remote_scope # None, TRUE)
start_tree         == Request("tree", Task("tree", remote_scope), AtObjects, TRUE)
start_diff         == Request("diff", Task("diff", remote_scope), AtObjects, TRUE)
start_mirror       == Request("mirror", [op |-> "plan", alias |-> remote_scope, root |-> local.cwd,
                                      bucket |-> IF AtObjects THEN pane.level.bucket ELSE None], AtObjects, TRUE)

Queries == {open_labels, open_bucket_config, start_health, start_du, start_tree, start_diff, start_mirror}

Query ==
    /\ ui.mode = Browse
    /\ \E x \in Queries : x.ok /\ Key(x.key) /\ Spawn(<<x.task>>) /\ ui' = [ui EXCEPT !.spin = @ \/ x.spin]
    /\ UNCHANGED <<traffic, pane, local, transfers, admin, files, srv, asked>>

\* The pane goes back to the aliases at once; the token is cleared in the background.
start_logout ==
    /\ Key("logout") /\ target_alias # None
    /\ Spawn(<<Task("logout", target_alias)>>)
    /\ pane' = go_to_aliases(files.shown)
    /\ ui' = [ui EXCEPT !.active = None]
    /\ UNCHANGED <<traffic, local, transfers, admin, files, srv, asked>>

show_help ==
    /\ Key("help")
    /\ Ask(Pop("Help"))
    /\ UNCHANGED <<traffic, pane, local, transfers, admin, files, srv, tasks, left, asked>>

export_aliases ==
    /\ Key("export") /\ pane.level.at = "Aliases"
    /\ \E shown \in {"Results", "Error"} : Ask(Pop(shown))
    /\ UNCHANGED <<traffic, pane, local, transfers, admin, files, srv, tasks, left, asked>>

--------------------------------------------------------------------------
(* Prompts. What is typed is empty, rejected by the handler's parser, or good. *)

Typed == {"empty", "bad", "good"}

\* The mode a prompt or a dialog leaves behind.
mode_after(op) ==
    CASE op \in {"AddUserUsername", "AddUserPassword", "DeleteUser"} -> Admin("Users")
      [] op = "SetEventFilter" -> Admin("Events")
      [] op = "ClearLocks"     -> Admin("Locks")
      [] OTHER                 -> Browse

Chained == [LoginUsername |-> "LoginPassword", PasswdCurrent |-> "PasswdNew", NewAliasName |-> "NewAliasUrl",
            NewAliasUrl |-> "NewAliasUser", AddUserUsername |-> "AddUserPassword"]
Sends   == [CreateBucket |-> "create", RenameObject |-> "rename", SetLabel |-> "label_set", SetQuota |-> "config_set",
            SetSse |-> "config_set", SearchQuery |-> "search", FindName |-> "find", LoginPassword |-> "login",
            PasswdNew |-> "passwd", AddUserPassword |-> "adduser"]
Parsed  == {"RangeGet", "SetLabel", "SetQuota", "NewAliasUrl", "ImportAliases"}

Refused(op, v) == (v = "bad" /\ op \in Parsed) \/ (v = "empty" /\ op \in {"RangeGet", "SetLabel", "SetQuota"})
Ignored(op, v) == v = "empty" /\ op \notin {"FindName", "NewAliasUser", "SetEventFilter", "RangeGet", "SetLabel", "SetQuota"}

\* The configuration is written whole; when that fails the popup says so and memory keeps the change.
\* A token is bound to the alias's address and user name, so editing the alias may make it useless.
save_config(mem, tokens) ==
    \/ /\ files' = [mem |-> mem, disk |-> mem, shown |-> mem, tokens |-> tokens]
       /\ pane' = go_to_aliases(mem)
       /\ ui' = [ui EXCEPT !.mode = Browse]
    \/ /\ "save" \in traffic.faults
       /\ files' = [files EXCEPT !.mem = mem, !.tokens = tokens]
       /\ ui' = [ui EXCEPT !.mode = Pop("Error")]
       /\ UNCHANGED pane

add_alias(names) == \E gone \in {{}, names} : save_config(files.mem \cup names, files.tokens \ gone)
import_aliases == \E names \in SUBSET Aliases : add_alias(names)

InputEscape ==
    /\ ui.mode.m = "Input" /\ ~ui.quit
    /\ Ask(mode_after(ui.mode.act.op))
    /\ UNCHANGED <<traffic, pane, local, transfers, admin, files, srv, tasks, left, asked>>

\* Enter closes the prompt, then acts on what was typed.
handle_input_submit ==
    /\ ui.mode.m = "Input" /\ ~ui.quit
    /\ \E v \in Typed :
       LET a    == ui.mode.act
           shut == [ui EXCEPT !.mode = mode_after(a.op)]
           acts == ~Refused(a.op, v) /\ ~Ignored(a.op, v)
       IN
       \/ /\ Refused(a.op, v) /\ Ask(Pop("Error"))
          /\ UNCHANGED <<pane, transfers, files, tasks, left, asked>>
       \/ /\ Ignored(a.op, v) \/ (acts /\ a.op = "SetEventFilter") \/ (acts /\ a.op = "RenameObject")
          /\ ui' = shut
          /\ UNCHANGED <<pane, transfers, files, tasks, left, asked>>
       \/ /\ acts /\ a.op \in DOMAIN Chained
          /\ \E name \in IF a.op = "NewAliasName" THEN Aliases ELSE {a.alias} : Ask(Input(Task(Chained[a.op], name)))
          /\ UNCHANGED <<pane, transfers, files, tasks, left, asked>>
       \/ /\ acts /\ a.op = "RenameObject"
          /\ \E dst \in traffic.names \ {a.key} :
                Spawn(<<[op |-> "rename", alias |-> a.alias, bucket |-> a.bucket, key |-> a.key, dst |-> dst]>>)
          /\ ui' = [shut EXCEPT !.spin = TRUE]
          /\ asked' = asked \cup {<<a.alias, a.bucket, a.key>>}
          /\ UNCHANGED <<pane, transfers, files>>
       \/ /\ acts /\ a.op \in DOMAIN Sends \ {"RenameObject"}
          /\ Spawn(<<On(Sends[a.op], a)>>)
          /\ ui' = [shut EXCEPT !.spin = @ \/ a.op \in {"CreateBucket", "LoginPassword"},
                                !.active = IF a.op = "LoginPassword" THEN a.alias ELSE @]
          /\ UNCHANGED <<pane, transfers, files, asked>>
       \/ /\ acts /\ a.op = "RangeGet"
          /\ Move(<<On("download", a)>>)
          /\ ui' = shut
          /\ UNCHANGED <<pane, files, asked>>
       \/ /\ acts /\ a.op \in {"NewAliasUser", "ImportAliases"}
          /\ IF a.op = "NewAliasUser" THEN add_alias({a.alias}) ELSE import_aliases
          /\ UNCHANGED <<transfers, tasks, left, asked>>
    /\ UNCHANGED <<traffic, local, admin, srv>>

--------------------------------------------------------------------------
(* Dialogs. *)

Plan == ui.pending
apply_mirror == LET keys == SetToSeq(Plan.keys) IN [i \in DOMAIN keys |-> Upload(Plan.alias, Plan.bucket, keys[i])]

Requests == [DeleteRemote |-> "delete", DeleteBucket |-> "delbucket", ClearLocks |-> "locks_clear", DeleteUser |-> "deluser"]
NamedBy(a) == IF a.op = "DeleteRemote" THEN {<<a.alias, a.bucket, a.key>>} ELSE {}

ConfirmNo ==
    /\ ui.mode.m = "Confirm" /\ ~ui.quit
    /\ Ask(mode_after(ui.mode.act.op))
    /\ UNCHANGED <<traffic, pane, local, transfers, admin, files, srv, tasks, left, asked>>

\* Mutant: the bucket is read from the pane when the dialog is answered.
RequestHere(a) == IF a.op = "DeleteRemote" /\ AtObjects THEN [On("delete", a) EXCEPT !.bucket = pane.level.bucket] ELSE On(Requests[a.op], a)

RequestOf(a) == On(Requests[a.op], a)

\* The action is executed, then the mode is set: an error popup of the action is lost.
execute_confirm ==
    /\ ui.mode.m = "Confirm" /\ ~ui.quit
    /\ LET a == ui.mode.act
           shut == [ui EXCEPT !.mode = mode_after(a.op)]
       IN
       \/ /\ a.op \in DOMAIN Requests
          /\ Spawn(<<RequestOf(a)>>)
          /\ ui' = shut
          /\ asked' = asked \cup NamedBy(a)
          /\ UNCHANGED <<pane, transfers, files>>
       \/ /\ a.op = "RemoveAlias"
          /\ \/ /\ files' = LET mem == files.mem \ {a.alias} IN [files EXCEPT !.mem = mem, !.disk = mem, !.shown = mem]
                /\ pane' = go_to_aliases(files'.mem)
             \/ /\ "save" \in traffic.faults
                /\ files' = [files EXCEPT !.mem = @ \ {a.alias}]
                /\ UNCHANGED pane
          /\ ui' = shut
          /\ UNCHANGED <<transfers, tasks, left, asked>>
       \/ /\ a.op = "ApplyMirror" /\ Plan # None
          /\ Move(apply_mirror)
          /\ ui' = [shut EXCEPT !.pending = None]
          /\ UNCHANGED <<pane, files, asked>>
    /\ UNCHANGED <<traffic, local, admin, srv>>

\* Any key closes an error or a stat popup, q or Escape the others.
Dismiss ==
    /\ ui.mode.m \in {"Error", "Stat", "Results", "Help", "Labels", "Config"} /\ ~ui.quit
    /\ Ask(Browse)
    /\ UNCHANGED <<traffic, pane, local, transfers, admin, files, srv, tasks, left, asked>>

handle_labels_key ==
    /\ ui.mode.m = "Labels" /\ ~ui.quit
    /\ LET t == [alias |-> ui.mode.alias, bucket |-> ui.mode.bucket, key |-> ui.mode.key] IN
       \/ /\ \E s \in {ui.mode.sel - 1, ui.mode.sel + 1} \cap 1..ui.mode.n : Ask([ui.mode EXCEPT !.sel = s])
          /\ UNCHANGED <<tasks, left>>
       \/ Ask(Input(On("SetLabel", t))) /\ UNCHANGED <<tasks, left>>
       \/ ui.mode.sel <= ui.mode.n /\ Spawn(<<On("label_set", t)>>) /\ UNCHANGED ui
    /\ UNCHANGED <<traffic, pane, local, transfers, admin, files, srv, asked>>

handle_bucketconfig_key ==
    /\ ui.mode.m = "Config" /\ ~ui.quit
    /\ LET t == [alias |-> ui.mode.alias, bucket |-> ui.mode.bucket] IN
       \/ Ask([ui.mode EXCEPT !.sel = 1 - @]) /\ UNCHANGED <<tasks, left>>
       \/ Ask(Input(On(IF ui.mode.sel = 0 THEN "SetQuota" ELSE "SetSse", t))) /\ UNCHANGED <<tasks, left>>
       \/ Spawn(<<On("config_set", t)>>) /\ UNCHANGED ui
    /\ UNCHANGED <<traffic, pane, local, transfers, admin, files, srv, asked>>

--------------------------------------------------------------------------
(* The admin screen. *)

View == [n |-> 0, sel |-> 1, loading |-> FALSE]
Loading(view) == [view EXCEPT !.loading = TRUE]

\* set_users and set_raw keep the cursor on a row.
set_users(view, n) == [n |-> n, sel |-> IF view.sel <= n THEN view.sel ELSE IF n = 0 THEN 1 ELSE n, loading |-> FALSE]

Fetch == [Users |-> "users", Locks |-> "locks", Metrics |-> "metrics", Rebuild |-> "status"]

\* fetch_users, fetch_locks, fetch_metrics and fetch_rebuild_status: nothing without an open alias.
fetch_tab(tab) ==
    IF ui.active = None THEN UNCHANGED <<admin, tasks, left>>
    ELSE /\ Spawn(<<Task(Fetch[tab], ui.active)>>)
         /\ admin' = IF tab = "Rebuild" THEN admin ELSE [admin EXCEPT ![tab] = Loading(@)]

start_trace_stream ==
    IF admin.streaming \/ ui.active = None THEN UNCHANGED <<admin, tasks, left>>
    ELSE Spawn(<<Task("trace", ui.active)>>) /\ admin' = [admin EXCEPT !.streaming = TRUE]

enter_admin_tab(tab) == IF tab = "Events" THEN start_trace_stream ELSE fetch_tab(tab)

KeyAdmin ==
    /\ Key("admin")
    /\ Ask(Admin("Rebuild"))
    /\ IF ui.active = None THEN UNCHANGED <<admin, tasks, left>>
       ELSE /\ Spawn(<<Task("status", ui.active), Task("users", ui.active), Task("locks", ui.active)>>)
            /\ admin' = [admin EXCEPT !.Users = Loading(@), !.Locks = Loading(@)]
    /\ UNCHANGED <<traffic, pane, local, transfers, files, srv, asked>>

InAdmin == ui.mode.m = "Admin" /\ ~ui.quit

AdminLeave ==
    /\ InAdmin /\ "manage" \in traffic.keys /\ Ask(Browse)
    /\ UNCHANGED <<traffic, pane, local, transfers, admin, files, srv, tasks, left, asked>>

AdminTab ==
    /\ InAdmin
    /\ \E tab \in traffic.tabs :
       /\ \E i \in DOMAIN Tabs, d \in {1, 4} : Tabs[i] = ui.mode.tab /\ tab = Tabs[((i - 1 + d) % 5) + 1]
       /\ enter_admin_tab(tab) /\ Ask(Admin(tab))
    /\ UNCHANGED <<traffic, pane, local, transfers, files, srv, asked>>

AdminRefresh ==
    /\ InAdmin /\ ui.mode.tab # "Events" /\ "manage" \in traffic.keys
    /\ fetch_tab(ui.mode.tab)
    /\ UNCHANGED <<traffic, ui, pane, local, transfers, files, srv, asked>>

start_rebuild ==
    /\ InAdmin /\ ui.mode.tab = "Rebuild" /\ ui.active # None /\ "manage" \in traffic.keys
    /\ Spawn(<<Task("rebuild", ui.active)>>)
    /\ UNCHANGED <<traffic, ui, pane, local, transfers, admin, files, srv, asked>>

AdminNav ==
    /\ InAdmin /\ ui.mode.tab \in {"Locks", "Users", "Metrics"}
    /\ LET view == admin[ui.mode.tab] IN
       \E s \in {view.sel - 1, view.sel + 1} :
          /\ s >= 1 /\ (s > view.sel => s <= view.n)
          /\ admin' = [admin EXCEPT ![ui.mode.tab].sel = s]
    /\ UNCHANGED <<traffic, ui, pane, local, transfers, files, srv, tasks, left, asked>>

\* The keys that open a prompt or a dialog; without an open alias they name none.
AdminAsk ==
    /\ InAdmin /\ ui.mode.tab \in traffic.ask
    /\ \/ ui.mode.tab = "Locks"  /\ Ask(Confirm(Task("ClearLocks", ui.active)))
       \/ ui.mode.tab = "Events" /\ Ask(Input(Task("SetEventFilter", None)))
       \/ ui.mode.tab = "Users"  /\ Ask(Input(Task("AddUserUsername", ui.active)))
       \/ ui.mode.tab = "Users"  /\ admin.Users.sel <= admin.Users.n /\ Ask(Confirm(Task("DeleteUser", ui.active)))
    /\ UNCHANGED <<traffic, pane, local, transfers, admin, files, srv, tasks, left, asked>>

--------------------------------------------------------------------------
(* Tasks. A task reads the token when it runs; its answer waits in the     *)
(* channel until the loop applies it.                                      *)

Ready(t) == t.known /\ (t.alias \in files.tokens \/ (t.op = "login" /\ t.pc = "run"))

\* The server's refusals: no such bucket, no such object, a bucket that is not empty, a name that is taken.
Answerable(t) ==
    LET in == srv[t.alias]
    IN
    /\ t.op \in {"objects", "config", "config_set", "plan", "upload", "delbucket"} => in[t.bucket] # None
    /\ t.op = "delbucket" /\ t.pc = "run" => in[t.bucket] = {}
    /\ t.op \in {"stat", "labels", "label_set", "download"} => in[t.bucket] # None /\ t.key \in in[t.bucket]
    /\ t.op \in {"delete", "rename"} => in[t.bucket] # None /\ (t.pc = "list" \/ t.key \in in[t.bucket])
    /\ t.op = "create" /\ t.pc = "run" => \E b \in DOMAIN in : in[b] = None

Failure(op) ==
    CASE op \in {"buckets", "objects"}                      -> Pop("FetchError")
      [] op \in {"users", "locks", "adduser", "deluser", "logout"} -> None
      [] op = "metrics"                                     -> Pop("MetricsError")
      [] op = "trace"                                       -> Pop("StreamEnded")
      [] op \in {"upload", "download"}                      -> [m |-> "TransferDone", ok |-> FALSE]
      [] OTHER                                              -> Pop("ActionFailed")

\* A task whose failure is not reported just ends.
Send(t, ev) ==
    tasks' = (tasks \ {t}) \cup (IF ev = None THEN {} ELSE {[n |-> t.n, op |-> t.op, alias |-> t.alias, pc |-> "sent", ev |-> ev]})

Advance(t, pc) == tasks' = (tasks \ {t}) \cup {[t EXCEPT !.pc = pc]}

TaskFails(t) ==
    /\ t.pc # "sent"
    /\ t.op # "logout"
    /\ t.known => ("net" \in traffic.faults \/ ~Ready(t) \/ ~Answerable(t))
    /\ Send(t, Failure(t.op))
    /\ UNCHANGED <<traffic, ui, pane, local, transfers, admin, files, srv, left, asked>>

Lists == [delete |-> "objects", rename |-> "objects", objects |-> "objects", create |-> "buckets",
          delbucket |-> "buckets", login |-> "buckets", buckets |-> "buckets"]

\* The listing that ends a request for rows.
TaskLists(t) ==
    /\ t.pc = "list" \/ (t.pc = "run" /\ t.op \in {"buckets", "objects"})
    /\ Ready(t) /\ Answerable(t)
    /\ LET in == srv[t.alias] IN
       Send(t, IF Lists[t.op] = "objects" THEN [m |-> "Objects", alias |-> t.alias, bucket |-> t.bucket, set |-> in[t.bucket]]
               ELSE [m |-> "Buckets", alias |-> t.alias, set |-> {b \in DOMAIN in : in[b] # None}])
    /\ UNCHANGED <<traffic, ui, pane, local, transfers, admin, files, srv, left, asked>>

\* The change that comes before it; a rename is a copy and a removal.
TaskChanges(t) ==
    /\ t.op \in DOMAIN Lists \ {"buckets", "objects"} /\ t.pc \in {"run", "remove"}
    /\ Ready(t) /\ Answerable(t)
    /\ Advance(t, IF t.op = "rename" /\ t.pc = "run" THEN "remove" ELSE "list")
    /\ \/ /\ t.op = "login"
          /\ files' = [files EXCEPT !.tokens = @ \cup {t.alias}] /\ UNCHANGED srv
       \/ /\ t.op = "create"
          /\ \E b \in {b \in DOMAIN srv[t.alias] : srv[t.alias][b] = None} : srv' = [srv EXCEPT ![t.alias][b] = {}]
          /\ UNCHANGED files
       \/ t.op = "delbucket" /\ srv' = [srv EXCEPT ![t.alias][t.bucket] = None] /\ UNCHANGED files
       \/ /\ t.op = "rename" /\ t.pc = "run"
          /\ srv' = [srv EXCEPT ![t.alias][t.bucket] = @ \cup {t.dst}] /\ UNCHANGED files
       \/ /\ t.op = "delete" \/ t.pc = "remove"
          /\ srv' = [srv EXCEPT ![t.alias][t.bucket] = @ \ {t.key}] /\ UNCHANGED files
    /\ UNCHANGED <<traffic, ui, pane, local, transfers, admin, left, asked>>

\* Best effort at the server, then the stored token goes.
TaskLogout(t) ==
    /\ t.op = "logout" /\ t.pc = "run"
    /\ \/ files' = [files EXCEPT !.tokens = @ \ {t.alias}] /\ Send(t, None)
       \/ "save" \in traffic.faults /\ Send(t, Pop("ActionFailed")) /\ UNCHANGED files
    /\ UNCHANGED <<traffic, ui, pane, local, transfers, admin, srv, left, asked>>

Bucketed(t) == [alias |-> t.alias, bucket |-> t.bucket]
Counted(m, n) == {[m |-> m, n |-> k] : k \in n}

\* What the tasks send: the popup to show, rows, a plan, the state of an admin tab.
LabelsRead(t) == {[m |-> "Labels", key |-> t.key, n |-> n] @@ Bucketed(t) : n \in {0, 2}}
ConfigRead(t) == {[m |-> "Config"] @@ Bucketed(t)}
PlanMade(t)   == {[m |-> "Planned", keys |-> ks] @@ Bucketed(t) : ks \in {Under[t.root], Under[t.root] \ srv[t.alias][t.bucket]}}
UsersRead     == Counted("Users", traffic.rows["users"])
LocksRead     == Counted("Locks", traffic.rows["locks"])
MetricsRead   == Counted("Metrics", traffic.rows["metrics"])
ResultsRead   == {Pop("Results")}

Answers(t) ==
    CASE t.op = "stat"                              -> {Pop("Stat")}
      [] t.op \in {"labels", "label_set"}           -> LabelsRead(t)
      [] t.op \in {"config", "config_set"}          -> ConfigRead(t)
      [] t.op \in {"health", "du", "tree", "diff", "search", "find"} -> ResultsRead
      [] t.op = "plan"                              -> PlanMade(t)
      [] t.op = "passwd"                            -> {None}
      [] t.op \in {"users", "adduser", "deluser"}   -> UsersRead
      [] t.op \in {"locks", "locks_clear"}          -> LocksRead
      [] t.op = "metrics"                           -> MetricsRead
      [] t.op \in {"status", "rebuild"}             -> {Pop("RebuildStatus")}
      [] t.op = "trace"                             -> {Pop("StreamEnded")}
      [] t.op \in {"upload", "download"}            -> {[m |-> "TransferDone", ok |-> TRUE]}
      [] OTHER                                      -> {}

TaskAnswers(t) ==
    /\ t.pc \in {"run", "moving"} /\ Ready(t) /\ Answerable(t)
    /\ \E ev \in Answers(t) : Send(t, ev)
    /\ srv' = IF t.op = "upload" THEN [srv EXCEPT ![t.alias][t.bucket] = @ \cup {t.key}] ELSE srv
    /\ UNCHANGED <<traffic, ui, pane, local, transfers, admin, files, left, asked>>

SetTransfer(n, st) == transfers' = [i \in DOMAIN transfers |-> IF transfers[i].id = n THEN [transfers[i] EXCEPT !.st = st] ELSE transfers[i]]

\* apply_transfer_update: the reporter's first progress event.
TransferUpdate(t) ==
    /\ t.op \in {"upload", "download"} /\ t.pc = "run" /\ Ready(t) /\ Answerable(t) /\ ~ui.quit
    /\ Advance(t, "moving")
    /\ SetTransfer(t.n, "Running")
    /\ UNCHANGED <<traffic, ui, pane, local, admin, files, srv, left, asked>>

--------------------------------------------------------------------------
(* App::update for the answers. *)

Shown(ev) ==
    CASE ev.m \in {"FetchError", "ActionFailed"} -> Pop("Error")
      [] ev.m \in {"Stat", "Results"}            -> Pop(ev.m)
      [] ev.m = "Labels"  -> LET prev == IF ui.mode.m = "Labels" THEN ui.mode.sel ELSE 1
                             IN ev @@ [sel |-> IF prev <= ev.n THEN prev ELSE 1]
      [] ev.m = "Config"  -> ev @@ [sel |-> IF ui.mode.m = "Config" THEN ui.mode.sel ELSE 0]
      [] ev.m = "Planned" -> IF ev.keys = {} THEN Pop("Error") ELSE Confirm([op |-> "ApplyMirror", alias |-> None, uploads |-> Cardinality(ev.keys)])
      [] OTHER            -> ui.mode

\* Mutant: a plan that is already held is kept.
KeepFirstPlan(ev) == IF ev.m = "Planned" /\ ui.pending = None THEN [alias |-> ev.alias, bucket |-> ev.bucket, keys |-> ev.keys] ELSE ui.pending

PlanHeld(ev) == IF ev.m = "Planned" /\ ev.keys # {} THEN [alias |-> ev.alias, bucket |-> ev.bucket, keys |-> ev.keys] ELSE ui.pending

apply_transfer_done(n, ok) == SetTransfer(n, IF ok THEN "Done" ELSE "Failed")

apply_remote_fetched(ev) ==
    CASE ev.m = "Buckets" -> set_buckets(ev.alias, ev.set)
      [] ev.m = "Objects" -> set_objects(ev.alias, ev.bucket, ev.set)
      [] OTHER            -> pane

update(t) ==
    /\ t.pc = "sent" /\ ~ui.quit
    /\ tasks' = tasks \ {t}
    /\ LET ev == t.ev IN
       /\ ui' = [ui EXCEPT !.mode = Shown(ev), !.pending = PlanHeld(ev),
                           !.spin = @ /\ ev.m \notin {"FetchError", "Buckets", "Objects", "Planned"}]
       /\ pane' = apply_remote_fetched(ev)
       /\ admin' = CASE ev.m = "Users"        -> [admin EXCEPT !.Users = set_users(@, ev.n)]
                     [] ev.m = "Metrics"      -> [admin EXCEPT !.Metrics = set_users(@, ev.n)]
                     [] ev.m = "MetricsError" -> [admin EXCEPT !.Metrics.loading = FALSE]
                     [] ev.m = "Locks"        -> [admin EXCEPT !.Locks.n = ev.n, !.Locks.loading = FALSE]
                     [] ev.m = "StreamEnded"  -> [admin EXCEPT !.streaming = FALSE]
                     [] OTHER                 -> admin
       /\ IF ev.m = "TransferDone" THEN apply_transfer_done(t.n, ev.ok) ELSE UNCHANGED transfers
    /\ UNCHANGED <<traffic, local, files, srv, left, asked>>

--------------------------------------------------------------------------

TuiInit(mixes) ==
    /\ traffic \in mixes
    /\ srv = traffic.srv
    /\ files = [mem |-> traffic.aliases, disk |-> traffic.aliases, shown |-> traffic.aliases, tokens |-> traffic.tokens]
    /\ pane = go_to_aliases(files.mem)
    /\ ui = [mode |-> Browse, focus |-> "Local", active |-> None, spin |-> FALSE, pending |-> None, quit |-> FALSE]
    /\ local = [cwd |-> traffic.cwd, sel |-> 1]
    /\ transfers = <<>>
    /\ admin = [Users |-> View, Locks |-> View, Metrics |-> View, streaming |-> FALSE]
    /\ tasks = {} /\ left = traffic.left /\ asked = {}

UserKey ==
    \/ KeyQuit \/ KeyTab \/ KeyNav \/ LocalEnter \/ handle_enter \/ KeyBack \/ trigger_refresh
    \/ start_copy \/ request_delete \/ OpenPrompt \/ Query \/ start_logout \/ show_help \/ export_aliases
    \/ InputEscape \/ handle_input_submit \/ ConfirmNo \/ execute_confirm \/ Dismiss
    \/ handle_labels_key \/ handle_bucketconfig_key
    \/ KeyAdmin \/ AdminLeave \/ AdminTab \/ AdminRefresh \/ start_rebuild \/ AdminNav \/ AdminAsk

TaskStep(t) ==
    \/ TaskFails(t) \/ TaskLists(t) \/ TaskChanges(t) \/ TaskLogout(t) \/ TaskAnswers(t)
    \/ TransferUpdate(t) \/ update(t)

TuiNext == UserKey \/ \E t \in tasks : TaskStep(t)

--------------------------------------------------------------------------
(* Properties. *)

Held(alias, bucket) == IF srv[alias][bucket] = None THEN {} ELSE srv[alias][bucket]

\* The rows on the screen are always rows of the alias and bucket in the pane's title, in whatever order
\* late answers, logouts and deletions arrive: a bucket row names a bucket of that alias, an object row an
\* object some listing of that bucket returned (apply_remote_fetched sets title and rows together).
ShownIsListed ==
    /\ pane.level.at = "Aliases" => \A i \in DOMAIN pane.entries : pane.entries[i].k = "alias"
    /\ pane.level.at = "Buckets" =>
          \A i \in DOMAIN pane.entries : pane.entries[i].k = "bucket" => pane.entries[i].v \in DOMAIN srv[pane.level.alias]
    /\ AtObjects => \A i \in DOMAIN pane.entries : pane.entries[i].k = "object" =>
          pane.entries[i].v \in traffic.held[pane.level.alias][pane.level.bucket]

\* The number of uploads the mirror dialog announces is the number that answering "y" starts, whichever
\* plans arrive while another dialog is open (MirrorPlanned sets the held plan and the dialog together).
MirrorConfirmed ==
    ui.mode.m = "Confirm" /\ ui.mode.act.op = "ApplyMirror" =>
        Plan # None /\ Cardinality(Plan.keys) = ui.mode.act.uploads

\* An object leaves a server only if the user confirmed that very object in a dialog, or named it in a
\* rename prompt: listings that replace the rows under an open dialog never redirect it.
NothingUnasked ==
    [][\A a \in Aliases : \A b \in DOMAIN srv[a] :
          Held(a, b) \ (IF srv'[a][b] = None THEN {} ELSE srv'[a][b]) \subseteq {k \in Held(a, b) : <<a, b, k>> \in asked}]_tuiVars

\* The cursor of the remote pane, of the users and of the metrics is on a row whenever there is one,
\* although lists shrink under it (go_back, set_buckets, set_objects, set_users, set_raw).
CursorOnEntry ==
    /\ pane.sel = 1 \/ pane.sel \in DOMAIN pane.entries
    /\ \A v \in {"Users", "Metrics"} : admin[v].sel = 1 \/ admin[v].sel <= admin[v].n

\* At most one trace stream is open, and while one is the flag says so (start_trace_stream is idempotent).
OneStream ==
    LET streams == {t \in tasks : t.op = "trace"} IN
    Cardinality(streams) <= 1 /\ (streams # {} => admin.streaming)

\* What the screen shows is true of what the keys will do.
ScreenTrue == ShownIsListed /\ MirrorConfirmed /\ CursorOnEntry /\ OneStream
=============================================================================
