------------------------------ MODULE Profiles ------------------------------
(***************************************************************************)
(* The client's files: aliases (config.toml) and session tokens            *)
(* (tokens.toml). Every command is a process of its own that loads the     *)
(* aliases, may replace them, and changes the tokens under a file lock     *)
(* (y2q-config, cmd/alias.rs, cmd/auth.rs, client_builder.rs).             *)
(***************************************************************************)
EXTENDS Naturals, FiniteSets

CONSTANTS
    Procs,      \* processes
    AliasNames,      \* alias names
    Targets,    \* what a token is bound to: an address and a user name
    Commands,   \* process |-> the commands it may run
    NoTarget

CommandNames == {"set", "remove", "login", "logout", "request"}

ASSUME ProfilesAssumption ==
    /\ Commands \in [Procs -> SUBSET CommandNames]
    /\ NoTarget \notin Procs \cup AliasNames /\ "torn" \notin AliasNames

VARIABLES
    config,     \* alias |-> target or NoTarget
    tokens,     \* alias |-> the target a token was minted at, or NoTarget
    tmp,        \* tokens.tmp: its content, NoTarget, or a torn write
    lock,       \* the process that holds tokens.toml.lock
    procs,      \* process |-> command, alias, target, pc, what it loaded
    sent        \* history: the last <<command, target of the token, target it was presented to>>

profileVars == <<config, tokens, tmp, lock, procs, sent>>

Torn == [torn |-> TRUE]
Idle == [cmd |-> "none", name |-> NoTarget, to |-> NoTarget, pc |-> "idle", conf |-> NoTarget, tok |-> NoTarget, clears |-> {}, file |-> NoTarget]

Set(p, pc) == procs' = [procs EXCEPT ![p].pc = pc]

\* CliConfig::load, then the entry the command names.
Start(p, cmd, name, to) ==
    /\ procs[p].pc = "idle" /\ cmd \in Commands[p]
    /\ cmd \in {"login", "logout", "request"} => config[name] # NoTarget
    /\ cmd = "remove" => config[name] # NoTarget
    /\ procs' = [procs EXCEPT ![p] =
            [cmd |-> cmd, name |-> name, to |-> IF cmd = "set" THEN to ELSE config[name],
             pc |-> CASE cmd \in {"set", "remove"} -> "save" [] cmd = "login" -> "login" [] OTHER -> "token",
             conf |-> IF cmd \in {"set", "remove"} THEN config ELSE NoTarget, tok |-> NoTarget, clears |-> {}, file |-> NoTarget]]
    /\ sent' = <<>>
    /\ UNCHANGED <<config, tokens, tmp, lock>>

\* alias set (and import, entry by entry) and alias remove write the aliases they loaded, changed; a changed or a new
\* binding then clears the token stored under that name.
SaveConfig(p) ==
    LET c == procs[p]
        rebound == c.cmd = "remove" \/ c.conf[c.name] # c.to
    IN
    /\ c.pc = "save"
    /\ config' = [c.conf EXCEPT ![c.name] = IF c.cmd = "remove" THEN NoTarget ELSE c.to]
    /\ procs' = [procs EXCEPT ![p] = [c EXCEPT !.pc = IF rebound THEN "lock" ELSE "done", !.conf = NoTarget,
                                               !.clears = IF rebound THEN {c.name} ELSE {}]]
    /\ UNCHANGED <<tokens, tmp, lock, sent>>

\* The server answers with a token of its own; the entry remembers where it was minted.
login(p) ==
    /\ procs[p].pc = "login"
    /\ procs' = [procs EXCEPT ![p] = [@ EXCEPT !.pc = "lock", !.tok = procs[p].to]]
    /\ UNCHANGED <<config, tokens, tmp, lock, sent>>

\* Mutant: token_for, which asks only for the alias.
AnyToken(name, to) == tokens[name]

token_for_bound(name, to) == IF tokens[name] = to THEN tokens[name] ELSE NoTarget

\* A request presents the token that is bound to the alias's address and user; logout falls back to any
\* token stored under the name, and then clears it whatever the server answered.
Present(p) ==
    LET c == procs[p]
        bound == token_for_bound(c.name, c.to)
        token == IF c.cmd = "logout" /\ bound = NoTarget THEN tokens[c.name] ELSE bound
    IN
    /\ c.pc = "token"
    /\ sent' = IF token = NoTarget THEN sent ELSE <<c.cmd, token, c.to>>
    /\ procs' = [procs EXCEPT ![p] = [c EXCEPT !.pc = IF c.cmd = "logout" THEN "lock" ELSE "done",
                                               !.clears = IF c.cmd = "logout" THEN {c.name} ELSE {}]]
    /\ UNCHANGED <<config, tokens, tmp, lock>>

acquire(p) == procs[p].pc = "lock" /\ lock = NoTarget /\ lock' = p

Lock(p) ==
    /\ acquire(p)
    /\ Set(p, "load")
    /\ UNCHANGED <<config, tokens, tmp, sent>>

update_tokens(c) ==
    [n \in AliasNames |-> IF n \in c.clears THEN NoTarget ELSE IF c.tok # NoTarget /\ n = c.name THEN c.tok ELSE tokens[n]]

\* TokenStore::update: load, change, write the temporary file, rename it.
Load(p) ==
    /\ procs[p].pc = "load"
    /\ procs' = [procs EXCEPT ![p] = [@ EXCEPT !.pc = "write", !.clears = {}, !.tok = NoTarget, !.to = NoTarget,
                                               !.file = update_tokens(procs[p])]]
    /\ UNCHANGED <<config, tokens, tmp, lock, sent>>

WriteTmp(p) ==
    /\ procs[p].pc = "write"
    /\ \E torn \in BOOLEAN :
       /\ tmp' = IF torn THEN Torn ELSE procs[p].file
       /\ IF torn THEN UNCHANGED procs ELSE Set(p, "rename")
    /\ UNCHANGED <<config, tokens, lock, sent>>

Rename(p) ==
    /\ procs[p].pc = "rename" /\ tmp # NoTarget
    /\ tokens' = tmp /\ tmp' = NoTarget
    /\ lock' = NoTarget
    /\ procs' = [procs EXCEPT ![p] = [@ EXCEPT !.pc = "done", !.file = NoTarget]]
    /\ UNCHANGED <<config, sent>>

\* The command ends, or is killed at any point: the kernel drops the lock. What a killed writer leaves in
\* the temporary file is never read: the next writer truncates it.
Exit(p) ==
    /\ procs[p].pc # "idle"
    /\ procs' = [procs EXCEPT ![p] = Idle]
    /\ lock' = IF lock = p THEN NoTarget ELSE lock
    /\ tmp' = IF procs[p].pc = "rename" THEN Torn ELSE tmp
    /\ UNCHANGED <<config, tokens, sent>>

ProfilesInit(configs) ==
    /\ config \in configs
    /\ tokens = [n \in AliasNames |-> NoTarget]
    /\ tmp = NoTarget /\ lock = NoTarget /\ sent = <<>>
    /\ procs = [p \in Procs |-> Idle]

ProfilesNext ==
    \E p \in Procs :
       \/ \E cmd \in Commands[p], name \in AliasNames, to \in Targets : Start(p, cmd, name, to)
       \/ SaveConfig(p) \/ login(p) \/ Present(p) \/ Lock(p) \/ Load(p) \/ WriteTmp(p) \/ Rename(p) \/ Exit(p)

\* Any aliases may be on the disk at the start.
ProfilesSpec == ProfilesInit([AliasNames -> Targets \cup {NoTarget}]) /\ [][ProfilesNext]_profileVars

--------------------------------------------------------------------------

\* The token file stays a whole file, although commands are killed while they write and several use the same
\* temporary name (the lock serialises the writers; the rename publishes a whole file).  Rewriting it touches the
\* entry the command is about and no other alias's ("concurrent login/logout processes cannot clobber each other's
\* alias entries").  And a command's request carries a token to no server and no user but the ones it was minted
\* for, however alias edits, removals and logins of other processes interleave with it (matches_target).
TokensSafe ==
    [][/\ tokens' # Torn
       /\ \A n \in AliasNames : tokens'[n] # tokens[n] =>
            \E p \in Procs : procs[p].pc = "rename" /\ procs'[p].pc = "done" /\ procs[p].name = n
       /\ sent' \notin {sent, <<>>} /\ sent'[1] = "request" => sent'[2] = sent'[3]]_profileVars
=============================================================================
