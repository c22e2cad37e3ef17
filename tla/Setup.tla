------------------------------- MODULE Setup -------------------------------
(***************************************************************************)
(* `y2qd setup` on a host: wizards that read the config file, walk through *)
(* the pages and apply a plan step by step, next to a daemon that starts   *)
(* and stops, an operator who edits the file by hand, and other setups     *)
(* (wizard.rs, apply.rs, config_doc.rs, authority.rs).                     *)
(***************************************************************************)
EXTENDS SetupPlan

CONSTANT
    Setups      \* setup processes

VARIABLES
    host,       \* files, keystores, keys, the daemon, the reachable devices
    wiz,        \* process |-> wizard and apply state
    budget,     \* what may still happen: edits, runs, steps back, faults, hand edits, daemon starts, device changes
    deploy      \* the deployment: who runs setup, its accounts, the values its operators enter, the devices that come and go

setupVars == <<host, wiz, budget, deploy>>

NoProbe == [q \in {"tpm", "roughtime"} |-> Unset]
OffRec  == [pc |-> "off", step |-> "Scan", a |-> Unset, base |-> Unset, read |-> Unset, plan |-> Unset, armed |-> FALSE, cursor |-> 0,
            fails |-> {}, cache |-> NoProbe, facts |-> Unset, failed |-> FALSE, warn |-> FALSE, registry |-> FALSE,
            asked |-> Unset, hand |-> {}]

ApplyPcs == {"dirs", "locks", "unit stage", "unit backup", "unit rename", "stage", "authority", "ownership", "recheck", "backup", "rename", "check"}
Live(p)  == wiz[p].pc # "off"
Put(p, w) == wiz' = [wiz EXCEPT ![p] = w]

Facts == [root |-> deploy.root, devices |-> deploy.devices, users |-> deploy.users, up |-> host.up]

\* mod.rs run: read the file, scan the host, fill in the answers.
Run(p) ==
    LET text  == host.file["config"]
        doc   == text # Unset /\ text.parses
        a     == IF doc THEN from_doc(text, Facts, host) ELSE defaults(Facts, host)
    IN
    /\ ~Live(p) /\ budget.runs > 0
    /\ Put(p, [OffRec EXCEPT !.pc = "wizard", !.a = a, !.base = IF doc THEN text ELSE fresh_base_text, !.read = text, !.facts = Facts,
                             !.failed = (text # Unset /\ ~doc),
                             !.warn = Existing(host, {<<a.v["base_path"], a.v["keystore_dir"]>>}).any])
    /\ budget' = [budget EXCEPT !.runs = @ - 1]
    /\ UNCHANGED host

\* goto. The review page makes the plan, which asks the probes.
GotoStep(w, step) ==
    LET cache == ProbeCache(w.cache, Needed(w.a, host), host.up, FALSE) IN
    IF step # "Review" THEN [w EXCEPT !.step = step, !.asked = Unset]
    ELSE [w EXCEPT !.step = step, !.cursor = 0, !.armed = FALSE, !.fails = {}, !.cache = cache, !.asked = Unset,
                   !.plan = build_plan(w.a, w.base, w.facts, host)]

PageNo(step)    == CHOOSE i \in DOMAIN Pages : Pages[i] = step
next_step(w)    == IF w.step = "Scan" THEN (IF w.warn THEN "ExistingWarning" ELSE "Paths")
                   ELSE IF w.step = "System" THEN "Review" ELSE Pages[PageNo(w.step) + 1]
prev_step(w)    == IF w.step = "Paths" THEN (IF w.warn THEN "ExistingWarning" ELSE "Scan") ELSE Pages[PageNo(w.step) - 1]

On(p, steps) == wiz[p].pc = "wizard" /\ wiz[p].step \in steps
Form == {Pages[i] : i \in DOMAIN Pages}

key_scan(p) == On(p, {"Scan"}) /\ Put(p, GotoStep(wiz[p], next_step(wiz[p]))) /\ UNCHANGED <<host, budget>>

\* A file that does not parse can only be left behind: start from the defaults.
key_existing(p) ==
    LET w == wiz[p]
        z == [w EXCEPT !.base = fresh_base_text, !.a = defaults(w.facts, host), !.failed = FALSE,
                       !.warn = Existing(host, PathPairs(defaults(w.facts, host))).any]
    IN
    /\ On(p, {"ExistingWarning"})
    /\ Put(p, GotoStep(IF w.failed THEN z ELSE w, "Paths"))
    /\ UNCHANGED <<host, budget>>

Edit(p, id, value) ==
    LET w == wiz[p] IN
    /\ On(p, Form) /\ budget.edits > 0 /\ id \in Fields(w.step, w.a, host) /\ Offered(id, value, w.a, w.facts, host)
    /\ set_field(w.a, id, value, w.facts) # w.a
    /\ Put(p, [w EXCEPT !.a = set_field(w.a, id, value, w.facts)])
    /\ budget' = [budget EXCEPT !.edits = @ - 1]
    /\ UNCHANGED host

\* Tab: the page's errors keep the wizard where it is.
try_next(p) ==
    LET w     == wiz[p]
        cache == IF w.step = "Authority" THEN ProbeCache(w.cache, Needed(w.a, host), host.up, FALSE) ELSE w.cache
        z     == [w EXCEPT !.cache = cache, !.warn = IF w.step = "Paths" THEN Existing(host, PathPairs(w.a)).any ELSE @]
    IN
    /\ On(p, Form)
    /\ Put(p, IF for_step(w.step, w.a, w.facts, host, cache) = {} THEN GotoStep(z, next_step(z)) ELSE [w EXCEPT !.cache = cache])
    /\ UNCHANGED <<host, budget>>

Back(p) == On(p, Form) /\ budget.backs > 0 /\ Put(p, GotoStep(wiz[p], prev_step(wiz[p]))) /\ budget' = [budget EXCEPT !.backs = @ - 1] /\ UNCHANGED host

\* `c` on the authority page asks the probes again.
CheckPages(p) ==
    /\ On(p, {"Authority"})
    /\ Put(p, [wiz[p] EXCEPT !.cache = ProbeCache(@, Needed(wiz[p].a, host), host.up, TRUE)])
    /\ UNCHANGED <<host, budget>>

----------------------------------------------------------------------------
\* The review page.
ReviewMove(p) == On(p, {"Review"}) /\ Put(p, [wiz[p] EXCEPT !.cursor = 1 - @, !.armed = FALSE, !.asked = Unset]) /\ UNCHANGED <<host, budget>>

\* Back to the first page with an error, or to the last page.
back_from_review(p) ==
    LET w == wiz[p]
        wrong == {i \in DOMAIN Pages : \E f \in w.fails : f[1] = Pages[i]}
    IN
    /\ On(p, {"Review"}) /\ budget.backs > 0
    /\ Put(p, GotoStep(w, IF wrong = {} THEN "System" ELSE Pages[CHOOSE i \in wrong : \A j \in wrong : i <= j]))
    /\ budget' = [budget EXCEPT !.backs = @ - 1]
    /\ UNCHANGED host

\* Enter on Apply: a plan that cannot be undone asks once more, any other is checked.
ReviewArm(p) ==
    LET w == wiz[p] IN
    /\ On(p, {"Review"}) /\ w.cursor = 0 /\ ~is_noop(w.plan) /\ Irreversible(w.plan.authority) /\ ~w.armed
    /\ Put(p, [w EXCEPT !.armed = TRUE, !.asked = w.plan])
    /\ UNCHANGED <<host, budget>>

resume(p) ==
    LET w     == wiz[p]
        cache == ProbeCache(w.cache, Needed(w.plan.a, host), host.up, FALSE)
        found == preflight(w.plan, w.facts, host, cache)
    IN
    /\ On(p, {"Review"}) /\ w.cursor = 0 /\ ~is_noop(w.plan) /\ (Irreversible(w.plan.authority) => w.armed)
    /\ Put(p, IF found # {} THEN [w EXCEPT !.fails = found, !.armed = FALSE, !.cache = cache, !.asked = Unset]
              ELSE [w EXCEPT !.pc = "dirs", !.cache = NoProbe])
    /\ UNCHANGED <<host, budget>>

\* Ctrl-C or q, and y.
Cancel(p) == wiz[p].pc = "wizard" /\ Put(p, OffRec) /\ UNCHANGED <<host, budget>>

----------------------------------------------------------------------------
\* apply.rs run. Dropping a staged file removes it.
Unstage(h, p) == [h EXCEPT !.tmp = [f \in DOMAIN h.tmp |-> IF h.tmp[f] # Unset /\ h.tmp[f].by = p THEN Unset ELSE h.tmp[f]]]
Stop(p, h)    == Put(p, OffRec) /\ host' = Unstage(h, p)
At(p, pc)     == wiz[p].pc = pc
Go(p, pc)     == Put(p, [wiz[p] EXCEPT !.pc = pc])
Ks(p)         == wiz[p].plan.a.v["keystore_dir"]

EnsureDirs(p) ==
    /\ At(p, "dirs") /\ Go(p, "locks")
    /\ host' = [host EXCEPT !.dirs = @ \cup wiz[p].plan.dirs]
    /\ UNCHANGED budget

PrecreateLocks(p) ==
    LET pl == wiz[p].plan IN
    /\ At(p, "locks") /\ Go(p, IF pl.unit = "same" THEN "stage" ELSE "unit stage")
    /\ host' = [host EXCEPT !.locks = IF pl.authority = "create registry" \/ helper_effective(pl.a) THEN @ \cup {Ks(p)} ELSE @]
    /\ UNCHANGED budget

\* stage: a temp file beside the target that nobody else may have made.
stage(p, f, text, next) ==
    IF host.tmp[f] # Unset THEN Stop(p, host)
    ELSE host' = [host EXCEPT !.tmp[f] = [by |-> p, text |-> text]] /\ Go(p, next)

Backup(p, f, next) ==
    /\ host' = [host EXCEPT !.baks = IF host.file[f] = Unset THEN @ ELSE @ \cup {host.file[f]}]
    /\ Put(p, [wiz[p] EXCEPT !.pc = next])
    /\ UNCHANGED budget

Rename(p, f, next) ==
    /\ host' = [host EXCEPT !.file[f] = host.tmp[f].text, !.tmp[f] = Unset]
    /\ Go(p, next)
    /\ UNCHANGED budget

UnitStage(p)  == At(p, "unit stage") /\ stage(p, "unit", unit_params(wiz[p].plan.a), IF wiz[p].plan.unit = "replace" THEN "unit backup" ELSE "unit rename") /\ UNCHANGED budget
UnitBackup(p) == At(p, "unit backup") /\ Backup(p, "unit", "unit rename")
UnitRename(p) == At(p, "unit rename") /\ Rename(p, "unit", "stage")

Writes(pl) == pl.changes # {} \/ ~pl.existed

StageConfig(p) ==
    LET pl == wiz[p].plan IN
    /\ At(p, "stage")
    /\ IF Writes(pl) THEN /\ stage(p, "config", render(pl.base, pl.a, budget.rev + 1), "authority")
                          /\ budget' = [budget EXCEPT !.rev = @ + 1]
       ELSE Go(p, "authority") /\ UNCHANGED <<host, budget>>

generate_key_file(h, f) == IF h.keys[f] # Unset THEN h ELSE [h EXCEPT !.keys[f] = h.next, !.next = @ + 1]

GenerateKey(p) ==
    LET f == wiz[p].plan.a.authority.file IN
    /\ At(p, "authority") /\ wiz[p].plan.authority = "generate key"
    /\ IF generate_key_file(host, f) = host THEN Stop(p, host) ELSE host' = generate_key_file(host, f) /\ Go(p, "ownership")
    /\ UNCHANGED budget

\* create_registry under the keystore lock and the registry lock; the device and the adopted key file are used only here.
\* The codes are shown before the registry exists: refused, nothing is made.
InitRefuses(h, k, n) ==
    \/ n.adopt # <<>> /\ load_key(h, n.adopt) = Unset
    \/ h.daemon = k
    \/ devices_json(h, k) \/ (keystore_json(h, k) /\ n.adopt = <<>>)
    \/ n.first \notin h.up

create_registry(h, k, n) ==
    [h EXCEPT !.ks[k].reg = IF n.adopt # <<>> THEN load_key(h, n.adopt) ELSE h.next, !.ks[k].home = (n.first = "tpm"),
              !.next = IF n.adopt = <<>> THEN @ + 1 ELSE @, !.ks[k].owned = ~deploy.root, !.ks[k].torn = TRUE]

CreateRegistry(p) ==
    LET n == wiz[p].plan.a.authority IN
    /\ At(p, "authority") /\ wiz[p].plan.authority = "create registry"
    /\ IF InitRefuses(host, Ks(p), n) THEN Stop(p, host)
       ELSE host' = create_registry(host, Ks(p), n) /\ Put(p, [wiz[p] EXCEPT !.pc = "ownership", !.registry = TRUE])
    /\ UNCHANGED budget

NoAction(p) == At(p, "authority") /\ wiz[p].plan.authority \in {"nothing", "finish migration"} /\ Go(p, "ownership") /\ UNCHANGED <<host, budget>>

apply_ownership(h, k, made, pl) == IF made /\ pl.ownership THEN [h EXCEPT !.ks[k].owned = TRUE, !.ks[k].torn = FALSE]
                                   ELSE IF made THEN [h EXCEPT !.ks[k].torn = FALSE] ELSE h

Ownership(p) ==
    /\ At(p, "ownership")
    /\ host' = apply_ownership(host, Ks(p), wiz[p].registry, wiz[p].plan)
    /\ Put(p, [wiz[p] EXCEPT !.pc = IF Writes(wiz[p].plan) THEN "recheck" ELSE "off", !.registry = FALSE])
    /\ UNCHANGED budget

\* A mutant: the file is not read again before the rename.
RecheckSkipped(pl, h) == TRUE
recheck_config_unchanged(pl, h) == IF pl.existed THEN h.file["config"] = pl.base ELSE h.file["config"] = Unset

Recheck(p) ==
    LET pl == wiz[p].plan IN
    /\ At(p, "recheck") /\ UNCHANGED budget
    /\ IF recheck_config_unchanged(pl, host) THEN Put(p, [wiz[p] EXCEPT !.pc = IF pl.existed THEN "backup" ELSE "rename"]) /\ UNCHANGED host
       ELSE Stop(p, host)

ConfigBackup(p) == At(p, "backup") /\ Backup(p, "config", "rename")
ConfigRename(p) == At(p, "rename") /\ Rename(p, "config", "check")

\* The written file is read back; the summary is printed.
PostCheck(p) == At(p, "check") /\ Put(p, OffRec) /\ UNCHANGED <<host, budget>>

----------------------------------------------------------------------------
\* The host around it. A fault is an I/O error, which stops the apply (a registry it made is still handed over, unless that
\* is what failed), or a crash, which leaves the temp file.
Fault(p) ==
    /\ wiz[p].pc \in ApplyPcs \ {"check"} /\ budget.faults > 0
    /\ budget' = [budget EXCEPT !.faults = @ - 1]
    /\ \E fixed \in BOOLEAN : (fixed => wiz[p].registry) /\ Stop(p, IF fixed THEN apply_ownership(host, Ks(p), TRUE, wiz[p].plan) ELSE host)

SetupCrash(p) ==
    /\ wiz[p].pc \in ApplyPcs /\ budget.faults > 0
    /\ budget' = [budget EXCEPT !.faults = @ - 1]
    /\ Put(p, OffRec)
    /\ host' = [host EXCEPT !.tmp = [f \in DOMAIN host.tmp |-> IF host.tmp[f] # Unset /\ host.tmp[f].by = p THEN [by |-> Unset, text |-> host.tmp[f].text] ELSE host.tmp[f]]]

\* The operator deletes a temp file an interrupted run left, as the message says.
DeleteStale(f) ==
    /\ host.tmp[f] # Unset /\ host.tmp[f].by = Unset
    /\ host' = [host EXCEPT !.tmp[f] = Unset]
    /\ UNCHANGED <<wiz, budget>>

\* A hand edit of a setting setup does not manage.
HandEdit ==
    /\ host.file["config"] # Unset /\ budget.hand > 0
    /\ host' = [host EXCEPT !.file["config"] = [host.file["config"] EXCEPT !.note = 1 - @, !.rev = budget.rev + 1]]
    /\ wiz' = [p \in Setups |-> IF wiz[p].pc \in {"backup", "rename"} THEN [wiz[p] EXCEPT !.hand = @ \cup {wiz[p].pc}] ELSE wiz[p]]
    /\ budget' = [budget EXCEPT !.hand = @ - 1, !.rev = @ + 1]

\* y2qd starts: it takes the keystore lock, resolves the node key, and opens the keystore or makes the first one.
DaemonStart ==
    LET c   == host.file["config"]
        k   == FromFile(c, "keystore_dir", Default["keystore_dir"])
        nk  == resolve(c, host)
        new == ~keystore_json(host, k)
    IN
    /\ host.daemon = Unset /\ budget.starts > 0 /\ c # Unset /\ c.parses /\ k \in DOMAIN host.ks /\ nk # Unset
    /\ new \/ host.ks[k].store = nk
    /\ host' = [host EXCEPT !.daemon = k, !.ks[k].store = nk, !.data = @ \cup {FromFile(c, "base_path", Default["base_path"])},
                            !.raced = @ \/ (new /\ \E p \in Setups : wiz[p].pc \in ApplyPcs)]
    /\ budget' = [budget EXCEPT !.starts = @ - 1]
    /\ UNCHANGED wiz

StopDaemon == host.daemon # Unset /\ host' = [host EXCEPT !.daemon = Unset] /\ UNCHANGED <<wiz, budget>>

\* A device or a time server comes or goes, and a probe's answer grows old.
DeviceChange(q) ==
    /\ budget.device > 0
    /\ host' = [host EXCEPT !.up = IF q \in @ THEN @ \ {q} ELSE @ \cup {q}]
    /\ budget' = [budget EXCEPT !.device = @ - 1]
    /\ UNCHANGED wiz

Expire(p) == wiz[p].pc = "wizard" /\ wiz[p].cache # NoProbe /\ Put(p, [wiz[p] EXCEPT !.cache = NoProbe]) /\ UNCHANGED <<host, budget>>

SetupStep(p) ==
    \/ Run(p) \/ key_scan(p) \/ key_existing(p) \/ try_next(p) \/ Back(p) \/ CheckPages(p) \/ Cancel(p)
    \/ \E e \in deploy.edits : Edit(p, e[1], e[2])
    \/ ReviewMove(p) \/ back_from_review(p) \/ ReviewArm(p) \/ resume(p)
    \/ EnsureDirs(p) \/ PrecreateLocks(p) \/ UnitStage(p) \/ UnitBackup(p) \/ UnitRename(p) \/ StageConfig(p)
    \/ GenerateKey(p) \/ CreateRegistry(p) \/ NoAction(p) \/ Ownership(p) \/ Recheck(p) \/ ConfigBackup(p) \/ ConfigRename(p) \/ PostCheck(p)
    \/ Fault(p) \/ SetupCrash(p) \/ Expire(p)

SetupNext ==
    /\ \/ \E p \in Setups : SetupStep(p)
       \/ \E f \in {"config", "unit"} : DeleteStale(f)
       \/ \E q \in deploy.flaky : DeviceChange(q)
       \/ HandEdit \/ DaemonStart \/ StopDaemon
    /\ UNCHANGED deploy

SetupInit(d) ==
    /\ deploy = [root |-> d.root, devices |-> d.devices, users |-> d.users, edits |-> d.edits, flaky |-> d.flaky]
    /\ host = d.host /\ budget = d.left
    /\ wiz = [p \in Setups |-> OffRec]

----------------------------------------------------------------------------

ByHand(c) == c.rev = 0

\* Whatever stops an apply, and wherever, the config file on the host names a node key that is there: the key file or the
\* registry is made before the config that needs it.
SourceOnDisk == host.file["config"] # Unset /\ host.file["config"].parses => resolve(host.file["config"], host) # Unset

\* The keystore a config names opens with the key the config names. A daemon that makes its first keystore while an apply
\* is under way is the exception: setup looks at the keystore lock once, before it starts.
KeystoreOpens ==
    LET c == host.file["config"]
        k == FromFile(c, "keystore_dir", Default["keystore_dir"])
    IN c # Unset /\ c.parses /\ ~host.raced /\ keystore_json(host, k) => resolve(c, host) = host.ks[k].store

\* A key or a registry is made only for the very plan whose warning the operator confirmed with the keystroke before
\* (confirm_armed in wizard.rs).
ConfirmedPlan == \A p \in Setups : wiz[p].pc \in ApplyPcs /\ Irreversible(wiz[p].plan.authority) => wiz[p].asked = wiz[p].plan

\* The file a setup is about to put in place reads back as the answers the operator reviewed, every page's.
WrittenReadsBack ==
    \A p \in Setups : At(p, "rename") =>
        LET a == wiz[p].plan.a
            b == from_doc(host.tmp["config"].text, wiz[p].facts, host)
            skip == (IF a.v["s3_enabled"] THEN {} ELSE S3Keys) \cup (IF involves_registry(a) THEN {} ELSE DeviceKeys)
        IN /\ \A k \in Knobs \ skip : b.v[k] = a.v[k]
           /\ involves_registry(a) => b.use_helper = a.use_helper /\ b.loaded.nk = <<>>
           /\ a.authority.kind = "operator" => b.loaded.nk = a.authority.file

Quiet == \A p \in Setups : ~Live(p)

\* A rerun over a config setup wrote, with nothing changed, writes nothing: what is rendered reads back as the same
\* answers (docs: "A rerun with no changes writes nothing").
RerunWritesNothing ==
    LET c == host.file["config"]
        a == from_doc(c, Facts, host)
        p == build_plan(a, c, Facts, host)
    IN Quiet /\ c # Unset /\ c.parses => ~Writes(p) /\ p.authority = "nothing" /\ (host.daemon = Unset /\ ~ByHand(c) => p.missing = {})

\* After any interruption there is an authority a new setup accepts: keep what is there, use the key file, finish the
\* migration or start anew.
WayForward ==
    LET c == host.file["config"]
        f == [Facts EXCEPT !.devices = TRUE]
        a == IF c # Unset /\ c.parses THEN from_doc(c, f, host) ELSE defaults(f, host)
    IN Quiet /\ ~host.raced /\ (c # Unset => c.parses) /\ Cardinality(host.up) = 3 =>
        \E kind \in authority_kinds(a, f, host), file \in DOMAIN host.keys, mode \in {"generate", "existing"} :
            LET n == [select_authority(a, kind, f) EXCEPT !.authority.file = file, !.authority.mode = mode, !.authority.ack = TRUE, !.v["roughtime"] = MinServers]
            IN authority(n, f, host, NoProbe) = {}

\* A registry the config relies on belongs to the account that opens it, unless the run that made it died before it could
\* hand the file over: a rerun hands over only what it makes itself.
RegistryReadable ==
    LET c == host.file["config"]
        k == FromFile(c, "keystore_dir", Default["keystore_dir"])
    IN c # Unset /\ c.parses /\ FromFile(c, "node_key_file", <<>>) = <<>> /\ devices_json(host, k) => host.ks[k].owned \/ host.ks[k].torn

\* Whatever stops a setup, and wherever, the host is usable: the config's node key is there, opens the keystore and can be
\* read by the daemon's account, and a new setup finds a way on.
HostUsable == SourceOnDisk /\ KeystoreOpens /\ RegistryReadable /\ WayForward

\* What the operator reviewed is what is applied: the plan confirmed, written as answered, and nothing left for a rerun.
ReviewedIsApplied == ConfirmedPlan /\ WrittenReadsBack /\ RerunWritesNothing

\* Nothing is overwritten unseen.  A commit replaces the text its setup read, unless a hand edit fell between the last check
\* and the rename (recheck in apply.rs, then backup and rename in config_doc::commit); what setup replaces it has copied,
\* unless it was written between the copy and the rename; and no setup replaces a key file or a registry, alone or against
\* another one.
NothingOverwritten ==
    [][/\ \A p \in Setups : At(p, "rename") /\ host'.file["config"] # host.file["config"] /\ wiz[p].hand = {} /\ wiz'[p].pc = "check"
            => host.file["config"] = wiz[p].read
       /\ \A p \in Setups, f \in {"config", "unit"} :
            At(p, IF f = "unit" THEN "unit rename" ELSE "rename") /\ wiz'[p].pc \in {"stage", "check"} /\ "rename" \notin wiz[p].hand /\ host.file[f] # Unset
            => host.file[f] \in host.baks
       /\ \A f \in DOMAIN host.keys : host.keys[f] # Unset => host'.keys[f] = host.keys[f]
       /\ \A k \in DOMAIN host.ks : host.ks[k].reg # Unset => host'.ks[k].reg = host.ks[k].reg]_setupVars

=============================================================================
