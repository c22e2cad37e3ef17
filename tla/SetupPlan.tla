----------------------------- MODULE SetupPlan -----------------------------
(***************************************************************************)
(* What `y2qd setup` computes: the answers read from a config file, the    *)
(* fields each page shows, what each page refuses, the config file and the *)
(* plan the answers produce (answers.rs, validate.rs, config_doc.rs and    *)
(* the first half of apply.rs). A path is the sequence of its names, <<>>  *)
(* the empty string; a config file is the value of each key, Unset where   *)
(* the file does not mention it.                                           *)
(***************************************************************************)
EXTENDS Naturals, FiniteSets, Sequences

CONSTANTS
    Unset,          \* no value
    Default,        \* key |-> compiled default
    ConfigDir,      \* the directory of config.toml
    Protected       \* system directories

Plain      == {"host", "port", "tls", "allow_insecure_bind", "base_path", "keystore_dir", "backend", "default_ttl", "max_ttl", "s3_enabled"}
S3Keys     == {"s3_host", "s3_port", "s3_tls", "s3_allow_insecure_bind"}
DeviceKeys == {"roughtime"}
Knobs      == Plain \cup S3Keys \cup DeviceKeys
FileKeys   == Knobs \cup {"node_key_file", "key_agent_socket"}
MinServers == 2     \* crypto.devices.roughtime.min_responses

is_within(p, q)     == Len(q) <= Len(p) /\ SubSeq(p, 1, Len(q)) = q
is_protected(p)     == p \in Protected
host_is_loopback(h) == h = "loopback"
is_wildcard(h)      == h = "any"

----------------------------------------------------------------------------
\* The disk, as the probes see it: d.ks[k] is the keystore directory k.
keystore_json(d, k) == k \in DOMAIN d.ks /\ d.ks[k].store # Unset
devices_json(d, k)  == k \in DOMAIN d.ks /\ d.ks[k].reg # Unset
load_key(d, f)      == IF f \in DOMAIN d.keys THEN d.keys[f] ELSE Unset

\* The key file opens, and it opens the keystore that is there.
node_key_ok(d, f, k) == load_key(d, f) # Unset /\ (keystore_json(d, k) => d.ks[k].store = load_key(d, f))

\* Whether the registry has a home device, when it can be read.
registry_summary(d, k) == IF devices_json(d, k) THEN d.ks[k].home ELSE Unset

daemon_running_probe(d, k) == d.daemon = k

\* ExistingInstall::detect over the answers' directories and the loaded ones, and any().
Existing(d, pairs) ==
    [running |-> \E q \in pairs : daemon_running_probe(d, q[2]),
     any     |-> \/ d.file["config"] # Unset
                 \/ \E q \in pairs : keystore_json(d, q[2]) \/ devices_json(d, q[2]) \/ q[1] \in d.data]

----------------------------------------------------------------------------
\* The answers.
NoAuthority == [kind |-> "none", mode |-> "generate", file |-> <<>>, first |-> "tpm", adopt |-> <<>>, ack |-> FALSE]

PathPairs(a) == {<<a.v["base_path"], a.v["keystore_dir"]>>} \cup (IF a.loaded.exists THEN {<<a.loaded.base, a.loaded.ks>>} ELSE {})

default_key_file(a) == IF a.loaded.exists /\ a.loaded.nk # <<>> THEN a.loaded.nk ELSE ConfigDir \o <<"node.key">>

default_new_authority(a, d) ==
    IF keystore_json(d, a.v["keystore_dir"]) \/ devices_json(d, a.v["keystore_dir"]) THEN NoAuthority
    ELSE [NoAuthority EXCEPT !.kind = "operator", !.file = default_key_file(a)]

defaults(facts, d) ==
    LET a == [v       |-> [k \in Knobs |-> Default[k]], use_helper |-> facts.root, ack_data_risk |-> FALSE, install_units |-> FALSE,
              udev    |-> FALSE, daemon_user |-> "y2q", key_user |-> "y2qkey", authority |-> NoAuthority,
              loaded  |-> [exists |-> FALSE, nk |-> <<>>, socket |-> <<>>, base |-> <<>>, ks |-> <<>>]]
    IN [a EXCEPT !.authority = default_new_authority(a, d)]

\* A key the file has overrides the default; the helper is on when the file names its socket.
FromFile(c, k, default) == IF c.v[k] = Unset THEN default ELSE c.v[k]

\* A mutant: a file that does not name the helper's socket leaves the helper at its default.
FromDocHelper(c, facts, d) ==
    LET z  == defaults(facts, d)
        v  == [k \in Knobs |-> FromFile(c, k, Default[k])]
        nk == FromFile(c, "node_key_file", <<>>)
        a  == [z EXCEPT !.v = v, !.use_helper = IF c.v["key_agent_socket"] = Unset THEN @ ELSE c.v["key_agent_socket"] # <<>>,
                        !.loaded = [exists |-> TRUE, nk |-> nk, socket |-> FromFile(c, "key_agent_socket", <<>>),
                                    base |-> v["base_path"], ks |-> v["keystore_dir"]]]
    IN [a EXCEPT !.authority = IF nk # <<>> \/ devices_json(d, v["keystore_dir"]) THEN [NoAuthority EXCEPT !.kind = "keep"]
                               ELSE default_new_authority(a, d)]

from_doc(c, facts, d) ==
    LET z  == defaults(facts, d)
        v  == [k \in Knobs |-> FromFile(c, k, Default[k])]
        nk == FromFile(c, "node_key_file", <<>>)
        a  == [z EXCEPT !.v = v, !.use_helper = FromFile(c, "key_agent_socket", <<>>) # <<>>,
                        !.loaded = [exists |-> TRUE, nk |-> nk, socket |-> FromFile(c, "key_agent_socket", <<>>),
                                    base |-> v["base_path"], ks |-> v["keystore_dir"]]]
    IN [a EXCEPT !.authority = IF nk # <<>> \/ devices_json(d, v["keystore_dir"]) THEN [NoAuthority EXCEPT !.kind = "keep"]
                               ELSE default_new_authority(a, d)]

keep_kind(a) == IF a.loaded.nk = <<>> THEN "registry" ELSE "operator"

authority_kinds(a, facts, d) ==
    LET has_nk == a.loaded.nk # <<>>
        dev    == devices_json(d, a.v["keystore_dir"])
    IN {"operator"} \cup (IF has_nk \/ dev THEN {"keep"} ELSE {}) \cup (IF dev /\ has_nk THEN {"finish"} ELSE {})
                    \cup (IF facts.devices /\ ~dev THEN {"registry"} ELSE {})

select_authority(a, kind, facts) ==
    LET first == IF "tpm" \in facts.up \/ "fido2" \notin facts.up THEN "tpm" ELSE "fido2"
    IN [a EXCEPT !.udev = (kind = "registry" /\ first = "fido2"),
                 !.authority = CASE kind = "operator" -> [NoAuthority EXCEPT !.kind = kind, !.file = default_key_file(a)]
                                 [] kind = "registry" -> [NoAuthority EXCEPT !.kind = kind, !.first = first, !.adopt = a.loaded.nk]
                                 [] OTHER             -> [NoAuthority EXCEPT !.kind = kind]]

involves_registry(a) == a.authority.kind \in {"finish", "registry"} \/ (a.authority.kind = "keep" /\ keep_kind(a) = "registry")
helper_effective(a)  == a.use_helper /\ involves_registry(a)

----------------------------------------------------------------------------
\* The probes of the authority page: which ones a page needs, and the cache in front of them (an answer is used again
\* until it is two minutes old).
RoughtimeNeeded(a, d) ==
    CASE a.authority.kind = "registry" -> a.authority.first = "tpm"
      [] involves_registry(a)          -> registry_summary(d, a.v["keystore_dir"]) = TRUE
      [] OTHER                         -> FALSE

Needed(a, d) ==
    (IF a.authority.kind = "registry" /\ a.authority.first = "tpm" THEN {"tpm"} ELSE {})
    \cup (IF RoughtimeNeeded(a, d) /\ a.v["roughtime"] >= MinServers THEN {"roughtime"} ELSE {})

ProbeCache(cache, need, up, force) == [q \in DOMAIN cache |-> IF q \in need /\ (force \/ cache[q] = Unset) THEN q \in up ELSE cache[q]]

----------------------------------------------------------------------------
\* What each page refuses: the fields it names in an error.
Refuse(field, bad) == IF bad THEN {field} ELSE {}

\* Data written under one keystore would have to be read under another.
orphan_risk(a, d) ==
    LET ks == a.v["keystore_dir"] IN
    /\ ~keystore_json(d, ks)
    /\ \/ a.v["base_path"] \in d.data
       \/ a.loaded.exists /\ a.loaded.ks # ks /\ keystore_json(d, a.loaded.ks)

paths(a, d) ==
    LET b == a.v["base_path"] k == a.v["keystore_dir"] IN
    Refuse("base_path", b = <<>> \/ is_protected(b))
    \cup Refuse("keystore_dir", k = <<>> \/ is_protected(k))
    \cup (IF b = <<>> \/ k = <<>> THEN {}
          ELSE Refuse("keystore_dir", is_within(b, k) \/ is_within(k, b)) \cup Refuse("ack_data_risk", orphan_risk(a, d) /\ ~a.ack_data_risk))

tls_issues(tls) == tls \in {"no paths", "unusable"}

network(a) ==
    Refuse("host", a.v["host"] = "") \cup Refuse("tls", tls_issues(a.v["tls"]))
    \cup Refuse("allow_insecure_bind", a.v["tls"] = "off" /\ ~host_is_loopback(a.v["host"]) /\ ~a.v["allow_insecure_bind"])

PortClash(v) == v["s3_port"] = v["port"] /\ (v["s3_host"] = v["host"] \/ is_wildcard(v["host"]) \/ is_wildcard(v["s3_host"]))

s3(a) ==
    IF ~a.v["s3_enabled"] THEN {}
    ELSE Refuse("s3_host", a.v["s3_host"] = "") \cup Refuse("s3_port", PortClash(a.v)) \cup Refuse("s3_tls", tls_issues(a.v["s3_tls"]))
         \cup Refuse("s3_allow_insecure_bind", a.v["s3_tls"] = "off" /\ ~host_is_loopback(a.v["s3_host"]) /\ ~a.v["s3_allow_insecure_bind"])

storage_logging(a, facts) == Refuse("backend", a.v["backend"] = "uring" /\ "uring" \notin facts.up)

security(a) == Refuse("default_ttl", a.v["default_ttl"] < 1 \/ a.v["default_ttl"] > a.v["max_ttl"])

operator_key_location(a, f) == is_within(f, a.v["base_path"]) \/ is_within(f, a.v["keystore_dir"])

roughtime_required(a, cache) == Refuse("roughtime", a.v["roughtime"] < MinServers \/ cache["roughtime"] = FALSE)

registry_group(a, facts, d, cache) ==
    (IF a.authority.kind # "registry" /\ RoughtimeNeeded(a, d) THEN roughtime_required(a, cache) ELSE {})
    \cup Refuse("key_user", a.use_helper /\ ~facts.root /\ a.authority.kind = "registry" /\ a.key_user \in facts.users)

new_registry(a, d, facts, cache) ==
    LET n == a.authority IN
    (IF keystore_json(d, a.v["keystore_dir"])
     THEN Refuse("adopt_file", n.adopt = <<>> \/ operator_key_location(a, n.adopt) \/ ~node_key_ok(d, n.adopt, a.v["keystore_dir"]))
     ELSE {})
    \cup (IF n.first = "tpm" THEN Refuse("tpm_tcti", cache["tpm"] = FALSE) \cup roughtime_required(a, cache)
          ELSE Refuse("first_device", "fido2" \notin d.up))

\* A mutant: a new key is generated next to a keystore.
OperatorKeyOrphans(a, d) ==
    LET n == a.authority ks == a.v["keystore_dir"] IN
    IF n.file = <<>> THEN {"key_file"}
    ELSE Refuse("key_file", operator_key_location(a, n.file))
         \cup (IF n.mode = "generate" THEN Refuse("key_file", load_key(d, n.file) # Unset) ELSE Refuse("key_file", ~node_key_ok(d, n.file, ks)))

OperatorKey(a, d) ==
    LET n == a.authority ks == a.v["keystore_dir"] IN
    IF n.file = <<>> THEN {"key_file"}
    ELSE Refuse("key_file", operator_key_location(a, n.file))
         \cup (IF n.mode = "generate"
               THEN Refuse("key_source", keystore_json(d, ks) \/ devices_json(d, ks)) \cup Refuse("key_file", load_key(d, n.file) # Unset)
               ELSE Refuse("key_file", ~node_key_ok(d, n.file, ks)))

\* facts are those of the scan; d and the probes are asked now.
authority(a, facts, d, cache) ==
    LET n == a.authority IN
    IF n.kind = "none" \/ n.kind \notin authority_kinds(a, facts, d) THEN {"authority"}
    ELSE CASE n.kind = "keep" /\ keep_kind(a) = "operator" ->
                  Refuse("authority", operator_key_location(a, a.loaded.nk) \/ ~node_key_ok(d, a.loaded.nk, a.v["keystore_dir"]))
           [] n.kind = "keep"     -> registry_group(a, facts, d, cache)
           [] n.kind = "finish"   -> Refuse("ack_adopted", ~n.ack) \cup registry_group(a, facts, d, cache)
                                     \cup Refuse("authority", ~node_key_ok(d, a.loaded.nk, a.v["keystore_dir"]))
           [] n.kind = "operator" -> OperatorKey(a, d)
           [] OTHER               -> new_registry(a, d, facts, cache) \cup registry_group(a, facts, d, cache)

system(a, facts) ==
    LET helper     == helper_effective(a)
        identities == a.install_units \/ facts.root \/ helper
    IN Refuse("daemon_user", identities /\ a.daemon_user \notin facts.users)
       \cup Refuse("key_user", helper /\ (a.key_user \notin facts.users \/ a.key_user = a.daemon_user))
       \cup Refuse("install_units", a.install_units /\ involves_registry(a) /\ ~helper)

Pages == <<"Paths", "Network", "S3", "StorageLogging", "Security", "Authority", "System">>

for_step(step, a, facts, d, cache) ==
    CASE step = "Paths"          -> paths(a, d)
      [] step = "Network"        -> network(a)
      [] step = "S3"             -> s3(a)
      [] step = "StorageLogging" -> storage_logging(a, facts)
      [] step = "Security"       -> security(a)
      [] step = "Authority"      -> authority(a, facts, d, cache)
      [] step = "System"         -> system(a, facts)
      [] OTHER                   -> {}

all(a, facts, d, cache) == {<<s, f>> \in {Pages[i] : i \in DOMAIN Pages} \X UNION {for_step(Pages[i], a, facts, d, cache) : i \in DOMAIN Pages} :
                               f \in for_step(s, a, facts, d, cache)}

----------------------------------------------------------------------------
\* The fields a page shows, and what an edit of one does.
TlsFields(v, tls, bind, host) == {tls} \cup (IF v[tls] = "off" /\ ~host_is_loopback(v[host]) THEN {bind} ELSE {})

build_fields(step, a, d) ==
    CASE step = "Paths"          -> {"base_path", "keystore_dir"} \cup (IF orphan_risk(a, d) THEN {"ack_data_risk"} ELSE {})
      [] step = "Network"        -> {"host", "port"} \cup TlsFields(a.v, "tls", "allow_insecure_bind", "host")
      [] step = "S3"             -> {"s3_enabled"} \cup (IF a.v["s3_enabled"]
                                                        THEN {"s3_host", "s3_port"} \cup TlsFields(a.v, "s3_tls", "s3_allow_insecure_bind", "s3_host")
                                                        ELSE {})
      [] step = "StorageLogging" -> {"backend"}
      [] step = "Security"       -> {"default_ttl", "max_ttl"}
      [] OTHER                   -> {}

shows_roughtime(a, d) ==
    CASE a.authority.kind = "registry"           -> a.authority.first = "tpm"
      [] a.authority.kind \in {"keep", "finish"} -> registry_summary(d, a.v["keystore_dir"]) # FALSE
      [] OTHER                                   -> FALSE

authority_fields(a, d) ==
    {"authority"}
    \cup (CASE a.authority.kind = "operator" -> {"key_source", "key_file"}
            [] a.authority.kind = "registry" -> {"first_device"} \cup (IF keystore_json(d, a.v["keystore_dir"]) THEN {"adopt_file"} ELSE {})
            [] a.authority.kind = "finish"   -> {"ack_adopted"}
            [] OTHER                         -> {})
    \cup (IF involves_registry(a)
          THEN {"use_helper"} \cup (IF a.use_helper THEN {"key_user"} ELSE {}) \cup (IF shows_roughtime(a, d) THEN {"roughtime"} ELSE {})
          ELSE {})

system_fields(a) == {"daemon_user", "install_units"}

Fields(step, a, d) ==
    CASE step = "Authority" -> authority_fields(a, d)
      [] step = "System"    -> system_fields(a)
      [] OTHER              -> build_fields(step, a, d)

\* A choice offers only some values.
Offered(id, value, a, facts, d) ==
    CASE id = "authority" -> value \in authority_kinds(a, facts, d)
      [] id = "backend"   -> value = "uring" => "uring" \in facts.up
      [] OTHER            -> TRUE

set_field(a, id, value, facts) ==
    CASE id \in Knobs                            -> [a EXCEPT !.v[id] = value]
      [] id = "authority"                        -> IF a.authority.kind = value THEN a ELSE select_authority(a, value, facts)
      [] id = "key_source"                       -> [a EXCEPT !.authority.mode = value]
      [] id = "key_file"                         -> [a EXCEPT !.authority.file = value]
      [] id = "first_device"                     -> [a EXCEPT !.authority.first = value, !.udev = (value = "fido2")]
      [] id = "adopt_file"                       -> [a EXCEPT !.authority.adopt = value]
      [] id = "ack_adopted"                      -> [a EXCEPT !.authority.ack = value]
      [] OTHER                                   -> [a EXCEPT ![id] = value]

----------------------------------------------------------------------------
\* The config file. A key that is absent and has its default stays absent.
put(c, key, new, default) == IF c.v[key] = Unset /\ new = default THEN Unset ELSE new

Socket == <<"run", "key.sock">>

fresh_base_text == [parses |-> TRUE, v |-> [k \in FileKeys |-> Unset], note |-> 0, rev |-> 0]

\* Writer::devices, for a plan that ends with a registry.
DeviceValue(c, a, k) == IF k = "key_agent_socket" THEN put(c, k, IF a.use_helper THEN Socket ELSE <<>>, <<>>) ELSE put(c, k, a.v[k], Default[k])

render(c, a, rev) ==
    LET devices == involves_registry(a)
        v == [k \in FileKeys |->
                CASE k \in Plain           -> put(c, k, a.v[k], Default[k])
                  [] k \in S3Keys          -> IF a.v["s3_enabled"] THEN put(c, k, a.v[k], Default[k]) ELSE c.v[k]
                  [] k \in DeviceKeys      -> IF devices THEN DeviceValue(c, a, k) ELSE c.v[k]
                  [] k = "node_key_file"   -> IF a.authority.kind = "operator" THEN a.authority.file
                                              ELSE IF devices /\ c.v[k] # Unset THEN <<>> ELSE c.v[k]
                  [] OTHER                 -> IF devices THEN DeviceValue(c, a, k)
                                              ELSE IF a.authority.kind = "operator" /\ a.loaded.socket # <<>> THEN <<>> ELSE c.v[k]]
    IN [c EXCEPT !.v = v, !.rev = rev]

changes(c, n) == {k \in FileKeys : c.v[k] # n.v[k]}

----------------------------------------------------------------------------
\* The plan.
unit_params(a) == [helper |-> helper_effective(a), user |-> a.daemon_user, rw |-> {a.v["base_path"], a.v["keystore_dir"]}, udev |-> a.udev /\ helper_effective(a)]

Irreversible(act) == act \in {"generate key", "create registry"}

build_plan(a, base, facts, d) ==
    LET text == render(base, a, 0)
        unit == unit_params(a)
    IN [a         |-> a,
        base      |-> base,
        existed   |-> d.file["config"] # Unset,
        changes   |-> changes(base, text),
        dirs      |-> {ConfigDir, a.v["base_path"], a.v["keystore_dir"]},
        missing   |-> {ConfigDir, a.v["base_path"], a.v["keystore_dir"]} \ d.dirs,
        unit      |-> IF ~a.install_units \/ d.file["unit"] = unit THEN "same" ELSE IF d.file["unit"] = Unset THEN "create" ELSE "replace",
        ownership |-> facts.root /\ (a.authority.kind = "registry" \/ helper_effective(a)),
        authority |-> CASE a.authority.kind = "operator" /\ a.authority.mode = "generate" -> "generate key"
                        [] a.authority.kind = "registry"                                  -> "create registry"
                        [] a.authority.kind = "finish"                                    -> "finish migration"
                        [] OTHER                                                          -> "nothing"]

is_noop(p) == p.existed /\ p.changes = {} /\ p.missing = {} /\ ~p.ownership /\ p.unit = "same" /\ p.authority = "nothing"

\* What is checked once more when Apply is pressed, against the disk as it is now.
preflight(p, facts, d, cache) ==
    LET a == p.a ks == a.v["keystore_dir"] IN
    all(a, facts, d, cache)
    \cup (Refuse(<<"Review", "daemon">>, Existing(d, PathPairs(a)).running))
    \cup (Refuse(<<"Review", "config">>, IF p.existed THEN d.file["config"] # p.base ELSE d.file["config"] # Unset))
    \cup (Refuse(<<"Review", "config">>, d.tmp["config"] # Unset))
    \cup (Refuse(<<"Review", "authority">>, CASE a.authority.kind = "operator" -> a.authority.file = <<>>
                                             [] a.authority.kind = "keep"     -> keep_kind(a) = "registry" /\ ~devices_json(d, ks)
                                             [] OTHER                         -> a.authority.kind = "none"))

\* The key a daemon would boot with, from a config: an operator's file wins, then the helper's registry or the registry
\* the daemon reads itself.
resolve(c, d) ==
    LET nk == FromFile(c, "node_key_file", <<>>)
        ks == FromFile(c, "keystore_dir", Default["keystore_dir"])
    IN IF nk # <<>> THEN load_key(d, nk) ELSE IF devices_json(d, ks) THEN d.ks[ks].reg ELSE Unset
=============================================================================
