------------------------------ MODULE MCSetup ------------------------------
(* Deployments for Setup: what is on the host, who runs setup and what they
   enter, and what happens meanwhile.                                      *)
EXTENDS Setup, TLC

CONSTANTS s1, s2

D1 == <<"srv", "data">>
D2 == <<"srv", "other">>
K1 == <<"srv", "keys">>
K2 == <<"srv", "keys2">>
F1 == <<"etc", "node.key">>
F2 == <<"etc", "old.key">>
MCConfigDir == <<"etc">>
MCProtected == {<<"srv">>, <<"etc">>}
MCDefault == [host |-> "loopback", port |-> 1, tls |-> "off", allow_insecure_bind |-> FALSE, base_path |-> D1, keystore_dir |-> K1,
              backend |-> "filesystem", default_ttl |-> 1, max_ttl |-> 2, s3_enabled |-> FALSE, s3_host |-> "loopback", s3_port |-> 2,
              s3_tls |-> "off", s3_allow_insecure_bind |-> FALSE, roughtime |-> 0]

KsEmpty == [store |-> Unset, reg |-> Unset, home |-> FALSE, owned |-> TRUE, torn |-> FALSE]
Bare == [file |-> [config |-> Unset, unit |-> Unset], tmp |-> [config |-> Unset, unit |-> Unset], baks |-> {}, dirs |-> {MCConfigDir}, data |-> {},
         ks |-> (K1 :> KsEmpty @@ K2 :> KsEmpty), keys |-> (F1 :> Unset @@ F2 :> Unset), locks |-> {}, daemon |-> Unset,
         up |-> {"tpm", "fido2", "roughtime"}, next |-> 1, raced |-> FALSE]
Conf(over) == [fresh_base_text EXCEPT !.v = over @@ fresh_base_text.v]
\* an operator key in use: config, key file, keystore, data
Operated == [Bare EXCEPT !.file["config"] = Conf([node_key_file |-> F2]), !.keys[F2] = 1, !.next = 2, !.ks[K1].store = 1, !.data = {D1}, !.dirs = @ \cup {D1, K1}]
\* configured, not started yet
Unstarted == [Operated EXCEPT !.ks[K1].store = Unset, !.data = {}]

Left(r, e, b, f, h, s, d) == [runs |-> r, edits |-> e, backs |-> b, faults |-> f, hand |-> h, starts |-> s, device |-> d, rev |-> 0]
Dep(h, l, edits) == [root |-> TRUE, devices |-> TRUE, users |-> {"y2q", "y2qkey"}, edits |-> edits, flaky |-> {}, host |-> h, left |-> l]

SetupMixes == [
  fresh    |-> Dep(Bare, Left(2, 1, 1, 1, 0, 1, 0), {<<"key_source", "existing">>, <<"authority", "keep">>}),
  registry |-> Dep(Bare, Left(2, 4, 0, 1, 0, 1, 0), {<<"authority", "registry">>, <<"first_device", "fido2">>, <<"authority", "keep">>, <<"use_helper", FALSE>>}),
  tpm      |-> [Dep(Bare, Left(1, 2, 0, 0, 0, 0, 2), {<<"authority", "registry">>, <<"roughtime", 2>>}) EXCEPT !.flaky = {"tpm", "roughtime"}],
  adopt    |-> Dep(Operated, Left(2, 3, 0, 1, 0, 1, 0), {<<"authority", "registry">>, <<"first_device", "fido2">>, <<"authority", "finish">>, <<"ack_adopted", TRUE>>}),
  orphan   |-> Dep(Operated, Left(1, 3, 0, 0, 0, 1, 0), {<<"authority", "operator">>, <<"key_file", F1>>, <<"key_source", "existing">>}),
  rekey    |-> Dep(Unstarted, Left(2, 3, 0, 0, 0, 2, 0), {<<"authority", "operator">>, <<"key_file", F1>>, <<"key_source", "existing">>}),
  move     |-> Dep(Operated, Left(1, 3, 1, 0, 0, 2, 0), {<<"keystore_dir", K2>>, <<"ack_data_risk", TRUE>>, <<"base_path", D2>>}),
  hand     |-> Dep([Operated EXCEPT !.file["config"] = Conf([node_key_file |-> F2, port |-> 2])], Left(2, 2, 0, 0, 1, 0, 0), {<<"port", 1>>, <<"port", 3>>}),
  units    |-> Dep([Operated EXCEPT !.file["unit"] = [helper |-> TRUE, user |-> "y2q", rw |-> {}, udev |-> FALSE]], Left(2, 2, 0, 1, 0, 0, 0), {<<"install_units", TRUE>>, <<"daemon_user", "nobody">>}),
  pages    |-> Dep(Operated, Left(1, 3, 1, 0, 0, 0, 0), {<<"host", "any">>, <<"allow_insecure_bind", TRUE>>, <<"s3_enabled", TRUE>>, <<"s3_port", 1>>, <<"s3_host", "any">>,
                        <<"tls", "no paths">>, <<"tls", "good">>, <<"backend", "uring">>, <<"default_ttl", 3>>, <<"max_ttl", 3>>}),
  broken   |-> Dep([Operated EXCEPT !.file["config"] = [Conf([node_key_file |-> F2]) EXCEPT !.parses = FALSE]], Left(1, 2, 0, 0, 0, 0, 0), {<<"authority", "operator">>, <<"key_source", "existing">>, <<"key_file", F2>>})
]
=============================================================================
