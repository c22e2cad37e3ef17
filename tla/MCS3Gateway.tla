---------------------------- MODULE MCS3Gateway -----------------------------
(* Traffic for S3Gateway: which requests each client sends, and what the
   surroundings do meanwhile.                                              *)
EXTENDS S3Gateway

Mix(name, a, b, env, quota, up, aged, w) ==
    [name |-> name, ops |-> [r \in Reqs |-> IF r = "a" THEN a ELSE b], env |-> env,
     quota |-> quota, sessions |-> 1, uploads |-> up, aged |-> aged, writes |-> w]

PassingMixes == {
    \* two writers, an announced or unannounced length, deletes, a quota
    Mix("quota", {"put", "delete"}, {"create", "part", "complete"}, {}, 3, 0, {}, 3),
    \* two clients minting and revoking; an old upload
    Mix("mint", {"mint"}, {"mint", "revoke", "sweep"}, {"end"}, None, 1, {1}, 3),
    \* a reader and a writer whose session ends or is replaced
    Mix("leash", {"put"}, {"get"}, {"end", "switch"}, None, 0, {}, 2),
    \* parts uploaded while the session is refreshed
    Mix("refresh", {"part"}, {"refresh"}, {}, None, 1, {}, 3),
    \* one client's multipart work beside other clients' requests
    Mix("complete", {"create", "part", "complete", "abort"}, {"tag", "delete"}, {}, None, 0, {}, 3),
    \* the sweeper, sessions that end, deletes that fail
    Mix("sweep", {"create", "part", "abort"}, {"sweep"}, {"end", "faults"}, None, 0, {}, 2) }

\* Multipart uploads lose nothing and leave nothing.  A completion holds the listed bodies when no part is
\* written again meanwhile (CompletesAsListed), then no part is left without its upload (NoOrphanPart), and a
\* refresh of the session keeps upload and parts together (RefreshKeepsParts).
UploadsWhole ==
    /\ traffic.name \in {"complete", "quota"} => CompletesAsListed /\ NoOrphanPart
    /\ traffic.name = "refresh" => RefreshKeepsParts
=============================================================================
