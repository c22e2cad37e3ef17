------------------------------ MODULE MCData ------------------------------
(* The data path in two parts, each checked by itself: the worker pool of
   the direct I/O driver, and the envelope of an encrypted object.         *)
EXTENDS Uring, Envelope, TLC
CONSTANTS w1, w2, k1, k2, c1, c2, c3

VARIABLE part
dataVars == <<uringVars, envVars, part>>
-----------------------------------------------------------------------------
(* The pool: two workers, three clients.                                   *)

Ask(op, k) == [op |-> op, key |-> k, dur |-> FALSE, large |-> FALSE]
Durable(op, k) == [Ask(op, k) EXCEPT !.dur = TRUE]
Large(k) == [Ask("put", k) EXCEPT !.large = TRUE]
Calm == [drop |-> 0, io |-> 0, die |-> 0, crash |-> 0, scans |-> 0]
Hash == [key |-> (k1 :> w1 @@ k2 :> w2), path |-> (k1 :> w2 @@ k2 :> w2)]
Progs(p, q, r) == [prog |-> (c1 :> p @@ c2 :> q @@ c3 :> r)]

UMix(n) == Hash @@
    CASE n = "retry"   -> Progs(<<Durable("stream", k1)>>, <<Ask("stream", k1)>>, <<Ask("get", k1)>>) @@ [faults |-> [Calm EXCEPT !.drop = 2]]
      [] n = "puts"    -> Progs(<<Ask("put", k1), Ask("get", k1)>>, <<Large(k1), Ask("describe", k1)>>, <<Ask("delete", k1)>>)
                          @@ [faults |-> [Calm EXCEPT !.drop = 1, !.io = 1]]
      [] n = "mixed"   -> Progs(<<Durable("stream", k1), Ask("get", k1)>>, <<Ask("put", k1)>>, <<>>) @@ [faults |-> [Calm EXCEPT !.drop = 1]]
      [] n = "rebuild" -> Progs(<<Ask("put", k1), Ask("delete", k1)>>, <<Large(k2)>>, <<>>) @@ [faults |-> [Calm EXCEPT !.scans = 1]]
      [] n = "power"   -> Progs(<<Durable("stream", k1)>>, <<Ask("delete", k1), Durable("put", k1)>>, <<>>) @@ [faults |-> [Calm EXCEPT !.crash = 1]]
      [] n = "faults"  -> Progs(<<Durable("stream", k1), Ask("stream", k1)>>, <<Ask("get", k2), Ask("get", k1)>>, <<>>)
                          @@ [faults |-> [Calm EXCEPT !.io = 1, !.die = 1]]
      [] OTHER         -> Progs(<<Ask("put", k1)>>, <<Ask("put", k2)>>, <<>>) @@ [faults |-> [Calm EXCEPT !.die = 1, !.scans = 2]]
UringMixes == {"retry", "puts", "mixed", "rebuild", "power", "faults", "dying"}
UringRest  == UringInit(Hash @@ Progs(<<>>, <<>>, <<>>) @@ [faults |-> Calm])
-----------------------------------------------------------------------------
(* Envelopes: every size around a few chunks in every split; an envelope of
   an older layout; an object replaced while it is read.                   *)

EJob(n, c, e, w) == [size |-> n, cs |-> c, epoch |-> e, max |-> 10, whole |-> w]
EMix(n) ==
    CASE n = "splits" -> {[jobs |-> <<EJob(s, c, 1, FALSE)>>, legacy |-> NoUpload] : s \in 0..11, c \in 1..4}
      [] n = "legacy" -> {[jobs |-> <<>>, legacy |-> EJob(s, c, 1, TRUE)] : s \in {0, 4, 9}, c \in {2, 3}}
      [] OTHER        -> {[jobs |-> <<EJob(s, 2, 1, TRUE), EJob(t, c, e, TRUE)>>, legacy |-> NoUpload] :
                            s \in {3, 9}, t \in {1, 4, 9, 10}, c \in {2, 4}, e \in {1, 2}}
EnvMixes == {"splits", "legacy", "replaced"}
EnvRest  == EnvInit([jobs |-> <<>>, legacy |-> NoUpload])
-----------------------------------------------------------------------------
PartSet == {"uring", "envelope"}

DataInit ==
    /\ part \in PartSet
    /\ IF part = "uring" THEN \E n \in UringMixes : UringInit(UMix(n)) ELSE UringRest
    /\ IF part = "envelope" THEN \E n \in EnvMixes : \E d \in EMix(n) : EnvInit(d) ELSE EnvRest

DataNext ==
    \/ part = "uring" /\ UringNext /\ UNCHANGED <<envVars, part>>
    \/ part = "envelope" /\ EnvNext /\ UNCHANGED <<uringVars, part>>

DataSpec == DataInit /\ [][DataNext]_dataVars /\ WF_dataVars(part = "uring" /\ Progress /\ UNCHANGED <<envVars, part>>)
=============================================================================
