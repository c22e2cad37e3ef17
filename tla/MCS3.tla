------------------------------- MODULE MCS3 -------------------------------
(* The S3 gateway in three parts, each checked by itself: the requests and
   their sessions, the bodies of uploads, and the listings (those of the
   native API and of FUSE, which share the index scan, included).          *)
EXTENDS MCS3Gateway, S3Body, Listing, TLC

CONSTANTS A, B    \* two bytes

VARIABLE part
s3Vars == <<vars, bodyVars, listVars, part>>

RestMix == Mix("rest", {}, {}, {}, None, 0, {}, 0)
GatewayMixes == PassingMixes \cup {RestMix}
-----------------------------------------------------------------------------
(* Bodies: empty, a byte, a CR LF split between frames, one inside a frame,
   two frames alike.                                                       *)

MCOctets == {CR, LF, A, B}
Bodies  == {<<>>, << <<A>> >>, << <<A, CR>>, <<LF>> >>, << <<CR, LF>>, <<A>> >>, << <<B>>, <<B>> >>}
BodyModes == {"exact", "unsigned", "signed", "signed-trailer", "unsigned-trailer"}

ReqOf(m, f, sum, header, trailer) ==
    [NoBody EXCEPT !.mode = m, !.header = header, !.trailer = trailer, !.sent = Joined(f), !.wire = Wire(m, f, sum)]
Asked == {ReqOf(m, f, tr # <<>>, h, tr) : m \in BodyModes, f \in Bodies, h \in {{}, {"sha256"}}, tr \in {<<>>, <<"other", "crc32">>}}
         \cup {ReqOf("signed-trailer", << <<A>> >>, TRUE, {"crc32"}, <<"sha1", "crc32">>),
               ReqOf("exact", << <<A>> >>, FALSE, {"crc32", "sha1"}, <<>>)}

\* What the way may do to the wire.
Without(w, i, j) == SubSeq(w, 1, i - 1) \o SubSeq(w, j + 1, Len(w))
Twice(w, i, j)   == SubSeq(w, 1, j) \o SubSeq(w, i, Len(w))
Changed(w, i, c) == [w EXCEPT ![i] = c]
Harmed(r) ==
    LET w == r.wire
        n == Len(w)
    IN {[r EXCEPT !.wire = SubSeq(w, 1, k), !.harm = "cut", !.lost = l] : k \in 0..(n - 1), l \in BOOLEAN}
       \cup {[r EXCEPT !.wire = Without(w, i, j), !.harm = "lost"] : i \in 1..n, j \in 1..n}
       \cup {[r EXCEPT !.wire = Twice(w, i, j), !.harm = "twice"] : i \in 1..n, j \in 1..n}
       \cup {[r EXCEPT !.wire = Changed(w, i, c), !.harm = "changed"] : i \in 1..n, c \in {B, CR, SizeLine(2, Absent)}}
HarmedReqs == {r \in Asked : Len(r.sent) = 2 /\ (r.mode = "unsigned-trailer" <=> r.trailer # <<>>) /\ (r.mode = "unsigned" <=> r.header # {})}
MCHarmed   == UNION {{x \in Harmed(r) : x.wire # r.wire} : r \in HarmedReqs}
-----------------------------------------------------------------------------
(* Listings.                                                               *)

A1 == <<3>>
B1 == <<3, 4>>
C1 == <<4>>
At(b, k) == [b |-> b, k |-> k]
Env == {<<"env", "prod">>}
Cond(op) == [op |-> op, name |-> "env", value |-> "prod"]
Query == [op |-> "or", l |-> [op |-> "and", l |-> Cond("eq"), r |-> Cond("eq")], r |-> [op |-> "not", l |-> Cond("ne")]]

\* a. a/ a/a a/b b b/a and two parts of an upload
Plain == {At(A1, k) : k \in {<<3, Dot>>, <<3, Slash>>, <<3, Slash, 3>>, <<3, Slash, 4>>, <<4>>, <<4, Slash, 3>>, <<Dot, 3>>, <<Dot, 4>>}}
\* a a/b a~dir a~dir/a . and a name that is empty
Names == {At(A1, k) : k \in {<<3>>, <<3, Slash, 4>>, <<3, Tilde>>, <<Dot>>, <<Slash, 3>>, <<3, Tilde, Slash, 3>>}}
Both  == {At(b, k) : b \in {A1, B1}, k \in {<<3>>, <<4>>}} \cup {At(C1, <<3>>)}
MCPlaces == Plain \cup Names \cup Both

Walk(kind, pre, delim, max) == [NoWalk EXCEPT !.kind = kind, !.prefix = pre, !.delim = delim, !.max = max, !.pc = "ask", !.query = Query]
Table(T, l(_)) == [o \in MCPlaces |-> IF o \in T THEN l(o) ELSE NoRow]
Bare(o) == {}
Some(o) == IF o.k = <<3>> THEN Env ELSE {}
Sets(S, n) == {T \in SUBSET S : Cardinality(T) \in n}
SetsWith(S, n, k) == {T \in Sets(S, {n}) : At(A1, k) \in T}
Starts(walks, tables) == {[walk |-> w, table |-> t] : w \in walks, t \in tables}

PlainWalks   == {Walk("find", p, FALSE, m) : p \in {<<>>, <<3, Slash>>}, m \in {1, 2}} \cup {Walk(k, <<>>, FALSE, 1) : k \in {"v1", "v2"}}
PlainStarts  == Starts(PlainWalks, {Table(T, Bare) : T \in SetsWith(Plain, 3, <<4>>)})
GroupStarts  == Starts({Walk("v2", p, TRUE, m) : p \in {<<>>, <<3, Slash>>}, m \in {1, 2}}, {Table(T, Bare) : T \in SetsWith(Plain, 4, <<3, Slash, 4>>)})
DirStarts    == Starts({Walk("readdir", <<>>, FALSE, m) : m \in {1, 3}}, {Table(T, Bare) : T \in Sets(Names, {3, 4})})
SearchStarts == Starts({Walk("search", <<>>, FALSE, m) : m \in {1, 2}}, {Table(T, Some) : T \in Sets(Both, {3, 4})} \cup {Table(T, LAMBDA o : Env) : T \in Sets(Both, {3, 4})})
ObjectsOf == CASE walk.kind = "readdir" -> Names [] walk.kind = "search" -> Both [] OTHER -> Plain
LabelsOf == IF walk.kind = "search" THEN {Env, {}} ELSE {{}}
MCReadable == {B1}
ListStarts == PlainStarts \cup GroupStarts \cup DirStarts \cup SearchStarts
-----------------------------------------------------------------------------
PartSet == {"gateway", "body", "list"}

S3Init ==
    /\ part \in PartSet
    /\ Init /\ (part = "gateway" <=> traffic # RestMix)
    /\ IF part = "body" THEN BodyInit(Asked \cup MCHarmed) ELSE BodyRest
    /\ IF part = "list" THEN ListInit(ListStarts) ELSE ListRest

S3Next ==
    \/ part = "gateway" /\ Next /\ UNCHANGED <<bodyVars, listVars, part>>
    \/ part = "body" /\ BodyNext /\ UNCHANGED <<vars, listVars, part>>
    \/ part = "list" /\ ListNext(ObjectsOf, LabelsOf) /\ UNCHANGED <<vars, bodyVars, part>>

S3Spec == S3Init /\ [][S3Next]_s3Vars
=============================================================================
