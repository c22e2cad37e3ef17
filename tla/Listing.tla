------------------------------ MODULE Listing ------------------------------
(***************************************************************************)
(* A listing that takes several requests while other clients put, delete   *)
(* and relabel objects: the index's scan and label search                  *)
(* (crates/y2q-core/src/storage/index.rs, query/mod.rs), the native        *)
(* handlers (crates/y2qd/src/handlers/list_objects.rs, search.rs), the S3  *)
(* listings with their common prefixes (crates/y2qd/src/s3/bucket.rs) and  *)
(* the loops of the clients that follow the cursor                         *)
(* (crates/y2q-cli/src/ops, crates/y2q-fuse/src/dir.rs).                   *)
(*                                                                         *)
(* A key is a short sequence of characters in their order: Nul, Dot,       *)
(* Slash, letters, Top (U+10FFFF).  A scan is one read transaction, hence  *)
(* one step; everything between two scans interleaves with the writer.     *)
(***************************************************************************)
EXTENDS Integers, Sequences, FiniteSets, SequencesExt

CONSTANTS
    Places,             \* the buckets and keys objects may have
    Readable,           \* the buckets the caller may read
    LIST_PAGE_SIZE, SEARCH_WINDOW, MaxChanges, NoCursor, NoRow

VARIABLES
    table,      \* the objects table: the labels of the object at each place, or NoRow
    changes,   \* how often the writer changed it
    walk,      \* the listing: what was asked, where it is
    got,       \* the entries the client was given, in order
    always,    \* the places that held one object all the time since the listing began
    ever       \* the objects that were there at some time since then

listVars == <<table, changes, walk, got, always, ever>>

Nul   == 0
Dot   == 1
Slash == 2
Tilde == 8
Top   == 9
-----------------------------------------------------------------------------
(* The index.                                                              *)

StartsWith(s, p) == Len(p) <= Len(s) /\ SubSeq(s, 1, Len(p)) = p

\* The order of keys: at the first character that differs, or the shorter one first.
Before(s, t) == \E n \in 0..Len(s) :
    /\ n < Len(t) /\ SubSeq(s, 1, n) = SubSeq(t, 1, n)
    /\ n = Len(s) \/ s[n + 1] < t[n + 1]
SortedBy(S, key(_)) == [i \in 1..Cardinality(S) |-> CHOOSE r \in S : Cardinality({q \in S : Before(key(q), key(r))}) = i - 1]

\* The cursor of a search: bucket, NUL, key.
cursor(r) == r.b \o <<Nul>> \o r.k
After(c, a) == a = NoCursor \/ Before(a, c)

Ordered == SortedBy(Places, cursor)

\* One page of what is wanted and whether more follows.
Page(wanted, limit) ==
    LET all == SelectSeq(Ordered, LAMBDA o : o \in wanted)
    IN [items |-> SubSeq(all, 1, IF Len(all) < limit THEN Len(all) ELSE limit), more |-> Len(all) > limit]

scan_objects(bucket, prefix, after, limit) ==
    Page({o \in Places : table[o] # NoRow /\ o.b = bucket /\ StartsWith(o.k, prefix) /\ After(o.k, after)}, limit)

\* LabelQuery::matches; a condition looks at every value of its name.
RECURSIVE matches(_, _)
matches(q, labels) ==
    CASE q.op = "and" -> matches(q.l, labels) /\ matches(q.r, labels)
      [] q.op = "or"  -> matches(q.l, labels) \/ matches(q.r, labels)
      [] q.op = "not" -> ~matches(q.l, labels)
      [] q.op = "ne"  -> <<q.name, q.value>> \notin labels
      [] q.op = "eq"  -> <<q.name, q.value>> \in labels

search_labels(query, prefix, after, limit) ==
    Page({o \in Places : /\ table[o] # NoRow /\ StartsWith(o.k, prefix) /\ After(cursor(o), after)
                         /\ matches(query, table[o])}, limit)
-----------------------------------------------------------------------------
(* The writer.                                                             *)

\* upsert and remove of the index.
Change(o, labels) ==
    /\ changes < MaxChanges /\ walk.pc # "done"
    /\ changes' = changes + 1
    /\ table' = [table EXCEPT ![o] = labels]
    /\ always' = always \ {o}
    /\ ever' = IF labels = NoRow THEN ever ELSE ever \cup {<<o, labels>>}
    /\ UNCHANGED <<walk, got>>
Insert(o, labels) == table[o] # labels /\ Change(o, labels)
Erase(o)         == table[o] # NoRow /\ Change(o, NoRow)
-----------------------------------------------------------------------------
(* The native listing, and the loops that follow its cursor.               *)

Entry(r, cp) == [b |-> r.b, k |-> r.k, cp |-> cp]
Entries(items) == [i \in 1..Len(items) |-> Entry(items[i], FALSE)]

\* A loop ends when a page names no cursor.
Follow(w, next) == [w EXCEPT !.after = next, !.pc = IF next = NoCursor THEN "done" ELSE "ask"]

list_objects ==
    /\ walk.pc = "ask" /\ walk.kind \in {"find", "glob", "readdir"}
    /\ \E p \in {scan_objects(walk.bucket, walk.prefix, walk.after, walk.max)} :
          /\ got' = got \o Entries(p.items)
          /\ walk' = Follow(walk, IF p.more THEN Last(p.items).k ELSE NoCursor)
    /\ UNCHANGED <<table, changes, always, ever>>

\* search.rs: a wide window is searched, what the caller cannot read is dropped, and the cursor is the last one visible.
NextVisible(raw, visible, lim) ==
    LET shown == SubSeq(visible, 1, IF Len(visible) < lim THEN Len(visible) ELSE lim)
    IN IF (Len(visible) > lim \/ raw.more) /\ shown # <<>> THEN cursor(Last(shown)) ELSE NoCursor

search ==
    /\ walk.pc = "ask" /\ walk.kind = "search"
    /\ \E raw \in {search_labels(walk.query, walk.prefix, walk.after, SEARCH_WINDOW)} :
       \E visible \in {SelectSeq(raw.items, LAMBDA o : o.b \in Readable)} :
          /\ got' = got \o Entries(SubSeq(visible, 1, IF Len(visible) < walk.max THEN Len(visible) ELSE walk.max))
          /\ walk' = Follow(walk, NextVisible(raw, visible, walk.max))
    /\ UNCHANGED <<table, changes, always, ever>>
-----------------------------------------------------------------------------
(* The S3 listings.                                                        *)

\* Keys of parts of multipart uploads are never listed.
is_reserved_key(k) == k # <<>> /\ Head(k) = Dot

\* The common prefix of a key, or the key itself.
HasSlash(s)   == \E i \in 1..Len(s) : s[i] = Slash
CutAtSlash(s) == IF HasSlash(s) THEN SubSeq(s, 1, CHOOSE i \in 1..Len(s) : s[i] = Slash /\ ~HasSlash(SubSeq(s, 1, i - 1))) ELSE s
RestOf(w, k)  == SubSeq(k, Len(w.prefix) + 1, Len(k))
Grouped(w, k) == w.delim /\ HasSlash(RestOf(w, k))
GroupOf(w, k) == w.prefix \o CutAtSlash(RestOf(w, k))

Count(w) == Len(w.results) + Cardinality(w.common)

\* Truncated at a new group: the cursor is what came before it, the marker the group itself.
\* (mutant) The cursor is the end of the group that was not given.
CutSkips(w, cp) == [w EXCEPT !.pc = "answer", !.cut = TRUE, !.marker = cp, !.after = cp \o <<Top>>]
CutGroup(w, cp) == [w EXCEPT !.pc = "answer", !.cut = TRUE, !.marker = cp]
\* Truncated at a key: the marker is the last key or group given.
CutKey(w)       == [w EXCEPT !.pc = "answer", !.cut = TRUE, !.marker = w.last]
TakeGroup(w, cp) == [w EXCEPT !.common = @ \cup {cp}, !.last = IF cp \in w.common THEN @ ELSE cp, !.after = cp \o <<Top>>]
TakeKey(w, k)   == [w EXCEPT !.results = Append(@, k), !.last = k, !.after = k]

Item(w, k) ==
    IF is_reserved_key(k) THEN [w EXCEPT !.after = k]
    ELSE IF Grouped(w, k)
    THEN IF GroupOf(w, k) \notin w.common /\ Count(w) >= w.max THEN CutGroup(w, GroupOf(w, k)) ELSE TakeGroup(w, GroupOf(w, k))
    ELSE IF Count(w) >= w.max THEN CutKey(w) ELSE TakeKey(w, k)

\* list_page goes through the items of one scan, up to the one that does not fit.
RECURSIVE Through(_, _)
Through(w, items) ==
    IF items = <<>> \/ w.cut THEN w ELSE CHOOSE r \in {Through(n, Tail(items)) : n \in {Item(w, Head(items).k)}} : TRUE

list_page ==
    /\ walk.pc = "ask" /\ walk.kind \in {"v1", "v2"}
    /\ \E p \in {scan_objects(walk.bucket, walk.prefix, walk.after, LIST_PAGE_SIZE)} :
       \E w \in {Through(walk, p.items)} : walk' = [w EXCEPT !.pc = IF w.cut \/ ~p.more THEN "answer" ELSE "ask"]
    /\ UNCHANGED <<table, changes, got, always, ever>>

\* The answer; the client comes back with the token (V2) or the marker (V1) if there is one.
AsEntries(w, keys, cp) == [i \in 1..Len(keys) |-> [b |-> w.bucket, k |-> keys[i], cp |-> cp]]

Answer ==
    /\ walk.pc = "answer"
    /\ got' = got \o AsEntries(walk, walk.results, FALSE) \o AsEntries(walk, SortedBy(walk.common, LAMBDA k : k), TRUE)
    /\ walk' = [walk EXCEPT !.pc = IF walk.cut THEN "ask" ELSE "done", !.after = IF walk.kind = "v1" THEN walk.marker ELSE @,
                            !.cut = FALSE, !.results = <<>>, !.common = {}, !.marker = NoCursor, !.last = NoCursor]
    /\ UNCHANGED <<table, changes, always, ever>>
-----------------------------------------------------------------------------
(* What the mounted file system makes of a finished listing.               *)

\* The first component of what follows the prefix; unsafe ones ("." and "..", empty) are skipped.
Name(e)  == LET c == CutAtSlash(RestOf(walk, e.k)) IN IF c # <<>> /\ Last(c) = Slash THEN SubSeq(c, 1, Len(c) - 1) ELSE c
is_safe_child_name(n) == n \notin {<<>>, <<Dot>>, <<Dot, Dot>>}
Files    == {Name(e) : e \in {got[i] : i \in {j \in 1..Len(got) : ~HasSlash(RestOf(walk, got[j].k))}}}
Dirs     == {Name(e) : e \in {got[i] : i \in {j \in 1..Len(got) : HasSlash(RestOf(walk, got[j].k))}}}
Escaped(n) == n \o <<Tilde>>     \* {name}~dir
list_children ==
    LET files == {n \in Files : is_safe_child_name(n)}
        dirs  == {n \in Dirs : is_safe_child_name(n)}
    IN {[n |-> n, dir |-> FALSE, of |-> n] : n \in files}
       \cup {[n |-> n, dir |-> TRUE, of |-> n] : n \in dirs \ files}
       \cup {[n |-> Escaped(n), dir |-> TRUE, of |-> n] : n \in {m \in dirs \cap files : Escaped(m) \notin files}}
-----------------------------------------------------------------------------
WalkStep == list_objects \/ search \/ list_page \/ Answer
ListNext(objects, labels) == WalkStep \/ \E o \in objects : Erase(o) \/ \E l \in labels : Insert(o, l)

NoWalk == [kind |-> "find", bucket |-> <<3>>, prefix |-> <<>>, delim |-> FALSE, max |-> 1, query |-> [op |-> "none"], after |-> NoCursor,
           pc |-> "done", results |-> <<>>, common |-> {}, cut |-> FALSE, marker |-> NoCursor, last |-> NoCursor]
ListInit(starts) ==
    /\ \E s \in starts : walk = s.walk /\ table = s.table
    /\ always = {o \in Places : table[o] # NoRow} /\ ever = {<<o, table[o]>> : o \in always}
    /\ changes = 0 /\ got = <<>>
ListRest == /\ walk = NoWalk /\ table = <<>>
            /\ always = {} /\ ever = {} /\ changes = 0 /\ got = <<>>
-----------------------------------------------------------------------------
(* What must hold.                                                         *)

\* Whether the listing is about this object, and the entry that stands for it.
About(o, labels) ==
    /\ StartsWith(o.k, walk.prefix)
    /\ IF walk.kind = "search" THEN o.b \in Readable /\ matches(walk.query, labels) ELSE o.b = walk.bucket
    /\ walk.kind \in {"v1", "v2"} => Head(o.k) # Dot
Shown(o) == IF walk.kind \in {"v1", "v2"} /\ Grouped(walk, o.k) THEN [b |-> o.b, k |-> GroupOf(walk, o.k), cp |-> TRUE] ELSE Entry(o, FALSE)
Given    == {got[i] : i \in 1..Len(got)}

\* An object that is there from the first request to the last is listed, itself or by its common prefix, however the
\* listing is cut into pages and whatever is put and deleted around it meanwhile.
LastingIsListed == walk.pc = "done" => \A o \in always : About(o, table[o]) => Shown(o) \in Given

\* Nothing is listed twice: no key, no common prefix, across all the pages.
ListedOnce == Cardinality(Given) = Len(got)

\* Nothing is listed that was not there at some time during the listing, that the caller cannot read, that the
\* query rejects, or that is a part of an upload.
NothingInvented == Given \subseteq {Shown(q[1]) : q \in {p \in ever : About(p[1], p[2])}}

\* The cursor of a search names an object the caller can see: it never tells of a hidden bucket.
CursorIsVisible == walk.kind = "search" /\ walk.after # NoCursor => \E q \in ever : q[1].b \in Readable /\ cursor(q[1]) = walk.after

\* Every lasting object can be reached through a mounted directory: by one entry, whose name no other entry has, even when
\* a file and a directory share a name.  Not so when the name made for the directory is the name of another child.
ChildrenReachable ==
    walk.kind = "readdir" /\ walk.pc = "done" =>
        \A o \in always :
            LET n == Name(o) IN
            About(o, table[o]) /\ is_safe_child_name(n) /\ {n \o <<Tilde>>, n} \cap {x \o <<Tilde>> : x \in Files \cap Dirs} \cap (Files \cup Dirs) = {} =>
                \E x \in list_children : x.of = n /\ x.dir = HasSlash(RestOf(walk, o.k)) /\ \A y \in list_children : y.n = x.n => y = x

\* What following a listing to its end shows: everything that lasts, once, and nothing else.
ListingExact == LastingIsListed /\ ListedOnce /\ NothingInvented /\ CursorIsVisible /\ ChildrenReachable
=============================================================================
