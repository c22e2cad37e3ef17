-------------------------- MODULE S3GatewayProofs ---------------------------
(***************************************************************************)
(* Proofs about S3Gateway: the quota, the leash on transfers and the limit *)
(* on credentials hold for any number of requests, keys and sessions.      *)
(*                                                                         *)
(* QuotaKept by itself is not inductive: a commit adds what has arrived to *)
(* what is stored.  It rests on the writer holding the permit since usage  *)
(* was read (Permitted), so that meanwhile the other keys can only shrink. *)
(* LeashBounds rests on Relies: what has passed since the session was last *)
(* looked at bounds what has passed since it ended.  CredsBounded rests on *)
(* Trimmed: the credentials nobody is about to remove are within the limit *)
(* unless somebody has still to list them.                                 *)
(***************************************************************************)
EXTENDS S3Gateway, FiniteSetTheorems, WellFoundedInduction, TLAPS

Writers == {"put", "part", "complete"}

\* The request holds a budget and has not committed yet.
Writing(q) == q.op \in Writers /\ q.pc \in {"stream", "assemble", "commit"}

Fields == {"pc", "op", "then", "tok", "row", "key", "size", "said", "cap", "since", "late", "moved",
           "body", "list", "set", "left"}

\* What the pc of a request says of the rest it has in hand.
Relies(q) ==
    /\ DOMAIN q = Fields
    /\ q.pc \in {"budget", "assemble", "commit"} => q.op \in Writers
    /\ q.pc \in {"budget", "stream", "assemble", "commit"} =>
        /\ q.moved \in Nat /\ q.since \in Nat /\ q.late \in Nat /\ q.cap \in Nat
        /\ q.op \in Writers => q.key \in Keys
    /\ q.pc = "budget" => q.moved = 0 /\ q.since = 0 /\ q.late = 0 /\ q.then \in {"stream", "assemble"}
    /\ q.pc = "assemble" \/ (q.pc = "budget" /\ q.then = "assemble") =>
        /\ q.set # {} /\ q.set \subseteq Uploads
        /\ q.list \in Seq(Parts \X Nat)
    /\ q.pc = "stream" => q.op \in Writers \cup {"get"} /\ q.late <= q.since /\ q.since < Recheck
    /\ Writing(q) => q.moved <= q.cap

TypeInv ==
    /\ traffic \in Mixes
    /\ DOMAIN req = Reqs
    /\ DOMAIN store = Keys /\ DOMAIN creds = Creds
    /\ \A k \in Keys : store[k] # None => "size" \in DOMAIN store[k] /\ store[k].size \in Nat
    /\ \A r \in Reqs : Relies(req[r])

\* A writer under a quota holds the permit, and the rest of the bucket leaves room for its cap.
Permitted == traffic.quota # None =>
    \A r \in Reqs : Writing(req[r]) => lock = r /\ Effective(req[r].key) + req[r].cap <= traffic.quota

\* The credentials of t, and those a mint is about to remove.
Of(t) == {c \in Creds : creds[c] = t}
Doomed == UNION {req[r].set : r \in {p \in Reqs : req[p].pc = "trim"}}
Trimmed == NoRefresh =>
    /\ \A r \in Reqs : req[r].pc \notin {"relist", "recreds", "reuploads"}
    /\ \A t \in Tokens : (\A r \in Reqs : ~(req[r].pc = "list" /\ req[r].tok = t)) =>
        Cardinality(Of(t) \ Doomed) <= MaxPerSession

GatewayInv == TypeInv /\ Permitted /\ QuotaKept /\ Trimmed
-----------------------------------------------------------------------------
(* Counting bytes.                                                         *)

LEMMA KeysFinite == IsFiniteSet(Keys) /\ Obj \in Keys
<1>1. IsFiniteSet(Uploads)
  BY SizeAssumption, FS_Interval DEF Uploads
<1>2. IsFiniteSet(Uploads \X Parts)
  BY <1>1, SizeAssumption, FS_Product
<1>3. IsFiniteSet({Obj})
  BY FS_Singleton, Zenon
<1> QED BY <1>2, <1>3, FS_Union, Zenon DEF Keys

\* The bytes of one object are as many as its size.
LEMMA BytesOfOne ==
    ASSUME NEW k, NEW n \in Nat
    PROVE  IsFiniteSet({k} \X (1..n)) /\ Cardinality({k} \X (1..n)) = n
<1>1. IsFiniteSet(1..n) /\ Cardinality(1..n) = n
  BY FS_Interval
<1>2. IsFiniteSet({k}) /\ Cardinality({k}) = 1
  BY FS_Singleton
<1>3. IsFiniteSet({k} \X (1..n)) /\ Cardinality({k} \X (1..n)) = Cardinality({k}) * Cardinality(1..n)
  BY <1>1, <1>2, FS_Product
<1> QED BY <1>1, <1>2, <1>3

LEMMA BytesFinite ==
    ASSUME NEW f \in [Keys -> Nat]
    PROVE  IsFiniteSet(Bytes(f)) /\ Cardinality(Bytes(f)) \in Nat
<1> DEFINE T == {{k} \X (1..f[k]) : k \in Keys}
<1> DEFINE g == [k \in Keys |-> {k} \X (1..f[k])]
<1>1. g \in Surjection(Keys, T)
  BY Zenon DEF Surjection
<1>2. IsFiniteSet(T)
  BY <1>1, KeysFinite, FS_Surjection
<1>3. ASSUME NEW x \in T PROVE IsFiniteSet(x)
  <2>1. PICK k \in Keys : x = {k} \X (1..f[k])
    OBVIOUS
  <2> QED BY <2>1, BytesOfOne, Zenon
<1>4. IsFiniteSet(UNION T)
  BY <1>2, <1>3, FS_UNION, Zenon
<1> QED BY <1>4, FS_CardinalityType DEF Bytes

\* Replacing one object changes the total by the difference of the two sizes.
LEMMA ReplaceOne ==
    ASSUME NEW f \in [Keys -> Nat], NEW k \in Keys, NEW n \in Nat
    PROVE  /\ Cardinality(Bytes(f)) >= f[k]
           /\ Cardinality(Bytes([f EXCEPT ![k] = n])) = Cardinality(Bytes(f)) - f[k] + n
<1> DEFINE rest == UNION {{j} \X (1..f[j]) : j \in Keys \ {k}}
           g == [f EXCEPT ![k] = n]
<1>0. g \in [Keys -> Nat] /\ g[k] = n /\ \A j \in Keys \ {k} : g[j] = f[j]
  OBVIOUS
<1>1. Bytes(f) = rest \cup ({k} \X (1..f[k])) /\ rest \cap ({k} \X (1..f[k])) = {}
  BY DEF Bytes
<1>2. Bytes(g) = rest \cup ({k} \X (1..n)) /\ rest \cap ({k} \X (1..n)) = {}
  BY <1>0 DEF Bytes
<1>3. IsFiniteSet(rest) /\ Cardinality(rest) \in Nat
  <2>1. rest \in SUBSET Bytes(f)
    BY <1>1
  <2> QED BY <2>1, BytesFinite, FS_Subset, FS_CardinalityType
<1> HIDE DEF rest, g
<1>4. Cardinality({}) = 0
  BY FS_EmptySet
<1>7. ASSUME NEW m \in Nat, NEW B, B = rest \cup ({k} \X (1..m)), rest \cap ({k} \X (1..m)) = {}
      PROVE  Cardinality(B) = Cardinality(rest) + m
  <2> DEFINE one == {k} \X (1..m)
  <2>1. IsFiniteSet(one) /\ Cardinality(one) = m
    BY BytesOfOne, Zenon
  <2>2. B = rest \cup one /\ rest \cap one = {}
    BY <1>7
  <2> HIDE DEF one
  <2>3. Cardinality(rest \cup one) = Cardinality(rest) + Cardinality(one) - Cardinality(rest \cap one)
    BY <1>3, <2>1, FS_Union
  <2>4. Cardinality(rest \cap one) = 0
    BY <1>4, <2>2
  <2>5. Cardinality(B) = Cardinality(rest \cup one)
    BY <2>2
  <2> QED BY ONLY <1>3, <2>1, <2>3, <2>4, <2>5
<1>5. Cardinality(Bytes(f)) = Cardinality(rest) + f[k]
  BY <1>1, <1>7
<1>6. Cardinality(Bytes(g)) = Cardinality(rest) + n
  BY <1>2, <1>7
<1> QED BY <1>3, <1>5, <1>6 DEF g

LEMMA MinOfTwo ==
    ASSUME NEW a \in Nat, NEW b \in Nat
    PROVE  Min({a, b}) \in Nat /\ Min({a, b}) <= a /\ Min({a, b}) <= b
<1>1. \E x \in {a, b} : \A y \in {a, b} : x =< y
  OBVIOUS
<1> QED BY <1>1 DEF Min

-----------------------------------------------------------------------------
(* The newest n of a finite set of numbers are at most n.                  *)

LEMMA LeastMember ==
    ASSUME NEW S \in SUBSET Nat, S # {}
    PROVE  \E m \in S : \A n \in S : m <= n
<1> DEFINE R == OpToRel(<, Nat)
<1>1. IsWellFoundedOn(R, Nat)
  BY NatLessThanWellFounded, Zenon
<1>2. \A x, y \in Nat : x < y => <<x, y>> \in R
  BY DEF OpToRel
<1> HIDE DEF R
<1>3. \E x \in S : \A y \in S : ~(<<y, x>> \in R)
  BY <1>1, WFMin, Zenon
<1>4. PICK x \in S : \A y \in S : ~(<<y, x>> \in R)
  BY <1>3
<1>5. \A y \in S : ~(y < x)
  BY <1>2, <1>4, Zenon
<1> QED BY <1>5

LEMMA CredsFinite == Creds \subseteq Nat /\ IsFiniteSet(Creds) /\ \A S \in SUBSET Creds : IsFiniteSet(S)
<1>1. MaxCreds \in Nat /\ 1 \in Int /\ MaxCreds \in Int
  BY SizeAssumption
<1>2. Creds \subseteq Nat /\ IsFiniteSet(Creds)
  BY <1>1, FS_Interval DEF Creds
<1> QED BY <1>2, FS_Subset, Zenon

LEMMA NewestAreFew ==
    ASSUME NEW S \in SUBSET Creds, NEW n \in Nat \ {0}
    PROVE  Cardinality({c \in S : ~(Cardinality({d \in S : d > c}) >= n)}) <= n
<1> DEFINE T == {c \in S : ~(Cardinality({d \in S : d > c}) >= n)}
<1>1. Creds \subseteq Nat /\ IsFiniteSet(Creds)
  BY CredsFinite
<1>2. IsFiniteSet(S) /\ IsFiniteSet(T) /\ T \subseteq Nat
  <2>1. IsFiniteSet(S)
    BY <1>1, FS_Subset, Zenon
  <2>2. T \in SUBSET S
    OBVIOUS
  <2> QED BY <1>1, <2>1, <2>2, FS_Subset, Zenon
<1>3. CASE T = {}
  <2>1. Cardinality(T) = 0
    BY <1>3, FS_EmptySet, Zenon
  <2> HIDE DEF T
  <2>2. Cardinality(T) <= n
    BY <2>1
  <2> QED BY <2>2 DEF T
<1>4. CASE T # {}
  <2>1. PICK m \in T : \A c \in T : m <= c
    BY <1>2, <1>4, LeastMember, Zenon
  <2> DEFINE newer == {d \in S : d > m}
  <2>2. T \ {m} \in SUBSET newer
    BY <1>2, <2>1
  <2>3. IsFiniteSet(newer)
    <3>1. newer \in SUBSET S
      OBVIOUS
    <3> QED BY <1>2, <3>1, FS_Subset
  <2>4. Cardinality(newer) < n /\ Cardinality(newer) \in Nat
    BY <2>1, <2>3, FS_CardinalityType
  <2> HIDE DEF newer
  <2>5. Cardinality(T \ {m}) <= Cardinality(newer)
    BY <2>2, <2>3, FS_Subset, Zenon
  <2>6. Cardinality(T \ {m}) = Cardinality(T) - 1 /\ Cardinality(T) \in Nat
    BY <1>2, <2>1, FS_RemoveElement, FS_CardinalityType, Zenon
  <2> QED BY <2>4, <2>5, <2>6
<1> QED BY <1>3, <1>4

-----------------------------------------------------------------------------
(* What every kind of step has in common.                                  *)

LEMMA SizesTyped ==
    ASSUME TypeInv
    PROVE  /\ SizeOf \in [Keys -> Nat]
           /\ Usage \in Nat
           /\ \A k \in Keys : Effective(k) \in Nat /\ Effective(k) <= Usage
<1>1. SizeOf \in [Keys -> Nat]
  BY DEF TypeInv, SizeOf
<1>2. Usage \in Nat
  BY <1>1, BytesFinite DEF Usage
<1>3. ASSUME NEW k \in Keys PROVE Effective(k) \in Nat /\ Effective(k) <= Usage
  <2>1. Usage >= SizeOf[k] /\ SizeOf[k] \in Nat
    BY <1>1, ReplaceOne DEF Usage
  <2> QED BY <1>2, <2>1 DEF Effective
<1> QED BY <1>1, <1>2, <1>3

LEMMA PrimedSizes ==
    ASSUME TypeInv'
    PROVE  /\ SizeOf' \in [Keys -> Nat]
           /\ Usage' \in Nat
           /\ \A k \in Keys : Effective(k)' \in Nat /\ Effective(k)' <= Usage'
<1>1. SizeOf' \in [Keys -> Nat]
  BY DEF TypeInv, SizeOf
<1> DEFINE f == SizeOf'
<1>2. Usage' = Cardinality(Bytes(f)) /\ \A k \in Keys : Effective(k)' = Usage' - f[k]
  BY DEF Usage, Effective, Bytes
<1> HIDE DEF f
<1>3. f \in [Keys -> Nat] /\ Usage' \in Nat
  BY <1>1, <1>2, BytesFinite DEF f
<1>4. ASSUME NEW k \in Keys PROVE Effective(k)' \in Nat /\ Effective(k)' <= Usage'
  <2>1. Usage' >= f[k] /\ f[k] \in Nat
    BY <1>2, <1>3, ReplaceOne
  <2> QED BY <1>2, <1>3, <2>1
<1> QED BY <1>1, <1>3, <1>4

LEMMA Stepped ==
    ASSUME TypeInv, NEW r \in Reqs, NEW q, Step(r, q)
    PROVE  req'[r] = q /\ (\A p \in Reqs \ {r} : req'[p] = req[p]) /\ DOMAIN req' = Reqs
BY DEF TypeInv, Step

LEMMA Elsewhere ==
    ASSUME NEW q, DOMAIN q = Fields, q.pc \notin {"budget", "stream", "assemble", "commit"}
    PROVE  Relies(q) /\ ~Writing(q)
BY DEF Relies, Writing

LEMMA Streams ==
    ASSUME NEW q, DOMAIN q = Fields, q.pc = "stream", q.op \in Writers \cup {"get"},
           q.moved \in Nat, q.since \in Nat, q.late \in Nat, q.cap \in Nat,
           q.op \in Writers => q.key \in Keys /\ q.moved <= q.cap,
           q.late <= q.since, q.since < Recheck
    PROVE  Relies(q)
BY DEF Relies, Writing

LEMMA Assembles ==
    ASSUME NEW q, DOMAIN q = Fields, q.pc \in {"assemble", "commit"}, q.op \in Writers, q.key \in Keys,
           q.moved \in Nat, q.since \in Nat, q.late \in Nat, q.cap \in Nat, q.moved <= q.cap,
           q.pc = "assemble" => q.set # {} /\ q.set \subseteq Uploads /\ q.list \in Seq(Parts \X Nat)
    PROVE  Relies(q) /\ Writing(q)
BY DEF Relies, Writing

\* A request that verify lets in and that is to write.
LEMMA WriterBegins ==
    ASSUME NEW q, DOMAIN q = Fields, q.pc = "budget", q.op \in Writers, q.key \in Keys, q.cap \in Nat,
           q.moved = 0, q.since = 0, q.late = 0, q.then \in {"stream", "assemble"},
           q.then = "assemble" => q.set # {} /\ q.set \subseteq Uploads /\ q.list \in Seq(Parts \X Nat)
    PROVE  Relies(q) /\ ~Writing(q)
BY DEF Relies, Writing

LEMMA Idle == Relies(NoReq) /\ ~Writing(NoReq) /\ NoReq.pc = "idle"
<1>1. DOMAIN NoReq = Fields /\ NoReq.pc = "idle"
  BY DEF NoReq, Fields
<1> QED BY <1>1, Elsewhere

LEMMA TypeStep ==
    ASSUME TypeInv, NEW r \in Reqs, NEW q, Step(r, q), Relies(q), UNCHANGED <<store, traffic>>, DOMAIN creds' = Creds
    PROVE  TypeInv'
<1>1. \A p \in Reqs : Relies(req'[p])
  BY Stepped DEF TypeInv
<1>2. DOMAIN req' = Reqs
  BY Stepped, Zenon
<1>3. (\A p \in Reqs : Relies(req[p]))'
  BY <1>1 DEF Relies, Writing
<1> QED BY <1>2, <1>3 DEF TypeInv

\* A step that leaves the objects alone keeps the permit with its holder.
LEMMA PermitStep ==
    ASSUME TypeInv, Permitted, QuotaKept, NEW r \in Reqs, NEW q, Step(r, q), UNCHANGED <<store, traffic>>,
           lock' = lock \/ (Unlock(r) /\ ~Writing(q)),
           Writing(q) => Writing(req[r]) /\ q.key = req[r].key /\ q.cap = req[r].cap
    PROVE  Permitted' /\ QuotaKept'
<1>1. SizeOf' = SizeOf /\ Usage' = Usage /\ \A k : Effective(k)' = Effective(k)
  BY DEF SizeOf, Usage, Effective, Bytes
<1>2. QuotaKept'
  BY <1>1 DEF QuotaKept
<1>3. ASSUME traffic'.quota # None, NEW p \in Reqs, Writing(req'[p])
      PROVE  lock' = p /\ Effective(req'[p].key) + req'[p].cap <= traffic'.quota
  <2>1. Writing(req[p]) /\ req'[p].key = req[p].key /\ req'[p].cap = req[p].cap
    BY <1>3, Stepped
  <2>2. lock = p /\ Effective(req[p].key) + req[p].cap <= traffic.quota
    BY <1>3, <2>1 DEF Permitted
  <2>3. lock' = p
    BY <1>3, <2>2, Stepped DEF Unlock
  <2> QED BY <1>1, <2>1, <2>2, <2>3
<1>4. Permitted'
  BY <1>1, <1>3 DEF Permitted, Writing
<1> QED BY <1>2, <1>4

LEMMA FewerCreds ==
    ASSUME NEW S \in SUBSET Creds, NEW T \in SUBSET S, Cardinality(S) <= MaxPerSession
    PROVE  Cardinality(T) <= MaxPerSession
<1>1. IsFiniteSet(S)
  BY CredsFinite
<1>2. IsFiniteSet(T) /\ Cardinality(T) <= Cardinality(S)
  BY <1>1, FS_Subset
<1>3. Cardinality(S) \in Nat /\ Cardinality(T) \in Nat
  BY <1>1, <1>2, FS_CardinalityType
<1> QED BY <1>2, <1>3, SizeAssumption

\* Credentials only get fewer, and nobody starts or ends a trim.
LEMMA TrimStep ==
    ASSUME TypeInv, Trimmed, traffic' = traffic, DOMAIN req' = Reqs,
           NoRefresh => \A c \in Creds : creds'[c] = creds[c] \/ creds'[c] = None,
           NoRefresh => \A p \in Reqs :
               \/ req'[p] = req[p]
               \/ req[p].pc \notin {"list", "trim"} /\ req'[p].pc \notin {"list", "trim", "relist", "recreds", "reuploads"}
    PROVE  Trimmed'
<1> SUFFICES ASSUME NoRefresh
             PROVE  /\ \A p \in Reqs : req'[p].pc \notin {"relist", "recreds", "reuploads"}
                    /\ \A t \in Tokens : (\A p \in Reqs : ~(req'[p].pc = "list" /\ req'[p].tok = t)) =>
                           Cardinality((Of(t) \ Doomed)') <= MaxPerSession
  BY DEF Trimmed, NoRefresh, Of, Doomed
<1>1. \A p \in Reqs : req'[p].pc \notin {"relist", "recreds", "reuploads"}
  BY DEF Trimmed
<1>2. ASSUME NEW t \in Tokens, \A p \in Reqs : ~(req'[p].pc = "list" /\ req'[p].tok = t)
      PROVE  Cardinality((Of(t) \ Doomed)') <= MaxPerSession
  <2>1. \A p \in Reqs : ~(req[p].pc = "list" /\ req[p].tok = t)
    BY <1>2
  <2>2. Cardinality(Of(t) \ Doomed) <= MaxPerSession
    BY <1>2, <2>1 DEF Trimmed
  <2>3. Doomed' = Doomed
    BY DEF Doomed
  <2>4. Of(t)' \subseteq Of(t)
    BY SizeAssumption, NoneAssumption DEF Of, Tokens
  <2>5. (Of(t) \ Doomed)' \in SUBSET (Of(t) \ Doomed)
    BY <2>3, <2>4
  <2>6. Of(t) \ Doomed \in SUBSET Creds
    BY DEF Of
  <2> QED BY <2>2, <2>5, <2>6, FewerCreds
<1> QED BY <1>1, <1>2

\* A step of request r that writes no object and neither lists nor trims credentials.
LEMMA PlainStep ==
    ASSUME GatewayInv, NEW r \in Reqs, NEW q, Step(r, q), Relies(q), UNCHANGED <<store, traffic>>,
           lock' = lock \/ (Unlock(r) /\ ~Writing(q)),
           Writing(q) => Writing(req[r]) /\ q.key = req[r].key /\ q.cap = req[r].cap,
           DOMAIN creds' = Creds,
           NoRefresh => \A c \in Creds : creds'[c] = creds[c] \/ creds'[c] = None,
           req[r].pc \notin {"list", "trim"}, q.pc \notin {"list", "trim"},
           NoRefresh => q.pc \notin {"relist", "recreds", "reuploads"}
    PROVE  GatewayInv'
<1>1. TypeInv'
  BY TypeStep DEF GatewayInv
<1>2. Permitted' /\ QuotaKept'
  BY PermitStep DEF GatewayInv
<1>3. Trimmed'
  BY Stepped, TrimStep, Zenon DEF GatewayInv
<1> QED BY <1>1, <1>2, <1>3, Zenon DEF GatewayInv

\* The same for one that ends, or goes where no budget is needed.
LEMMA AsideStep ==
    ASSUME GatewayInv, NEW r \in Reqs, NEW q, Step(r, q), DOMAIN q = Fields,
           q.pc \notin {"budget", "stream", "assemble", "commit", "list", "trim", "relist", "recreds", "reuploads"},
           req[r].pc \notin {"list", "trim"},
           UNCHANGED <<store, traffic, creds>>, lock' = lock \/ Unlock(r)
    PROVE  GatewayInv'
<1>1. Relies(q) /\ ~Writing(q)
  BY Elsewhere
<1>2. DOMAIN creds = Creds
  BY DEF GatewayInv, TypeInv
<1> QED BY <1>1, <1>2, PlainStep

\* Nobody moves, and credentials only get fewer.
LEMMA BystanderStep ==
    ASSUME GatewayInv, UNCHANGED <<store, traffic, req, lock>>, DOMAIN creds' = Creds,
           \A c \in Creds : creds'[c] = creds[c] \/ creds'[c] = None
    PROVE  GatewayInv'
<1>1. TypeInv'
  BY SMTT(20), Zenon DEF GatewayInv, TypeInv, Relies, Writing
<1>2. Permitted' /\ QuotaKept'
  BY DEF GatewayInv, Permitted, QuotaKept, Writing, Effective, Usage, SizeOf, Bytes
<1>3. Trimmed'
  <2>1. DOMAIN req' = Reqs
    BY DEF GatewayInv, TypeInv
  <2> QED BY <2>1, TrimStep DEF GatewayInv
<1> QED BY <1>1, <1>2, <1>3, Zenon DEF GatewayInv

-----------------------------------------------------------------------------
(* Sessions and credentials.                                               *)

LEMMA RefreshKeepsInv ==
    ASSUME GatewayInv, traffic' = traffic, NEW r \in Reqs,
           (\E t \in Tokens : RefreshReissue(r, t)) \/ RekeyList(r) \/ RekeyCreds(r) \/ RekeyUploads(r)
    PROVE  GatewayInv'
<1>0. DOMAIN req[r] = Fields /\ DOMAIN creds = Creds
  BY Zenon DEF GatewayInv, TypeInv, Relies
<1>1. ASSUME NEW t \in Tokens, RefreshReissue(r, t) PROVE GatewayInv'
  <2> DEFINE q == [NoReq EXCEPT !.pc = "relist", !.tok = t, !.key = made.tokens + 1]
  <2>1. DOMAIN q = Fields /\ q.pc = "relist"
    BY DEF NoReq, Fields
  <2>2. Step(r, q) /\ UNCHANGED <<store, traffic, lock, creds>> /\ req[r].pc = "idle" /\ ~NoRefresh
    BY <1>1, Zenon DEF RefreshReissue, Begin, NoRefresh
  <2> HIDE DEF q
  <2>3. Relies(q) /\ ~Writing(q)
    BY <2>1, Elsewhere
  <2> QED BY <1>0, <2>1, <2>2, <2>3, PlainStep
<1>2. CASE RekeyList(r)
  <2> DEFINE q == [req[r] EXCEPT !.pc = "recreds", !.set = {c \in Creds : creds[c] = req[r].tok}]
  <2>1. DOMAIN q = Fields /\ q.pc = "recreds"
    BY <1>0 DEF Fields
  <2>2. Step(r, q) /\ UNCHANGED <<store, traffic, lock, creds>> /\ req[r].pc = "relist"
    BY <1>2 DEF RekeyList
  <2> HIDE DEF q
  <2>3. Relies(q) /\ ~Writing(q)
    BY <2>1, Elsewhere
  <2>4. ~NoRefresh
    BY <2>2 DEF GatewayInv, Trimmed
  <2> QED BY <1>0, <2>1, <2>2, <2>3, <2>4, PlainStep
<1>3. CASE RekeyCreds(r)
  <2> DEFINE q == [req[r] EXCEPT !.pc = "reuploads", !.set = {u \in Uploads : uploads[u] = req[r].tok}]
  <2>1. DOMAIN q = Fields /\ q.pc = "reuploads"
    BY <1>0 DEF Fields
  <2>2. Step(r, q) /\ UNCHANGED <<store, traffic, lock>> /\ req[r].pc = "recreds" /\ DOMAIN creds' = Creds
    BY <1>3 DEF RekeyCreds
  <2> HIDE DEF q
  <2>3. Relies(q) /\ ~Writing(q)
    BY <2>1, Elsewhere
  <2>4. ~NoRefresh
    BY <2>2 DEF GatewayInv, Trimmed
  <2> QED BY <2>1, <2>2, <2>3, <2>4, PlainStep
<1>4. CASE RekeyUploads(r)
  <2>1. Step(r, NoReq) /\ UNCHANGED <<store, traffic, lock, creds>> /\ req[r].pc = "reuploads"
    BY <1>4 DEF RekeyUploads, Return
  <2> QED BY <1>0, <2>1, Idle, PlainStep, Zenon
<1> QED BY <1>1, <1>2, <1>3, <1>4, Zenon

LEMMA MintKeepsInv ==
    ASSUME GatewayInv, traffic' = traffic, NEW r \in Reqs, MintInsert(r) \/ MintList(r) \/ MintTrim(r)
    PROVE  GatewayInv'
<1>0. DOMAIN req[r] = Fields /\ DOMAIN creds = Creds /\ TypeInv /\ Permitted /\ QuotaKept /\ Trimmed
  BY DEF GatewayInv, TypeInv, Relies
<1>1. CASE MintInsert(r)
  <2> DEFINE q == [req[r] EXCEPT !.pc = "list"]
  <2>1. DOMAIN q = Fields /\ q.pc = "list" /\ q.tok = req[r].tok
    BY <1>0 DEF Fields
  <2>2. Step(r, q) /\ UNCHANGED <<store, traffic, lock>> /\ req[r].pc = "mint" /\ DOMAIN creds' = Creds
    BY <1>0, <1>1 DEF MintInsert, Goto
  <2>3. \A c \in Creds : creds'[c] = creds[c] \/ creds'[c] = q.tok
    BY <1>0, <1>1, <2>1, Zenon DEF MintInsert
  <2> HIDE DEF q
  <2>4. Relies(q) /\ ~Writing(q)
    BY <2>1, Elsewhere
  <2>5. TypeInv' /\ Permitted' /\ QuotaKept'
    BY <1>0, <2>2, <2>4, TypeStep, PermitStep, Zenon
  <2>6. ASSUME NoRefresh PROVE \A p \in Reqs : req'[p].pc \notin {"relist", "recreds", "reuploads"}
    BY <1>0, <2>1, <2>2, <2>6, Stepped DEF Trimmed
  <2>7. ASSUME NoRefresh, NEW t \in Tokens, \A p \in Reqs : ~(req'[p].pc = "list" /\ req'[p].tok = t)
        PROVE  Cardinality((Of(t) \ Doomed)') <= MaxPerSession
    <3>1. t # q.tok /\ \A p \in Reqs : ~(req[p].pc = "list" /\ req[p].tok = t)
      BY <1>0, <2>1, <2>2, <2>7, Stepped
    <3>2. Of(t)' \subseteq Of(t)
      BY <2>3, <3>1 DEF Of
    <3>3. Doomed' = Doomed
      BY <1>0, <2>1, <2>2, Stepped DEF Doomed
    <3>4. Cardinality(Of(t) \ Doomed) <= MaxPerSession
      BY <1>0, <2>7, <3>1 DEF Trimmed
    <3>5. (Of(t) \ Doomed)' \in SUBSET (Of(t) \ Doomed) /\ Of(t) \ Doomed \in SUBSET Creds
      BY <3>2, <3>3 DEF Of
    <3> QED BY <3>4, <3>5, FewerCreds, Zenon
  <2>8. Trimmed'
    BY <2>2, <2>6, <2>7 DEF Trimmed, NoRefresh, Of, Doomed
  <2> QED BY <2>5, <2>8 DEF GatewayInv
<1>2. CASE MintList(r)
  <2> DEFINE mine == Of(req[r].tok)
             excess == {c \in mine : Cardinality({d \in mine : d > c}) >= MaxPerSession}
             q == [req[r] EXCEPT !.pc = "trim", !.set = excess]
  <2>1. DOMAIN q = Fields /\ q.pc = "trim" /\ q.set = excess
    BY <1>0 DEF Fields
  <2>2. Step(r, q) /\ UNCHANGED <<store, traffic, lock, creds>> /\ req[r].pc = "list"
    BY <1>2 DEF MintList, Of
  <2>0. Cardinality(mine \ excess) <= MaxPerSession
    <3>1. mine \in SUBSET Creds
      BY DEF Of
    <3>2. mine \ excess = {c \in mine : ~(Cardinality({d \in mine : d > c}) >= MaxPerSession)}
      OBVIOUS
    <3> HIDE DEF mine
    <3> QED BY <3>1, <3>2, NewestAreFew, SizeAssumption
  <2> HIDE DEF q, excess
  <2>4. Relies(q) /\ ~Writing(q)
    BY <2>1, Elsewhere
  <2>5. TypeInv' /\ Permitted' /\ QuotaKept'
    BY <1>0, <2>2, <2>4, TypeStep, PermitStep, Zenon
  <2>6. ASSUME NoRefresh PROVE \A p \in Reqs : req'[p].pc \notin {"relist", "recreds", "reuploads"}
    BY <1>0, <2>1, <2>2, <2>6, Stepped DEF Trimmed
  <2>7. ASSUME NoRefresh, NEW t \in Tokens, \A p \in Reqs : ~(req'[p].pc = "list" /\ req'[p].tok = t)
        PROVE  Cardinality((Of(t) \ Doomed)') <= MaxPerSession
    <3>1. Of(t)' = Of(t)
      BY <2>2 DEF Of
    <3>2. Doomed \subseteq Doomed' /\ excess \subseteq Doomed'
      BY <1>0, <2>1, <2>2, Stepped DEF Doomed
    <3>3. CASE t = req[r].tok
      <4>1. (Of(t) \ Doomed)' \in SUBSET (mine \ excess) /\ mine \ excess \in SUBSET Creds
        BY <3>1, <3>2, <3>3, Zenon DEF Of
      <4> QED BY <2>0, <4>1, FewerCreds
    <3>4. CASE t # req[r].tok
      <4>1. \A p \in Reqs : ~(req[p].pc = "list" /\ req[p].tok = t)
        BY <1>0, <2>2, <2>7, <3>4, Stepped
      <4>2. Cardinality(Of(t) \ Doomed) <= MaxPerSession
        BY <1>0, <2>7, <4>1 DEF Trimmed
      <4>3. (Of(t) \ Doomed)' \in SUBSET (Of(t) \ Doomed) /\ Of(t) \ Doomed \in SUBSET Creds
        BY <3>1, <3>2, Zenon DEF Of
      <4> QED BY <4>2, <4>3, FewerCreds
    <3> QED BY <3>3, <3>4, Zenon
  <2>8. Trimmed'
    BY <2>2, <2>6, <2>7, Zenon DEF Trimmed, NoRefresh, Of, Doomed
  <2> QED BY <2>5, <2>8 DEF GatewayInv
<1>3. CASE MintTrim(r)
  <2>2. Step(r, NoReq) /\ UNCHANGED <<store, traffic, lock>> /\ req[r].pc = "trim" /\ DOMAIN creds' = Creds
    BY <1>3, Zenon DEF MintTrim, Return
  <2>3. \A c \in Creds : creds'[c] = IF c \in req[r].set THEN None ELSE creds[c]
    BY <1>3, Zenon DEF MintTrim
  <2>5. TypeInv' /\ Permitted' /\ QuotaKept'
    BY <1>0, <2>2, Idle, TypeStep, PermitStep, Zenon
  <2>6. ASSUME NoRefresh PROVE \A p \in Reqs : req'[p].pc \notin {"relist", "recreds", "reuploads"}
    BY <1>0, <2>2, <2>6, Idle, Stepped, Zenon DEF Trimmed
  <2>7. ASSUME NoRefresh, NEW t \in Tokens, \A p \in Reqs : ~(req'[p].pc = "list" /\ req'[p].tok = t)
        PROVE  Cardinality((Of(t) \ Doomed)') <= MaxPerSession
    <3>1. \A p \in Reqs : ~(req[p].pc = "list" /\ req[p].tok = t)
      BY <1>0, <2>2, <2>7, Stepped
    <3>2. Of(t)' \subseteq Of(t) \ req[r].set
      BY <2>3, SizeAssumption, NoneAssumption DEF Of, Tokens
    <3>3. Doomed \subseteq Doomed' \cup req[r].set
      BY <1>0, <2>2, Stepped DEF Doomed
    <3>4. Cardinality(Of(t) \ Doomed) <= MaxPerSession
      BY <1>0, <2>7, <3>1 DEF Trimmed
    <3>5. (Of(t) \ Doomed)' \in SUBSET (Of(t) \ Doomed) /\ Of(t) \ Doomed \in SUBSET Creds
      BY <3>2, <3>3, Zenon DEF Of
    <3> QED BY <3>4, <3>5, FewerCreds
  <2>8. Trimmed'
    BY <2>2, <2>6, <2>7 DEF Trimmed, NoRefresh, Of, Doomed
  <2> QED BY <2>5, <2>8 DEF GatewayInv
<1> QED BY <1>1, <1>2, <1>3, Zenon

-----------------------------------------------------------------------------
(* The write pipeline.                                                     *)

\* The object under k shrinks or goes, or nothing changes: what the others hold does not grow.
LEMMA Shrinks ==
    ASSUME TypeInv, TypeInv', NEW k \in Keys, NEW n \in Nat, n <= SizeOf[k], SizeOf' = [SizeOf EXCEPT ![k] = n]
    PROVE  Usage' <= Usage /\ \A j \in Keys : Effective(j)' <= Effective(j)
<1> DEFINE f == SizeOf
           g == [f EXCEPT ![k] = n]
<1>1. f \in [Keys -> Nat] /\ Usage \in Nat /\ Usage' \in Nat
  BY SizesTyped, PrimedSizes
<1>2. Usage = Cardinality(Bytes(f)) /\ Usage' = Cardinality(Bytes(g))
  BY DEF Usage, Bytes
<1> HIDE DEF f
<1>3. Usage' = Usage - f[k] + n /\ f[k] \in Nat /\ n <= f[k]
  BY <1>1, <1>2, ReplaceOne, Zenon DEF f
<1>4. ASSUME NEW j \in Keys PROVE Effective(j)' <= Effective(j)
  <2>1. Effective(j) = Usage - f[j] /\ Effective(j)' = Usage' - g[j]
    BY DEF Effective, f
  <2>2. f[j] \in Nat /\ (j = k => g[j] = n) /\ (j # k => g[j] = f[j])
    BY <1>1
  <2> HIDE DEF g
  <2> QED BY <1>1, <1>3, <2>1, <2>2
<1> QED BY <1>1, <1>3, <1>4

\* A step of a request without a budget, or of nobody, while the stored objects only shrink.
LEMMA ShrinkStep ==
    ASSUME GatewayInv, TypeInv', Trimmed', UNCHANGED <<traffic, lock>>, Usage' <= Usage,
           \A j \in Keys : Effective(j)' <= Effective(j),
           \A p \in Reqs : req'[p] = req[p] \/ ~Writing(req'[p])
    PROVE  GatewayInv'
<1>1. Usage \in Nat /\ Usage' \in Nat /\ \A j \in Keys : Effective(j) \in Nat /\ Effective(j)' \in Nat
  BY SizesTyped, PrimedSizes DEF GatewayInv
<1>2. traffic.quota \in Nat \cup {None}
  BY MixAssumption DEF GatewayInv, TypeInv
<1>3. QuotaKept'
  BY <1>1, <1>2 DEF GatewayInv, QuotaKept
<1>4. ASSUME traffic'.quota # None, NEW p \in Reqs, Writing(req'[p])
      PROVE  lock' = p /\ Effective(req[p].key)' + req'[p].cap <= traffic'.quota
  <2>1. Writing(req[p]) /\ req'[p] = req[p]
    BY <1>4
  <2>2. lock = p /\ Effective(req[p].key) + req[p].cap <= traffic.quota
    BY <1>4, <2>1, Zenon DEF GatewayInv, Permitted
  <2>3. req[p].key \in Keys /\ req[p].cap \in Nat
    BY <2>1, Zenon DEF GatewayInv, TypeInv, Relies, Writing
  <2>4. PICK k \in Keys : k = req[p].key
    BY <2>3
  <2>5. Effective(req[p].key)' = Effective(k)' /\ Effective(req[p].key) = Effective(k)
    BY <2>1, <2>4 DEF Effective
  <2>6. Effective(k) \in Nat /\ Effective(k)' \in Nat /\ Effective(k)' <= Effective(k)
    BY <1>1
  <2>7. Effective(k)' + req[p].cap <= traffic.quota
    BY <1>2, <1>4, <2>2, <2>3, <2>5, <2>6
  <2> QED BY <2>1, <2>2, <2>5, <2>7
<1>5. Permitted'
  BY <1>4 DEF Permitted, Writing
<1> QED BY <1>3, <1>5 DEF GatewayInv

\* The type of the state after a step that changes one object.
LEMMA StoreStep ==
    ASSUME TypeInv, TypeInv', NEW k \in Keys, \A j \in Keys \ {k} : store'[j] = store[j]
    PROVE  /\ SizeOf'[k] \in Nat
           /\ SizeOf' = [SizeOf EXCEPT ![k] = SizeOf'[k]]
<1>1. SizeOf \in [Keys -> Nat] /\ SizeOf' \in [Keys -> Nat]
  BY SizesTyped, PrimedSizes
<1>2. \A j \in Keys \ {k} : SizeOf'[j] = SizeOf[j]
  BY DEF SizeOf
<1> QED BY <1>1, <1>2

LEMMA BudgetKeepsInv ==
    ASSUME GatewayInv, traffic' = traffic, NEW r \in Reqs, WriteBudget(r)
    PROVE  GatewayInv'
<1> DEFINE q == req[r]
           used == Effective(q.key)
<1>0. DOMAIN q = Fields /\ DOMAIN creds = Creds /\ TypeInv /\ Permitted /\ QuotaKept /\ Trimmed /\ Relies(q)
  BY Zenon DEF GatewayInv, TypeInv, Relies
<1>1. q.pc = "budget" /\ UNCHANGED <<store, traffic, creds>>
  BY Zenon DEF WriteBudget
<1>2. q.op \in Writers /\ q.key \in Keys /\ q.cap \in Nat /\ q.then \in {"stream", "assemble"}
  BY <1>0, <1>1, Zenon DEF Relies
<1>3. ASSUME NEW cap \in Nat PROVE Relies([q EXCEPT !.pc = q.then, !.cap = cap])
  BY <1>0, <1>1, <1>2, SizeAssumption DEF Relies, Fields, Writing, Writers
<1>4. [q EXCEPT !.pc = q.then] = [q EXCEPT !.pc = q.then, !.cap = q.cap]
  BY <1>0, Zenon DEF Fields
<1>5. CASE traffic.quota = None
  <2>1. Step(r, [q EXCEPT !.pc = q.then]) /\ UNCHANGED lock
    BY <1>5 DEF WriteBudget, Goto
  <2> DEFINE new == [q EXCEPT !.pc = q.then]
  <2>2. Relies(new) /\ new.pc \in {"stream", "assemble"}
    BY <1>0, <1>2, <1>3, <1>4, Zenon DEF Fields
  <2> HIDE DEF new
  <2>3. TypeInv'
    BY <1>0, <1>1, <2>1, <2>2, TypeStep, Zenon DEF new
  <2>4. Permitted' /\ QuotaKept'
    BY <1>1, <1>5 DEF Permitted, QuotaKept
  <2>5. Trimmed'
    BY <1>0, <1>1, <2>1, <2>2, Stepped, TrimStep, Zenon DEF new
  <2> QED BY <2>3, <2>4, <2>5 DEF GatewayInv
<1>6. CASE traffic.quota # None /\ Step(r, NoReq) /\ UNCHANGED lock
  BY <1>0, <1>1, <1>6, Idle, PlainStep, Zenon
<1>7. CASE traffic.quota # None /\ ~(Step(r, NoReq) /\ UNCHANGED lock)
  <2> DEFINE cap == Min({q.cap, traffic.quota - used})
             new == [q EXCEPT !.pc = q.then, !.cap = cap]
  <2>1. lock = None /\ lock' = r /\ Step(r, new)
    BY <1>7, Zenon DEF WriteBudget, Return
  <2>2. used \in Nat /\ used <= Usage /\ Usage \in Nat
    BY <1>0, <1>2, SizesTyped, Zenon
  <2>3. traffic.quota \in Nat /\ Usage <= traffic.quota
    BY <1>0, <1>7, MixAssumption DEF TypeInv, QuotaKept
  <2>4. traffic.quota - used \in Nat
    BY <2>2, <2>3
  <2>5. cap \in Nat /\ cap <= traffic.quota - used
    BY <1>2, <2>4, MinOfTwo, Zenon
  <2>6. used + cap <= traffic.quota
    BY <2>2, <2>3, <2>5
  <2>7. Relies(new)
    BY <1>3, <2>5, Zenon
  <2>8. new.key = q.key /\ new.cap = cap /\ new.pc \in {"stream", "assemble"}
    BY <1>0, <1>2 DEF Fields
  <2> HIDE DEF new, cap
  <2>9. TypeInv'
    BY <1>0, <1>1, <2>1, <2>7, TypeStep, Zenon
  <2>10. Trimmed'
    BY <1>0, <1>1, <2>1, <2>8, Stepped, TrimStep, Zenon
  <2>11. SizeOf' = SizeOf /\ Usage' = Usage /\ \A k : Effective(k)' = Effective(k)
    BY <1>1, Zenon DEF SizeOf, Usage, Effective, Bytes
  <2>12. \A p \in Reqs : ~Writing(req[p])
    BY <1>0, <1>7, <2>1, NoneAssumption, Zenon DEF Permitted
  <2>13. ASSUME NEW p \in Reqs, Writing(req'[p])
         PROVE  lock' = p /\ Effective(req'[p].key) + req'[p].cap <= traffic.quota
    <3>1. p = r
      BY <1>0, <2>1, <2>12, <2>13, Stepped, Zenon
    <3>2. req'[p] = new
      BY <1>0, <2>1, <3>1, Stepped, Zenon
    <3> QED BY <2>1, <2>6, <2>8, <3>1, <3>2, Zenon
  <2>14. Permitted'
    BY <1>1, <2>11, <2>13, Zenon DEF Permitted, Writing
  <2>15. QuotaKept'
    BY <1>0, <1>1, <2>11 DEF QuotaKept
  <2> QED BY <2>9, <2>10, <2>14, <2>15 DEF GatewayInv
<1> QED BY <1>5, <1>6, <1>7

LEMMA CommitKeepsInv ==
    ASSUME GatewayInv, traffic' = traffic, NEW r \in Reqs, Commit(r)
    PROVE  GatewayInv'
<1> DEFINE q == req[r]
           k == q.key
           obj == [size |-> q.moved, body |-> q.body, mpu |-> Len(q.list)]
<1>0. DOMAIN q = Fields /\ DOMAIN creds = Creds /\ TypeInv /\ Permitted /\ QuotaKept /\ Trimmed /\ Relies(q)
  BY Zenon DEF GatewayInv, TypeInv, Relies
<1>1. q.pc = "commit" /\ store' = [store EXCEPT ![k] = obj] /\ Unlock(r) /\ UNCHANGED <<creds, traffic>>
  BY DEF Commit
<1>2. Writing(q) /\ k \in Keys /\ q.moved \in Nat /\ q.cap \in Nat /\ q.moved <= q.cap
  BY <1>0, <1>1, Zenon DEF Relies, Writing
<1>3. PICK new : Step(r, new) /\ DOMAIN new = Fields /\ new.pc \in {"idle", "describe", "keys"}
  <2>1. q.op \in Writers
    BY <1>2 DEF Writing
  <2>2. Step(r, NoReq) \/ Step(r, [q EXCEPT !.pc = "describe"]) \/ Step(r, [q EXCEPT !.pc = "keys"])
    BY <2>1, Zenon DEF Commit, Return, Goto, Writers
  <2>3. DOMAIN NoReq = Fields /\ NoReq.pc = "idle"
    BY DEF NoReq, Fields
  <2>4. DOMAIN [q EXCEPT !.pc = "describe"] = Fields /\ [q EXCEPT !.pc = "describe"].pc = "describe"
    BY <1>0 DEF Fields
  <2>5. DOMAIN [q EXCEPT !.pc = "keys"] = Fields /\ [q EXCEPT !.pc = "keys"].pc = "keys"
    BY <1>0 DEF Fields
  <2> QED BY <2>2, <2>3, <2>4, <2>5, Zenon
<1>4. Relies(new) /\ ~Writing(new)
  BY <1>3, Elsewhere, Zenon
<1>5. "size" \in DOMAIN obj /\ obj.size = q.moved
  OBVIOUS
<1> HIDE DEF obj
<1>6. DOMAIN store' = Keys /\ store'[k] = obj /\ \A j \in Keys \ {k} : store'[j] = store[j]
  BY <1>0, <1>1, <1>2, Zenon DEF TypeInv
<1>7. TypeInv'
  <2>1. \A p \in Reqs : Relies(req'[p])
    BY SMTT(20), Zenon, <1>0, <1>3, <1>4, Stepped DEF TypeInv
  <2>2. \A p \in Reqs : Relies(req[p])'
    BY <2>1, Zenon DEF Relies, Writing
  <2>3. \A j \in Keys : store'[j] # None => "size" \in DOMAIN store'[j] /\ store'[j].size \in Nat
    BY <1>0, <1>2, <1>5, <1>6, Zenon DEF TypeInv
  <2>4. DOMAIN req' = Reqs /\ traffic' \in Mixes /\ DOMAIN creds' = Creds
    BY <1>0, <1>1, <1>3, Stepped, Zenon DEF TypeInv
  <2> QED BY <1>6, <2>2, <2>3, <2>4, Zenon DEF TypeInv
<1>8. Trimmed'
  BY <1>0, <1>1, <1>3, Stepped, TrimStep, Zenon
<1>9. CASE traffic.quota = None
  BY <1>1, <1>7, <1>8, <1>9, Zenon DEF GatewayInv, Permitted, QuotaKept
<1>10. CASE traffic.quota # None
  <2>1. lock = r /\ Effective(k) + q.cap <= traffic.quota
    BY <1>0, <1>2, <1>10, Zenon DEF Permitted
  <2>2. \A p \in Reqs \ {r} : ~Writing(req[p])
    BY <1>0, <1>10, <2>1, Zenon DEF Permitted
  <2>3. \A p \in Reqs : ~Writing(req'[p])
    BY <1>0, <1>3, <1>4, <2>2, Stepped, Zenon
  <2>4. Permitted'
    BY <2>3, Zenon DEF Permitted, Writing
  <2>5. SizeOf'[k] \in Nat /\ SizeOf' = [SizeOf EXCEPT ![k] = SizeOf'[k]] /\ SizeOf \in [Keys -> Nat]
    BY <1>0, <1>2, <1>6, <1>7, StoreStep, SizesTyped, Zenon
  <2>6. SizeOf'[k] <= q.moved
    BY <1>2, <1>5, <1>6 DEF SizeOf
  <2>7. Usage' = Cardinality(Bytes(SizeOf')) /\ Usage = Cardinality(Bytes(SizeOf))
    BY DEF Usage, Bytes
  <2> DEFINE n == SizeOf'[k]
             f == SizeOf
  <2> HIDE DEF n, f
  <2>8. Usage' = Cardinality(Bytes([f EXCEPT ![k] = n])) /\ f \in [Keys -> Nat] /\ n \in Nat
    BY <2>5, <2>7, Zenon DEF n, f
  <2>9. Usage' = Usage - f[k] + n
    BY <1>2, <2>7, <2>8, ReplaceOne, Zenon DEF f
  <2>10. Effective(k) = Usage - f[k] /\ f[k] \in Nat
    BY <1>2, <2>8, Zenon DEF Effective, f
  <2>11. Usage' \in Nat /\ Usage \in Nat /\ traffic.quota \in Nat
    BY <1>0, <1>7, <1>10, SizesTyped, PrimedSizes, MixAssumption, Zenon DEF TypeInv
  <2>12. n \in Nat /\ q.cap \in Nat /\ n <= q.cap
    BY SMTT(20), Zenon, <1>2, <2>6, <2>8 DEF n
  <2>14. (Usage - f[k]) + q.cap <= traffic.quota
    BY <2>1, <2>10, Zenon
  <2>15. Usage' <= traffic.quota
    BY ONLY SMTT(20), Zenon, <2>9, <2>10, <2>11, <2>12, <2>14
  <2>13. QuotaKept'
    BY <1>1, <2>15, Zenon DEF QuotaKept
  <2> QED BY <1>7, <1>8, <2>4, <2>13 DEF GatewayInv
<1> QED BY <1>9, <1>10

\* Delete, DropPart and TagWrite: one object goes, or keeps its size.
LEMMA OneObjectStep ==
    ASSUME GatewayInv, UNCHANGED <<traffic, lock, creds>>, NEW k \in Keys,
           DOMAIN store' = Keys, \A j \in Keys \ {k} : store'[j] = store[j],
           \/ store'[k] = None
           \/ /\ "size" \in DOMAIN store'[k] /\ store'[k].size \in Nat
              /\ store[k] # None /\ store'[k].size = store[k].size,
           DOMAIN req' = Reqs,
           \A p \in Reqs : \/ req'[p] = req[p]
                           \/ /\ DOMAIN req'[p] = Fields /\ req[p].pc \notin {"list", "trim"}
                              /\ req'[p].pc \in {"idle", "drop"}
    PROVE  GatewayInv'
<1>1. ASSUME NEW p \in Reqs PROVE Relies(req'[p]) /\ (req'[p] = req[p] \/ ~Writing(req'[p]))
  <2>1. Relies(req[p])
    BY Zenon DEF GatewayInv, TypeInv
  <2>2. CASE req'[p] = req[p]
    BY <2>1, <2>2, Zenon
  <2>3. CASE DOMAIN req'[p] = Fields /\ req'[p].pc \in {"idle", "drop"}
    BY <2>3, Elsewhere, Zenon
  <2> QED BY <2>2, <2>3, Zenon
<1>2. TypeInv'
  <2>1. \A p \in Reqs : Relies(req[p])'
    BY <1>1, Zenon DEF Relies, Writing
  <2>2. \A j \in Keys : store'[j] # None => "size" \in DOMAIN store'[j] /\ store'[j].size \in Nat
    BY Zenon DEF GatewayInv, TypeInv
  <2>3. traffic' \in Mixes /\ DOMAIN creds' = Creds
    BY Zenon DEF GatewayInv, TypeInv
  <2> QED BY <2>1, <2>2, <2>3, Zenon DEF TypeInv
<1>3. Trimmed'
  BY TrimStep, Zenon DEF GatewayInv
<1>4. SizeOf'[k] \in Nat /\ SizeOf' = [SizeOf EXCEPT ![k] = SizeOf'[k]]
  BY <1>2, StoreStep, Zenon DEF GatewayInv
<1>5. SizeOf'[k] <= SizeOf[k]
  BY SMTT(20), Zenon, <1>4, SizesTyped DEF SizeOf, GatewayInv
<1> DEFINE n == SizeOf'[k]
<1> HIDE DEF n
<1>6. n \in Nat /\ n <= SizeOf[k] /\ SizeOf' = [SizeOf EXCEPT ![k] = n]
  BY <1>4, <1>5 DEF n
<1>7. Usage' <= Usage /\ \A j \in Keys : Effective(j)' <= Effective(j)
  BY <1>2, <1>6, Shrinks, Zenon DEF GatewayInv
<1> QED BY <1>1, <1>2, <1>3, <1>7, ShrinkStep, Zenon

LEMMA ObjectsKeepInv ==
    ASSUME GatewayInv, traffic' = traffic, NEW r \in Reqs,
           (\E t \in Tokens : Delete(r, t)) \/ TagWrite(r) \/ DropPart(r)
    PROVE  GatewayInv'
<1>0. DOMAIN req[r] = Fields /\ DOMAIN req = Reqs /\ TypeInv /\ DOMAIN store = Keys /\ Obj \in Keys
  BY KeysFinite, Zenon DEF GatewayInv, TypeInv, Relies
<1>1. ASSUME NEW t \in Tokens, Delete(r, t) PROVE GatewayInv'
  <2>1. UNCHANGED <<traffic, lock, creds, req>> /\ store' = [store EXCEPT ![Obj] = None]
    BY <1>1 DEF Delete
  <2> QED BY <1>0, <2>1, OneObjectStep, Zenon
<1>2. CASE TagWrite(r)
  <2>1. UNCHANGED <<traffic, lock, creds>> /\ Step(r, NoReq) /\ req[r].pc = "tag"
    BY <1>2 DEF TagWrite, Return
  <2>2. NoReq.pc = "idle" /\ DOMAIN NoReq = Fields
    BY Zenon DEF NoReq, Fields
  <2>3. DOMAIN req' = Reqs /\ \A p \in Reqs : req'[p] = req[p] \/ (p = r /\ req'[p] = NoReq)
    BY <1>0, <2>1, Stepped
  <2>4. CASE store[Obj] = None
    <3>1. store' = store
      BY <1>2, <2>4 DEF TagWrite
    <3> QED BY <1>0, <2>1, <2>2, <2>3, <2>4, <3>1, OneObjectStep, Zenon
  <2>5. CASE store[Obj] # None
    <3> DEFINE new == [store[Obj] EXCEPT !.mpu = req[r].size]
    <3>1. store' = [store EXCEPT ![Obj] = new]
      BY <1>2, <2>5, Zenon DEF TagWrite
    <3>2. "size" \in DOMAIN store[Obj] /\ store[Obj].size \in Nat
      BY <1>0, <2>5 DEF TypeInv
    <3>3. "size" \in DOMAIN new /\ new.size = store[Obj].size
      BY <3>2
    <3> HIDE DEF new
    <3>4. DOMAIN store' = Keys /\ store'[Obj] = new /\ \A j \in Keys \ {Obj} : store'[j] = store[j]
      BY <1>0, <3>1, Zenon
    <3> QED BY <1>0, <2>1, <2>2, <2>3, <2>5, <3>2, <3>3, <3>4, OneObjectStep, Zenon
  <2> QED BY <2>4, <2>5
<1>3. CASE DropPart(r)
  <2> DEFINE n == Min(req[r].left)
             q == [req[r] EXCEPT !.left = @ \ {n}]
             gone == <<req[r].key, n>>
  <2>1. UNCHANGED <<traffic, lock, creds>> /\ Step(r, q) /\ req[r].pc = "drop"
    BY <1>3 DEF DropPart
  <2>2. q.pc = "drop" /\ DOMAIN q = Fields
    BY <1>0, <2>1 DEF Fields
  <2>3. store' = [store EXCEPT ![gone] = None] \/ store' = store
    BY <1>3, Zenon DEF DropPart
  <2> HIDE DEF q, gone
  <2>4. DOMAIN req' = Reqs /\ \A p \in Reqs : req'[p] = req[p] \/ (p = r /\ req'[p] = q)
    BY <1>0, <2>1, Stepped, Zenon
  <2>5. PICK k \in Keys : DOMAIN store' = Keys /\ (\A j \in Keys \ {k} : store'[j] = store[j])
                          /\ (store'[k] = None \/ store'[k] = store[k])
    <3>1. CASE gone \in Keys
      BY <1>0, <2>3, <3>1
    <3>2. CASE gone \notin Keys
      BY <1>0, <2>3, <3>2, Zenon
    <3> QED BY <3>1, <3>2
  <2>6. store[k] # None => "size" \in DOMAIN store[k] /\ store[k].size \in Nat
    BY <1>0, Zenon DEF TypeInv
  <2> QED BY <2>1, <2>2, <2>4, <2>5, <2>6, OneObjectStep, Zenon
<1> QED BY <1>1, <1>2, <1>3

-----------------------------------------------------------------------------
(* Streams, and the requests that write no object.                         *)

LEMMA AbandonKeepsInv ==
    ASSUME GatewayInv, traffic' = traffic, NEW r \in Reqs, req[r].pc \in {"stream", "assemble"}, Abandon(r)
    PROVE  GatewayInv'
<1>1. Step(r, NoReq) /\ Unlock(r) /\ UNCHANGED <<store, traffic, creds>> /\ DOMAIN creds = Creds
  BY DEF Abandon, Return, GatewayInv, TypeInv
<1> QED BY <1>1, Idle, PlainStep, Zenon

LEMMA StreamKeepsInv ==
    ASSUME GatewayInv, traffic' = traffic, NEW r \in Reqs,
           StreamFails(r) \/ StreamEnds(r) \/ (\E timer \in BOOLEAN : StreamChunk(r, timer))
    PROVE  GatewayInv'
<1> DEFINE q == req[r]
<1>0. DOMAIN q = Fields /\ DOMAIN creds = Creds /\ Relies(q)
  BY Zenon DEF GatewayInv, TypeInv, Relies
<1>1. CASE StreamFails(r)
  BY <1>1, AbandonKeepsInv DEF StreamFails
<1>2. CASE StreamEnds(r)
  <2> DEFINE new == [q EXCEPT !.pc = "commit", !.body = <<writes + 1>>]
  <2>1. q.pc = "stream" /\ UNCHANGED <<store, traffic, creds, lock>>
    BY <1>2 DEF StreamEnds
  <2>2. CASE q.op = "get"
    <3>1. Step(r, NoReq)
      BY <1>2, <2>2, Zenon DEF StreamEnds, Return
    <3> QED BY <1>0, <2>1, <3>1, Idle, PlainStep, Zenon
  <2>3. CASE q.op # "get"
    <3>1. Step(r, new)
      BY <1>2, <2>3, Zenon DEF StreamEnds
    <3>2. q.op \in Writers
      BY <1>0, <2>1, <2>3, Zenon DEF Relies
    <3>5. q.moved \in Nat /\ q.since \in Nat /\ q.late \in Nat /\ q.cap \in Nat
      BY <1>0, <2>1 DEF Relies
    <3>3. new.pc = "commit" /\ new.key = q.key /\ new.cap = q.cap /\ Writing(q)
      BY <1>0, <2>1, <3>2, Zenon DEF Fields, Writing
    <3>4. Relies(new)
      BY <1>0, <2>1, <3>2 DEF Fields, Writing, Relies
    <3> HIDE DEF new
    <3> QED BY <1>0, <2>1, <3>1, <3>3, <3>4, PlainStep
  <2> QED BY <2>2, <2>3
<1>3. ASSUME NEW timer \in BOOLEAN, StreamChunk(r, timer) PROVE GatewayInv'
  <2> DEFINE look == timer \/ q.since + 1 >= Recheck
             over == (look /\ ~Leash(q)) \/ (q.op # "get" /\ q.moved + 1 > q.cap)
             since == IF look THEN 0 ELSE q.since + 1
             late == IF row[q.tok] = q.row THEN 0 ELSE q.late + 1
             new == [q EXCEPT !.moved = @ + 1, !.since = since, !.late = late]
  <2>1. q.pc = "stream"
    BY <1>3, Zenon DEF StreamChunk
  <2>2. CASE Abandon(r)
    BY <2>1, <2>2, AbandonKeepsInv, Zenon
  <2>3. CASE ~Abandon(r)
    <3>1. ~over /\ Step(r, new) /\ UNCHANGED <<store, traffic, creds, lock>>
      BY <1>0, <1>3, <2>3, Zenon DEF StreamChunk, Fields
    <3>2. q.moved \in Nat /\ q.since \in Nat /\ q.late \in Nat /\ q.cap \in Nat /\ q.late <= q.since
      BY <1>0, <2>1, Zenon DEF Relies
    <3>3. since \in Nat /\ late \in Nat /\ late <= since /\ since < Recheck
      BY <3>1, <3>2, SizeAssumption DEF Leash
    <3>4. q.op \in Writers => q.moved + 1 <= q.cap
      BY <3>1, <3>2 DEF Writers
    <3> HIDE DEF since, late, over
    <3>5. new.pc = "stream" /\ new.key = q.key /\ new.cap = q.cap /\ new.op = q.op /\ new.moved = q.moved + 1
          /\ new.since = since /\ new.late = late /\ DOMAIN new = Fields
      BY <1>0, <2>1 DEF Fields
    <3> HIDE DEF new
    <3>8. q.op \in Writers \cup {"get"} /\ (q.op \in Writers => q.key \in Keys) /\ q.moved + 1 \in Nat
      <4>1. q.op \in Writers \cup {"get"} /\ (q.op \in Writers => q.key \in Keys)
        BY <1>0, <2>1, Zenon DEF Relies
      <4>2. q.moved + 1 \in Nat
        BY <3>2
      <4> QED BY <4>1, <4>2, Zenon
    <3>6. Relies(new)
      BY <3>2, <3>3, <3>4, <3>5, <3>8, Streams, Zenon
    <3>7. Writing(new) => Writing(q)
      BY <2>1, <3>5 DEF Writing
    <3> QED BY <1>0, <2>1, <3>1, <3>5, <3>6, <3>7, PlainStep, Zenon
  <2> QED BY <2>2, <2>3
<1> QED BY <1>1, <1>2, <1>3

LEMMA AssembleKeepsInv ==
    ASSUME GatewayInv, traffic' = traffic, NEW r \in Reqs, AssemblePart(r)
    PROVE  GatewayInv'
<1> DEFINE q == req[r]
           u == CHOOSE v \in q.set : TRUE
           part == store[<<u, q.list[q.since + 1][1]>>]
           to == IF q.since + 1 = Len(q.list) THEN "commit" ELSE q.pc
           new == [q EXCEPT !.since = @ + 1, !.moved = @ + part.size, !.body = @ \o part.body, !.pc = to]
<1>0. DOMAIN q = Fields /\ DOMAIN creds = Creds /\ Relies(q) /\ TypeInv
  BY Zenon DEF GatewayInv, TypeInv, Relies
<1>1. q.pc = "assemble" /\ q.since < Len(q.list)
  BY Zenon DEF AssemblePart
<1>2. CASE Abandon(r)
  BY <1>1, <1>2, AbandonKeepsInv
<1>3. CASE ~Abandon(r)
  <2>1. part # None /\ ~(q.moved + part.size > q.cap) /\ Step(r, new) /\ UNCHANGED <<store, traffic, creds, lock>>
    BY <1>0, <1>3, Zenon DEF AssemblePart, Fields
  <2>2. q.op \in Writers /\ q.key \in Keys /\ q.since \in Nat /\ q.moved \in Nat /\ q.cap \in Nat /\ q.late \in Nat
        /\ q.set # {} /\ q.set \subseteq Uploads /\ q.list \in Seq(Parts \X Nat)
    BY <1>0, <1>1, Zenon DEF Relies
  <2>3. u \in Uploads
    BY <2>2, Zenon
  <2>4. q.since + 1 \in 1..Len(q.list)
    BY <1>1, <2>2
  <2>5. q.list[q.since + 1] \in Parts \X Nat
    BY <2>2, <2>4
  <2> HIDE DEF u
  <2>6. <<u, q.list[q.since + 1][1]>> \in Keys
    BY <2>3, <2>5 DEF Keys
  <2>7. part.size \in Nat
    BY <1>0, <2>1, <2>6, Zenon DEF TypeInv
  <2> HIDE DEF part
  <2>8. q.moved + part.size \in Nat /\ q.moved + part.size <= q.cap
    BY <2>1, <2>2, <2>7
  <2>9. to \in {"assemble", "commit"}
    BY <1>1
  <2> HIDE DEF to
  <2>10. new.pc = to /\ new.key = q.key /\ new.cap = q.cap /\ new.op = q.op /\ new.moved = q.moved + part.size
         /\ new.since = q.since + 1 /\ new.late = q.late /\ new.set = q.set /\ new.list = q.list /\ DOMAIN new = Fields
    BY <1>0, Zenon DEF Fields
  <2> HIDE DEF new
  <2>13. q.since + 1 \in Nat
    BY <2>2
  <2>11. Relies(new)
    BY <2>2, <2>8, <2>9, <2>10, <2>13, Assembles, Zenon
  <2>12. Writing(q)
    BY <1>1, <2>2, Zenon DEF Writing
  <2> QED BY <1>0, <1>1, <2>1, <2>9, <2>10, <2>11, <2>12, PlainStep, Zenon
<1> QED BY <1>2, <1>3

LEMMA BeginsKeepInv ==
    ASSUME GatewayInv, traffic' = traffic, NEW r \in Reqs, NEW t \in Tokens,
           \/ GetBegin(r, t)
           \/ \E size \in Sizes, said \in {0} \cup Sizes :
                \/ PutBegin(r, t, size, said)
                \/ \E u \in Uploads, n \in Parts : PartBegin(r, t, u, n, size, said)
           \/ \E u \in Uploads, list \in Lists : CompleteBegin(r, t, u, list)
    PROVE  GatewayInv'
<1>0. DOMAIN creds = Creds /\ Obj \in Keys /\ MaxObject \in Nat /\ MaxPart \in Nat /\ Recheck \in Nat /\ 0 < Recheck
  BY SMTT(20), Zenon, KeysFinite, SizeAssumption DEF GatewayInv, TypeInv
<1>1. CASE GetBegin(r, t)
  <2> DEFINE w == row[t]
             size == store[Obj].size
             q == [NoReq EXCEPT !.op = "get", !.tok = t, !.row = w, !.key = Obj, !.pc = "stream", !.size = size]
  <2>1. Step(r, [Request("get", t, Obj) EXCEPT !.pc = "stream", !.size = store[Obj].size])
        /\ req[r].pc = "idle" /\ UNCHANGED <<store, creds, lock>>
    BY <1>1 DEF GetBegin, Begin
  <2>2. Step(r, q)
    BY <2>1 DEF Request
  <2> HIDE DEF w, size
  <2>3. DOMAIN q = Fields /\ q.pc = "stream" /\ q.op = "get" /\ q.moved = 0 /\ q.since = 0 /\ q.late = 0 /\ q.cap = 0
    BY DEF NoReq, Fields
  <2> HIDE DEF q
  <2>4. Relies(q) /\ ~Writing(q)
    BY <1>0, <2>3, Streams DEF Writing, Writers
  <2> QED BY <1>0, <2>1, <2>2, <2>3, <2>4, PlainStep
<1>2. ASSUME NEW size \in Sizes, NEW said \in {0} \cup Sizes, PutBegin(r, t, size, said)
      PROVE  GatewayInv'
  <2> DEFINE w == row[t]
             q == [NoReq EXCEPT !.op = "put", !.tok = t, !.row = w, !.key = Obj, !.pc = "budget", !.size = size,
                                !.said = said, !.cap = MaxObject]
  <2>1. Step(r, q) /\ req[r].pc = "idle" /\ UNCHANGED <<store, creds, lock>>
    BY <1>2, Zenon DEF PutBegin, Begin, Request
  <2> HIDE DEF w
  <2>2. DOMAIN q = Fields /\ q.pc = "budget" /\ q.op = "put" /\ q.key = Obj /\ q.cap = MaxObject /\ q.moved = 0 /\ q.since = 0
        /\ q.late = 0 /\ q.then = "stream"
    BY Zenon DEF NoReq, Fields
  <2> HIDE DEF q
  <2>3. Relies(q) /\ ~Writing(q)
    BY <1>0, <2>2, WriterBegins, Zenon DEF Writers
  <2> QED BY <1>0, <2>1, <2>2, <2>3, PlainStep, Zenon
<1>3. ASSUME NEW size \in Sizes, NEW said \in {0} \cup Sizes, NEW u \in Uploads, NEW n \in Parts,
             PartBegin(r, t, u, n, size, said)
      PROVE  GatewayInv'
  <2> DEFINE w == row[t]
             q == [NoReq EXCEPT !.op = "part", !.tok = t, !.row = w, !.key = <<u, n>>, !.pc = "budget", !.size = size,
                                !.said = said, !.cap = MaxPart]
  <2>1. Step(r, q) /\ req[r].pc = "idle" /\ UNCHANGED <<store, creds, lock>>
    BY <1>3, Zenon DEF PartBegin, Begin, Request
  <2> HIDE DEF w
  <2>2. DOMAIN q = Fields /\ q.pc = "budget" /\ q.op = "part" /\ q.key = <<u, n>> /\ q.cap = MaxPart /\ q.moved = 0 /\ q.since = 0
        /\ q.late = 0 /\ q.then = "stream"
    BY Zenon DEF NoReq, Fields
  <2> HIDE DEF q
  <2>5. <<u, n>> \in Keys
    BY DEF Keys
  <2>3. Relies(q) /\ ~Writing(q)
    BY <1>0, <2>2, <2>5, WriterBegins, Zenon DEF Writers
  <2> QED BY <1>0, <2>1, <2>2, <2>3, PlainStep, Zenon
<1>4. ASSUME NEW u \in Uploads, NEW list \in Lists, CompleteBegin(r, t, u, list)
      PROVE  GatewayInv'
  <2> DEFINE w == row[t]
             incoming == Cardinality(Bytes([i \in DOMAIN list |-> parts[u][list[i][1]][1]]))
             q == [NoReq EXCEPT !.op = "complete", !.tok = t, !.row = w, !.key = Obj, !.pc = "budget",
                                !.then = "assemble", !.said = incoming, !.cap = MaxObject, !.list = list, !.set = {u}]
  <2>1. Step(r, q) /\ req[r].pc = "idle" /\ UNCHANGED <<store, creds, lock>>
    BY <1>4, Zenon DEF CompleteBegin, Begin, Request
  <2>2. list \in Seq(Parts \X Nat)
    <3>1. PICK n \in 1..Cardinality(Parts) : list \in [1..n -> Parts \X (1..MaxWrites)]
      BY Zenon DEF Lists
    <3>2. Cardinality(Parts) \in Nat
      BY FS_CardinalityType, SizeAssumption
    <3>3. n \in Nat
      BY <3>2
    <3>4. list \in [1..n -> Parts \X Nat]
      BY <3>1, SizeAssumption
    <3> QED BY <3>3, <3>4
  <2> HIDE DEF w, incoming
  <2>3. DOMAIN q = Fields /\ q.pc = "budget" /\ q.op = "complete" /\ q.key = Obj /\ q.cap = MaxObject /\ q.moved = 0
        /\ q.since = 0 /\ q.late = 0 /\ q.then = "assemble" /\ q.list = list /\ q.set = {u}
    BY Zenon DEF NoReq, Fields
  <2> HIDE DEF q
  <2>4. Relies(q) /\ ~Writing(q)
    BY <1>0, <2>2, <2>3, WriterBegins, Zenon DEF Writers
  <2> QED BY <1>0, <2>1, <2>3, <2>4, PlainStep, Zenon
<1> QED BY <1>1, <1>2, <1>3, <1>4, Zenon

\* The other steps move one request to where it needs no budget, or nobody.
LEMMA OthersKeepInv ==
    ASSUME GatewayInv, traffic' = traffic, NEW r \in Reqs,
           \/ \E t \in Tokens : \/ MintBegin(r, t) \/ TagRead(r, t) \/ CreateBegin(r, t)
                                \/ \E u \in Uploads : AbortBegin(r, t, u)
           \/ CreateInsert(r) \/ PartDescribe(r) \/ PartRecord(r)
           \/ \E aged \in SUBSET traffic.aged : SweepBegin(r, aged)
           \/ DropKeys(r) \/ DropUpload(r)
    PROVE  GatewayInv'
<1>0. DOMAIN req[r] = Fields /\ DOMAIN NoReq = Fields
  BY Zenon DEF GatewayInv, TypeInv, Relies, NoReq, Fields
<1>1. UNCHANGED <<store, creds, lock>> /\ req[r].pc \notin {"list", "trim"}
  BY Zenon DEF MintBegin, TagRead, CreateBegin, AbortBegin, CreateInsert, PartDescribe, PartRecord, SweepBegin, DropKeys,
         DropUpload, Begin
<1>2. PICK q : /\ Step(r, q) /\ DOMAIN q = Fields
               /\ q.pc \in {"idle", "mint", "tag", "create", "keys", "record", "drop"}
  <2>1. CASE \E t \in Tokens : MintBegin(r, t)
    <3>1. PICK t \in Tokens : MintBegin(r, t)
      BY <2>1, Zenon
    <3> DEFINE q == [NoReq EXCEPT !.pc = "mint", !.tok = t]
    <3>2. Step(r, q)
      BY <3>1, Zenon DEF MintBegin
    <3>3. DOMAIN q = Fields /\ q.pc = "mint"
      BY DEF NoReq, Fields
    <3> QED BY <3>2, <3>3, Zenon
  <2>2. CASE \E t \in Tokens : TagRead(r, t)
    <3>1. PICK t \in Tokens : TagRead(r, t)
      BY <2>2
    <3> DEFINE q == [Request("tag", t, Obj) EXCEPT !.pc = "tag", !.size = store[Obj].mpu]
    <3>2. Step(r, q)
      BY <3>1, Zenon DEF TagRead
    <3>3. DOMAIN q = Fields /\ q.pc = "tag"
      BY DEF Request, NoReq, Fields
    <3> QED BY <3>2, <3>3, Zenon
  <2>3. CASE \E t \in Tokens : CreateBegin(r, t)
    <3>1. PICK t \in Tokens : CreateBegin(r, t)
      BY <2>3
    <3> DEFINE q == [Request("create", t, None) EXCEPT !.pc = "create"]
    <3>2. Step(r, q)
      BY <3>1 DEF CreateBegin
    <3>3. DOMAIN q = Fields /\ q.pc = "create"
      BY DEF Request, NoReq, Fields
    <3> QED BY <3>2, <3>3, Zenon
  <2>4. CASE \E t \in Tokens, u \in Uploads : AbortBegin(r, t, u)
    <3>1. PICK t \in Tokens, u \in Uploads : AbortBegin(r, t, u)
      BY <2>4
    <3> DEFINE q == [Request("abort", t, None) EXCEPT !.pc = "keys", !.set = {u}]
    <3>2. Step(r, q)
      BY <3>1, Zenon DEF AbortBegin
    <3>3. DOMAIN q = Fields /\ q.pc = "keys"
      BY DEF Request, NoReq, Fields
    <3> QED BY <3>2, <3>3, Zenon
  <2>5. CASE \E aged \in SUBSET traffic.aged : SweepBegin(r, aged)
    <3>1. PICK set : Step(r, [NoReq EXCEPT !.op = "sweep", !.pc = "keys", !.set = set])
      BY <2>5, Zenon DEF SweepBegin
    <3> DEFINE q == [NoReq EXCEPT !.op = "sweep", !.pc = "keys", !.set = set]
    <3>2. DOMAIN q = Fields /\ q.pc = "keys"
      BY DEF NoReq, Fields
    <3> QED BY <3>1, <3>2, Zenon
  <2>6. CASE CreateInsert(r) \/ PartRecord(r)
    <3>1. Step(r, NoReq)
      BY <2>6 DEF CreateInsert, PartRecord, Return
    <3> QED BY <1>0, <3>1, Idle, Zenon
  <2>7. CASE PartDescribe(r)
    <3> DEFINE q == [req[r] EXCEPT !.pc = "record", !.body = store[req[r].key].body]
    <3>1. Step(r, NoReq) \/ Step(r, q)
      BY <2>7 DEF PartDescribe, Return
    <3>2. DOMAIN q = Fields /\ q.pc = "record"
      BY <1>0 DEF Fields
    <3> QED BY <1>0, <3>1, <3>2, Idle, Zenon
  <2>8. CASE DropKeys(r)
    <3>1. PICK key, left : Step(r, [req[r] EXCEPT !.pc = "drop", !.key = key, !.left = left])
      BY <2>8, Zenon DEF DropKeys
    <3> DEFINE q == [req[r] EXCEPT !.pc = "drop", !.key = key, !.left = left]
    <3>2. DOMAIN q = Fields /\ q.pc = "drop"
      BY <1>0 DEF Fields
    <3> QED BY <3>1, <3>2, Zenon
  <2>9. CASE DropUpload(r)
    <3> DEFINE q == [req[r] EXCEPT !.pc = "keys", !.set = req[r].set \ {req[r].key}]
    <3>1. Step(r, NoReq) \/ Step(r, q)
      BY <2>9 DEF DropUpload, Return
    <3>2. DOMAIN q = Fields /\ q.pc = "keys"
      BY <1>0, Zenon DEF Fields
    <3> QED BY <1>0, <3>1, <3>2, Idle, Zenon
  <2> QED BY <2>1, <2>2, <2>3, <2>4, <2>5, <2>6, <2>7, <2>8, <2>9, Zenon
<1> QED BY <1>1, <1>2, AsideStep, Zenon

LEMMA CredentialsGo ==
    ASSUME GatewayInv, traffic' = traffic, NEW r \in Reqs,
           \/ \E t \in Tokens, c \in Creds : Revoke(r, t, c)
           \/ \E c \in Creds : VerifyFails(r, c)
           \/ SweepCreds(r)
    PROVE  GatewayInv'
<1>0. DOMAIN creds = Creds
  BY Zenon DEF GatewayInv, TypeInv
<1>1. UNCHANGED <<store, req, lock>>
  BY Zenon DEF Revoke, VerifyFails, SweepCreds
<1>2. DOMAIN creds' = Creds /\ \A c \in Creds : creds'[c] = creds[c] \/ creds'[c] = None
  BY <1>0 DEF Revoke, VerifyFails, SweepCreds
<1> QED BY <1>1, <1>2, BystanderStep, Zenon

-----------------------------------------------------------------------------
(* The invariant, and what follows from it.                                *)

LEMMA InitInv == ASSUME Init PROVE GatewayInv
<1>1. TypeInv /\ \A r \in Reqs : req[r].pc = "idle" /\ ~Writing(req[r])
  BY Idle, Zenon DEF Init, TypeInv
<1>2. SizeOf \in [Keys -> Nat] /\ \A k \in Keys : SizeOf[k] = 0
  BY DEF Init, SizeOf
<1>3. Bytes(SizeOf) = {}
  BY <1>2 DEF Bytes
<1>4. Usage = 0
  BY <1>3, FS_EmptySet, Zenon DEF Usage
<1>5. QuotaKept /\ Permitted
  <2>1. traffic.quota \in Nat \cup {None}
    BY <1>1, MixAssumption, Zenon DEF TypeInv
  <2> QED BY <1>1, <1>4, <2>1 DEF QuotaKept, Permitted
<1>6. ASSUME NEW t \in Tokens PROVE Cardinality(Of(t) \ Doomed) <= MaxPerSession
  <2>1. Of(t) \ Doomed \in SUBSET {t}
    BY SMTT(20), Zenon, NoneAssumption, SizeAssumption DEF Of, Init, Tokens
  <2>2. IsFiniteSet({t}) /\ Cardinality({t}) = 1
    BY FS_Singleton, Zenon
  <2>3. Cardinality(Of(t) \ Doomed) <= 1 /\ Cardinality(Of(t) \ Doomed) \in Nat
    BY <2>1, <2>2, FS_Subset, FS_CardinalityType, Zenon
  <2> HIDE DEF Of, Doomed
  <2> QED BY <2>3, SizeAssumption
<1>7. Trimmed
  BY <1>1, <1>6 DEF Trimmed
<1> QED BY <1>1, <1>5, <1>7 DEF GatewayInv

LEMMA NextInv == ASSUME GatewayInv, [Next]_vars PROVE GatewayInv'
<1>1. CASE \E r \in Reqs : ReqNext(r) /\ traffic' = traffic
  <2>1. PICK r \in Reqs : ReqNext(r) /\ traffic' = traffic
    BY <1>1, Zenon
  <2>2. CASE (\E t \in Tokens : RefreshReissue(r, t)) \/ RekeyList(r) \/ RekeyCreds(r) \/ RekeyUploads(r)
    BY <2>1, <2>2, RefreshKeepsInv
  <2>3. CASE MintInsert(r) \/ MintList(r) \/ MintTrim(r)
    BY <2>1, <2>3, MintKeepsInv, Zenon
  <2>4. CASE WriteBudget(r)
    BY <2>1, <2>4, BudgetKeepsInv
  <2>5. CASE StreamFails(r) \/ StreamEnds(r) \/ (\E timer \in BOOLEAN : StreamChunk(r, timer))
    BY <2>1, <2>5, StreamKeepsInv
  <2>6. CASE Commit(r)
    BY <2>1, <2>6, CommitKeepsInv
  <2>7. CASE (\E t \in Tokens : Delete(r, t)) \/ TagWrite(r) \/ DropPart(r)
    BY <2>1, <2>7, ObjectsKeepInv, Zenon
  <2>8. CASE AssemblePart(r)
    BY <2>1, <2>8, AssembleKeepsInv
  <2>9. CASE \E t \in Tokens :
                \/ GetBegin(r, t)
                \/ \E size \in Sizes, said \in {0} \cup Sizes :
                     \/ PutBegin(r, t, size, said)
                     \/ \E u \in Uploads, n \in Parts : PartBegin(r, t, u, n, size, said)
                \/ \E u \in Uploads, list \in Lists : CompleteBegin(r, t, u, list)
    BY <2>1, <2>9, BeginsKeepInv
  <2>10. CASE \/ \E t \in Tokens : \/ MintBegin(r, t) \/ TagRead(r, t) \/ CreateBegin(r, t)
                                   \/ \E u \in Uploads : AbortBegin(r, t, u)
              \/ CreateInsert(r) \/ PartDescribe(r) \/ PartRecord(r)
              \/ \E aged \in SUBSET traffic.aged : SweepBegin(r, aged)
              \/ DropKeys(r) \/ DropUpload(r)
    BY <2>1, <2>10, OthersKeepInv, Zenon
  <2>11. CASE \/ \E t \in Tokens, c \in Creds : Revoke(r, t, c)
              \/ \E c \in Creds : VerifyFails(r, c)
              \/ SweepCreds(r)
    BY <2>1, <2>11, CredentialsGo, Zenon
  <2> QED BY <2>1, <2>2, <2>3, <2>4, <2>5, <2>6, <2>7, <2>8, <2>9, <2>10, <2>11, Zenon DEF ReqNext
<1>2. CASE (\E t \in Tokens : EndSession(t) \/ SwitchRow(t)) /\ traffic' = traffic
  <2>1. UNCHANGED <<store, traffic, req, lock, creds>>
    BY <1>2, Zenon DEF EndSession, SwitchRow
  <2>2. DOMAIN creds = Creds
    BY DEF GatewayInv, TypeInv
  <2> QED BY <2>1, <2>2, BystanderStep
<1>3. CASE UNCHANGED vars
  <2>1. UNCHANGED <<store, traffic, req, lock, creds>>
    BY <1>3 DEF vars
  <2>2. DOMAIN creds = Creds
    BY DEF GatewayInv, TypeInv
  <2> QED BY <2>1, <2>2, BystanderStep
<1> QED BY <1>1, <1>2, <1>3 DEF Next

\* (write_budget, SessionLeash, mint) A writer under a quota holds the permit from
\* reading the usage to its commit and the rest of the bucket leaves room for its
\* cap; what has passed a leash since it last looked bounds what passed too late;
\* the credentials no mint is about to remove are within the limit.
THEOREM GatewayInvHolds == Spec => []GatewayInv
<1>1. Init => GatewayInv
  BY InitInv
<1>2. GatewayInv /\ [Next]_vars => GatewayInv'
  BY NextInv
<1> QED BY <1>1, <1>2, PTL DEF Spec

\* (quota.rs) Whatever the number of clients, the keys and the quota, and whatever
\* length each client announces, the stored bytes never exceed the quota.
THEOREM QuotaIsKept == Spec => []QuotaKept
<1>1. GatewayInv => QuotaKept
  BY DEF GatewayInv
<1> QED BY <1>1, GatewayInvHolds, PTL

\* (s3/auth.rs, state.rs mint) A transfer moves fewer than Recheck units after its
\* session ended or was replaced, and between requests a session that was not
\* refreshed has no more credentials than its limit.
THEOREM SessionsAreLeashed == Spec => []Leashed
<1>1. ASSUME GatewayInv, NEW r \in Reqs, req[r].pc = "stream" PROVE req[r].late < Recheck
  <2>1. req[r].late \in Nat /\ req[r].since \in Nat /\ req[r].late <= req[r].since /\ req[r].since < Recheck
    BY <1>1, Zenon DEF GatewayInv, TypeInv, Relies
  <2> QED BY <2>1, SizeAssumption
<1>2. ASSUME GatewayInv, Quiet, NoRefresh, NEW t \in Tokens
      PROVE  Cardinality({c \in Creds : creds[c] = t}) <= MaxPerSession
  <2>1. Doomed = {}
    BY <1>2 DEF Quiet, Doomed
  <2>2. Cardinality(Of(t) \ Doomed) <= MaxPerSession
    BY <1>2 DEF GatewayInv, Trimmed, Quiet
  <2>3. Of(t) \ Doomed = {c \in Creds : creds[c] = t}
    BY <2>1 DEF Of
  <2> QED BY <2>2, <2>3
<1>3. GatewayInv => Leashed
  BY <1>1, <1>2 DEF Leashed, LeashBounds, CredsBounded
<1> QED BY <1>3, GatewayInvHolds, PTL
=============================================================================
