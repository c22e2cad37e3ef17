----------------------- MODULE EncryptedBackendProofs -----------------------
(***************************************************************************)
(* Proof that the encrypted file under redb never seals two plaintexts     *)
(* with one nonce, for every file length, every number of opens and calls  *)
(* and any of the faults, as long as no epoch is asked for more nonces     *)
(* than its sequence field holds.                                          *)
(***************************************************************************)
EXTENDS EncryptedBackend, TLAPS

\* The sequence field holds what is drawn in one epoch; and when writes may fail,
\* no epoch is filled, so that none is begun by a header whose write fails.
InField ==
    /\ MaxSeals <= MaxU48 + 1
    /\ "error" \in Faults => MaxSeals < MaxU48

Sequence(s) == s \in Seq({s[i] : i \in DOMAIN s})

Running == status \in {"opening", "open"}

\* The epoch the next open would read from the file.
EpochOf(f) == IF f.hdr \in {Absent, Torn} THEN 0 ELSE f.hdr[3].epoch

IsFile(f) ==
    /\ f = [hdr |-> f.hdr, blk |-> f.blk]
    /\ Sequence(f.blk)
    /\ f.hdr \in {Absent, Torn} \cup Headers

\* The file a power loss starts from, or has reached.
Base == IF status = "lost" THEN file ELSE stable

Seals(e) == e[1] \in {"seal", "torn", "short"}
SealsHeader(e) == e[1] = "seal" /\ e[2][2] = 0

EntryOK(e) ==
    /\ e[1] \in {"seal", "torn", "short", "trunc", "clear", "lost"}
    /\ Seals(e) => e[2][1] \in (Nat \ {0}) \X Nat /\ e[2][2] \in Nat
    /\ SealsHeader(e) => e[2] \in Headers /\ e[2][3].epoch = e[2][1][1]
    /\ e[1] \in {"torn", "short"} => e[2][2] # 0
    /\ e[1] = "trunc" => e[2] \in Nat

OpOK(op) ==
    /\ op[1] \in {"gap", "block", "rewrite", "reseal", "len", "trunc"} => op[2] \in Nat
    /\ op[1] = "header" => op[2] \in {0, 1}

TypeInv ==
    /\ status \in {"closed", "opening", "open", "lost"}
    /\ epoch \in 0..MaxU48 /\ seq \in 0..MaxSeals /\ logicalLen \in Nat
    /\ phys \in Nat /\ part \in {0, 1}
    /\ IsFile(file) /\ IsFile(stable)
    /\ Sequence(log) /\ \A i \in DOMAIN log : EntryOK(log[i])
    /\ Sequence(todo) /\ \A i \in DOMAIN todo : OpOK(todo[i])
    /\ \A a \in medium : a[1] \in Nat \X Nat
    /\ ~Running => todo = <<>>

\* The epoch in use is in the header on the medium, or is about to be.
Recorded == EpochOf(file) = epoch /\ EpochOf(stable) = epoch
Ahead(i, op) == i \in DOMAIN todo /\ todo[i][1] = op
Recording ==
    \/ Ahead(1, "clear") /\ Ahead(2, "header") /\ Ahead(3, "sync") /\ file.hdr = Torn
    \/ Ahead(1, "header") /\ Ahead(2, "sync") /\ EpochOf(file) < epoch /\ file.hdr # Torn
    \/ Ahead(1, "sync") /\ EpochOf(file) = epoch

EpochInv ==
    /\ Running => epoch > 0 /\ (Recorded \/ Recording)
    /\ status = "open" /\ ~Recorded => MaxSeals >= MaxU48
    /\ \A i \in DOMAIN todo : todo[i][1] = "clear" => i = 1 /\ file.hdr = Torn

\* What the medium holds is under an epoch that the header admits, whichever of the
\* logged operations a power loss keeps.
MediumInv ==
    /\ \A a \in medium : a[1][1] <= EpochOf(Base)
    /\ \A i \in DOMAIN log : Seals(log[i]) /\ ~SealsHeader(log[i]) => log[i][2][1][1] <= EpochOf(Base)
    /\ \A i \in DOMAIN log : SealsHeader(log[i]) => log[i][2][1][1] >= EpochOf(Base)
    /\ \A i, j \in DOMAIN log : i < j /\ SealsHeader(log[i]) /\ SealsHeader(log[j]) =>
          log[i][2][1][1] <= log[j][2][1][1]
    /\ \A i \in DOMAIN log : log[i][1] = "clear" => i = 1 /\ medium = {} /\ EpochOf(Base) = 0
    /\ Base.hdr = Torn => medium = {}
    /\ status # "lost" =>
          /\ file.hdr = Torn => log = <<>>
          /\ \A i \in DOMAIN log : Seals(log[i]) => log[i][2][1][1] <= EpochOf(file)
          /\ EpochOf(stable) <= EpochOf(file)
          /\ log = <<>> => stable = file

\* Every nonce on the medium has been drawn before the next one.
Past ==
    Running => \A a \in OnMedium : a[1][1] < epoch \/ (a[1][1] = epoch /\ a[1][2] < seq)

IInv == TypeInv /\ EpochInv /\ MediumInv /\ Past /\ NonceUnique

-----------------------------------------------------------------------------
(* Sequences.                                                              *)

LEMMA SeqOf ==
    ASSUME NEW S, NEW s \in Seq(S)
    PROVE  Sequence(s) /\ Len(s) \in Nat /\ DOMAIN s = 1..Len(s)
<1>1. Len(s) \in Nat /\ DOMAIN s = 1..Len(s) /\ s \in [1..Len(s) -> S]
    OBVIOUS
<1> DEFINE R == {s[i] : i \in DOMAIN s}
<1>2. s \in [1..Len(s) -> R]
    BY <1>1
<1>3. s \in Seq(R)
  <2> HIDE DEF R
  <2> QED
    BY <1>1, <1>2
<1> QED
    BY <1>1, <1>3 DEF Sequence

LEMMA SeqMade ==
    ASSUME NEW n \in Nat, NEW s, s = [i \in 1..n |-> s[i]]
    PROVE  Sequence(s) /\ Len(s) = n
<1>1. s \in [1..n -> {s[i] : i \in DOMAIN s}]
    OBVIOUS
<1> QED
    BY <1>1 DEF Sequence

LEMMA SeqFacts ==
    ASSUME NEW s, Sequence(s)
    PROVE  /\ Len(s) \in Nat /\ DOMAIN s = 1..Len(s)
           /\ s # <<>> <=> 1 \in DOMAIN s
           /\ s # <<>> => Head(s) = s[1]
BY DEF Sequence

LEMMA SeqTail ==
    ASSUME NEW s, Sequence(s), s # <<>>
    PROVE  /\ Sequence(Tail(s))
           /\ Len(Tail(s)) = Len(s) - 1
           /\ \A i \in DOMAIN Tail(s) : i + 1 \in DOMAIN s /\ Tail(s)[i] = s[i + 1]
<1> DEFINE S == {s[i] : i \in DOMAIN s}
<1>1. s \in Seq(S)
    BY DEF Sequence
<1>2. Tail(s) \in Seq(S)
    BY <1>1
<1>3. Sequence(Tail(s)) /\ DOMAIN Tail(s) = 1..Len(Tail(s))
    BY <1>2, SeqOf, Zenon
<1>4. Len(Tail(s)) = Len(s) - 1 /\ Len(s) \in Nat /\ DOMAIN s = 1..Len(s)
    BY <1>1
<1>5. \A i \in 1..(Len(s) - 1) : Tail(s)[i] = s[i + 1]
    BY <1>1
<1> QED
    BY <1>3, <1>4, <1>5

LEMMA SeqCat ==
    ASSUME NEW s, NEW t, Sequence(s), Sequence(t)
    PROVE  /\ Sequence(s \o t)
           /\ Len(s \o t) = Len(s) + Len(t)
           /\ \A i \in DOMAIN (s \o t) :
                IF i \in DOMAIN s THEN (s \o t)[i] = s[i]
                ELSE i - Len(s) \in DOMAIN t /\ (s \o t)[i] = t[i - Len(s)]
<1> DEFINE S == {s[i] : i \in DOMAIN s} \cup {t[i] : i \in DOMAIN t}
<1>0. Len(s) \in Nat /\ Len(t) \in Nat /\ DOMAIN s = 1..Len(s) /\ DOMAIN t = 1..Len(t)
    BY SeqFacts
<1>1. s \in Seq(S)
  <2>1. s \in [1..Len(s) -> {s[i] : i \in DOMAIN s}]
    BY DEF Sequence
  <2>2. s \in [1..Len(s) -> S]
    BY <2>1
  <2> QED
    BY <2>2, <1>0
<1>2. t \in Seq(S)
  <2>1. t \in [1..Len(t) -> {t[i] : i \in DOMAIN t}]
    BY DEF Sequence
  <2>2. t \in [1..Len(t) -> S]
    BY <2>1
  <2> QED
    BY <2>2, <1>0
<1> HIDE DEF S
<1>3. s \o t \in Seq(S) /\ Len(s \o t) = Len(s) + Len(t)
    BY <1>1, <1>2
<1>4. Sequence(s \o t) /\ DOMAIN (s \o t) = 1..Len(s \o t)
    BY <1>3, SeqOf, Zenon
<1>5. \A i \in 1..(Len(s) + Len(t)) : (s \o t)[i] = IF i <= Len(s) THEN s[i] ELSE t[i - Len(s)]
    BY <1>1, <1>2
<1> QED
    BY <1>0, <1>3, <1>4, <1>5

LEMMA SeqAppend ==
    ASSUME NEW s, NEW e, Sequence(s)
    PROVE  /\ Sequence(Append(s, e))
           /\ Len(Append(s, e)) = Len(s) + 1
           /\ Append(s, e)[Len(s) + 1] = e
           /\ \A i \in DOMAIN s : Append(s, e)[i] = s[i]
           /\ DOMAIN Append(s, e) = DOMAIN s \cup {Len(s) + 1}
<1> DEFINE S == {s[i] : i \in DOMAIN s} \cup {e}
<1>0. Len(s) \in Nat /\ DOMAIN s = 1..Len(s)
    BY SeqFacts
<1>1. s \in Seq(S)
  <2>1. s \in [1..Len(s) -> {s[i] : i \in DOMAIN s}]
    BY DEF Sequence
  <2>2. s \in [1..Len(s) -> S]
    BY <2>1
  <2> QED
    BY <2>2, <1>0
<1> HIDE DEF S
<1>e. e \in S
    BY DEF S
<1>3. Append(s, e) \in Seq(S) /\ Len(Append(s, e)) = Len(s) + 1
    BY <1>1, <1>e
<1>4. Sequence(Append(s, e)) /\ DOMAIN Append(s, e) = 1..(Len(s) + 1)
    BY <1>3, SeqOf, Zenon
<1>5. \A i \in 1..Len(s) : Append(s, e)[i] = s[i]
    BY <1>1, <1>e
<1>6. Append(s, e)[Len(s) + 1] = e
    BY <1>1, <1>e
<1> QED
    BY <1>0, <1>3, <1>4, <1>5, <1>6

-----------------------------------------------------------------------------
(* The file and the log.                                                   *)

LEMMA PutAtFile ==
    ASSUME NEW f, NEW at \in Nat, NEW block, IsFile(f)
    PROVE  IsFile(PutAt(f, at, block)) /\ PutAt(f, at, block).hdr = f.hdr
<1>1. Len(f.blk) \in Nat
    BY SeqFacts DEF IsFile
<1> DEFINE n == Max2(Len(f.blk), at)
           b == [i \in 1..n |->
                   IF i = at THEN block
                   ELSE IF i <= Len(f.blk) /\ f.blk[i] # Partial THEN f.blk[i] ELSE Torn]
<1>2. n \in Nat
    BY <1>1 DEF Max2
<1>3. Sequence(b)
  <2>1. b = [i \in 1..n |-> b[i]]
    OBVIOUS
  <2> HIDE DEF b, n
  <2> QED
    BY <1>2, <2>1, SeqMade
<1>4. PutAt(f, at, block) = [hdr |-> f.hdr, blk |-> b]
  <2>1. PutAt(f, at, block) = [f EXCEPT !.blk = b]
    BY DEF PutAt
  <2>2. f = [hdr |-> f.hdr, blk |-> f.blk]
    BY DEF IsFile
  <2> HIDE DEF b
  <2> QED
    BY <2>1, <2>2
<1> HIDE DEF b
<1> QED
    BY <1>3, <1>4 DEF IsFile

\* What a logged operation does to the header.
LEMMA ApplyFile ==
    ASSUME NEW f, NEW e, IsFile(f), EntryOK(e)
    PROVE  /\ IsFile(Apply(f, e))
           /\ SealsHeader(e) => Apply(f, e).hdr = e[2]
           /\ e[1] = "clear" => Apply(f, e).hdr = Absent
           /\ ~SealsHeader(e) /\ e[1] # "clear" => Apply(f, e).hdr = f.hdr
<1>f. f = [hdr |-> f.hdr, blk |-> f.blk] /\ Sequence(f.blk) /\ f.hdr \in {Absent, Torn} \cup Headers
    BY DEF IsFile
<1>1. CASE SealsHeader(e)
  <2>1. Apply(f, e) = [f EXCEPT !.hdr = e[2]]
    BY <1>1 DEF Apply, SealsHeader
  <2>2. Apply(f, e) = [hdr |-> e[2], blk |-> f.blk]
    BY <2>1, <1>f
  <2>3. e[2] \in Headers /\ e[1] # "clear"
    BY <1>1 DEF EntryOK, SealsHeader
  <2> QED
    BY <1>1, <2>2, <2>3, <1>f DEF IsFile
<1>2. CASE e[1] = "seal" /\ ~SealsHeader(e)
  <2>1. Apply(f, e) = PutAt(f, e[2][2], e[2]) /\ e[2][2] \in Nat
    BY <1>2 DEF Apply, SealsHeader, EntryOK, Seals
  <2> QED
    BY <1>2, <2>1, PutAtFile
<1>3. CASE e[1] = "torn"
  <2>1. Apply(f, e) = PutAt(f, e[2][2], Torn) /\ e[2][2] \in Nat /\ ~SealsHeader(e)
    BY <1>3 DEF Apply, SealsHeader, EntryOK, Seals
  <2> QED
    BY <1>3, <2>1, PutAtFile
<1>4. CASE e[1] = "short"
  <2>1. /\ Apply(f, e) = PutAt(f, e[2][2], IF e[2][2] > Len(f.blk) THEN Partial ELSE Torn)
        /\ e[2][2] \in Nat /\ ~SealsHeader(e)
    BY <1>4 DEF Apply, SealsHeader, EntryOK, Seals
  <2> QED
    BY <1>4, <2>1, PutAtFile
<1>5. CASE e[1] = "trunc"
  <2> DEFINE n == IF e[2] < Len(f.blk) THEN e[2] ELSE Len(f.blk)
             b == SubSeq(f.blk, 1, n)
  <2>1. Apply(f, e) = [f EXCEPT !.blk = b] /\ ~SealsHeader(e)
    BY <1>5 DEF Apply, SealsHeader
  <2>2. n \in 0..Len(f.blk) /\ Len(f.blk) \in Nat
    BY <1>5, <1>f, SeqFacts DEF EntryOK
  <2>3. Sequence(b)
    <3> DEFINE S == {f.blk[i] : i \in DOMAIN f.blk}
    <3>1. f.blk \in Seq(S)
      BY <1>f DEF Sequence
    <3> HIDE DEF S, n
    <3>2. b \in Seq(S)
      BY <2>2, <3>1
    <3> HIDE DEF b
    <3> QED
      BY <3>2, SeqOf
  <2> HIDE DEF b
  <2>4. Apply(f, e) = [hdr |-> f.hdr, blk |-> b]
    BY <2>1, <1>f
  <2> QED
    BY <1>5, <2>1, <2>3, <2>4, <1>f DEF IsFile
<1>6. CASE e[1] = "clear"
  <2>1. Apply(f, e) = [hdr |-> Absent, blk |-> <<>>] /\ ~SealsHeader(e)
    BY <1>6 DEF Apply, EmptyFile, SealsHeader
  <2>2. Sequence(<<>>)
    BY DEF Sequence
  <2> QED
    BY <1>6, <2>1, <2>2 DEF IsFile
<1>7. CASE e[1] = "lost"
    BY <1>7 DEF Apply, SealsHeader
<1> QED
    BY <1>1, <1>2, <1>3, <1>4, <1>5, <1>6, <1>7 DEF EntryOK

LEMMA EpochFacts ==
    ASSUME NEW f, IsFile(f)
    PROVE  /\ EpochOf(f) \in Nat
           /\ f.hdr \in {Absent, Torn} => EpochOf(f) = 0
           /\ f.hdr \in Headers => EpochOf(f) = f.hdr[3].epoch
<1>1. \A h \in Headers : h[3].epoch \in Nat
    BY DEF Headers
<1> QED
    BY <1>1, MarkAssumption DEF IsFile, EpochOf

\* The epoch a file carries after a logged operation.
LEMMA ApplyEpoch ==
    ASSUME NEW f, NEW e, IsFile(f), EntryOK(e)
    PROVE  /\ SealsHeader(e) => EpochOf(Apply(f, e)) = e[2][1][1] /\ Apply(f, e).hdr # Torn
           /\ e[1] = "clear" => EpochOf(Apply(f, e)) = 0 /\ Apply(f, e).hdr # Torn
           /\ ~SealsHeader(e) /\ e[1] # "clear" => EpochOf(Apply(f, e)) = EpochOf(f)
<1>1. SealsHeader(e) => e[2] \in Headers /\ e[2][3].epoch = e[2][1][1]
    BY DEF EntryOK
<1> QED
    BY <1>1, ApplyFile, EpochFacts, MarkAssumption DEF EpochOf

LEMMA SealsOfAppend ==
    ASSUME NEW l, NEW e, Sequence(l)
    PROVE  SealsOf(Append(l, e)) = SealsOf(l) \cup (IF Seals(e) THEN {e[2]} ELSE {})
<1> DEFINE m == Append(l, e)
           k == Len(l) + 1
<1>1. /\ DOMAIN m = DOMAIN l \cup {k} /\ m[k] = e /\ \A i \in DOMAIN l : m[i] = l[i]
    BY SeqAppend
<1> HIDE DEF m, k
<1>2. SealsOf(m) = SealsOf(l) \cup (IF Seals(e) THEN {e[2]} ELSE {})
    BY <1>1 DEF SealsOf, Seals
<1> QED
    BY <1>2 DEF m

LEMMA SealsOfMember ==
    ASSUME NEW l, NEW i \in DOMAIN l, Seals(l[i])
    PROVE  l[i][2] \in SealsOf(l)
BY DEF SealsOf, Seals

-----------------------------------------------------------------------------
(* Plans.                                                                  *)

Plan(s) == Sequence(s) /\ \A i \in DOMAIN s : OpOK(s[i]) /\ s[i][1] # "clear"

LEMMA PlanEmpty == Plan(<<>>)
BY DEF Plan, Sequence

LEMMA PlanOne ==
    ASSUME NEW op, OpOK(op), op[1] # "clear"
    PROVE  Plan(<<op>>) /\ Len(<<op>>) = 1 /\ DOMAIN <<op>> = 1..1 /\ <<op>>[1] = op
<1>1. <<op>> \in Seq({op}) /\ Len(<<op>>) = 1 /\ <<op>>[1] = op
    OBVIOUS
<1>2. Sequence(<<op>>) /\ DOMAIN <<op>> = 1..1
    BY <1>1, SeqOf, Zenon
<1> QED
    BY <1>1, <1>2 DEF Plan

LEMMA PlanCat ==
    ASSUME NEW s, NEW t, Plan(s), Plan(t)
    PROVE  Plan(s \o t)
BY SeqCat, SMTT(60) DEF Plan

LEMMA PlanTail ==
    ASSUME NEW s, Sequence(s), s # <<>>, \A i \in DOMAIN s : OpOK(s[i]),
           \A i \in DOMAIN s : s[i][1] = "clear" => i = 1
    PROVE  Plan(Tail(s))
<1>1. \A i \in DOMAIN Tail(s) : i \in Nat /\ i > 0
    BY SeqTail, SeqFacts
<1>2. \A i \in DOMAIN Tail(s) : i + 1 # 1
    BY <1>1
<1> QED
    BY <1>2, SeqTail DEF Plan

LEMMA SealBlockPlan ==
    ASSUME NEW i \in Nat, NEW plain, NEW end \in Nat
    PROVE  Plan(SealBlock(i, plain, end))
<1> DEFINE n == IF i > end THEN i - end ELSE 0
           gap == [g \in 1..n |-> <<"gap", end + g - 1, Zero>>]
<1>1. n \in Nat
    OBVIOUS
<1>2. Plan(gap)
  <2>1. gap = [g \in 1..n |-> gap[g]] /\ DOMAIN gap = 1..n
    OBVIOUS
  <2>2. \A g \in DOMAIN gap : OpOK(gap[g]) /\ gap[g][1] # "clear"
    BY DEF OpOK
  <2> HIDE DEF gap, n
  <2>3. Sequence(gap)
    BY <1>1, <2>1, SeqMade
  <2> QED
    BY <2>2, <2>3 DEF Plan
<1>3. Plan(<<<<"ensure">>>>)
    BY PlanOne DEF OpOK
<1>4. Plan(<<<<"block", i, plain>>>>)
    BY PlanOne DEF OpOK
<1>5. SealBlock(i, plain, end) = <<<<"ensure">>>> \o gap \o <<<<"block", i, plain>>>>
    BY DEF SealBlock
<1> HIDE DEF gap
<1> QED
    BY <1>2, <1>3, <1>4, <1>5, PlanCat

\* A header and a sync, which come first.
LEMMA HeaderSync ==
    ASSUME NEW h \in {0, 1}, NEW rest, Plan(rest)
    PROVE  LET p == <<<<"header", h>>, <<"sync">>>> \o rest
           IN  Plan(p) /\ {1, 2} \subseteq DOMAIN p /\ p[1][1] = "header" /\ p[2][1] = "sync"
<1> DEFINE hs == <<<<"header", h>>, <<"sync">>>>
           p == hs \o rest
<1>1. hs \in Seq({<<"header", h>>, <<"sync">>}) /\ Len(hs) = 2 /\ DOMAIN hs = 1..2
    OBVIOUS
<1>1a. hs[1][1] = "header" /\ hs[2][1] = "sync" /\ hs[1][2] = h
    OBVIOUS
<1>2. Plan(hs)
  <2>1. Sequence(hs)
    BY <1>1, SeqOf, Zenon
  <2>2. \A i \in 1..2 : i = 1 \/ i = 2
    OBVIOUS
  <2> HIDE DEF hs
  <2> QED
    BY <1>1, <1>1a, <2>1, <2>2 DEF Plan, OpOK
<1> HIDE DEF hs
<1>3. Plan(p)
    BY <1>2, PlanCat
<1>4. Len(rest) \in Nat /\ Sequence(rest) /\ Sequence(hs)
    BY <1>2, SeqFacts DEF Plan
<1>5. Sequence(p) /\ Len(p) = 2 + Len(rest)
    BY <1>1, <1>4, SeqCat, Zenon
<1>6. {1, 2} \subseteq DOMAIN p
    BY <1>4, <1>5, SeqFacts
<1>7. \A i \in DOMAIN p : i \in DOMAIN hs => p[i] = hs[i]
    BY <1>4, SeqCat
<1>8. p[1] = hs[1] /\ p[2] = hs[2]
    BY <1>1, <1>6, <1>7
<1> QED
    BY <1>1a, <1>3, <1>6, <1>8 DEF hs

OpenStarts(p, clear) ==
    /\ Sequence(p) /\ \A i \in DOMAIN p : OpOK(p[i])
    /\ \A i \in DOMAIN p : p[i][1] = "clear" => i = 1 /\ clear
    /\ clear => {1, 2, 3} \subseteq DOMAIN p /\ p[1][1] = "clear" /\ p[2][1] = "header" /\ p[3][1] = "sync"
    /\ ~clear => {1, 2} \subseteq DOMAIN p /\ p[1][1] = "header" /\ p[2][1] = "sync"

LEMMA OpenPlanStarts ==
    ASSUME NEW clear \in BOOLEAN, NEW reseal \in BOOLEAN, NEW blocks \in Nat
    PROVE  OpenStarts(OpenPlan(clear, reseal, blocks), clear)
<1> DEFINE all == [i \in 1..blocks |-> <<"reseal", i - 1>>]
           last == <<<<"header", 0>>, <<"sync">>>>
           rest == IF reseal THEN all \o last ELSE <<>>
           h == IF reseal THEN 1 ELSE 0
           hs == <<<<"header", h>>, <<"sync">>>>
           q == hs \o rest
           c == IF clear THEN <<<<"clear">>>> ELSE <<>>
           p == OpenPlan(clear, reseal, blocks)
<1>1. Plan(all)
  <2>1. all = [i \in 1..blocks |-> all[i]] /\ DOMAIN all = 1..blocks
    OBVIOUS
  <2>2. \A i \in DOMAIN all : OpOK(all[i]) /\ all[i][1] # "clear"
    BY DEF OpOK
  <2> HIDE DEF all
  <2>3. Sequence(all)
    BY <2>1, SeqMade
  <2> QED
    BY <2>2, <2>3 DEF Plan
<1>2. Plan(last)
  <2>1. last = last \o <<>>
    OBVIOUS
  <2> QED
    BY <2>1, HeaderSync, PlanEmpty, Zenon
<1> HIDE DEF all, last
<1>3. Plan(rest)
    BY <1>1, <1>2, PlanCat, PlanEmpty
<1>4. p = (c \o hs) \o rest
    BY DEF OpenPlan, all, last
<1> HIDE DEF rest
<1>5. Plan(q) /\ {1, 2} \subseteq DOMAIN q /\ q[1][1] = "header" /\ q[2][1] = "sync"
    BY <1>3, HeaderSync
<1>6. ASSUME ~clear PROVE OpenStarts(p, clear)
  <2>1. p = q
    BY <1>4, <1>6
  <2> HIDE DEF p, q
  <2> QED
    BY <1>5, <1>6, <2>1 DEF Plan, OpenStarts
<1>7. ASSUME clear PROVE OpenStarts(p, clear)
  <2> DEFINE cl == <<<<"clear">>>>
  <2>1. cl \in Seq({<<"clear">>}) /\ Len(cl) = 1 /\ DOMAIN cl = 1..1 /\ cl[1] = <<"clear">>
    OBVIOUS
  <2>2. Sequence(cl)
    BY <2>1, SeqOf, Zenon
  <2>3. hs \in Seq({<<"header", h>>, <<"sync">>})
    OBVIOUS
  <2>4. Sequence(hs)
    BY <2>3, SeqOf, Zenon
  <2>5. p = cl \o q
    <3> DEFINE A == {cl[i] : i \in DOMAIN cl}
               B == {hs[i] : i \in DOMAIN hs}
               D == {rest[i] : i \in DOMAIN rest}
               S == A \cup B \cup D
    <3>1. cl \in Seq(A) /\ hs \in Seq(B) /\ rest \in Seq(D)
      BY <1>3, <2>2, <2>4 DEF Sequence, Plan
    <3>2. A \subseteq S /\ B \subseteq S /\ D \subseteq S
      OBVIOUS
    <3> HIDE DEF S, A, B, D
    <3>3. cl \in Seq(S) /\ hs \in Seq(S) /\ rest \in Seq(S)
      BY <3>1, <3>2
    <3> HIDE DEF cl, hs
    <3>4. (cl \o hs) \o rest = cl \o (hs \o rest)
      BY <3>3
    <3> QED
      BY <1>4, <1>7, <3>4 DEF cl
  <2> HIDE DEF p, q, cl
  <2>6. Sequence(q) /\ Len(q) \in Nat /\ Len(q) >= 2 /\ DOMAIN q = 1..Len(q)
    BY <1>5, SeqFacts DEF Plan
  <2>7. Sequence(p) /\ Len(p) = 1 + Len(q)
    BY <2>1, <2>2, <2>5, <2>6, SeqCat, Zenon
  <2>8. DOMAIN p = 1..(1 + Len(q))
    BY <2>7, SeqFacts
  <2>9. p[1] = <<"clear">> /\ \A i \in DOMAIN p : i # 1 => i - 1 \in DOMAIN q /\ p[i] = q[i - 1]
    BY <2>1, <2>2, <2>5, <2>6, <2>8, SeqCat
  <2>10. \A i \in DOMAIN p : OpOK(p[i])
    BY <1>5, <2>9 DEF Plan, OpOK
  <2>11. {1, 2, 3} \subseteq DOMAIN p
    BY <2>6, <2>8
  <2>12. p[2] = q[1] /\ p[3] = q[2]
    BY <2>9, <2>11
  <2>13. p[1][1] = "clear"
    BY <2>9
  <2> QED
    BY <1>5, <1>7, <2>7, <2>9, <2>10, <2>11, <2>12, <2>13 DEF Plan, OpenStarts
<1> QED
    BY <1>6, <1>7

LEMMA DivNat == ASSUME NEW a \in Nat PROVE a \div BlockSize \in Nat
BY SizeAssumption

LEMMA WritePlanOK ==
    ASSUME NEW off \in Nat, NEW n \in Nat \ {0}, NEW v
    PROVE  Plan(WritePlan(off, n, v))
<1> DEFINE first == off \div BlockSize
           last == (off + n - 1) \div BlockSize
           k == last - first + 1
           body == [j \in 1..k |-> <<"rewrite", first + j - 1, off, n, v>>]
           len == IF off + n > logicalLen THEN <<<<"len", off + n>>, <<"header", 0>>>> ELSE <<>>
<1>1. first \in Nat /\ last \in Nat
    BY DivNat
<1>2. first <= last
    BY SizeAssumption
<1>3. k \in Nat
    BY <1>1, <1>2
<1>4. Plan(body)
  <2> HIDE DEF first, k
  <2>1. body = [i \in 1..k |-> body[i]] /\ DOMAIN body = 1..k
    OBVIOUS
  <2>2. \A i \in DOMAIN body : OpOK(body[i]) /\ body[i][1] # "clear"
    BY <1>1, <1>3 DEF OpOK
  <2> HIDE DEF body
  <2>3. Sequence(body)
    BY <1>3, <2>1, SeqMade
  <2> QED
    BY <2>2, <2>3 DEF Plan
<1>5. Plan(len)
  <2>1. Plan(<<<<"len", off + n>>>>) /\ Plan(<<<<"header", 0>>>>)
    BY PlanOne DEF OpOK
  <2>2. <<<<"len", off + n>>, <<"header", 0>>>> = <<<<"len", off + n>>>> \o <<<<"header", 0>>>>
    OBVIOUS
  <2> QED
    BY <2>1, <2>2, PlanCat, PlanEmpty, Zenon
<1>6. WritePlan(off, n, v) = body \o len
    BY DEF WritePlan
<1> HIDE DEF body, len
<1> QED
    BY <1>4, <1>5, <1>6, PlanCat

LEMMA SetLenPlanOK ==
    ASSUME NEW l \in Nat
    PROVE  Plan(SetLenPlan(l))
<1> DEFINE needed == CeilDiv(l, BlockSize)
           i == l \div BlockSize
           present == l % BlockSize # 0 /\ i < phys
           kept == [c \in 0..BlockSize - 1 |-> IF c < l % BlockSize THEN ReadBlock(i)[c] ELSE 0]
           cut == IF phys + part > needed THEN <<<<"trunc", needed>>>> ELSE <<>>
           end == IF ~present THEN <<>>
                  ELSE IF Unreadable(i) THEN <<<<"fail">>>> ELSE SealBlock(i, kept, needed)
<1>1. needed \in Nat /\ i \in Nat
    BY DivNat, SizeAssumption DEF CeilDiv
<1>2. SetLenPlan(l) = <<<<"len", l>>>> \o cut \o end \o <<<<"header", 0>>>>
    BY DEF SetLenPlan
<1> HIDE DEF needed, i, present, kept
<1>3. Plan(<<<<"len", l>>>>) /\ Plan(<<<<"trunc", needed>>>>) /\ Plan(<<<<"fail">>>>) /\ Plan(<<<<"header", 0>>>>)
    BY <1>1, PlanOne DEF OpOK
<1>4. Plan(cut) /\ Plan(end)
    BY <1>1, <1>3, PlanEmpty, SealBlockPlan
<1> HIDE DEF cut, end
<1> QED
    BY <1>2, <1>3, <1>4, PlanCat

-----------------------------------------------------------------------------
(* Steps that leave the file and its log alone.                            *)

LEMMA QuietMedium ==
    ASSUME MediumInv, NonceUnique, status # "lost", status' # "lost",
           UNCHANGED <<file, stable, log, medium>>
    PROVE  MediumInv' /\ NonceUnique' /\ OnMedium' = OnMedium
<1>1. Base' = Base
    BY DEF Base
<1>2. MediumInv'
    BY <1>1, Zenon DEF MediumInv, EpochOf, Seals, SealsHeader
<1>3. OnMedium' = OnMedium
    BY DEF OnMedium, SealsOf
<1> QED
    BY <1>2, <1>3 DEF NonceUnique

\* Outside the first operations of an open or of a rollover the epoch is recorded.
LEMMA IsRecorded ==
    ASSUME TypeInv, EpochInv, Running, ~Is("clear"), ~Is("header"), ~Is("sync")
    PROVE  Recorded
<1>1. Sequence(todo)
    BY DEF TypeInv
<1>2. ~Ahead(1, "clear") /\ ~Ahead(1, "header") /\ ~Ahead(1, "sync")
    BY <1>1, SeqFacts DEF Ahead, Is
<1> QED
    BY <1>2 DEF EpochInv, Recording

\* The epoch is recorded and stays; at most a nonce is drawn and given up.
LEMMA QuietStep ==
    ASSUME IInv, Running, Recorded, UNCHANGED <<file, stable, log, medium, epoch, phys, part>>,
           seq' \in 0..MaxSeals, seq' >= seq, logicalLen' \in Nat,
           status' \in {"closed", "opening", "open"}, Plan(todo'), ~Running' => todo' = <<>>
    PROVE  IInv'
<1> USE DEF IInv
<1>1. status # "lost" /\ status' # "lost"
    BY DEF Running
<1>2. MediumInv' /\ NonceUnique' /\ OnMedium' = OnMedium
    BY <1>1, QuietMedium
<1>3. TypeInv'
    BY DEF TypeInv, IsFile, EntryOK, Seals, SealsHeader, Plan
<1>4. Recorded'
    BY DEF Recorded, EpochOf
<1>5. EpochInv'
    BY <1>4 DEF EpochInv, Plan
<1>6. Past'
  <2>1. \A a \in OnMedium : a[1][1] < epoch \/ (a[1][1] = epoch /\ a[1][2] < seq)
    BY DEF Past
  <2>2. \A a \in OnMedium : a[1] \in Nat \X Nat
    BY DEF TypeInv, OnMedium, SealsOf, EntryOK, Seals
  <2>3. \A a \in OnMedium : a[1][2] \in Nat
    BY <2>2
  <2>4. seq \in Nat /\ seq' \in Nat
    BY SizeAssumption DEF TypeInv
  <2>5. \A a \in OnMedium : a[1][1] < epoch' \/ (a[1][1] = epoch' /\ a[1][2] < seq')
    BY <2>1, <2>3, <2>4
  <2> QED
    BY <1>2, <2>5 DEF Past
<1> QED
    BY <1>2, <1>3, <1>5, <1>6

\* The backend is gone, and the file with its log is as it was.
LEMMA StopStep ==
    ASSUME IInv, status # "lost", status' = "closed", todo' = <<>>,
           UNCHANGED <<file, stable, log, medium>>,
           epoch' \in 0..MaxU48, seq' \in 0..MaxSeals, logicalLen' \in Nat, phys' \in Nat, part' \in {0, 1}
    PROVE  IInv'
<1> USE DEF IInv
<1>1. MediumInv' /\ NonceUnique'
    BY QuietMedium
<1>2. Plan(todo')
    BY PlanEmpty
<1>3. TypeInv'
    BY <1>2 DEF TypeInv, IsFile, EntryOK, Seals, SealsHeader, Plan
<1>4. ~Running' /\ todo' = <<>>
    BY DEF Running
<1>5. EpochInv' /\ Past'
    BY <1>4 DEF EpochInv, Past
<1> QED
    BY <1>1, <1>3, <1>5

\* The rest of a plan.
LEMMA RestPlan ==
    ASSUME TypeInv, EpochInv, todo # <<>>
    PROVE  /\ Running /\ Sequence(todo) /\ 1 \in DOMAIN todo /\ Head(todo) = todo[1] /\ OpOK(Head(todo))
           /\ Plan(Tail(todo))
<1>1. Sequence(todo) /\ Running /\ \A i \in DOMAIN todo : OpOK(todo[i])
    BY DEF TypeInv
<1>2. 1 \in DOMAIN todo /\ Head(todo) = todo[1]
    BY <1>1, SeqFacts
<1>3. Plan(Tail(todo))
    BY <1>1, PlanTail DEF EpochInv
<1> QED
    BY <1>1, <1>2, <1>3

LEMMA CallStep ==
    ASSUME IInv, NEW plan, Plan(plan), Call(plan)
    PROVE  IInv'
<1>1. Running /\ ~Is("clear") /\ ~Is("header") /\ ~Is("sync") /\ Running'
    BY DEF Call, Running, Is
<1>2. Recorded
    BY <1>1, IsRecorded DEF IInv
<1>3. seq \in 0..MaxSeals /\ seq \in Nat /\ logicalLen \in Nat
    BY SizeAssumption DEF IInv, TypeInv
<1> QED
    BY <1>1, <1>2, <1>3, QuietStep DEF Call, inner

LEMMA CloseStep ==
    ASSUME IInv, Close
    PROVE  IInv'
BY StopStep, SizeAssumption DEF Close

LEMMA KillStep ==
    ASSUME IInv, Kill
    PROVE  IInv'
BY StopStep, SizeAssumption DEF Kill, Forgotten

LEMMA FailedStep ==
    ASSUME IInv, todo # <<>>, Recorded \/ status # "open", Failed,
           UNCHANGED <<file, stable, log, medium, epoch, logicalLen, phys, part>>,
           seq' \in 0..MaxSeals, seq' >= seq
    PROVE  IInv'
<1>1. Running
    BY RestPlan DEF IInv
<1>2. epoch \in 0..MaxU48 /\ logicalLen \in Nat /\ phys \in Nat /\ part \in {0, 1}
    BY DEF IInv, TypeInv
<1>3. CASE status = "opening"
  <2>1. status' = "closed" /\ todo' = <<>>
    BY <1>3 DEF Failed
  <2> QED
    BY <1>2, <1>3, <2>1, StopStep
<1>4. CASE status = "open"
  <2>1. status' = "open" /\ todo' = <<>>
    BY <1>4 DEF Failed
  <2>2. Recorded /\ Plan(todo')
    BY <1>4, <2>1, PlanEmpty
  <2> QED
    BY <1>1, <1>2, <2>1, <2>2, QuietStep
<1> QED
    BY <1>1, <1>3, <1>4 DEF Running

LEMMA SeqBound ==
    ASSUME IInv
    PROVE  seq \in 0..MaxSeals /\ seq \in Nat /\ epoch \in 0..MaxU48 /\ epoch \in Nat
BY SizeAssumption DEF IInv, TypeInv

LEMMA AuthFailsStep ==
    ASSUME IInv, AuthFails
    PROVE  IInv'
<1>1. todo # <<>> /\ ~Is("clear") /\ ~Is("header") /\ ~Is("sync")
    BY DEF AuthFails, Is
<1>2. Recorded
    BY <1>1, RestPlan, IsRecorded DEF IInv
<1> QED
    BY <1>1, <1>2, FailedStep, SeqBound DEF AuthFails, inner

LEMMA IoErrorStep ==
    ASSUME IInv, InField, "error" \in Faults, IoError
    PROVE  IInv'
<1>1. Recorded \/ status # "open"
    BY SizeAssumption DEF IInv, EpochInv, InField
<1>2. seq' \in 0..MaxSeals /\ seq' >= seq
    BY SeqBound, SizeAssumption DEF IoError, DrawNonce
<1> QED
    BY <1>1, <1>2, FailedStep DEF IoError

LEMMA SetLogicalLenStep ==
    ASSUME IInv, SetLogicalLen
    PROVE  IInv'
<1>1. todo # <<>> /\ Head(todo)[1] = "len" /\ ~Is("clear") /\ ~Is("header") /\ ~Is("sync")
    BY DEF SetLogicalLen, Is
<1>2. Recorded /\ Running /\ Plan(Tail(todo)) /\ OpOK(Head(todo))
    BY <1>1, RestPlan, IsRecorded DEF IInv
<1>3. logicalLen' \in Nat
    BY <1>1, <1>2 DEF SetLogicalLen, OpOK
<1>4. Plan(todo') /\ status' \in {"opening", "open"}
    BY <1>2 DEF SetLogicalLen, Done, Running
<1>5. Running'
    BY <1>4 DEF Running
<1> QED
    BY <1>2, <1>3, <1>4, <1>5, QuietStep, SeqBound DEF SetLogicalLen

\* One block of a write, or of a reseal: its seal is planned, or the call fails.
LEMMA PlannedStep ==
    ASSUME IInv, Is("rewrite") \/ Is("reseal"), NEW plain,
           \/ Failed
           \/ todo' = SealBlock(Head(todo)[2], plain, NextMissing) \o Tail(todo) /\ UNCHANGED status,
           UNCHANGED <<file, stable, log, medium, inner>>
    PROVE  IInv'
<1>1. todo # <<>> /\ Head(todo)[1] \in {"rewrite", "reseal"} /\ ~Is("clear") /\ ~Is("header") /\ ~Is("sync")
    BY DEF Is
<1>2. Recorded /\ Running /\ Plan(Tail(todo)) /\ OpOK(Head(todo))
    BY <1>1, RestPlan, IsRecorded DEF IInv
<1>3. UNCHANGED <<epoch, seq, logicalLen, phys, part>>
    BY DEF inner
<1>4. CASE Failed
    BY <1>1, <1>2, <1>3, <1>4, FailedStep, SeqBound
<1>5. CASE todo' = SealBlock(Head(todo)[2], plain, NextMissing) \o Tail(todo) /\ UNCHANGED status
  <2>1. Head(todo)[2] \in Nat /\ NextMissing \in Nat
    BY <1>1, <1>2 DEF OpOK, NextMissing, IInv, TypeInv
  <2>2. Plan(todo')
    BY <1>2, <1>5, <2>1, SealBlockPlan, PlanCat
  <2>3. Running' /\ status' \in {"opening", "open"} /\ logicalLen \in Nat
    BY <1>2, <1>5, Zenon DEF Running, IInv, TypeInv
  <2> QED
    BY <1>2, <1>3, <2>2, <2>3, QuietStep, SeqBound
<1> QED
    BY <1>4, <1>5, Zenon

LEMMA RewriteStep ==
    ASSUME IInv, Rewrite
    PROVE  IInv'
<1> DEFINE i == Head(todo)[2]
           off == Head(todo)[3]
           end == off + Head(todo)[4]
           new == [c \in 0..BlockSize - 1 |->
                     IF off <= i * BlockSize + c /\ i * BlockSize + c < end THEN Head(todo)[5]
                     ELSE ReadBlock(i)[c]]
<1>1. Failed \/ (todo' = SealBlock(i, new, NextMissing) \o Tail(todo) /\ UNCHANGED status)
    BY Zenon DEF Rewrite
<1> HIDE DEF new
<1> QED
    BY <1>1, PlannedStep, Zenon DEF Rewrite

LEMMA ResealStep ==
    ASSUME IInv, Reseal
    PROVE  IInv'
BY PlannedStep, Zenon DEF Reseal

-----------------------------------------------------------------------------
(* A new epoch.                                                            *)

\* Every nonce on the medium is of an epoch the header admits.
LEMMA Admitted ==
    ASSUME TypeInv, MediumInv, status # "lost"
    PROVE  /\ \A a \in OnMedium : a[1] \in Nat \X Nat /\ a[1][1] <= EpochOf(file)
           /\ EpochOf(file) \in Nat /\ EpochOf(stable) \in Nat
<1>1. EpochOf(file) \in Nat /\ EpochOf(stable) \in Nat
    BY EpochFacts DEF TypeInv
<1>2. EpochOf(stable) <= EpochOf(file)
    BY DEF MediumInv
<1>3. ASSUME NEW a \in medium PROVE a[1] \in Nat \X Nat /\ a[1][1] <= EpochOf(file)
  <2>1. a[1] \in Nat \X Nat /\ a[1][1] <= EpochOf(stable)
    BY DEF TypeInv, MediumInv, Base
  <2>2. a[1][1] \in Nat
    BY <2>1, Zenon
  <2> QED
    BY <1>1, <1>2, <2>1, <2>2
<1>4. ASSUME NEW a \in SealsOf(log) PROVE a[1] \in Nat \X Nat /\ a[1][1] <= EpochOf(file)
  <2>1. PICK i \in DOMAIN log : Seals(log[i]) /\ a = log[i][2]
    BY DEF SealsOf, Seals
  <2> QED
    BY <2>1 DEF TypeInv, MediumInv, EntryOK
<1> QED
    BY <1>1, <1>3, <1>4 DEF OnMedium

\* An epoch above the one in the header is begun, by a plan that records it first.
LEMMA EpochStep ==
    ASSUME IInv, status \in {"closed", "opening", "open"}, UNCHANGED <<file, stable, log, medium>>,
           status' \in {"opening", "open"}, status' = "open" => MaxSeals >= MaxU48,
           epoch' = EpochOf(file) + 1, epoch' <= MaxU48, seq' = 0,
           logicalLen' \in Nat, phys' \in Nat, part' \in {0, 1}, OpenStarts(todo', file.hdr = Torn)
    PROVE  IInv'
<1> USE DEF IInv
<1>1. MediumInv' /\ NonceUnique' /\ OnMedium' = OnMedium
    BY QuietMedium
<1>2. /\ \A a \in OnMedium : a[1] \in Nat \X Nat /\ a[1][1] <= EpochOf(file)
      /\ EpochOf(file) \in Nat
    BY Admitted, Zenon
<1>3. TypeInv'
  <2>1. epoch' \in 0..MaxU48 /\ seq' \in 0..MaxSeals
    BY <1>2, SizeAssumption
  <2>2. Sequence(todo') /\ \A i \in DOMAIN todo' : OpOK(todo'[i])
    BY DEF OpenStarts
  <2>3. Running'
    BY DEF Running
  <2> QED
    BY <2>1, <2>2, <2>3 DEF TypeInv, IsFile, EntryOK, Seals, SealsHeader
<1>4. EpochOf(file') = EpochOf(file) /\ EpochOf(file') < epoch' /\ epoch' > 0
    BY <1>2 DEF EpochOf
<1>5. Recording'
    BY <1>4, Zenon DEF Recording, OpenStarts, Ahead
<1>6. EpochInv'
    BY <1>4, <1>5, Zenon DEF EpochInv, OpenStarts
<1>7. Past'
  <2>1. \A a \in OnMedium : a[1][1] \in Nat
    BY <1>2
  <2>2. \A a \in OnMedium : a[1][1] < epoch'
    BY <1>2, <2>1
  <2> QED
    BY <1>1, <2>2, Zenon DEF Past
<1> QED
    BY <1>1, <1>3, <1>6, <1>7

LEMMA OpenStep ==
    ASSUME IInv, Open
    PROVE  IInv'
<1> DEFINE clear == file.hdr = Torn
           stored == IF clear THEN [version |-> 2, len |-> 0, epoch |-> 0, pending |-> 0] ELSE Stored
           short == ~clear /\ file.blk # <<>> /\ file.blk[Len(file.blk)] = Partial
           blocks == IF clear THEN 0 ELSE IF short THEN Len(file.blk) - 1 ELSE Len(file.blk)
           reseal == stored.version = 1 \/ stored.pending = 1
<1>1. IsFile(file) /\ status = "closed"
    BY DEF IInv, TypeInv, Open
<1>2. stored.epoch = EpochOf(file) /\ stored.len \in Nat
  <2>1. CASE file.hdr \in {Absent, Torn}
    BY <2>1, MarkAssumption DEF Stored, EpochOf
  <2>2. CASE file.hdr \in Headers
    <3>1. file.hdr \notin {Absent, Torn}
      BY <2>2, MarkAssumption
    <3>2. stored = file.hdr[3]
      BY <3>1 DEF Stored
    <3>3. file.hdr[3].len \in Nat
      BY <2>2 DEF Headers
    <3> HIDE DEF stored
    <3> QED
      BY <3>1, <3>2, <3>3 DEF EpochOf
  <2> QED
    BY <1>1, <2>1, <2>2 DEF IsFile
<1>3. blocks \in Nat
  <2>1. Sequence(file.blk)
    BY <1>1 DEF IsFile
  <2>2. Len(file.blk) \in Nat /\ (file.blk # <<>> => Len(file.blk) >= 1)
    BY <2>1, SeqFacts
  <2> QED
    BY <2>2
<1>4. /\ stored.epoch < MaxU48 /\ epoch' = stored.epoch + 1 /\ seq' = 0 /\ logicalLen' = stored.len
      /\ phys' = blocks /\ part' = (IF short THEN 1 ELSE 0)
      /\ todo' = OpenPlan(clear, reseal, blocks)
      /\ status' = "opening" /\ UNCHANGED <<file, stable, log, medium>>
    BY DEF Open
<1> HIDE DEF stored, blocks, short, reseal
<1>5. reseal \in BOOLEAN
    BY DEF reseal
<1>6. OpenStarts(todo', file.hdr = Torn)
    BY <1>3, <1>4, <1>5, OpenPlanStarts, Zenon
<1>7. epoch' = EpochOf(file) + 1 /\ epoch' <= MaxU48
    BY <1>1, <1>2, <1>4, EpochFacts, SizeAssumption
<1> QED
    BY <1>1, <1>2, <1>3, <1>4, <1>6, <1>7, EpochStep, Zenon

LEMMA EnsureStep ==
    ASSUME IInv, Ensure
    PROVE  IInv'
<1>1. todo # <<>> /\ ~Is("clear") /\ ~Is("header") /\ ~Is("sync")
    BY DEF Ensure, Is
<1>2. Recorded /\ Running /\ Plan(Tail(todo))
    BY <1>1, RestPlan, IsRecorded DEF IInv
<1>3. logicalLen \in Nat /\ phys \in Nat /\ part \in {0, 1}
    BY DEF IInv, TypeInv
<1>4. CASE Done /\ UNCHANGED <<epoch, seq>>
  <2>1. Plan(todo') /\ status' \in {"opening", "open"}
    BY <1>2, <1>4 DEF Done, Running
  <2>2. Running'
    BY <2>1 DEF Running
  <2> QED
    BY <1>2, <1>3, <1>4, <2>1, <2>2, QuietStep, SeqBound DEF Ensure
<1>5. CASE Failed /\ UNCHANGED <<epoch, seq>>
    BY <1>1, <1>2, <1>3, <1>5, FailedStep, SeqBound DEF Ensure
<1>6. CASE /\ seq >= MaxU48 /\ epoch < MaxU48
           /\ epoch' = epoch + 1 /\ seq' = 0
           /\ todo' = <<<<"header", 0>>, <<"sync">>>> \o Tail(todo)
           /\ UNCHANGED status
  <2>1. MaxSeals >= MaxU48
    BY <1>6, SeqBound, SizeAssumption
  <2>2. epoch' = EpochOf(file) + 1 /\ epoch' <= MaxU48
    BY <1>2, <1>6, SeqBound, SizeAssumption DEF Recorded
  <2>3. file.hdr # Torn
    BY <1>2, EpochFacts DEF Recorded, EpochInv, IInv, TypeInv
  <2>4. OpenStarts(todo', FALSE)
    BY <1>2, <1>6, HeaderSync, Zenon DEF OpenStarts, Plan
  <2>5. OpenStarts(todo', file.hdr = Torn)
    BY <2>3, <2>4, Zenon
  <2>6. status \in {"opening", "open"}
    BY <1>2 DEF Running
  <2> QED
    BY <1>3, <1>6, <2>1, <2>2, <2>5, <2>6, EpochStep DEF Ensure
<1> QED
    BY <1>4, <1>5, <1>6 DEF Ensure

-----------------------------------------------------------------------------
(* Steps that log a file operation.                                        *)

LEMMA LoggedTypes ==
    ASSUME TypeInv, NEW e, EntryOK(e), Logged(e)
    PROVE  /\ IsFile(file') /\ Sequence(log') /\ \A i \in DOMAIN log' : EntryOK(log'[i])
           /\ DOMAIN log' = DOMAIN log \cup {Len(log) + 1} /\ log'[Len(log) + 1] = e
           /\ \A i \in DOMAIN log : log'[i] = log[i] /\ i < Len(log) + 1
           /\ log' # <<>>
<1>1. Sequence(log) /\ IsFile(file) /\ \A i \in DOMAIN log : EntryOK(log[i])
    BY DEF TypeInv
<1>2. IsFile(file')
    BY <1>1, ApplyFile DEF Logged
<1>3. /\ Sequence(log') /\ log'[Len(log) + 1] = e
      /\ \A i \in DOMAIN log : log'[i] = log[i]
      /\ DOMAIN log' = DOMAIN log \cup {Len(log) + 1}
    BY <1>1, SeqAppend DEF Logged
<1>4. \A i \in DOMAIN log : i < Len(log) + 1
    BY <1>1, SeqFacts
<1>5. \A i \in DOMAIN log' : EntryOK(log'[i])
    BY <1>1, <1>3
<1>6. log' # <<>>
    BY <1>3
<1> QED
    BY <1>2, <1>3, <1>4, <1>5, <1>6

LEMMA Nonce ==
    ASSUME IInv, InField, seq < MaxSeals
    PROVE  NextNonce = <<epoch, seq>> /\ seq + 1 \in 0..MaxSeals
<1>1. seq \in 0..MaxU48 /\ epoch \in 0..MaxU48 /\ seq + 1 \in 0..MaxSeals
    BY SeqBound, SizeAssumption DEF InField
<1>2. \A n \in 0..MaxU48 : n % (MaxU48 + 1) = n
    BY SizeAssumption
<1> QED
    BY <1>1, <1>2 DEF NextNonce

\* A seal under the next nonce meets no other on the medium.
LEMMA SealedFresh ==
    ASSUME IInv, InField, Running, NEW e, Seals(e), e[2][1] = NextNonce, DrawNonce,
           log' = Append(log, e), UNCHANGED <<medium, epoch>>
    PROVE  NonceUnique' /\ Past'
<1>1. Sequence(log) /\ status # "lost"
    BY DEF IInv, TypeInv, Running
<1>2. OnMedium' = OnMedium \cup {e[2]}
    BY <1>1, SealsOfAppend DEF OnMedium
<1>3. \A a \in OnMedium : a[1] \in Nat \X Nat
    BY <1>1, Admitted DEF IInv
<1>4. e[2][1] = <<epoch, seq>> /\ seq' = seq + 1 /\ epoch' = epoch /\ seq \in Nat /\ epoch \in Nat
    BY Nonce, SeqBound DEF DrawNonce
<1>5. e[2][1][1] = epoch /\ e[2][1][2] = seq
    BY <1>4
<1>6. \A a \in OnMedium : a[1][1] < epoch \/ (a[1][1] = epoch /\ a[1][2] < seq)
    BY DEF IInv, Past
<1>7. \A a \in OnMedium : a[1] # e[2][1]
    BY <1>3, <1>4, <1>5, <1>6
<1>8. NonceUnique'
  <2>1. \A a, b \in OnMedium : a[1] = b[1] => a[2] = b[2] /\ a[3] = b[3]
    BY DEF IInv, NonceUnique
  <2>2. \A a, b \in OnMedium \cup {e[2]} : a[1] = b[1] => a[2] = b[2] /\ a[3] = b[3]
    BY <1>7, <2>1
  <2> QED
    BY <1>2, <2>2 DEF NonceUnique
<1>9. Past'
  <2>1. \A a \in OnMedium : a[1][2] \in Nat
    BY <1>3
  <2>2. \A a \in OnMedium \cup {e[2]} : a[1][1] < epoch' \/ (a[1][1] = epoch' /\ a[1][2] < seq')
    BY <1>4, <1>5, <1>6, <2>1
  <2> QED
    BY <1>2, <2>2 DEF Past
<1> QED
    BY <1>8, <1>9

\* The medium after a block is sealed in an epoch that is recorded.
LEMMA BlockMedium ==
    ASSUME IInv, InField, Running, Recorded, NEW e, EntryOK(e), Seals(e), ~SealsHeader(e),
           e[2][1] = NextNonce, DrawNonce, Logged(e), UNCHANGED <<stable, medium, epoch>>,
           status' # "lost"
    PROVE  MediumInv' /\ Recorded' /\ file'.hdr = file.hdr
<1>1. IsFile(file) /\ IsFile(stable) /\ status # "lost" /\ TypeInv /\ epoch > 0
    BY Zenon DEF IInv, TypeInv, Running, EpochInv
<1>2. /\ DOMAIN log' = DOMAIN log \cup {Len(log) + 1} /\ log'[Len(log) + 1] = e
      /\ \A i \in DOMAIN log : log'[i] = log[i] /\ i < Len(log) + 1
      /\ log' # <<>>
    BY <1>1, LoggedTypes, Zenon
<1>3. e[1] # "clear" /\ e[2][1][1] = epoch
  <2>1. e[2][1] = <<epoch, seq>>
    BY Nonce DEF DrawNonce
  <2> QED
    BY <2>1 DEF Seals
<1>4. EpochOf(file') = EpochOf(file) /\ file'.hdr = file.hdr
    BY <1>1, <1>3, ApplyEpoch, ApplyFile, Zenon DEF Logged
<1>5. Recorded'
    BY <1>4, Zenon DEF Recorded, EpochOf
<1>6. file'.hdr # Torn
    BY <1>1, <1>4, EpochFacts DEF Recorded
<1>7. Base' = stable /\ Base = stable /\ EpochOf(stable) = epoch /\ EpochOf(file') = epoch
    BY <1>1, <1>4 DEF Base, Recorded
<1>8. epoch \in Nat
    BY SeqBound
<1> DEFINE l == log'
<1>9. \A i \in DOMAIN l : (i \in DOMAIN log /\ l[i] = log[i]) \/ l[i] = e
    BY <1>2, Zenon
<1>10. /\ \A i \in DOMAIN l : Seals(l[i]) /\ ~SealsHeader(l[i]) => l[i][2][1][1] <= epoch
       /\ \A i \in DOMAIN l : SealsHeader(l[i]) => l[i][2][1][1] >= epoch
       /\ \A i \in DOMAIN l : l[i][1] = "clear" => i = 1 /\ medium = {} /\ epoch = 0
       /\ \A i \in DOMAIN l : Seals(l[i]) => l[i][2][1][1] <= epoch
    BY <1>1, <1>3, <1>7, <1>8, <1>9, Zenon DEF IInv, MediumInv, Recorded
<1>11. \A i, j \in DOMAIN l : i < j /\ SealsHeader(l[i]) /\ SealsHeader(l[j]) => l[i][2][1][1] <= l[j][2][1][1]
  <2>1. \A i \in DOMAIN l : SealsHeader(l[i]) => i \in DOMAIN log /\ l[i] = log[i]
    BY <1>9, Zenon
  <2> QED
    BY <2>1 DEF IInv, MediumInv
<1>12. \A a \in medium : a[1][1] <= epoch
    BY <1>7, Zenon DEF IInv, MediumInv
<1>13. EpochOf(Base)' = epoch /\ EpochOf(stable)' = epoch /\ EpochOf(file)' = epoch
    BY <1>7, Zenon DEF EpochOf
<1>13a. Base'.hdr = Torn => medium' = {}
    BY <1>7, Zenon DEF IInv, MediumInv
<1>14. MediumInv'
    BY <1>2, <1>6, <1>8, <1>13a, <1>10, <1>11, <1>12, <1>13 DEF MediumInv, Seals, SealsHeader
<1> QED
    BY <1>4, <1>5, <1>14, Zenon

\* A block or a gap of the plan, written whole or in part.
LEMMA BlockStep ==
    ASSUME IInv, InField, Is("gap") \/ Is("block"), NEW k \in {"seal", "short"}, DrawNonce,
           Logged(<<k, <<NextNonce, Head(todo)[2] + 1, Head(todo)[3]>>>>),
           UNCHANGED <<stable, medium, epoch, logicalLen>>, phys' \in Nat, part' \in {0, 1},
           Done \/ Failed
    PROVE  IInv'
<1>1. todo # <<>> /\ Head(todo)[1] \in {"gap", "block"} /\ ~Is("clear") /\ ~Is("header") /\ ~Is("sync")
    BY DEF Is
<1>2. Recorded /\ Running /\ Plan(Tail(todo)) /\ OpOK(Head(todo)) /\ TypeInv
    BY <1>1, RestPlan, IsRecorded DEF IInv
<1> DEFINE a == <<NextNonce, Head(todo)[2] + 1, Head(todo)[3]>>
           e == <<k, a>>
<1>3. Head(todo)[2] \in Nat /\ epoch \in Nat /\ epoch > 0 /\ seq \in Nat
    BY <1>1, <1>2, SeqBound DEF OpOK, IInv, EpochInv
<1>4. NextNonce = <<epoch, seq>> /\ seq' \in 0..MaxSeals
    BY Nonce DEF DrawNonce
<1>5. e[1] = k /\ e[2] = a /\ a[1] = NextNonce /\ a[2] = Head(todo)[2] + 1
    OBVIOUS
<1> HIDE DEF a, e
<1>6. a[1] \in (Nat \ {0}) \X Nat /\ a[2] \in Nat /\ a[2] # 0
    BY <1>3, <1>4, <1>5
<1>7. EntryOK(e) /\ Seals(e) /\ ~SealsHeader(e)
    BY <1>5, <1>6 DEF EntryOK, Seals, SealsHeader
<1>8. Logged(e) /\ e[2][1] = NextNonce
    BY <1>5 DEF e, a
<1>9. todo' \in {<<>>, Tail(todo)} /\ status' \in {"closed", "opening", "open"} /\ (status' = "closed" => todo' = <<>>)
    BY <1>2 DEF Done, Failed, Running
<1>10. Plan(todo')
    BY <1>2, <1>9, PlanEmpty, Zenon
<1>11. MediumInv' /\ Recorded'
    BY <1>2, <1>7, <1>8, <1>9, BlockMedium
<1>12. NonceUnique' /\ Past'
    BY <1>2, <1>7, <1>8, SealedFresh, Zenon DEF Logged
<1>13. TypeInv'
  <2>1. IsFile(file') /\ Sequence(log') /\ \A i \in DOMAIN log' : EntryOK(log'[i])
    BY <1>2, <1>7, <1>8, LoggedTypes
  <2>2. ~Running' => todo' = <<>>
    BY <1>9 DEF Running
  <2>3. Sequence(todo') /\ \A i \in DOMAIN todo' : OpOK(todo'[i])
    BY <1>10, Zenon DEF Plan
  <2>4. IsFile(stable')
    BY <1>2 DEF TypeInv
  <2> QED
    BY <1>2, <1>4, <1>9, <2>1, <2>2, <2>3, <2>4, Zenon DEF TypeInv
<1>14. EpochInv'
    BY <1>3, <1>10, <1>11 DEF EpochInv, Plan
<1> QED
    BY <1>11, <1>12, <1>13, <1>14 DEF IInv

LEMMA WriteSealedStep ==
    ASSUME IInv, InField, WriteSealed
    PROVE  IInv'
<1>1. OpOK(Head(todo)) /\ phys \in Nat /\ part \in {0, 1}
    BY RestPlan DEF IInv, TypeInv, WriteSealed, Is
<1>2. Head(todo)[2] \in Nat
    BY <1>1 DEF WriteSealed, Is, OpOK
<1>3. phys' \in Nat /\ part' \in {0, 1}
    BY <1>1, <1>2 DEF WriteSealed
<1> QED
    BY <1>3, BlockStep, Zenon DEF WriteSealed

LEMMA ShortWriteStep ==
    ASSUME IInv, InField, ShortWrite
    PROVE  IInv'
<1>1. phys \in Nat /\ part \in {0, 1}
    BY DEF IInv, TypeInv
<1> QED
    BY <1>1, BlockStep DEF ShortWrite

\* Where a header stands in a plan: first when the epoch is to be recorded.
LEMMA AtHeader ==
    ASSUME TypeInv, EpochInv, Is("header")
    PROVE  Recorded \/ (Ahead(2, "sync") /\ EpochOf(file) < epoch /\ file.hdr # Torn)
<1>1. todo # <<>> /\ Running /\ todo[1][1] = "header"
    BY RestPlan DEF Is
<1> QED
    BY <1>1 DEF EpochInv, Recording, Ahead

\* The medium after a header is written.
LEMMA HeaderMedium ==
    ASSUME IInv, Running, NEW e, EntryOK(e), SealsHeader(e), e[2][1][1] = epoch,
           Recorded \/ (EpochOf(file) < epoch /\ file.hdr # Torn),
           Logged(e), UNCHANGED <<stable, medium, epoch>>, status' # "lost"
    PROVE  MediumInv' /\ EpochOf(file') = epoch /\ file'.hdr # Torn
<1>1. IsFile(file) /\ IsFile(stable) /\ status # "lost" /\ TypeInv /\ epoch > 0 /\ MediumInv
    BY Zenon DEF IInv, TypeInv, Running, EpochInv
<1>2. /\ DOMAIN log' = DOMAIN log \cup {Len(log) + 1} /\ log'[Len(log) + 1] = e
      /\ \A i \in DOMAIN log : log'[i] = log[i] /\ i < Len(log) + 1
      /\ log' # <<>>
    BY <1>1, LoggedTypes, Zenon
<1>3. EpochOf(file') = epoch /\ file'.hdr # Torn
    BY <1>1, ApplyEpoch, Zenon DEF Logged
<1>4. epoch \in Nat /\ EpochOf(stable) \in Nat /\ EpochOf(file) \in Nat
    BY <1>1, SeqBound, EpochFacts
<1>5. EpochOf(stable) <= EpochOf(file) /\ EpochOf(file) <= epoch
    BY <1>1, <1>4 DEF MediumInv, Recorded
<1> DEFINE l == log'
           b == EpochOf(stable)
<1>6. \A i \in DOMAIN l : (i \in DOMAIN log /\ l[i] = log[i]) \/ (i = Len(log) + 1 /\ l[i] = e)
    BY <1>2, SMTT(60)
<1>7. e[1] # "clear"
    BY DEF SealsHeader
<1>8. Base = stable
    BY <1>1 DEF Base
<1>9. \A i \in DOMAIN log : Seals(log[i]) => log[i][2][1][1] \in Nat /\ log[i][2][1][1] <= epoch
  <2>1. \A i \in DOMAIN log : Seals(log[i]) => log[i][2][1] \in (Nat \ {0}) \X Nat
    BY <1>1, Zenon DEF TypeInv, EntryOK
  <2>2. \A i \in DOMAIN log : Seals(log[i]) => log[i][2][1][1] \in Nat
    BY <2>1
  <2>3. \A i \in DOMAIN log : Seals(log[i]) => log[i][2][1][1] <= EpochOf(file)
    BY <1>1, Zenon DEF MediumInv
  <2> QED
    BY <1>4, <1>5, <2>2, <2>3
<1>10. /\ \A i \in DOMAIN l : Seals(l[i]) /\ ~SealsHeader(l[i]) => l[i][2][1][1] <= b
       /\ \A i \in DOMAIN l : SealsHeader(l[i]) => l[i][2][1][1] >= b
       /\ \A i \in DOMAIN l : l[i][1] = "clear" => i = 1 /\ medium = {} /\ b = 0
       /\ \A i \in DOMAIN l : Seals(l[i]) => l[i][2][1][1] <= epoch
    BY <1>1, <1>4, <1>5, <1>6, <1>7, <1>8, <1>9 DEF MediumInv
<1>11. \A i, j \in DOMAIN l : i < j /\ SealsHeader(l[i]) /\ SealsHeader(l[j]) => l[i][2][1][1] <= l[j][2][1][1]
  <2>1. \A i \in DOMAIN l : SealsHeader(l[i]) => l[i][2][1][1] <= epoch
    BY <1>10, Zenon DEF Seals, SealsHeader
  <2> SUFFICES ASSUME NEW i \in DOMAIN l, NEW j \in DOMAIN l, i < j, SealsHeader(l[i]), SealsHeader(l[j])
               PROVE  l[i][2][1][1] <= l[j][2][1][1]
    OBVIOUS
  <2>2. CASE j \in DOMAIN log
    <3>1. i \in DOMAIN log
      <4>1. Sequence(log)
        BY <1>1, Zenon DEF TypeInv
      <4> QED
        BY <1>6, <2>2, <4>1, SeqFacts
    <3> QED
      BY <1>1, <1>2, <2>2, <3>1, Zenon DEF MediumInv
  <2>3. CASE l[j] = e
    BY <2>1, <2>3
  <2> QED
    BY <1>6, <2>2, <2>3, Zenon
<1>12. EpochOf(Base)' = b /\ EpochOf(stable)' = b /\ EpochOf(file)' = epoch
    BY <1>3, Zenon DEF EpochOf, Base
<1>13. (\A a \in medium : a[1][1] <= b) /\ (Base'.hdr = Torn => medium' = {})
    BY <1>1, <1>8, Zenon DEF MediumInv, Base
<1> HIDE DEF b
<1>14. b <= epoch
    BY <1>4, <1>5, SMTT(60) DEF b
<1>15. MediumInv'
    BY <1>2, <1>3, <1>10, <1>11, <1>12, <1>13, <1>14 DEF MediumInv, Seals, SealsHeader
<1> QED
    BY <1>3, <1>15, Zenon

\* What a step that is done leaves of the plan.
LEMMA DoneFacts ==
    ASSUME TypeInv, EpochInv, todo # <<>>, Done
    PROVE  /\ Plan(todo') /\ Running' /\ status' \in {"opening", "open"}
           /\ status' = "open" => status = "open" \/ todo' = <<>>
           /\ \A i \in DOMAIN todo' : i + 1 \in DOMAIN todo /\ todo'[i] = todo[i + 1]
           /\ \A i \in DOMAIN todo : i # 1 => i - 1 \in DOMAIN todo'
<1>1. Running /\ Sequence(todo) /\ Plan(Tail(todo))
    BY RestPlan
<1>2. status' \in {"opening", "open"} /\ (status' = "open" => status = "open" \/ todo' = <<>>)
    BY <1>1 DEF Done, Running
<1>3. /\ \A i \in DOMAIN Tail(todo) : i + 1 \in DOMAIN todo /\ Tail(todo)[i] = todo[i + 1]
      /\ Sequence(Tail(todo)) /\ Len(Tail(todo)) = Len(todo) - 1
    BY <1>1, SeqTail
<1>4. \A i \in DOMAIN todo : i # 1 => i - 1 \in DOMAIN Tail(todo)
    BY <1>1, <1>3, SeqFacts
<1> QED
    BY <1>1, <1>2, <1>3, <1>4 DEF Done, Running

LEMMA WriteHeaderStep ==
    ASSUME IInv, InField, WriteHeader
    PROVE  IInv'
<1>1. todo # <<>> /\ Is("header") /\ Head(todo)[1] = "header" /\ TypeInv /\ EpochInv
    BY DEF WriteHeader, Is, IInv
<1>2. Running /\ OpOK(Head(todo)) /\ status # "lost"
    BY <1>1, RestPlan DEF Running
<1>3. Head(todo)[2] \in {0, 1} /\ logicalLen \in Nat /\ epoch \in Nat /\ epoch > 0 /\ seq \in Nat
    BY <1>1, <1>2, SeqBound DEF OpOK, EpochInv, TypeInv
<1>4. NextNonce = <<epoch, seq>> /\ seq' \in 0..MaxSeals
    BY Nonce DEF WriteHeader, DrawNonce
<1> DEFINE c == [version |-> 2, len |-> logicalLen, epoch |-> epoch, pending |-> Head(todo)[2]]
           a == <<NextNonce, 0, c>>
           e == <<"seal", a>>
<1>5. Logged(e) /\ DrawNonce /\ Done /\ UNCHANGED <<stable, medium, epoch, logicalLen, phys, part>>
    BY DEF WriteHeader
<1>6. c \in [version : {1, 2}, len : Nat, epoch : Nat, pending : {0, 1}] /\ c.epoch = epoch
    BY <1>3
<1> HIDE DEF c
<1>7. NextNonce \in (Nat \ {0}) \X Nat /\ NextNonce[1] = epoch
    BY <1>3, <1>4
<1>8. a \in Headers /\ a[1] = NextNonce /\ a[2] = 0 /\ a[3] = c
    BY <1>6, <1>7 DEF Headers
<1>9. e[1] = "seal" /\ e[2] = a
    OBVIOUS
<1> HIDE DEF a, e
<1>10. EntryOK(e) /\ Seals(e) /\ SealsHeader(e) /\ e[2][1] = NextNonce /\ e[2][1][1] = epoch
    BY <1>6, <1>7, <1>8, <1>9 DEF EntryOK, Seals, SealsHeader
<1>11. /\ Plan(todo') /\ Running' /\ status' \in {"opening", "open"}
       /\ status' = "open" => status = "open" \/ todo' = <<>>
       /\ \A i \in DOMAIN todo' : i + 1 \in DOMAIN todo /\ todo'[i] = todo[i + 1]
       /\ \A i \in DOMAIN todo : i # 1 => i - 1 \in DOMAIN todo'
    BY <1>1, <1>5, DoneFacts
<1>12. Recorded \/ (Ahead(2, "sync") /\ EpochOf(file) < epoch /\ file.hdr # Torn)
    BY <1>1, AtHeader, Zenon
<1>13. MediumInv' /\ EpochOf(file') = epoch /\ file'.hdr # Torn
    BY <1>2, <1>5, <1>10, <1>11, <1>12, HeaderMedium, Zenon
<1>14. NonceUnique' /\ Past'
    BY <1>2, <1>5, <1>10, SealedFresh, Zenon DEF Logged
<1>15. TypeInv'
  <2>1. IsFile(file') /\ Sequence(log') /\ \A i \in DOMAIN log' : EntryOK(log'[i])
    BY <1>1, <1>5, <1>10, LoggedTypes
  <2>2. Sequence(todo') /\ \A i \in DOMAIN todo' : OpOK(todo'[i])
    BY <1>11 DEF Plan
  <2>3. IsFile(stable')
    BY <1>1, <1>5 DEF TypeInv
  <2> QED
    BY <1>1, <1>4, <1>5, <1>11, <2>1, <2>2, <2>3, Zenon DEF TypeInv
<1>16. CASE Recorded
  <2>1. Recorded'
    BY <1>5, <1>13, <1>16, Zenon DEF Recorded, EpochOf
  <2>2. EpochInv'
    BY <1>3, <1>5, <1>11, <2>1 DEF EpochInv, Plan
  <2> QED
    BY <1>13, <1>14, <1>15, <2>2 DEF IInv
<1>17. CASE ~Recorded
  <2>1. 2 \in DOMAIN todo /\ todo[2][1] = "sync"
    BY <1>12, <1>17 DEF Ahead
  <2>2. 1 \in DOMAIN todo'
    BY <1>11, <2>1
  <2>3. todo'[1][1] = "sync"
    BY <1>11, <2>1, <2>2
  <2>4. EpochOf(file)' = epoch'
    BY <1>5, <1>13 DEF EpochOf
  <2>5. Recording'
    BY <2>2, <2>3, <2>4 DEF Recording, Ahead
  <2>6. status' = "open" => MaxSeals >= MaxU48
    BY <1>1, <1>11, <1>17, <2>2, SMTT(60) DEF EpochInv
  <2>7. EpochInv'
    BY <1>3, <1>5, <1>11, <2>5, <2>6 DEF EpochInv, Plan
  <2> QED
    BY <1>13, <1>14, <1>15, <2>7 DEF IInv
<1> QED
    BY <1>16, <1>17

\* The file is cut to a number of blocks: no seal is made, the header stays.
LEMMA TruncStep ==
    ASSUME IInv, Truncate, Is("trunc")
    PROVE  IInv'
<1> DEFINE e == Head(todo)
<1>1. todo # <<>> /\ e[1] = "trunc" /\ ~Is("clear") /\ ~Is("header") /\ ~Is("sync") /\ TypeInv /\ EpochInv
    BY DEF Is, IInv
<1>2. Recorded /\ Running /\ OpOK(e) /\ status # "lost" /\ epoch > 0 /\ epoch \in Nat
    BY <1>1, RestPlan, IsRecorded, SeqBound DEF Running, EpochInv
<1>3. Logged(e) /\ Done /\ UNCHANGED <<stable, medium, epoch, seq, logicalLen>>
    BY DEF Truncate
<1> HIDE DEF e
<1>4. EntryOK(e) /\ ~Seals(e) /\ ~SealsHeader(e)
    BY <1>1, <1>2 DEF EntryOK, Seals, SealsHeader, OpOK
<1>5. phys' \in Nat /\ part' \in {0, 1}
    BY <1>1, <1>2 DEF Truncate, OpOK, e
<1>6. Plan(todo') /\ Running' /\ status' \in {"opening", "open"}
    BY <1>1, <1>3, DoneFacts
<1>7. IsFile(file) /\ IsFile(stable) /\ Sequence(log)
    BY <1>1 DEF TypeInv
<1>8. /\ IsFile(file') /\ Sequence(log') /\ \A i \in DOMAIN log' : EntryOK(log'[i])
      /\ DOMAIN log' = DOMAIN log \cup {Len(log) + 1} /\ log'[Len(log) + 1] = e
      /\ \A i \in DOMAIN log : log'[i] = log[i] /\ i < Len(log) + 1
      /\ log' # <<>>
    BY <1>1, <1>3, <1>4, LoggedTypes, Zenon
<1>9. EpochOf(file') = epoch /\ file'.hdr = file.hdr /\ EpochOf(stable) = epoch /\ EpochOf(file) = epoch
    BY <1>1, <1>2, <1>3, <1>4, <1>7, ApplyEpoch, ApplyFile, Zenon DEF Logged, Recorded
<1>10. file'.hdr # Torn
    BY <1>2, <1>7, <1>9, EpochFacts
<1>11. OnMedium' = OnMedium
    BY <1>3, <1>4, <1>7, SealsOfAppend, Zenon DEF Logged, OnMedium
<1>12. NonceUnique' /\ Past'
    BY <1>2, <1>3, <1>11, Zenon DEF IInv, NonceUnique, Past
<1>13. TypeInv'
  <2>1. Sequence(todo') /\ \A i \in DOMAIN todo' : OpOK(todo'[i])
    BY <1>6, Zenon DEF Plan
  <2> QED
    BY <1>1, <1>3, <1>5, <1>6, <1>7, <1>8, <2>1, Zenon DEF TypeInv
<1>14. Recorded'
    BY <1>3, <1>9, Zenon DEF Recorded, EpochOf
<1>15. EpochInv'
    BY <1>2, <1>3, <1>6, <1>14, Zenon DEF EpochInv, Plan
<1>16. EpochOf(Base)' = epoch /\ EpochOf(stable)' = epoch /\ EpochOf(file)' = epoch /\ EpochOf(Base) = epoch
    BY <1>2, <1>3, <1>6, <1>9 DEF EpochOf, Base
<1>17. \A i \in DOMAIN log' : (i \in DOMAIN log /\ log'[i] = log[i]) \/ log'[i] = e
    BY <1>8, Zenon
<1>18. \A i \in DOMAIN log' : Seals(log'[i]) \/ SealsHeader(log'[i]) \/ log'[i][1] = "clear" =>
          i \in DOMAIN log /\ log'[i] = log[i]
    BY <1>1, <1>4, <1>17
<1>19. MediumInv'
  <2>1. MediumInv /\ EpochOf(file) = epoch
    BY <1>9 DEF IInv
  <2>2. Base'.hdr = Torn => medium' = {}
    BY <1>2, <1>3, <1>6, <2>1, Zenon DEF MediumInv, Base
  <2>3. /\ \A a \in medium : a[1][1] <= epoch
        /\ \A i \in DOMAIN log : Seals(log[i]) => log[i][2][1][1] <= epoch
        /\ \A i \in DOMAIN log : SealsHeader(log[i]) => log[i][2][1][1] >= epoch
        /\ \A i, j \in DOMAIN log : i < j /\ SealsHeader(log[i]) /\ SealsHeader(log[j]) =>
              log[i][2][1][1] <= log[j][2][1][1]
        /\ \A i \in DOMAIN log : log[i][1] = "clear" => i = 1 /\ medium = {} /\ epoch = 0
    BY <1>2, <1>16, <2>1, Zenon DEF MediumInv
  <2>4. /\ \A a \in medium' : a[1][1] <= epoch
        /\ \A i \in DOMAIN log' : Seals(log'[i]) => log'[i][2][1][1] <= epoch
        /\ \A i \in DOMAIN log' : SealsHeader(log'[i]) => log'[i][2][1][1] >= epoch
        /\ \A i \in DOMAIN log' : log'[i][1] = "clear" => i = 1 /\ medium' = {} /\ epoch = 0
    BY <1>3, <1>18, <2>3, Zenon
  <2>5. \A i, j \in DOMAIN log' : i < j /\ SealsHeader(log'[i]) /\ SealsHeader(log'[j]) =>
              log'[i][2][1][1] <= log'[j][2][1][1]
    BY <1>18, <2>3, Zenon
  <2>6. epoch <= epoch
    BY <1>2
  <2> QED
    BY <1>8, <1>10, <1>16, <2>2, <2>4, <2>5, <2>6, Zenon DEF MediumInv, Seals, SealsHeader
<1> QED
    BY <1>12, <1>13, <1>15, <1>19 DEF IInv

\* A foreign file is emptied: nothing of this key is on the medium yet.
LEMMA ClearStep ==
    ASSUME IInv, Truncate, Is("clear")
    PROVE  IInv'
<1> DEFINE e == Head(todo)
<1>1. todo # <<>> /\ e[1] = "clear" /\ ~Is("trunc") /\ TypeInv /\ EpochInv /\ MediumInv
    BY DEF Is, IInv
<1>2. Running /\ e = todo[1] /\ 1 \in DOMAIN todo /\ status # "lost" /\ epoch > 0 /\ epoch \in Nat
    BY <1>1, RestPlan, SeqBound DEF Running, EpochInv
<1>3. Logged(e) /\ Done /\ UNCHANGED <<stable, medium, epoch, seq, logicalLen, phys, part>>
    BY <1>1 DEF Truncate
<1> HIDE DEF e
<1>4. EntryOK(e) /\ ~Seals(e) /\ ~SealsHeader(e)
    BY <1>1 DEF EntryOK, Seals, SealsHeader
<1>5. IsFile(file) /\ Sequence(log)
    BY <1>1, Zenon DEF TypeInv
<1>6. file.hdr = Torn /\ log = <<>> /\ medium = {} /\ stable = file /\ EpochOf(file) = 0
    BY <1>1, <1>2, <1>5, EpochFacts, Zenon DEF EpochInv, MediumInv, Base
<1>7. Ahead(2, "header") /\ Ahead(3, "sync")
    BY <1>1, <1>2, <1>6 DEF EpochInv, Recorded, Recording, Ahead
<1>8. /\ IsFile(file') /\ Sequence(log') /\ \A i \in DOMAIN log' : EntryOK(log'[i])
      /\ DOMAIN log' = DOMAIN log \cup {Len(log) + 1} /\ log'[Len(log) + 1] = e
      /\ log' # <<>>
    BY <1>1, <1>3, <1>4, LoggedTypes, Zenon
<1>9. DOMAIN log' = {1} /\ log'[1] = e
    BY <1>6, <1>8
<1>10. EpochOf(file') = 0 /\ file'.hdr # Torn
    BY <1>1, <1>3, <1>4, <1>5, ApplyEpoch, Zenon DEF Logged
<1>11. /\ Plan(todo') /\ Running' /\ status' \in {"opening", "open"}
       /\ status' = "open" => status = "open" \/ todo' = <<>>
       /\ \A i \in DOMAIN todo' : i + 1 \in DOMAIN todo /\ todo'[i] = todo[i + 1]
       /\ \A i \in DOMAIN todo : i # 1 => i - 1 \in DOMAIN todo'
    BY <1>1, <1>3, DoneFacts
<1>12. 1 \in DOMAIN todo' /\ 2 \in DOMAIN todo'
    BY <1>7, <1>11 DEF Ahead
<1>13. todo'[1][1] = "header" /\ todo'[2][1] = "sync"
    BY <1>7, <1>11, <1>12 DEF Ahead
<1>14. EpochOf(file)' = 0 /\ EpochOf(stable)' = 0 /\ EpochOf(Base)' = 0
    BY <1>3, <1>6, <1>10, <1>11, Zenon DEF EpochOf, Base
<1>15. Recording'
    BY <1>2, <1>3, <1>10, <1>12, <1>13, <1>14 DEF Recording, Ahead
<1>16. status' = "open" => MaxSeals >= MaxU48
  <2>1. ~Recorded
    BY <1>2, <1>6 DEF Recorded
  <2> QED
    BY <1>1, <1>11, <1>12, <2>1 DEF EpochInv
<1>17. EpochInv'
    BY <1>2, <1>3, <1>11, <1>15, <1>16 DEF EpochInv, Plan
<1>18. OnMedium' = OnMedium
    BY <1>3, <1>4, <1>5, SealsOfAppend, Zenon DEF Logged, OnMedium
<1>19. NonceUnique' /\ Past'
    BY <1>2, <1>3, <1>18, Zenon DEF IInv, NonceUnique, Past
<1>20. TypeInv'
  <2>1. Sequence(todo') /\ \A i \in DOMAIN todo' : OpOK(todo'[i])
    BY <1>11 DEF Plan
  <2>2. IsFile(stable')
    BY <1>1, <1>3, Zenon DEF TypeInv
  <2> QED
    BY <1>1, <1>3, <1>8, <1>11, <2>1, <2>2, Zenon DEF TypeInv
<1>21. MediumInv'
  <2>1. \A i \in DOMAIN log' : i = 1 /\ ~Seals(log'[i]) /\ ~SealsHeader(log'[i])
    BY <1>4, <1>9
  <2> QED
    BY <1>3, <1>6, <1>8, <1>10, <1>14, <2>1 DEF MediumInv, Seals, SealsHeader
<1> QED
    BY <1>17, <1>19, <1>20, <1>21 DEF IInv

LEMMA SyncStep ==
    ASSUME IInv, Sync
    PROVE  IInv'
<1>1. todo # <<>> /\ Head(todo)[1] = "sync" /\ TypeInv /\ EpochInv /\ MediumInv
    BY DEF Sync, Is, IInv
<1>2. Running /\ Head(todo) = todo[1] /\ status # "lost" /\ epoch > 0
    BY <1>1, RestPlan DEF Running, EpochInv
<1>3. /\ stable' = file /\ log' = <<>> /\ medium' = OnMedium /\ file' = file /\ Done
      /\ UNCHANGED <<epoch, seq, logicalLen, phys, part>>
    BY DEF Sync, inner
<1>4. Plan(todo') /\ Running' /\ status' \in {"opening", "open"}
    BY <1>1, <1>3, DoneFacts, Zenon
<1>5. EpochOf(file) = epoch
    BY <1>1, <1>2 DEF EpochInv, Recorded, Recording, Ahead
<1>6. Recorded'
    BY <1>3, <1>5, Zenon DEF Recorded, EpochOf
<1>7. EpochInv'
    BY <1>2, <1>3, <1>4, <1>6 DEF EpochInv, Plan
<1>8. SealsOf(<<>>) = {}
    BY DEF SealsOf
<1>9. OnMedium' = OnMedium
    BY <1>3, <1>8, Zenon DEF OnMedium
<1>10. NonceUnique' /\ Past'
    BY <1>2, <1>3, <1>9, Zenon DEF IInv, NonceUnique, Past
<1>11. \A a \in OnMedium : a[1] \in Nat \X Nat /\ a[1][1] <= EpochOf(file)
    BY <1>1, <1>2, Admitted, Zenon
<1>12. TypeInv'
  <2>1. Sequence(todo') /\ \A i \in DOMAIN todo' : OpOK(todo'[i])
    BY <1>4 DEF Plan
  <2>2. Sequence(<<>>)
    BY DEF Sequence
  <2>3. IsFile(file') /\ IsFile(stable')
    BY <1>1, <1>3 DEF TypeInv
  <2>4. \A i \in DOMAIN log' : FALSE
    BY <1>3
  <2>5. \A a \in medium' : a[1] \in Nat \X Nat
    BY <1>3, <1>11, Zenon
  <2> QED
    BY <1>1, <1>3, <1>4, <2>1, <2>2, <2>3, <2>4, <2>5 DEF TypeInv
<1>13. MediumInv'
  <2>1. EpochOf(Base)' = EpochOf(file) /\ EpochOf(stable)' = EpochOf(file) /\ EpochOf(file)' = EpochOf(file)
    BY <1>3, Zenon DEF EpochOf, Base
  <2>2. file'.hdr # Torn /\ Base'.hdr # Torn
    <3>1. IsFile(file)
      BY <1>1, Zenon DEF TypeInv
    <3>2. epoch # 0
      BY <1>2
    <3>3. file.hdr # Torn
      BY <1>5, <3>1, <3>2, EpochFacts, Zenon
    <3> QED
      BY <1>3, <3>3, Zenon DEF Base
  <2>3. \A i \in DOMAIN log' : FALSE
    BY <1>3
  <2>4. EpochOf(file) \in Nat
    BY <1>1, EpochFacts DEF TypeInv
  <2> QED
    <3>1. EpochOf(file) <= EpochOf(file)
      BY <2>4
    <3> QED
      BY <1>3, <1>11, <2>1, <2>2, <2>3, <3>1, Zenon DEF MediumInv, OnMedium
<1> QED
    BY <1>7, <1>10, <1>12, <1>13 DEF IInv

-----------------------------------------------------------------------------
(* A power loss.                                                           *)

LEMMA PowerLossStep ==
    ASSUME IInv, PowerLoss
    PROVE  IInv'
<1>1. TypeInv /\ MediumInv /\ status # "lost"
    BY DEF IInv, PowerLoss
<1>2. /\ status' = "lost" /\ file' = stable /\ todo' = <<>> /\ UNCHANGED <<stable, log, medium>>
      /\ epoch' = 0 /\ seq' = 0 /\ logicalLen' = 0 /\ phys' = 0 /\ part' = 0
    BY Zenon DEF PowerLoss, Forgotten
<1>3. ~Running' /\ EpochInv' /\ Past'
    BY <1>2, SMTT(60) DEF Running, EpochInv, Past
<1>4. NonceUnique'
  <2>1. OnMedium' = OnMedium
    BY <1>2, Zenon DEF OnMedium, SealsOf
  <2> QED
    BY <2>1, Zenon DEF IInv, NonceUnique
<1>5. TypeInv'
  <2>1. Sequence(<<>>)
    BY DEF Sequence
  <2>2. epoch' \in 0..MaxU48 /\ seq' \in 0..MaxSeals
    BY <1>2, SizeAssumption
  <2>3. \A i \in DOMAIN todo' : FALSE
    BY <1>2
  <2> QED
    BY <1>1, <1>2, <2>1, <2>2, <2>3 DEF TypeInv, IsFile, EntryOK, Seals, SealsHeader
<1>6. MediumInv'
  <2>1. EpochOf(Base)' = EpochOf(Base) /\ Base = stable
    BY <1>1, <1>2, Zenon DEF EpochOf, Base
  <2>2. Base'.hdr = Torn => medium' = {}
    BY <1>1, <1>2, <2>1, Zenon DEF MediumInv, Base
  <2> QED
    BY <1>1, <1>2, <2>1, <2>2, Zenon DEF MediumInv, Seals, SealsHeader
<1> QED
    BY <1>3, <1>4, <1>5, <1>6 DEF IInv

\* One logged operation is replayed, or is lost, or is torn.
LEMMA SurvivesStep ==
    ASSUME IInv, NEW tear, Survives(tear)
    PROVE  IInv'
<1>1. TypeInv /\ MediumInv /\ status = "lost" /\ log # <<>> /\ Sequence(log) /\ IsFile(file)
    BY Zenon DEF IInv, Survives, TypeInv
<1>2. 1 \in DOMAIN log /\ Head(log) = log[1] /\ EntryOK(Head(log))
    BY <1>1, SeqFacts DEF TypeInv
<1>3. PICK e \in {<<"lost">>, Head(log)}
              \cup (IF tear /\ Head(log)[1] = "seal" /\ Head(log)[2][2] # 0 THEN {<<"torn", Head(log)[2]>>} ELSE {}) :
          file' = Apply(file, e) /\ medium' = medium \cup SealsOf(<<e>>)
    BY Zenon DEF Survives
<1>4. log' = Tail(log) /\ UNCHANGED <<stable, status, epoch, seq, logicalLen, phys, part, todo>>
    BY DEF Survives, inner
<1> DEFINE h == Head(log)
<1>5. /\ EntryOK(e)
      /\ Seals(e) => Seals(h) /\ e[2] = h[2] /\ (SealsHeader(e) <=> SealsHeader(h))
      /\ e[1] = "clear" => h[1] = "clear"
      /\ SealsHeader(e) => Seals(e)
  <2>1. CASE e = h
    BY <1>2, <2>1 DEF Seals, SealsHeader
  <2>2. CASE e = <<"lost">>
    <3>1. e[1] = "lost"
      BY <2>2, Zenon
    <3> QED
      BY <3>1 DEF EntryOK, Seals, SealsHeader
  <2>3. CASE h[1] = "seal" /\ h[2][2] # 0 /\ e = <<"torn", h[2]>>
    <3>1. e[1] = "torn" /\ e[2] = h[2]
      BY <2>3
    <3> QED
      BY <1>2, <2>3, <3>1 DEF EntryOK, Seals, SealsHeader
  <2> QED
    BY <1>3, <2>1, <2>2, <2>3, Zenon
<1>6. SealsOf(<<e>>) = IF Seals(e) THEN {h[2]} ELSE {}
  <2>1. SealsOf(<<e>>) = IF Seals(e) THEN {e[2]} ELSE {}
    <3>1. DOMAIN <<e>> = {1} /\ <<e>>[1] = e
      OBVIOUS
    <3> QED
      BY <3>1 DEF SealsOf, Seals
  <2> QED
    BY <1>5, <2>1
<1>7. /\ Sequence(log')
      /\ \A i \in DOMAIN log' : i + 1 \in DOMAIN log /\ log'[i] = log[i + 1]
    BY <1>1, <1>4, SeqTail
<1>8. \A i \in DOMAIN log' : i \in Nat /\ i >= 1
    BY <1>7, SeqFacts
<1>9. OnMedium' \subseteq OnMedium
  <2>1. SealsOf(log') \subseteq SealsOf(log)
    BY <1>7 DEF SealsOf
  <2>2. Seals(h) => h[2] \in SealsOf(log)
    BY <1>2, SealsOfMember
  <2>3. medium' \subseteq OnMedium
    BY <1>3, <1>5, <1>6, <2>2 DEF OnMedium
  <2> QED
    BY <2>1, <2>3 DEF OnMedium
<1>10. NonceUnique'
    BY <1>9, Zenon DEF IInv, NonceUnique
<1>11. ~Running /\ ~Running' /\ todo = <<>> /\ status' = "lost"
    BY <1>1, <1>4 DEF Running, TypeInv
<1>12. EpochInv' /\ Past'
    BY <1>4, <1>11 DEF EpochInv, Past
<1>13. TypeInv'
  <2>1. IsFile(file')
    BY <1>1, <1>3, <1>5, ApplyFile, Zenon
  <2>2. \A i \in DOMAIN log' : EntryOK(log'[i])
    BY <1>1, <1>7 DEF TypeInv
  <2>3. Seals(h) => h[2][1] \in Nat \X Nat
    BY <1>2, Zenon DEF EntryOK
  <2>4. \A a \in medium' : a[1] \in Nat \X Nat
    BY <1>1, <1>3, <1>5, <1>6, <2>3, Zenon DEF TypeInv
  <2>5. IsFile(stable')
    BY <1>1, <1>4, Zenon DEF TypeInv
  <2> QED
    BY <1>1, <1>4, <1>7, <1>11, <2>1, <2>2, <2>4, <2>5, Zenon DEF TypeInv
<1>14. MediumInv'
  <2> DEFINE b == EpochOf(file)
             c == EpochOf(file')
  <2>1. Base = file /\ Base' = file' /\ EpochOf(Base)' = c /\ b \in Nat /\ c \in Nat
    BY <1>1, <1>11, <1>13, EpochFacts, Zenon DEF Base, EpochOf, TypeInv
  <2>2. /\ SealsHeader(e) => c = h[2][1][1] /\ file'.hdr # Torn
        /\ e[1] = "clear" => c = 0 /\ file'.hdr # Torn
        /\ ~SealsHeader(e) /\ e[1] # "clear" => c = b /\ file'.hdr = file.hdr
    <3>1. /\ SealsHeader(e) => EpochOf(Apply(file, e)) = e[2][1][1] /\ Apply(file, e).hdr # Torn
          /\ e[1] = "clear" => EpochOf(Apply(file, e)) = 0 /\ Apply(file, e).hdr # Torn
          /\ ~SealsHeader(e) /\ e[1] # "clear" => EpochOf(Apply(file, e)) = EpochOf(file)
      BY <1>1, <1>5, ApplyEpoch, Zenon
    <3>2. ~SealsHeader(e) /\ e[1] # "clear" => Apply(file, e).hdr = file.hdr
      BY <1>1, <1>5, ApplyFile, Zenon
    <3>3. SealsHeader(e) => e[2] = h[2]
      BY <1>5, Zenon
    <3> QED
      BY <1>3, <3>1, <3>2, <3>3, Zenon
  <2> HIDE DEF b, c, h
  <2>3. /\ \A i \in DOMAIN log : Seals(log[i]) /\ ~SealsHeader(log[i]) => log[i][2][1][1] <= b
        /\ \A i \in DOMAIN log : SealsHeader(log[i]) => log[i][2][1][1] >= b
        /\ \A i \in DOMAIN log : log[i][1] = "clear" => i = 1 /\ medium = {} /\ b = 0
        /\ \A a \in medium : a[1][1] <= b
        /\ file.hdr = Torn => medium = {}
    BY <1>1, <2>1, Zenon DEF MediumInv, b
  <2>4. \A i, j \in DOMAIN log : i < j /\ SealsHeader(log[i]) /\ SealsHeader(log[j]) =>
          log[i][2][1][1] <= log[j][2][1][1]
    BY <1>1, Zenon DEF MediumInv
  <2>5. h = log[1]
    BY <1>2 DEF h
  <2>6. b <= c
    <3>1. CASE SealsHeader(e)
      <4>1. c >= b
        BY <1>2, <1>5, <2>2, <2>3, <2>5, <3>1, Zenon
      <4> QED
        BY <2>1, <4>1
    <3>2. CASE e[1] = "clear"
      <4>1. b = 0 /\ c = 0
        BY <1>2, <1>5, <2>2, <2>3, <2>5, <3>2, Zenon
      <4> QED
        BY <4>1
    <3>3. CASE ~SealsHeader(e) /\ e[1] # "clear"
      <4>1. c = b
        BY <2>2, <3>3, Zenon
      <4> QED
        BY <2>1, <4>1
    <3> QED
      BY <3>1, <3>2, <3>3, Zenon
  <2>7. \A i \in DOMAIN log : Seals(log[i]) => log[i][2][1][1] \in Nat
    <3>1. \A i \in DOMAIN log : Seals(log[i]) => log[i][2][1] \in (Nat \ {0}) \X Nat
      BY <1>1, Zenon DEF TypeInv, EntryOK
    <3> QED
      BY <3>1, Zenon
  <2>8. \A i \in DOMAIN log' : SealsHeader(log'[i]) => log'[i][2][1][1] >= c
    <3> SUFFICES ASSUME NEW i \in DOMAIN log', SealsHeader(log'[i]) PROVE log'[i][2][1][1] >= c
      OBVIOUS
    <3>1. i + 1 \in DOMAIN log /\ log'[i] = log[i + 1] /\ 1 < i + 1
      BY <1>7, <1>8
    <3>2. CASE SealsHeader(e)
      <4>1. SealsHeader(log[1]) /\ c = log[1][2][1][1]
        BY <1>5, <2>2, <2>5, <3>2, Zenon DEF h
      <4>2. log[1][2][1][1] \in Nat /\ log[i + 1][2][1][1] \in Nat
        BY <1>2, <2>7, <3>1, <4>1, Zenon DEF Seals, SealsHeader
      <4>3. log[1][2][1][1] <= log[i + 1][2][1][1]
        BY <1>2, <2>4, <3>1, <4>1, Zenon
      <4> QED
        BY <3>1, <4>1, <4>2, <4>3, Zenon
    <3>3. CASE e[1] = "clear"
      <4>1. c = 0 /\ log[i + 1][2][1][1] \in Nat
        BY <2>2, <2>7, <3>1, <3>3, Zenon DEF Seals, SealsHeader
      <4> QED
        BY <3>1, <4>1
    <3>4. CASE ~SealsHeader(e) /\ e[1] # "clear"
      BY <2>2, <2>3, <3>1, <3>4, Zenon
    <3> QED
      BY <3>2, <3>3, <3>4
  <2>9. \A i \in DOMAIN log' : Seals(log'[i]) /\ ~SealsHeader(log'[i]) => log'[i][2][1][1] <= c
    <3>1. \A i \in DOMAIN log' : Seals(log'[i]) /\ ~SealsHeader(log'[i]) => log'[i][2][1][1] <= b /\ log'[i][2][1][1] \in Nat
      BY <1>7, <2>3, <2>7, Zenon
    <3> QED
      BY <2>1, <2>6, <3>1
  <2>10. \A i, j \in DOMAIN log' : i < j /\ SealsHeader(log'[i]) /\ SealsHeader(log'[j]) =>
          log'[i][2][1][1] <= log'[j][2][1][1]
    <3>1. \A i, j \in DOMAIN log' : i < j => i + 1 < j + 1
      BY <1>8
    <3> QED
      BY <1>7, <2>4, <3>1, Zenon
  <2>11. \A i \in DOMAIN log' : log'[i][1] # "clear"
    <3>1. \A i \in DOMAIN log' : i + 1 # 1
      BY <1>8
    <3> QED
      BY <1>7, <2>3, <3>1, Zenon
  <2>12. \A a \in medium' : a[1][1] <= c
    <3>1. \A a \in medium : a[1][1] <= c
      <4>1. \A a \in medium : a[1][1] \in Nat
        <5>1. \A a \in medium : a[1] \in Nat \X Nat
          BY <1>1 DEF TypeInv
        <5> QED
          BY <5>1, Zenon
      <4> QED
        BY <2>1, <2>3, <2>6, <4>1
    <3>2. ASSUME Seals(e) PROVE h[2][1][1] <= c
      <4>1. Seals(log[1]) /\ (SealsHeader(e) <=> SealsHeader(log[1])) /\ log[1][2][1][1] \in Nat
        BY <1>2, <1>5, <2>5, <2>7, <3>2, Zenon DEF h
      <4>2. e[1] # "clear"
        BY <3>2, Zenon DEF Seals
      <4> QED
        BY <1>2, <2>1, <2>2, <2>3, <2>5, <4>1, <4>2
    <3> QED
      BY <1>3, <1>6, <3>1, <3>2, Zenon DEF h
  <2>13. file'.hdr = Torn => medium' = {}
    <3> SUFFICES ASSUME file'.hdr = Torn PROVE medium' = {}
      OBVIOUS
    <3>1. ~SealsHeader(e) /\ e[1] # "clear" /\ c = b /\ file.hdr = Torn
      BY <2>2, Zenon
    <3>2. b = 0 /\ medium = {}
      BY <1>1, <2>3, <3>1, EpochFacts, Zenon DEF b
    <3>3. ~Seals(e)
      <4> SUFFICES ASSUME Seals(e) PROVE FALSE
        OBVIOUS
      <4>1. Seals(log[1]) /\ ~SealsHeader(log[1])
        BY <1>5, <2>5, <3>1, Zenon DEF h
      <4>2. log[1][2][1][1] <= 0
        BY <1>2, <2>3, <3>2, <4>1, Zenon
      <4>3. log[1][2][1] \in (Nat \ {0}) \X Nat
        BY <1>2, <4>1, Zenon DEF EntryOK
      <4>4. log[1][2][1][1] \in Nat \ {0}
        BY <4>3, Zenon
      <4> QED
        BY <4>2, <4>4
    <3> QED
      BY <1>3, <1>6, <3>2, <3>3, Zenon
  <2> HIDE DEF Base
  <2> QED
    BY <1>11, <2>1, <2>8, <2>9, <2>10, <2>11, <2>12, <2>13 DEF MediumInv, Seals, SealsHeader
<1> QED
    BY <1>10, <1>12, <1>13, <1>14, Zenon DEF IInv

LEMMA PowerBackStep ==
    ASSUME IInv, PowerBack
    PROVE  IInv'
<1>1. TypeInv /\ MediumInv /\ status = "lost" /\ log = <<>> /\ ~Running /\ todo = <<>>
    BY DEF IInv, PowerBack, TypeInv, Running
<1>2. /\ status' = "closed" /\ stable' = file
      /\ UNCHANGED <<file, log, medium, epoch, seq, logicalLen, phys, part, todo>>
    BY Zenon DEF PowerBack, inner
<1>3. ~Running' /\ EpochInv' /\ Past'
    BY <1>1, <1>2 DEF Running, EpochInv, Past
<1>4. NonceUnique'
    BY <1>2 DEF IInv, NonceUnique, OnMedium, SealsOf
<1>5. TypeInv'
    BY <1>1, <1>2, Zenon DEF TypeInv, IsFile, EntryOK, Seals, SealsHeader
<1>6. MediumInv'
  <2>1. Base = file /\ Base' = file /\ EpochOf(Base)' = EpochOf(file) /\ EpochOf(Base) = EpochOf(file)
    BY <1>1, <1>2 DEF Base, EpochOf
  <2>2. \A i \in DOMAIN log' : FALSE
    BY <1>1, <1>2
  <2>3. EpochOf(stable)' = EpochOf(file) /\ EpochOf(file)' = EpochOf(file) /\ EpochOf(file) \in Nat
    BY <1>1, <1>2, EpochFacts, Zenon DEF EpochOf, TypeInv
  <2> QED
    BY <1>1, <1>2, <2>1, <2>2, <2>3, SMTT(60) DEF MediumInv
<1> QED
    BY <1>3, <1>4, <1>5, <1>6 DEF IInv

-----------------------------------------------------------------------------
LEMMA LegacyFacts ==
    /\ IsFile(LegacyFile) /\ LegacyFile.hdr \in Headers /\ EpochOf(LegacyFile) = 0
    /\ LegacyFile.hdr[1] = <<0, 0>>
    /\ \A i \in DOMAIN LegacyFile.blk : i \in Nat \ {0} /\ LegacyFile.blk[i][1] = <<0, i>>
<1> DEFINE h == <<<<0, 0>>, 0, [version |-> 1, len |-> MaxLen, epoch |-> 0, pending |-> 0]>>
           n == CeilDiv(MaxLen, BlockSize)
           b == [i \in 1..n |->
                  <<<<0, i>>, i, [c \in 0..BlockSize - 1 |-> IF (i - 1) * BlockSize + c < MaxLen THEN 1 ELSE 0]>>]
<1>1. LegacyFile = [hdr |-> h, blk |-> b]
    BY Zenon DEF LegacyFile
<1>2. h \in Headers /\ h[3].epoch = 0 /\ h[1] = <<0, 0>>
    BY SizeAssumption DEF Headers
<1>3. n \in Nat
    BY DivNat, SizeAssumption DEF CeilDiv
<1> HIDE DEF h, n
<1>4. b = [i \in 1..n |-> b[i]] /\ DOMAIN b = 1..n /\ \A i \in DOMAIN b : b[i][1] = <<0, i>>
    BY Zenon
<1> HIDE DEF b
<1>5. Sequence(b)
    BY <1>3, <1>4, SeqMade
<1>6. IsFile(LegacyFile)
    BY <1>1, <1>2, <1>5 DEF IsFile
<1>7. \A i \in DOMAIN b : i \in Nat \ {0}
    BY <1>3, <1>4
<1> QED
    BY <1>1, <1>2, <1>4, <1>6, <1>7, EpochFacts, Zenon

LEMMA InitStep ==
    ASSUME BackendInit
    PROVE  IInv
<1>1. PICK start \in Starts : InitFrom(start)
    BY DEF BackendInit
<1>2. /\ status = "closed" /\ todo = <<>> /\ log = <<>> /\ stable = file
      /\ epoch = 0 /\ seq = 0 /\ logicalLen = 0 /\ phys = 0 /\ part = 0
    BY <1>1 DEF InitFrom, Closed
<1>3. Sequence(<<>>) /\ DOMAIN log = {} /\ DOMAIN todo = {}
    BY <1>2 DEF Sequence
<1>4. OnMedium = medium
    BY <1>3, Zenon DEF OnMedium, SealsOf
<1>5. /\ IsFile(file) /\ EpochOf(file) = 0 /\ (file.hdr = Torn => medium = {})
      /\ \A a \in medium : a[1] \in Nat \X Nat /\ a[1][1] = 0
      /\ \A a, b \in medium : a[1] = b[1] => a = b
  <2>1. CASE start = "legacy"
    <3> DEFINE m == {LegacyFile.hdr} \cup {LegacyFile.blk[i] : i \in DOMAIN LegacyFile.blk}
    <3>1. file = LegacyFile /\ medium = m
      BY <1>1, <2>1, Zenon DEF InitFrom
    <3>2. \A a \in m : \E i \in Nat : a[1] = <<0, i>>
      BY LegacyFacts
    <3>3. \A a \in m : a[1] \in Nat \X Nat /\ a[1][1] = 0
      BY <3>2, SMTT(60)
    <3>4. ASSUME NEW a \in m, NEW b \in m, a[1] = b[1] PROVE a = b
      <4>1. \A i \in DOMAIN LegacyFile.blk : LegacyFile.blk[i][1] # LegacyFile.hdr[1]
        BY LegacyFacts
      <4>2. \A i, j \in DOMAIN LegacyFile.blk : LegacyFile.blk[i][1] = LegacyFile.blk[j][1] => i = j
        BY LegacyFacts
      <4> QED
        BY <3>4, <4>1, <4>2, Zenon
    <3>5. file.hdr # Torn
      BY <3>1, LegacyFacts, MarkAssumption, Zenon
    <3> HIDE DEF m
    <3> QED
      BY <3>1, <3>3, <3>4, <3>5, LegacyFacts
  <2>2. CASE start # "legacy"
    <3>1. medium = {}
      BY <1>1, <2>2 DEF InitFrom
    <3>2. file = [hdr |-> Torn, blk |-> <<Torn>>] \/ file = [hdr |-> Absent, blk |-> <<>>]
      BY <1>1, <2>2 DEF InitFrom, EmptyFile
    <3>3. Sequence(<<Torn>>)
      <4>1. <<Torn>> \in Seq({Torn})
        OBVIOUS
      <4> QED
        BY <4>1, SeqOf, Zenon
    <3>4. IsFile(file)
      BY <1>3, <3>2, <3>3 DEF IsFile
    <3> QED
      BY <3>1, <3>2, <3>4, EpochFacts
  <2> QED
    BY <2>1, <2>2, Zenon
<1>6. TypeInv
  <2>1. epoch \in 0..MaxU48 /\ seq \in 0..MaxSeals
    BY <1>2, SizeAssumption
  <2> QED
    BY <1>2, <1>3, <1>5, <2>1, Zenon DEF TypeInv
<1>7. EpochInv /\ Past
    BY <1>2, <1>3, Zenon DEF EpochInv, Past, Running
<1>8. NonceUnique
    BY <1>4, <1>5, SMTT(60) DEF NonceUnique
<1>9. MediumInv
  <2>1. Base = file
    BY <1>2 DEF Base
  <2>2. \A a \in medium : a[1][1] <= 0
    BY <1>5
  <2> QED
    BY <1>2, <1>3, <1>5, <2>1, <2>2 DEF MediumInv
<1> QED
    BY <1>6, <1>7, <1>8, <1>9 DEF IInv

LEMMA NextStep ==
    ASSUME IInv, InField, [BackendNext]_backendVars
    PROVE  IInv'
<1>1. CASE Open
    BY <1>1, OpenStep, Zenon
<1>2. CASE Close
    BY <1>2, CloseStep
<1>3. CASE SyncData
  <2>1. Plan(<<<<"sync">>>>)
    BY PlanOne DEF OpOK
  <2> QED
    BY <1>3, <2>1, CallStep DEF SyncData
<1>4. ASSUME NEW off \in Cells, NEW n \in 1..MaxLen, NEW v \in Vals, Write(off, n, v) PROVE IInv'
  <2>1. off \in Nat /\ n \in Nat \ {0}
    BY SizeAssumption DEF Cells
  <2>2. Plan(WritePlan(off, n, v))
    BY <2>1, WritePlanOK
  <2> QED
    BY <1>4, <2>2, CallStep DEF Write
<1>5. ASSUME NEW l \in 0..MaxLen, SetLen(l) PROVE IInv'
  <2>1. Plan(SetLenPlan(l))
    BY SetLenPlanOK
  <2> QED
    BY <1>5, <2>1, CallStep DEF SetLen
<1>6. CASE Ensure
    BY <1>6, EnsureStep
<1>7. CASE WriteHeader
    BY <1>7, WriteHeaderStep
<1>8. CASE WriteSealed
    BY <1>8, WriteSealedStep
<1>9. CASE Rewrite \/ Reseal
    BY <1>9, RewriteStep, ResealStep, Zenon
<1>10. CASE SetLogicalLen
    BY <1>10, SetLogicalLenStep
<1>11. CASE Truncate
    BY <1>11, TruncStep, ClearStep DEF Truncate
<1>12. CASE Sync
    BY <1>12, SyncStep
<1>13. CASE AuthFails
    BY <1>13, AuthFailsStep
<1>14. CASE Fault(Faults)
  <2>1. CASE "error" \in Faults /\ IoError
    BY <2>1, IoErrorStep
  <2>2. CASE ShortWrite
    BY <2>2, ShortWriteStep
  <2>3. CASE Kill
    BY <2>3, KillStep
  <2>4. CASE PowerLoss
    BY <2>4, PowerLossStep
  <2>5. CASE Survives("tear" \in Faults)
    BY <2>5, SurvivesStep, Zenon
  <2>6. CASE PowerBack
    BY <2>6, PowerBackStep
  <2> QED
    BY <1>14, <2>1, <2>2, <2>3, <2>4, <2>5, <2>6 DEF Fault
<1>15. CASE UNCHANGED backendVars
  <2> USE <1>15 DEF backendVars, inner, IInv
  <2>1. TypeInv'
    BY Zenon DEF TypeInv, IsFile, EntryOK, Seals, SealsHeader, Running
  <2>2. EpochInv'
    BY Zenon DEF EpochInv, Recorded, Recording, Ahead, EpochOf, Running
  <2>3. MediumInv'
    BY Zenon DEF MediumInv, Base, EpochOf, Seals, SealsHeader
  <2>4. Past' /\ NonceUnique'
    BY DEF Past, NonceUnique, OnMedium, SealsOf, Running
  <2> QED
    BY <2>1, <2>2, <2>3, <2>4
<1> QED
    BY <1>1, <1>2, <1>3, <1>4, <1>5, <1>6, <1>7, <1>8, <1>9, <1>10, <1>11, <1>12, <1>13, <1>14, <1>15, Zenon
       DEF BackendNext, Operation

\* No two different ciphertexts that reach the medium share a nonce, whatever file
\* was at the path, however often it is opened, and whichever of a kill, a power
\* loss that keeps any of the operations since the last sync and tears any block,
\* and a full disk happens between two operations on it (Inner.epoch,
\* ensure_nonce_space).
THEOREM NoncesUnique == InField /\ BackendSpec => []NonceUnique
<1>1. BackendInit => IInv
    BY InitStep, Zenon
<1>2. InField /\ IInv /\ [BackendNext]_backendVars => IInv'
    BY NextStep
<1>3. IInv => NonceUnique
    BY DEF IInv
<1>4. InField => []InField
  <2>1. InField => InField'
    BY DEF InField
  <2> QED
    BY <2>1, PTL
<1> QED
    BY <1>1, <1>2, <1>3, <1>4, PTL DEF BackendSpec
=============================================================================
