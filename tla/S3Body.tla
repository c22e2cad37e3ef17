------------------------------- MODULE S3Body -------------------------------
(***************************************************************************)
(* The body of an S3 upload (crates/y2qd/src/s3/body/upload.rs): frames of *)
(* aws-chunked with their chain of signatures and their trailer, checksums *)
(* of the whole body, the leash of the session.  The network delivers the  *)
(* wire in pieces of any length.                                           *)
(*                                                                         *)
(* The wire is a sequence of cells: CR, LF, bytes of data (which may be CR *)
(* and LF too) and the text of a line, one cell.  A digest is what was     *)
(* digested and a signature is all that was signed up to it: both ideal.   *)
(***************************************************************************)
EXTENDS Integers, Sequences, FiniteSets, TLC

CONSTANTS MaxFrame, MaxLine, MaxPull, CR, LF, Absent, Octets

VARIABLES
    upload,     \* the request: payload mode, declared checksums, the body meant, the wire, what happened to it
    dec,     \* the adapters and their buffer
    out      \* what stream_encrypt_for_put was given so far

bodyVars == <<upload, dec, out>>

Chunked == {"signed", "signed-trailer", "unsigned-trailer"}
Signed  == {"signed", "signed-trailer"}
Trailer == {"signed-trailer", "unsigned-trailer"}
-----------------------------------------------------------------------------
(* What a client sends.                                                    *)

SizeLine(n, sig) == [t |-> "size", n |-> n, v |-> sig]
SumLine(v)       == [t |-> "sum", n |-> 0, v |-> v]
SigLine(v)       == [t |-> "sig", n |-> 0, v |-> v]
Line(x)          == <<x, CR, LF>>
Seed             == <<"seed">>

RECURSIVE Frames(_, _, _)
Frames(mode, frames, chain) ==
    LET sig == Append(chain, IF frames = <<>> THEN <<>> ELSE Head(frames))
        txt == SizeLine(IF frames = <<>> THEN 0 ELSE Len(Head(frames)), IF mode \in Signed THEN sig ELSE Absent)
    IN IF frames = <<>>
       THEN Line(txt)
       ELSE Line(txt) \o Head(frames) \o <<CR, LF>> \o Frames(mode, Tail(frames), sig)

Joined(frames) == IF frames = <<>> THEN <<>> ELSE IF Len(frames) = 1 THEN frames[1] ELSE frames[1] \o frames[2]
Wire(mode, frames, sum) ==
    IF mode \notin Chunked THEN Joined(frames)
    ELSE LET chain == Seed \o frames \o << <<>> >>
             lines == IF sum THEN <<SumLine(Joined(frames))>> ELSE <<>>
         IN Frames(mode, frames, Seed)
            \o (IF mode \in Trailer /\ sum THEN Line(SumLine(Joined(frames))) ELSE <<>>)
            \o (IF mode = "signed-trailer" THEN Line(SigLine(Append(chain, lines))) ELSE <<>>)
            \o <<CR, LF>>
-----------------------------------------------------------------------------
(* upload_stream and decode_aws_chunked.                                   *)

Supported   == {"crc32", "sha256"}
Unsupported == {"crc32c", "crc64nvme", "sha1"}
classify(name) == IF name \in Supported THEN "supported" ELSE IF name \in Unsupported THEN "unsupported" ELSE "none"

\* The trailer names are tried in order up to the first that is supported.
RECURSIVE TrailerChecksum(_)
TrailerChecksum(names) ==
    IF names = <<>> THEN "none"
    ELSE CASE classify(Head(names)) = "supported"   -> "verify"
           [] classify(Head(names)) = "unsupported" -> "refuse"
           [] OTHER                                 -> TrailerChecksum(Tail(names))

ChunkedState == [pc |-> "ask", buf |-> <<>>, eof |-> FALSE, inner |-> upload.wire, chain |-> Seed, size |-> 0, sig |-> Absent,
                 lines |-> <<>>, sum |-> Absent, tsig |-> Absent]

Fail(d)  == [d EXCEPT !.pc = "refused", !.buf = <<>>, !.inner = <<>>]
To(d, pc) == [d EXCEPT !.pc = pc]

upload_stream ==
    /\ dec.pc = "ask"
    /\ dec' = IF (\E n \in upload.header : classify(n) # "supported") \/ TrailerChecksum(upload.trailer) = "refuse" THEN Fail(dec)
              ELSE [dec EXCEPT !.pc = IF upload.mode \in Chunked THEN "header" ELSE "plain"]
    /\ UNCHANGED <<upload, out>>

\* The position of the first CR LF in the buffer, 0 without one.
find_crlf(buf) ==
    LET at == {i \in 1..(Len(buf) - 1) : buf[i] = CR /\ buf[i + 1] = LF}
    IN IF at = {} THEN 0 ELSE CHOOSE i \in at : \A j \in at : i <= j

AtLine  == dec.pc \in {"header", "trailer", "blank"}
Starved == IF AtLine THEN find_crlf(dec.buf) = 0 ELSE dec.pc = "data" /\ Len(dec.buf) < dec.size + 2
TooLong == AtLine /\ Len(dec.buf) > MaxLine

\* inner.next: a piece, the end, or the error of a connection that was lost.
Piece(n) == IF dec.inner = <<>> THEN n = 0 ELSE n \in 1..Len(dec.inner)

\* read_line and read_exact ask for more.
Pull(n) ==
    /\ Starved /\ ~dec.eof /\ ~TooLong
    /\ Piece(n)
    /\ dec' = IF n > 0 THEN [dec EXCEPT !.buf = @ \o SubSeq(dec.inner, 1, n), !.inner = SubSeq(@, n + 1, Len(@))]
              ELSE IF upload.lost THEN Fail(dec) ELSE [dec EXCEPT !.eof = TRUE]
    /\ UNCHANGED <<upload, out>>

\* They give up on a line that is too long and on a body that ends too early.
GiveUp ==
    /\ Starved /\ (dec.eof \/ TooLong)
    /\ dec' = Fail(dec)
    /\ UNCHANGED <<upload, out>>

\* read_line splits the line off the buffer.
HasLine(pc)     == dec.pc = pc /\ find_crlf(dec.buf) # 0
TheLine         == SubSeq(dec.buf, 1, find_crlf(dec.buf) - 1)
Rest            == SubSeq(dec.buf, find_crlf(dec.buf) + 2, Len(dec.buf))
IsText(line, t) == Len(line) = 1 /\ line[1] \notin Octets /\ line[1].t = t

\* (mutant) A frame's signature is checked without the one before it.
SignedAlone(d, sig, content) == upload.mode \in Signed => sig # Absent /\ sig[Len(sig)] = content
verify_chunk_signature(d, sig, content) == upload.mode \in Signed => sig = Append(d.chain, content)

\* next_chunked_frame: the line of a frame, its size and signature.  Size 0 ends the data.
FrameHeader ==
    LET line == TheLine
        d    == [dec EXCEPT !.buf = Rest]
    IN
    /\ HasLine("header")
    /\ dec' = IF ~IsText(line, "size") THEN Fail(d)
              ELSE IF line[1].n > MaxFrame THEN Fail(d)
              ELSE IF line[1].n > 0 THEN [d EXCEPT !.pc = "data", !.size = line[1].n, !.sig = line[1].v]
              ELSE IF ~verify_chunk_signature(d, line[1].v, <<>>) THEN Fail(d)
              ELSE [d EXCEPT !.chain = Append(@, <<>>), !.pc = IF upload.mode \in Trailer THEN "trailer" ELSE "blank"]
    /\ UNCHANGED <<upload, out>>

\* leashed_upload: every piece may find that the session has ended.
leashed_upload(data, d) ==
    \/ out' = out \o data /\ dec' = d /\ UNCHANGED upload
    \/ dec' = Fail(d) /\ upload' = [upload EXCEPT !.leashed = TRUE] /\ UNCHANGED out

\* The data of a frame and the CR LF behind it are read whole before any of it goes on.
FrameData ==
    LET data == SubSeq(dec.buf, 1, dec.size)
        d    == [dec EXCEPT !.buf = SubSeq(@, dec.size + 3, Len(@)), !.chain = Append(@, data), !.pc = "header"]
    IN
    /\ dec.pc = "data" /\ ~Starved
    /\ IF SubSeq(dec.buf, dec.size + 1, dec.size + 2) = <<CR, LF>> /\ verify_chunk_signature(dec, dec.sig, data)
       THEN leashed_upload(data, d)
       ELSE dec' = Fail(d) /\ UNCHANGED <<upload, out>>

\* The verifiers at the end of the body: PayloadSha256 and ChecksumHeader, over what went on.
PayloadSha256  == upload.mode = "exact" => out = upload.sent
ChecksumHeader == upload.header # {} => out = upload.sent
verify_at_eof(d) == IF PayloadSha256 /\ ChecksumHeader THEN To(d, "stored") ELSE Fail(d)

\* A declared checksum must have come in the trailer, and be right.
TrailerSum(d) == TrailerChecksum(upload.trailer) = "verify" => d.sum = out

\* read_trailer: the lines up to the blank one; a signature of them in the signed mode.
TrailerLine ==
    LET line == TheLine
        d    == [dec EXCEPT !.buf = Rest]
        ok   == upload.mode \in Signed => d.tsig = Append(d.chain, d.lines)
    IN
    /\ HasLine("trailer")
    /\ dec' = IF line = <<>> THEN IF ok /\ TrailerSum(d) THEN verify_at_eof(d) ELSE Fail(d)
              ELSE IF IsText(line, "sig") THEN [d EXCEPT !.tsig = line[1].v]
              ELSE IF IsText(line, "sum") THEN [d EXCEPT !.lines = @ \o line, !.sum = line[1].v]
              ELSE [d EXCEPT !.lines = @ \o line]
    /\ UNCHANGED <<upload, out>>

\* Without a trailer a blank line follows the last frame all the same.
BlankLine ==
    /\ HasLine("blank")
    /\ LET d == [dec EXCEPT !.buf = Rest]
       IN dec' = IF TheLine = <<>> /\ TrailerSum(d) THEN verify_at_eof(d) ELSE Fail(d)
    /\ UNCHANGED <<upload, out>>

\* A body that is not chunked goes on as it comes.
PlainPiece(n) ==
    /\ dec.pc = "plain" /\ Piece(n)
    /\ IF n > 0 THEN leashed_upload(SubSeq(dec.inner, 1, n), [dec EXCEPT !.inner = SubSeq(@, n + 1, Len(@))])
       ELSE /\ dec' = IF upload.lost THEN Fail(dec) ELSE verify_at_eof(dec)
            /\ UNCHANGED <<upload, out>>

BodyNext ==
    \/ upload_stream \/ GiveUp \/ FrameHeader \/ FrameData \/ TrailerLine \/ BlankLine
    \/ \E n \in 0..MaxPull : Pull(n) \/ PlainPiece(n)

\* At rest when the request is no upload at all.
NoBody == [mode |-> "unsigned", header |-> {}, trailer |-> <<>>, sent |-> <<>>, wire |-> <<>>, harm |-> "none", lost |-> FALSE,
           leashed |-> FALSE]
BodyInit(reqs) == upload \in reqs /\ dec = ChunkedState /\ out = <<>>
BodyRest == upload = NoBody /\ dec = [ChunkedState EXCEPT !.pc = "stored"] /\ out = <<>>
-----------------------------------------------------------------------------
(* What must hold.                                                         *)

Guarded == \/ upload.mode \in Signed \cup {"exact"}
           \/ upload.header # {}
           \/ upload.mode \in Chunked /\ TrailerChecksum(upload.trailer) = "verify"

\* A body that some digest or signature covers is stored as it was sent or not at all, whatever the way did to the wire
\* (cells lost, changed or repeated, frames swallowed whole, the end cut off) and however it came in pieces.
GuardedAsSent == dec.pc = "stored" /\ Guarded => out = upload.sent

\* In the signed modes not even a byte that goes on to be encrypted is other than what was sent: a frame goes on only after
\* its signature, and the chain forbids frames left out or repeated.
OnlySignedGoesOn == upload.mode \in Signed => \E n \in 0..Len(upload.sent) : out = SubSeq(upload.sent, 1, n)

\* Whether the declarations can be honoured at all: a trailer checksum needs a mode with a trailer.
Honest == /\ \A n \in upload.header : classify(n) = "supported"
          /\ TrailerChecksum(upload.trailer) # "refuse"
          /\ upload.mode = "signed" => TrailerChecksum(upload.trailer) = "none"

\* A body that arrives unharmed is stored whatever pieces the network cut it into: no CR LF in the data, no line, signature
\* or CR LF split between two pieces leads the decoder astray.
UnharmedIsStored == dec.pc = "refused" => upload.harm # "none" \/ upload.lost \/ upload.leashed \/ ~Honest

\* What an upload stores: what was sent, or nothing.
StoredAsSent == GuardedAsSent /\ OnlySignedGoesOn /\ UnharmedIsStored
=============================================================================
