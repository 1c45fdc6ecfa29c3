---------------------------- MODULE ExchangeProofs ----------------------------
(***************************************************************************)
(* A slot keeps what Exchange promises: proofs for any requests, pages,    *)
(* sizes of buffers and ways to cut what is received and sent.             *)
(***************************************************************************)
EXTENDS HttpConnProofs

\* What a client may get: a byte of a response's head or of a file.
Labels == Titles \cup ({"file"} \X Files)
OutByte == Labels \X Int

PageOf(r) == RequestLines[r.line].url_

\* Where, in the bytes of a request, the content length and the blank line begin.
LengthAt(r) == IF r.keep THEN 6 ELSE 3
BlankAt(r) == LengthAt(r) + (IF HasBody(r) THEN 3 ELSE 0)
HeadLen(r) == BlankAt(r) + 2

----------------------------------------------------------------------------
(* The inductive invariant: first what is read.                            *)

\* a slot after HttpClear, and a client with nothing more to say
Untouched ==
    /\ rd = [Cleared EXCEPT !.heard_string_ = rd.heard_string_]
    /\ wr.all_bytes_have_send_ = 0
Silent == arrived = <<>> /\ unsent = <<>>

AtRequestLine ==
    /\ rd.check_state_ = "CHECK_STATE_REQUESTLINE"
    /\ rd.start_line_ = 0 /\ rd.checked_idx_ <= 1
    /\ ~rd.socket_linger_opt_ /\ rd.content_length_ = 0

\* In which header line the parser is decides what it has learned from those before.
AtHeader(r) ==
    /\ rd.check_state_ = "CHECK_STATE_HEADER"
    /\ \/ /\ r.keep /\ rd.start_line_ = 3 /\ rd.checked_idx_ <= 4
          /\ ~rd.socket_linger_opt_ /\ rd.content_length_ = 0
       \/ /\ HasBody(r) /\ rd.start_line_ = LengthAt(r) /\ rd.checked_idx_ <= LengthAt(r) + 1
          /\ (rd.socket_linger_opt_ <=> r.keep) /\ rd.content_length_ = 0
       \/ /\ rd.start_line_ = BlankAt(r) /\ rd.checked_idx_ = BlankAt(r)
          /\ (rd.socket_linger_opt_ <=> r.keep)
          /\ rd.content_length_ = IF HasBody(r) THEN BodyLen ELSE 0

AtContent(r) ==
    /\ rd.check_state_ = "CHECK_STATE_CONTENT"
    /\ HasBody(r) /\ rd.start_line_ >= HeadLen(r)
    /\ (rd.socket_linger_opt_ <=> r.keep) /\ rd.content_length_ = BodyLen

Position(r) ==
    \/ AtRequestLine
    \/ /\ r.crlf /\ Understood(r) /\ rd.url_ = PageOf(r)
       /\ AtHeader(r) \/ AtContent(r)

\* No byte of an answer is out.
Before == got = <<>> /\ cuts < 2 /\ wr.all_bytes_have_send_ = 0

\* The request is on its way: what was read, what is in the socket and what the client
\* has still to send are the request, and the parser stands where it should.
Asking(r) ==
    /\ rd.read_buffers_ \o arrived \o unsent = Bytes(r)
    /\ Position(r)
    /\ Before

\* The request was read.
Requested(r) ==
    /\ Understood(r) /\ Silent
    /\ rd.url_ = PageOf(r) /\ (rd.socket_linger_opt_ <=> r.keep)
    /\ rd.read_buffers_ = Bytes(r)
    /\ HasBody(r) => HeardText = r.body
    /\ Before

----------------------------------------------------------------------------
(* Then what is sent.                                                      *)

Decided(r) ==
    /\ Understood(r) => Silent
    /\ rd.socket_linger_opt_ <=> Keeps(r)

StatusFits(r) ==
    IF Understood(r)
    THEN /\ Pages[PageOf(r)].kind = "missing" => status = "NO_RESOURCE"
         /\ Pages[PageOf(r)].kind = "directory" => status = "BAD_REQUEST"
         /\ Pages[PageOf(r)].kind = "secret" => status = "FORBIDDEN_REQUEST"
         /\ Pages[PageOf(r)].kind = "file" =>
               /\ status = "FILE_REQUEST" /\ wr.file_stat_ = PageOf(r)
               /\ Pages[PageOf(r)].st_size # 0 =>
                     wr.file_address_ \in {PageOf(r), MAP_FAILED}
    ELSE status = "BAD_REQUEST"

Answering(r) == Decided(r) /\ StatusFits(r) /\ Before

HeadOf(w) == Numbered(w.write_buffers_, w.write_index_)
FileOf(w) == Numbered(<<"file", w.file_address_>>, Pages[w.file_address_].st_size)

\* The slot has what the answer is made of: a head, or a head and a file.
Prepared(r, w) ==
    /\ w.write_buffers_ \in Titles /\ w.write_index_ \in 1 .. IntMax
    /\ \/ w.iv_count_ = 1 /\ Answer(r) = HeadOf(w)
       \/ /\ w.iv_count_ = 2 /\ w.write_index_ = HeaderLen
          /\ Understood(r) /\ w.file_address_ = PageOf(r) /\ PageOf(r) \in Files
          /\ Answer(r) = HeadOf(w) \o FileOf(w)

\* The two iovecs of w continue the answer behind g, in its head after c cuts ...
InHead(w, g, c) ==
    /\ w.all_bytes_have_send_ = Len(g)
    /\ w.iov0 = [base |-> Len(g), len |-> w.write_index_ - Len(g)]
    /\ w.iv_count_ = 2 => w.iov1 = [base |-> 0, len |-> Pages[w.file_address_].st_size]
    /\ c = 0 <=> g = <<>>

\* ... or in its file.
InFile(w, g) ==
    /\ w.all_bytes_have_send_ = Len(g)
    /\ w.iov0.len = 0
    /\ w.iov1 = [base |-> Len(g) - w.write_index_, len |-> w.all_bytes_to_send_]

\* A head that was cut twice is wrong, or what is left of it is too short.
Wrong(r, w, g) == \E i \in DOMAIN g : i <= w.write_index_ /\ g[i] # Answer(r)[i]

RunsShort(w, g) ==
    /\ w.all_bytes_have_send_ = Len(g)
    /\ w.iov0.len >= 0 /\ Len(g) + w.iov0.len < w.write_index_

Cursor(r, w, g, c) ==
    /\ c < 2 /\ Len(g) < w.write_index_ => InHead(w, g, c)
    /\ c < 2 /\ ~Overflows(r) =>
          /\ Len(g) >= w.write_index_ => InFile(w, g)
          /\ Len(g) <= Len(Answer(r)) /\ g = SubSeq(Answer(r), 1, Len(g))
    /\ c >= 2 => Wrong(r, w, g) \/ RunsShort(w, g)

\* The answer is on its way, or its file was not mapped and none of it goes out.
Underway(r) ==
    /\ Prepared(r, wr) /\ Cursor(r, wr, got, cuts)
    /\ wr.all_bytes_to_send_ = Int32(Len(Answer(r)) - Len(got))
    /\ got = <<>> \/ wr.all_bytes_to_send_ > 0

Unsendable(r) == BadVector(wr) /\ Understood(r) /\ got = <<>> /\ cuts = 0

Sending(r) == Decided(r) /\ (Underway(r) \/ Unsendable(r))

\* The answer is out.
Told(r) == Untouched /\ Silent /\ (cuts >= 2 => got # Answer(r))

----------------------------------------------------------------------------
\* What the slot does for a request, place by place.
Phase(r) ==
    /\ at \in {"watched", "parse", "request", "answer", "write", "more", "done"}
    /\ at = "watched" /\ interest = "in" => Asking(r) \/ Told(r)
    /\ at = "parse" => Asking(r)
    /\ at = "request" => Requested(r)
    /\ at = "answer" => Answering(r)
    /\ at = "watched" /\ interest = "out" => Sending(r)
    /\ at \in {"write", "more"} => Sending(r)
    /\ at = "done" => ~Keeps(r)

NoRequestInv ==
    /\ want = Closed => Silent /\ got = <<>> /\ cuts = 0
    /\ want = Idle =>
          at = "watched" /\ interest = "in" /\ Untouched /\ Silent /\ Before

ConnInv ==
    /\ got \in Seq(OutByte) /\ cuts \in Nat
    /\ NoRequestInv
    /\ \A r \in Requests : want = r => Phase(r)

----------------------------------------------------------------------------
(* The bytes of a request.                                                 *)

LEMMA BytesAre ==
  /\ CR \in Byte /\ LF \in Byte /\ CR # LF
  /\ KeepAlive \in Byte /\ KeepAlive \notin {CR, LF}
  /\ ContentLength \in Byte /\ ContentLength \notin {CR, LF}
  /\ KeepAlive # ContentLength
  /\ BodyLen \in Nat /\ BodyLen > 0
  /\ \A r \in Requests : r.line \in Byte /\ r.line \notin {CR, LF}
                         /\ r.keep \in BOOLEAN /\ HasBody(r) \in BOOLEAN /\ r.crlf \in BOOLEAN
                         /\ r.body \in Seq(Byte)
                         /\ (HasBody(r) => Len(r.body) = BodyLen) /\ (~HasBody(r) => r.body = <<>>)
  <1>1. CR # LF
    BY DEF CR, LF
  <1>2. BodyLen \in Nat /\ BodyLen > 0
    BY RequestParserAssumption
  <1>3. ASSUME NEW r \in Requests
        PROVE  /\ r.line \in Byte /\ r.line \notin {CR, LF}
               /\ r.keep \in BOOLEAN /\ HasBody(r) \in BOOLEAN /\ r.crlf \in BOOLEAN
               /\ r.body \in Seq(Byte)
               /\ (HasBody(r) => Len(r.body) = BodyLen) /\ (~HasBody(r) => r.body = <<>>)
    <2>1. /\ r.line \in STRING /\ r.line \notin {CR, LF}
          /\ r.keep \in BOOLEAN /\ r.crlf \in BOOLEAN /\ r.body \in Seq(STRING)
          /\ Len(r.body) \in {0, BodyLen}
      BY HttpConnAssumption
    <2>2. r.body \in Seq(Byte) /\ r.line \in Byte
      BY <2>1 DEF Byte
    <2>3. HasBody(r) \in BOOLEAN /\ (~HasBody(r) => r.body = <<>>)
      BY DEF HasBody
    <2>4. HasBody(r) => Len(r.body) = BodyLen
      BY <2>1 DEF HasBody
    <2> QED
      BY <2>1, <2>2, <2>3, <2>4
  <1> QED
    BY <1>1, <1>2, <1>3, RequestParserAssumption DEF Byte

\* A line that ends in CR and LF is put behind others.
WithLine(s, x) == s \o (<<x>> \o <<CR, LF>>)

LEMMA LineAppended ==
  ASSUME NEW s \in Seq(Byte), NEW x \in Byte
  PROVE  /\ WithLine(s, x) \in Seq(Byte) /\ Len(WithLine(s, x)) = Len(s) + 3
         /\ \A i \in 1 .. Len(s) : WithLine(s, x)[i] = s[i]
         /\ WithLine(s, x)[Len(s) + 1] = x
         /\ WithLine(s, x)[Len(s) + 2] = CR /\ WithLine(s, x)[Len(s) + 3] = LF
  <1> DEFINE e == <<x>> \o <<CR, LF>>
             t == WithLine(s, x)
  <1>1. <<CR, LF>> \in Seq(Byte) /\ <<x>> \in Seq(Byte)
    BY BytesAre
  <1>2. e \in Seq(Byte) /\ Len(e) = 3 /\ e[1] = x /\ e[2] = CR /\ e[3] = LF
    BY <1>1
  <1>3. Len(s) \in Nat /\ t = s \o e
    BY DEF WithLine
  <1> HIDE DEF e, t
  <1>4. /\ t \in Seq(Byte) /\ Len(t) = Len(s) + Len(e)
        /\ \A i \in 1 .. Len(s) + Len(e) : t[i] = IF i <= Len(s) THEN s[i] ELSE e[i - Len(s)]
    BY <1>2, <1>3, ConcatProperties
  <1>5. \A i \in 1 .. Len(s) : t[i] = s[i]
    BY <1>2, <1>3, <1>4
  <1>6. /\ t[Len(s) + 1] = e[1] /\ t[Len(s) + 2] = e[2] /\ t[Len(s) + 3] = e[3]
    BY <1>2, <1>3, <1>4
  <1> QED
    BY <1>2, <1>4, <1>5, <1>6 DEF t

\* The head of a request, byte by byte.
Heads(r, b) ==
    /\ b[1] = r.line /\ b[2] = CR /\ b[3] = LF
    /\ r.keep => b[4] = KeepAlive /\ b[5] = CR /\ b[6] = LF
    /\ HasBody(r) => /\ b[LengthAt(r) + 1] = ContentLength
                     /\ b[LengthAt(r) + 2] = CR /\ b[LengthAt(r) + 3] = LF
    /\ b[BlankAt(r) + 1] = CR /\ b[BlankAt(r) + 2] = LF

LEMMA HeadShape ==
  ASSUME NEW r \in Requests, r.crlf
  PROVE  /\ HeadBytes(r) \in Seq(Byte) /\ Len(HeadBytes(r)) = HeadLen(r)
         /\ Heads(r, HeadBytes(r))
  <1> DEFINE e == <<CR, LF>>
             s0 == <<>>
             s1 == <<r.line>> \o e
             s2 == s1 \o (IF r.keep THEN <<KeepAlive>> \o e ELSE <<>>)
             s3 == s2 \o (IF HasBody(r) THEN <<ContentLength>> \o e ELSE <<>>)
             s4 == s3 \o e
  <1>1. HeadBytes(r) = s4
    BY DEF HeadBytes, Eol
  <1>2. e \in Seq(Byte) /\ Len(e) = 2 /\ e[1] = CR /\ e[2] = LF /\ r.line \in Byte
    BY BytesAre
  <1>3. s1 \in Seq(Byte) /\ Len(s1) = 3 /\ s1[1] = r.line /\ s1[2] = CR /\ s1[3] = LF
    BY <1>2
  <1>4. /\ s2 \in Seq(Byte) /\ Len(s2) = LengthAt(r)
        /\ \A i \in 1 .. 3 : s2[i] = s1[i]
        /\ r.keep => s2[4] = KeepAlive /\ s2[5] = CR /\ s2[6] = LF
    <2> HIDE DEF s1
    <2>1. CASE r.keep
      <3>1. s2 = WithLine(s1, KeepAlive)
        BY <2>1 DEF WithLine
      <3> HIDE DEF s2
      <3>2. KeepAlive \in Byte /\ s1 \in Seq(Byte)
        BY <1>3, BytesAre
      <3>3. /\ s2 \in Seq(Byte) /\ Len(s2) = Len(s1) + 3
            /\ \A i \in 1 .. Len(s1) : s2[i] = s1[i]
            /\ s2[Len(s1) + 1] = KeepAlive /\ s2[Len(s1) + 2] = CR /\ s2[Len(s1) + 3] = LF
        BY <3>1, <3>2, LineAppended
      <3> QED
        BY <1>3, <2>1, <3>3 DEF LengthAt
    <2>2. CASE ~r.keep
      <3>1. s2 = s1
        BY <1>3, <2>2, ConcatEmptySeq
      <3> HIDE DEF s2
      <3> QED
        BY <1>3, <2>2, <3>1 DEF LengthAt
    <2> QED
      BY <2>1, <2>2
  <1>5. /\ s3 \in Seq(Byte) /\ Len(s3) = BlankAt(r)
        /\ \A i \in 1 .. LengthAt(r) : s3[i] = s2[i]
        /\ HasBody(r) => /\ s3[LengthAt(r) + 1] = ContentLength
                         /\ s3[LengthAt(r) + 2] = CR /\ s3[LengthAt(r) + 3] = LF
    <2> HIDE DEF s2
    <2>1. CASE HasBody(r)
      <3>1. s3 = WithLine(s2, ContentLength)
        BY <2>1 DEF WithLine
      <3> HIDE DEF s3
      <3>2. ContentLength \in Byte /\ s2 \in Seq(Byte) /\ Len(s2) = LengthAt(r)
        BY <1>4, BytesAre
      <3>3. /\ s3 \in Seq(Byte) /\ Len(s3) = Len(s2) + 3
            /\ \A i \in 1 .. Len(s2) : s3[i] = s2[i]
            /\ s3[Len(s2) + 1] = ContentLength /\ s3[Len(s2) + 2] = CR /\ s3[Len(s2) + 3] = LF
        BY <3>1, <3>2, LineAppended
      <3> QED
        BY <2>1, <3>2, <3>3 DEF BlankAt
    <2>2. CASE ~HasBody(r)
      <3>1. s3 = s2
        BY <1>4, <2>2, ConcatEmptySeq
      <3>2. LengthAt(r) \in Nat /\ BlankAt(r) = LengthAt(r)
        BY <2>2 DEF BlankAt, LengthAt
      <3> HIDE DEF s3
      <3> QED
        BY <1>4, <2>2, <3>1, <3>2
    <2> QED
      BY <2>1, <2>2
  <1>6. LengthAt(r) \in {3, 6} /\ (r.keep <=> LengthAt(r) = 6)
        /\ BlankAt(r) \in Nat /\ BlankAt(r) >= LengthAt(r)
        /\ (HasBody(r) => BlankAt(r) = LengthAt(r) + 3)
        /\ HeadLen(r) = BlankAt(r) + 2
    BY DEF LengthAt, BlankAt, HeadLen
  <1> HIDE DEF s1, s2, s3, e
  <1>7. /\ s4 \in Seq(Byte) /\ Len(s4) = Len(s3) + Len(e)
        /\ \A i \in 1 .. Len(s3) + Len(e) :
              s4[i] = IF i <= Len(s3) THEN s3[i] ELSE e[i - Len(s3)]
    <2>1. s3 \in Seq(Byte) /\ e \in Seq(Byte)
      BY <1>2, <1>5
    <2> QED
      BY <2>1, ConcatProperties
  <1> HIDE DEF s4
  <1>8. \A i \in 1 .. BlankAt(r) : s4[i] = s3[i]
    BY <1>2, <1>5, <1>6, <1>7
  <1>9. s4[BlankAt(r) + 1] = CR /\ s4[BlankAt(r) + 2] = LF /\ Len(s4) = BlankAt(r) + 2
    BY <1>2, <1>5, <1>6, <1>7
  <1>10. \A i \in 1 .. LengthAt(r) : s4[i] = s2[i]
    BY <1>5, <1>6, <1>8
  <1>11. \A i \in 1 .. 3 : s4[i] = s1[i]
    BY <1>4, <1>6, <1>10
  <1>12. s4[1] = r.line /\ s4[2] = CR /\ s4[3] = LF
    BY <1>3, <1>11
  <1>13. r.keep => s4[4] = KeepAlive /\ s4[5] = CR /\ s4[6] = LF
    BY <1>4, <1>6, <1>10
  <1>14. HasBody(r) => /\ s4[LengthAt(r) + 1] = ContentLength
                       /\ s4[LengthAt(r) + 2] = CR /\ s4[LengthAt(r) + 3] = LF
    BY <1>5, <1>6, <1>8
  <1> QED
    BY <1>1, <1>6, <1>7, <1>9, <1>12, <1>13, <1>14 DEF Heads

\* The bytes of a request: its head, and its body if it has one.
LEMMA RequestShape ==
  ASSUME NEW r \in Requests, r.crlf
  PROVE  /\ Bytes(r) \in Seq(Byte)
         /\ Heads(r, Bytes(r))
         /\ ~HasBody(r) => Len(Bytes(r)) = HeadLen(r)
         /\ HasBody(r) => /\ Len(Bytes(r)) = HeadLen(r) + BodyLen
                          /\ \A i \in 1 .. BodyLen : Bytes(r)[HeadLen(r) + i] = r.body[i]
  <1> DEFINE h == HeadBytes(r)
             b == h \o r.body
  <1>1. h \in Seq(Byte) /\ Len(h) = HeadLen(r) /\ Heads(r, h)
    BY HeadShape
  <1>2. LengthAt(r) \in {3, 6} /\ (r.keep <=> LengthAt(r) = 6)
        /\ BlankAt(r) \in Nat /\ BlankAt(r) >= LengthAt(r)
        /\ (HasBody(r) => BlankAt(r) = LengthAt(r) + 3)
        /\ HeadLen(r) = BlankAt(r) + 2
    BY DEF LengthAt, BlankAt, HeadLen
  <1> HIDE DEF h
  <1>3. CASE HasBody(r)
    <2>1. Bytes(r) = b
      BY DEF Bytes, h
    <2>2. /\ b \in Seq(Byte) /\ Len(b) = Len(h) + BodyLen
          /\ \A i \in 1 .. Len(h) + BodyLen :
                b[i] = IF i <= Len(h) THEN h[i] ELSE r.body[i - Len(h)]
      <3>1. r.body \in Seq(Byte) /\ Len(r.body) = BodyLen
        BY <1>3, BytesAre
      <3> QED
        BY <1>1, <3>1, ConcatProperties
    <2> HIDE DEF b
    <2>3. /\ \A i \in 1 .. HeadLen(r) : b[i] = h[i]
          /\ \A i \in 1 .. BodyLen : b[HeadLen(r) + i] = r.body[i]
          /\ Len(b) = HeadLen(r) + BodyLen
      BY <1>1, <1>2, <2>2, BytesAre
    <2>4. Heads(r, b)
      BY <1>1, <1>2, <2>3 DEF Heads
    <2> QED
      BY <1>3, <2>1, <2>2, <2>3, <2>4
  <1>4. CASE ~HasBody(r)
    <2>1. Bytes(r) = h
      <3>1. r.body = <<>>
        BY <1>4, BytesAre
      <3> QED
        BY <1>1, <3>1, ConcatEmptySeq DEF Bytes, h
    <2> QED
      BY <1>1, <1>4, <2>1
  <1> QED
    BY <1>3, <1>4

\* A request whose lines end in LF alone.
LEMMA BareShape ==
  ASSUME NEW r \in Requests, ~r.crlf
  PROVE  /\ Bytes(r) \in Seq(Byte) /\ Len(Bytes(r)) >= 2
         /\ Bytes(r)[1] = r.line /\ Bytes(r)[2] = LF
  <1> DEFINE s1 == <<r.line>> \o <<LF>>
             k == IF r.keep THEN <<KeepAlive>> \o Eol(r) ELSE <<>>
             l == IF HasBody(r) THEN <<ContentLength>> \o Eol(r) ELSE <<>>
             b == r.body
             t == k \o l \o Eol(r) \o b
  <1>1. Eol(r) = <<LF>> /\ <<LF>> \in Seq(Byte) /\ <<>> \in Seq(Byte)
    BY BytesAre DEF Eol
  <1>2. <<KeepAlive>> \o Eol(r) \in Seq(Byte) /\ <<ContentLength>> \o Eol(r) \in Seq(Byte)
    BY <1>1, BytesAre
  <1>3. k \in Seq(Byte) /\ l \in Seq(Byte) /\ b \in Seq(Byte)
    BY <1>1, <1>2, BytesAre, Zenon
  <1>4. s1 \in Seq(Byte) /\ Len(s1) = 2 /\ s1[1] = r.line /\ s1[2] = LF
    BY <1>1, BytesAre
  <1>5. Bytes(r) = ((s1 \o k) \o l \o Eol(r)) \o b
    BY <1>1, Zenon DEF Bytes, HeadBytes
  <1> HIDE DEF s1, k, l, b
  <1> DEFINE P(s) == s \in Seq(Byte) /\ Len(s) >= 2 /\ s[1] = r.line /\ s[2] = LF
  <1>6. ASSUME NEW s, NEW u \in Seq(Byte), P(s)
        PROVE  P(s \o u)
    <2>1. s \in Seq(Byte) /\ Len(s) \in Nat /\ Len(u) \in Nat
      BY <1>6
    <2>2. /\ s \o u \in Seq(Byte) /\ Len(s \o u) = Len(s) + Len(u)
          /\ \A i \in 1 .. Len(s) + Len(u) : (s \o u)[i] = IF i <= Len(s) THEN s[i] ELSE u[i - Len(s)]
      BY <2>1, ConcatProperties
    <2> QED
      BY <1>6, <2>1, <2>2
  <1> HIDE DEF P
  <1>7. P(s1)
    BY <1>4 DEF P
  <1>8. P(((s1 \o k) \o l \o Eol(r)) \o b)
    BY <1>1, <1>3, <1>6, <1>7
  <1> QED
    BY <1>5, <1>8 DEF P

----------------------------------------------------------------------------
(* The parser over a request that comes in pieces.                         *)

\* What was read is a beginning of the request.
LEMMA ReadIsBeginning ==
  ASSUME NEW b \in Seq(Byte), NEW a \in Seq(Byte), NEW u \in Seq(Byte)
  PROVE  /\ Len(b \o a \o u) = Len(b) + Len(a) + Len(u)
         /\ \A i \in 1 .. Len(b) : b[i] = (b \o a \o u)[i]
         /\ Len(b) >= Len(b \o a \o u) => a = <<>> /\ u = <<>>
  <1> DEFINE c == b \o a
             d == c \o u
  <1>1. Len(a) \in Nat /\ Len(b) \in Nat /\ Len(u) \in Nat
    OBVIOUS
  <1>2. /\ c \in Seq(Byte) /\ Len(c) = Len(b) + Len(a)
        /\ \A i \in 1 .. Len(b) + Len(a) : c[i] = IF i <= Len(b) THEN b[i] ELSE a[i - Len(b)]
    BY ConcatProperties
  <1> HIDE DEF c
  <1>3. /\ d \in Seq(Byte) /\ Len(d) = Len(c) + Len(u)
        /\ \A i \in 1 .. Len(c) + Len(u) : d[i] = IF i <= Len(c) THEN c[i] ELSE u[i - Len(c)]
    <2>1. c \in Seq(Byte)
      BY <1>2
    <2> QED
      BY <2>1, ConcatProperties
  <1>4. Len(a) = 0 => a = <<>>
    OBVIOUS
  <1>5. Len(u) = 0 => u = <<>>
    OBVIOUS
  <1> HIDE DEF d
  <1>6. Len(d) = Len(b) + Len(a) + Len(u)
    BY <1>1, <1>2, <1>3
  <1>7. \A i \in 1 .. Len(b) : b[i] = d[i]
    BY <1>1, <1>2, <1>3
  <1>8. Len(b) >= Len(d) => a = <<>> /\ u = <<>>
    BY <1>1, <1>4, <1>5, <1>6
  <1> QED
    BY <1>6, <1>7, <1>8 DEF c, d

\* ParseLine in a line of t bytes that starts at s and ends in CR and LF.
LEMMA LineFound ==
  ASSUME ReadInv, NEW s \in Nat, NEW t \in {0, 1}, NEW B,
         rd.checked_idx_ \in s .. s + t,
         \A i \in 1 .. Len(rd.read_buffers_) : rd.read_buffers_[i] = B[i],
         t = 1 => B[s + 1] \notin {CR, LF},
         B[s + t + 1] = CR, B[s + t + 2] = LF
  PROVE  \/ Len(rd.read_buffers_) >= s + t + 2 /\ ParseLine = <<"LINE_OK", s + t + 2>>
         \/ ParseLine[1] = "LINE_OPEN" /\ ParseLine[2] \in s .. s + t
  <1> DEFINE b == rd.read_buffers_
             c == rd.checked_idx_
             ends == {i \in c + 1 .. Len(b) : b[i] \in {CR, LF}}
             k == Min(ends)
  <1>1. c \in Nat /\ Len(b) \in Nat /\ c <= Len(b) /\ c >= s /\ c <= s + t
    <2>1. rd \in Reader /\ c \in 0 .. Len(b)
      BY DEF ReadInv, IndicesInBuffer, read_index_
    <2>2. b \in Seq(Byte) /\ c \in Nat
      BY <2>1 DEF Reader
    <2>3. Len(b) \in Nat
      BY <2>2
    <2> QED
      BY <2>1, <2>2, <2>3
  <1>2. \A i \in 1 .. Len(b) : b[i] = B[i]
    OBVIOUS
  <1>3. CR # LF
    BY BytesAre
  <1> HIDE DEF b, c
  <1>4. CASE Len(b) <= s + t
    <2>1. ends = {}
      <3> SUFFICES ASSUME NEW i \in c + 1 .. Len(b), b[i] \in {CR, LF} PROVE FALSE
        OBVIOUS
      <3>1. t = 1 /\ i = s + 1
        BY <1>1, <1>4
      <3>2. i \in 1 .. Len(b) /\ b[i] = B[s + 1]
        BY <1>1, <1>2, <3>1
      <3> QED
        BY <3>1, <3>2
    <2>2. ParseLine = <<"LINE_OPEN", Len(b)>>
      BY <2>1 DEF ParseLine, b, c
    <2> QED
      BY <1>1, <1>4, <2>2
  <1>5. CASE Len(b) > s + t
    <2>1. s + t + 1 \in ends
      <3>1. s + t + 1 \in c + 1 .. Len(b) /\ s + t + 1 \in 1 .. Len(b)
        BY <1>1, <1>5
      <3>2. b[s + t + 1] = CR
        BY <1>2, <3>1
      <3> QED
        BY <3>1, <3>2
    <2>2. ends \subseteq Nat /\ ends # {}
      BY <1>1, <2>1
    <2>3. k \in ends
      BY <2>2, LeastNat
    <2>4. k \in Nat /\ c + 1 <= k /\ k <= Len(b) /\ b[k] \in {CR, LF}
      BY <1>1, <2>3
    <2>5. k = s + t + 1
      <3>1. k <= s + t + 1
        <4> HIDE DEF ends
        <4> QED
          BY <2>1, <2>2, LeastNat
      <3>2. ~ (k < s + t + 1)
        <4> SUFFICES ASSUME k < s + t + 1 PROVE FALSE
          OBVIOUS
        <4> HIDE DEF k
        <4>1. t = 1 /\ k = s + 1
          BY <1>1, <2>4
        <4>2. b[k] = B[s + 1]
          BY <1>2, <2>4, <4>1
        <4> QED
          BY <2>4, <4>1, <4>2
      <3> HIDE DEF k
      <3> QED
        BY <2>4, <3>1, <3>2
    <2>6. b[s + t + 1] = CR
      BY <1>1, <1>2, <1>5
    <2>7. CASE Len(b) = s + t + 1
      <3>1. ParseLine = <<"LINE_OPEN", k - 1>>
        BY <2>1, <2>5, <2>6, <2>7, Zenon DEF ParseLine, b, c, k, ends
      <3> QED
        BY <2>5, <3>1
    <2>8. CASE Len(b) # s + t + 1
      <3>1. b[k + 1] = LF
        <4>1. k + 1 \in 1 .. Len(b) /\ k + 1 = s + t + 2
          BY <1>1, <1>5, <2>5, <2>8
        <4> HIDE DEF k
        <4> QED
          BY <1>2, <4>1
      <3>2. ParseLine = <<"LINE_OK", k + 1>>
        BY <1>3, <2>1, <2>5, <2>6, <2>8, <3>1, Zenon DEF ParseLine, b, c, k, ends
      <3>3. k + 1 = s + t + 2 /\ Len(b) >= s + t + 2
        BY <1>1, <1>5, <2>5, <2>8
      <3> HIDE DEF k
      <3> QED
        BY <3>2, <3>3 DEF b
    <2> QED
      BY <2>7, <2>8
  <1> QED
    BY <1>1, <1>4, <1>5

\* ParseLine in a first line that ends in LF alone.
LEMMA BareLineBad ==
  ASSUME ReadInv, rd.checked_idx_ <= 1, NEW B,
         \A i \in 1 .. Len(rd.read_buffers_) : rd.read_buffers_[i] = B[i],
         B[1] \notin {CR, LF}, B[2] = LF
  PROVE  ParseLine[1] # "LINE_OK" /\ ParseLine[2] <= 1
  <1> DEFINE b == rd.read_buffers_
             c == rd.checked_idx_
             ends == {i \in c + 1 .. Len(b) : b[i] \in {CR, LF}}
             k == Min(ends)
  <1>1. c \in Nat /\ Len(b) \in Nat /\ c <= Len(b) /\ c <= 1
    <2>1. rd \in Reader /\ c \in 0 .. Len(b)
      BY DEF ReadInv, IndicesInBuffer, read_index_
    <2>2. b \in Seq(Byte) /\ c \in Nat
      BY <2>1 DEF Reader
    <2>3. Len(b) \in Nat
      BY <2>2
    <2> QED
      BY <2>1, <2>2, <2>3
  <1>2. \A i \in 1 .. Len(b) : b[i] = B[i]
    OBVIOUS
  <1>3. CR # LF
    BY BytesAre
  <1> HIDE DEF b, c
  <1>4. CASE Len(b) <= 1
    <2>1. ends = {}
      BY <1>1, <1>2, <1>4
    <2>2. ParseLine = <<"LINE_OPEN", Len(b)>>
      BY <2>1 DEF ParseLine, b, c
    <2> QED
      BY <1>1, <1>4, <2>2
  <1>5. CASE Len(b) > 1
    <2>1. 2 \in ends
      BY <1>1, <1>2, <1>5
    <2>2. ends \subseteq Nat
      BY <1>1
    <2>3. k = 2
      <3> HIDE DEF ends
      <3>1. k \in ends /\ \A y \in ends : k <= y
        BY <2>1, <2>2, LeastNat
      <3> HIDE DEF k
      <3>2. k \in c + 1 .. Len(b) /\ b[k] \in {CR, LF}
        BY <3>1 DEF ends
      <3>3. k # 1
        BY <1>1, <1>2, <1>5, <3>2
      <3> QED
        BY <1>1, <2>1, <3>1, <3>2, <3>3
    <2>4. b[2] = LF
      BY <1>1, <1>2, <1>5
    <2>5. ParseLine = <<"LINE_BAD", k - 1>>
      <3>1. ~ (2 > 2)
        OBVIOUS
      <3> QED
        BY <1>3, <2>1, <2>3, <2>4, <3>1, Zenon DEF ParseLine, b, c, k, ends
    <2> QED
      BY <2>3, <2>5
  <1> QED
    BY <1>1, <1>4, <1>5

\* The parser moved on to place i, and its fields for the client are as they were.
Moved(i) ==
    /\ rd'.read_buffers_ = rd.read_buffers_
    /\ rd'.checked_idx_ = i /\ rd'.start_line_ = i

Learned ==
    /\ rd'.url_ = rd.url_
    /\ rd'.socket_linger_opt_ = rd.socket_linger_opt_
    /\ rd'.content_length_ = rd.content_length_

\* What the turns make of the fields.

LEMMA RequestLineFields ==
  ASSUME rd \in Reader, RequestLineTurn
  PROVE  /\ Moved(ParseLine[2]) /\ rd'.check_state_ = "CHECK_STATE_HEADER"
         /\ rd'.url_ = RequestLines[Text[1]].url_
         /\ rd'.socket_linger_opt_ = rd.socket_linger_opt_
         /\ rd'.content_length_ = rd.content_length_
  BY DEF RequestLineTurn, Advance, Reader, Moved

LEMMA HeaderFields ==
  ASSUME rd \in Reader, HeaderTurn
  PROVE  /\ Moved(ParseLine[2]) /\ rd'.check_state_ = rd.check_state_
         /\ rd'.url_ = rd.url_
         /\ rd'.socket_linger_opt_ = (rd.socket_linger_opt_ \/ Text = <<KeepAlive>>)
         /\ rd'.content_length_ =
               IF Text = <<ContentLength>> THEN BodyLen ELSE rd.content_length_
  BY DEF HeaderTurn, Advance, Reader, Moved

LEMMA BlankFields ==
  ASSUME rd \in Reader, ContentFollows \/ HeaderEnds
  PROVE  /\ Moved(ParseLine[2]) /\ Learned
         /\ ContentFollows => rd'.check_state_ = "CHECK_STATE_CONTENT"
         /\ HeaderEnds => rd'.check_state_ = "CHECK_STATE_HEADER"
  BY DEF ContentFollows, HeaderEnds, Advance, Reader, Moved, Learned

LEMMA ContentFields ==
  ASSUME rd \in Reader, ContentTurn \/ ContentEnds
  PROVE  /\ Moved(ContentAt[2]) /\ Learned
         /\ rd'.check_state_ = "CHECK_STATE_CONTENT"
         /\ ContentEnds => rd'.heard_string_ = ContentAt[1]
  BY DEF ContentTurn, ContentEnds, InContent, Advance, Reader, Moved, Learned

LEMMA NoLineFields ==
  ASSUME rd \in Reader, NoLine
  PROVE  /\ rd'.read_buffers_ = rd.read_buffers_
         /\ rd'.checked_idx_ = ParseLine[2] /\ rd'.start_line_ = rd.start_line_
         /\ rd'.check_state_ = rd.check_state_ /\ Learned
  BY DEF NoLine, Reader, Learned

\* The text of a line of at most one byte.
LEMMA TextIs ==
  ASSUME NEW b \in Seq(Byte), NEW s \in Nat, s < Len(b)
  PROVE  SubSeq(b, s + 1, s) = <<>> /\ SubSeq(b, s + 1, s + 1) = <<b[s + 1]>>
  <1>1. Len(b) \in Nat /\ s + 1 \in 1 .. Len(b) /\ b[s + 1] \in Byte
    OBVIOUS
  <1>2. SubSeq(b, s + 1, s) = <<>>
    BY SubSeqEmpty
  <1> DEFINE x == b[s + 1]
             u == SubSeq(b, s + 1, s + 1)
  <1>3. \A i \in s + 1 .. s + 1 : b[i] \in Byte
    BY <1>1
  <1>4. /\ u \in Seq(Byte)
        /\ Len(u) = IF s + 1 <= s + 1 THEN s + 1 - (s + 1) + 1 ELSE 0
        /\ \A i \in 1 .. s + 1 - (s + 1) + 1 : u[i] = b[s + 1 + i - 1]
    BY <1>1, <1>3, SubSeqProperties
  <1>5. Len(u) = 1 /\ u[1] = x
    BY <1>1, <1>4
  <1>6. u = <<x>>
    <2> HIDE DEF u, x
    <2>1. x \in Byte
      BY <1>1 DEF x
    <2> QED
      BY <1>4, <1>5, <2>1
  <1> QED
    BY <1>2, <1>6

\* A request on its way, as the parser sees it.
LEMMA AskingView ==
  ASSUME IndInv, NEW r \in Requests, Asking(r)
  PROVE  /\ rd \in Reader /\ rd.read_buffers_ \in Seq(Byte) /\ Len(rd.read_buffers_) \in Nat
         /\ rd.checked_idx_ \in Nat /\ rd.start_line_ \in Nat
         /\ rd.start_line_ <= rd.checked_idx_ /\ rd.checked_idx_ <= Len(rd.read_buffers_)
         /\ Len(rd.read_buffers_) <= Len(Bytes(r))
         /\ \A i \in 1 .. Len(rd.read_buffers_) : rd.read_buffers_[i] = Bytes(r)[i]
         /\ Len(rd.read_buffers_) >= Len(Bytes(r)) => Silent
         /\ rd.socket_linger_opt_ \in BOOLEAN
  <1> DEFINE b == rd.read_buffers_
  <1>1. rd \in Reader /\ arrived \in Seq(Byte) /\ unsent \in Seq(Byte)
        /\ rd.start_line_ \in 0 .. rd.checked_idx_ /\ rd.checked_idx_ \in 0 .. Len(b)
    BY DEF IndInv, ReadInv, SlotInv, IndicesInBuffer, read_index_
  <1>2. b \in Seq(Byte) /\ rd.checked_idx_ \in Nat /\ rd.start_line_ \in Nat
        /\ rd.socket_linger_opt_ \in BOOLEAN
    BY <1>1 DEF Reader
  <1>3. Bytes(r) = b \o arrived \o unsent
    BY DEF Asking
  <1> HIDE DEF b
  <1>4. Len(b) \in Nat /\ Len(arrived) \in Nat /\ Len(unsent) \in Nat
    BY <1>1, <1>2
  <1>5. /\ Len(Bytes(r)) = Len(b) + Len(arrived) + Len(unsent)
        /\ \A i \in 1 .. Len(b) : b[i] = Bytes(r)[i]
        /\ Len(b) >= Len(Bytes(r)) => Silent
    BY <1>1, <1>2, <1>3, ReadIsBeginning DEF Silent
  <1> QED
    BY <1>1, <1>2, <1>4, <1>5 DEF b

\* What ParseLine finds in a line of at most one byte of a request.
LEMMA LineRead ==
  ASSUME IndInv, NEW r \in Requests, Asking(r), NEW s \in Nat, NEW t \in {0, 1},
         rd.start_line_ = s, rd.checked_idx_ <= s + t,
         t = 1 => Bytes(r)[s + 1] \notin {CR, LF},
         Bytes(r)[s + t + 1] = CR, Bytes(r)[s + t + 2] = LF
  PROVE  \/ /\ Len(rd.read_buffers_) >= s + t + 2 /\ ParseLine = <<"LINE_OK", s + t + 2>>
            /\ Text = IF t = 1 THEN <<Bytes(r)[s + 1]>> ELSE <<>>
         \/ ParseLine[1] = "LINE_OPEN" /\ ParseLine[2] \in s .. s + t
  <1> DEFINE b == rd.read_buffers_
  <1>1. /\ b \in Seq(Byte) /\ Len(b) \in Nat
        /\ rd.checked_idx_ \in s .. s + t
        /\ \A i \in 1 .. Len(b) : b[i] = Bytes(r)[i]
    BY AskingView
  <1>2. \/ Len(b) >= s + t + 2 /\ ParseLine = <<"LINE_OK", s + t + 2>>
        \/ ParseLine[1] = "LINE_OPEN" /\ ParseLine[2] \in s .. s + t
    BY <1>1, LineFound DEF IndInv
  <1>3. CASE Len(b) >= s + t + 2 /\ ParseLine = <<"LINE_OK", s + t + 2>>
    <2>1. Text = SubSeq(b, s + 1, s + t + 2 - 2)
      BY <1>3 DEF Text
    <2>2. s + t + 2 - 2 = s + t /\ s < Len(b) /\ s + 1 \in 1 .. Len(b)
      BY <1>1, <1>3
    <2>3. b[s + 1] = Bytes(r)[s + 1]
      BY <1>1, <2>2
    <2> HIDE DEF b
    <2>4. CASE t = 1
      BY <1>1, <1>3, <2>1, <2>2, <2>3, <2>4, TextIs DEF b
    <2>5. CASE t = 0
      BY <1>1, <1>3, <2>1, <2>2, <2>5, TextIs DEF b
    <2> QED
      BY <2>4, <2>5
  <1> QED
    BY <1>2, <1>3

LEMMA Places ==
  ASSUME NEW r
  PROVE  /\ LengthAt(r) \in {3, 6} /\ (r.keep => LengthAt(r) = 6) /\ (~r.keep => LengthAt(r) = 3)
         /\ BlankAt(r) \in Nat /\ BlankAt(r) >= LengthAt(r)
         /\ (HasBody(r) => BlankAt(r) = LengthAt(r) + 3) /\ (~HasBody(r) => BlankAt(r) = LengthAt(r))
         /\ HeadLen(r) = BlankAt(r) + 2
  BY DEF LengthAt, BlankAt, HeadLen

\* A turn in the request line.
LEMMA InRequestLine ==
  ASSUME IndInv, NEW r \in Requests, Asking(r), AtRequestLine
  PROVE  /\ RequestLineTurn \/ NoLine => Position(r)'
         /\ BadRequestLine => ~Understood(r)
  <1> USE AskingView
  <1>1. rd \in Reader /\ rd.start_line_ = 0 /\ rd.checked_idx_ <= 1
        /\ rd.check_state_ = "CHECK_STATE_REQUESTLINE"
        /\ ~rd.socket_linger_opt_ /\ rd.content_length_ = 0
    BY DEF AtRequestLine
  <1>2. r.line \notin {CR, LF} /\ r.crlf \in BOOLEAN
    BY BytesAre
  <1>3. NoLine => rd'.start_line_ = 0 /\ rd'.checked_idx_ = ParseLine[2]
                  /\ rd'.check_state_ = "CHECK_STATE_REQUESTLINE"
                  /\ ~rd'.socket_linger_opt_ /\ rd'.content_length_ = 0
    BY <1>1, NoLineFields DEF Learned
  <1>4. CASE r.crlf
    <2>1. Bytes(r)[1] = r.line /\ Bytes(r)[2] = CR /\ Bytes(r)[3] = LF
      BY <1>4, RequestShape DEF Heads
    <2>2. \/ ParseLine = <<"LINE_OK", 3>> /\ Text = <<r.line>>
          \/ ParseLine[1] = "LINE_OPEN" /\ ParseLine[2] \in 0 .. 1
      <3> DEFINE s == 0
                 t == 1
      <3>1. s \in Nat /\ t \in {0, 1} /\ rd.start_line_ = s /\ rd.checked_idx_ <= s + t
            /\ (t = 1 => Bytes(r)[s + 1] \notin {CR, LF})
            /\ Bytes(r)[s + t + 1] = CR /\ Bytes(r)[s + t + 2] = LF
            /\ t = 1 /\ s + t + 2 = 3 /\ s + 1 = 1 /\ s + t = 1
        BY <1>1, <1>2, <2>1
      <3> HIDE DEF s, t
      <3>2. \/ ParseLine = <<"LINE_OK", s + t + 2>> /\ Text = IF t = 1 THEN <<Bytes(r)[s + 1]>> ELSE <<>>
            \/ ParseLine[1] = "LINE_OPEN" /\ ParseLine[2] \in s .. s + t
        BY <3>1, LineRead
      <3> QED
        BY <2>1, <3>1, <3>2 DEF s
    <2>3. CASE ParseLine = <<"LINE_OK", 3>> /\ Text = <<r.line>>
      <3>1. ~NoLine
        BY <1>1, <2>3 DEF NoLine
      <3>2. ASSUME RequestLineTurn PROVE Position(r)'
        <4>1. /\ Moved(3) /\ rd'.check_state_ = "CHECK_STATE_HEADER"
              /\ rd'.url_ = PageOf(r)
              /\ ~rd'.socket_linger_opt_ /\ rd'.content_length_ = 0
          BY <1>1, <2>3, <3>2, RequestLineFields DEF PageOf
        <4>2. Understood(r)
          BY <2>3, <3>2 DEF RequestLineTurn, Understood
        <4>3. rd'.start_line_ = 3 /\ rd'.checked_idx_ = 3
          BY <4>1 DEF Moved
        <4>4. AtHeader(r)'
          BY <4>1, <4>3, Places, BytesAre DEF AtHeader
        <4> QED
          BY <1>4, <4>1, <4>2, <4>4 DEF Position
      <3>3. ASSUME BadRequestLine PROVE ~Understood(r)
        BY <2>3, <3>3 DEF BadRequestLine, Understood
      <3> QED
        BY <3>1, <3>2, <3>3
    <2>4. CASE ParseLine[1] = "LINE_OPEN" /\ ParseLine[2] \in 0 .. 1
      <3>1. ~HasLine
        BY <2>4 DEF HasLine
      <3>2. ~RequestLineTurn /\ ~BadRequestLine
        BY <3>1 DEF RequestLineTurn, BadRequestLine
      <3>3. NoLine => AtRequestLine'
        BY <1>3, <2>4 DEF AtRequestLine
      <3> QED
        BY <3>2, <3>3 DEF Position
    <2> QED
      BY <2>2, <2>3, <2>4
  <1>5. CASE ~r.crlf
    <2>1. Bytes(r)[1] = r.line /\ Bytes(r)[2] = LF
      BY <1>5, BareShape
    <2>2. ParseLine[1] # "LINE_OK" /\ ParseLine[2] <= 1
      BY <1>1, <1>2, <2>1, BareLineBad DEF IndInv
    <2>3. ~RequestLineTurn /\ ~BadRequestLine
      BY <2>2 DEF RequestLineTurn, BadRequestLine, HasLine
    <2>4. NoLine => AtRequestLine'
      BY <1>3, <2>2 DEF AtRequestLine
    <2> QED
      BY <2>3, <2>4 DEF Position
  <1> QED
    BY <1>2, <1>4, <1>5

\* A turn in a header line that says something.
LEMMA InHeaderLine ==
  ASSUME IndInv, NEW r \in Requests, Asking(r),
         rd.check_state_ = "CHECK_STATE_HEADER", NEW s \in {3, LengthAt(r)},
         rd.start_line_ = s, rd.checked_idx_ <= s + 1,
         NEW x \in {KeepAlive, ContentLength},
         Bytes(r)[s + 1] = x, Bytes(r)[s + 2] = CR, Bytes(r)[s + 3] = LF
  PROVE  /\ ~HeaderEnds /\ ~ContentFollows
         /\ HeaderTurn => Text = <<x>> /\ Moved(s + 3)
         /\ NoLine => rd'.checked_idx_ <= s + 1
  <1>1. s \in Nat /\ rd \in Reader
    BY Places, AskingView
  <1>2. \/ ParseLine = <<"LINE_OK", s + 3>> /\ Text = <<x>>
        \/ ParseLine[1] = "LINE_OPEN" /\ ParseLine[2] \in s .. s + 1
    <2> DEFINE t == 1
    <2>1. t \in {0, 1} /\ rd.checked_idx_ <= s + t
          /\ (t = 1 => Bytes(r)[s + 1] \notin {CR, LF})
          /\ Bytes(r)[s + t + 1] = CR /\ Bytes(r)[s + t + 2] = LF
          /\ t = 1 /\ s + t + 2 = s + 3
      BY <1>1, BytesAre
    <2> HIDE DEF t
    <2>2. \/ ParseLine = <<"LINE_OK", s + t + 2>> /\ Text = IF t = 1 THEN <<Bytes(r)[s + 1]>> ELSE <<>>
          \/ ParseLine[1] = "LINE_OPEN" /\ ParseLine[2] \in s .. s + t
      BY <1>1, <2>1, LineRead
    <2> QED
      BY <2>1, <2>2
  <1>3. CASE ParseLine = <<"LINE_OK", s + 3>> /\ Text = <<x>>
    BY <1>1, <1>3, HeaderFields DEF HeaderEnds, ContentFollows, NoLine
  <1>4. CASE ParseLine[1] = "LINE_OPEN" /\ ParseLine[2] \in s .. s + 1
    BY <1>1, <1>4, NoLineFields DEF HeaderEnds, ContentFollows, HeaderTurn, HasLine
  <1> QED
    BY <1>2, <1>3, <1>4

\* What the header lines have told, and the request is in the slot.
Complete(r) ==
    /\ Silent /\ rd'.url_ = rd.url_
    /\ (rd'.socket_linger_opt_ <=> r.keep)
    /\ HasBody(r) => HeardText' = r.body

\* A turn in the header.
LEMMA InHeader ==
  ASSUME IndInv, NEW r \in Requests, Asking(r), r.crlf, Understood(r), rd.url_ = PageOf(r),
         AtHeader(r)
  PROVE  /\ HeaderTurn \/ ContentFollows \/ NoLine => Position(r)'
         /\ HeaderEnds => Complete(r)
  <1>1. /\ rd \in Reader /\ rd.check_state_ = "CHECK_STATE_HEADER"
        /\ rd.socket_linger_opt_ \in BOOLEAN
    BY AskingView DEF AtHeader
  <1>2. Heads(r, Bytes(r))
    BY RequestShape
  <1>3. BodyLen \in Nat /\ BodyLen > 0 /\ KeepAlive # ContentLength
        /\ r.keep \in BOOLEAN /\ HasBody(r) \in BOOLEAN
    BY BytesAre
  <1>4. <<KeepAlive>> # <<ContentLength>>
    BY <1>3
  <1>5. ASSUME rd'.url_ = rd.url_, AtHeader(r)' PROVE Position(r)'
    BY <1>5 DEF Position
  <1>6. CASE /\ r.keep /\ rd.start_line_ = 3 /\ rd.checked_idx_ <= 4
             /\ ~rd.socket_linger_opt_ /\ rd.content_length_ = 0
    <2>1. Bytes(r)[3 + 1] = KeepAlive /\ Bytes(r)[3 + 2] = CR /\ Bytes(r)[3 + 3] = LF
      BY <1>2, <1>6 DEF Heads
    <2>2. /\ ~HeaderEnds /\ ~ContentFollows
          /\ HeaderTurn => Text = <<KeepAlive>> /\ Moved(3 + 3)
          /\ NoLine => rd'.checked_idx_ <= 3 + 1
      BY <1>1, <1>6, <2>1, InHeaderLine
    <2>3. ASSUME HeaderTurn PROVE Position(r)'
      <3>1. /\ rd'.start_line_ = 6 /\ rd'.checked_idx_ = 6
            /\ rd'.check_state_ = "CHECK_STATE_HEADER" /\ rd'.url_ = rd.url_
        BY <1>1, <1>6, <2>2, <2>3, HeaderFields DEF Moved
      <3>2. rd'.socket_linger_opt_
        BY <1>1, <2>2, <2>3, HeaderFields, Zenon
      <3>3. rd'.content_length_ = 0
        BY <1>1, <1>4, <1>6, <2>2, <2>3, HeaderFields, Zenon
      <3>4. AtHeader(r)'
        BY <1>3, <1>6, <3>1, <3>2, <3>3, Places DEF AtHeader
      <3> QED
        BY <1>5, <3>1, <3>4
    <2>4. ASSUME NoLine PROVE Position(r)'
      <3>1. AtHeader(r)' /\ rd'.url_ = rd.url_
        BY <1>1, <1>6, <2>2, <2>4, NoLineFields DEF AtHeader, Learned
      <3> QED
        BY <1>5, <3>1
    <2> QED
      BY <2>2, <2>3, <2>4
  <1>7. CASE /\ HasBody(r) /\ rd.start_line_ = LengthAt(r) /\ rd.checked_idx_ <= LengthAt(r) + 1
             /\ (rd.socket_linger_opt_ <=> r.keep) /\ rd.content_length_ = 0
    <2> DEFINE s == LengthAt(r)
    <2>1. Bytes(r)[s + 1] = ContentLength /\ Bytes(r)[s + 2] = CR /\ Bytes(r)[s + 3] = LF
      BY <1>2, <1>7 DEF Heads
    <2>2. /\ ~HeaderEnds /\ ~ContentFollows
          /\ HeaderTurn => Text = <<ContentLength>> /\ Moved(s + 3)
          /\ NoLine => rd'.checked_idx_ <= s + 1
      BY <1>1, <1>7, <2>1, InHeaderLine
    <2>3. ASSUME HeaderTurn PROVE Position(r)'
      <3>1. /\ rd'.start_line_ = BlankAt(r) /\ rd'.checked_idx_ = BlankAt(r)
            /\ rd'.check_state_ = "CHECK_STATE_HEADER" /\ rd'.url_ = rd.url_
        BY <1>1, <1>7, <2>2, <2>3, HeaderFields, Places DEF Moved
      <3>2. (rd'.socket_linger_opt_ <=> r.keep) /\ rd'.content_length_ = BodyLen
        BY <1>1, <1>3, <1>4, <1>7, <2>2, <2>3, HeaderFields
      <3>3. AtHeader(r)'
        BY <1>7, <3>1, <3>2 DEF AtHeader
      <3> QED
        BY <1>5, <3>1, <3>3
    <2>4. ASSUME NoLine PROVE Position(r)'
      <3>1. AtHeader(r)' /\ rd'.url_ = rd.url_
        BY <1>1, <1>7, <2>2, <2>4, NoLineFields DEF AtHeader, Learned
      <3> QED
        BY <1>5, <3>1
    <2> QED
      BY <2>2, <2>3, <2>4
  <1>8. CASE /\ rd.start_line_ = BlankAt(r) /\ rd.checked_idx_ = BlankAt(r)
             /\ (rd.socket_linger_opt_ <=> r.keep)
             /\ rd.content_length_ = IF HasBody(r) THEN BodyLen ELSE 0
    <2>1. \/ /\ Len(rd.read_buffers_) >= HeadLen(r)
             /\ ParseLine = <<"LINE_OK", HeadLen(r)>> /\ Text = <<>>
          \/ ParseLine[1] = "LINE_OPEN" /\ ParseLine[2] = BlankAt(r)
      <3> DEFINE s == BlankAt(r)
                 t == 0
      <3>1. s \in Nat /\ t \in {0, 1} /\ rd.start_line_ = s /\ rd.checked_idx_ <= s + t
            /\ (t = 1 => Bytes(r)[s + 1] \notin {CR, LF})
            /\ Bytes(r)[s + t + 1] = CR /\ Bytes(r)[s + t + 2] = LF
            /\ t = 0 /\ s + t + 2 = HeadLen(r) /\ s + t = s
        BY <1>2, <1>8, Places DEF Heads
      <3> HIDE DEF s, t
      <3>2. \/ /\ Len(rd.read_buffers_) >= s + t + 2
               /\ ParseLine = <<"LINE_OK", s + t + 2>>
               /\ Text = IF t = 1 THEN <<Bytes(r)[s + 1]>> ELSE <<>>
            \/ ParseLine[1] = "LINE_OPEN" /\ ParseLine[2] \in s .. s + t
        BY <3>1, LineRead
      <3> QED
        BY <3>1, <3>2 DEF s
    <2>2. CASE /\ Len(rd.read_buffers_) >= HeadLen(r)
               /\ ParseLine = <<"LINE_OK", HeadLen(r)>> /\ Text = <<>>
      <3>1. ~NoLine /\ ~HeaderTurn
        BY <1>1, <2>2 DEF NoLine, HeaderTurn
      <3>2. ASSUME ContentFollows PROVE Position(r)'
        <4>1. /\ rd'.start_line_ = HeadLen(r) /\ rd'.url_ = rd.url_
              /\ rd'.check_state_ = "CHECK_STATE_CONTENT"
              /\ rd'.socket_linger_opt_ = rd.socket_linger_opt_
              /\ rd'.content_length_ = rd.content_length_
          BY <1>1, <2>2, <3>2, BlankFields DEF Moved, Learned
        <4>2. HasBody(r) /\ rd.content_length_ = BodyLen
          BY <1>8, <3>2 DEF ContentFollows
        <4>3. HeadLen(r) \in Nat
          BY Places
        <4>4. AtContent(r)'
          BY <1>8, <4>1, <4>2, <4>3 DEF AtContent
        <4> QED
          BY <4>1, <4>4 DEF Position
      <3>3. ASSUME HeaderEnds PROVE Complete(r)
        <4>1. /\ rd'.url_ = rd.url_ /\ rd'.socket_linger_opt_ = rd.socket_linger_opt_
              /\ rd'.check_state_ = "CHECK_STATE_HEADER"
          BY <1>1, <3>3, BlankFields DEF Learned
        <4>2. ~HasBody(r)
          BY <1>3, <1>8, <3>3 DEF HeaderEnds
        <4>3. Silent
          BY <2>2, <4>2, RequestShape, AskingView
        <4> QED
          BY <1>8, <4>1, <4>2, <4>3 DEF Complete
      <3> QED
        BY <3>1, <3>2, <3>3
    <2>3. CASE ParseLine[1] = "LINE_OPEN" /\ ParseLine[2] = BlankAt(r)
      <3>1. ~HeaderEnds /\ ~HeaderTurn /\ ~ContentFollows
        BY <2>3 DEF HeaderEnds, HeaderTurn, ContentFollows, HasLine
      <3>2. NoLine => AtHeader(r)' /\ rd'.url_ = rd.url_
        BY <1>1, <1>8, <2>3, NoLineFields DEF AtHeader, Learned
      <3> QED
        BY <1>5, <3>1, <3>2
    <2> QED
      BY <2>1, <2>2, <2>3
  <1> QED
    BY <1>6, <1>7, <1>8 DEF AtHeader

\* A turn in the body.  What is in front of start_line_ is the head, so the body is
\* only taken when nothing of it has been gone over before.
LEMMA InBody ==
  ASSUME IndInv, NEW r \in Requests, Asking(r), r.crlf, Understood(r), rd.url_ = PageOf(r),
         AtContent(r)
  PROVE  /\ ContentTurn \/ NoLine => Position(r)'
         /\ ContentEnds => Complete(r)
  <1> DEFINE b == rd.read_buffers_
  <1>1. /\ rd \in Reader /\ rd.check_state_ = "CHECK_STATE_CONTENT"
        /\ HasBody(r) /\ rd.start_line_ >= HeadLen(r)
        /\ (rd.socket_linger_opt_ <=> r.keep) /\ rd.content_length_ = BodyLen
    BY AskingView DEF AtContent
  <1>2. /\ b \in Seq(Byte) /\ Len(b) \in Nat
        /\ rd.checked_idx_ \in Nat /\ rd.start_line_ \in Nat
        /\ rd.start_line_ <= rd.checked_idx_
        /\ Len(b) <= Len(Bytes(r)) /\ \A i \in 1 .. Len(b) : b[i] = Bytes(r)[i]
        /\ Len(b) >= Len(Bytes(r)) => Silent
    BY AskingView
  <1>3. HeadLen(r) \in Nat /\ BodyLen \in Nat /\ r.body \in Seq(Byte) /\ Len(r.body) = BodyLen
    BY <1>1, Places, BytesAre
  <1>4. ContentAt[1] = rd.start_line_ /\ ContentAt[2] \in Nat
        /\ ContentAt[2] >= rd.checked_idx_
    <2>1. ParseLine[2] \in rd.checked_idx_ .. read_index_ /\ read_index_ = Len(b)
      BY ParseLineInBuffer DEF IndInv, read_index_
    <2> QED
      BY <1>2, <2>1 DEF ContentAt
  <1>5. ASSUME ContentTurn PROVE Position(r)'
    <2>1. /\ rd'.start_line_ = ContentAt[2] /\ rd'.url_ = rd.url_
          /\ rd'.check_state_ = "CHECK_STATE_CONTENT"
          /\ rd'.socket_linger_opt_ = rd.socket_linger_opt_
          /\ rd'.content_length_ = rd.content_length_
      BY <1>1, <1>5, ContentFields DEF Moved, Learned
    <2>2. AtContent(r)'
      BY <1>1, <1>2, <1>3, <1>4, <2>1 DEF AtContent
    <2> QED
      BY <2>1, <2>2 DEF Position
  <1>6. ASSUME NoLine PROVE Position(r)'
    <2>1. AtContent(r)' /\ rd'.url_ = rd.url_
      BY <1>1, <1>6, NoLineFields DEF AtContent, Learned
    <2> QED
      BY <2>1 DEF Position
  <1>7. ASSUME ContentEnds PROVE Complete(r)
    <2> DEFINE h == HeadLen(r)
               text == SubSeq(b, h + 1, h + BodyLen)
    <2>1. Len(b) >= BodyLen + ContentAt[2]
      BY <1>1, <1>7 DEF ContentEnds, read_index_
    <2>2. /\ Len(Bytes(r)) = h + BodyLen
          /\ \A i \in 1 .. BodyLen : Bytes(r)[h + i] = r.body[i]
      BY <1>1, RequestShape
    <2>3. Len(b) = h + BodyLen /\ rd.start_line_ = h /\ Silent
      BY <1>1, <1>2, <1>3, <1>4, <2>1, <2>2
    <2>4. /\ rd'.url_ = rd.url_ /\ rd'.socket_linger_opt_ = rd.socket_linger_opt_
          /\ HeardText' = text
      <3>1. /\ rd'.heard_string_ = h /\ rd'.content_length_ = BodyLen
            /\ rd'.read_buffers_ = b
            /\ rd'.url_ = rd.url_ /\ rd'.socket_linger_opt_ = rd.socket_linger_opt_
        BY <1>1, <1>4, <1>7, <2>3, ContentFields DEF Learned, Moved
      <3> HIDE DEF h, b
      <3> QED
        BY <3>1, Zenon DEF HeardText
    <2>5. text = r.body
      <3> HIDE DEF b, h
      <3>1. h \in Nat /\ h + 1 \in Int /\ h + BodyLen \in Int
        BY <1>3 DEF h
      <3>2. \A i \in h + 1 .. h + BodyLen : b[i] \in Byte
        BY <1>2, <2>3, <3>1
      <3>3. /\ text \in Seq(Byte) /\ Len(text) = BodyLen
            /\ \A i \in 1 .. BodyLen : text[i] = b[h + 1 + i - 1]
        <4>1. PICK m \in Int, n \in Int : m = h + 1 /\ n = h + BodyLen
          BY <3>1
        <4>2. \A i \in m .. n : b[i] \in Byte
          BY <3>2, <4>1, Zenon
        <4>3. /\ SubSeq(b, m, n) \in Seq(Byte)
              /\ Len(SubSeq(b, m, n)) = IF m <= n THEN n - m + 1 ELSE 0
              /\ \A i \in 1 .. n - m + 1 : SubSeq(b, m, n)[i] = b[m + i - 1]
          BY <4>2, SubSeqProperties
        <4>4. text = SubSeq(b, m, n)
          BY <4>1, Zenon
        <4> HIDE DEF text
        <4>5. m <= n /\ n - m + 1 = BodyLen
          BY <1>3, <3>1, <4>1, BytesAre
        <4>6. text \in Seq(Byte) /\ Len(text) = BodyLen
          BY <4>3, <4>4, <4>5
        <4>7. \A i \in 1 .. BodyLen : text[i] = b[m + i - 1]
          BY <4>3, <4>4, <4>5
        <4> QED
          BY <4>1, <4>6, <4>7
      <3> HIDE DEF text
      <3>4. Len(text) = BodyLen
        BY <1>3, <3>1, <3>3
      <3>5. \A i \in 1 .. Len(text) : text[i] = r.body[i]
        <4> SUFFICES ASSUME NEW i \in 1 .. Len(text) PROVE text[i] = r.body[i]
          OBVIOUS
        <4>1. i \in 1 .. BodyLen /\ h + 1 + i - 1 = h + i /\ h + i \in 1 .. Len(b)
              /\ i \in 1 .. h + BodyLen - (h + 1) + 1
          BY <1>3, <2>3, <3>1, <3>4
        <4>2. text[i] = b[h + i] /\ b[h + i] = Bytes(r)[h + i]
          BY <1>2, <3>3, <4>1
        <4> QED
          BY <2>2, <4>1, <4>2
      <3> QED
        BY <1>3, <3>3, <3>4, <3>5, SeqEqual
    <2> HIDE DEF text
    <2> QED
      BY <1>1, <2>3, <2>4, <2>5 DEF Complete
  <1> QED
    BY <1>5, <1>6, <1>7

----------------------------------------------------------------------------
(* Ints that wrap.                                                         *)

LEMMA ModShift ==
  ASSUME NEW m \in Nat, m > 0, NEW y \in Int, NEW q \in Int
  PROVE  (y - m * q) % m = y % m
  <1> DEFINE z == y - m * q
             a == y % m
             b == z % m
  <1>1. z \in Int
    OBVIOUS
  <1> DEFINE i == y \div m
             j == z \div m
  <1>2. y = m * i + a /\ i \in Int
    OBVIOUS
  <1> HIDE DEF z
  <1>3. z = m * j + b /\ j \in Int
    BY <1>1
  <1>4. a \in 0 .. m - 1 /\ b \in 0 .. m - 1
    BY <1>1
  <1> HIDE DEF a, b, i, j
  <1>5. a - b = m * q - m * i + m * j
    <2>1. y - z = m * q
      BY DEF z
    <2> QED
      BY <1>1, <1>2, <1>3, <1>4, <2>1
  <1> DEFINE d == q - i + j
  <1>6. a - b = m * d
    BY <1>2, <1>3, <1>5
  <1>7. d \in Int
    BY <1>2, <1>3
  <1> HIDE DEF d
  <1>8. ~ (d >= 1)
    <2> SUFFICES ASSUME d >= 1 PROVE FALSE
      OBVIOUS
    <2>1. m * d >= m
      BY <1>7
    <2> QED
      BY <1>4, <1>6, <2>1
  <1>9. ~ (d <= -1)
    <2> SUFFICES ASSUME d <= -1 PROVE FALSE
      OBVIOUS
    <2>1. m * (-d) >= m
      BY <1>7
    <2>2. m * (-d) = -(m * d)
      BY <1>7
    <2>3. -d \in Int /\ m * d \in Int
      BY <1>7
    <2> QED
      BY <1>4, <1>6, <2>1, <2>2, <2>3
  <1>10. d = 0
    BY <1>7, <1>8, <1>9
  <1>11. a = b
    BY <1>4, <1>6, <1>10
  <1> QED
    BY <1>11 DEF a, b, z

\* An int keeps what fits, and forgets only multiples of its range.
LEMMA Int32Fits ==
  ASSUME NEW n \in Ints
  PROVE  Int32(n) = n
  <1> DEFINE half == IntMax + 1
  <1>1. IntMax \in Nat
    BY ResponseWriterAssumption
  <1>2. half \in Nat /\ 2 * half \in Nat /\ 2 * half > 0 /\ n \in Int
        /\ n + half \in 0 .. 2 * half - 1
    BY <1>1 DEF Ints
  <1>3. Int32(n) = ((n + half) % (2 * half)) - half
    <2>1. n + IntMax + 1 = n + half /\ 2 * (IntMax + 1) = 2 * half
      BY <1>1, <1>2
    <2> QED
      BY <2>1, Zenon DEF Int32
  <1> HIDE DEF half
  <1> DEFINE m == 2 * half
             x == n + half
  <1>4. m \in Nat /\ m > 0 /\ x \in 0 .. m - 1
    BY <1>2
  <1> HIDE DEF m, x
  <1>5. x % m = x
    BY <1>4
  <1> QED
    BY <1>2, <1>3, <1>5 DEF m, x

LEMMA Int32Minus ==
  ASSUME NEW a \in Int, NEW n \in Int
  PROVE  Int32(Int32(a) - n) = Int32(a - n)
  <1> DEFINE half == IntMax + 1
             m == 2 * half
  <1>1. half \in Nat /\ m \in Nat /\ m > 0
    BY ResponseWriterAssumption
  <1>2. \A i \in Int : Int32(i) = ((i + half) % m) - half
    <2> SUFFICES ASSUME NEW i \in Int PROVE Int32(i) = ((i + half) % m) - half
      OBVIOUS
    <2>1. i + IntMax + 1 = i + half
      BY ResponseWriterAssumption
    <2> QED
      BY <2>1, Zenon DEF Int32
  <1> HIDE DEF half, m
  <1> DEFINE x == a + half
             e == x % m
  <1>3. x \in Int /\ Int32(a) = e - half /\ e \in Int
    BY <1>1, <1>2
  <1>4. PICK q \in Int : x = m * q + e
    BY <1>1, <1>3
  <1> DEFINE y == a - n + half
  <1>5. Int32(a) - n + half = y - m * q /\ y \in Int
    <2> HIDE DEF e
    <2> QED
      BY <1>1, <1>3, <1>4
  <1> HIDE DEF e, y
  <1>6. (y - m * q) % m = y % m
    BY <1>1, <1>4, <1>5, ModShift
  <1>7. Int32(Int32(a) - n) = ((y - m * q) % m) - half
    <2>1. Int32(a) - n \in Int
      BY <1>1, <1>3
    <2> QED
      BY <1>2, <1>5, <2>1
  <1>8. Int32(a - n) = (y % m) - half
    BY <1>2 DEF y
  <1> QED
    BY <1>6, <1>7, <1>8

----------------------------------------------------------------------------
(* Steps of the client, of the network and of the reader.                  *)

\* A connection that asks nothing, or is no more.
LEMMA RestNext ==
  ASSUME got' \in Seq(OutByte), cuts' \in Nat, NoRequestInv', want' \in {Idle, Closed}
  PROVE  ConnInv'
  BY HttpConnAssumption DEF ConnInv

\* A request that goes on.
LEMMA PhaseNext ==
  ASSUME got' \in Seq(OutByte), cuts' \in Nat, NEW r \in Requests, want' = r, Phase(r)'
  PROVE  ConnInv'
  BY HttpConnAssumption DEF ConnInv, NoRequestInv

\* Somebody has the slot, or it waits to send: there is a request.
LEMMA HasRequest ==
  ASSUME IndInv, ConnInv, at # "closed", at = "watched" /\ interest = "in" => ~Silent
  PROVE  \E r \in Requests : want = r /\ Phase(r)
  <1>1. want \in Requests \cup {Idle, Closed} /\ (want = Closed <=> at = "closed")
    BY DEF IndInv, SlotInv
  <1>2. want \in Requests
    BY <1>1 DEF ConnInv, NoRequestInv
  <1> QED
    BY <1>2 DEF ConnInv

\* The connection is over: closed, or gone with the process.
Over ==
    /\ want' = Closed /\ got' = <<>> /\ cuts' = 0
    /\ arrived' = <<>> /\ unsent' = <<>>

LEMMA Overs ==
  ASSUME (\E w : Shut(w)) \/ RequestCrash
  PROVE  Over
  BY DEF Shut, RequestCrash, Over

LEMMA OverConn ==
  ASSUME Over
  PROVE  ConnInv'
  <1>1. want' = Closed /\ got' = <<>> /\ got' \in Seq(OutByte) /\ cuts' = 0
        /\ arrived' = <<>> /\ unsent' = <<>>
    BY DEF Over
  <1>2. NoRequestInv'
    BY <1>1, HttpConnAssumption DEF NoRequestInv, Silent
  <1> QED
    BY <1>1, <1>2, RestNext

\* What HttpClear leaves.
LEMMA ClearedIs ==
  ASSUME NEW w \in Writer, HttpClear(w)
  PROVE  Untouched'
  <1>1. rd' = [Cleared EXCEPT !.heard_string_ = rd.heard_string_]
        /\ wr' = Emptied(w)
    BY DEF HttpClear
  <1>2. rd'.heard_string_ = rd.heard_string_
    BY <1>1 DEF Cleared
  <1>3. wr'.all_bytes_have_send_ = 0
    BY <1>1 DEF Emptied, Writer
  <1> QED
    BY <1>1, <1>2, <1>3 DEF Untouched

\* What Untouched says of the fields.
LEMMA UntouchedIs ==
  ASSUME Untouched
  PROVE  /\ rd.read_buffers_ = <<>> /\ rd.checked_idx_ = 0 /\ rd.start_line_ = 0
         /\ rd.check_state_ = "CHECK_STATE_REQUESTLINE"
         /\ ~rd.socket_linger_opt_ /\ rd.content_length_ = 0
  <1> DEFINE h == rd.heard_string_
             c == [Cleared EXCEPT !.heard_string_ = h]
  <1>1. rd = c
    BY Zenon DEF Untouched
  <1> HIDE DEF h
  <1>2. /\ c.read_buffers_ = <<>> /\ c.checked_idx_ = 0 /\ c.start_line_ = 0
        /\ c.check_state_ = "CHECK_STATE_REQUESTLINE"
        /\ ~c.socket_linger_opt_ /\ c.content_length_ = 0
    BY DEF Cleared
  <1> HIDE DEF c
  <1> QED
    BY <1>1, <1>2

LEMMA ConnectConn ==
  ASSUME IndInv, ConnInv, Connect
  PROVE  ConnInv'
  <1>1. want = Closed /\ want' = Idle /\ at' = "watched" /\ interest' = "in"
        /\ HttpClear(wr) /\ wr \in Writer
        /\ UNCHANGED <<arrived, unsent, got, cuts>>
    BY DEF Connect, Watch, IndInv, SlotInv, WriteInv
  <1>2. Untouched'
    BY <1>1, ClearedIs
  <1>5. wr'.all_bytes_have_send_ = 0
    BY <1>2 DEF Untouched
  <1>3. Silent /\ got = <<>> /\ cuts = 0
    BY <1>1 DEF ConnInv, NoRequestInv
  <1>4. NoRequestInv' /\ got' \in Seq(OutByte) /\ cuts' \in Nat
    BY <1>1, <1>2, <1>3, <1>5, HttpConnAssumption DEF NoRequestInv, Silent, Before
  <1> QED
    BY <1>1, <1>4, RestNext

LEMMA AskConn ==
  ASSUME IndInv, ConnInv, NEW r \in Requests, Ask(r)
  PROVE  ConnInv'
  <1>1. want = Idle /\ want' = r /\ unsent' = Bytes(r)
        /\ UNCHANGED <<arrived, rd, wr, got, at, interest, cuts>>
    BY DEF Ask, parser, writer
  <1>2. at = "watched" /\ interest = "in" /\ Untouched /\ arrived = <<>> /\ Before
        /\ got \in Seq(OutByte) /\ cuts \in Nat
    BY <1>1 DEF ConnInv, NoRequestInv, Silent
  <1>3. rd.read_buffers_ = <<>> /\ AtRequestLine
    BY <1>2, UntouchedIs DEF AtRequestLine
  <1>4. (<<>> \o <<>>) \o Bytes(r) = Bytes(r)
    BY BytesTyped, ConcatEmptySeq
  <1>5. (rd.read_buffers_ \o arrived \o unsent)' = Bytes(r)
    BY <1>1, <1>2, <1>3, <1>4
  <1>6. Asking(r)'
    BY <1>1, <1>2, <1>3, <1>5 DEF Asking, Position, AtRequestLine, Before
  <1>7. Phase(r)'
    BY <1>1, <1>2, <1>6 DEF Phase
  <1> QED
    BY <1>1, <1>2, <1>7, PhaseNext

\* A request on its way stays one when the parser stands still.
LEMMA AskingStays ==
  ASSUME NEW r, Asking(r), (rd.read_buffers_ \o arrived \o unsent)' = Bytes(r),
         rd'.checked_idx_ = rd.checked_idx_, rd'.start_line_ = rd.start_line_,
         rd'.check_state_ = rd.check_state_, Learned, UNCHANGED <<wr, got, cuts>>
  PROVE  Asking(r)'
  BY DEF Asking, Position, AtRequestLine, AtHeader, AtContent, Learned, Before

\* An answer on its way stays one when nothing is sent.
LEMMA SendingStays ==
  ASSUME NEW r, Sending(r), UNCHANGED <<rd, wr, got, cuts>>,
         Understood(r) => Silent'
  PROVE  Sending(r)'
  BY DEF Sending, Underway, Unsendable, BadVector, Decided, Prepared, Cursor, InHead,
         InFile, Wrong, RunsShort, HeadOf, FileOf

\* A sequence that was cut is put together again.
LEMMA CutIsWhole ==
  ASSUME NEW u \in Seq(Byte), NEW n \in 0 .. Len(u)
  PROVE  /\ SubSeq(u, 1, n) \in Seq(Byte) /\ SubSeq(u, n + 1, Len(u)) \in Seq(Byte)
         /\ SubSeq(u, 1, n) \o SubSeq(u, n + 1, Len(u)) = u
  <1>1. Len(u) \in Nat /\ n \in 1 - 1 .. Len(u) /\ Len(u) \in n .. Len(u)
        /\ 1 \in 1 .. Len(u) + 1
    OBVIOUS
  <1>2. SubSeq(u, 1, n) \o SubSeq(u, n + 1, Len(u)) = SubSeq(u, 1, Len(u))
    BY <1>1, ConcatAdjacentSubSeq
  <1>3. SubSeq(u, 1, n) \in Seq(Byte) /\ SubSeq(u, n + 1, Len(u)) \in Seq(Byte)
    BY <1>1
  <1> QED
    BY <1>2, <1>3, SubSeqFull

\* What follows what.
Joined(s, t) == s \o t

LEMMA JoinedInTurn ==
  \A s, t, u \in Seq(Byte) : Joined(Joined(s, t), u) = Joined(s, Joined(t, u))
  <1> SUFFICES ASSUME NEW s \in Seq(Byte), NEW t \in Seq(Byte), NEW u \in Seq(Byte)
               PROVE  (s \o t) \o u = s \o (t \o u)
    BY DEF Joined
  <1> QED
    BY ConcatAssociative

LEMMA JoinedTyped ==
  \A s, t \in Seq(Byte) : Joined(s, t) \in Seq(Byte)
  BY DEF Joined

\* The network passes on a part of what is unsent, recv a part of what arrived.
LEMMA PieceArrives ==
  ASSUME NEW b \in Seq(Byte), NEW a \in Seq(Byte), NEW u \in Seq(Byte),
         NEW n \in 0 .. Len(u)
  PROVE  (b \o (a \o SubSeq(u, 1, n))) \o SubSeq(u, n + 1, Len(u)) = (b \o a) \o u
  <1> DEFINE c == SubSeq(u, 1, n)
             d == SubSeq(u, n + 1, Len(u))
  <1>1. c \in Seq(Byte) /\ d \in Seq(Byte) /\ Joined(c, d) = u
    BY CutIsWhole DEF Joined
  <1> HIDE DEF c, d
  <1>2. Joined(Joined(b, Joined(a, c)), d) = Joined(Joined(b, a), Joined(c, d))
    BY <1>1, JoinedInTurn, JoinedTyped
  <1>3. (b \o (a \o c)) \o d = (b \o a) \o u
    BY <1>1, <1>2 DEF Joined
  <1> QED
    BY <1>3 DEF c, d

LEMMA PieceIsRead ==
  ASSUME NEW b \in Seq(Byte), NEW a \in Seq(Byte), NEW u \in Seq(Byte),
         NEW n \in 0 .. Len(a)
  PROVE  ((b \o SubSeq(a, 1, n)) \o SubSeq(a, n + 1, Len(a))) \o u = (b \o a) \o u
  <1> DEFINE c == SubSeq(a, 1, n)
             d == SubSeq(a, n + 1, Len(a))
  <1>1. c \in Seq(Byte) /\ d \in Seq(Byte) /\ Joined(c, d) = a
    BY CutIsWhole DEF Joined
  <1> HIDE DEF c, d
  <1>2. Joined(Joined(b, c), d) = Joined(b, a)
    BY <1>1, JoinedInTurn
  <1>3. (b \o c) \o d = b \o a
    BY <1>2 DEF Joined
  <1> QED
    BY <1>3 DEF c, d

LEMMA DeliverConn ==
  ASSUME IndInv, ConnInv, Deliver
  PROVE  ConnInv'
  <1>1. PICK n \in 1 .. Len(unsent) :
          /\ arrived' = arrived \o SubSeq(unsent, 1, n)
          /\ unsent' = SubSeq(unsent, n + 1, Len(unsent))
    BY DEF Deliver
  <1>2. at = "watched" /\ UNCHANGED <<rd, wr, want, got, at, interest, cuts>>
    BY DEF Deliver, writer
  <1>3. /\ arrived \in Seq(Byte) /\ unsent \in Seq(Byte)
        /\ rd \in Reader /\ rd.read_buffers_ \in Seq(Byte)
    BY DEF IndInv, ReadInv, SlotInv, Reader
  <1>4. unsent # <<>>
    BY <1>1
  <1>5. PICK r \in Requests : want = r /\ Phase(r)
    BY <1>2, <1>4, HasRequest DEF Silent
  <1>6. interest \in {"in", "out"}
    BY <1>2 DEF IndInv, SlotInv
  <1>7. CASE interest = "in"
    <2>1. Asking(r)
      BY <1>2, <1>4, <1>5, <1>7 DEF Phase, Told, Silent
    <2>2. (rd.read_buffers_ \o arrived \o unsent)' = rd.read_buffers_ \o arrived \o unsent
      <3>1. (rd.read_buffers_ \o arrived \o unsent)'
              = (rd.read_buffers_ \o (arrived \o SubSeq(unsent, 1, n)))
                \o SubSeq(unsent, n + 1, Len(unsent))
        BY <1>1, <1>2
      <3>2. n \in 0 .. Len(unsent)
        BY <1>3
      <3> QED
        BY <1>3, <3>1, <3>2, PieceArrives
    <2>3. Asking(r)'
      <3>1. Learned
        BY <1>2 DEF Learned
      <3>2. (rd.read_buffers_ \o arrived \o unsent)' = Bytes(r)
        BY <2>1, <2>2 DEF Asking
      <3> QED
        BY <1>2, <2>1, <3>1, <3>2, AskingStays
    <2>4. Phase(r)'
      BY <1>2, <1>7, <2>3 DEF Phase
    <2> QED
      BY <1>2, <1>5, <2>4, PhaseNext DEF ConnInv
  <1>8. CASE interest = "out"
    <2>1. Sending(r)
      BY <1>2, <1>5, <1>8 DEF Phase
    <2>2. ~Understood(r)
      BY <1>4, <2>1 DEF Sending, Decided, Silent
    <2>3. Sending(r)'
      BY <1>2, <2>1, <2>2, SendingStays
    <2>4. Phase(r)'
      BY <1>2, <1>8, <2>3 DEF Phase
    <2> QED
      BY <1>2, <1>5, <2>4, PhaseNext DEF ConnInv
  <1> QED
    BY <1>6, <1>7, <1>8

LEMMA ReadOnceConn ==
  ASSUME IndInv, ConnInv, ReadOnce
  PROVE  ConnInv'
  <1>1. /\ at = "watched" /\ interest = "in" /\ arrived # <<>> /\ at' = "parse"
        /\ rd' = [rd EXCEPT !.read_buffers_ = @ \o SubSeq(arrived, 1, Received)]
        /\ arrived' = SubSeq(arrived, Received + 1, Len(arrived))
        /\ UNCHANGED <<wr, want, unsent, got, cuts>>
    BY DEF ReadOnce, Readable, ReadOnceOk, writer, client
  <1>2. PICK r \in Requests : want = r /\ Phase(r)
    BY <1>1, HasRequest DEF Silent
  <1>3. Asking(r)
    BY <1>1, <1>2 DEF Phase, Told, Silent
  <1>4. /\ rd \in Reader /\ rd.read_buffers_ \in Seq(Byte)
        /\ arrived \in Seq(Byte) /\ unsent \in Seq(Byte) /\ read_index_ <= kREAD_BUFFER_SIZE
    BY DEF IndInv, ReadInv, SlotInv, IndicesInBuffer, Reader
  <1>5. PICK n \in 0 .. Len(arrived) : n = Received
    <2> DEFINE room == kREAD_BUFFER_SIZE - read_index_
    <2>1. Len(arrived) \in Nat /\ read_index_ \in Nat /\ room \in Nat
      BY <1>4, RequestParserAssumption DEF read_index_
    <2>2. Received = Min({Len(arrived), room})
      BY DEF Received
    <2> HIDE DEF room
    <2>3. {Len(arrived), room} \subseteq Nat /\ {Len(arrived), room} # {}
      BY <2>1
    <2>4. Received \in Nat /\ Received <= Len(arrived)
      BY <2>2, <2>3, LeastNat
    <2> QED
      BY <2>1, <2>4
  <1>6. /\ rd'.read_buffers_ = rd.read_buffers_ \o SubSeq(arrived, 1, n)
        /\ rd'.checked_idx_ = rd.checked_idx_ /\ rd'.start_line_ = rd.start_line_
        /\ rd'.check_state_ = rd.check_state_ /\ Learned
    BY <1>1, <1>4, <1>5 DEF Reader, Learned
  <1>7. (rd.read_buffers_ \o arrived \o unsent)' = Bytes(r)
    <2>1. rd.read_buffers_ \o arrived \o unsent = Bytes(r)
      BY <1>3 DEF Asking
    <2>2. (rd.read_buffers_ \o arrived \o unsent)'
          = ((rd.read_buffers_ \o SubSeq(arrived, 1, n))
             \o SubSeq(arrived, n + 1, Len(arrived))) \o unsent
      BY <1>1, <1>5, <1>6
    <2> QED
      BY <1>4, <2>1, <2>2, PieceIsRead
  <1>8. Asking(r)'
    BY <1>1, <1>3, <1>6, <1>7, AskingStays
  <1>9. Phase(r)'
    BY <1>1, <1>8 DEF Phase
  <1> QED
    BY <1>1, <1>2, <1>9, PhaseNext DEF ConnInv

LEMMA BadLineFields ==
  ASSUME rd \in Reader, BadRequestLine
  PROVE  rd'.read_buffers_ = rd.read_buffers_ /\ Learned
  BY DEF BadRequestLine, Advance, Reader, Learned

\* What a turn of the loop makes of a request on its way.
LEMMA TurnGoesOn ==
  ASSUME IndInv, NEW r \in Requests, Asking(r)
  PROVE  /\ TurnMore \/ NoLine => Position(r)'
         /\ TurnRequest => Understood(r) /\ rd.url_ = PageOf(r) /\ Complete(r)
         /\ BadRequestLine => ~Understood(r) /\ ~rd.socket_linger_opt_
  <1>1. CASE AtRequestLine
    <2>1. rd.check_state_ = "CHECK_STATE_REQUESTLINE" /\ ~rd.socket_linger_opt_
      BY <1>1 DEF AtRequestLine
    <2>2. TurnMore => RequestLineTurn
      BY <2>1 DEF TurnMore, HeaderTurn, ContentFollows, ContentTurn, InContent
    <2>3. ~TurnRequest
      BY <2>1 DEF TurnRequest, HeaderEnds, ContentEnds, InContent
    <2> QED
      BY <1>1, <2>1, <2>2, <2>3, InRequestLine
  <1>2. CASE r.crlf /\ Understood(r) /\ rd.url_ = PageOf(r) /\ AtHeader(r)
    <2>1. rd.check_state_ = "CHECK_STATE_HEADER"
      BY <1>2 DEF AtHeader
    <2>2. TurnMore => HeaderTurn \/ ContentFollows
      BY <2>1 DEF TurnMore, RequestLineTurn, ContentTurn, InContent
    <2>3. TurnRequest => HeaderEnds
      BY <2>1 DEF TurnRequest, ContentEnds, InContent
    <2>4. ~BadRequestLine
      BY <2>1 DEF BadRequestLine
    <2> QED
      BY <1>2, <2>2, <2>3, <2>4, InHeader
  <1>3. CASE r.crlf /\ Understood(r) /\ rd.url_ = PageOf(r) /\ AtContent(r)
    <2>1. rd.check_state_ = "CHECK_STATE_CONTENT"
      BY <1>3 DEF AtContent
    <2>2. TurnMore => ContentTurn
      BY <2>1 DEF TurnMore, RequestLineTurn, HeaderTurn, ContentFollows
    <2>3. TurnRequest => ContentEnds
      BY <2>1 DEF TurnRequest, HeaderEnds
    <2>4. ~BadRequestLine
      BY <2>1 DEF BadRequestLine
    <2> QED
      BY <1>3, <2>2, <2>3, <2>4, InBody
  <1> QED
    BY <1>1, <1>2, <1>3 DEF Asking, Position

LEMMA ProcessReadConn ==
  ASSUME IndInv, ConnInv, ProcessRead
  PROVE  ConnInv'
  <1>1. /\ at = "parse" /\ UNCHANGED <<wr, want, unsent, got, cuts>>
        /\ \/ TurnMore /\ UNCHANGED <<at, interest, status>>
           \/ TurnRequest /\ at' = "request"
           \/ BadRequestLine /\ at' = "answer" /\ status' = "BAD_REQUEST"
           \/ NoLine /\ at' = "watched" /\ interest' = "in"
    BY DEF ProcessRead, NoRequest, Watch, writer, client
  <1>2. arrived' = arrived /\ rd \in Reader
    BY <1>1, TurnParses DEF IndInv, ReadInv
  <1>3. PICK r \in Requests : want = r /\ Phase(r)
    BY <1>1, HasRequest
  <1>4. Asking(r)
    BY <1>1, <1>3 DEF Phase
  <1>5. rd'.read_buffers_ = rd.read_buffers_
    BY <1>1, <1>2, RequestLineFields, HeaderFields, BlankFields, ContentFields,
       NoLineFields, BadLineFields DEF TurnMore, TurnRequest, Moved
  <1>6. ASSUME Position(r)' PROVE Asking(r)'
    <2>1. rd.read_buffers_ \o arrived \o unsent = Bytes(r) /\ Before
      BY <1>4 DEF Asking
    <2>2. (rd.read_buffers_ \o arrived \o unsent)' = Bytes(r) /\ Before'
      BY <1>1, <1>2, <1>5, <2>1 DEF Before
    <2> QED
      BY <1>6, <2>2 DEF Asking
  <1>7. Phase(r)'
    <2>1. CASE TurnMore /\ UNCHANGED <<at, interest, status>>
      <3>1. Asking(r)'
        BY <1>4, <1>6, <2>1, TurnGoesOn
      <3> QED
        BY <1>1, <2>1, <3>1 DEF Phase
    <2>2. CASE TurnRequest /\ at' = "request"
      <3>1. Understood(r) /\ rd.url_ = PageOf(r) /\ Complete(r)
        BY <1>4, <2>2, TurnGoesOn
      <3>2. rd.read_buffers_ = Bytes(r)
        <4>1. rd.read_buffers_ \in Seq(Byte)
          BY <1>4, AskingView
        <4>2. rd.read_buffers_ \o <<>> = rd.read_buffers_
          BY <4>1, ConcatEmptySeq
        <4> QED
          BY <1>4, <3>1, <4>2 DEF Asking, Complete, Silent
      <3>3. Requested(r)'
        BY <1>1, <1>2, <1>4, <1>5, <3>1, <3>2
           DEF Asking, Requested, Complete, Silent, Before
      <3> QED
        BY <2>2, <3>3 DEF Phase
    <2>3. CASE BadRequestLine /\ at' = "answer" /\ status' = "BAD_REQUEST"
      <3>1. ~Understood(r) /\ ~rd.socket_linger_opt_
        BY <1>4, <2>3, TurnGoesOn
      <3>2. ~rd'.socket_linger_opt_
        BY <1>2, <2>3, <3>1, BadLineFields DEF Learned
      <3>3. Answering(r)'
        BY <1>1, <1>4, <2>3, <3>1, <3>2
           DEF Asking, Answering, Decided, StatusFits, Keeps, Before
      <3> QED
        BY <2>3, <3>3 DEF Phase
    <2>4. CASE NoLine /\ at' = "watched" /\ interest' = "in"
      <3>1. Asking(r)'
        BY <1>4, <1>6, <2>4, TurnGoesOn
      <3> QED
        BY <2>4, <3>1 DEF Phase
    <2> QED
      BY <1>1, <2>1, <2>2, <2>3, <2>4
  <1> QED
    BY <1>1, <1>3, <1>7, PhaseNext DEF ConnInv

----------------------------------------------------------------------------
(* The answer.                                                             *)

LEMMA PageKnown ==
  ASSUME NEW r \in Requests, Understood(r)
  PROVE  /\ PageOf(r) \in DOMAIN Pages
         /\ Pages[PageOf(r)].kind \in {"missing", "directory", "secret", "file"}
         /\ Pages[PageOf(r)].st_size \in Nat
         /\ Pages[PageOf(r)].kind = "file" => PageOf(r) \in Files
  <1>1. PageOf(r) \in DOMAIN Pages
    BY HttpConnAssumption DEF PageOf, Understood
  <1> QED
    BY <1>1, ResponseWriterAssumption DEF Files

LEMMA RequestConn ==
  ASSUME IndInv, ConnInv, Request
  PROVE  ConnInv'
  <1>0. PICK a \in MmapReturns(rd.url_) :
          status' = DoRequest(rd.url_, wr, a)[1] /\ wr' = DoRequest(rd.url_, wr, a)[2]
    BY Zenon DEF Request
  <1> DEFINE d == DoRequest(rd.url_, wr, a)
  <1>1. /\ at = "request" /\ at' = "answer" /\ status' = d[1] /\ wr' = d[2]
        /\ UNCHANGED <<rd, arrived, want, unsent, got, cuts>>
    BY <1>0 DEF Request, parser, client
  <1>2. PICK r \in Requests : want = r /\ Phase(r)
    BY <1>1, HasRequest
  <1>3. Requested(r)
    BY <1>1, <1>2 DEF Phase
  <1>4. Understood(r) /\ rd.url_ = PageOf(r)
    BY <1>3 DEF Requested
  <1> DEFINE p == PageOf(r)
             s == [wr EXCEPT !.file_stat_ = p]
  <1>5. wr \in Writer /\ s.file_stat_ = p
        /\ s.all_bytes_have_send_ = wr.all_bytes_have_send_
    BY DEF IndInv, WriteInv, Writer
  <1>6. DoRequest(p, wr, a) =
          CASE Pages[p].kind = "missing"   -> <<"NO_RESOURCE", wr>>
            [] Pages[p].kind = "secret"    -> <<"FORBIDDEN_REQUEST", s>>
            [] Pages[p].kind = "directory" -> <<"BAD_REQUEST", s>>
            [] Pages[p].kind = "file"      ->
                  <<"FILE_REQUEST", [s EXCEPT !.file_address_ = a]>>
    BY Zenon DEF DoRequest
  <1>7. d = DoRequest(p, wr, a) /\ a \in {p, MAP_FAILED}
    BY <1>4 DEF MmapReturns
  <1>8. Pages[p].kind \in {"missing", "directory", "secret", "file"}
    BY <1>4, PageKnown
  <1> HIDE DEF d
  <1>9. StatusFits(r)' /\ wr'.all_bytes_have_send_ = wr.all_bytes_have_send_
    <2>1. CASE Pages[p].kind = "missing"
      <3>1. d = <<"NO_RESOURCE", wr>>
        BY <1>6, <1>7, <2>1
      <3> QED
        BY <1>1, <1>4, <1>5, <2>1, <3>1 DEF StatusFits
    <2>2. CASE Pages[p].kind = "secret"
      <3>1. d = <<"FORBIDDEN_REQUEST", s>>
        BY <1>6, <1>7, <2>2
      <3> QED
        BY <1>1, <1>4, <1>5, <2>2, <3>1 DEF StatusFits
    <2>3. CASE Pages[p].kind = "directory"
      <3>1. d = <<"BAD_REQUEST", s>>
        BY <1>6, <1>7, <2>3
      <3> QED
        BY <1>1, <1>4, <1>5, <2>3, <3>1 DEF StatusFits
    <2>4. CASE Pages[p].kind = "file"
      <3> DEFINE v == [s EXCEPT !.file_address_ = a]
      <3>1. d = <<"FILE_REQUEST", v>>
        BY <1>6, <1>7, <2>4
      <3>2. v.file_stat_ = p /\ v.file_address_ \in {p, MAP_FAILED}
            /\ v.all_bytes_have_send_ = wr.all_bytes_have_send_
        BY <1>5, <1>7 DEF Writer
      <3> HIDE DEF v
      <3>3. status' = "FILE_REQUEST" /\ wr' = v
        BY <1>1, <3>1
      <3> QED
        BY <1>4, <2>4, <3>2, <3>3 DEF StatusFits
    <2> QED
      BY <1>8, <2>1, <2>2, <2>3, <2>4
  <1>10. Answering(r)'
    <2>1. Decided(r)'
      BY <1>1, <1>3 DEF Requested, Decided, Keeps, Silent
    <2>2. Before'
      BY <1>1, <1>3, <1>9 DEF Requested, Before
    <2> QED
      BY <1>9, <2>1, <2>2 DEF Answering
  <1>11. Phase(r)'
    BY <1>1, <1>10 DEF Phase
  <1> QED
    BY <1>1, <1>2, <1>11, PhaseNext DEF ConnInv

LEMMA SatisfiedConn ==
  ASSUME IndInv, ConnInv, Satisfied
  PROVE  ConnInv'
  <1>1. PICK r \in Requests : want = r
    BY DEF Satisfied
  <1>2. /\ got = Answer(r) /\ got # <<>> /\ Keeps(r)
        /\ want' = Idle /\ got' = <<>>
        /\ UNCHANGED <<rd, wr, arrived, unsent, at, interest, cuts>>
    BY <1>1 DEF Satisfied, parser, writer
  <1>3. Phase(r) /\ got \in Seq(OutByte) /\ cuts \in Nat
    BY <1>1 DEF ConnInv
  <1>4. ~Before
    BY <1>2 DEF Before
  <1>5. ~Sending(r)
    <2> SUFFICES ASSUME Sending(r) PROVE FALSE
      OBVIOUS
    <2>1. wr.all_bytes_to_send_ = Int32(Len(Answer(r)) - Len(got))
          /\ wr.all_bytes_to_send_ > 0
      BY <1>2 DEF Sending, Underway, Unsendable
    <2>2. Len(Answer(r)) - Len(got) = 0
      BY <1>2, <1>3
    <2>3. Int32(0) = 0
      BY Int32Fits, ResponseWriterAssumption DEF Ints
    <2> QED
      BY <2>1, <2>2, <2>3
  <1>6. interest \in {"in", "out", "off"} /\ (interest # "off" <=> at = "watched")
    BY DEF IndInv, SlotInv
  <1>7. at = "watched" /\ interest = "in" /\ Told(r)
    BY <1>2, <1>3, <1>4, <1>5, <1>6 DEF Phase, Asking, Requested, Answering
  <1>8. Untouched' /\ Silent' /\ Before'
    <2>1. Untouched /\ Silent /\ ~(cuts >= 2)
      BY <1>2, <1>7 DEF Told
    <2>2. cuts < 2
      BY <1>3, <2>1
    <2> QED
      BY <1>2, <2>1, <2>2 DEF Untouched, Silent, Before
  <1>9. NoRequestInv' /\ got' \in Seq(OutByte) /\ cuts' \in Nat
    BY <1>2, <1>3, <1>7, <1>8, HttpConnAssumption DEF NoRequestInv
  <1> QED
    BY <1>2, <1>9, RestNext

\* The bytes of one thing, from a place in it on.
Run(label, base, len) == [i \in 1 .. len |-> <<label, base + i>>]

LEMMA RunIs ==
  ASSUME NEW label \in Labels, NEW base \in Int, NEW len \in Int
  PROVE  /\ Run(label, base, len) \in Seq(OutByte)
         /\ len >= 0 => Len(Run(label, base, len)) = len
         /\ len < 0 => Run(label, base, len) = <<>>
         /\ \A i \in 1 .. len : Run(label, base, len)[i] = <<label, base + i>>
  <1>1. CASE len >= 0
    <2>1. len \in Nat /\ \A i \in 1 .. len : <<label, base + i>> \in OutByte
      BY <1>1 DEF OutByte
    <2> QED
      BY <2>1 DEF Run
  <1>2. CASE len < 0
    <2>1. 1 .. len = {}
      BY <1>2
    <2>2. Run(label, base, len) = <<>>
      BY <2>1 DEF Run
    <2> QED
      BY <1>2, <2>1, <2>2
  <1> QED
    BY <1>1, <1>2

LEMMA NumberedIs ==
  ASSUME NEW label \in Labels, NEW n \in Nat
  PROVE  /\ Numbered(label, n) \in Seq(OutByte) /\ Len(Numbered(label, n)) = n
         /\ \A i \in 1 .. n : Numbered(label, n)[i] = <<label, i>>
  <1>1. \A i \in 1 .. n : <<label, i>> \in OutByte
    BY DEF OutByte
  <1> QED
    BY <1>1 DEF Numbered

LEMMA LabelsAre ==
  /\ Titles \subseteq Labels
  /\ \A p \in Files : <<"file", p>> \in Labels /\ <<"file", p>> \notin Titles
  BY DEF Labels, Titles

\* A head label and a byte of the answer, place by place.
LEMMA AnswerIs ==
  ASSUME NEW r \in Requests, NEW w, Prepared(r, w)
  PROVE  /\ Answer(r) \in Seq(OutByte) /\ Len(Answer(r)) \in Nat
         /\ \A i \in 1 .. w.write_index_ : Answer(r)[i] = <<w.write_buffers_, i>>
         /\ w.iv_count_ = 1 => Len(Answer(r)) = w.write_index_
         /\ w.iv_count_ = 2 =>
              /\ w.file_address_ \in Files /\ Pages[w.file_address_].st_size \in Nat
              /\ Len(Answer(r)) = w.write_index_ + Pages[w.file_address_].st_size
              /\ \A i \in w.write_index_ + 1 .. Len(Answer(r)) :
                    Answer(r)[i] = <<<<"file", w.file_address_>>, i - w.write_index_>>
         /\ ~Overflows(r) => Len(Answer(r)) <= IntMax
         /\ w.iv_count_ \in {1, 2} /\ w.write_index_ \in 1 .. IntMax /\ IntMax \in Nat
         /\ w.write_buffers_ \in Titles
  <1> DEFINE n == w.write_index_
             h == HeadOf(w)
             f == FileOf(w)
             m == Pages[w.file_address_].st_size
             label == <<"file", w.file_address_>>
  <1>1. w.write_buffers_ \in Titles /\ n \in 1 .. IntMax /\ IntMax \in Nat /\ n \in Nat
    BY ResponseWriterAssumption DEF Prepared
  <1>2. h \in Seq(OutByte) /\ Len(h) = n /\ \A i \in 1 .. n : h[i] = <<w.write_buffers_, i>>
    BY <1>1, NumberedIs, LabelsAre DEF HeadOf
  <1> HIDE DEF h
  <1>3. CASE w.iv_count_ = 1 /\ Answer(r) = h
    BY <1>1, <1>2, <1>3
  <1>4. CASE /\ w.iv_count_ = 2 /\ n = HeaderLen
             /\ Understood(r) /\ w.file_address_ = PageOf(r) /\ PageOf(r) \in Files
             /\ Answer(r) = h \o f
    <2>1. w.file_address_ \in Files /\ m \in Nat
      BY <1>4, PageKnown
    <2>2. label \in Labels
      BY <2>1, LabelsAre
    <2>3. f \in Seq(OutByte) /\ Len(f) = m /\ \A i \in 1 .. m : f[i] = <<label, i>>
      <3> HIDE DEF label, m
      <3>1. f = Numbered(label, m)
        BY DEF FileOf, label, m
      <3> QED
        BY <2>1, <2>2, <3>1, NumberedIs
    <2> HIDE DEF f, label
    <2>4. /\ h \o f \in Seq(OutByte) /\ Len(h \o f) = Len(h) + Len(f)
          /\ \A i \in 1 .. Len(h) + Len(f) :
                (h \o f)[i] = IF i <= Len(h) THEN h[i] ELSE f[i - Len(h)]
      BY <1>2, <2>3, ConcatProperties
    <2>5. ~Overflows(r) => n + m <= IntMax
      BY <1>1, <1>4, <2>1 DEF Overflows, PageOf
    <2> DEFINE a == h \o f
    <2>6. a = Answer(r)
      BY <1>4
    <2> HIDE DEF a, m, n
    <2>7. Len(a) = n + m /\ a \in Seq(OutByte)
      BY <1>1, <1>2, <2>3, <2>4 DEF a
    <2>8. \A i \in 1 .. n : a[i] = <<w.write_buffers_, i>>
      BY <1>1, <1>2, <2>1, <2>3, <2>4 DEF a
    <2>9. \A i \in n + 1 .. Len(a) : a[i] = <<label, i - n>>
      <3> SUFFICES ASSUME NEW i \in n + 1 .. Len(a) PROVE a[i] = <<label, i - n>>
        OBVIOUS
      <3>1. i - n \in 1 .. m /\ i \in 1 .. Len(h) + Len(f) /\ ~(i <= Len(h))
        BY <1>1, <1>2, <2>1, <2>3, <2>7
      <3>2. a[i] = f[i - Len(h)]
        BY <2>4, <3>1 DEF a
      <3> QED
        BY <1>2, <2>3, <3>1, <3>2
    <2>10. Answer(r) \in Seq(OutByte) /\ Len(Answer(r)) = n + m /\ Len(Answer(r)) \in Nat
      BY <1>1, <2>1, <2>6, <2>7 DEF m
    <2>11. \A i \in 1 .. n : Answer(r)[i] = <<w.write_buffers_, i>>
      BY <2>6, <2>8
    <2>12. \A i \in n + 1 .. Len(Answer(r)) : Answer(r)[i] = <<label, i - n>>
      BY <2>6, <2>9
    <2>13. ~Overflows(r) => Len(Answer(r)) <= IntMax
      BY <2>5, <2>10 DEF m, n
    <2>14. w.iv_count_ # 1 /\ w.iv_count_ \in {1, 2}
      BY <1>4
    <2> QED
      BY <1>1, <2>1, <2>10, <2>11, <2>12, <2>13, <2>14, Zenon DEF label, m, n
  <1> QED
    BY <1>3, <1>4 DEF Prepared, h, f

\* ProcessWrite prepares the answer.
LEMMA FormFields ==
  ASSUME NEW w \in Writer, NEW head
  PROVE  LET v == Form(w, head)
         IN  /\ v.write_buffers_ = head /\ v.write_index_ = FormLen
             /\ v.iov0 = [base |-> 0, len |-> FormLen] /\ v.iv_count_ = 1
             /\ v.all_bytes_to_send_ = FormLen
             /\ v.all_bytes_have_send_ = w.all_bytes_have_send_
  BY DEF Form, Writer

LEMMA WithFileFields ==
  ASSUME NEW w \in Writer, NEW head, NEW size, size = Pages[w.file_stat_].st_size
  PROVE  LET v == WithFile(w, head)
         IN  /\ v.write_buffers_ = head /\ v.write_index_ = HeaderLen
             /\ v.iov0 = [base |-> 0, len |-> HeaderLen]
             /\ v.iov1 = [base |-> 0, len |-> size] /\ v.iv_count_ = 2
             /\ v.all_bytes_to_send_ = Int32(HeaderLen + size)
             /\ v.all_bytes_have_send_ = w.all_bytes_have_send_
             /\ v.file_address_ = w.file_address_
  BY DEF WithFile, Writer

\* The first byte of the answer is next.
Starts(w, c) ==
    /\ c = 0 /\ w.all_bytes_have_send_ = 0
    /\ w.iov0 = [base |-> 0, len |-> w.write_index_]
    /\ w.iv_count_ = 2 => w.iov1 = [base |-> 0, len |-> Pages[w.file_address_].st_size]

LEMMA StartsSending ==
  ASSUME NEW r \in Requests, NEW w, w = wr', NEW c, c = cuts', Starts(w, c),
         Prepared(r, w), Decided(r)', got' = <<>>,
         w.all_bytes_to_send_ = Int32(Len(Answer(r)))
  PROVE  Sending(r)'
  <1>1. w.write_index_ \in 1 .. IntMax /\ IntMax \in Nat /\ Len(Answer(r)) \in Nat
        /\ Answer(r) \in Seq(OutByte)
    BY AnswerIs
  <1>2. c = 0 /\ InHead(w, <<>>, c)
    BY <1>1 DEF Starts, InHead
  <1>3. SubSeq(Answer(r), 1, 0) = <<>>
    BY <1>1, SubSeqEmpty
  <1>4. Cursor(r, wr', got', cuts')
    <2>1. /\ InHead(wr', got', cuts') /\ cuts' = 0 /\ Len(got') = 0
          /\ ~(Len(got') >= wr'.write_index_)
      BY <1>1, <1>2
    <2> QED
      BY <1>1, <1>3, <2>1 DEF Cursor
  <1>5. wr'.all_bytes_to_send_ = Int32(Len(Answer(r)) - Len(got'))
    <2>1. Len(Answer(r)) - Len(got') = Len(Answer(r))
      BY <1>1
    <2> QED
      BY <2>1
  <1> QED
    BY <1>4, <1>5 DEF Sending, Underway

LEMMA TitleIs ==
  ASSUME NEW code \in {"404", "403", "200"}, NEW l \in BOOLEAN, NEW k \in BOOLEAN, l <=> k
  PROVE  Title(code, l) \in Titles /\ Title(code, l) = Title(code, k)
  BY DEF Title, Titles

\* A response without a file is the answer.
LEMMA FormStarts ==
  ASSUME NEW r \in Requests, NEW w \in Writer, w.all_bytes_have_send_ = 0,
         NEW head \in Titles, NEW v, v = Form(w, head), Answer(r) = Numbered(head, FormLen)
  PROVE  /\ Starts(v, 0) /\ Prepared(r, v)
         /\ v.all_bytes_to_send_ = Int32(Len(Answer(r)))
  <1>1. FormLen \in 1 .. IntMax /\ FormLen \in Ints
    BY ResponseWriterAssumption DEF Ints
  <1>2. /\ v.write_buffers_ = head /\ v.write_index_ = FormLen
        /\ v.iov0 = [base |-> 0, len |-> FormLen] /\ v.iv_count_ = 1
        /\ v.all_bytes_to_send_ = FormLen /\ v.all_bytes_have_send_ = 0
    BY FormFields
  <1>3. Len(Answer(r)) = FormLen
    BY <1>1, NumberedIs, LabelsAre
  <1>4. Int32(FormLen) = FormLen
    BY <1>1, Int32Fits
  <1> QED
    BY <1>1, <1>2, <1>3, <1>4 DEF Starts, Prepared, HeadOf

\* A head and a file are the answer.
LEMMA WithFileStarts ==
  ASSUME NEW r \in Requests, NEW w \in Writer, w.all_bytes_have_send_ = 0,
         Understood(r), NEW p \in Files, p = PageOf(r),
         w.file_stat_ = p, w.file_address_ = p,
         NEW head \in Titles, NEW v, v = WithFile(w, head),
         Answer(r) = Numbered(head, HeaderLen) \o Numbered(<<"file", p>>, Pages[p].st_size)
  PROVE  /\ Starts(v, 0) /\ Prepared(r, v)
         /\ v.all_bytes_to_send_ = Int32(Len(Answer(r)))
  <1>1. HeaderLen \in 1 .. IntMax /\ HeaderLen \in Nat
    BY ResponseWriterAssumption
  <1>2. PICK size \in Nat : size = Pages[p].st_size
    BY ResponseWriterAssumption DEF Files
  <1>3. /\ v.write_buffers_ = head /\ v.write_index_ = HeaderLen
        /\ v.iov0 = [base |-> 0, len |-> HeaderLen]
        /\ v.iov1 = [base |-> 0, len |-> size] /\ v.iv_count_ = 2
        /\ v.all_bytes_to_send_ = Int32(HeaderLen + size)
        /\ v.all_bytes_have_send_ = 0 /\ v.file_address_ = p
    BY <1>2, WithFileFields
  <1>4. Starts(v, 0)
    BY <1>2, <1>3 DEF Starts
  <1>5. Prepared(r, v)
    BY <1>1, <1>3 DEF Prepared, HeadOf, FileOf
  <1>6. Len(Answer(r)) = HeaderLen + size
    BY <1>2, <1>3, <1>5, AnswerIs
  <1> QED
    BY <1>3, <1>4, <1>5, <1>6

LEMMA ReplyConn ==
  ASSUME IndInv, ConnInv, Reply
  PROVE  ConnInv'
  <1>1. /\ at = "answer" /\ ~Refused(status, wr)
        /\ wr' = ProcessWrite(status, wr, rd.socket_linger_opt_)
        /\ at' = "watched" /\ interest' = "out" /\ cuts' = 0
        /\ UNCHANGED <<rd, arrived, want, unsent, got>>
    BY DEF Reply, Watch, parser, client
  <1>2. PICK r \in Requests : want = r /\ Phase(r)
    BY <1>1, HasRequest
  <1>3. Decided(r) /\ StatusFits(r) /\ got = <<>> /\ wr.all_bytes_have_send_ = 0
    BY <1>1, <1>2 DEF Phase, Answering, Before
  <1>4. wr \in Writer /\ rd.socket_linger_opt_ \in BOOLEAN /\ r.keep \in BOOLEAN
    BY BytesAre DEF IndInv, ReadInv, WriteInv, Reader
  <1> DEFINE l == rd.socket_linger_opt_
             p == PageOf(r)
  <1>5. /\ status = "BAD_REQUEST" => wr' = Form(wr, Title("404", l))
        /\ status = "FORBIDDEN_REQUEST" => wr' = Form(wr, Title("403", l))
        /\ status = "FILE_REQUEST" => wr' = WithFile(wr, Title("200", l))
    BY <1>1 DEF ProcessWrite
  <1>6. PICK w : w = wr'
    OBVIOUS
  <1>7. l <=> r.keep /\ Understood(r)
    BY <1>3 DEF Decided, Keeps
  <1>8. \/ /\ Starts(w, 0) /\ Prepared(r, w)
           /\ w.all_bytes_to_send_ = Int32(Len(Answer(r)))
        \/ BadVector(w) /\ Understood(r)
    <2>1. CASE ~Understood(r)
      <3>1. status = "BAD_REQUEST" /\ Answer(r) = Numbered(Title("404", FALSE), FormLen)
        BY <1>3, <2>1 DEF StatusFits, Answer
      <3>2. Title("404", l) \in Titles /\ Title("404", l) = Title("404", FALSE)
        BY <1>4, <1>7, <2>1, TitleIs
      <3> QED
        BY <1>3, <1>4, <1>5, <1>6, <3>1, <3>2, FormStarts
    <2>2. CASE Understood(r)
      <3>1. Pages[p].kind \in {"missing", "directory", "secret", "file"}
            /\ (Pages[p].kind = "file" => p \in Files) /\ (l <=> r.keep)
        BY <1>7, <2>2, PageKnown
      <3>2. Answer(r) =
              CASE Pages[p].kind \in {"missing", "directory"} ->
                     Numbered(Title("404", r.keep), FormLen)
                [] Pages[p].kind = "secret"    -> Numbered(Title("403", r.keep), FormLen)
                [] Pages[p].kind = "file"      ->
                     IF Pages[p].st_size = 0 THEN Numbered(Title("200", r.keep), FormLen)
                     ELSE Numbered(Title("200", r.keep), HeaderLen)
                          \o Numbered(<<"file", p>>, Pages[p].st_size)
        BY <2>2, Zenon DEF Answer, PageOf
      <3>3. CASE Pages[p].kind = "missing"
        BY <1>1, <1>3, <2>2, <3>3 DEF StatusFits, Refused
      <3>4. CASE Pages[p].kind = "directory"
        <4>1. status = "BAD_REQUEST" /\ Answer(r) = Numbered(Title("404", r.keep), FormLen)
          BY <1>3, <2>2, <3>2, <3>4 DEF StatusFits
        <4>2. Title("404", l) \in Titles /\ Title("404", l) = Title("404", r.keep)
          BY <1>4, <3>1, TitleIs
        <4> QED
          BY <1>3, <1>4, <1>5, <1>6, <4>1, <4>2, FormStarts
      <3>5. CASE Pages[p].kind = "secret"
        <4>1. status = "FORBIDDEN_REQUEST" /\ Answer(r) = Numbered(Title("403", r.keep), FormLen)
          BY <1>3, <2>2, <3>2, <3>5 DEF StatusFits
        <4>2. Title("403", l) \in Titles /\ Title("403", l) = Title("403", r.keep)
          BY <1>4, <3>1, TitleIs
        <4> QED
          BY <1>3, <1>4, <1>5, <1>6, <4>1, <4>2, FormStarts
      <3>6. CASE Pages[p].kind = "file"
        <4>1. status = "FILE_REQUEST" /\ wr.file_stat_ = p
          BY <1>3, <2>2, <3>6 DEF StatusFits
        <4>2. Pages[p].st_size # 0
          BY <1>1, <4>1 DEF Refused
        <4>3. wr.file_address_ \in {p, MAP_FAILED}
          BY <1>3, <2>2, <3>6, <4>2 DEF StatusFits
        <4>4. Answer(r) = Numbered(Title("200", r.keep), HeaderLen)
                          \o Numbered(<<"file", p>>, Pages[p].st_size)
          BY <3>2, <3>6, <4>2
        <4>5. Title("200", l) \in Titles /\ Title("200", l) = Title("200", r.keep)
          BY <1>4, <3>1, TitleIs
        <4>6. wr' = WithFile(wr, Title("200", l)) /\ p \in Files
          BY <1>5, <3>1, <3>6, <4>1
        <4> HIDE DEF l, p
        <4>7. PICK head \in Titles : head = Title("200", l)
          BY <4>5
        <4>8. p = PageOf(r)
          BY DEF p
        <4>9. CASE wr.file_address_ = MAP_FAILED
          <5>1. w.iv_count_ = 2 /\ w.file_address_ = MAP_FAILED
            BY <1>4, <1>6, <4>6, <4>7, <4>9, WithFileFields
          <5> QED
            BY <2>2, <5>1 DEF BadVector
        <4>10. CASE wr.file_address_ = p
          BY <1>3, <1>4, <1>6, <2>2, <4>1, <4>10, <4>4, <4>5, <4>6, <4>7, <4>8, WithFileStarts
        <4> QED
          BY <4>3, <4>9, <4>10
      <3> QED
        BY <3>1, <3>3, <3>4, <3>5, <3>6
    <2> QED
      BY <2>1, <2>2
  <1>9. Decided(r)' /\ got' = <<>>
    BY <1>1, <1>3 DEF Decided, Silent
  <1>10. Sending(r)'
    <2>1. PICK c : c = cuts'
      OBVIOUS
    <2>2. CASE BadVector(w) /\ Understood(r)
      BY <1>1, <1>6, <1>9, <2>2 DEF Sending, Unsendable, BadVector, Understood
    <2> QED
      BY <1>1, <1>6, <1>8, <1>9, <2>1, <2>2, StartsSending
  <1>11. Phase(r)'
    BY <1>1, <1>10 DEF Phase
  <1> QED
    BY <1>1, <1>2, <1>11, PhaseNext DEF ConnInv

LEMMA NothingToSendConn ==
  ASSUME IndInv, ConnInv, NothingToSend
  PROVE  ConnInv'
  <1>1. /\ at = "watched" /\ interest = "out" /\ wr.all_bytes_to_send_ = 0
        /\ at' = "watched" /\ interest' = "in" /\ HttpClear(wr) /\ wr \in Writer
        /\ UNCHANGED <<arrived, want, unsent, got, cuts>>
    BY DEF NothingToSend, Writable, Watch, client, IndInv, WriteInv
  <1>2. PICK r \in Requests : want = r /\ Phase(r)
    BY <1>1, HasRequest
  <1>3. Sending(r)
    BY <1>1, <1>2 DEF Phase
  <1>4. got = <<>> /\ Decided(r) /\ (Underway(r) \/ Unsendable(r))
    BY <1>1, <1>3 DEF Sending, Underway, Unsendable
  <1>8. Silent /\ (cuts >= 2 => got # Answer(r))
    <2>1. CASE Underway(r)
      <3>1. Prepared(r, wr) /\ Int32(Len(Answer(r)) - Len(got)) = 0
        BY <1>1, <2>1 DEF Underway
      <3>2. Answer(r) \in Seq(OutByte) /\ Len(Answer(r)) >= 1 /\ Len(Answer(r)) \in Nat
            /\ (wr.iv_count_ = 1 => Len(Answer(r)) \in 1 .. IntMax) /\ wr.iv_count_ \in {1, 2}
        BY <3>1, AnswerIs
      <3>3. Len(Answer(r)) - Len(got) = Len(Answer(r))
        BY <1>4, <3>2
      <3>4. wr.iv_count_ = 2
        <4> SUFFICES ASSUME wr.iv_count_ = 1 PROVE FALSE
          BY <3>2
        <4>1. Len(Answer(r)) \in Ints
          BY <3>2, ResponseWriterAssumption DEF Ints
        <4> QED
          BY <3>1, <3>2, <3>3, <4>1, Int32Fits
      <3>5. Silent
        BY <1>4, <3>1, <3>4 DEF Prepared, Decided
      <3> QED
        BY <1>4, <3>2, <3>5
    <2>2. CASE Unsendable(r)
      BY <1>4, <2>2 DEF Unsendable, Decided
    <2> QED
      BY <1>4, <2>1, <2>2
  <1>10. Told(r)'
    <2>1. Untouched'
      BY <1>1, ClearedIs
    <2> QED
      BY <1>1, <1>8, <2>1 DEF Told, Silent
  <1>11. Phase(r)'
    BY <1>1, <1>10 DEF Phase
  <1> QED
    BY <1>1, <1>2, <1>11, PhaseNext DEF ConnInv

LEMMA WriteBeginConn ==
  ASSUME IndInv, ConnInv, WriteBegin
  PROVE  ConnInv'
  <1>1. /\ at = "watched" /\ interest = "out" /\ at' = "write"
        /\ UNCHANGED <<rd, arrived, wr, want, unsent, got, cuts>>
    BY DEF WriteBegin, Writable, parser, writer, client
  <1>2. PICK r \in Requests : want = r /\ Phase(r)
    BY <1>1, HasRequest
  <1>3. Sending(r)
    BY <1>1, <1>2 DEF Phase
  <1>4. Sending(r)'
    BY <1>1, <1>3, SendingStays DEF Sending, Decided, Silent
  <1>5. Phase(r)'
    BY <1>1, <1>4 DEF Phase
  <1> QED
    BY <1>1, <1>2, <1>5, PhaseNext DEF ConnInv

LEMMA WouldBlockConn ==
  ASSUME IndInv, ConnInv, WouldBlock
  PROVE  ConnInv'
  <1>1. /\ at = "more" /\ at' = "watched" /\ interest' = "out"
        /\ UNCHANGED <<rd, arrived, wr, want, unsent, got, cuts>>
    BY DEF WouldBlock, Watch, parser, writer, client
  <1>2. PICK r \in Requests : want = r /\ Phase(r)
    BY <1>1, HasRequest
  <1>3. Sending(r)
    BY <1>1, <1>2 DEF Phase
  <1>4. Sending(r)'
    BY <1>1, <1>3, SendingStays DEF Sending, Decided, Silent
  <1>5. Phase(r)'
    BY <1>1, <1>4 DEF Phase
  <1> QED
    BY <1>1, <1>2, <1>5, PhaseNext DEF ConnInv

----------------------------------------------------------------------------
(* What writev takes.                                                      *)

Positive(n) == IF n > 0 THEN n ELSE 0

LEMMA VectorsAre ==
  ASSUME NEW w \in Writer, w.write_buffers_ \in Titles,
         w.iv_count_ = 2 => w.file_address_ \in Files
  PROVE  /\ Vectors(w) \in Seq(OutByte)
         /\ w.iv_count_ = 2 =>
              /\ Len(Vectors(w)) = Positive(w.iov0.len) + Positive(w.iov1.len)
              /\ \A i \in Positive(w.iov0.len) + 1 .. Len(Vectors(w)) :
                    Vectors(w)[i] = <<<<"file", w.file_address_>>,
                                      w.iov1.base + (i - Positive(w.iov0.len))>>
         /\ w.iv_count_ # 2 => Len(Vectors(w)) = Positive(w.iov0.len)
         /\ \A i \in 1 .. Positive(w.iov0.len) :
               Vectors(w)[i] = <<w.write_buffers_, w.iov0.base + i>>
  <1> DEFINE a == Run(w.write_buffers_, w.iov0.base, w.iov0.len)
             label == <<"file", w.file_address_>>
             f == Run(label, w.iov1.base, w.iov1.len)
             b == IF w.iv_count_ = 2 THEN f ELSE <<>>
             m == Positive(w.iov0.len)
             k == Positive(w.iov1.len)
  <1>1. Vectors(w) = a \o b
    BY DEF Vectors, Run
  <1>2. /\ w.iov0.base \in Int /\ w.iov0.len \in Int
        /\ w.iov1.base \in Int /\ w.iov1.len \in Int
    BY DEF Writer, Vec
  <1>3. m \in Nat /\ k \in Nat /\ (w.iov0.len >= 0 => m = w.iov0.len)
        /\ (w.iov1.len >= 0 => k = w.iov1.len)
        /\ (w.iov0.len < 0 => m = 0) /\ (w.iov1.len < 0 => k = 0)
    BY <1>2 DEF Positive
  <1>4. a \in Seq(OutByte) /\ Len(a) = m
        /\ \A i \in 1 .. m : a[i] = <<w.write_buffers_, w.iov0.base + i>>
    <2>1. w.write_buffers_ \in Labels
      BY LabelsAre
    <2>2. /\ a \in Seq(OutByte) /\ (w.iov0.len >= 0 => Len(a) = w.iov0.len)
          /\ (w.iov0.len < 0 => a = <<>>)
          /\ \A i \in 1 .. w.iov0.len : a[i] = <<w.write_buffers_, w.iov0.base + i>>
      BY <1>2, <2>1, RunIs
    <2> HIDE DEF a, m
    <2> QED
      BY <1>2, <1>3, <2>2
  <1>5. w.iv_count_ = 2 =>
          /\ f \in Seq(OutByte) /\ Len(f) = k
          /\ \A i \in 1 .. k : f[i] = <<label, w.iov1.base + i>>
    <2> SUFFICES ASSUME w.iv_count_ = 2
                 PROVE  /\ f \in Seq(OutByte) /\ Len(f) = k
                        /\ \A i \in 1 .. k : f[i] = <<label, w.iov1.base + i>>
      OBVIOUS
    <2>1. label \in Labels
      BY LabelsAre
    <2> HIDE DEF label
    <2>2. /\ f \in Seq(OutByte) /\ (w.iov1.len >= 0 => Len(f) = w.iov1.len)
          /\ (w.iov1.len < 0 => f = <<>>)
          /\ \A i \in 1 .. w.iov1.len : f[i] = <<label, w.iov1.base + i>>
      BY <1>2, <2>1, RunIs
    <2> HIDE DEF f, k
    <2> QED
      BY <1>2, <1>3, <2>2
  <1>6. b \in Seq(OutByte) /\ (w.iv_count_ = 2 => b = f) /\ (w.iv_count_ # 2 => Len(b) = 0)
    <2> HIDE DEF f
    <2> QED
      BY <1>5
  <1> HIDE DEF a, b, f, m, k, label
  <1> DEFINE v == a \o b
  <1>7. /\ v \in Seq(OutByte) /\ Len(v) = Len(a) + Len(b)
        /\ \A i \in 1 .. Len(a) + Len(b) : v[i] = IF i <= Len(a) THEN a[i] ELSE b[i - Len(a)]
    BY <1>4, <1>6, ConcatProperties
  <1>8. v = Vectors(w)
    BY <1>1
  <1> HIDE DEF v
  <1>9. \A i \in 1 .. m : v[i] = <<w.write_buffers_, w.iov0.base + i>>
    <2>1. Len(b) \in Nat
      BY <1>6
    <2> QED
      BY <1>3, <1>4, <1>7, <2>1
  <1>10. w.iv_count_ = 2 =>
           /\ Len(v) = m + k
           /\ \A i \in m + 1 .. Len(v) : v[i] = <<label, w.iov1.base + (i - m)>>
    <2> SUFFICES ASSUME w.iv_count_ = 2
                 PROVE  /\ Len(v) = m + k
                        /\ \A i \in m + 1 .. Len(v) : v[i] = <<label, w.iov1.base + (i - m)>>
      OBVIOUS
    <2>1. Len(v) = m + k /\ Len(b) = k /\ b = f
      BY <1>4, <1>5, <1>6, <1>7
    <2>2. ASSUME NEW i \in m + 1 .. Len(v)
          PROVE  v[i] = <<label, w.iov1.base + (i - m)>>
      <3>1. i - m \in 1 .. k /\ i \in 1 .. Len(a) + Len(b) /\ ~(i <= Len(a))
        BY <1>3, <1>4, <2>1
      <3>2. v[i] = b[i - m]
        BY <1>4, <1>7, <3>1
      <3> QED
        BY <1>5, <2>1, <3>1, <3>2
    <2> QED
      BY <2>1, <2>2
  <1>11. w.iv_count_ # 2 => Len(v) = m
    BY <1>3, <1>4, <1>6, <1>7
  <1> QED
    BY <1>7, <1>8, <1>9, <1>10, <1>11 DEF m, k, label

\* In the head and in the file the iovecs hold the rest of the answer.
LEMMA VectorsContinue ==
  ASSUME NEW r \in Requests, NEW w \in Writer, NEW g \in Seq(OutByte), NEW c,
         Prepared(r, w),
         \/ Len(g) < w.write_index_ /\ InHead(w, g, c)
         \/ /\ Len(g) >= w.write_index_ /\ InFile(w, g)
            /\ Len(g) <= Len(Answer(r))
            /\ w.all_bytes_to_send_ = Len(Answer(r)) - Len(g)
  PROVE  /\ Len(Vectors(w)) = Len(Answer(r)) - Len(g)
         /\ \A i \in 1 .. Len(Vectors(w)) : Vectors(w)[i] = Answer(r)[Len(g) + i]
  <1> DEFINE A == Answer(r)
             V == Vectors(w)
             n == w.write_index_
             size == Pages[w.file_address_].st_size
             m == Positive(w.iov0.len)
             k == Positive(w.iov1.len)
             label == <<"file", w.file_address_>>
  <1>1. /\ A \in Seq(OutByte) /\ Len(A) \in Nat
        /\ \A i \in 1 .. n : A[i] = <<w.write_buffers_, i>>
        /\ w.iv_count_ = 1 => Len(A) = n
        /\ w.iv_count_ = 2 =>
             /\ w.file_address_ \in Files /\ size \in Nat
             /\ Len(A) = n + size
             /\ \A i \in n + 1 .. Len(A) : A[i] = <<label, i - n>>
        /\ w.iv_count_ \in {1, 2} /\ n \in Nat
        /\ w.write_buffers_ \in Titles
    BY AnswerIs
  <1>2. /\ V \in Seq(OutByte)
        /\ w.iv_count_ = 2 =>
             /\ Len(V) = m + k
             /\ \A i \in m + 1 .. Len(V) : V[i] = <<label, w.iov1.base + (i - m)>>
        /\ w.iv_count_ # 2 => Len(V) = m
        /\ \A i \in 1 .. m : V[i] = <<w.write_buffers_, w.iov0.base + i>>
    BY <1>1, VectorsAre
  <1>3. Len(g) \in Nat /\ Len(V) \in Nat
    BY <1>2
  <1>4. CASE Len(g) < n /\ InHead(w, g, c)
    <2>1. w.iov0.base = Len(g) /\ m = n - Len(g) /\ m \in Nat
          /\ (w.iv_count_ = 2 => w.iov1.base = 0 /\ k = size)
      BY <1>1, <1>3, <1>4 DEF InHead, Positive
    <2> HIDE DEF A, V, n, size, m, k, label
    <2>2. Len(V) = Len(A) - Len(g)
      BY <1>1, <1>2, <1>3, <2>1
    <2>3. ASSUME NEW i \in 1 .. Len(V) PROVE V[i] = A[Len(g) + i]
      <3>1. CASE i <= m
        <4>1. Len(g) + i \in 1 .. n /\ i \in 1 .. m
          BY <1>1, <1>3, <2>1, <3>1
        <4> QED
          BY <1>1, <1>2, <2>1, <4>1
      <3>2. CASE ~(i <= m)
        <4>1. w.iv_count_ = 2
          BY <1>1, <1>2, <1>3, <2>1, <3>2
        <4>2. i \in m + 1 .. Len(V) /\ Len(g) + i \in n + 1 .. Len(A)
              /\ w.iov1.base + (i - m) = Len(g) + i - n
          BY <1>1, <1>2, <1>3, <2>1, <2>2, <3>2, <4>1
        <4>3. V[i] = <<label, w.iov1.base + (i - m)>>
          BY <1>2, <4>1, <4>2
        <4>4. A[Len(g) + i] = <<label, Len(g) + i - n>>
          BY <1>1, <4>1, <4>2
        <4> QED
          BY <4>2, <4>3, <4>4
      <3> QED
        BY <3>1, <3>2
    <2> QED
      BY <2>2, <2>3 DEF A, V
  <1>5. CASE /\ Len(g) >= n /\ InFile(w, g) /\ Len(g) <= Len(A)
             /\ w.all_bytes_to_send_ = Len(A) - Len(g)
    <2>1. m = 0 /\ w.iov1.base = Len(g) - n /\ k = Len(A) - Len(g)
      <3>1. w.iov0.len = 0 /\ w.iov1.base = Len(g) - n /\ w.iov1.len = Len(A) - Len(g)
        BY <1>5 DEF InFile
      <3> HIDE DEF A, n
      <3> QED
        BY <1>1, <1>3, <1>5, <3>1 DEF Positive
    <2> HIDE DEF A, V, n, size, m, k, label
    <2>2. Len(V) = Len(A) - Len(g)
      BY <1>1, <1>2, <1>3, <1>5, <2>1
    <2>3. ASSUME NEW i \in 1 .. Len(V) PROVE V[i] = A[Len(g) + i]
      <3>1. w.iv_count_ = 2
        BY <1>1, <1>3, <1>5, <2>2
      <3>2. i \in m + 1 .. Len(V) /\ Len(g) + i \in n + 1 .. Len(A)
            /\ w.iov1.base + (i - m) = Len(g) + i - n
        BY <1>1, <1>3, <1>5, <2>1, <2>2
      <3>3. V[i] = <<label, w.iov1.base + (i - m)>>
        BY <1>2, <3>1, <3>2
      <3>4. A[Len(g) + i] = <<label, Len(g) + i - n>>
        BY <1>1, <3>1, <3>2
      <3> QED
        BY <3>2, <3>3, <3>4
    <2> QED
      BY <2>2, <2>3 DEF A, V
  <1> QED
    BY <1>4, <1>5

LEMMA TakeIs ==
  ASSUME NEW n \in Takes, Vectors(wr) \in Seq(OutByte)
  PROVE  n \in 0 .. Len(Vectors(wr)) /\ (Len(Vectors(wr)) > 0 => n >= 1)
  <1> DEFINE all == Len(Vectors(wr))
             top == Min({all, IntMax})
  <1>1. all \in Nat /\ IntMax \in Nat
    BY ResponseWriterAssumption
  <1>2. n \in IF all = 0 THEN {0} ELSE 1 .. top
    BY DEF Takes
  <1> HIDE DEF all
  <1>3. {all, IntMax} \subseteq Nat /\ {all, IntMax} # {}
    BY <1>1
  <1>4. top \in Nat /\ top <= all
    BY <1>3, LeastNat
  <1> HIDE DEF top
  <1>5. n \in 0 .. all /\ (all > 0 => n >= 1)
    BY <1>1, <1>2, <1>4
  <1> QED
    BY <1>5 DEF all

\* What the client has after it was sent n bytes of v.
Longer(g, v, n) == g \o SubSeq(v, 1, n)

LEMMA LongerIs ==
  ASSUME NEW g \in Seq(OutByte), NEW v \in Seq(OutByte), NEW n \in 0 .. Len(v)
  PROVE  /\ Longer(g, v, n) \in Seq(OutByte) /\ Len(Longer(g, v, n)) = Len(g) + n
         /\ \A i \in 1 .. Len(g) : Longer(g, v, n)[i] = g[i]
         /\ \A i \in 1 .. n : Longer(g, v, n)[Len(g) + i] = v[i]
  <1> DEFINE u == SubSeq(v, 1, n)
  <1>1. Len(v) \in Nat /\ n \in Nat /\ Len(g) \in Nat
    OBVIOUS
  <1>2. u \in Seq(OutByte) /\ Len(u) = n /\ \A i \in 1 .. n : u[i] = v[i]
    BY <1>1
  <1> HIDE DEF u
  <1> DEFINE h == g \o u
  <1>3. /\ h \in Seq(OutByte) /\ Len(h) = Len(g) + Len(u)
        /\ \A i \in 1 .. Len(g) + Len(u) : h[i] = IF i <= Len(g) THEN g[i] ELSE u[i - Len(g)]
    BY <1>2, ConcatProperties
  <1>4. h = Longer(g, v, n)
    BY DEF Longer, u
  <1> HIDE DEF h
  <1>5. \A i \in 1 .. Len(g) : h[i] = g[i]
    BY <1>1, <1>2, <1>3
  <1>6. \A i \in 1 .. n : h[Len(g) + i] = v[i]
    <2> SUFFICES ASSUME NEW i \in 1 .. n PROVE h[Len(g) + i] = v[i]
      OBVIOUS
    <2>1. Len(g) + i \in 1 .. Len(g) + Len(u) /\ ~(Len(g) + i <= Len(g))
          /\ Len(g) + i - Len(g) = i
      BY <1>1, <1>2
    <2> QED
      BY <1>2, <1>3, <2>1
  <1> QED
    BY <1>2, <1>3, <1>4, <1>5, <1>6

\* The fields of w become those of v when the counters have reached have and left.
After(w, v, have, left) ==
    /\ v.write_buffers_ = w.write_buffers_
    /\ v.write_index_ = w.write_index_
    /\ v.iv_count_ = w.iv_count_
    /\ v.file_address_ = w.file_address_
    /\ v.all_bytes_have_send_ = have
    /\ v.all_bytes_to_send_ = left
    /\ have < 0 \/ have >= w.iov0.len =>
          /\ v.iov0.len = 0
          /\ v.iov1 = [base |-> have - w.write_index_, len |-> left]
    /\ ~(have < 0 \/ have >= w.iov0.len) =>
          /\ v.iov0 = [base |-> have, len |-> w.iov0.len - have]
          /\ v.iov1 = w.iov1

LEMMA SentFields ==
  ASSUME NEW w \in Writer, NEW n \in Nat
  PROVE  \E have \in Ints, left \in Ints :
            /\ have = Int32(w.all_bytes_have_send_ + n)
            /\ left = Int32(w.all_bytes_to_send_ - n)
            /\ After(w, Sent(w, n), have, left)
  <1>6. /\ w.all_bytes_have_send_ + n \in Int /\ w.all_bytes_to_send_ - n \in Int
    BY ResponseWriterAssumption DEF Writer, Ints
  <1>7. PICK have \in Ints : have = Int32(w.all_bytes_have_send_ + n)
    BY <1>6, Int32InInts
  <1>8. PICK left \in Ints : left = Int32(w.all_bytes_to_send_ - n)
    BY <1>6, Int32InInts
  <1> DEFINE v == [w EXCEPT !.all_bytes_have_send_ = have, !.all_bytes_to_send_ = left]
             x == [v EXCEPT !.iov0.len = 0,
                            !.iov1 = [base |-> have - w.write_index_, len |-> left]]
             y == [v EXCEPT !.iov0 = [base |-> have, len |-> w.iov0.len - have]]
  <1>1. Sent(w, n) = IF have < 0 \/ have >= w.iov0.len THEN x ELSE y
    BY <1>7, <1>8, Zenon DEF Sent, HeaderOut
  <1>2. v \in Writer /\ v.iov0 = w.iov0 /\ v.iov1 = w.iov1
        /\ v.write_buffers_ = w.write_buffers_ /\ v.write_index_ = w.write_index_
        /\ v.iv_count_ = w.iv_count_ /\ v.file_address_ = w.file_address_
        /\ v.all_bytes_have_send_ = have /\ v.all_bytes_to_send_ = left
    BY DEF Writer
  <1> HIDE DEF v
  <1>3. /\ x.write_buffers_ = w.write_buffers_ /\ x.write_index_ = w.write_index_
        /\ x.iv_count_ = w.iv_count_ /\ x.file_address_ = w.file_address_
        /\ x.all_bytes_have_send_ = have /\ x.all_bytes_to_send_ = left
        /\ x.iov0.len = 0 /\ x.iov1 = [base |-> have - w.write_index_, len |-> left]
    BY <1>2 DEF Writer, Vec
  <1>4. /\ y.write_buffers_ = w.write_buffers_ /\ y.write_index_ = w.write_index_
        /\ y.iv_count_ = w.iv_count_ /\ y.file_address_ = w.file_address_
        /\ y.all_bytes_have_send_ = have /\ y.all_bytes_to_send_ = left
        /\ y.iov0 = [base |-> have, len |-> w.iov0.len - have] /\ y.iov1 = w.iov1
    BY <1>2 DEF Writer, Vec
  <1> HIDE DEF x, y
  <1>5. After(w, Sent(w, n), have, left)
    <2>1. CASE have < 0 \/ have >= w.iov0.len
      <3>1. Sent(w, n) = x
        BY <1>1, <2>1
      <3> QED
        BY <1>3, <2>1, <3>1, Zenon DEF After
    <2>2. CASE ~(have < 0 \/ have >= w.iov0.len)
      <3>1. Sent(w, n) = y
        BY <1>1, <2>2
      <3> QED
        BY <1>4, <2>2, <3>1, Zenon DEF After
    <2> QED
      BY <2>1, <2>2
  <1> QED
    BY <1>5, <1>7, <1>8

LEMMA BeginningGrows ==
  ASSUME NEW a \in Seq(OutByte), NEW g \in Seq(OutByte), NEW h \in Seq(OutByte),
         NEW n \in Nat, Len(h) = Len(g) + n, Len(h) <= Len(a),
         g = SubSeq(a, 1, Len(g)),
         \A i \in 1 .. Len(g) : h[i] = g[i],
         \A i \in 1 .. n : h[Len(g) + i] = a[Len(g) + i]
  PROVE  h = SubSeq(a, 1, Len(h))
  <1>1. Len(g) \in Nat /\ Len(h) \in Nat /\ Len(a) \in Nat /\ Len(g) <= Len(a)
    OBVIOUS
  <1> DEFINE u == SubSeq(a, 1, Len(h))
             x == SubSeq(a, 1, Len(g))
  <1>2. u \in Seq(OutByte) /\ Len(u) = Len(h) /\ \A i \in 1 .. Len(h) : u[i] = a[i]
    BY <1>1
  <1>3. \A i \in 1 .. Len(g) : x[i] = a[i]
    BY <1>1
  <1>4. g = x
    OBVIOUS
  <1> HIDE DEF u, x
  <1>5. \A i \in 1 .. Len(h) : h[i] = u[i]
    <2> SUFFICES ASSUME NEW i \in 1 .. Len(h) PROVE h[i] = u[i]
      OBVIOUS
    <2>1. CASE i <= Len(g)
      <3>1. i \in 1 .. Len(g)
        BY <1>1, <2>1
      <3>2. h[i] = g[i] /\ g[i] = x[i] /\ x[i] = a[i]
        BY <1>3, <1>4, <3>1
      <3> QED
        BY <1>2, <3>2
    <2>2. CASE ~(i <= Len(g))
      <3>1. PICK j \in 1 .. n : i = Len(g) + j
        <4>1. i - Len(g) \in 1 .. n /\ i = Len(g) + (i - Len(g))
          BY <1>1, <2>2
        <4> QED
          BY <4>1
      <3>2. h[i] = a[i]
        BY <3>1
      <3> QED
        BY <1>2, <3>2
    <2> QED
      BY <2>1, <2>2
  <1> QED
    BY <1>1, <1>2, <1>5, SeqEqual DEF u

\* A head that was cut twice never becomes right: each byte of it that is still sent
\* leaves less of it, and behind it comes the file, too early.
LEMMA StaysWrong ==
  ASSUME NEW r \in Requests, NEW w \in Writer, NEW g \in Seq(OutByte), Prepared(r, w),
         Wrong(r, w, g) \/ RunsShort(w, g),
         NEW n \in 0 .. Len(Vectors(w)), Len(Vectors(w)) > 0 => n >= 1,
         NEW v, v = Sent(w, n),
         NEW h \in Seq(OutByte), Len(h) = Len(g) + n,
         \A i \in 1 .. Len(g) : h[i] = g[i],
         \A i \in 1 .. n : h[Len(g) + i] = Vectors(w)[i]
  PROVE  Wrong(r, v, h) \/ RunsShort(v, h)
  <1> DEFINE A == Answer(r)
             V == Vectors(w)
             k == w.write_index_
             o == w.iov0.len
  <1>1. /\ A \in Seq(OutByte) /\ k \in 1 .. IntMax /\ IntMax \in Nat
        /\ \A i \in 1 .. k : A[i] = <<w.write_buffers_, i>>
        /\ w.iv_count_ \in {1, 2} /\ w.write_buffers_ \in Titles
        /\ w.iv_count_ = 2 => w.file_address_ \in Files
    BY AnswerIs
  <1>2. /\ V \in Seq(OutByte)
        /\ w.iv_count_ = 2 =>
             /\ Len(V) = Positive(o) + Positive(w.iov1.len)
             /\ \A i \in Positive(o) + 1 .. Len(V) :
                   V[i] = <<<<"file", w.file_address_>>, w.iov1.base + (i - Positive(o))>>
        /\ w.iv_count_ # 2 => Len(V) = Positive(o)
        /\ \A i \in 1 .. Positive(o) : V[i] = <<w.write_buffers_, w.iov0.base + i>>
    BY <1>1, VectorsAre
  <1>3. Len(g) \in Nat /\ Len(V) \in Nat /\ n \in Nat /\ n <= Len(V) /\ Len(h) \in Nat
        /\ o \in Int /\ w.all_bytes_to_send_ \in Int /\ w.all_bytes_have_send_ \in Int
    BY <1>1, <1>2 DEF Writer, Ints, Vec
  <1>4. PICK have \in Ints, left \in Ints :
          /\ have = Int32(w.all_bytes_have_send_ + n)
          /\ left = Int32(w.all_bytes_to_send_ - n)
          /\ After(w, Sent(w, n), have, left)
    BY <1>3, SentFields
  <1>5. After(w, v, have, left)
    BY <1>4
  <1>6. /\ v.write_index_ = k /\ v.all_bytes_have_send_ = have
        /\ have < 0 \/ have >= o => v.iov0.len = 0
        /\ ~(have < 0 \/ have >= o) => v.iov0 = [base |-> have, len |-> o - have]
    BY <1>5 DEF After
  <1>7. CASE Wrong(r, w, g)
    <2>1. PICK i \in DOMAIN g : i <= k /\ g[i] # A[i]
      BY <1>7 DEF Wrong
    <2>2. i \in 1 .. Len(g) /\ i \in 1 .. Len(h)
      BY <1>3, <2>1
    <2>3. h[i] = g[i] /\ i \in DOMAIN h
      BY <2>2
    <2> HIDE DEF A, k
    <2>4. Wrong(r, v, h)
      BY <1>6, <2>1, <2>3 DEF Wrong, A
    <2> QED
      BY <2>4
  <1>8. CASE RunsShort(w, g)
    <2>1. w.all_bytes_have_send_ = Len(g) /\ o >= 0 /\ Len(g) + o < k /\ Positive(o) = o
      BY <1>3, <1>8 DEF RunsShort, Positive
    <2> HIDE DEF A, V, k, o
    <2>2. CASE n <= o
      <3>1. Len(g) + n \in Ints /\ Len(g) + n = Len(h)
        BY <1>1, <1>3, <2>1, <2>2 DEF Ints
      <3>2. have = Len(h)
        BY <1>4, <2>1, <3>1, Int32Fits
      <3>3. v.iov0.len >= 0 /\ Len(h) + v.iov0.len < k
        <4>1. CASE have < 0 \/ have >= o
          <5>1. v.iov0.len = 0
            BY <1>6, <4>1
          <5> QED
            BY <1>1, <1>3, <2>1, <2>2, <5>1
        <4>2. CASE ~(have < 0 \/ have >= o)
          <5>1. v.iov0.len = o - have
            BY <1>6, <4>2
          <5> QED
            BY <1>1, <1>3, <2>1, <2>2, <3>2, <4>2, <5>1
        <4> QED
          BY <4>1, <4>2
      <3> QED
        BY <1>6, <3>2, <3>3 DEF RunsShort
    <2>3. CASE ~(n <= o)
      <3> DEFINE j == o + 1
                 i == Len(g) + j
      <3>1. w.iv_count_ = 2 /\ j \in o + 1 .. Len(V) /\ j \in 1 .. n
            /\ i \in 1 .. k /\ i \in 1 .. Len(h)
        BY <1>1, <1>2, <1>3, <2>1, <2>3
      <3>2. V[j] = <<<<"file", w.file_address_>>, w.iov1.base + (j - o)>>
        BY <1>2, <2>1, <3>1
      <3>3. h[i] = V[j]
        BY <3>1 DEF V
      <3>4. A[i] = <<w.write_buffers_, i>>
        BY <1>1, <3>1
      <3>5. <<"file", w.file_address_>> # w.write_buffers_
        BY <1>1, <3>1, LabelsAre
      <3> HIDE DEF i, j
      <3>6. h[i] # A[i]
        BY <3>2, <3>3, <3>4, <3>5
      <3>7. i \in DOMAIN h /\ i <= k
        BY <1>1, <1>3, <3>1
      <3>8. Wrong(r, v, h)
        BY <1>6, <3>6, <3>7 DEF Wrong, A
      <3> QED
        BY <3>8
    <2> QED
      BY <2>2, <2>3
  <1> QED
    BY <1>7, <1>8

\* A writev of n bytes: what is left to send, what the client has, what was cut.
SentBy(w, n, v) == v = Sent(w, n)
Extends(g, h, x, n) ==
    /\ Len(h) = Len(g) + n
    /\ \A i \in 1 .. Len(g) : h[i] = g[i]
    /\ \A i \in 1 .. n : h[Len(g) + i] = x[i]
Counted(n, h, k, c, d) == d = IF n > 0 /\ Len(h) < k THEN c + 1 ELSE c

Moves(r, w, g, c, n, v, h, d) ==
    /\ r \in Requests /\ w \in Writer /\ g \in Seq(OutByte) /\ c \in Nat
    /\ Prepared(r, w) /\ Cursor(r, w, g, c)
    /\ w.all_bytes_to_send_ = Int32(Len(Answer(r)) - Len(g))
    /\ g = <<>> \/ w.all_bytes_to_send_ > 0
    /\ n \in 0 .. Len(Vectors(w)) /\ (Len(Vectors(w)) > 0 => n >= 1)
    /\ SentBy(w, n, v)
    /\ h \in Seq(OutByte) /\ Extends(g, h, Vectors(w), n)
    /\ Counted(n, h, w.write_index_, c, d)

\* A writev moves the place in the answer.
LEMMA CursorMoves ==
  ASSUME NEW r, NEW w, NEW g, NEW c, NEW n, NEW v, NEW h, NEW d,
         Moves(r, w, g, c, n, v, h, d)
  PROVE  /\ Prepared(r, v) /\ Cursor(r, v, h, d)
         /\ v.all_bytes_to_send_ = Int32(Len(Answer(r)) - Len(h))
  <1>0. /\ r \in Requests /\ w \in Writer /\ g \in Seq(OutByte) /\ c \in Nat
        /\ Prepared(r, w) /\ Cursor(r, w, g, c)
        /\ w.all_bytes_to_send_ = Int32(Len(Answer(r)) - Len(g))
        /\ g = <<>> \/ w.all_bytes_to_send_ > 0
        /\ n \in 0 .. Len(Vectors(w)) /\ (Len(Vectors(w)) > 0 => n >= 1)
        /\ v = Sent(w, n) /\ h \in Seq(OutByte) /\ Len(h) = Len(g) + n
        /\ \A i \in 1 .. Len(g) : h[i] = g[i]
        /\ \A i \in 1 .. n : h[Len(g) + i] = Vectors(w)[i]
        /\ d = IF n > 0 /\ Len(h) < w.write_index_ THEN c + 1 ELSE c
    BY DEF Moves, SentBy, Extends, Counted
  <1> USE <1>0
  <1> DEFINE A == Answer(r)
             V == Vectors(w)
             k == w.write_index_
             o == w.iov0.len
  <1>1. /\ A \in Seq(OutByte) /\ Len(A) \in Nat /\ k \in 1 .. IntMax /\ IntMax \in Nat
        /\ w.iv_count_ \in {1, 2} /\ w.write_buffers_ \in Titles
        /\ w.iv_count_ = 1 => Len(A) = k
        /\ w.iv_count_ = 2 =>
             /\ w.file_address_ \in Files /\ Pages[w.file_address_].st_size \in Nat
             /\ Len(A) = k + Pages[w.file_address_].st_size
        /\ ~Overflows(r) => Len(A) <= IntMax
    BY AnswerIs
  <1>2. V \in Seq(OutByte)
    BY <1>1, VectorsAre
  <1>3. Len(g) \in Nat /\ Len(V) \in Nat /\ n \in Nat /\ n <= Len(V) /\ Len(h) \in Nat
        /\ o \in Int /\ w.all_bytes_to_send_ \in Int /\ w.all_bytes_have_send_ \in Int
    <2>1. Len(g) \in Nat /\ Len(V) \in Nat /\ Len(h) \in Nat
      BY <1>2
    <2>2. n \in Nat /\ n <= Len(V)
      BY <2>1
    <2> QED
      BY <2>1, <2>2 DEF Writer, Ints, Vec
  <1>4. PICK have \in Ints, left \in Ints :
          /\ have = Int32(w.all_bytes_have_send_ + n)
          /\ left = Int32(w.all_bytes_to_send_ - n)
          /\ After(w, Sent(w, n), have, left)
    BY <1>3, SentFields
  <1>5. After(w, v, have, left)
    BY <1>4
  <1>6. /\ v.write_index_ = k /\ v.all_bytes_have_send_ = have
        /\ v.write_buffers_ = w.write_buffers_ /\ v.iv_count_ = w.iv_count_
        /\ v.file_address_ = w.file_address_ /\ v.all_bytes_to_send_ = left
        /\ have < 0 \/ have >= o =>
              v.iov0.len = 0 /\ v.iov1 = [base |-> have - k, len |-> left]
        /\ ~(have < 0 \/ have >= o) =>
              v.iov0 = [base |-> have, len |-> o - have] /\ v.iov1 = w.iov1
    BY <1>5 DEF After
  <1>7. Prepared(r, v)
    BY <1>6 DEF Prepared, HeadOf, FileOf
  <1>8. v.all_bytes_to_send_ = Int32(Len(A) - Len(h))
    <2>1. Len(A) - Len(g) \in Int /\ Len(A) - Len(g) - n = Len(A) - Len(h) /\ n \in Int
      BY <1>1, <1>3
    <2> HIDE DEF A
    <2>2. left = Int32(Int32(Len(A) - Len(g)) - n)
      BY <1>4 DEF A
    <2> QED
      BY <1>6, <2>1, <2>2, Int32Minus
  <1>9. Cursor(r, v, h, d)
    <2>1. k \in Nat /\ d \in {c, c + 1}
      BY <1>1
    <2>2. CASE c >= 2
      <3>1. Wrong(r, v, h) \/ RunsShort(v, h)
        BY <2>2, StaysWrong DEF Cursor
      <3>2. ~(d < 2)
        BY <2>1, <2>2
      <3> QED
        BY <3>1, <3>2 DEF Cursor
    <2>3. CASE c < 2 /\ Len(g) < k
      <3>1. InHead(w, g, c)
        BY <2>3 DEF Cursor
      <3>2. Len(V) = Len(A) - Len(g) /\ \A i \in 1 .. Len(V) : V[i] = A[Len(g) + i]
        BY <2>3, <3>1, VectorsContinue
      <3>3. Len(A) >= k
        BY <1>1
      <3> HIDE DEF A, V, k, o
      <3>4. n >= 1 /\ Len(h) <= Len(A) /\ Len(h) >= 1
        BY <1>1, <1>3, <2>1, <2>3, <3>2, <3>3 DEF V
      <3>5. w.all_bytes_have_send_ = Len(g) /\ o = k - Len(g) /\ (c = 0 <=> g = <<>>)
            /\ (w.iv_count_ = 2 => w.iov1 = [base |-> 0, len |-> Pages[w.file_address_].st_size])
        BY <3>1 DEF InHead, k, o
      <3>6. Len(h) <= IntMax => have = Len(h)
        <4> SUFFICES ASSUME Len(h) <= IntMax PROVE have = Len(h)
          OBVIOUS
        <4>1. Len(g) + n \in Ints /\ Len(g) + n = Len(h)
          BY <1>1, <1>3 DEF Ints
        <4> QED
          BY <1>4, <3>5, <4>1, Int32Fits
      <3>7. ~Overflows(r) => h = SubSeq(A, 1, Len(h))
        <4> SUFFICES ASSUME ~Overflows(r) PROVE h = SubSeq(A, 1, Len(h))
          OBVIOUS
        <4>1. g = SubSeq(A, 1, Len(g))
          BY <2>3 DEF Cursor, A
        <4>2. \A i \in 1 .. n : h[Len(g) + i] = A[Len(g) + i]
          <5> SUFFICES ASSUME NEW i \in 1 .. n PROVE h[Len(g) + i] = A[Len(g) + i]
            OBVIOUS
          <5>1. i \in 1 .. Len(V)
            BY <1>3
          <5> QED
            BY <3>2, <5>1 DEF V
        <4> QED
          BY <1>1, <1>3, <3>4, <4>1, <4>2, BeginningGrows
      <3>8. CASE Len(h) < k
        <4>1. d = c + 1 /\ have = Len(h)
          BY <1>1, <1>3, <2>1, <3>4, <3>6, <3>8 DEF k
        <4>2. CASE c = 0
          <5>1. Len(g) = 0 /\ ~(have < 0 \/ have >= o) /\ o = k
            BY <1>3, <2>1, <3>5, <3>8, <4>1, <4>2
          <5>2. /\ v.iov0 = [base |-> Len(h), len |-> k - Len(h)]
                /\ v.iov1 = w.iov1
            BY <1>6, <4>1, <5>1
          <5>3. InHead(v, h, d)
            <6>1. d = 1 /\ h # <<>>
              BY <3>4, <4>1, <4>2
            <6> QED
              BY <1>6, <3>5, <4>1, <5>2, <6>1 DEF InHead
          <5>4. d < 2 /\ ~(Len(h) >= v.write_index_) /\ ~(d >= 2)
            BY <1>3, <1>6, <2>1, <3>8, <4>1, <4>2
          <5> QED
            BY <3>4, <3>7, <5>3, <5>4 DEF Cursor, A
        <4>3. CASE c = 1
          <5>1. v.iov0.len >= 0 /\ Len(h) + v.iov0.len < k
            <6>1. Len(g) >= 1
              BY <1>3, <3>5, <4>3
            <6>2. CASE have < 0 \/ have >= o
              <7>1. v.iov0.len = 0
                BY <1>6, <6>2
              <7> QED
                BY <1>3, <2>1, <3>8, <7>1
            <6>3. CASE ~(have < 0 \/ have >= o)
              <7>1. v.iov0.len = o - have
                BY <1>6, <6>3
              <7> QED
                BY <1>3, <2>1, <3>5, <4>1, <6>1, <6>3, <7>1
            <6> QED
              BY <6>2, <6>3
          <5>2. RunsShort(v, h)
            BY <1>6, <4>1, <5>1 DEF RunsShort
          <5>3. ~(d < 2)
            BY <4>1, <4>3
          <5> QED
            BY <5>2, <5>3 DEF Cursor
        <4> QED
          BY <2>3, <4>2, <4>3
      <3>9. CASE ~(Len(h) < k)
        <4>1. d = c
          BY <3>9 DEF k
        <4>2. ~Overflows(r) => InFile(v, h)
          <5> SUFFICES ASSUME ~Overflows(r) PROVE InFile(v, h)
            OBVIOUS
          <5>1. have = Len(h)
            BY <1>1, <1>3, <3>4, <3>6
          <5>2. have >= o
            BY <1>3, <2>1, <3>5, <3>9, <5>1
          <5> QED
            BY <1>6, <5>1, <5>2 DEF InFile
        <4>3. ~(Len(h) < v.write_index_) /\ ~(d >= 2)
          BY <1>6, <2>3, <3>9, <4>1
        <4> QED
          BY <3>4, <3>7, <4>2, <4>3 DEF Cursor, A
      <3> QED
        BY <3>8, <3>9
    <2>4. CASE c < 2 /\ ~(Len(g) < k)
      <3>1. Len(g) >= k /\ Len(h) >= k /\ ~(Len(h) < k)
        BY <1>3, <2>1, <2>4
      <3>2. d = c
        BY <3>1
      <3>3. ~Overflows(r) =>
              InFile(v, h) /\ Len(h) <= Len(A) /\ h = SubSeq(A, 1, Len(h))
        <4> SUFFICES ASSUME ~Overflows(r)
                     PROVE  InFile(v, h) /\ Len(h) <= Len(A) /\ h = SubSeq(A, 1, Len(h))
          OBVIOUS
        <4>1. InFile(w, g) /\ Len(g) <= Len(A) /\ g = SubSeq(A, 1, Len(g))
          BY <2>4, <3>1 DEF Cursor
        <4>2. w.all_bytes_to_send_ = Len(A) - Len(g)
          <5>1. Len(A) - Len(g) \in Ints
            BY <1>1, <1>3, <4>1 DEF Ints
          <5> QED
            BY <5>1, Int32Fits
        <4>3. Len(V) = Len(A) - Len(g) /\ \A i \in 1 .. Len(V) : V[i] = A[Len(g) + i]
          BY <3>1, <4>1, <4>2, VectorsContinue
        <4> HIDE DEF A, V, k, o
        <4>4. Len(h) <= Len(A)
          BY <1>1, <1>3, <4>3 DEF V
        <4>5. \A i \in 1 .. n : h[Len(g) + i] = A[Len(g) + i]
          <5> SUFFICES ASSUME NEW i \in 1 .. n PROVE h[Len(g) + i] = A[Len(g) + i]
            OBVIOUS
          <5>1. i \in 1 .. Len(V)
            BY <1>3
          <5> QED
            BY <4>3, <5>1 DEF V
        <4>6. h = SubSeq(A, 1, Len(h))
          BY <1>1, <1>3, <4>1, <4>4, <4>5, BeginningGrows
        <4>7. w.all_bytes_have_send_ = Len(g) /\ o = 0
          BY <4>1 DEF InFile, o
        <4>8. have = Len(h)
          <5>1. Len(g) + n \in Ints /\ Len(g) + n = Len(h)
            BY <1>1, <1>3, <4>4 DEF Ints
          <5> QED
            BY <1>4, <4>7, <5>1, Int32Fits
        <4>9. have >= o
          BY <1>3, <4>7, <4>8
        <4> QED
          BY <1>6, <4>4, <4>6, <4>8, <4>9 DEF InFile
      <3> QED
        BY <1>6, <2>4, <3>1, <3>2, <3>3 DEF Cursor
    <2> QED
      BY <1>3, <2>1, <2>2, <2>3, <2>4
  <1> QED
    BY <1>7, <1>8, <1>9

\* A file that is sent is mapped.
LEMMA PreparedMapped ==
  ASSUME NEW r, NEW w, Prepared(r, w)
  PROVE  ~BadVector(w)
  BY ResponseWriterAssumption DEF Prepared, BadVector, Files

LEMMA TakenUnderway ==
  ASSUME NEW r, Sending(r), NEW n \in Takes
  PROVE  Underway(r)
  BY DEF Sending, Unsendable, Takes

LEMMA WritevMoves ==
  ASSUME IndInv, NEW r \in Requests, Sending(r), got \in Seq(OutByte), cuts \in Nat,
         NEW n \in Takes
  PROVE  \E h \in Seq(OutByte), v \in Writer, d \in Nat :
           /\ h = got \o SubSeq(Vectors(wr), 1, n)
           /\ v = Sent(wr, n)
           /\ d = IF n > 0 /\ Len(h) < v.write_index_ THEN cuts + 1 ELSE cuts
           /\ n \in Nat /\ v.write_index_ = wr.write_index_
           /\ Moves(r, wr, got, cuts, n, v, h, d)
  <1>1. wr \in Writer
    BY DEF IndInv, WriteInv
  <1>2. /\ Prepared(r, wr) /\ Cursor(r, wr, got, cuts)
        /\ wr.all_bytes_to_send_ = Int32(Len(Answer(r)) - Len(got))
        /\ got = <<>> \/ wr.all_bytes_to_send_ > 0
    BY TakenUnderway DEF Underway
  <1>3. Vectors(wr) \in Seq(OutByte)
    <2>1. wr.write_buffers_ \in Titles /\ (wr.iv_count_ = 2 => wr.file_address_ \in Files)
      BY <1>2, AnswerIs
    <2> QED
      BY <1>1, <2>1, VectorsAre
  <1>4. n \in 0 .. Len(Vectors(wr)) /\ (Len(Vectors(wr)) > 0 => n >= 1)
    BY <1>3, TakeIs
  <1>5. PICK h \in Seq(OutByte) : /\ h = got \o SubSeq(Vectors(wr), 1, n)
                                  /\ Extends(got, h, Vectors(wr), n)
    BY <1>3, <1>4, LongerIs DEF Longer, Extends
  <1>6. n \in Nat /\ n \in Int
    BY <1>4
  <1>7. PICK v \in Writer : /\ v = Sent(wr, n) /\ SentBy(wr, n, v)
                            /\ v.write_index_ = wr.write_index_
    <2>1. Sent(wr, n) \in Writer
      BY <1>1, <1>6, SentWrites
    <2>2. Sent(wr, n).write_index_ = wr.write_index_
      BY <1>1, <1>6, SentFields DEF After
    <2> QED
      BY <2>1, <2>2 DEF SentBy
  <1>8. PICK d \in Nat : /\ Counted(n, h, wr.write_index_, cuts, d)
                         /\ d = IF n > 0 /\ Len(h) < v.write_index_ THEN cuts + 1 ELSE cuts
    BY <1>7 DEF Counted
  <1>9. SentBy(wr, n, v) /\ Extends(got, h, Vectors(wr), n) /\ Counted(n, h, wr.write_index_, cuts, d)
    BY <1>5, <1>7, <1>8
  <1>10. Moves(r, wr, got, cuts, n, v, h, d)
    BY <1>1, <1>2, <1>4, <1>9 DEF Moves
  <1> QED
    BY <1>5, <1>6, <1>7, <1>8, <1>10

\* What is wrong or too short is not the answer.
LEMMA NotTheAnswer ==
  ASSUME NEW r \in Requests, NEW w \in Writer, NEW g \in Seq(OutByte), Prepared(r, w),
         Wrong(r, w, g) \/ RunsShort(w, g)
  PROVE  g # Answer(r)
  <1>1. Len(Answer(r)) \in Nat /\ w.write_index_ <= Len(Answer(r))
        /\ w.write_index_ \in Nat
    BY AnswerIs
  <1>2. CASE Wrong(r, w, g)
    BY <1>2 DEF Wrong
  <1>3. CASE RunsShort(w, g)
    <2>1. w.iov0.len \in Int
      BY DEF Writer, Vec
    <2>2. Len(g) < w.write_index_
      BY <1>1, <1>3, <2>1 DEF RunsShort
    <2> QED
      BY <1>1, <2>2
  <1> QED
    BY <1>2, <1>3

LEMMA WritevConn ==
  ASSUME IndInv, ConnInv, Writev
  PROVE  ConnInv'
  <1>1. at \in {"write", "more"}
    BY DEF Writev
  <1>2. PICK n \in Takes : WriteSome(n) \/ WriteLast(n) \/ WriteClose(n)
    BY DEF Writev
  <1>3. PICK r \in Requests : want = r /\ Phase(r)
    BY <1>1, HasRequest
  <1>4. Sending(r) /\ got \in Seq(OutByte) /\ cuts \in Nat
    BY <1>1, <1>3 DEF Phase, ConnInv
  <1>5. PICK h \in Seq(OutByte), v \in Writer, d \in Nat :
           /\ h = got \o SubSeq(Vectors(wr), 1, n)
           /\ v = Sent(wr, n)
           /\ d = IF n > 0 /\ Len(h) < v.write_index_ THEN cuts + 1 ELSE cuts
           /\ n \in Nat /\ Moves(r, wr, got, cuts, n, v, h, d)
    BY <1>4, WritevMoves
  <1>6. h \in Seq(OutByte) /\ v \in Writer /\ d \in Nat
    OBVIOUS
  <1>7. /\ Prepared(r, v) /\ Cursor(r, v, h, d)
        /\ v.all_bytes_to_send_ = Int32(Len(Answer(r)) - Len(h))
    BY <1>5, CursorMoves
  <1>8. /\ h \in Seq(OutByte) /\ v \in Writer /\ d \in Nat
        /\ Prepared(r, v) /\ Cursor(r, v, h, d)
        /\ v.all_bytes_to_send_ = Int32(Len(Answer(r)) - Len(h))
    BY <1>6, <1>7
  <1>9. Decided(r)
    BY <1>4 DEF Sending
  <1>10. CASE WriteSome(n)
    <2>1. /\ v.all_bytes_to_send_ > 0 /\ wr' = v /\ got' = h /\ cuts' = d /\ at' = "more"
          /\ UNCHANGED <<rd, arrived, want, unsent>>
      BY <1>5, <1>10 DEF WriteSome, parser
    <2>2. Decided(r)'
      BY <1>9, <2>1 DEF Decided, Silent
    <2>3. Sending(r)'
      BY <1>8, <2>1, <2>2 DEF Sending, Underway
    <2>4. Phase(r)'
      BY <2>1, <2>3 DEF Phase
    <2> QED
      BY <1>3, <1>8, <2>1, <2>4, PhaseNext
  <1>11. CASE WriteLast(n)
    <2>1. /\ rd.socket_linger_opt_ /\ got' = h /\ HttpClear(Unmap(v))
          /\ at' = "watched" /\ interest' = "in"
          /\ UNCHANGED <<arrived, want, unsent, cuts>>
      BY <1>5, <1>11 DEF WriteLast, Watch
    <2>2. Silent
      BY <1>9, <2>1 DEF Decided, Keeps
    <2>3. Untouched'
      <3>1. Unmap(v) \in Writer
        BY <1>8, UnmapWrites
      <3> QED
        BY <2>1, <3>1, ClearedIs
    <2>4. cuts >= 2 => h # Answer(r)
      <3> SUFFICES ASSUME cuts >= 2 PROVE h # Answer(r)
        OBVIOUS
      <3>1. d >= 2
        BY <1>4, <1>5
      <3> QED
        BY <1>8, <3>1, NotTheAnswer DEF Cursor
    <2>5. Told(r)'
      BY <2>1, <2>2, <2>3, <2>4 DEF Told, Silent
    <2>6. Phase(r)'
      BY <2>1, <2>5 DEF Phase
    <2> QED
      BY <1>3, <1>4, <1>8, <2>1, <2>6, PhaseNext
  <1>12. CASE WriteClose(n)
    <2>1. /\ ~rd.socket_linger_opt_ /\ got' = h /\ at' = "done"
          /\ UNCHANGED <<want, cuts>>
      BY <1>5, <1>12 DEF WriteClose
    <2>2. ~Keeps(r)
      BY <1>9, <2>1 DEF Decided
    <2>3. Phase(r)'
      BY <2>1, <2>2 DEF Phase
    <2> QED
      BY <1>3, <1>4, <1>8, <2>1, <2>3, PhaseNext
  <1> QED
    BY <1>2, <1>10, <1>11, <1>12

----------------------------------------------------------------------------
(* The invariant.                                                          *)

LEMMA ConnInit == Init => ConnInv
  <1> SUFFICES ASSUME Init PROVE ConnInv
    OBVIOUS
  <1>1. want = Closed /\ got = <<>> /\ cuts = 0 /\ arrived = <<>> /\ unsent = <<>>
        /\ got \in Seq(OutByte) /\ cuts \in Nat
    BY DEF Init
  <1>2. NoRequestInv
    BY <1>1, HttpConnAssumption DEF NoRequestInv, Silent
  <1> QED
    BY <1>1, <1>2, HttpConnAssumption DEF ConnInv

LEMMA StutterConn ==
  ASSUME ConnInv, UNCHANGED vars
  PROVE  ConnInv'
  BY DEF vars, parser, writer, client, ConnInv, NoRequestInv, Phase, Asking, Position,
         AtRequestLine, AtHeader, AtContent, Requested, Answering, Decided, StatusFits,
         Sending, Underway, Unsendable, BadVector, Told, Untouched, Silent, Before, HeardText

LEMMA ConnStep ==
  ASSUME IndInv, ConnInv, [Next]_vars
  PROVE  ConnInv'
  <1>1. CASE Client
    <2>1. CASE HangUp
      BY <2>1, Overs, OverConn DEF HangUp
    <2> QED
      BY <1>1, <2>1, ConnectConn, AskConn, DeliverConn, SatisfiedConn DEF Client
  <1>2. CASE ReadFull \/ RequestCrash \/ Drop \/ WriteDone \/ WriteError
    BY <1>2, Overs, OverConn DEF ReadFull, Drop, WriteDone, WriteError
  <1>3. CASE Server
    BY <1>2, <1>3, ReadOnceConn, ProcessReadConn, RequestConn, ReplyConn,
       NothingToSendConn, WriteBeginConn, WritevConn, WouldBlockConn DEF Server
  <1>4. CASE Exhausted \/ UNCHANGED vars
    BY <1>4, StutterConn DEF Exhausted
  <1> QED
    BY <1>1, <1>3, <1>4 DEF Next

\* At every place of the slot, what was read and what the client has still to send are
\* its request, and what it got with what the slot holds is the answer: the inductive
\* invariant of the exchange (http_conn.cpp:84-385, 530-694).
THEOREM ConnInvariance == Spec => []ConnInv
<1>1. IndInv /\ ConnInv /\ [Next]_vars => ConnInv'
  BY ConnStep
<1> QED
  BY <1>1, ConnInit, Invariance, PTL DEF Spec

\* However a request is cut by the network, and whatever requests and connections used
\* the slot before, at a login the read buffer holds its request and nothing else, and
\* a login that has a body is checked with it, whole (http_conn.cpp:44-79, 543-553,
\* 578-589).
THEOREM BodiesAreOwn == Spec => []OwnBody
<1>1. IndInv /\ ConnInv => OwnBody
  <2> SUFFICES ASSUME IndInv, ConnInv, at = "request" PROVE OwnBody
    BY DEF OwnBody
  <2>1. PICK r \in Requests : want = r /\ Phase(r)
    BY HasRequest
  <2>2. Requested(r)
    BY <2>1 DEF Phase
  <2> QED
    BY <2>1, <2>2 DEF Requested, OwnBody
<1> QED
  BY <1>1, ConnInvariance, Invariance, PTL

----------------------------------------------------------------------------
(* What the client is shown: the steps of Exchange.                        *)

LEMMA GarbledAsking ==
  ASSUME NEW r \in Requests
  PROVE  /\ want = r => (Garbled <=> cuts >= 2 \/ Overflows(r))
         /\ want' = r => (Garbled' <=> cuts' >= 2 \/ Overflows(r))
  BY DEF Garbled, Overflows, Understood

LEMMA GarbledAtRest ==
  /\ want \in {Idle, Closed} => (Garbled <=> cuts >= 2)
  /\ want' \in {Idle, Closed} => (Garbled' <=> cuts' >= 2)
  BY HttpConnAssumption DEF Garbled

LEMMA Unseen ==
  ASSUME UNCHANGED <<want, got>>, Garbled' <=> Garbled
  PROVE  [Promise!Next]_(Promise!vars)
  BY Zenon DEF Promise!vars

\* The connection ends, or the promise does.
LEMMA EndShown ==
  ASSUME want # Closed, Garbled' \/ (want' = Closed /\ got' = <<>>)
  PROVE  [Promise!Next]_(Promise!vars)
  <1>1. CASE Garbled
    BY <1>1, Zenon DEF Promise!vars
  <1>2. CASE ~Garbled
    <2>1. Promise!Close
      BY <1>2 DEF Promise!Close
    <2> QED
      BY <2>1 DEF Promise!Next
  <1> QED
    BY <1>1, <1>2

LEMMA ConnectShown ==
  ASSUME IndInv, ConnInv, Connect
  PROVE  [Promise!Next]_(Promise!vars)
  <1>1. want = Closed /\ want' = Idle /\ UNCHANGED <<got, cuts>>
    BY DEF Connect, IndInv, SlotInv
  <1>2. cuts = 0 /\ ~(cuts >= 2)
    BY <1>1 DEF ConnInv, NoRequestInv
  <1>3. ~Garbled /\ ~Garbled'
    BY <1>1, <1>2, GarbledAtRest
  <1>4. Promise!Connect
    BY <1>1, <1>3 DEF Promise!Connect
  <1> QED
    BY <1>4 DEF Promise!Next

LEMMA AskShown ==
  ASSUME ConnInv, NEW r \in Requests, Ask(r)
  PROVE  [Promise!Next]_(Promise!vars)
  <1>1. want = Idle /\ want' = r /\ UNCHANGED <<got, cuts>> /\ Idle # Closed
    BY HttpConnAssumption DEF Ask
  <1>2. ~(cuts >= 2)
    BY <1>1 DEF ConnInv, NoRequestInv, Before
  <1>3. ~Garbled
    BY <1>1, <1>2, GarbledAtRest
  <1>4. CASE Overflows(r)
    BY <1>1, <1>4, GarbledAsking, EndShown
  <1>5. CASE ~Overflows(r)
    <2>1. ~Garbled'
      BY <1>1, <1>2, <1>5, GarbledAsking
    <2>2. Promise!Ask(r)
      BY <1>1, <1>3, <2>1 DEF Promise!Ask
    <2> QED
      BY <2>2 DEF Promise!Next
  <1> QED
    BY <1>4, <1>5

LEMMA SatisfiedShown ==
  ASSUME ConnInv, ConnInv', Satisfied
  PROVE  [Promise!Next]_(Promise!vars)
  <1>1. PICK r \in Requests : want = r
    BY DEF Satisfied
  <1>2. /\ got = Answer(r) /\ got # <<>> /\ Keeps(r)
        /\ want' = Idle /\ got' = <<>> /\ cuts' = cuts
    BY <1>1 DEF Satisfied
  <1>3. ~(cuts' >= 2) /\ ~(cuts >= 2)
    BY <1>2 DEF ConnInv, NoRequestInv, Before
  <1>4. ~Garbled'
    BY <1>2, <1>3, GarbledAtRest
  <1>5. CASE Overflows(r)
    <2>1. Garbled
      BY <1>1, <1>5, GarbledAsking
    <2>2. Promise!Connect
      BY <1>2, <1>4, <2>1 DEF Promise!Connect
    <2> QED
      BY <2>2 DEF Promise!Next
  <1>6. CASE ~Overflows(r)
    <2>1. ~Garbled
      BY <1>1, <1>3, <1>6, GarbledAsking
    <2>2. Promise!Satisfied
      BY <1>1, <1>2, <1>4, <2>1 DEF Promise!Satisfied
    <2> QED
      BY <2>2 DEF Promise!Next
  <1> QED
    BY <1>5, <1>6

LEMMA OverShown ==
  ASSUME IndInv, at # "closed", Over
  PROVE  [Promise!Next]_(Promise!vars)
  <1>1. want # Closed
    BY DEF IndInv, SlotInv
  <1>2. want' = Closed /\ got' = <<>>
    BY DEF Over
  <1> QED
    BY <1>1, <1>2, EndShown

\* Where nothing is sent, nothing is seen.
LEMMA QuietUnseen ==
  ASSUME UNCHANGED <<want, got, cuts>>
  PROVE  [Promise!Next]_(Promise!vars)
  <1>1. Garbled' <=> Garbled
    BY DEF Garbled, Overflows, Understood
  <1> QED
    BY <1>1, Unseen

LEMMA ReplyUnseen ==
  ASSUME IndInv, ConnInv, Reply
  PROVE  [Promise!Next]_(Promise!vars)
  <1>1. at = "answer" /\ UNCHANGED <<want, got>> /\ cuts' = 0
    BY DEF Reply, client
  <1>2. PICK r \in Requests : want = r /\ Phase(r)
    BY <1>1, HasRequest
  <1>3. ~(cuts >= 2) /\ ~(cuts' >= 2)
    BY <1>1, <1>2 DEF Phase, Answering, Before, ConnInv
  <1>4. Garbled' <=> Garbled
    BY <1>1, <1>2, <1>3, GarbledAsking
  <1> QED
    BY <1>1, <1>4, Unseen

\* The client gets more of the answer.
LEMMA GrowthShown ==
  ASSUME NEW r \in Requests, NEW n \in Nat, want = r, want' = r, ~Garbled, ~Garbled',
         got \in Seq(OutByte), got' \in Seq(OutByte), Len(got') = Len(got) + n,
         Len(got') <= Len(Answer(r)), got' = SubSeq(Answer(r), 1, Len(got')),
         n = 0 => got' = got
  PROVE  [Promise!Next]_(Promise!vars)
  <1>1. CASE n = 0
    BY <1>1, Unseen
  <1>2. CASE n # 0
    <2> PICK m : m = Len(got')
      OBVIOUS
    <2>1. m \in Len(got) + 1 .. Len(Answer(r))
      BY <1>2
    <2>2. Promise!Send
      BY <2>1 DEF Promise!Send
    <2> QED
      BY <2>2 DEF Promise!Next
  <1> QED
    BY <1>1, <1>2

LEMMA WritevShown ==
  ASSUME IndInv, ConnInv, Writev
  PROVE  [Promise!Next]_(Promise!vars)
  <1>1. at \in {"write", "more"}
    BY DEF Writev
  <1>2. PICK n \in Takes : WriteSome(n) \/ WriteLast(n) \/ WriteClose(n)
    BY DEF Writev
  <1>3. PICK r \in Requests : want = r /\ Phase(r)
    BY <1>1, HasRequest
  <1>4. Sending(r) /\ got \in Seq(OutByte) /\ cuts \in Nat
    BY <1>1, <1>3 DEF Phase, ConnInv
  <1>5. PICK h \in Seq(OutByte), v \in Writer, d \in Nat :
           /\ h = got \o SubSeq(Vectors(wr), 1, n)
           /\ v = Sent(wr, n)
           /\ d = IF n > 0 /\ Len(h) < v.write_index_ THEN cuts + 1 ELSE cuts
           /\ n \in Nat /\ Moves(r, wr, got, cuts, n, v, h, d)
    BY <1>4, WritevMoves
  <1>6. /\ Prepared(r, v) /\ Cursor(r, v, h, d)
        /\ v.all_bytes_to_send_ = Int32(Len(Answer(r)) - Len(h))
    BY <1>5, CursorMoves
  <1>7. want' = r /\ got' = h /\ want # Closed
    BY <1>2, <1>3, <1>5, HttpConnAssumption DEF WriteSome, WriteLast, WriteClose
  <1>8. \/ cuts' = d
        \/ cuts' = cuts /\ v.all_bytes_to_send_ <= 0
    BY <1>2, <1>5 DEF WriteSome, WriteLast, WriteClose
  <1>9. cuts' \in Nat /\ cuts' >= cuts /\ d \in Nat /\ d >= cuts
    BY <1>4, <1>5, <1>8
  <1>10. CASE Garbled'
    BY <1>7, <1>10, EndShown
  <1>11. CASE ~Garbled'
    <2>1. cuts' < 2 /\ ~Overflows(r) /\ cuts < 2
      <3>1. ~(cuts' >= 2) /\ ~Overflows(r)
        BY <1>7, <1>11, GarbledAsking
      <3> QED
        BY <1>4, <1>9, <3>1
    <2>2. ~Garbled
      BY <1>3, <1>4, <2>1, GarbledAsking
    <2>3. d < 2
      <3> SUFFICES ASSUME ~(d < 2) PROVE FALSE
        OBVIOUS
      <3>1. v.all_bytes_to_send_ <= 0 /\ d # cuts
        BY <1>8, <1>9, <2>1
      <3>2. Len(h) < v.write_index_
        BY <1>5, <3>1
      <3>3. Len(Answer(r)) \in Nat /\ v.write_index_ <= Len(Answer(r))
            /\ v.write_index_ \in Nat /\ Len(Answer(r)) <= IntMax /\ IntMax \in Nat
        BY <1>6, <2>1, AnswerIs
      <3>4. PICK x \in Int : x = Len(Answer(r)) - Len(h)
        <4>1. Len(h) \in Nat
          OBVIOUS
        <4>2. Len(Answer(r)) - Len(h) \in Int
          BY <3>3, <4>1
        <4> QED
          BY <4>2
      <3>5. x \in Ints /\ x > 0
        <4>1. Len(h) \in Nat
          OBVIOUS
        <4> QED
          BY <3>2, <3>3, <3>4, <4>1 DEF Ints
      <3>6. Int32(x) = x
        BY <3>5, Int32Fits
      <3> QED
        BY <1>6, <3>1, <3>4, <3>5, <3>6
    <2>4. Len(h) <= Len(Answer(r)) /\ h = SubSeq(Answer(r), 1, Len(h))
      BY <1>6, <2>1, <2>3 DEF Cursor
    <2>5. Extends(got, h, Vectors(wr), n)
      BY <1>5 DEF Moves
    <2>6. Len(h) = Len(got) + n
      BY <2>5 DEF Extends
    <2>7. n = 0 => h = got
      <3> SUFFICES ASSUME n = 0 PROVE h = got
        OBVIOUS
      <3>1. Len(h) = Len(got) /\ \A i \in 1 .. Len(got) : h[i] = got[i]
        BY <1>4, <2>5, <2>6 DEF Extends
      <3> QED
        BY <1>4, <3>1, SeqEqual
    <2> QED
      BY <1>3, <1>4, <1>5, <1>7, <1>11, <2>2, <2>4, <2>6, <2>7, GrowthShown
  <1> QED
    BY <1>10, <1>11

LEMMA StepShown ==
  ASSUME IndInv, ConnInv, ConnInv', [Next]_vars
  PROVE  [Promise!Next]_(Promise!vars)
  <1>1. CASE Connect
    BY <1>1, ConnectShown
  <1>2. CASE \E r \in Requests : Ask(r)
    BY <1>2, AskShown
  <1>3. CASE Satisfied
    BY <1>3, SatisfiedShown
  <1>4. CASE HangUp \/ ReadFull \/ RequestCrash \/ Drop \/ WriteDone \/ WriteError
    <2>1. at # "closed"
      BY <1>4 DEF HangUp, ReadFull, Readable, RequestCrash, Drop, WriteDone, WriteError
    <2>2. Over
      BY <1>4, Overs DEF HangUp, ReadFull, Drop, WriteDone, WriteError
    <2> QED
      BY <2>1, <2>2, OverShown
  <1>5. CASE Deliver \/ ReadOnce \/ ProcessRead \/ Request \/ NothingToSend
             \/ WriteBegin \/ WouldBlock
    BY <1>5, QuietUnseen DEF Deliver, ReadOnce, ProcessRead, Request, NothingToSend,
       WriteBegin, WouldBlock, client
  <1>6. CASE Reply
    BY <1>6, ReplyUnseen
  <1>7. CASE Writev
    BY <1>7, WritevShown
  <1>8. CASE Exhausted \/ UNCHANGED vars
    BY <1>8, QuietUnseen DEF Exhausted, vars, client
  <1> QED
    BY <1>1, <1>2, <1>3, <1>4, <1>5, <1>6, <1>7, <1>8 DEF Next, Client, Server

\* However a request is cut by the network and a response by writev, and whatever
\* connection used the slot before, a client gets the answer to its own request,
\* byte by byte from the start, and nothing else (http_conn.cpp:137-205, 252-385), but
\* for a header that left in more than two pieces and a length beyond an int (Garbled).
THEOREM SlotKeepsExchange == Spec => ImplementsExchange
<1>1. Init => Promise!Init
  <2> SUFFICES ASSUME Init PROVE Promise!Init
    OBVIOUS
  <2>1. want = Closed /\ got = <<>>
    BY DEF Init
  <2> QED
    BY <2>1, Zenon DEF Promise!Init
<1>2. IndInv /\ ConnInv /\ ConnInv' /\ [Next]_vars => [Promise!Next]_(Promise!vars)
  BY StepShown
<1> QED
  BY <1>1, <1>2, ConnInvariance, Invariance, PTL DEF Spec, ImplementsExchange, Promise!Spec
=============================================================================
