---------------------------- MODULE HttpConnProofs ----------------------------
(***************************************************************************)
(* Proofs about a slot for any requests, pages and sizes of buffers: its   *)
(* indices stay in the buffer, and it releases what it mapped.             *)
(***************************************************************************)
EXTENDS HttpConn, SequenceTheorems, WellFoundedInduction, TLAPS

\* CR and LF are strings, which the provers need not know.
Byte == STRING \cup {CR, LF}

States == {"CHECK_STATE_REQUESTLINE", "CHECK_STATE_HEADER", "CHECK_STATE_CONTENT"}
LineStatuses == {"LINE_OK", "LINE_BAD", "LINE_OPEN"}

Reader ==
    [read_buffers_ : Seq(Byte), checked_idx_ : Nat, start_line_ : Nat,
     check_state_ : States, socket_linger_opt_ : BOOLEAN,
     url_ : DOMAIN Pages \cup {""}, cgi_ : {0, 1}, content_length_ : Nat,
     heard_string_ : Int]

Ints == (-IntMax - 1) .. IntMax

Vec == [base : Int, len : Int]
Titles == {"404", "403", "200"} \X {"keep-alive", "close"}

Writer ==
    [write_buffers_ : Titles \cup {NULL}, write_index_ : Nat,
     all_bytes_have_send_ : Ints, all_bytes_to_send_ : Ints,
     iov0 : Vec, iov1 : Vec, iv_count_ : Nat,
     file_address_ : Files \cup {NULL, MAP_FAILED},
     file_stat_ : DOMAIN Pages \cup {NULL}]

\* The page is known once the request line was read.
UrlKnown ==
    /\ rd.check_state_ # "CHECK_STATE_REQUESTLINE" => rd.url_ \in DOMAIN Pages
    /\ at = "request" => rd.url_ \in DOMAIN Pages

ReadInv ==
    /\ rd \in Reader
    /\ arrived \in Seq(Byte)
    /\ line_status \in LineStatuses
    /\ IndicesInBuffer
    /\ UrlKnown

Ready(s, w) ==
    /\ s \in {"BAD_REQUEST", "NO_RESOURCE", "FORBIDDEN_REQUEST", "FILE_REQUEST"}
    /\ s = "FILE_REQUEST" => w.file_stat_ \in DOMAIN Pages

WriteInv ==
    /\ wr \in Writer
    /\ at = "answer" => Ready(status, wr)

SlotInv ==
    /\ want \in Requests \cup {Idle, Closed} /\ (want = Closed <=> at = "closed")
    /\ unsent \in Seq(Byte)
    /\ interest \in {"in", "out", "off"} /\ (interest # "off" <=> at = "watched")

\* where a response with a file is on its way
Holding ==
    \/ at = "answer" /\ status = "FILE_REQUEST"
    \/ at = "watched" /\ interest = "out"
    \/ at \in {"write", "more"}

\* What is mapped is released: by the slot that holds it, unless a connection was
\* closed too early.
MapInv ==
    /\ mapped \in [Files -> Nat]
    /\ wr.file_address_ \in Files => mapped[wr.file_address_] > 0
    /\ MappingSound
    /\ ~abandoned /\ wr.file_address_ \in Files => Holding

IndInv == ReadInv /\ WriteInv /\ SlotInv /\ MapInv

LEMMA TypeFollows == IndInv => TypeOK
  BY DEF IndInv, ReadInv, WriteInv, SlotInv, MapInv, TypeOK, Reader, Writer, Ints,
         LineStatuses, States

----------------------------------------------------------------------------
\* A set of naturals that is not empty has a least element.
LEMMA LeastNat ==
  ASSUME NEW T, T \subseteq Nat, T # {}
  PROVE  Min(T) \in T /\ \A y \in T : Min(T) <= y
  <1>1. PICK x \in T : \A y \in T : <<y, x>> \notin OpToRel(<, Nat)
    BY WFMin, NatLessThanWellFounded, Zenon
  <1>2. \A y \in T : ~ (y < x)
    BY <1>1, Zenon DEF OpToRel
  <1>3. \A y \in T : x <= y
    BY <1>2
  <1> QED
    BY <1>3 DEF Min

\* ParseLine leaves checked_idx_ in what was received, at or behind its place.
LEMMA ParseLineInBuffer ==
  ASSUME ReadInv
  PROVE  /\ ParseLine[1] \in LineStatuses
         /\ ParseLine[2] \in rd.checked_idx_ .. read_index_
  <1> DEFINE b == rd.read_buffers_
             c == rd.checked_idx_
             ends == {i \in c + 1 .. Len(b) : b[i] \in {CR, LF}}
             k == Min(ends)
  <1>1. c \in Nat /\ Len(b) \in Nat /\ c <= Len(b) /\ read_index_ = Len(b)
    <2>1. rd \in Reader /\ c \in 0 .. Len(b) /\ read_index_ = Len(b)
      BY DEF ReadInv, IndicesInBuffer, read_index_
    <2>2. b \in Seq(Byte) /\ c \in Nat
      BY <2>1 DEF Reader
    <2>3. Len(b) \in Nat
      BY <2>2
    <2> QED
      BY <2>1, <2>2, <2>3
  <1>2. CASE ends = {}
    <2>1. ParseLine = <<"LINE_OPEN", Len(b)>>
      BY <1>2 DEF ParseLine
    <2> QED
      BY <1>1, <2>1 DEF LineStatuses
  <1>3. CASE ends # {}
    <2>1. ends \subseteq Nat
      BY <1>1
    <2> HIDE DEF ends
    <2>2. k \in ends
      BY <1>3, <2>1, LeastNat
    <2> HIDE DEF k
    <2>3. k \in Nat /\ c + 1 <= k /\ k <= Len(b)
      BY <1>1, <2>2 DEF ends
    <2>4. \/ ParseLine = <<"LINE_OPEN", k - 1>>
          \/ k # Len(b) /\ ParseLine = <<"LINE_OK", k + 1>>
          \/ ParseLine = <<"LINE_OK", k>>
          \/ ParseLine = <<"LINE_BAD", k - 1>>
      BY <1>3, Zenon DEF ParseLine, ends, k
    <2> QED
      BY <1>1, <2>3, <2>4 DEF LineStatuses
  <1> QED
    BY <1>2, <1>3

\* The parser's part of a step: the fields keep their types, and the page of a
\* request that is past its first line is known.
Parses ==
    /\ rd' \in Reader
    /\ line_status' \in LineStatuses
    /\ IndicesInBuffer'
    /\ rd'.check_state_ # "CHECK_STATE_REQUESTLINE" => rd'.url_ \in DOMAIN Pages

\* A turn moves checked_idx_ within the buffer, and start_line_ to it or not at all.
LEMMA MovesInBuffer ==
  ASSUME ReadInv, rd' \in Reader, rd'.read_buffers_ = rd.read_buffers_,
         rd'.checked_idx_ \in rd.checked_idx_ .. read_index_,
         rd'.start_line_ \in {rd.start_line_, rd'.checked_idx_}
  PROVE  IndicesInBuffer'
  <1>1. /\ rd.start_line_ \in 0 .. rd.checked_idx_
        /\ rd.checked_idx_ \in 0 .. read_index_ /\ read_index_ <= kREAD_BUFFER_SIZE
    BY DEF ReadInv, IndicesInBuffer
  <1>2. /\ rd \in Reader /\ rd.read_buffers_ \in Seq(Byte)
        /\ rd.checked_idx_ \in Nat /\ rd.start_line_ \in Nat
        /\ rd'.checked_idx_ \in Nat /\ rd'.start_line_ \in Nat
    BY DEF ReadInv, Reader
  <1>3. read_index_ \in Nat /\ read_index_' = read_index_
    BY <1>2 DEF read_index_
  <1> QED
    BY <1>1, <1>2, <1>3 DEF IndicesInBuffer

LEMMA TurnParses ==
  ASSUME ReadInv, TurnMore \/ TurnRequest \/ BadRequestLine \/ NoLine
  PROVE  /\ Parses /\ arrived' = arrived
         /\ TurnRequest => rd'.url_ \in DOMAIN Pages
  <1> DEFINE p == ParseLine[2]
  <1>1. p \in rd.checked_idx_ .. read_index_ /\ ParseLine[1] \in LineStatuses
    BY ParseLineInBuffer
  <1> HIDE DEF p
  <1>2. /\ rd \in Reader
        /\ rd.checked_idx_ \in Nat /\ rd.start_line_ \in Nat
        /\ rd.read_buffers_ \in Seq(Byte) /\ read_index_ \in Nat
        /\ rd.checked_idx_ \in rd.checked_idx_ .. read_index_
    <2>1. rd \in Reader /\ rd.checked_idx_ \in 0 .. read_index_
      BY DEF ReadInv, IndicesInBuffer
    <2>2. /\ rd.checked_idx_ \in Nat /\ rd.start_line_ \in Nat
          /\ rd.read_buffers_ \in Seq(Byte)
      BY <2>1 DEF Reader
    <2>3. read_index_ \in Nat
      BY <2>2 DEF read_index_
    <2> QED
      BY <2>1, <2>2, <2>3
  <1>3. p \in Nat
    BY <1>1, <1>2
  <1>4. rd.check_state_ # "CHECK_STATE_REQUESTLINE" => rd.url_ \in DOMAIN Pages
    BY DEF ReadInv, UrlKnown
  <1>5. CASE RequestLineTurn
    <2>1. RequestLines[Text[1]] \in [cgi_ : {0, 1}, url_ : DOMAIN Pages]
      BY <1>5, HttpConnAssumption DEF RequestLineTurn
    <2>2. /\ rd' \in Reader /\ rd'.read_buffers_ = rd.read_buffers_
          /\ rd'.checked_idx_ = p /\ rd'.start_line_ = p
          /\ rd'.url_ \in DOMAIN Pages
      BY <1>2, <1>3, <1>5, <2>1 DEF RequestLineTurn, Advance, Reader, States, p
    <2>3. IndicesInBuffer'
      BY <1>1, <2>2, MovesInBuffer
    <2>4. ~TurnRequest
      BY <1>5 DEF RequestLineTurn, TurnRequest, HeaderEnds, ContentEnds, InContent
    <2> QED
      BY <1>5, <2>2, <2>3, <2>4 DEF RequestLineTurn, Parses, LineStatuses
  <1>6. CASE HeaderTurn
    <2>1. BodyLen \in Nat
      BY RequestParserAssumption
    <2>2. /\ rd' \in Reader /\ rd'.read_buffers_ = rd.read_buffers_
          /\ rd'.checked_idx_ = p /\ rd'.start_line_ = p /\ rd'.url_ = rd.url_
      BY <1>2, <1>3, <1>6, <2>1 DEF HeaderTurn, Advance, Reader, p
    <2>3. IndicesInBuffer'
      BY <1>1, <2>2, MovesInBuffer
    <2>4. rd.check_state_ = "CHECK_STATE_HEADER" /\ arrived' = arrived
          /\ line_status' \in LineStatuses
      BY <1>6 DEF HeaderTurn, LineStatuses
    <2> QED
      BY <1>4, <2>2, <2>3, <2>4 DEF Parses
  <1>7. CASE ContentFollows
    <2>2. /\ rd' \in Reader /\ rd'.read_buffers_ = rd.read_buffers_
          /\ rd'.checked_idx_ = p /\ rd'.start_line_ = p /\ rd'.url_ = rd.url_
      BY <1>2, <1>3, <1>7 DEF ContentFollows, Advance, Reader, States, p
    <2>3. IndicesInBuffer'
      BY <1>1, <2>2, MovesInBuffer
    <2>4. rd.check_state_ = "CHECK_STATE_HEADER" /\ arrived' = arrived
          /\ line_status' \in LineStatuses
      BY <1>7 DEF ContentFollows, LineStatuses
    <2> QED
      BY <1>4, <2>2, <2>3, <2>4 DEF Parses
  <1>8. CASE HeaderEnds
    <2>2. /\ rd' \in Reader /\ rd'.read_buffers_ = rd.read_buffers_
          /\ rd'.checked_idx_ = p /\ rd'.start_line_ = p /\ rd'.url_ = rd.url_
      BY <1>2, <1>3, <1>8 DEF HeaderEnds, Advance, Reader, p
    <2>3. IndicesInBuffer'
      BY <1>1, <2>2, MovesInBuffer
    <2>4. rd.check_state_ = "CHECK_STATE_HEADER" /\ arrived' = arrived
          /\ line_status' = line_status
      BY <1>8 DEF HeaderEnds
    <2> QED
      BY <1>4, <2>2, <2>3, <2>4 DEF Parses, ReadInv
  <1>9. ContentAt[1] = rd.start_line_ /\ ContentAt[2] \in rd.checked_idx_ .. read_index_
        /\ ContentAt[2] \in Nat
    BY <1>1, <1>2, <1>3 DEF ContentAt, p
  <1>10. CASE ContentTurn
    <2>2. /\ rd' \in Reader /\ rd'.read_buffers_ = rd.read_buffers_
          /\ rd'.checked_idx_ = ContentAt[2] /\ rd'.start_line_ = ContentAt[2]
          /\ rd'.url_ = rd.url_
      BY <1>2, <1>9, <1>10 DEF ContentTurn, Advance, Reader
    <2>3. IndicesInBuffer'
      BY <1>9, <2>2, MovesInBuffer
    <2>4. rd.check_state_ = "CHECK_STATE_CONTENT" /\ arrived' = arrived
          /\ line_status' \in LineStatuses
      BY <1>10 DEF ContentTurn, InContent, LineStatuses
    <2> QED
      BY <1>4, <2>2, <2>3, <2>4 DEF Parses
  <1>11. CASE ContentEnds
    <2>1. ContentAt[1] \in Int
      <3>1. ContentAt[1] = rd.start_line_
        <4>1. CASE TakesContent
          BY <4>1 DEF ContentAt
        <4>2. CASE ~TakesContent
          BY <4>2 DEF ContentAt
        <4> QED
          BY <4>1, <4>2
      <3> QED
        BY <1>2, <3>1
    <2>2. /\ rd' \in Reader /\ rd'.read_buffers_ = rd.read_buffers_
          /\ rd'.checked_idx_ = ContentAt[2] /\ rd'.start_line_ = ContentAt[2]
          /\ rd'.url_ = rd.url_
      BY <1>2, <1>9, <1>11, <2>1 DEF ContentEnds, Advance, Reader
    <2>3. IndicesInBuffer'
      BY <1>9, <2>2, MovesInBuffer
    <2>4. rd.check_state_ = "CHECK_STATE_CONTENT" /\ arrived' = arrived
          /\ line_status' = line_status
      BY <1>11 DEF ContentEnds, InContent
    <2> QED
      BY <1>4, <2>2, <2>3, <2>4 DEF Parses, ReadInv
  <1>12. CASE BadRequestLine
    <2>2. /\ rd' \in Reader /\ rd'.read_buffers_ = rd.read_buffers_
          /\ rd'.checked_idx_ = p /\ rd'.start_line_ = p /\ rd'.url_ = rd.url_
          /\ rd'.check_state_ = rd.check_state_
      BY <1>2, <1>3, <1>12 DEF BadRequestLine, Advance, Reader, p
    <2>3. IndicesInBuffer'
      BY <1>1, <2>2, MovesInBuffer
    <2>4. rd.check_state_ = "CHECK_STATE_REQUESTLINE" /\ arrived' = arrived
          /\ line_status' = line_status
      BY <1>12 DEF BadRequestLine
    <2>5. ~TurnRequest
      BY <2>4 DEF TurnRequest, HeaderEnds, ContentEnds, InContent
    <2> QED
      BY <2>2, <2>3, <2>4, <2>5 DEF Parses, ReadInv
  <1>13. CASE NoLine
    <2>2. /\ rd' \in Reader /\ rd'.read_buffers_ = rd.read_buffers_
          /\ rd'.checked_idx_ = p /\ rd'.start_line_ = rd.start_line_
          /\ rd'.url_ = rd.url_ /\ rd'.check_state_ = rd.check_state_
      BY <1>2, <1>3, <1>13 DEF NoLine, Reader, p
    <2>3. IndicesInBuffer'
      BY <1>1, <2>2, MovesInBuffer
    <2>4. arrived' = arrived /\ line_status' \in LineStatuses
      BY <1>1, <1>13 DEF NoLine
    <2>5. TurnRequest => rd.check_state_ # "CHECK_STATE_REQUESTLINE"
      BY DEF TurnRequest, HeaderEnds, ContentEnds, InContent
    <2> QED
      BY <1>4, <2>2, <2>3, <2>4, <2>5 DEF Parses
  <1> QED
    BY <1>5, <1>6, <1>7, <1>8, <1>10, <1>11, <1>12, <1>13 DEF TurnMore, TurnRequest

----------------------------------------------------------------------------
\* What the writer's fields become.

LEMMA Int32InInts ==
  ASSUME NEW n \in Int
  PROVE  Int32(n) \in Ints
  <1> DEFINE half == IntMax + 1
             m == (n + half) % (2 * half)
  <1>1. IntMax \in Nat
    BY ResponseWriterAssumption
  <1>2. half \in Nat /\ 2 * half \in Nat /\ 2 * half > 0 /\ n + half \in Int
    BY <1>1
  <1> HIDE DEF half
  <1>3. m \in 0 .. 2 * half - 1
    BY <1>2
  <1> HIDE DEF m
  <1>4. Int32(n) = m - half
    BY <1>1 DEF Int32, m, half
  <1> QED
    BY <1>1, <1>3, <1>4 DEF Ints, half

LEMMA SentWrites ==
  ASSUME NEW w \in Writer, NEW n \in Int
  PROVE  /\ Sent(w, n) \in Writer
         /\ Sent(w, n).file_address_ = w.file_address_
         /\ Sent(w, n).file_stat_ = w.file_stat_
  <1> DEFINE have == Int32(w.all_bytes_have_send_ + n)
             left == Int32(w.all_bytes_to_send_ - n)
             v    == [w EXCEPT !.all_bytes_have_send_ = have, !.all_bytes_to_send_ = left]
  <1>1. /\ IntMax \in Nat
        /\ w.all_bytes_have_send_ \in Ints /\ w.all_bytes_to_send_ \in Ints
    BY ResponseWriterAssumption DEF Writer
  <1>2. w.all_bytes_have_send_ + n \in Int /\ w.all_bytes_to_send_ - n \in Int
    BY <1>1 DEF Ints
  <1>3. have \in Ints /\ left \in Ints
    BY <1>2, Int32InInts
  <1>4. have \in Int /\ left \in Int
    BY <1>1, <1>3 DEF Ints
  <1> HIDE DEF have, left
  <1>5. v \in Writer /\ v.file_address_ = w.file_address_ /\ v.file_stat_ = w.file_stat_
        /\ v.iov0 = w.iov0 /\ v.iov1 = w.iov1 /\ v.iov0 \in Vec /\ v.iov1 \in Vec
        /\ w.write_index_ \in Nat
    BY <1>3 DEF Writer
  <1>6. Sent(w, n) = IF HeaderOut(w, have)
                     THEN [v EXCEPT !.iov0.len = 0,
                                    !.iov1 = [base |-> have - w.write_index_, len |-> left]]
                     ELSE [v EXCEPT !.iov0 = [base |-> have, len |-> w.iov0.len - have]]
    BY DEF Sent, have, left
  <1> HIDE DEF v
  <1>7. [base |-> have - w.write_index_, len |-> left] \in Vec
        /\ [base |-> have, len |-> w.iov0.len - have] \in Vec
        /\ [v.iov0 EXCEPT !.len = 0] \in Vec
    BY <1>4, <1>5 DEF Vec
  <1>8. CASE HeaderOut(w, have)
    BY <1>5, <1>6, <1>7, <1>8 DEF Writer
  <1>9. CASE ~HeaderOut(w, have)
    BY <1>5, <1>6, <1>7, <1>9 DEF Writer
  <1> QED
    BY <1>8, <1>9

LEMMA DoRequestWrites ==
  ASSUME NEW p \in DOMAIN Pages, NEW w \in Writer, NEW address \in MmapReturns(p)
  PROVE  LET d == DoRequest(p, w, address)
         IN  /\ Ready(d[1], d[2]) /\ d[2] \in Writer
             /\ d[1] # "FILE_REQUEST" => d[2].file_address_ = w.file_address_
             /\ d[1] = "FILE_REQUEST" =>
                  /\ d[2].file_stat_ = p
                  /\ \/ d[2].file_address_ = p /\ p \in Files
                     \/ d[2].file_address_ = MAP_FAILED
  <1> DEFINE s == [w EXCEPT !.file_stat_ = p]
             k == Pages[p].kind
  <1>1. k \in {"file", "directory", "secret", "missing"}
    BY ResponseWriterAssumption
  <1>2. s \in Writer /\ s.file_stat_ = p /\ s.file_address_ = w.file_address_
    BY DEF Writer
  <1> HIDE DEF s
  <1>3. CASE k = "missing"
    <2>1. DoRequest(p, w, address) = <<"NO_RESOURCE", w>>
      BY <1>3 DEF DoRequest
    <2> QED
      BY <2>1 DEF Ready
  <1>4. CASE k = "secret"
    <2>1. DoRequest(p, w, address) = <<"FORBIDDEN_REQUEST", s>>
      BY <1>4 DEF DoRequest, s
    <2> QED
      BY <1>2, <2>1 DEF Ready
  <1>5. CASE k = "directory"
    <2>1. DoRequest(p, w, address) = <<"BAD_REQUEST", s>>
      BY <1>5 DEF DoRequest, s
    <2> QED
      BY <1>2, <2>1 DEF Ready
  <1>6. CASE k = "file"
    <2>1. DoRequest(p, w, address) = <<"FILE_REQUEST", [s EXCEPT !.file_address_ = address]>>
      BY <1>6 DEF DoRequest, s
    <2>2. p \in Files /\ address \in {p, MAP_FAILED}
      BY <1>6 DEF Files, MmapReturns
    <2>3. [s EXCEPT !.file_address_ = address] \in Writer
      BY <1>2, <2>2 DEF Writer
    <2> QED
      BY <1>2, <2>1, <2>2, <2>3 DEF Ready, Writer
  <1> QED
    BY <1>1, <1>3, <1>4, <1>5, <1>6

LEMMA VectorsWrite ==
  ASSUME NEW w \in Writer, NEW head \in Vec, NEW file \in Vec
  PROVE  LET v == [w EXCEPT !.iov0 = head, !.iov1 = file, !.iv_count_ = 2]
         IN  /\ v \in Writer
             /\ v.file_address_ = w.file_address_ /\ v.file_stat_ = w.file_stat_
  <1>1. 2 \in Nat
    OBVIOUS
  <1> DEFINE v == [w EXCEPT !.iov0 = head, !.iov1 = file, !.iv_count_ = 2]
  <1>2. v \in Writer
    BY <1>1 DEF Writer
  <1>3. v.file_address_ = w.file_address_ /\ v.file_stat_ = w.file_stat_
    BY DEF Writer
  <1> QED
    BY <1>2, <1>3

LEMMA ProcessWriteWrites ==
  ASSUME NEW w \in Writer, NEW s, Ready(s, w), ~Refused(s, w), NEW linger \in BOOLEAN
  PROVE  LET v == ProcessWrite(s, w, linger)
         IN  /\ v \in Writer
             /\ v.file_address_ = w.file_address_ /\ v.file_stat_ = w.file_stat_
  <1>1. \A c \in {"404", "403", "200"} : Title(c, linger) \in Titles
    BY DEF Title, Titles
  <1>2. FormLen \in Nat /\ FormLen <= IntMax /\ HeaderLen \in Nat /\ IntMax \in Nat
    BY ResponseWriterAssumption
  <1>3. ASSUME NEW h \in Titles
        PROVE  /\ Form(w, h) \in Writer
               /\ Form(w, h).file_address_ = w.file_address_
               /\ Form(w, h).file_stat_ = w.file_stat_
    <2>1. FormLen \in Ints /\ [base |-> 0, len |-> FormLen] \in Vec
      BY <1>2 DEF Ints, Vec
    <2> QED
      BY <1>2, <1>3, <2>1 DEF Form, Writer
  <1>4. ASSUME NEW h \in Titles, w.file_stat_ \in DOMAIN Pages
        PROVE  /\ WithFile(w, h) \in Writer
               /\ WithFile(w, h).file_address_ = w.file_address_
               /\ WithFile(w, h).file_stat_ = w.file_stat_
    <2> DEFINE size == Pages[w.file_stat_].st_size
               all == Int32(HeaderLen + size)
    <2>1. size \in Nat
      BY <1>4, ResponseWriterAssumption
    <2> HIDE DEF size
    <2>2. all \in Ints
      BY <1>2, <2>1, Int32InInts
    <2> DEFINE head == [base |-> 0, len |-> HeaderLen]
               file == [base |-> 0, len |-> size]
    <2>3. head \in Vec /\ file \in Vec
      BY <1>2, <2>1 DEF Vec
    <2> DEFINE v == [w EXCEPT !.write_buffers_ = h, !.write_index_ = HeaderLen,
                              !.all_bytes_to_send_ = all]
    <2>4. v \in Writer /\ v.file_address_ = w.file_address_ /\ v.file_stat_ = w.file_stat_
      BY <1>2, <1>4, <2>2 DEF Writer
    <2>5. WithFile(w, h) = [v EXCEPT !.iov0 = head, !.iov1 = file, !.iv_count_ = 2]
      BY DEF WithFile, size, all, Writer
    <2> HIDE DEF v, head, file
    <2> DEFINE u == [v EXCEPT !.iov0 = head, !.iov1 = file, !.iv_count_ = 2]
    <2>6. u \in Writer /\ u.file_address_ = v.file_address_ /\ u.file_stat_ = v.file_stat_
      BY <2>3, <2>4, VectorsWrite
    <2>7. WithFile(w, h) = u
      BY <2>5
    <2> HIDE DEF u
    <2> QED
      BY <2>4, <2>6, <2>7
  <1>5. CASE s = "BAD_REQUEST"
    <2>1. ProcessWrite(s, w, linger) = Form(w, Title("404", linger))
      BY <1>5 DEF ProcessWrite
    <2> QED
      BY <1>1, <1>3, <2>1
  <1>6. CASE s = "FORBIDDEN_REQUEST"
    <2>1. ProcessWrite(s, w, linger) = Form(w, Title("403", linger))
      BY <1>6 DEF ProcessWrite
    <2> QED
      BY <1>1, <1>3, <2>1
  <1>7. CASE s = "FILE_REQUEST"
    <2>1. ProcessWrite(s, w, linger) = WithFile(w, Title("200", linger))
      BY <1>7 DEF ProcessWrite
    <2> QED
      BY <1>1, <1>4, <1>7, <2>1 DEF Ready
  <1> QED
    BY <1>5, <1>6, <1>7 DEF Ready, Refused

----------------------------------------------------------------------------
\* What is common to several steps.

LEMMA ReadStays ==
  ASSUME ReadInv, rd' = rd, line_status' = line_status, arrived' \in Seq(Byte),
         at' = "request" => at = "request"
  PROVE  ReadInv'
  BY DEF ReadInv, IndicesInBuffer, UrlKnown, read_index_

LEMMA ClearedType == Cleared \in Reader
  <1>1. <<>> \in Seq(Byte) /\ 0 \in Nat /\ Nowhere \in Int
    BY DEF Nowhere
  <1>2. "" \in DOMAIN Pages \cup {""} /\ FALSE \in BOOLEAN /\ 0 \in {0, 1}
        /\ "CHECK_STATE_REQUESTLINE" \in States
    BY DEF States
  <1> QED
    BY <1>1, <1>2 DEF Cleared, Reader

\* HttpClear leaves a slot from which nothing was read.
LEMMA ClearedReads ==
  ASSUME ReadInv, rd' = [Cleared EXCEPT !.heard_string_ = rd.heard_string_],
         line_status' = line_status, arrived' = arrived, at' # "request"
  PROVE  ReadInv'
  <1>1. rd \in Reader /\ rd.heard_string_ \in Int
    BY DEF ReadInv, Reader
  <1>2. /\ rd' \in Reader /\ rd'.read_buffers_ = <<>>
        /\ rd'.checked_idx_ = 0 /\ rd'.start_line_ = 0
        /\ rd'.check_state_ = "CHECK_STATE_REQUESTLINE"
    <2>2. Cleared \in Reader
      BY ClearedType
    <2>3. rd' \in Reader
      BY <1>1, <2>2 DEF Reader
    <2> QED
      BY <2>3 DEF Cleared
  <1>3. read_index_' = 0
    BY <1>2 DEF read_index_
  <1>4. IndicesInBuffer'
    BY <1>2, <1>3, RequestParserAssumption DEF IndicesInBuffer
  <1> QED
    BY <1>2, <1>4 DEF ReadInv, UrlKnown

LEMMA EmptiedWrites ==
  ASSUME NEW w \in Writer
  PROVE  /\ Emptied(w) \in Writer
         /\ Emptied(w).file_address_ = w.file_address_
         /\ Emptied(w).file_stat_ = w.file_stat_
  <1>1. 0 \in Ints /\ 0 \in Nat
    BY ResponseWriterAssumption DEF Ints
  <1> QED
    BY <1>1 DEF Emptied, Writer

LEMMA UnmapWrites ==
  ASSUME NEW w \in Writer
  PROVE  /\ Unmap(w) \in Writer
         /\ Unmap(w).file_address_ = NULL /\ Unmap(w).file_address_ \notin Files
         /\ Unmap(w).file_stat_ = w.file_stat_
  BY ResponseWriterAssumption DEF Unmap, Writer, Files

LEMMA NoFile == NULL \notin Files /\ MAP_FAILED \notin Files
  BY ResponseWriterAssumption DEF Files

\* The mapping of the slot stays with it.
LEMMA MapStays ==
  ASSUME MapInv, mapped' = mapped,
         wr'.file_address_ = wr.file_address_, wr'.file_stat_ = wr.file_stat_,
         abandoned => abandoned',
         Holding => abandoned' \/ wr.file_address_ \notin Files \/ Holding'
  PROVE  MapInv'
  BY DEF MapInv, MappingSound

\* The mapping of the slot is released.
LEMMA MapReleased ==
  ASSUME MapInv, NEW w, w.file_address_ = wr.file_address_, w.file_stat_ = wr.file_stat_,
         mapped' = Unmapped(w), wr'.file_address_ = NULL,
         abandoned' <=> abandoned
  PROVE  MapInv'
  <1> DEFINE a == wr.file_address_
  <1>1. wr'.file_address_ \notin Files
    BY NoFile
  <1>2. CASE a \in Files
    <2>1. mapped \in [Files -> Nat] /\ mapped[a] > 0
      BY <1>2 DEF MapInv
    <2>2. mapped' = mapped \/ mapped' = [mapped EXCEPT ![a] = @ - 1]
      BY DEF Unmapped
    <2>3. mapped' \in [Files -> Nat]
      BY <1>2, <2>1, <2>2
    <2>4. CASE abandoned
      BY <1>1, <2>3, <2>4 DEF MapInv, MappingSound
    <2>5. CASE ~abandoned
      <3>1. wr.file_stat_ = a /\ \A p \in Files : mapped[p] = IF a = p THEN 1 ELSE 0
        BY <1>2, <2>5 DEF MapInv, MappingSound
      <3>2. mapped' = [mapped EXCEPT ![a] = @ - 1]
        BY <1>2, <3>1 DEF Unmapped
      <3>3. \A p \in Files : mapped'[p] = 0
        BY <1>2, <2>1, <3>1, <3>2
      <3>4. MappingSound'
        BY <1>1, <3>3 DEF MappingSound
      <3> QED
        BY <1>1, <2>3, <3>4 DEF MapInv
    <2> QED
      BY <2>4, <2>5
  <1>3. CASE a \notin Files
    <2>1. mapped' = mapped
      BY <1>3 DEF Unmapped
    <2> QED
      BY <1>1, <1>3, <2>1 DEF MapInv, MappingSound
  <1> QED
    BY <1>2, <1>3

\* A connection is closed, its response sent or not.
LEMMA ShutKeeps ==
  ASSUME IndInv, NEW w \in Writer, Shut(w), MapInv'
  PROVE  IndInv'
  <1>1. ReadInv'
    <2>1. arrived' \in Seq(Byte)
      BY DEF Shut
    <2> QED
      BY <2>1, ReadStays DEF Shut, IndInv
  <1>2. WriteInv'
    BY DEF Shut, WriteInv
  <1>3. SlotInv'
    BY DEF Shut, SlotInv
  <1> QED
    BY <1>1, <1>2, <1>3 DEF IndInv, Shut

\* A connection is closed with the mapping it has.
LEMMA ShutAsIs ==
  ASSUME IndInv, Shut(wr), mapped' = mapped
  PROVE  IndInv'
  <1>1. MapInv'
    <2>1. wr' = wr /\ abandoned' = (abandoned \/ wr.file_address_ \in Files)
      BY DEF Shut
    <2> QED
      BY <2>1, MapStays DEF IndInv
  <1> QED
    BY <1>1, ShutKeeps DEF IndInv, WriteInv

----------------------------------------------------------------------------
\* The client.

LEMMA ConnectKeeps ==
  ASSUME IndInv, Connect
  PROVE  IndInv'
  <1>1. ReadInv'
    BY ClearedReads DEF Connect, HttpClear, Watch, IndInv
  <1>2. wr \in Writer
    BY DEF IndInv, WriteInv
  <1>3. wr' = Emptied(wr) /\ at = "closed" /\ at' = "watched"
    BY DEF Connect, HttpClear, Watch
  <1>4. WriteInv'
    BY <1>2, <1>3, EmptiedWrites DEF WriteInv
  <1>5. SlotInv'
    BY HttpConnAssumption DEF Connect, Watch, IndInv, SlotInv
  <1>6. MapInv'
    BY <1>2, <1>3, EmptiedWrites, MapStays DEF Connect, IndInv, Holding
  <1> QED
    BY <1>1, <1>4, <1>5, <1>6 DEF IndInv

LEMMA BytesTyped ==
  ASSUME NEW r \in Requests
  PROVE  Bytes(r) \in Seq(Byte)
  <1>1. r.line \in Byte /\ CR \in Byte /\ LF \in Byte
        /\ KeepAlive \in Byte /\ ContentLength \in Byte
    BY HttpConnAssumption, RequestParserAssumption DEF Byte
  <1>2. r.body \in Seq(Byte)
    <2>1. r.body \in Seq(STRING)
      BY HttpConnAssumption
    <2> QED
      BY <2>1 DEF Byte
  <1>3. <<CR, LF>> \in Seq(Byte) /\ <<LF>> \in Seq(Byte) /\ <<>> \in Seq(Byte)
    BY <1>1
  <1>4. Eol(r) \in Seq(Byte)
    BY <1>3, Zenon DEF Eol
  <1>5. /\ <<r.line>> \o Eol(r) \in Seq(Byte)
        /\ <<KeepAlive>> \o Eol(r) \in Seq(Byte)
        /\ <<ContentLength>> \o Eol(r) \in Seq(Byte)
    BY <1>1, <1>4
  <1> DEFINE keep == IF r.keep THEN <<KeepAlive>> \o Eol(r) ELSE <<>>
             length == IF HasBody(r) THEN <<ContentLength>> \o Eol(r) ELSE <<>>
             body == r.body
  <1>6. keep \in Seq(Byte) /\ length \in Seq(Byte) /\ body \in Seq(Byte)
    BY <1>2, <1>3, <1>5, Zenon
  <1>7. /\ HeadBytes(r) = <<r.line>> \o Eol(r) \o keep \o length \o Eol(r)
        /\ Bytes(r) = HeadBytes(r) \o body
    BY Zenon DEF HeadBytes, Bytes
  <1> HIDE DEF keep, length, body
  <1>8. HeadBytes(r) \in Seq(Byte)
    BY <1>4, <1>5, <1>6, <1>7
  <1> QED
    BY <1>6, <1>7, <1>8

LEMMA AskKeeps ==
  ASSUME IndInv, NEW r \in Requests, Ask(r)
  PROVE  IndInv'
  <1>1. ReadInv'
    BY ReadStays DEF Ask, parser, IndInv, ReadInv
  <1>2. WriteInv'
    BY DEF Ask, writer, IndInv, WriteInv
  <1>3. SlotInv'
    <2>1. unsent' \in Seq(Byte)
      BY BytesTyped DEF Ask
    <2> QED
      BY <2>1, HttpConnAssumption DEF Ask, IndInv, SlotInv
  <1>4. MapInv'
    BY MapStays DEF Ask, writer, IndInv, Holding
  <1> QED
    BY <1>1, <1>2, <1>3, <1>4 DEF IndInv

LEMMA DeliverKeeps ==
  ASSUME IndInv, Deliver
  PROVE  IndInv'
  <1>1. PICK n \in 1 .. Len(unsent) :
          /\ arrived' = arrived \o SubSeq(unsent, 1, n)
          /\ unsent' = SubSeq(unsent, n + 1, Len(unsent))
    BY DEF Deliver
  <1>2. arrived \in Seq(Byte) /\ unsent \in Seq(Byte)
    BY DEF IndInv, ReadInv, SlotInv
  <1>3. arrived' \in Seq(Byte) /\ unsent' \in Seq(Byte)
    BY <1>1, <1>2
  <1>4. ReadInv'
    BY <1>3, ReadStays DEF Deliver, IndInv
  <1>5. WriteInv'
    BY DEF Deliver, writer, IndInv, WriteInv
  <1>6. SlotInv'
    BY <1>3 DEF Deliver, IndInv, SlotInv
  <1>7. MapInv'
    BY MapStays DEF Deliver, writer, IndInv, Holding
  <1> QED
    BY <1>4, <1>5, <1>6, <1>7 DEF IndInv

LEMMA SatisfiedKeeps ==
  ASSUME IndInv, Satisfied
  PROVE  IndInv'
  <1>1. ReadInv'
    BY ReadStays DEF Satisfied, parser, IndInv, ReadInv
  <1>2. WriteInv'
    BY DEF Satisfied, writer, IndInv, WriteInv
  <1>3. SlotInv'
    BY HttpConnAssumption DEF Satisfied, IndInv, SlotInv
  <1>4. MapInv'
    BY MapStays DEF Satisfied, writer, IndInv, Holding
  <1> QED
    BY <1>1, <1>2, <1>3, <1>4 DEF IndInv

----------------------------------------------------------------------------
\* Reading.

LEMMA ReadOnceKeeps ==
  ASSUME IndInv, ReadOnce
  PROVE  IndInv'
  <1> DEFINE got_ == Received
             b == rd.read_buffers_
             more == SubSeq(arrived, 1, got_)
  <1>1. /\ rd \in Reader /\ b \in Seq(Byte) /\ arrived \in Seq(Byte)
        /\ arrived # <<>> /\ read_index_ < kREAD_BUFFER_SIZE
        /\ rd' = [rd EXCEPT !.read_buffers_ = @ \o more]
        /\ arrived' = SubSeq(arrived, got_ + 1, Len(arrived))
        /\ line_status' = "LINE_OK"
        /\ at' = "parse"
    BY DEF IndInv, ReadInv, Reader, ReadOnce, ReadOnceOk
  <1>2. got_ \in Nat /\ got_ <= Len(arrived) /\ got_ <= kREAD_BUFFER_SIZE - read_index_
    <2> DEFINE room == kREAD_BUFFER_SIZE - read_index_
    <2>1. Len(arrived) \in Nat /\ read_index_ \in Nat /\ room \in Nat
      BY <1>1, RequestParserAssumption DEF read_index_
    <2> HIDE DEF room
    <2>2. PICK m \in {Len(arrived), room} : \A y \in {Len(arrived), room} : m <= y
      BY <2>1
    <2>3. got_ = Min({Len(arrived), room})
      BY DEF Received, room
    <2>4. got_ \in {Len(arrived), room} /\ \A y \in {Len(arrived), room} : got_ <= y
      BY <2>2, <2>3 DEF Min
    <2> QED
      BY <2>1, <2>4 DEF room
  <1> HIDE DEF got_
  <1>3. more \in Seq(Byte) /\ Len(more) = got_ /\ arrived' \in Seq(Byte)
    BY <1>1, <1>2
  <1> HIDE DEF more
  <1>4. b \o more \in Seq(Byte) /\ Len(b \o more) = read_index_ + got_
    <2>1. b \in Seq(Byte) /\ read_index_ = Len(b)
      BY <1>1 DEF read_index_
    <2> HIDE DEF b
    <2> QED
      BY <1>3, <2>1
  <1>5. /\ rd' \in Reader /\ rd'.read_buffers_ = b \o more
        /\ rd'.checked_idx_ = rd.checked_idx_ /\ rd'.start_line_ = rd.start_line_
        /\ rd'.check_state_ = rd.check_state_ /\ rd'.url_ = rd.url_
    BY <1>1, <1>4 DEF Reader
  <1>6. read_index_' = read_index_ + got_ /\ read_index_ \in Nat
    BY <1>1, <1>4, <1>5 DEF read_index_
  <1>7. IndicesInBuffer'
    <2>1. /\ rd.start_line_ \in 0 .. rd.checked_idx_ /\ rd.checked_idx_ \in 0 .. read_index_
      BY DEF IndInv, ReadInv, IndicesInBuffer
    <2> QED
      BY <1>2, <1>5, <1>6, <2>1, RequestParserAssumption DEF IndicesInBuffer
  <1>8. ReadInv'
    BY <1>1, <1>3, <1>5, <1>7 DEF IndInv, ReadInv, UrlKnown, LineStatuses
  <1>9. WriteInv'
    BY <1>1 DEF ReadOnce, writer, IndInv, WriteInv
  <1>10. SlotInv'
    BY DEF ReadOnce, Readable, client, IndInv, SlotInv
  <1>11. MapInv'
    BY MapStays DEF ReadOnce, Readable, writer, IndInv, Holding
  <1> QED
    BY <1>8, <1>9, <1>10, <1>11 DEF IndInv

LEMMA ProcessReadKeeps ==
  ASSUME IndInv, ProcessRead
  PROVE  IndInv'
  <1>1. /\ TurnMore \/ TurnRequest \/ BadRequestLine \/ NoLine
        /\ at = "parse" /\ UNCHANGED <<writer, client, abandoned>>
    BY DEF ProcessRead, NoRequest
  <1>2. Parses /\ arrived' = arrived /\ (TurnRequest => rd'.url_ \in DOMAIN Pages)
    BY <1>1, TurnParses DEF IndInv
  <1>3. /\ at' = "request" => rd'.url_ \in DOMAIN Pages
        /\ at' = "answer" => status' = "BAD_REQUEST"
        /\ at' # "closed"
        /\ interest' \in {"in", "out", "off"} /\ (interest' # "off" <=> at' = "watched")
    BY <1>1, <1>2 DEF ProcessRead, NoRequest, Watch, IndInv, SlotInv
  <1>4. ReadInv'
    BY <1>2, <1>3 DEF Parses, IndInv, ReadInv, UrlKnown
  <1>5. WriteInv'
    BY <1>1, <1>3 DEF writer, IndInv, WriteInv, Ready
  <1>6. SlotInv'
    BY <1>1, <1>3 DEF client, IndInv, SlotInv
  <1>7. MapInv'
    BY <1>1, MapStays DEF writer, IndInv, Holding
  <1> QED
    BY <1>4, <1>5, <1>6, <1>7 DEF IndInv

----------------------------------------------------------------------------
\* Answering.

LEMMA RequestKeeps ==
  ASSUME IndInv, Request
  PROVE  IndInv'
  <1>0. PICK a \in MmapReturns(rd.url_) :
          LET d == DoRequest(rd.url_, wr, a)
          IN  /\ status' = d[1] /\ wr' = d[2]
              /\ mapped' = [p \in Files |->
                              IF d[1] = "FILE_REQUEST" /\ d[2].file_address_ = p
                              THEN mapped[p] + 1 ELSE mapped[p]]
    BY DEF Request
  <1> DEFINE d == DoRequest(rd.url_, wr, a)
  <1>1. /\ at = "request" /\ at' = "answer" /\ status' = d[1] /\ wr' = d[2]
        /\ mapped' = [p \in Files |->
                        IF d[1] = "FILE_REQUEST" /\ d[2].file_address_ = p
                        THEN mapped[p] + 1 ELSE mapped[p]]
        /\ UNCHANGED <<parser, client, interest, abandoned>>
    BY <1>0 DEF Request
  <1>2. rd.url_ \in DOMAIN Pages /\ wr \in Writer
    BY <1>1 DEF IndInv, ReadInv, UrlKnown, WriteInv
  <1>3. /\ Ready(d[1], d[2]) /\ d[2] \in Writer
        /\ d[1] # "FILE_REQUEST" => d[2].file_address_ = wr.file_address_
        /\ d[1] = "FILE_REQUEST" =>
             /\ d[2].file_stat_ = rd.url_
             /\ \/ d[2].file_address_ = rd.url_ /\ rd.url_ \in Files
                \/ d[2].file_address_ = MAP_FAILED
    BY <1>2, DoRequestWrites
  <1> HIDE DEF d
  <1>4. ReadInv'
    BY <1>1, ReadStays DEF parser, IndInv, ReadInv
  <1>5. WriteInv'
    BY <1>1, <1>3 DEF WriteInv
  <1>6. SlotInv'
    BY <1>1 DEF client, IndInv, SlotInv
  <1>7. MapInv'
    <2>1. mapped \in [Files -> Nat] /\ MappingSound /\ abandoned' = abandoned
          /\ (wr.file_address_ \in Files => mapped[wr.file_address_] > 0)
          /\ (~abandoned => wr.file_address_ \notin Files)
      BY <1>1 DEF IndInv, MapInv, Holding
    <2>2. CASE d[1] # "FILE_REQUEST"
      <3>1. wr'.file_address_ = wr.file_address_ /\ mapped' = mapped
        BY <1>1, <1>3, <2>1, <2>2
      <3>2. MappingSound'
        BY <2>1, <3>1 DEF MappingSound
      <3> QED
        BY <2>1, <3>1, <3>2 DEF MapInv
    <2>3. CASE d[1] = "FILE_REQUEST" /\ d[2].file_address_ = MAP_FAILED
      <3>1. wr'.file_address_ \notin Files
        BY <1>1, <2>3, NoFile
      <3>2. mapped' = mapped
        BY <1>1, <2>1, <2>3, NoFile
      <3>3. MappingSound'
        BY <2>1, <3>1, <3>2 DEF MappingSound
      <3> QED
        BY <2>1, <3>1, <3>2, <3>3 DEF MapInv
    <2>4. CASE d[1] = "FILE_REQUEST" /\ d[2].file_address_ = rd.url_ /\ rd.url_ \in Files
      <3>1. wr'.file_address_ = rd.url_ /\ wr'.file_stat_ = rd.url_
            /\ \A p \in Files : mapped'[p] = IF p = rd.url_ THEN mapped[p] + 1 ELSE mapped[p]
        BY <1>1, <1>3, <2>4
      <3>2. mapped' \in [Files -> Nat] /\ mapped'[rd.url_] > 0
        BY <1>1, <2>1, <2>4, <3>1
      <3>3. MappingSound'
        <4>1. CASE abandoned
          BY <2>1, <4>1 DEF MappingSound
        <4>2. CASE ~abandoned
          <5>1. \A p \in Files : mapped[p] = 0
            BY <2>1, <4>2 DEF MappingSound
          <5>2. \A p \in Files : mapped'[p] = IF rd.url_ = p THEN 1 ELSE 0
            BY <3>1, <5>1
          <5> QED
            BY <3>1, <5>2 DEF MappingSound
        <4> QED
          BY <4>1, <4>2
      <3>4. Holding'
        BY <1>1, <2>4 DEF Holding
      <3> QED
        BY <3>1, <3>2, <3>3, <3>4 DEF MapInv
    <2> QED
      BY <1>3, <2>2, <2>3, <2>4
  <1> QED
    BY <1>4, <1>5, <1>6, <1>7 DEF IndInv

LEMMA RequestCrashKeeps ==
  ASSUME IndInv, RequestCrash
  PROVE  IndInv'
  <1>1. rd' = Cleared /\ arrived' = <<>>
        /\ line_status' = line_status /\ at' = "closed"
    BY Zenon DEF RequestCrash
  <1>2. rd' \in Reader /\ IndicesInBuffer'
    <2>1. <<>> \in Seq(Byte) /\ 0 \in Nat /\ Len(<<>>) = 0
      OBVIOUS
    <2>2. /\ rd' \in Reader
          /\ rd'.read_buffers_ = <<>> /\ rd'.checked_idx_ = 0 /\ rd'.start_line_ = 0
      BY <1>1, ClearedType DEF Cleared
    <2> QED
      BY <2>1, <2>2, RequestParserAssumption DEF IndicesInBuffer, read_index_
  <1>3. ReadInv'
    <2>1. rd'.check_state_ = "CHECK_STATE_REQUESTLINE"
      BY <1>1 DEF Cleared
    <2>2. arrived' \in Seq(Byte)
      BY <1>1
    <2> QED
      BY <1>1, <1>2, <2>1, <2>2 DEF ReadInv, UrlKnown, IndInv
  <1>4. wr' \in Writer /\ wr'.file_address_ \notin Files
    <2>1. wr' = Unused /\ 0 \in Ints /\ 0 \in Nat /\ 0 \in Int
      BY ResponseWriterAssumption DEF RequestCrash, Ints
    <2> QED
      BY <2>1, NoFile DEF Unused, NoVec, Writer, Vec
  <1>5. WriteInv'
    BY <1>1, <1>4 DEF WriteInv
  <1>6. SlotInv'
    <2>1. unsent' = <<>> /\ unsent' \in Seq(Byte)
      BY DEF RequestCrash
    <2> QED
      BY <2>1 DEF RequestCrash, SlotInv
  <1>7. MapInv'
    <2>1. mapped' = [p \in Files |-> 0]
      BY DEF RequestCrash
    <2>2. mapped' \in [Files -> Nat] /\ \A p \in Files : mapped'[p] = 0
      BY <2>1
    <2> QED
      BY <1>4, <2>2 DEF MapInv, MappingSound
  <1> QED
    BY <1>3, <1>5, <1>6, <1>7 DEF IndInv

LEMMA ReplyKeeps ==
  ASSUME IndInv, Reply
  PROVE  IndInv'
  <1>1. wr \in Writer /\ Ready(status, wr) /\ rd.socket_linger_opt_ \in BOOLEAN
    BY DEF Reply, IndInv, WriteInv, ReadInv, Reader
  <1>2. wr' = ProcessWrite(status, wr, rd.socket_linger_opt_) /\ ~Refused(status, wr)
        /\ at' = "watched" /\ interest' = "out"
    BY DEF Reply, Watch
  <1>3. wr' \in Writer /\ wr'.file_address_ = wr.file_address_
        /\ wr'.file_stat_ = wr.file_stat_
    BY <1>1, <1>2, ProcessWriteWrites
  <1>4. ReadInv'
    BY <1>2, ReadStays DEF Reply, parser, IndInv, ReadInv
  <1>5. WriteInv'
    BY <1>2, <1>3 DEF WriteInv
  <1>6. SlotInv'
    BY <1>2 DEF Reply, client, IndInv, SlotInv
  <1>7. MapInv'
    BY <1>2, <1>3, MapStays DEF Reply, IndInv, Holding
  <1> QED
    BY <1>4, <1>5, <1>6, <1>7 DEF IndInv

----------------------------------------------------------------------------
\* Writing.

LEMMA NothingToSendKeeps ==
  ASSUME IndInv, NothingToSend
  PROVE  IndInv'
  <1>1. wr \in Writer /\ wr' = Emptied(wr) /\ at' = "watched" /\ interest' = "in"
    BY DEF IndInv, WriteInv, NothingToSend, HttpClear, Watch
  <1>2. ReadInv'
    BY <1>1, ClearedReads DEF NothingToSend, HttpClear, IndInv
  <1>3. WriteInv'
    BY <1>1, EmptiedWrites DEF WriteInv
  <1>4. SlotInv'
    BY <1>1 DEF NothingToSend, Writable, client, IndInv, SlotInv
  <1>5. MapInv'
    BY <1>1, EmptiedWrites, MapStays DEF NothingToSend, IndInv
  <1> QED
    BY <1>2, <1>3, <1>4, <1>5 DEF IndInv

LEMMA WriteBeginKeeps ==
  ASSUME IndInv, WriteBegin
  PROVE  IndInv'
  <1>1. ReadInv'
    BY ReadStays DEF WriteBegin, parser, IndInv, ReadInv
  <1>2. WriteInv'
    BY DEF WriteBegin, writer, IndInv, WriteInv
  <1>3. SlotInv'
    BY DEF WriteBegin, Writable, client, IndInv, SlotInv
  <1>4. MapInv'
    BY MapStays DEF WriteBegin, writer, IndInv, Holding
  <1> QED
    BY <1>1, <1>2, <1>3, <1>4 DEF IndInv

LEMMA WouldBlockKeeps ==
  ASSUME IndInv, WouldBlock
  PROVE  IndInv'
  <1>1. ReadInv'
    BY ReadStays DEF WouldBlock, Watch, parser, IndInv, ReadInv
  <1>2. WriteInv'
    BY DEF WouldBlock, Watch, writer, IndInv, WriteInv
  <1>3. SlotInv'
    BY DEF WouldBlock, Watch, client, IndInv, SlotInv
  <1>4. MapInv'
    BY MapStays DEF WouldBlock, Watch, writer, IndInv, Holding
  <1> QED
    BY <1>1, <1>2, <1>3, <1>4 DEF IndInv

LEMMA WriteErrorKeeps ==
  ASSUME IndInv, WriteError
  PROVE  IndInv'
  <1>1. wr \in Writer /\ Unmap(wr) \in Writer /\ wr' = Unmap(wr)
        /\ wr'.file_address_ = NULL /\ Unmap(wr).file_address_ \notin Files
    BY UnmapWrites DEF IndInv, WriteInv, WriteError, Shut
  <1>2. abandoned' = (abandoned \/ Unmap(wr).file_address_ \in Files)
        /\ mapped' = Unmapped(wr) /\ Shut(Unmap(wr))
    BY DEF WriteError, Shut
  <1>3. abandoned' <=> abandoned
    BY <1>1, <1>2
  <1>4. MapInv'
    BY <1>1, <1>2, <1>3, MapReleased DEF IndInv
  <1> QED
    BY <1>1, <1>2, <1>4, ShutKeeps

LEMMA WritevKeeps ==
  ASSUME IndInv, Writev
  PROVE  IndInv'
  <1>1. PICK n \in Takes : WriteSome(n) \/ WriteLast(n) \/ WriteClose(n)
    BY DEF Writev
  <1>2. n \in Int
    <2> DEFINE all == Len(Vectors(wr))
    <2>1. n \in {0} \/ n \in 1 .. Min({all, IntMax}) \/ n \in {}
      BY Zenon DEF Takes
    <2> QED
      BY <2>1
  <1> DEFINE w == Sent(wr, n)
  <1>3. wr \in Writer /\ w \in Writer
        /\ w.file_address_ = wr.file_address_ /\ w.file_stat_ = wr.file_stat_
    BY <1>2, SentWrites DEF IndInv, WriteInv
  <1>4. at \in {"write", "more"} /\ w = Sent(wr, n)
    BY DEF Writev
  <1> HIDE DEF w
  <1>5. /\ Unmap(w) \in Writer /\ Unmap(w).file_address_ = NULL
        /\ Unmap(w).file_stat_ = w.file_stat_
    BY <1>3, UnmapWrites
  <1>6. CASE WriteSome(n)
    <2>1. wr' = w /\ at' = "more"
      BY <1>4, <1>6 DEF WriteSome
    <2>2. ReadInv'
      BY <1>6, <2>1, ReadStays DEF WriteSome, parser, IndInv, ReadInv
    <2>3. WriteInv'
      BY <1>3, <2>1 DEF WriteInv
    <2>4. SlotInv'
      BY <1>4, <1>6, <2>1 DEF WriteSome, IndInv, SlotInv
    <2>5. MapInv'
      BY <1>3, <1>6, <2>1, MapStays DEF WriteSome, IndInv, Holding
    <2> QED
      BY <2>2, <2>3, <2>4, <2>5 DEF IndInv
  <1>7. CASE WriteLast(n)
    <2>1. /\ mapped' = Unmapped(w) /\ HttpClear(Unmap(w)) /\ Watch("in")
          /\ UNCHANGED <<arrived, line_status, want, unsent, abandoned>>
      BY <1>4, <1>7 DEF WriteLast
    <2>2. wr' = Emptied(Unmap(w)) /\ at' = "watched" /\ interest' = "in"
      BY <2>1 DEF HttpClear, Watch
    <2>3. wr' \in Writer /\ wr'.file_address_ = NULL
      BY <1>5, <2>2, EmptiedWrites
    <2>4. ReadInv'
      BY <2>1, <2>2, ClearedReads DEF HttpClear, IndInv
    <2>5. WriteInv'
      BY <2>2, <2>3 DEF WriteInv
    <2>6. SlotInv'
      BY <1>4, <2>1, <2>2 DEF IndInv, SlotInv
    <2>7. MapInv'
      BY <1>3, <2>1, <2>3, MapReleased DEF IndInv
    <2> QED
      BY <2>4, <2>5, <2>6, <2>7 DEF IndInv
  <1>8. CASE WriteClose(n)
    <2>1. /\ mapped' = Unmapped(w) /\ wr' = Unmap(w) /\ at' = "done"
          /\ UNCHANGED <<parser, want, unsent, interest, abandoned>>
      BY <1>4, <1>8 DEF WriteClose
    <2>2. ReadInv'
      BY <2>1, ReadStays DEF parser, IndInv, ReadInv
    <2>3. WriteInv'
      BY <1>5, <2>1 DEF WriteInv
    <2>4. SlotInv'
      BY <1>4, <2>1 DEF IndInv, SlotInv
    <2>5. MapInv'
      BY <1>3, <1>5, <2>1, MapReleased DEF IndInv
    <2> QED
      BY <2>2, <2>3, <2>4, <2>5 DEF IndInv
  <1> QED
    BY <1>1, <1>6, <1>7, <1>8

----------------------------------------------------------------------------
LEMMA InitHolds == Init => IndInv
  <1> SUFFICES ASSUME Init PROVE IndInv
    OBVIOUS
  <1>1. /\ rd \in Reader /\ read_index_ = 0
        /\ rd.checked_idx_ = 0 /\ rd.start_line_ = 0
        /\ rd.check_state_ = "CHECK_STATE_REQUESTLINE" /\ at = "closed"
    <2>1. rd = Cleared /\ rd \in Reader /\ Len(<<>>) = 0
      BY ClearedType DEF Init
    <2>2. /\ rd.read_buffers_ = <<>> /\ rd.checked_idx_ = 0 /\ rd.start_line_ = 0
          /\ rd.check_state_ = "CHECK_STATE_REQUESTLINE"
      BY <2>1 DEF Cleared
    <2> QED
      BY <2>1, <2>2 DEF Init, read_index_
  <1>2. ReadInv
    <2>1. IndicesInBuffer
      BY <1>1, RequestParserAssumption DEF IndicesInBuffer
    <2>2. UrlKnown
      BY <1>1 DEF UrlKnown
    <2> QED
      BY <1>1, <2>1, <2>2 DEF Init, ReadInv, LineStatuses
  <1>3. WriteInv
    <2>1. 0 \in Ints /\ 0 \in Nat /\ NoVec \in Vec
      BY ResponseWriterAssumption DEF Ints, NoVec, Vec
    <2>2. Unused \in Writer
      BY <2>1 DEF Unused, Writer
    <2> QED
      BY <2>2 DEF Init, WriteInv
  <1>4. SlotInv
    BY DEF Init, SlotInv
  <1>5. MapInv
    BY NoFile DEF Init, Unused, MapInv, MappingSound
  <1> QED
    BY <1>2, <1>3, <1>4, <1>5 DEF IndInv

LEMMA StutterKeeps ==
  ASSUME IndInv, UNCHANGED vars
  PROVE  IndInv'
  <1>1. ReadInv'
    BY ReadStays DEF vars, parser, IndInv, ReadInv
  <1>2. WriteInv'
    BY DEF vars, writer, IndInv, WriteInv
  <1>3. SlotInv'
    BY DEF vars, client, IndInv, SlotInv
  <1>4. MapInv'
    BY MapStays DEF vars, writer, IndInv, Holding
  <1> QED
    BY <1>1, <1>2, <1>3, <1>4 DEF IndInv

\* The inductive invariant.
THEOREM Invariance == Spec => []IndInv
<1>1. IndInv /\ [Next]_vars => IndInv'
  <2> SUFFICES ASSUME IndInv, [Next]_vars PROVE IndInv'
    OBVIOUS
  <2>1. CASE Client
    <3>1. CASE HangUp
      BY <3>1, ShutAsIs DEF HangUp
    <3> QED
      BY <2>1, <3>1, ConnectKeeps, AskKeeps, DeliverKeeps, SatisfiedKeeps DEF Client
  <2>2. CASE ReadFull \/ Drop \/ WriteDone
    BY <2>2, ShutAsIs DEF ReadFull, Drop, WriteDone
  <2>3. CASE Server
    BY <2>2, <2>3, ReadOnceKeeps, ProcessReadKeeps, RequestKeeps, ReplyKeeps,
       NothingToSendKeeps, WriteBeginKeeps, WritevKeeps, WouldBlockKeeps, WriteErrorKeeps,
       RequestCrashKeeps
       DEF Server
  <2>4. CASE Exhausted \/ UNCHANGED vars
    BY <2>4, StutterKeeps DEF Exhausted
  <2> QED
    BY <2>1, <2>3, <2>4 DEF Next
<1> QED
  BY <1>1, InitHolds, PTL DEF Spec

\* Whatever a client sends and however it is cut, the indices of the two state
\* machines stay in order and inside what was received, which fits the buffer; the
\* counters of a response stay ints; a socket is armed exactly while nobody has the
\* slot (http_conn.cpp:84-109, 276-321, 387-448, 253-273).
THEOREM TypeCorrect == Spec => []TypeOK
  BY Invariance, TypeFollows, PTL

\* What a slot maps it unmaps, with the right size and once, unless a connection was
\* closed before its answer was out (http_conn.cpp:162-167, 191, 673-694).
THEOREM MappingsReleased == Spec => []MappingSound
  <1>1. IndInv => MappingSound
    BY DEF IndInv, MapInv
  <1> QED
    BY <1>1, Invariance, PTL
=============================================================================
