------------------------------- MODULE HttpConn -------------------------------
(***************************************************************************)
(* One slot (HttpConn object) over the connections that use it one after   *)
(* the other: its client sends requests that arrive in pieces, it reads,   *)
(* parses, answers, sends in pieces, keeps the connection or closes it.    *)
(* One thread at a time has the slot, which is what WebServer is about.    *)
(***************************************************************************)
EXTENDS RequestParser, ResponseWriter

CONSTANTS
    Requests,     \* what clients ask: [line, keep, body, crlf]; the body may be <<>>
    MaxRequests,  \* bound: requests in a behaviour
    MaxConns,     \* bound: connections in a behaviour
    Closed, Idle  \* what the client is about when it has asked nothing

ASSUME HttpConnAssumption ==
    /\ Requests \subseteq [line : STRING, keep : BOOLEAN, body : Seq(STRING), crlf : BOOLEAN]
    /\ \A r \in Requests : r.line \notin {CR, LF} /\ Len(r.body) \in {0, BodyLen}
    /\ Closed \notin Requests /\ Idle \notin Requests /\ Closed # Idle
    /\ \A l \in DOMAIN RequestLines :
          RequestLines[l] \in [cgi_ : {0, 1}, url_ : DOMAIN Pages]
    /\ MaxRequests \in Nat /\ MaxConns \in Nat

VARIABLES
    want,      \* client: the request in progress, Idle or Closed
    unsent,    \* client: bytes of it still to come
    got,       \* client: what it got for it
    asked,     \* client: number of requests asked
    conns,     \* number of connections made
    at,        \* the slot: "watched" (armed), "parse", "request", "answer", "write", "more"
    interest,  \* event the socket is armed for: "in", "out", "off"
    status,    \* what ProcessRead returned
    bodyCut,   \* history: a read ended inside the body
    cuts,      \* history: writev calls that ended inside the header
    abandoned  \* history: a connection was closed with its file mapped

client == <<want, unsent, got, asked, conns>>
vars == <<parser, writer, client, at, interest, status, bodyCut, cuts, abandoned>>

----------------------------------------------------------------------------
(* Requests and their answers.                                             *)

Eol(r) == IF r.crlf THEN <<CR, LF>> ELSE <<LF>>

HasBody(r) == r.body # <<>>

HeadBytes(r) ==
    <<r.line>> \o Eol(r)
    \o (IF r.keep THEN <<KeepAlive>> \o Eol(r) ELSE <<>>)
    \o (IF HasBody(r) THEN <<ContentLength>> \o Eol(r) ELSE <<>>)
    \o Eol(r)

Bytes(r) == HeadBytes(r) \o r.body

Understood(r) == r.line \in DOMAIN RequestLines

\* A request line with a mistake is answered before the headers are seen.
Keeps(r) == r.keep /\ Understood(r)

Numbered(label, n) == [i \in 1 .. n |-> <<label, i>>]

\* What the client should get, unless its connection is closed before: a missing
\* page and an empty file are to be answered as well (README.md:230-247,
\* http_conn.cpp:367-373), which the code does not do.
Answer(r) ==
    LET p == RequestLines[r.line].url_
    IN  IF ~Understood(r) THEN Numbered(Title("404", FALSE), FormLen)
        ELSE CASE Pages[p].kind \in {"missing", "directory"} -> Numbered(Title("404", r.keep), FormLen)
               [] Pages[p].kind = "secret"    -> Numbered(Title("403", r.keep), FormLen)
               [] Pages[p].kind = "file"      ->
                    IF Pages[p].st_size = 0 THEN Numbered(Title("200", r.keep), FormLen)
                    ELSE Numbered(Title("200", r.keep), HeaderLen)
                         \o Numbered(<<"file", p>>, Pages[p].st_size)

----------------------------------------------------------------------------
Init ==
    /\ arrived = <<>> /\ rd = Cleared /\ line_status = "LINE_OK"
    /\ wr = Unused /\ mapped = [p \in Files |-> 0]
    /\ want = Closed /\ unsent = <<>> /\ got = <<>> /\ asked = 0 /\ conns = 0
    /\ at = "closed" /\ interest = "off" /\ status = "NO_REQUEST"
    /\ bodyCut = FALSE /\ cuts = 0 /\ abandoned = FALSE

Watch(ev) == at' = "watched" /\ interest' = ev

\* What is left of a request is forgotten, of a response the mapping stays.
\* heard_string_ still points to where the last body was.
HttpClear(w) ==
    /\ rd' = [Cleared EXCEPT !.heard_string_ = rd.heard_string_]
    /\ wr' = Emptied(w)

\* the socket is closed, whatever the fields of the slot are; w the writer's
Shut(w) ==
    /\ wr' = w
    /\ want' = Closed /\ unsent' = <<>> /\ got' = <<>> /\ arrived' = <<>>
    /\ at' = "closed" /\ interest' = "off"
    /\ bodyCut' = FALSE /\ cuts' = 0
    /\ abandoned' = (abandoned \/ w.file_address_ \in Files)
    /\ UNCHANGED <<rd, line_status, asked, conns, status>>

----------------------------------------------------------------------------
(* The client.                                                             *)

\* accept, HttpConn::Init
Connect ==
    /\ at = "closed" /\ conns < MaxConns
    /\ conns' = conns + 1
    /\ want' = Idle
    /\ Watch("in")
    /\ HttpClear(wr)
    /\ UNCHANGED <<arrived, line_status, mapped, unsent, got, asked, status,
                   bodyCut, cuts, abandoned>>

Ask(r) ==
    /\ want = Idle /\ asked < MaxRequests
    /\ want' = r /\ unsent' = Bytes(r) /\ asked' = asked + 1
    /\ bodyCut' = FALSE
    /\ UNCHANGED <<parser, writer, got, conns, at, interest, status, cuts, abandoned>>

\* The network delivers a piece.  While a thread has the slot a piece changes
\* nothing the thread looks at: it may as well come afterwards.
Deliver ==
    /\ at = "watched"
    /\ \E n \in 1 .. Len(unsent) :
          /\ arrived' = arrived \o SubSeq(unsent, 1, n)
          /\ unsent' = SubSeq(unsent, n + 1, Len(unsent))
    /\ UNCHANGED <<rd, line_status, writer, want, got, asked, conns, at, interest,
                   status, bodyCut, cuts, abandoned>>

\* the client has the answer and may ask again
Satisfied ==
    /\ want \in Requests
    /\ got = Answer(want) /\ got # <<>>
    /\ Keeps(want)
    /\ want' = Idle /\ got' = <<>>
    /\ UNCHANGED <<parser, writer, unsent, asked, conns, at, interest, status,
                   bodyCut, cuts, abandoned>>

\* the peer closes or the connection's timer expires
HangUp ==
    /\ at = "watched"
    /\ Shut(wr)
    /\ UNCHANGED mapped

----------------------------------------------------------------------------
(* Reading.                                                                *)

\* EPOLLIN
Readable == at = "watched" /\ interest = "in" /\ arrived # <<>>

InsideBody(n) ==
    want \in Requests /\ Len(HeadBytes(want)) < n /\ n < Len(Bytes(want))

ReadOnce ==
    /\ Readable
    /\ ReadOnceOk
    /\ at' = "parse" /\ interest' = "off"
    /\ bodyCut' = (bodyCut \/ InsideBody(Len(rd'.read_buffers_)))
    /\ UNCHANGED <<writer, client, status, cuts, abandoned>>

ReadFull ==
    /\ Readable
    /\ ReadOnceFails
    /\ Shut(wr)
    /\ UNCHANGED mapped

\* Slip: after an incomplete request the socket is not armed again.
NoRequestUnarmed ==
    /\ NoLine
    /\ status' = "NO_REQUEST"
    /\ at' = "watched"
    /\ UNCHANGED interest

\* ProcessRead returns NO_REQUEST and Process listens for more
NoRequest ==
    /\ NoLine
    /\ status' = "NO_REQUEST"
    /\ Watch("in")

\* a turn of the loop of ProcessRead
ProcessRead ==
    /\ at = "parse"
    /\ \/ TurnMore /\ UNCHANGED <<at, interest, status>>
       \/ TurnRequest /\ at' = "request" /\ status' = "GET_REQUEST" /\ UNCHANGED interest
       \/ BadRequestLine /\ at' = "answer" /\ status' = "BAD_REQUEST" /\ UNCHANGED interest
       \/ NoRequest
    /\ UNCHANGED <<writer, client, bodyCut, cuts, abandoned>>

----------------------------------------------------------------------------
(* Answering.                                                              *)

\* a login whose name and password are read at a heard_string_ it did not set
Stray == rd.cgi_ = 1 /\ rd.content_length_ = 0

\* DoRequest; a login or registration has put the page it leads to in url_
Request ==
    /\ at = "request"
    /\ Stray => rd.heard_string_ # Nowhere
    /\ \E a \in MmapReturns(rd.url_) :
          LET d == DoRequest(rd.url_, wr, a)
          IN  /\ status' = d[1]
              /\ wr' = d[2]
              /\ mapped' = [p \in Files |->
                               IF d[1] = "FILE_REQUEST" /\ d[2].file_address_ = p
                               THEN mapped[p] + 1 ELSE mapped[p]]
    /\ at' = "answer"
    /\ UNCHANGED <<parser, client, interest, bodyCut, cuts, abandoned>>

\* What a stray heard_string_ points to may have no end: the process ends, and is
\* started again.
RequestCrash ==
    /\ at = "request" /\ Stray
    /\ rd' = Cleared /\ wr' = Unused /\ mapped' = [p \in Files |-> 0]
    /\ want' = Closed /\ unsent' = <<>> /\ got' = <<>> /\ arrived' = <<>>
    /\ at' = "closed" /\ interest' = "off"
    /\ bodyCut' = FALSE /\ cuts' = 0 /\ abandoned' = FALSE
    /\ UNCHANGED <<line_status, asked, conns, status>>

\* ProcessWrite and the rest of Process
Reply ==
    /\ at = "answer" /\ ~Refused(status, wr)
    /\ wr' = ProcessWrite(status, wr, rd.socket_linger_opt_)
    /\ Watch("out")
    /\ cuts' = 0
    /\ UNCHANGED <<parser, mapped, client, status, bodyCut, abandoned>>

\* Process closes the connection itself
Drop ==
    /\ at = "answer" /\ Refused(status, wr)
    /\ Shut(wr)
    /\ UNCHANGED mapped

\* EPOLLOUT comes when the socket has room, so the first writev takes something
Writable == at = "watched" /\ interest = "out"

\* Write with nothing to send
NothingToSend ==
    /\ Writable /\ wr.all_bytes_to_send_ = 0
    /\ Watch("in")
    /\ HttpClear(wr)
    /\ abandoned' = (abandoned \/ wr.file_address_ \in Files)
    /\ UNCHANGED <<arrived, line_status, mapped, client, status, bodyCut, cuts>>

WriteBegin ==
    /\ Writable /\ wr.all_bytes_to_send_ # 0
    /\ at' = "write" /\ interest' = "off"
    /\ UNCHANGED <<parser, writer, client, status, bodyCut, cuts, abandoned>>

\* how much a writev may take; an int holds the number
Takes == LET all == Len(Vectors(wr))
         IN  IF BadVector(wr) THEN {}
             ELSE IF all = 0 THEN {0} ELSE 1 .. Min({all, IntMax})

\* A writev of no bytes returns 0, whatever the socket is about.
MayFail == BadVector(wr) \/ Vectors(wr) # <<>>

\* writev takes n bytes; it was not the last
WriteSome(n) ==
    LET w == Sent(wr, n)
    IN  /\ w.all_bytes_to_send_ > 0
        /\ wr' = w
        /\ got' = got \o SubSeq(Vectors(wr), 1, n)
        /\ cuts' = IF n > 0 /\ Len(got') < w.write_index_ THEN cuts + 1 ELSE cuts
        /\ at' = "more"
        /\ UNCHANGED <<parser, mapped, want, unsent, asked, conns, interest, status,
                       bodyCut, abandoned>>

\* all is sent, and the connection stays ...
WriteLast(n) ==
    LET w == Sent(wr, n)
    IN  /\ w.all_bytes_to_send_ <= 0
        /\ rd.socket_linger_opt_
        /\ got' = got \o SubSeq(Vectors(wr), 1, n)
        /\ mapped' = Unmapped(w)
        /\ HttpClear(Unmap(w))
        /\ Watch("in")
        /\ UNCHANGED <<arrived, line_status, want, unsent, asked, conns, status,
                       bodyCut, cuts, abandoned>>

\* ... or is closed once the client has it
WriteClose(n) ==
    LET w == Sent(wr, n)
    IN  /\ w.all_bytes_to_send_ <= 0
        /\ ~rd.socket_linger_opt_
        /\ got' = got \o SubSeq(Vectors(wr), 1, n)
        /\ mapped' = Unmapped(w)
        /\ wr' = Unmap(w)
        /\ at' = "done"
        /\ UNCHANGED <<parser, want, unsent, asked, conns, interest, status,
                       bodyCut, cuts, abandoned>>

Writev ==
    /\ at \in {"write", "more"}
    /\ \E n \in Takes : WriteSome(n) \/ WriteLast(n) \/ WriteClose(n)

\* Write returned false at its end: the event loop closes
WriteDone ==
    /\ at = "done"
    /\ Shut(wr)
    /\ UNCHANGED mapped

WouldBlock ==
    /\ at = "more" /\ MayFail
    /\ Watch("out")
    /\ UNCHANGED <<parser, writer, client, status, bodyCut, cuts, abandoned>>

WriteError ==
    /\ at \in {"write", "more"} /\ MayFail
    /\ mapped' = Unmapped(wr)
    /\ Shut(Unmap(wr))

----------------------------------------------------------------------------
Client == Connect \/ (\E r \in Requests : Ask(r)) \/ Deliver \/ Satisfied \/ HangUp

Server ==
    \/ ReadOnce \/ ReadFull \/ ProcessRead
    \/ Request \/ RequestCrash \/ Reply \/ Drop
    \/ NothingToSend \/ WriteBegin \/ Writev \/ WriteDone \/ WouldBlock \/ WriteError

Exhausted == at = "closed" /\ conns = MaxConns /\ UNCHANGED vars

Next == Client \/ Server \/ Exhausted

\* The threads go on, and epoll reports what it should; clients take what is sent.
Fairness == WF_vars(Server)

Spec == Init /\ [][Next]_vars /\ Fairness

----------------------------------------------------------------------------
IndicesInBuffer ==
    /\ rd.start_line_ \in 0 .. rd.checked_idx_
    /\ rd.checked_idx_ \in 0 .. read_index_
    /\ read_index_ <= kREAD_BUFFER_SIZE

TypeOK ==
    /\ IndicesInBuffer
    /\ rd.check_state_ \in {"CHECK_STATE_REQUESTLINE", "CHECK_STATE_HEADER",
                            "CHECK_STATE_CONTENT"}
    /\ line_status \in {"LINE_OK", "LINE_BAD", "LINE_OPEN"}
    /\ rd.url_ \in DOMAIN Pages \cup {""}
    /\ wr.file_address_ \in Files \cup {NULL, MAP_FAILED}
    /\ wr.all_bytes_to_send_ \in (-IntMax - 1) .. IntMax
    /\ mapped \in [Files -> Nat]
    /\ want \in Requests \cup {Idle, Closed} /\ (want = Closed <=> at = "closed")
    /\ interest \in {"in", "out", "off"} /\ (interest # "off" <=> at = "watched")

\* What ends the promise for a request: the response does not fit an int, or its
\* header left in more than two pieces.
Overflows(r) ==
    /\ Understood(r)
    /\ Pages[RequestLines[r.line].url_].st_size + HeaderLen > IntMax

Garbled == cuts >= 2 \/ (want \in Requests /\ Overflows(want))

Promise == INSTANCE Exchange WITH
    KeepsAlive <- Keeps,
    want <- IF Garbled THEN Closed ELSE want,
    got  <- IF Garbled THEN <<>> ELSE got

\* However a request is cut by the network and a response by writev, and whatever
\* connection used the slot before, a client gets the answer to its own request,
\* byte by byte from the start (README.md:568, 579; http_conn.cpp:137-205, 252-385).
\* Left out (Garbled) is what the code sends wrong: the rest of a response whose
\* header left in more than two pieces (http_conn.cpp:186), and a response whose
\* length does not fit an int (http_conn.cpp:364).
ImplementsExchange == Promise!Spec

Owed ==
    /\ want \in Requests /\ want.crlf /\ unsent = <<>>
    /\ ~bodyCut /\ ~Garbled

\* A request that came whole is answered whole, or the connection is closed: no
\* read, turn of a loop or partial write leaves it waiting for an event that does
\* not come, with no help from a timer (http_conn.cpp:84-205, 252-321).  Left out
\* are a body that came in parts, which NoRequestMeansMore is about, and what
\* Garbled leaves out: then Write may not even end (http_conn.cpp:152-187).
Answered ==
    Owed ~> \/ want \notin Requests
            \/ got = Answer(want) /\ got # <<>>
            \/ Garbled

\* The slot has mapped what it will unmap, with the size it will unmap, and
\* nothing else (http_conn.cpp:162-167, 191, 673-694).  A connection closed before
\* its answer was out ends that: abandoned.
MappingSound ==
    ~abandoned =>
        /\ wr.file_address_ \in Files => wr.file_stat_ = wr.file_address_
        /\ \A p \in Files : mapped[p] = IF wr.file_address_ = p THEN 1 ELSE 0

\* A login is checked with what its own request brought, whatever requests and
\* connections used the slot before: one that has a body with this body, whole,
\* however it came.  One that has none reads where heard_string_ was left (Stray),
\* and what it may find there is its own request and nothing that another one left
\* in the buffer (http_conn.cpp:44-79, 512, 543-553, 578-589).
OwnBody ==
    at = "request" /\ rd.cgi_ = 1 =>
        /\ rd.read_buffers_ = Bytes(want)
        /\ HasBody(want) => HeardText = want.body

\* NO_REQUEST means that the request is not complete yet (README.md:326).
NoRequestMeansMore ==
    at = "watched" /\ interest = "in" /\ want \in Requests /\ status = "NO_REQUEST"
        => read_index_ < Len(Bytes(want))
===============================================================================
