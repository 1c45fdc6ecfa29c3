---------------------------- MODULE RequestParser ----------------------------
(***************************************************************************)
(* The half of a slot (http/http_conn.cpp) that reads a request: the read  *)
(* buffer and the two state machines that go over it, ParseLine for a line *)
(* and ProcessRead for the request.                                        *)
(*                                                                         *)
(* A byte is CR, LF, the content of a whole line, or a byte of the body:   *)
(* the code finds lines by CR and LF and looks at what is between them     *)
(* only when it has the line.  What a line means is a table.               *)
(***************************************************************************)
EXTENDS Integers, Sequences, FiniteSets, FiniteSetsExt

CONSTANTS
    RequestLines,       \* accepted request line -> [cgi_, url_] it sets; cgi_ is 1 for
                        \* the POST of a login or registration
    KeepAlive,          \* the header "Connection: keep-alive"
    ContentLength,      \* the header "Content-length: ..."
    BodyLen,            \* the length it says
    kREAD_BUFFER_SIZE

CR == "CR"
LF == "LF"

ASSUME RequestParserAssumption ==
    /\ kREAD_BUFFER_SIZE \in Nat \ {0}
    /\ BodyLen \in Nat \ {0}
    /\ KeepAlive \in STRING /\ ContentLength \in STRING /\ KeepAlive # ContentLength
    /\ {KeepAlive, ContentLength} \cap {CR, LF} = {}

VARIABLES
    arrived,      \* bytes in the socket's receive buffer
    rd,           \* the fields of the slot that reading and parsing use
    line_status   \* local to ProcessRead

parser == <<arrived, rd, line_status>>

\* heard_string_ is a place in read_buffers_, or this one
Nowhere == -1

\* The fields of a slot that was never used; read_index_ is the length of the
\* buffer.  HttpClear brings them back, but for heard_string_.
Cleared ==
    [read_buffers_ |-> <<>>, checked_idx_ |-> 0, start_line_ |-> 0,
     check_state_ |-> "CHECK_STATE_REQUESTLINE", socket_linger_opt_ |-> FALSE,
     url_ |-> "", cgi_ |-> 0, content_length_ |-> 0, heard_string_ |-> Nowhere]

read_index_ == Len(rd.read_buffers_)

----------------------------------------------------------------------------
\* Slip: the limit of the buffer is forgotten.
ReceivedAll == Len(arrived)

\* recv returns what is there and fits
Received == Min({Len(arrived), kREAD_BUFFER_SIZE - read_index_})

ReadOnceOk ==
    /\ arrived # <<>>
    /\ read_index_ < kREAD_BUFFER_SIZE
    /\ rd' = [rd EXCEPT !.read_buffers_ = @ \o SubSeq(arrived, 1, Received)]
    /\ arrived' = SubSeq(arrived, Received + 1, Len(arrived))
    /\ line_status' = "LINE_OK"

\* the buffer is full
ReadOnceFails == read_index_ >= kREAD_BUFFER_SIZE

----------------------------------------------------------------------------
\* The first CR or LF from checked_idx_ on decides: [status, checked_idx_].
ParseLine ==
    LET b == rd.read_buffers_
        ends == {i \in rd.checked_idx_ + 1 .. Len(b) : b[i] \in {CR, LF}}
        k == Min(ends)
    IN  IF ends = {} THEN <<"LINE_OPEN", Len(b)>>
        ELSE IF b[k] = CR /\ k = Len(b) THEN <<"LINE_OPEN", k - 1>>
        ELSE IF b[k] = CR /\ b[k + 1] = LF THEN <<"LINE_OK", k + 1>>
        ELSE IF b[k] = LF /\ k > 2 /\ b[k - 1] = CR THEN <<"LINE_OK", k>>
        ELSE <<"LINE_BAD", k - 1>>

\* the body is taken as it is, once in a call of ProcessRead
TakesContent == rd.check_state_ = "CHECK_STATE_CONTENT" /\ line_status = "LINE_OK"

HasLine == ~TakesContent /\ ParseLine[1] = "LINE_OK"

\* GetLine: the text the turn looks at
Text == SubSeq(rd.read_buffers_, rd.start_line_ + 1, ParseLine[2] - 2)

\* checked_idx_ and start_line_ after the test of the loop
Advance(r, i) == [r EXCEPT !.checked_idx_ = i, !.start_line_ = i]

\* ParseRequestLine
RequestLineTurn ==
    /\ HasLine /\ rd.check_state_ = "CHECK_STATE_REQUESTLINE"
    /\ Len(Text) = 1 /\ Text[1] \in DOMAIN RequestLines
    /\ rd' = [Advance(rd, ParseLine[2]) EXCEPT
                 !.url_ = RequestLines[Text[1]].url_,
                 !.cgi_ = RequestLines[Text[1]].cgi_,
                 !.check_state_ = "CHECK_STATE_HEADER"]
    /\ line_status' = "LINE_OK"
    /\ UNCHANGED arrived

BadRequestLine ==
    /\ HasLine /\ rd.check_state_ = "CHECK_STATE_REQUESTLINE"
    /\ Len(Text) = 1 => Text[1] \notin DOMAIN RequestLines
    /\ rd' = Advance(rd, ParseLine[2])
    /\ UNCHANGED <<arrived, line_status>>

\* ParseHeaders, a line with something on it
HeaderTurn ==
    /\ HasLine /\ rd.check_state_ = "CHECK_STATE_HEADER"
    /\ Text # <<>>
    /\ rd' = [Advance(rd, ParseLine[2]) EXCEPT
                 !.socket_linger_opt_ = @ \/ Text = <<KeepAlive>>,
                 !.content_length_ = IF Text = <<ContentLength>> THEN BodyLen ELSE @]
    /\ line_status' = "LINE_OK"
    /\ UNCHANGED arrived

\* Slip: the text of the body is taken to begin at the blank line.
ContentFollowsLate ==
    /\ HasLine /\ rd.check_state_ = "CHECK_STATE_HEADER"
    /\ Text = <<>> /\ rd.content_length_ # 0
    /\ rd' = [rd EXCEPT !.checked_idx_ = ParseLine[2], !.check_state_ = "CHECK_STATE_CONTENT"]
    /\ line_status' = "LINE_OK"
    /\ UNCHANGED arrived

\* ParseHeaders, the blank line before a body
ContentFollows ==
    /\ HasLine /\ rd.check_state_ = "CHECK_STATE_HEADER"
    /\ Text = <<>> /\ rd.content_length_ # 0
    /\ rd' = [Advance(rd, ParseLine[2]) EXCEPT !.check_state_ = "CHECK_STATE_CONTENT"]
    /\ line_status' = "LINE_OK"
    /\ UNCHANGED arrived

\* ParseHeaders, the blank line that ends the request
HeaderEnds ==
    /\ HasLine /\ rd.check_state_ = "CHECK_STATE_HEADER"
    /\ Text = <<>> /\ rd.content_length_ = 0
    /\ rd' = Advance(rd, ParseLine[2])
    /\ UNCHANGED <<arrived, line_status>>

\* what is read at heard_string_
HeardText == SubSeq(rd.read_buffers_, rd.heard_string_ + 1,
                    rd.heard_string_ + rd.content_length_)

\* where the text of the body starts, and where checked_idx_ stands
ContentAt ==
    IF TakesContent THEN <<rd.start_line_, rd.checked_idx_>>
    ELSE <<rd.start_line_, ParseLine[2]>>

InContent == rd.check_state_ = "CHECK_STATE_CONTENT" /\ (TakesContent \/ HasLine)

\* ParseContent: the body is there ...
ContentEnds ==
    /\ InContent
    /\ read_index_ >= rd.content_length_ + ContentAt[2]
    /\ rd' = [Advance(rd, ContentAt[2]) EXCEPT
                 !.heard_string_ = ContentAt[1]]
    /\ UNCHANGED <<arrived, line_status>>

\* ... or not yet
ContentTurn ==
    /\ InContent
    /\ read_index_ < rd.content_length_ + ContentAt[2]
    /\ rd' = Advance(rd, ContentAt[2])
    /\ line_status' = "LINE_OPEN"
    /\ UNCHANGED arrived

\* The loop ends: no further line.
NoLine ==
    /\ ~TakesContent /\ ParseLine[1] # "LINE_OK"
    /\ rd' = [rd EXCEPT !.checked_idx_ = ParseLine[2]]
    /\ line_status' = ParseLine[1]
    /\ UNCHANGED arrived

\* a turn after which ProcessRead goes on, has the request, or has BAD_REQUEST
TurnMore == RequestLineTurn \/ HeaderTurn \/ ContentFollows \/ ContentTurn
TurnRequest == HeaderEnds \/ ContentEnds
=============================================================================
