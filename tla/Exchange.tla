------------------------------- MODULE Exchange -------------------------------
(***************************************************************************)
(* What a connection promises to its client: it asks one request after the *)
(* other, and what it gets is at any time the beginning of the answer to   *)
(* the request it asked last, never a byte that is wrong, missing, out of  *)
(* order or meant for an earlier request.  The server may close at any     *)
(* time.                                                                   *)
(***************************************************************************)
EXTENDS Naturals, Sequences

CONSTANTS
    Requests,       \* what a client may ask
    Answer(_),      \* the bytes it should get; <<>> when there is no answer
    KeepsAlive(_),  \* whether the connection outlives the answer
    Closed,         \* no connection
    Idle            \* a connection on which nothing is asked

VARIABLES
    want,   \* the request in progress, Idle or Closed
    got     \* what the client got for it

vars == <<want, got>>

Init == want = Closed /\ got = <<>>

Connect ==
    /\ want = Closed
    /\ want' = Idle
    /\ UNCHANGED got

Ask(r) ==
    /\ want = Idle
    /\ want' = r
    /\ UNCHANGED got

Send ==
    /\ want \in Requests
    /\ \E n \in Len(got) + 1 .. Len(Answer(want)) : got' = SubSeq(Answer(want), 1, n)
    /\ UNCHANGED want

Satisfied ==
    /\ want \in Requests
    /\ got = Answer(want) /\ got # <<>>
    /\ KeepsAlive(want)
    /\ want' = Idle
    /\ got' = <<>>

Close ==
    /\ want # Closed
    /\ want' = Closed
    /\ got' = <<>>

Next ==
    \/ Connect
    \/ \E r \in Requests : Ask(r)
    \/ Send \/ Satisfied \/ Close

Spec == Init /\ [][Next]_vars
=============================================================================
