------------------------------ MODULE MCHttpConn ------------------------------
(* The table of lines and files for TLC.                                     *)
EXTENDS HttpConn

Req(line, keep, body, crlf) == [line |-> line, keep |-> keep, body |-> body, crlf |-> crlf]

Page(kind, size) == [kind |-> kind, st_size |-> size]

MCPages ==
    [page |-> Page("file", 2), empty |-> Page("file", 0),
     huge |-> Page("file", 5), wraps |-> Page("file", 12),
     root |-> Page("directory", 3), secret |-> Page("secret", 3),
     gone |-> Page("missing", 0)]

MCRequestLines ==
    [p \in DOMAIN MCPages \cup {"login"} |->
        IF p = "login" THEN [cgi_ |-> 1, url_ |-> "page"] ELSE [cgi_ |-> 0, url_ |-> p]]

BodyA == <<"ann", "one">>
BodyB == <<"bob", "two">>

Plain(p) == Req(p, TRUE, <<>>, TRUE)

MCRequests ==
    {Req("page", FALSE, <<>>, TRUE), Req("page", FALSE, <<>>, FALSE),
     Req("login", FALSE, BodyA, TRUE), Req("login", TRUE, BodyB, TRUE)}
    \cup {Plain(p) : p \in {"page", "login", "junk", "empty", "huge", "wraps", "root",
                            "secret", "gone"}}

PostOnly == {Req("login", TRUE, BodyA, TRUE)}
=============================================================================
