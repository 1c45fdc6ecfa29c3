---------------------------- MODULE ResponseWriter ----------------------------
(***************************************************************************)
(* The half of a slot (http/http_conn.cpp) that makes and sends a          *)
(* response: the file part of DoRequest, ProcessWrite, the loop of Write   *)
(* with its two iovecs and its two counters, and Unmap.                    *)
(*                                                                         *)
(* A byte is its place in what it belongs to: <<head, i>> in the write     *)
(* buffer, whose content is named by head, <<<<"file", page>>, i>> in a     *)
(* mapped file.                                                            *)
(***************************************************************************)
EXTENDS Integers, Sequences

CONSTANTS
    Pages,       \* page -> what stat says: [kind, st_size]
    HeaderLen,   \* length of a status line with its headers
    FormLen,     \* length of an error page, headers included
    IntMax,      \* the largest int, 2^31 - 1
    NULL,        \* a null pointer
    MAP_FAILED   \* what mmap returns when it fails, as it does for no bytes

Files == {p \in DOMAIN Pages : Pages[p].kind = "file"}

ASSUME ResponseWriterAssumption ==
    /\ \A p \in DOMAIN Pages :
          /\ Pages[p].kind \in {"file", "directory", "secret", "missing"}
          /\ Pages[p].st_size \in Nat
    /\ HeaderLen \in Nat \ {0} /\ FormLen \in Nat \ {0}
    /\ IntMax \in Nat /\ HeaderLen <= IntMax /\ FormLen <= IntMax
    /\ NULL \notin DOMAIN Pages /\ MAP_FAILED \notin DOMAIN Pages
    /\ NULL # MAP_FAILED

VARIABLES
    wr,      \* the fields of the slot that a response uses
    mapped   \* page -> mappings of it the process has

writer == <<wr, mapped>>

\* an int keeps the lower bits
Int32(n) == ((n + IntMax + 1) % (2 * (IntMax + 1))) - (IntMax + 1)

\* what HttpClear leaves of w; the iovecs, file_address_ and file_stat_ it leaves alone
Emptied(w) ==
    [w EXCEPT !.write_buffers_ = NULL, !.write_index_ = 0,
              !.all_bytes_have_send_ = 0, !.all_bytes_to_send_ = 0]

NoVec == [base |-> 0, len |-> 0]

\* a slot that was never used
Unused ==
    [write_buffers_ |-> NULL, write_index_ |-> 0,
     all_bytes_have_send_ |-> 0, all_bytes_to_send_ |-> 0,
     iov0 |-> NoVec, iov1 |-> NoVec, iv_count_ |-> 0,
     file_address_ |-> NULL, file_stat_ |-> NULL]

----------------------------------------------------------------------------
\* what mmap may return for the file of page p: neither open nor mmap is checked
MmapReturns(p) == {MAP_FAILED} \cup {f \in {p} : Pages[p].st_size # 0}

\* The end of DoRequest for page p: stat, and mmap, which returns address.  w with
\* what they set, and the status.
DoRequest(p, w, address) ==
    LET s == [w EXCEPT !.file_stat_ = p]
        k == Pages[p].kind
    IN  CASE k = "missing"   -> <<"NO_RESOURCE", w>>
          [] k = "secret"    -> <<"FORBIDDEN_REQUEST", s>>
          [] k = "directory" -> <<"BAD_REQUEST", s>>
          [] k = "file"      -> <<"FILE_REQUEST", [s EXCEPT !.file_address_ = address]>>

\* a response without a file: the write buffer alone
Form(w, head) ==
    [w EXCEPT !.write_buffers_ = head, !.write_index_ = FormLen,
              !.iov0 = [base |-> 0, len |-> FormLen], !.iv_count_ = 1,
              !.all_bytes_to_send_ = FormLen]

\* headers and the mapped file
WithFile(w, head) ==
    LET size == Pages[w.file_stat_].st_size
    IN  [w EXCEPT !.write_buffers_ = head, !.write_index_ = HeaderLen,
                  !.iov0 = [base |-> 0, len |-> HeaderLen],
                  !.iov1 = [base |-> 0, len |-> size], !.iv_count_ = 2,
                  !.all_bytes_to_send_ = Int32(HeaderLen + size)]

\* ProcessWrite refuses when the file has no bytes, or is missing
Refused(status, w) ==
    \/ status = "NO_RESOURCE"
    \/ status = "FILE_REQUEST" /\ Pages[w.file_stat_].st_size = 0

\* AddStatusLine, AddLingerOpt
Title(code, linger) == <<code, IF linger THEN "keep-alive" ELSE "close">>

\* ProcessWrite; head names the response by its status and linger option
ProcessWrite(status, w, linger) ==
    CASE status = "BAD_REQUEST"       -> Form(w, Title("404", linger))
      [] status = "FORBIDDEN_REQUEST" -> Form(w, Title("403", linger))
      [] status = "FILE_REQUEST"      -> WithFile(w, Title("200", linger))

----------------------------------------------------------------------------
\* what writev is given: the rest of the write buffer, the rest of the file
Vectors(w) ==
    [i \in 1 .. w.iov0.len |-> <<w.write_buffers_, w.iov0.base + i>>]
    \o IF w.iv_count_ = 2
       THEN [i \in 1 .. w.iov1.len |-> <<<<"file", w.file_address_>>, w.iov1.base + i>>]
       ELSE <<>>

\* writev is given a file that is not mapped, and takes nothing
BadVector(w) == w.iv_count_ = 2 /\ w.file_address_ = MAP_FAILED

\* An int is compared with a size_t: a negative one counts as large.
HeaderOut(w, have) == have < 0 \/ have >= w.iov0.len

\* Slip: the file is sent from its start again.
SentFromStart(w, n) ==
    LET have == Int32(w.all_bytes_have_send_ + n)
        left == Int32(w.all_bytes_to_send_ - n)
        v    == [w EXCEPT !.all_bytes_have_send_ = have, !.all_bytes_to_send_ = left]
    IN  IF HeaderOut(w, have)
        THEN [v EXCEPT !.iov0.len = 0, !.iov1 = [base |-> 0, len |-> left]]
        ELSE [v EXCEPT !.iov0 = [base |-> have, len |-> w.iov0.len - have]]

\* Write after writev took n bytes: the counters, then the iovecs
Sent(w, n) ==
    LET have == Int32(w.all_bytes_have_send_ + n)
        left == Int32(w.all_bytes_to_send_ - n)
        v    == [w EXCEPT !.all_bytes_have_send_ = have, !.all_bytes_to_send_ = left]
    IN  IF HeaderOut(w, have)
        THEN [v EXCEPT !.iov0.len = 0,
                       !.iov1 = [base |-> have - w.write_index_, len |-> left]]
        ELSE [v EXCEPT !.iov0 = [base |-> have, len |-> w.iov0.len - have]]

\* Slip: the pointer is kept.
UnmapKeeps(w) == w

Unmap(w) == [w EXCEPT !.file_address_ = NULL]

\* munmap ends the mapping when it is given its size
Unmapped(w) ==
    IF /\ w.file_address_ \in Files
       /\ Pages[w.file_stat_].st_size = Pages[w.file_address_].st_size
    THEN [mapped EXCEPT ![w.file_address_] = @ - 1]
    ELSE mapped

=============================================================================
