------------------------------- MODULE MCRequests -------------------------------
(* The two parts of the server that turn a request's bytes into something else  *)
(* without a thread of their own: the scanners of heads and chunked bodies, and *)
(* the static files. A behaviour is one of the first or one of the second.      *)
EXTENDS InputScan, StaticFiles

CONSTANT MaxOdd  \* bound: bytes of a chunked body that are odd

VARIABLE part  \* "scan" or "files"

\* A plain chunked body has none: neither digits nor part of a CRLF.
OddBytes(d) ==
    {k \in DOMAIN d : \/ d[k] \in {"x", ";"}
                      \/ d[k] = "CR" /\ k < Len(d) /\ d[k + 1] # "LF"
                      \/ d[k] = "LF" /\ (k = 1 \/ d[k - 1] # "CR")}

Get == [method |-> "GET", path |-> "file", range |-> [form |-> "none"], match |-> None]

MCRanges ==
    [form : {"suffix"}, n : {0, 1, 4}] \cup [form : {"from"}, a : {0, 1, 3}]
    \cup {[form |-> "between", a |-> 0, b |-> 1], [form |-> "between", a |-> 1, b |-> 0],
          [form |-> "between", a |-> 1, b |-> 9]}
    \cup [form : {"many", "bad", "other"}]

MCRequests ==
    {Get, [Get EXCEPT !.path = "dir"], [Get EXCEPT !.path = "index"], [Get EXCEPT !.path = "unsafe"],
     [Get EXCEPT !.method = "HEAD"], [Get EXCEPT !.method = "POST"]}
    \cup {[Get EXCEPT !.match = m] : m \in {"any", "etag", "since"}}
    \cup {[Get EXCEPT !.range = r] : r \in MCRanges}

\* The part that does not run rests in one of its first states.
MCInit ==
    /\ ScanInit /\ FilesInit
    /\ \/ part = "scan" /\ confined /\ versions[1].len = 0
       \/ part = "files" /\ mode = "body"

MCNext ==
    \/ /\ part = "scan" /\ ScanNext /\ UNCHANGED <<part, fileVars>>
       /\ mode = "body" => Cardinality(OddBytes(data')) <= MaxOdd
    \/ part = "files" /\ FilesNext /\ UNCHANGED <<part, scanVars>>

MCSpec == MCInit /\ [][MCNext]_<<part, scanVars, fileVars>>
================================================================================
