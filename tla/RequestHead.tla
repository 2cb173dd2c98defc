------------------------------ MODULE RequestHead ------------------------------
(***************************************************************************)
(* What the HTTP/1 engine makes of a request's head (src/proto/conn.rs):   *)
(* whether it parses, how the body is delimited, whether the connection    *)
(* persists. A header line is a record of its kind and of the part of its  *)
(* value these decisions read:                                             *)
(*   "te"          a Transfer-Encoding field: the sequence of its codings  *)
(*   "cl"          a Content-Length field: a number, or NotANumber         *)
(*   "connection"  a Connection field: the set of its tokens               *)
(*   "expect"      a field asking for 100-continue                         *)
(*   "field"       any other field                                         *)
(*   "no colon", "folded", "bad name", "bad value", "bare LF", "bare CR"   *)
(*                 lines that are not quite header fields                  *)
(***************************************************************************)
EXTENDS Integers, Sequences, FiniteSets

CONSTANTS MAX_HEADER_FIELDS, \* the most header lines a head may have
          NotANumber         \* a Content-Length that is not a run of digits

ASSUME HeadAssumption == MAX_HEADER_FIELDS \in Nat /\ NotANumber \notin Nat

Line(kind, value) == [kind |-> kind, value |-> value]

\* The values of the fields of one kind, by the place of their line.
FieldsOf(fields, kind) == {i \in DOMAIN fields : fields[i].kind = kind}

(***************************************************************************)
(* parse_head: the lenient mode forgives a bare LF and a missing colon.    *)
(***************************************************************************)
AlwaysRefused  == {"folded", "bad name", "bad value", "bare CR"}
StrictlyRefused == {"no colon", "bare LF"}

ParseFails(head, lenient) ==
    \/ ~head.requestLine
    \/ Len(head.fields) > MAX_HEADER_FIELDS
    \/ \E i \in DOMAIN head.fields :
          \/ head.fields[i].kind \in AlwaysRefused
          \/ ~lenient /\ head.fields[i].kind \in StrictlyRefused

(***************************************************************************)
(* final_coding_is_chunked: over all Transfer-Encoding fields in order,    *)
(* "chunked" is named once, and last.                                      *)
(***************************************************************************)
Codings(fields) ==
    UNION {{<<i, j>> : j \in DOMAIN fields[i].value} : i \in FieldsOf(fields, "te")}

FinalCodingIsChunked(fields) ==
    \E last \in Codings(fields) :
        /\ {c \in Codings(fields) : fields[c[1]].value[c[2]] = "chunked"} = {last}
        /\ \A c \in Codings(fields) :
              c[1] < last[1] \/ (c[1] = last[1] /\ c[2] <= last[2])

\* body_framing: Transfer-Encoding and Content-Length exclude each other, all
\* Content-Length fields agree, and a length of zero is no body.
Lengths(fields) == {fields[i].value : i \in FieldsOf(fields, "cl")}

BodyFraming(fields) ==
    LET te == FieldsOf(fields, "te")
        cl == FieldsOf(fields, "cl")
    IN  CASE te # {} /\ cl # {} -> [kind |-> "refused", len |-> 0]
          [] te # {} /\ cl = {} ->
                [kind |-> IF FinalCodingIsChunked(fields) THEN "chunked" ELSE "refused",
                 len |-> 0]
          [] te = {} /\ (NotANumber \in Lengths(fields) \/ Cardinality(Lengths(fields)) > 1) ->
                [kind |-> "refused", len |-> 0]
          [] te = {} /\ Lengths(fields) \subseteq {0} -> [kind |-> "none", len |-> 0]
          [] OTHER -> [kind |-> "length", len |-> CHOOSE n \in Lengths(fields) : TRUE]

\* negotiate_keep_alive: "close" wins over "keep-alive", which wins over the
\* default of the version.
ConnectionTokens(fields) == UNION {fields[i].value : i \in FieldsOf(fields, "connection")}

KeepAlive(version, fields) ==
    /\ "close" \notin ConnectionTokens(fields)
    /\ "keep-alive" \in ConnectionTokens(fields) \/ version = "1.1"

Expects100(fields) == FieldsOf(fields, "expect") # {}
================================================================================
