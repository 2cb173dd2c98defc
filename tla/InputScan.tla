------------------------------- MODULE InputScan -------------------------------
(***************************************************************************)
(* The two scanners of src/proto/conn.rs that are resumed where the last   *)
(* poll left them, byte by byte: the search for the end of a head (strict, *)
(* or lenient about line endings) and the decoder of a chunked body.       *)
(* A poll may come after any byte, so every way to cut the input into at   *)
(* most MaxBurst bytes is a behaviour.                                     *)
(***************************************************************************)
EXTENDS Integers, Sequences, FiniteSets

CONSTANTS MAX_CHUNK_LINE_BYTES, MAX_TRAILER_BYTES,
          MaxHeader,    \* Limits.max_header_bytes
          MaxBody,      \* Limits.max_body_bytes
          MaxInput,     \* bound: bytes that arrive
          MaxBurst      \* bound: bytes that arrive between two polls

ASSUME ScanAssumption ==
    {MAX_CHUNK_LINE_BYTES, MAX_TRAILER_BYTES, MaxHeader, MaxBody, MaxInput, MaxBurst} \subseteq Nat

VARIABLES mode,   \* what is scanned for
          data,   \* the bytes of the region, as buffered so far
          scan,   \* where the scanner is
          polled  \* how many bytes there were at the last poll

scanVars == <<mode, data, scan, polled>>

\* "1" and "0" stand for the hexadecimal digits, "x" for every other byte that
\* is not a delimiter. Heads need no digits.
BodyBytes == {"0", "1", "x", ";", "CR", "LF"}
HeadBytes == {"x", "CR", "LF"}
Blanks == {"CR", "LF"}

\* Offsets are the code's: data[k + 1] is the byte at offset k.
At(d, k) == d[k + 1]

Least(S) == CHOOSE k \in S : \A m \in S : k <= m

CrLfs(d, from) == {k \in from..Len(d) - 2 : At(d, k) = "CR" /\ At(d, k + 1) = "LF"}

----------------------------------------------------------------------------
(***************************************************************************)
(* The end of the head: find_subslice and find_head_end_lenient, as the    *)
(* set of places where each would stop, and poll_request around them.      *)
(***************************************************************************)
StrictEnds(d, from) ==
    {[end |-> k, body |-> k + 4] : k \in CrLfs(d, from) \cap {k \in 0..Len(d) : k + 2 \in CrLfs(d, from)}}

LineEnd(d, lf) == IF lf > 0 /\ At(d, lf - 1) = "CR" THEN lf - 1 ELSE lf

\* Mutant: an empty line must end in a bare LF too.
LenientEndsLf(d, from) ==
    LET lfs == {k \in from..Len(d) - 1 : At(d, k) = "LF"}
    IN  {[end |-> LineEnd(d, lf), body |-> lf + 2] : lf \in {k \in lfs : k + 1 \in lfs}}

LenientEnds(d, from) ==
    LET lfs == {k \in from..Len(d) - 1 : At(d, k) = "LF"}
    IN  {[end |-> LineEnd(d, lf), body |-> lf + 2] : lf \in {k \in lfs : k + 1 \in lfs}}
        \cup {[end |-> LineEnd(d, lf), body |-> lf + 3] : lf \in {k \in lfs : k + 1 \in CrLfs(d, from)}}

Ends(d, from) == IF mode = "lenient" THEN LenientEnds(d, from) ELSE StrictEnds(d, from)

FreshHead == [state |-> "search", scanned |-> 0]

First(ends) == CHOOSE e \in ends : \A f \in ends : e.body <= f.body

\* Mutant: the search is resumed where it stopped, not three bytes before.
PollHeadNoStepBack(d, s) ==
    LET found == Ends(d, s.scanned)
        first == First(found)
    IN  IF found = {}
        THEN IF Len(d) > MaxHeader THEN [state |-> "refused"]
             ELSE [s EXCEPT !.scanned = Len(d)]
        ELSE IF first.end > MaxHeader THEN [state |-> "refused"]
             ELSE [state |-> "found", end |-> first.end, body |-> first.body]

\* poll_request up to the found head, resumed three bytes back.
PollHead(d, s) ==
    LET found == Ends(d, IF s.scanned > 3 THEN s.scanned - 3 ELSE 0)
        first == First(found)
    IN  IF found = {}
        THEN IF Len(d) > MaxHeader THEN [state |-> "refused"]
             ELSE [s EXCEPT !.scanned = Len(d)]
        ELSE IF first.end > MaxHeader THEN [state |-> "refused"]
             ELSE [state |-> "found", end |-> first.end, body |-> first.body]

----------------------------------------------------------------------------
(***************************************************************************)
(* ChunkDecoder. A state that does not change under Step waits for bytes.  *)
(***************************************************************************)
Decoder(state, pos, out, left) ==
    [state |-> state, pos |-> pos, out |-> out, left |-> left]

FreshBody == Decoder("size", 0, <<>>, 0)

Failed(status) == [state |-> "refused", status |-> status]

\* The size line without its extension and, for str::trim, without the blanks
\* around it, which can be line ends too: hexadecimal digits, at least one.
\* (Digits beyond usize are a 400 in the code; here they are over MaxBody.)
Digits(d, from, eol) ==
    LET end   == Least({k \in from..eol : k = eol \/ At(d, k) = ";"})
        last  == Least({k \in from..end : \A j \in k..end - 1 : At(d, j) \in Blanks})
        first == Least({k \in from..last : k = last \/ At(d, k) \notin Blanks})
    IN  SubSeq(d, first + 1, last)

IsHex(line) == line # <<>> /\ \A k \in DOMAIN line : line[k] \in {"0", "1"}

HexValue(line) ==
    LET value[k \in 0..Len(line)] ==
            IF k = 0 THEN 0 ELSE 16 * value[k - 1] + (IF line[k] = "1" THEN 1 ELSE 0)
    IN  value[Len(line)]

SizeStep(d, c) ==
    LET ends == CrLfs(d, c.pos)
        eol  == Least(ends)
        line == Digits(d, c.pos, eol)
        size == HexValue(line)
    IN  CASE ends = {} /\ Len(d) - c.pos > MAX_CHUNK_LINE_BYTES -> Failed(400)
          [] ends = {} /\ Len(d) - c.pos <= MAX_CHUNK_LINE_BYTES -> c
          [] ends # {} /\ eol - c.pos > MAX_CHUNK_LINE_BYTES -> Failed(400)
          [] OTHER ->
                CASE ~IsHex(line) -> Failed(400)
                  [] IsHex(line) /\ size = 0 -> Decoder("trailer", eol + 2, c.out, eol + 2)
                  [] IsHex(line) /\ size > 0 /\ Len(c.out) + size > MaxBody -> Failed(413)
                  [] OTHER -> Decoder("data", eol + 2, c.out, size)

DataStep(d, c) ==
    LET avail == Len(d) - c.pos
        take  == IF c.left < avail THEN c.left ELSE avail
    IN  Decoder(IF c.left = take THEN "dataCrlf" ELSE "data", c.pos + take,
                c.out \o SubSeq(d, c.pos + 1, c.pos + take), c.left - take)

DataCrlfStep(d, c) ==
    CASE Len(d) < c.pos + 2 -> c
      [] Len(d) >= c.pos + 2 /\ c.pos \notin CrLfs(d, c.pos) -> Failed(400)
      [] OTHER -> Decoder("size", c.pos + 2, c.out, c.left)

\* Mutant: the first line after the last chunk ends the body, empty or not.
TrailerStepOneLine(d, c) ==
    LET ends == CrLfs(d, c.pos)
    IN  CASE ends = {} -> IF Len(d) - c.left > MAX_TRAILER_BYTES THEN Failed(400) ELSE c
          [] OTHER -> [state |-> "done", pos |-> Least(ends) + 2, out |-> c.out]

\* In the trailer `left' is where the section began.
TrailerStep(d, c) ==
    LET ends == CrLfs(d, c.pos)
    IN  CASE c.pos - c.left > MAX_TRAILER_BYTES -> Failed(400)
          [] c.pos - c.left <= MAX_TRAILER_BYTES /\ ends = {} ->
                IF Len(d) - c.left > MAX_TRAILER_BYTES THEN Failed(400) ELSE c
          [] OTHER ->
                IF Least(ends) = c.pos
                THEN [state |-> "done", pos |-> c.pos + 2, out |-> c.out]
                ELSE Decoder("trailer", Least(ends) + 2, c.out, c.left)

Step(d, c) ==
    CASE c.state = "size"      -> SizeStep(d, c)
      [] c.state = "data"      -> DataStep(d, c)
      [] c.state = "dataCrlf" -> DataCrlfStep(d, c)
      [] c.state = "trailer"   -> TrailerStep(d, c)
      [] OTHER -> c

\* The loop of advance. A turn that changes anything consumes a byte or is the
\* last, so that there are no more of them than there are bytes, and one.
Advance(d, c) ==
    LET turn[n \in 0..Len(d) + 1] == IF n = 0 THEN c ELSE Step(d, turn[n - 1])
    IN  turn[Len(d) + 1]

----------------------------------------------------------------------------
Poll(d, s) == IF mode = "body" THEN Advance(d, s) ELSE PollHead(d, s)

Fresh == IF mode = "body" THEN FreshBody ELSE FreshHead

Ended == scan.state \in {"found", "done", "refused"}

Feed(b) ==
    /\ ~Ended /\ Len(data) < MaxInput /\ Len(data) < polled + MaxBurst
    /\ data' = Append(data, b)
    /\ UNCHANGED <<mode, scan, polled>>

PollRequest ==
    /\ ~Ended /\ polled < Len(data)
    /\ scan' = Poll(data, scan)
    /\ polled' = Len(data)
    /\ UNCHANGED <<mode, data>>

ScanInit ==
    /\ mode \in {"strict", "lenient", "body"}
    /\ data = <<>>
    /\ scan = Fresh
    /\ polled = 0

ScanNext ==
    \/ \E b \in IF mode = "body" THEN BodyBytes ELSE HeadBytes : Feed(b)
    \/ PollRequest

ScanSpec == ScanInit /\ [][ScanNext]_scanVars

----------------------------------------------------------------------------
(***************************************************************************)
(* A chunked body by its grammar (RFC 9112, 7.1): chunks, a last chunk, a  *)
(* trailer; but the digits of a size line may have blanks around them.     *)
(* What is at offsets from..to - 1 of d is said of d, from, to.            *)
(***************************************************************************)
IsLine(d, from, to) == to - 2 \in CrLfs(d, from) /\ \A k \in CrLfs(d, from) : to - 2 <= k

IsSizeLine(d, from, to) == IsLine(d, from, to) /\ IsHex(Digits(d, from, to - 2))

SizeOf(d, from, to) == HexValue(Digits(d, from, to - 2))

\* The chunks that can begin at an offset, at most one: their data and their end.
Chunks(d, from) ==
    {[first |-> k, end |-> k + SizeOf(d, from, k)] :
        k \in {k \in from..Len(d) :
                  /\ IsSizeLine(d, from, k) /\ SizeOf(d, from, k) > 0
                  /\ k + SizeOf(d, from, k) \in CrLfs(d, 0)}}

\* What precedes a chunk, with its data.
Joined(d, out, c) == out \o SubSeq(d, c.first + 1, c.end)

Extended(d, before, m, n) ==
    UNION {{Joined(d, out, c) : out \in before} : c \in {c \in Chunks(d, m) : c.end + 2 = n}}

\* The content of the chunks that fill the first n bytes, if there are such chunks.
Content(d, n) ==
    LET upto[i \in 0..n] == IF i = 0 THEN {<<>>}
                           ELSE UNION {Extended(d, upto[m], m, i) : m \in 0..i - 1}
    IN  upto[n]

\* The trailer ends with the first line that is empty.
EmptyLines(d, from) == {k \in CrLfs(d, from) : k = from \/ k - 2 \in CrLfs(d, from)}

IsTrailer(d, from, to) ==
    to - 2 \in EmptyLines(d, from) /\ \A k \in EmptyLines(d, from) : to - 2 <= k

IsLast(d, from, to) ==
    \E k \in from..to :
        IsSizeLine(d, from, k) /\ SizeOf(d, from, k) = 0 /\ IsTrailer(d, k, to)

Bodies(d, to) == UNION {Content(d, n) : n \in {n \in 0..to : IsLast(d, n, to)}}

\* What is decoded is the body: the bytes consumed are a chunked body by the
\* grammar, no more and no less, and the decoded bytes are its content
\* (ChunkDecoder::advance: trailer bytes "not left to be misread as the next
\* request").
DecodesTheBody ==
    mode = "body" /\ scan.state = "done" =>
        /\ Bodies(data, scan.pos) = {scan.out}
        /\ Len(scan.out) <= MaxBody

\* However the input was cut, a scanner that ends without refusing ends as if
\* the input had come in one piece: same end of the head, same body, same place
\* of the next request.
CutsNeverMisread ==
    scan.state \in {"found", "done"} => scan = Poll(data, Fresh)

\* A head that the strict scan accepts ends at the same place for the lenient
\* one, unless a bare LF comes before: lenient parsing splits the input into the
\* same requests (set_lenient: "Everything else stays strict").
BareLf(d, n) == \E k \in 0..n - 1 : At(d, k) = "LF" /\ (k = 0 \/ At(d, k - 1) # "CR")

LenientAgrees ==
    mode = "strict" /\ scan.state = "found" /\ ~BareLf(data, scan.end) =>
        \E e \in LenientEnds(data, 0) :
            /\ e = [end |-> scan.end, body |-> scan.body]
            /\ \A f \in LenientEnds(data, 0) : e.body <= f.body

\* "Every security check matches the one-shot decoder; only the incrementality
\* differs" (conn.rs, ChunkDecoder::advance): what is refused as soon as it
\* arrives would be refused as well had one more byte come with it.
CutsDoNotMatter ==
    mode = "body" /\ scan.state = "refused" =>
        \A b \in BodyBytes : Advance(Append(data, b), FreshBody).state = "refused"
================================================================================
