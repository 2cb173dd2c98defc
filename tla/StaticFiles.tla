------------------------------- MODULE StaticFiles -------------------------------
(***************************************************************************)
(* StaticFiles::serve (src/static_files.rs) and the HTTP/1.1 drain of the  *)
(* file body it returns, while somebody replaces, rewrites or removes the  *)
(* file: one system call at a time. One client asks again and again, keeps *)
(* what it gets, resumes what was cut short and revalidates what it has.   *)
(***************************************************************************)
EXTENDS Integers, Sequences, FiniteSetsExt, StreamChunk

CONSTANTS None,
          Requests,      \* what the client may ask for, see Request
          Lengths,       \* lengths of the versions of the file
          MaxVersions    \* bound: changes of the file's content

ASSUME FilesAssumption ==
    /\ MaxVersions \in Nat \ {0}
    /\ Lengths \subseteq Nat
    /\ None \notin Nat /\ None \notin Nat \X Nat
    /\ \A r \in Requests :
          /\ r.range.form = "suffix" => r.range.n \in Nat
          /\ r.range.form \in {"from", "between"} => r.range.a \in Nat
          /\ r.range.form = "between" => r.range.b \in Nat

VARIABLES
    versions,  \* all contents the file ever had: [len, mtime]
    inode,     \* the version each inode holds
    name,      \* the inode the file's name leads to, or None
    rewritten, \* an inode has been written to in place
    confined,  \* openat2 is there (feature hardened-fs, and the kernel)
    at,        \* where the handler, then the connection, is
    req,
    meta,      \* the version whose metadata serve goes by
    file,      \* the inode that is open
    resp,      \* the response's head
    got,       \* the body bytes the client has of it
    cut,       \* the connection was closed before the body's end
    copy       \* what the client keeps: a prefix of the file and its validators

disk    == <<versions, inode, name, rewritten>>
fileVars == <<disk, confined, at, req, meta, file, resp, got, cut, copy>>

\* A byte is known by the version and the offset it stands for.
Contents(v) == [k \in 1..versions[v].len |-> [of |-> v, at |-> k - 1]]

NoCopy == [etag |-> None, since |-> None, total |-> 0, bytes |-> <<>>]
Whole  == copy # NoCopy /\ Len(copy.bytes) = copy.total

----------------------------------------------------------------------------
(***************************************************************************)
(* The file system: a second may see several changes.                      *)
(***************************************************************************)
Changes(v) ==
    /\ Len(versions) < MaxVersions
    /\ \E len \in Lengths, second \in {0, 1} :
          versions' = Append(versions, [len |-> len, mtime |-> versions[Len(versions)].mtime + second])
    /\ v = Len(versions) + 1
    /\ UNCHANGED <<confined, at, req, meta, file, resp, got, cut, copy>>

\* A new file is renamed over the old one, or put where none was.
Replace ==
    \E v \in 2..MaxVersions :
        /\ Changes(v)
        /\ inode' = Append(inode, v) /\ name' = Len(inode')
        /\ UNCHANGED rewritten

\* The file is truncated, or written to.
Rewrite ==
    \E v \in 2..MaxVersions :
        /\ name # None /\ Changes(v)
        /\ inode' = [inode EXCEPT ![name] = v] /\ rewritten' = TRUE
        /\ UNCHANGED name

Remove ==
    /\ name # None /\ name' = None
    /\ UNCHANGED <<versions, inode, rewritten, confined, at, req, meta, file, resp, got, cut, copy>>

----------------------------------------------------------------------------
(***************************************************************************)
(* serve, up to the open file and its metadata.                            *)
(***************************************************************************)
Answer(status) == [status |-> status, etag |-> None, since |-> None, total |-> 0, start |-> 0, length |-> 0]

Kept == UNCHANGED <<disk, confined, req, got, cut, copy>>

Goes(place) == at' = place /\ UNCHANGED resp /\ Kept

Refuses(status) == at' = "done" /\ resp' = Answer(status) /\ UNCHANGED <<meta, file>> /\ Kept

\* A copy is revalidated when it is whole.
Asks(r) ==
    /\ at = "idle" /\ r \in Requests
    /\ r.match \in {"etag", "since"} => Whole
    /\ req' = r
    /\ CASE r.method \notin {"GET", "HEAD"} -> at' = "done" /\ resp' = Answer(405)
         [] r.method \in {"GET", "HEAD"} /\ r.path = "unsafe" -> at' = "done" /\ resp' = Answer(404)
         [] OTHER -> at' = "metadata" /\ UNCHANGED resp
    /\ UNCHANGED <<disk, confined, meta, file, got, cut, copy>>

\* The path leads to the file, or to a directory whose index the file is.
Metadata ==
    /\ at = "metadata"
    /\ \/ req.path = "file" /\ name = None /\ Refuses(404)
       \/ req.path = "dir" /\ Refuses(301)
       \/ (req.path = "file" => name # None) /\ req.path # "dir"
          /\ Goes(IF confined THEN "open beneath" ELSE "metadata again") /\ UNCHANGED <<meta, file>>

OpenBeneath ==
    /\ at = "open beneath"
    /\ \/ name = None /\ Refuses(404)
       \/ name # None /\ file' = name /\ Goes("fstat") /\ UNCHANGED meta

\* Mutant: the metadata of an open file are asked for by its name.
MetadataByName == IF name = None THEN inode[file] ELSE inode[name]

\* The metadata are those of the open file.
MetadataOfFile == inode[file]

Fstat ==
    /\ at = "fstat"
    /\ meta' = MetadataOfFile /\ Goes("respond") /\ UNCHANGED file

\* Without openat2: a stat, the check against the root, an open, each by name.
MetadataAgain ==
    /\ at = "metadata again"
    /\ \/ name = None /\ Refuses(404)
       \/ name # None /\ meta' = inode[name] /\ Goes("within root") /\ UNCHANGED file

WithinRoot ==
    /\ at = "within root"
    /\ \/ name = None /\ Refuses(404)
       \/ name # None /\ Goes("open") /\ UNCHANGED <<meta, file>>

OpenByName ==
    /\ at = "open"
    /\ \/ name = None /\ Refuses(404)
       \/ Refuses(500)
       \/ name # None /\ file' = name /\ Goes("respond") /\ UNCHANGED meta

----------------------------------------------------------------------------
(***************************************************************************)
(* The response.                                                           *)
(***************************************************************************)
\* Mutant: the validator is made of the length alone.
ETagOfLength(v) == <<versions[v].len>>

\* "len-mtime", in seconds.
ETag(v) == <<versions[v].len, versions[v].mtime>>

\* If-Modified-Since counts only without If-None-Match.
ConditionalHit ==
    CASE req.match = "any"   -> TRUE
      [] req.match = "etag"  -> copy.etag = ETag(meta)
      [] req.match = "since" -> copy.since = versions[meta].mtime
      [] OTHER -> FALSE

\* Mutant: the end of a range is clamped to the length.
LastByteOff(b, total) == Min({b, total})

LastByte(b, total) == Min({b, total - 1})

\* parse_single_range, as the set of its results: none or one. A header with
\* several ranges, or that cannot be parsed, has none.
SingleRange(r, total) ==
    LET ends == CASE r.form = "suffix"  -> {<<total - Min({r.n, total}), total - 1>> : x \in {1} \cap 1..r.n}
                  [] r.form = "from"    -> {<<r.a, total - 1>>}
                  [] r.form = "between" -> {<<r.a, LastByte(r.b, total)>>}
                  [] OTHER -> {}
    IN  {e \in ends : total # 0 /\ e[1] <= e[2] /\ e[1] < total}

\* A header of another unit than bytes is as good as none.
Respond ==
    LET total == versions[meta].len
        ranges == SingleRange(req.range, total)
        tagged == [Answer(200) EXCEPT !.etag = ETag(meta), !.since = versions[meta].mtime, !.total = total]
    IN  /\ at = "respond"
        /\ \/ /\ ConditionalHit
              /\ resp' = [tagged EXCEPT !.status = 304] /\ at' = "done"
           \/ /\ ~ConditionalHit
              /\ \E e \in ranges :
                    resp' = [tagged EXCEPT !.status = 206, !.start = e[1], !.length = e[2] - e[1] + 1]
              /\ at' = "send"
           \/ /\ ~ConditionalHit /\ ranges = {} /\ req.range.form \notin {"none", "other"}
              /\ resp' = [Answer(416) EXCEPT !.total = total] /\ at' = "done"
           \/ /\ ~ConditionalHit /\ ranges = {} /\ req.range.form \in {"none", "other"}
              /\ resp' = [tagged EXCEPT !.length = total] /\ at' = "send"
        /\ UNCHANGED <<meta, file>> /\ Kept

----------------------------------------------------------------------------
(***************************************************************************)
(* The drain of the body, and the client.                                  *)
(***************************************************************************)
\* take_out: the next piece from the open file; one that comes up short closes
\* the connection. A response to HEAD has no body to read.
TakeFile ==
    LET offset == resp.start + Len(got)
        want == Min({resp.length - Len(got), STREAM_CHUNK})
        whole == Contents(inode[file])
        piece == SubSeq(whole, offset + 1, Min({offset + want, Len(whole)}))
    IN  /\ at = "send"
        /\ IF req.method = "HEAD" \/ resp.length = 0
           THEN at' = "done" /\ UNCHANGED <<got, cut>>
           ELSE /\ got' = got \o piece
                /\ cut' = (Len(piece) < want)
                /\ at' = IF Len(piece) < want \/ Len(got') = resp.length THEN "done" ELSE "send"
        /\ UNCHANGED <<disk, confined, req, meta, file, resp, copy>>

ConnectionLost ==
    /\ at = "send" /\ req.method = "GET" /\ Len(got) < resp.length
    /\ at' = "done" /\ cut' = TRUE
    /\ UNCHANGED <<disk, confined, req, meta, file, resp, got, copy>>

\* A part is kept if it continues what the client has under the same tag.
Continues == copy.etag = resp.etag /\ resp.start = Len(copy.bytes) /\ ~Whole

Receive ==
    /\ at = "done" /\ at' = "idle"
    /\ copy' = CASE req.method = "GET" /\ resp.status = 200 ->
                      [etag |-> resp.etag, since |-> resp.since, total |-> resp.total, bytes |-> got]
                 [] req.method = "GET" /\ resp.status = 206 /\ Continues ->
                      [copy EXCEPT !.bytes = @ \o got]
                 [] OTHER -> copy
    /\ req' = None /\ meta' = None /\ file' = None /\ resp' = None /\ got' = <<>> /\ cut' = FALSE
    /\ UNCHANGED <<disk, confined>>

FilesInit ==
    /\ \E len \in Lengths : versions = <<[len |-> len, mtime |-> 0]>>
    /\ inode = <<1>> /\ name = 1 /\ rewritten = FALSE
    /\ confined \in BOOLEAN
    /\ at = "idle" /\ req = None /\ meta = None /\ file = None /\ resp = None
    /\ got = <<>> /\ cut = FALSE /\ copy = NoCopy

FilesNext ==
    \/ Replace \/ Rewrite \/ Remove
    \/ \E r \in Requests : Asks(r)
    \/ Metadata \/ OpenBeneath \/ Fstat \/ MetadataAgain \/ WithinRoot \/ OpenByName
    \/ Respond \/ TakeFile \/ ConnectionLost \/ Receive

FilesSpec == FilesInit /\ [][FilesNext]_fileVars

----------------------------------------------------------------------------
(***************************************************************************)
(* Properties.                                                             *)
(***************************************************************************)
\* The offsets a single range asks for, by RFC 9110, 14.1.2.
Wanted(r, total) ==
    {k \in 0..total - 1 :
        CASE r.form = "suffix"  -> k >= total - r.n
          [] r.form = "from"    -> k >= r.a
          [] r.form = "between" -> r.a <= k /\ k <= r.b}

\* A single range gets what it asks for, or a 416 if that is nothing; and a body
\* that was not cut has the bytes that were promised, at their offsets, whatever
\* became of the file meanwhile.
AnswersTheRange ==
    /\ (/\ at \in {"send", "done"} /\ resp.status \in {200, 206, 416}
        /\ req.range.form \in {"suffix", "from", "between"}) =>
          LET wanted == Wanted(req.range, resp.total)
          IN  IF wanted = {} THEN resp.status = 416
              ELSE resp.status = 206 /\ resp.start..(resp.start + resp.length - 1) = wanted
    /\ at = "done" /\ ~cut /\ req.method = "GET" /\ resp.status \in {200, 206} =>
          [k \in DOMAIN got |-> got[k].at] = [k \in 1..resp.length |-> resp.start + k - 1]

\* Each change of the file fell in a second of its own.
Distinct == \A v, w \in DOMAIN versions : versions[v].mtime = versions[w].mtime => v = w

\* A 304 confirms a copy only if it is the file as it stands: a tag is never newer
\* than the bytes that were sent under it, although name, metadata and bytes are
\* read one after the other and the client may have put its copy together from
\* parts.
ConfirmedIsCurrent ==
    at = "done" /\ resp.status = 304 /\ req.match # "any" /\ Distinct =>
        copy.bytes = Contents(meta)

\* Behind openat2, a copy of a file that is only ever replaced is one version of
\* it, and the tag is that version's: "acquire the file and its metadata
\* race-free" (static_files.rs:316), even when it was put together from parts.
OneVersion ==
    Whole /\ confined /\ ~rewritten /\ Distinct =>
        \E v \in DOMAIN versions : copy.bytes = Contents(v) /\ copy.etag = ETag(v)

\* "multi-range requests fall back to the full body" (static_files.rs:140-141).
ManyRangesGetAll ==
    (at = "done" /\ req.range.form = "many") => resp.status # 416
==================================================================================
