------------------------------- MODULE Download -------------------------------
(* The program that neupak has fetch its indexes and archives              *)
(* (neupak/src/download.cpp, with the reading of responses of              *)
(* libnet/src/http.cpp): it follows redirections, writes the body of the    *)
(* response to a file, in whatever framing it comes and up to a limit, and  *)
(* reports by its exit code whether the file may be used.                   *)
(*                                                                         *)
(* External: the server and the network, which give any response, in any    *)
(* cuts, and may end it anywhere; the file system, of which any operation   *)
(* may fail.  The names of hosts, TLS and the progress line are left out.   *)
EXTENDS Naturals, Sequences, SequencesExt, FiniteSetsExt

CONSTANTS
  Bodies,        \* lengths of bodies
  kIoBufferSize, \* bytes read at once
  kMaxRedirects,
  Limits         \* limits that may be asked for

DownloadAssumption ==
  /\ kIoBufferSize \in Nat \ {0} /\ kMaxRedirects \in Nat
  /\ Bodies \subseteq Nat /\ Limits \subseteq Nat

VARIABLES
  at,       \* the next step; at the end "complete", "limited" or "failed"
  options,  \* limit or NoLimit, and discard
  redirect, \* redirections followed
  meta,     \* what the header said
  wire,     \* what the server has still to send, as far as it gets
  body,     \* the body that it means
  remaining,  \* of the chunk or of the whole
  written,  \* bytes_written: the bytes themselves
  stored,   \* those of them that are on the disk when the file is closed
  output,   \* what is at the path: "none", "old", "dir", or the new file
  open,     \* connections and files that are open
  odd       \* history: "kept", the output could not be removed; "unsynced", it
            \* was not put on the disk; "split", a long line of a chunk was read
            \* as a line and the beginning of the data

vars == <<at, options, redirect, meta, wire, body, remaining, written, stored, output, open, odd>>

NoLimit == [have |-> FALSE, limit |-> 0]
Ends == {"complete", "limited", "failed"}

\* What goes over the wire: the number of a byte of the body, the size of a
\* chunk with the end of its line, or one of the two bytes of an end of line.
SizeLine(n) == [kind |-> "size", n |-> n]
Byte(n) == [kind |-> "byte", n |-> n]
CrLf == <<[kind |-> "cr", n |-> 0], [kind |-> "lf", n |-> 0]>>
Text(n) == [i \in 1..n |-> Byte(i)]

\* A body in chunks of the size c; the line of the first may be longer than
\* stream_read_line() takes.
Chunk(first, n, long) == <<SizeLine(n)>> \o (IF long THEN CrLf ELSE <<>>) \o [i \in 1..n |-> Byte(first + i - 1)] \o CrLf
Chunked(n, c, long) ==
  LET whole == n \div c
      chunks == [i \in 1..(whole + (IF n % c = 0 THEN 0 ELSE 1)) |->
                   Chunk((i - 1) * c + 1, IF i =< whole THEN c ELSE n % c, long /\ i = 1)]
  IN FlattenSeq(chunks) \o <<SizeLine(0)>> \o CrLf

NoMeta == [status |-> 0, chunked |-> FALSE, length |-> NoLimit, location |-> "none"]
Plain(status, location) == [NoMeta EXCEPT !.status = status, !.location = location]
Sized(n, chunked) == [NoMeta EXCEPT !.status = 200, !.length = [have |-> TRUE, limit |-> n], !.chunked = chunked]

Init ==
  /\ at = "connect" /\ redirect = 0 /\ meta = NoMeta /\ wire = <<>> /\ body = 0
  /\ options \in [have : {TRUE}, limit : Limits, discard : {FALSE}]
                   \cup [have : {FALSE}, limit : {0}, discard : BOOLEAN]
  /\ remaining = 0 /\ written = <<>> /\ stored = <<>> /\ output \in {"none", "old", "dir"} /\ open = {} /\ odd = {}

-----------------------------------------------------------------------------
(* fetch_to_file().                                                        *)

Fail ==
  /\ at' = "failed" /\ open' = {}
  /\ UNCHANGED <<options, redirect, wire, body, remaining, written, stored, output, odd>>

Connect ==
  /\ at = "connect"
  /\ \/ at' = "send" /\ open' = {"connection"} /\ UNCHANGED <<options, redirect, meta, wire, body, remaining, written, stored, output, odd>>
     \/ Fail /\ UNCHANGED meta

SendRequest ==
  /\ at = "send"
  /\ \/ at' = "header" /\ UNCHANGED <<options, redirect, wire, body, remaining, written, stored, output, open, odd>>
     \/ Fail
  /\ UNCHANGED meta

\* What the server may answer: a header, and what stands behind it.  With
\* chunks the length in the header means nothing.
Responses ==
  {[meta |-> Plain(s, l), body |-> 0, text |-> <<>>] : s \in {302, 404}, l \in {"none", "good", "long"}}
    \cup {[meta |-> Plain(200, "none"), body |-> n, text |-> Text(n)] : n \in Bodies}
    \cup {[meta |-> Sized(n, FALSE), body |-> n, text |-> Text(n)] : n \in Bodies}
    \cup {[meta |-> Sized(m, TRUE), body |-> n, text |-> Chunked(n, c, long)]
           : m, n \in Bodies, c \in 1..2, long \in BOOLEAN}

\* read_response_headers(); the rest may end anywhere.
ReadHeader ==
  /\ at = "header"
  /\ \/ \E r \in Responses : \E cut \in 0..Len(r.text) :
          /\ meta' = r.meta /\ body' = r.body /\ wire' = SubSeq(r.text, 1, cut) /\ at' = "status"
          /\ UNCHANGED <<options, redirect, remaining, written, stored, output, open, odd>>
     \/ Fail /\ UNCHANGED meta

Redirects == meta.status \in 300..399 /\ meta.location # "none"

\* The loop ends behind kMaxRedirects.
Redirect ==
  /\ at = "status" /\ Redirects /\ meta.location = "good" /\ redirect < kMaxRedirects
  /\ redirect' = redirect + 1 /\ at' = "connect" /\ open' = {}
  /\ UNCHANGED <<options, meta, wire, body, remaining, written, stored, output, odd>>

NotRedirected ==
  /\ at = "status" /\ Redirects /\ (meta.location = "long" \/ redirect = kMaxRedirects)
  /\ Fail /\ UNCHANGED meta

BadStatus ==
  /\ at = "status" /\ ~Redirects /\ meta.status \notin 200..299
  /\ Fail /\ UNCHANGED meta

\* prepare_output_file(): what is there is removed first.
Prepare ==
  /\ at = "status" /\ meta.status \in 200..299
  /\ \/ /\ output # "dir" \/ options.discard
        /\ output' = IF options.discard THEN output ELSE "new"
        /\ open' = IF options.discard THEN open ELSE open \cup {"file"}
        /\ at' = "body"
        /\ UNCHANGED <<options, redirect, meta, wire, body, remaining, written, stored, odd>>
     \/ /\ ~options.discard /\ output' \in {output} \cup (IF output = "old" THEN {"none"} ELSE {})
        /\ at' = "failed" /\ open' = {}
        /\ UNCHANGED <<options, redirect, meta, wire, body, remaining, written, stored, odd>>

-----------------------------------------------------------------------------
(* write_response_body().                                                  *)

\* file_sync(), whose result is not looked at: a part may not get to the disk.
Sync(ok) ==
  IF ok THEN stored' = written ELSE \E n \in 0..Len(written) : stored' = SubSeq(written, 1, n)

\* The end of the body, whatever the result: the file and the connection are
\* closed, and the file of a failure is removed.
Over(result) ==
  /\ at' = result /\ open' = {}
  /\ IF options.discard THEN UNCHANGED <<stored, output, odd>>
     ELSE \E synced \in BOOLEAN, removed \in (IF result = "failed" THEN BOOLEAN ELSE {FALSE}) :
       /\ Sync(synced)
       /\ output' = IF removed THEN "none" ELSE output
       /\ odd' = odd \cup (IF synced THEN {} ELSE {"unsynced"})
                     \cup (IF result = "failed" /\ ~removed THEN {"kept"} ELSE {})
  /\ UNCHANGED <<options, redirect, meta, body, remaining, written>>

Count == Len(written)
AtLimit == options.have /\ Count >= options.limit

\* The limit is reached: at once, or between two reads.
Limited ==
  /\ at \in {"body", "some"} \/ (at = "read" /\ meta.chunked)
  /\ AtLimit /\ Over("limited") /\ UNCHANGED wire

\* How the body is read: chunks take precedence over a length.  The length
\* may be cut to the limit before the first byte is read.
FramingOf ==
  IF meta.chunked THEN [at |-> "size", n |-> 0]
  ELSE IF meta.length.have
    THEN [at |-> "read", n |-> IF options.have THEN Min({meta.length.limit, options.limit}) ELSE meta.length.limit]
  ELSE [at |-> "some", n |-> 0]

Begin ==
  /\ at = "body" /\ ~AtLimit
  /\ at' = FramingOf.at /\ remaining' = FramingOf.n
  /\ UNCHANGED <<options, redirect, meta, wire, body, written, stored, output, open, odd>>

\* stream_read_line() and parse_hex_size(): whatever is no size is refused,
\* an empty line too.  Of a line of 63 bytes its end is left for the data.
ReadSize ==
  /\ at = "size" /\ wire # <<>> /\ Head(wire).kind = "size" /\ Head(wire).n # 0
  /\ wire' = Tail(wire) /\ remaining' = Head(wire).n /\ at' = "read"
  /\ odd' = odd \cup (IF Len(wire) > 1 /\ wire[2].kind = "cr" THEN {"split"} ELSE {})
  /\ UNCHANGED <<options, redirect, meta, body, written, stored, output, open>>

NoSize ==
  /\ at = "size" /\ ~(wire # <<>> /\ Head(wire).kind = "size")
  /\ Over("failed") /\ UNCHANGED wire

\* The last chunk; its trailer may be cut.
LastSize ==
  /\ at = "size" /\ wire # <<>> /\ Head(wire) = SizeLine(0)
  /\ Over("complete") /\ wire' = <<>>

Want ==
  LET n == Min({remaining, kIoBufferSize}) IN
  IF meta.chunked /\ options.have THEN Min({n, options.limit - Count}) ELSE n

\* read_exact() and write_output_all().
ReadBlock ==
  /\ at = "read" /\ remaining # 0 /\ Want > 0 /\ Len(wire) >= Want
  /\ written' = written \o SubSeq(wire, 1, Want)
  /\ wire' = SubSeq(wire, Want + 1, Len(wire)) /\ remaining' = remaining - Want
  /\ UNCHANGED <<at, options, redirect, meta, body, stored, output, open, odd>>

BlockFails ==
  /\ at = "read" /\ remaining # 0 /\ Want > 0
  /\ Len(wire) < Want \/ ~options.discard
  /\ Over("failed") /\ UNCHANGED wire

\* The two bytes behind a chunk are read and not looked at.
EndChunk ==
  /\ at = "read" /\ meta.chunked /\ remaining = 0 /\ ~AtLimit
  /\ IF Len(wire) >= 2
       THEN /\ wire' = SubSeq(wire, 3, Len(wire)) /\ at' = "size"
            /\ UNCHANGED <<options, redirect, meta, body, remaining, written, stored, output, open, odd>>
       ELSE Over("failed") /\ UNCHANGED wire

EndLength ==
  /\ at = "read" /\ ~meta.chunked /\ remaining = 0
  /\ Over(IF options.have /\ options.limit < meta.length.limit THEN "limited" ELSE "complete") /\ UNCHANGED wire

\* Without a length the end of the connection is the end of the body.
ReadSome ==
  /\ at = "some" /\ ~AtLimit /\ wire # <<>>
  /\ \E n \in 1..Min({kIoBufferSize, Len(wire)}) :
       /\ options.have => n =< options.limit - Count
       /\ \/ /\ written' = written \o SubSeq(wire, 1, n) /\ wire' = SubSeq(wire, n + 1, Len(wire))
             /\ UNCHANGED <<at, options, redirect, meta, body, remaining, stored, output, open, odd>>
          \/ ~options.discard /\ Over("failed") /\ UNCHANGED wire

NoMore == at = "some" /\ ~AtLimit /\ wire = <<>> /\ Over("complete") /\ UNCHANGED wire

Next ==
  \/ Connect \/ SendRequest \/ ReadHeader \/ Redirect \/ NotRedirected \/ BadStatus \/ Prepare
  \/ Limited \/ Begin \/ ReadSize \/ NoSize \/ LastSize \/ ReadBlock \/ BlockFails \/ EndChunk \/ EndLength
  \/ ReadSome \/ NoMore

Spec == Init /\ [][Next]_vars

-----------------------------------------------------------------------------
TypeOK ==
  /\ at \in {"connect", "send", "header", "status", "body", "size", "read", "some"} \cup Ends
  /\ redirect \in 0..kMaxRedirects /\ open \subseteq {"connection", "file"} /\ remaining \in Nat

\* A file that is reported as complete is the body that the server meant, one
\* that is reported as cut at the limit is its beginning of that length, in
\* any framing; without a length and chunks it is what came until the
\* connection ended.  The file is on the disk as it was read, unless the file
\* system did not put it there.  Not so when the line of a chunk was split
\* (download.cpp:1014-1148, 1274).
Got == IF options.discard \/ "unsynced" \in odd THEN written ELSE stored
ReportedIsWhole ==
  "split" \notin odd =>
    /\ at = "complete" => IF meta.chunked \/ meta.length.have THEN Got = Text(body)
                                                              ELSE IsPrefix(Got, Text(body))
    /\ at = "limited" => Got = Text(Min({options.limit, body}))

\* A failure leaves no part of a file, if it can be removed, and the end
\* nothing open (download.cpp:1150-1292).
NothingLeft ==
  /\ at = "failed" => output # "new" \/ "kept" \in odd
  /\ at \in Ends => open = {}
  /\ "file" \in open => output = "new"
=============================================================================
