----------------------------- MODULE ServiceLog -----------------------------
(***************************************************************************)
(* The output that init keeps of a service, base-system/src/init.cpp: a    *)
(* ring of Size bytes, append_log() and the text of `service logs`.  One   *)
(* thread writes and reads it.                                             *)
(***************************************************************************)
EXTENDS Naturals, Sequences

CONSTANTS
  Bytes,     \* what a service may write
  Size,      \* sizeof(Service::log)
  MaxOutput  \* bound: bytes written, for TLC

ASSUME LogAssumption == Size \in Nat \ {0} /\ Bytes # {}

VARIABLES
  log,         \* the ring
  log_start,   \* where its oldest byte is
  log_length,  \* bytes in it
  output       \* history: everything the service wrote

vars == <<log, log_start, log_length, output>>

Places == 0..(Size - 1)

TypeOK ==
  /\ log \in [Places -> Bytes]
  /\ log_start \in Places
  /\ log_length \in 0..Size
  /\ output \in Seq(Bytes)

Init ==
  /\ log \in [Places -> Bytes]
  /\ log_start = 0 /\ log_length = 0
  /\ output = <<>>

At(i) == (log_start + i) % Size

StaysFull == log_start
Advanced == (log_start + 1) % Size

\* One byte: behind the last while there is room, over the oldest after that.
Append1(b) ==
  /\ \/ /\ log_length < Size
        /\ log' = [log EXCEPT ![At(log_length)] = b]
        /\ log_length' = log_length + 1
        /\ UNCHANGED log_start
     \/ /\ log_length = Size
        /\ log' = [log EXCEPT ![log_start] = b]
        /\ log_start' = Advanced
        /\ UNCHANGED log_length
  /\ output' = Append(output, b)

Next == \E b \in Bytes : Append1(b)

Spec == Init /\ [][Next]_vars

BoundedNext == Len(output) < MaxOutput /\ Next

\* respond_to_request(), kLogs.
Text == [i \in 1..log_length |-> log[At(i - 1)]]

-----------------------------------------------------------------------------
\* The log is the most recent Size bytes of what the service wrote, in order,
\* or all of it (base-system/README.md:9-10, init.cpp:823-834).
Recent ==
  LET n == Len(output)
      k == IF n < Size THEN n ELSE Size
  IN  Text = SubSeq(output, n - k + 1, n)
=============================================================================
