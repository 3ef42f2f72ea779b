----------------------------- MODULE ByteStream -----------------------------
(***************************************************************************)
(* What a connection of tcpd promises to the two applications: the chunks  *)
(* that one side gives to the wire are handed to the other in order, each  *)
(* once, and the end of the stream is told only after the last of them.    *)
(* Chunks may stay undelivered for ever.                                   *)
(***************************************************************************)
EXTENDS Naturals, Sequences

CONSTANTS
  Sides,
  Other(_),  \* the side at the far end
  Chunks

VARIABLES
  wire,      \* what each side gave to the wire
  got,       \* what each side was handed
  fin,       \* sides that gave their end of stream to the wire
  ended      \* sides that were told of the other's end of stream

vars == <<wire, got, fin, ended>>

Init ==
  /\ wire = [e \in Sides |-> <<>>]
  /\ got = [e \in Sides |-> <<>>]
  /\ fin = {}
  /\ ended = {}

Put(e) ==
  /\ e \notin fin
  /\ \E c \in Chunks : wire' = [wire EXCEPT ![e] = Append(@, c)]
  /\ UNCHANGED <<got, fin, ended>>

Finish(e) ==
  /\ fin' = fin \cup {e}
  /\ UNCHANGED <<wire, got, ended>>

Undelivered(e) == Len(got[e]) < Len(wire[Other(e)])

Deliver(e) ==
  /\ e \notin ended
  /\ Undelivered(e)
  /\ got' = [got EXCEPT ![e] = Append(@, wire[Other(e)][Len(@) + 1])]
  /\ UNCHANGED <<wire, fin, ended>>

End(e) ==
  /\ Other(e) \in fin
  /\ ~Undelivered(e)
  /\ ended' = ended \cup {e}
  /\ UNCHANGED <<wire, got, fin>>

Next == \E e \in Sides : Put(e) \/ Finish(e) \/ Deliver(e) \/ End(e)

Spec == Init /\ [][Next]_vars
=============================================================================
