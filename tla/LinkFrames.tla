----------------------------- MODULE LinkFrames -----------------------------
(***************************************************************************)
(* What a network driver promises its stack: frames of the wire go up and  *)
(* frames of the stack go out, each once and in order, through two queues  *)
(* of bounded length.  A frame may be lost only if it is damaged, or while *)
(* the driver has no device in use.  The interface is                      *)
(* net::receive_frame() and transmit() (e1000e/src/e1000e.cpp,             *)
(* virtio-net/src/virtio_net.cpp).                                         *)
(***************************************************************************)
EXTENDS Naturals, Sequences

CONSTANTS
  Frames,  \* what travels
  Whole,   \* frames that are not damaged
  RxRoom,  \* frames that the device can hold for the driver
  TxRoom   \* frames that the driver can hold for the device

VARIABLES
  up,       \* the driver has a device in use
  waiting,  \* frames received and not passed to the stack
  passed,   \* history: frames passed to the stack
  queued,   \* frames accepted and not on the wire
  sent      \* history: frames on the wire

vars == <<up, waiting, passed, queued, sent>>

Init == ~up /\ waiting = <<>> /\ passed = <<>> /\ queued = <<>> /\ sent = <<>>

Start == ~up /\ up' = TRUE /\ UNCHANGED <<waiting, passed, queued, sent>>

GiveUp == ~up /\ waiting' = <<>> /\ UNCHANGED <<up, passed, queued, sent>>

Arrive(f) ==
  /\ Len(waiting) < RxRoom
  /\ waiting' = Append(waiting, f)
  /\ UNCHANGED <<up, passed, queued, sent>>

PassUp ==
  /\ up /\ waiting # <<>> /\ Head(waiting) \in Whole
  /\ passed' = Append(passed, Head(waiting)) /\ waiting' = Tail(waiting)
  /\ UNCHANGED <<up, queued, sent>>

Discard ==
  /\ up /\ waiting # <<>> /\ Head(waiting) \notin Whole
  /\ waiting' = Tail(waiting)
  /\ UNCHANGED <<up, passed, queued, sent>>

Accept(f) ==
  /\ up /\ Len(queued) < TxRoom
  /\ queued' = Append(queued, f)
  /\ UNCHANGED <<up, waiting, passed, sent>>

Emit ==
  /\ queued # <<>>
  /\ sent' = Append(sent, Head(queued)) /\ queued' = Tail(queued)
  /\ UNCHANGED <<up, waiting, passed>>

Next == Start \/ GiveUp \/ PassUp \/ Discard \/ Emit \/ \E f \in Frames : Arrive(f) \/ Accept(f)

Spec == Init /\ [][Next]_vars
=============================================================================
