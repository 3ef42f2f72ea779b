------------------------------ MODULE VirtioNet -----------------------------
(***************************************************************************)
(* The driver of virtio network devices, virtio-net/src/virtio_net.cpp:    *)
(* the handshake with a device and the two virtqueues.  poll() runs on a   *)
(* worker of the kernel and transmit() where the stack sends; both take    *)
(* descriptors off the transmit queue and neither holds a lock, so they    *)
(* are kept apart only if the kernel does that (Serialised).               *)
(*                                                                         *)
(* External: the device, which takes descriptors in order and gives back   *)
(* those of the transmit queue in any order, and the kernel.               *)
(***************************************************************************)
EXTENDS Naturals, Sequences, SequencesExt, FiniteSets

CONSTANTS
  Size,        \* kMaxQueueSize: descriptors of a queue
  IndexLimit,  \* values of the 16-bit indices
  Candidates,  \* network devices of the vendor on the bus
  Serialised,  \* the kernel keeps poll() and transmit() apart
  MaxFrames,   \* bound: frames that arrive
  MaxSends     \* bound: frames that the stack sends

\* The place of an index goes round with the index.
VirtioAssumption ==
  /\ Size \in Nat \ {0} /\ IndexLimit \in Nat /\ IndexLimit > Size /\ IndexLimit % Size = 0
  /\ {Candidates, MaxFrames, MaxSends} \subseteq Nat /\ Serialised \in BOOLEAN

VARIABLES
  at,       \* what init() is at: "probe", "features", "queues", "online", "none"
  cur,      \* the device it tries
  status,   \* device_status of that device
  has_mac, polled,  \* the device has an address, poll() is registered
  rx, tx,   \* the queues
  in_use,   \* buffer_in_use of the transmit queue
  worker,   \* poll(): "idle", "rx" or "tx"
  sending,  \* transmit(): "idle", "reap" or "choose"
  reap,     \* poll_tx_queue() of each: "none", "look", "bump" or "clear"
  index, elem,  \* the index and the descriptor it has read
  arrived, handled, passed, accepted, sent  \* history

queueVars == <<rx, tx, in_use>>
initVars == <<at, cur, status, has_mac, polled>>
threadVars == <<worker, sending, reap, index, elem>>
historyVars == <<arrived, handled, passed, accepted, sent>>
vars == <<initVars, queueVars, threadVars, historyVars>>

Ids == 0..(Size - 1)
Threads == {"worker", "sender"}
Up(i) == (i + 1) % IndexLimit
Between(i, j) == ((j + IndexLimit) - i) % IndexLimit  \* entries from i up to j

\* A queue: available and used ring with the index of each, the driver's
\* last_used_idx, the device's place in the available ring, and the buffers.
Empty == [avail |-> [i \in Ids |-> 0], avail_idx |-> 0, taken |-> 0,
          used |-> [i \in Ids |-> 0], used_idx |-> 0, last |-> 0, buffer |-> [i \in Ids |-> 0]]

\* Every other frame is no longer than the header that precedes it.
Good(f) == f % 2 = 1

TypeOK ==
  /\ at \in {"probe", "features", "queues", "online", "none"} /\ cur \in 1..(Candidates + 1)
  /\ status \subseteq {"acknowledge", "driver", "features_ok", "driver_ok", "failed"}
  /\ {has_mac, polled} \subseteq BOOLEAN
  /\ \A q \in {rx, tx} :
       /\ {q.avail_idx, q.taken, q.used_idx, q.last} \subseteq 0..(IndexLimit - 1)
       /\ q.avail \in [Ids -> Ids] /\ q.used \in [Ids -> Ids]
  /\ in_use \in [Ids -> BOOLEAN]
  /\ worker \in {"idle", "rx", "tx"} /\ sending \in {"idle", "reap", "choose"}
  /\ reap \in [Threads -> {"none", "look", "bump", "clear"}]
  /\ index \in [Threads -> 0..(IndexLimit - 1)] /\ elem \in [Threads -> Ids]

Init ==
  /\ at = "probe" /\ cur = 1 /\ status = {} /\ has_mac = FALSE /\ polled = FALSE
  /\ rx = Empty /\ tx = Empty /\ in_use = [i \in Ids |-> FALSE]
  /\ worker = "idle" /\ sending = "idle"
  /\ reap = [t \in Threads |-> "none"] /\ index = [t \in Threads |-> 0] /\ elem = [t \in Threads |-> 0]
  /\ arrived = 0 /\ handled = 0 /\ passed = <<>> /\ accepted = <<>> /\ sent = <<>>

-----------------------------------------------------------------------------
(* init_device(), for one device after the other.                          *)

\* A device without the capabilities is passed over before it is touched.
Probe ==
  /\ at = "probe"
  /\ \/ cur > Candidates /\ at' = "none" /\ UNCHANGED <<cur, status>>
     \/ cur =< Candidates /\ cur' = cur + 1 /\ UNCHANGED <<at, status>>
     \/ /\ cur =< Candidates /\ at' = "features" /\ status' = {"acknowledge", "driver"}
        /\ UNCHANGED cur
  /\ UNCHANGED <<has_mac, polled, queueVars, threadVars, historyVars>>

FailDevice == at' = "probe" /\ cur' = cur + 1 /\ status' = status \cup {"failed"}

\* An old device, or one that rejects what was agreed on, fails.
Features ==
  /\ at = "features"
  /\ \/ FailDevice /\ UNCHANGED has_mac
     \/ /\ at' = "queues" /\ status' = status \cup {"features_ok"} /\ has_mac' \in BOOLEAN
        /\ UNCHANGED cur
  /\ UNCHANGED <<polled, queueVars, threadVars, historyVars>>

\* submit_receive_buffers(): all of them, in order.
Submitted ==
  [Empty EXCEPT !.avail = [i \in Ids |-> i], !.avail_idx = Size % IndexLimit]

Queues ==
  /\ at = "queues"
  /\ \/ FailDevice /\ UNCHANGED <<polled, queueVars>>
     \/ /\ at' = "online" /\ status' = status \cup {"driver_ok"} /\ polled' \in BOOLEAN
        /\ rx' = Submitted /\ tx' = Empty /\ in_use' = [i \in Ids |-> FALSE]
        /\ UNCHANGED cur
  /\ UNCHANGED <<has_mac, threadVars, historyVars>>

-----------------------------------------------------------------------------
(* The device.                                                             *)

Works == "driver_ok" \in status /\ "failed" \notin status

Receive ==
  /\ Works /\ arrived < MaxFrames /\ rx.taken # rx.avail_idx
  /\ arrived' = arrived + 1
  /\ LET d == rx.avail[rx.taken % Size] IN
       rx' = [rx EXCEPT !.taken = Up(@), !.buffer[d] = arrived + 1,
                        !.used[rx.used_idx % Size] = d, !.used_idx = Up(@)]
  /\ UNCHANGED <<initVars, tx, in_use, threadVars, handled, passed, accepted, sent>>

\* Descriptors of the transmit queue that the device has and has not given back.
UsedOf(q) == {q.used[(q.last + k) % Size] : k \in 0..(Between(q.last, q.used_idx) - 1)}
AvailableOf(q) == {q.avail[(q.taken + k) % Size] : k \in 0..(Between(q.taken, q.avail_idx) - 1)}
Cleared == {elem[t] : t \in {u \in Threads : reap[u] = "clear"}}

InDevice == {d \in Ids : in_use[d]} \ (AvailableOf(tx) \cup UsedOf(tx) \cup Cleared)

Emit ==
  /\ Works /\ tx.taken # tx.avail_idx
  /\ sent' = Append(sent, tx.buffer[tx.avail[tx.taken % Size]])
  /\ tx' = [tx EXCEPT !.taken = Up(@)]
  /\ UNCHANGED <<initVars, rx, in_use, threadVars, arrived, handled, passed, accepted>>

GiveBack(d) ==
  /\ Works /\ d \in InDevice
  /\ tx' = [tx EXCEPT !.used[tx.used_idx % Size] = d, !.used_idx = Up(@)]
  /\ UNCHANGED <<initVars, rx, in_use, threadVars, historyVars>>

-----------------------------------------------------------------------------
(* The driver.                                                             *)

Poll ==
  /\ at = "online" /\ polled /\ worker = "idle"
  /\ Serialised => sending = "idle"
  /\ worker' = "rx"
  /\ UNCHANGED <<initVars, queueVars, sending, reap, index, elem, historyVars>>

Forgotten(q, d) == q
Recycled(q, d) == [q EXCEPT !.avail[q.avail_idx % Size] = d, !.avail_idx = Up(@)]

\* poll_rx_queue(): the frame goes up, its descriptor back.
TakeFrame ==
  /\ worker = "rx" /\ rx.last # rx.used_idx
  /\ LET d == rx.used[rx.last % Size] IN
       /\ passed' = IF Good(rx.buffer[d]) THEN Append(passed, rx.buffer[d]) ELSE passed
       /\ rx' = Recycled([rx EXCEPT !.last = Up(@)], d)
  /\ handled' = handled + 1
  /\ UNCHANGED <<initVars, tx, in_use, threadVars, arrived, accepted, sent>>

RxDone ==
  /\ worker = "rx" /\ rx.last = rx.used_idx
  /\ worker' = "tx" /\ reap' = [reap EXCEPT !["worker"] = "look"]
  /\ UNCHANGED <<initVars, queueVars, sending, index, elem, historyVars>>

\* poll_tx_queue(), by either thread; what it reads it may use late.
Look(t) ==
  /\ reap[t] = "look" /\ tx.last # tx.used_idx
  /\ reap' = [reap EXCEPT ![t] = "bump"]
  /\ index' = [index EXCEPT ![t] = tx.last]
  /\ elem' = [elem EXCEPT ![t] = tx.used[tx.last % Size]]
  /\ UNCHANGED <<initVars, queueVars, worker, sending, historyVars>>

Bump(t) ==
  /\ reap[t] = "bump"
  /\ reap' = [reap EXCEPT ![t] = "clear"]
  /\ tx' = [tx EXCEPT !.last = Up(index[t])]
  /\ UNCHANGED <<initVars, rx, in_use, worker, sending, index, elem, historyVars>>

Clear(t) ==
  /\ reap[t] = "clear"
  /\ reap' = [reap EXCEPT ![t] = "look"]
  /\ in_use' = [in_use EXCEPT ![elem[t]] = FALSE]
  /\ UNCHANGED <<initVars, rx, tx, worker, sending, index, elem, historyVars>>

ReapDone(t) ==
  /\ reap[t] = "look" /\ tx.last = tx.used_idx
  /\ reap' = [reap EXCEPT ![t] = "none"]
  /\ \/ t = "worker" /\ worker' = "idle" /\ UNCHANGED sending
     \/ t = "sender" /\ sending' = "choose" /\ UNCHANGED worker
  /\ UNCHANGED <<initVars, queueVars, index, elem, historyVars>>

\* transmit(), which the stack calls for a link that was registered.
Send ==
  /\ at = "online" /\ has_mac /\ sending = "idle" /\ Len(accepted) < MaxSends
  /\ Serialised => worker = "idle"
  /\ sending' = "reap" /\ reap' = [reap EXCEPT !["sender"] = "look"]
  /\ UNCHANGED <<initVars, queueVars, worker, index, elem, historyVars>>

Unmarked(d) == in_use
Marked(d) == [in_use EXCEPT ![d] = TRUE]

\* The first free descriptor, or none: the frame is refused.
Choose ==
  /\ sending = "choose"
  /\ sending' = "idle"
  /\ \/ \E d \in Ids :
          /\ ~in_use[d] /\ \A e \in 0..(d - 1) : in_use[e]
          /\ in_use' = Marked(d)
          /\ accepted' = Append(accepted, Len(accepted) + 1)
          /\ tx' = Recycled([tx EXCEPT !.buffer[d] = Len(accepted) + 1], d)
     \/ (\A d \in Ids : in_use[d]) /\ UNCHANGED <<in_use, accepted, tx>>
  /\ UNCHANGED <<initVars, rx, worker, reap, index, elem, arrived, handled, passed, sent>>

Setup == Probe \/ Features \/ Queues

Device == Receive \/ Emit \/ \E d \in Ids : GiveBack(d)

Reap(t) == Look(t) \/ Bump(t) \/ Clear(t) \/ ReapDone(t)

Worker == Poll \/ TakeFrame \/ RxDone \/ Reap("worker")

Sender == Send \/ Choose \/ Reap("sender")

Next == Setup \/ Device \/ Worker \/ Sender

Spec == Init /\ [][Next]_vars

\* transmit() returns, and the worker gets its turn however often the stack sends.
Fairness == WF_vars(Worker) /\ SF_vars(Poll) /\ WF_vars(Choose \/ Reap("sender"))

FairSpec == Spec /\ Fairness

-----------------------------------------------------------------------------
Unread ==
  [k \in 1..Between(rx.last, rx.used_idx) |-> rx.buffer[rx.used[(rx.last + (k - 1)) % Size]]]

Unsent ==
  [k \in 1..Between(tx.taken, tx.avail_idx) |-> tx.buffer[tx.avail[(tx.taken + (k - 1)) % Size]]]

Link == INSTANCE LinkFrames WITH
  Frames <- 1..(MaxFrames + MaxSends), Whole <- {f \in 1..MaxFrames : Good(f)},
  RxRoom <- Size, TxRoom <- Size, up <- at = "online", waiting <- Unread, queued <- Unsent

\* Frames go up and out once and in order, over the wrap of the indices.
FramesInOrder == Link!Spec

\* Every descriptor of the receive queue is the device's or holds a frame that
\* poll() has still to take, and a buffer of the transmit queue is free only
\* when neither the device nor a ring has it: the queues never run dry and
\* nothing is sent from a buffer that is written again (virtio_net.cpp:404-441,
\* 749-774).
DescriptorsConserved ==
  at = "online" =>
    /\ Between(rx.taken, rx.avail_idx) + Between(rx.last, rx.used_idx) = Size
    /\ AvailableOf(rx) \cup UsedOf(rx) = Ids
    /\ AvailableOf(tx) \cap UsedOf(tx) = {}
    /\ \A d \in AvailableOf(tx) \cup UsedOf(tx) : in_use[d]

\* A frame that came is taken by the next round of the worker or a later one.
\* Few frames come, so the worker can catch up.
Behind == polled /\ arrived > handled
Served == Behind ~> ~Behind
=============================================================================
