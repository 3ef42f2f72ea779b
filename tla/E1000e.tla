------------------------------- MODULE E1000e -------------------------------
(***************************************************************************)
(* The driver of Intel Ethernet controllers, e1000e/src/e1000e.cpp: the    *)
(* choice of a device and its initialisation up to the first that works,   *)
(* with the memory that the device reads and writes by itself, and the two *)
(* rings of descriptors shared with the device.                            *)
(*                                                                         *)
(* The device, the memory of the kernel and its network stack are not in   *)
(* the repository: the device does what the driver expects of it, in any   *)
(* order.  Registers that only tune the device are left out.               *)
(***************************************************************************)
EXTENDS Naturals, Sequences, SequencesExt, FiniteSetsExt

CONSTANTS
  RingCount,   \* kRingCount: descriptors of a ring
  Candidates,  \* supported devices on the bus
  MaxFrames,   \* bound: frames that arrive
  MaxSends     \* bound: frames that the stack sends

E1000eAssumption == RingCount \in Nat \ {0, 1} /\ {Candidates, MaxFrames, MaxSends} \subseteq Nat

VARIABLES
  at,        \* what init() is at, "online" when it is done
  cur,       \* the device it tries
  hw,        \* per device: receiver on, outstanding requests of the bus master
  pages,     \* per device: rings and buffers
  mode,      \* how the device is serviced: "poll", "msi" or "none"
  rx, rdh, rdt, rx_index,          \* receive ring, device's and driver's places
  tx, tdh, tdt, tx_head, tx_tail,  \* transmit ring
  service,   \* service_device(): "idle", "frames" or "recycle"
  serviced,  \* descriptors of this call
  icr, ims, msi,  \* an interrupt cause is set, is let through, is on its way
  arrived,   \* frames that came so far
  due,       \* history: descriptors filled when the driver was last told
  handled,   \* history: descriptors given back
  passed, accepted, sent  \* history: frames to the stack, from it, on the wire

initVars == <<at, cur, hw, pages, mode>>
rxVars == <<rx, rdh, rdt, rx_index, service, serviced, handled, passed>>
txVars == <<tx, tdh, tdt, tx_head, tx_tail, accepted, sent>>
causeVars == <<icr, ims, msi, due>>
vars == <<initVars, rxVars, txVars, causeVars, arrived>>

Slots == 0..(RingCount - 1)
NextSlot(i) == (i + 1) % RingCount

\* Steps from slot i on to slot j.
Gap(i, j) == ((j + RingCount) - i) % RingCount

\* The i-th frame of the wire; every other one is damaged: not the end of a
\* packet, with an error, empty or too long.
Good(f) == f % 2 = 1

ZeroRx == [i \in Slots |-> [dd |-> FALSE, frame |-> 0]]
ZeroTx == [i \in Slots |-> [dd |-> TRUE, frame |-> 0]]

TypeOK ==
  /\ at \in {"probe", "rx", "tx", "link", "service", "clear", "online", "quiesce", "drain", "none"}
  /\ cur \in 1..(Candidates + 1)
  /\ hw \in [1..Candidates -> [rx : BOOLEAN, busy : BOOLEAN]]
  /\ pages \in [1..Candidates -> {"none", "held", "freed", "retained"}]
  /\ mode \in {"poll", "msi", "none"}
  /\ {rdh, rdt, rx_index, tdh, tdt, tx_head, tx_tail} \subseteq Slots
  /\ rx \in [Slots -> [dd : BOOLEAN, frame : 0..MaxFrames]]
  /\ tx \in [Slots -> [dd : BOOLEAN, frame : 0..MaxSends]]
  /\ service \in {"idle", "frames", "recycle"} /\ serviced \in 0..RingCount
  /\ {icr, ims, msi} \subseteq BOOLEAN

Init ==
  /\ at = "probe" /\ cur = 1
  /\ hw = [d \in 1..Candidates |-> [rx |-> FALSE, busy |-> FALSE]]
  /\ pages = [d \in 1..Candidates |-> "none"]
  /\ mode = "none"
  /\ rx = ZeroRx /\ rdh = 0 /\ rdt = 0 /\ rx_index = 0
  /\ tx = ZeroTx /\ tdh = 0 /\ tdt = 0 /\ tx_head = 0 /\ tx_tail = 0
  /\ service = "idle" /\ serviced = 0
  /\ icr = FALSE /\ ims = FALSE /\ msi = FALSE
  /\ arrived = 0 /\ due = 0 /\ handled = 0
  /\ passed = <<>> /\ accepted = <<>> /\ sent = <<>>

-----------------------------------------------------------------------------
(* Initialisation.                                                         *)

\* A device whose registers cannot be mapped, whose descriptors need a flush,
\* or that has no address, is passed over; it is not a bus master then.
Probe ==
  /\ at = "probe"
  /\ \/ cur > Candidates /\ at' = "none" /\ UNCHANGED cur
     \/ cur =< Candidates /\ cur' = cur + 1 /\ UNCHANGED at
     \/ cur =< Candidates /\ at' = "rx" /\ UNCHANGED cur
  /\ UNCHANGED <<hw, pages, mode, rxVars, txVars, causeVars, arrived>>

\* The memory is there before the receiver is switched on.
SetupRx ==
  /\ at = "rx"
  /\ pages' = [pages EXCEPT ![cur] = "held"]
  /\ \/ at' = "quiesce" /\ UNCHANGED <<hw, rx, rdh, rdt, rx_index>>
     \/ /\ at' = "tx"
        /\ rx' = ZeroRx /\ rx_index' = 0 /\ rdh' = 0 /\ rdt' = RingCount - 1
        /\ hw' = [hw EXCEPT ![cur].rx = TRUE]
  /\ UNCHANGED <<cur, mode, service, serviced, handled, passed, txVars, causeVars, arrived>>

SetupTx ==
  /\ at = "tx"
  /\ \/ at' = "quiesce" /\ UNCHANGED txVars
     \/ /\ at' = "link"
        /\ tx' = ZeroTx /\ tx_head' = 0 /\ tx_tail' = 0 /\ tdh' = 0 /\ tdt' = 0
        /\ UNCHANGED <<accepted, sent>>
  /\ UNCHANGED <<cur, hw, pages, mode, rxVars, causeVars, arrived>>

RegisterLink ==
  /\ at = "link"
  /\ at' \in {"quiesce", "service"}
  /\ UNCHANGED <<cur, hw, pages, mode, rxVars, txVars, causeVars, arrived>>

Filled == handled + Gap(rx_index, rdh)

\* Polling, or else interrupts, or else nothing.
RegisterService ==
  /\ at = "service"
  /\ \/ mode' = "poll" /\ at' = "online" /\ due' = Filled /\ UNCHANGED <<ims, msi>>
     \/ mode' = "msi" /\ at' = "clear" /\ ims' = TRUE /\ msi' = icr /\ UNCHANGED due
     \/ mode' = "none" /\ at' = "online" /\ UNCHANGED <<ims, msi, due>>
  /\ UNCHANGED <<cur, hw, pages, rxVars, txVars, icr, arrived>>

ClearCauses ==
  /\ at = "clear"
  /\ at' = "online" /\ icr' = FALSE
  /\ UNCHANGED <<cur, hw, pages, mode, rxVars, txVars, ims, msi, due, arrived>>

\* quiesce_dma_for_release(): the receiver is switched off first.
Quiesce ==
  /\ at = "quiesce"
  /\ hw' = [hw EXCEPT ![cur].rx = FALSE]
  /\ at' = "drain"
  /\ UNCHANGED <<cur, pages, mode, rxVars, txVars, causeVars, arrived>>

FreedAnyway(drained, disabled) == disabled

Released(drained, disabled) == drained /\ disabled

\* The wait ends when no request is outstanding, or too late; the device may
\* not take the write that ends its bus mastering.
Drain ==
  /\ at = "drain"
  /\ \E disabled \in BOOLEAN :
       pages' = [pages EXCEPT ![cur] =
                   IF Released(~hw[cur].busy, disabled) THEN "freed" ELSE "retained"]
  /\ at' = "probe" /\ cur' = cur + 1
  /\ UNCHANGED <<hw, mode, rxVars, txVars, causeVars, arrived>>

-----------------------------------------------------------------------------
(* The device.                                                             *)

\* It reads descriptors ahead and writes back later.  Only what it holds
\* while the driver probes and releases is told apart: at # "online" is a bound.
BeginDma(d) ==
  /\ hw[d].rx /\ ~hw[d].busy /\ at # "online"
  /\ hw' = [hw EXCEPT ![d].busy = TRUE]
  /\ UNCHANGED <<at, cur, pages, mode, rxVars, txVars, causeVars, arrived>>

EndDma(d) ==
  /\ hw[d].busy
  /\ hw' = [hw EXCEPT ![d].busy = FALSE]
  /\ UNCHANGED <<at, cur, pages, mode, rxVars, txVars, causeVars, arrived>>

Told == (mode = "poll" /\ at = "online") \/ (mode = "msi" /\ at = "online")

\* A frame fills the next descriptor that the device owns.
Receive ==
  /\ arrived < MaxFrames
  /\ cur =< Candidates /\ hw[cur].rx /\ rdh # rdt
  /\ arrived' = arrived + 1
  /\ rx' = [rx EXCEPT ![rdh] = [dd |-> TRUE, frame |-> arrived + 1]]
  /\ rdh' = NextSlot(rdh)
  /\ icr' = TRUE /\ msi' = (msi \/ (ims /\ ~icr))
  /\ due' = IF Told THEN Filled + 1 ELSE due
  /\ UNCHANGED <<initVars, rdt, rx_index, service, serviced, handled, passed, txVars, ims>>

Emit ==
  /\ tdh # tdt
  /\ sent' = Append(sent, tx[tdh].frame)
  /\ tx' = [tx EXCEPT ![tdh].dd = TRUE]
  /\ tdh' = NextSlot(tdh)
  /\ UNCHANGED <<initVars, rxVars, tdt, tx_head, tx_tail, accepted, causeVars, arrived>>

-----------------------------------------------------------------------------
(* Service.                                                                *)

\* reap_tx_locked(): the descriptors done, from the oldest.
Reaped ==
  LET n == Max({k \in 0..Gap(tx_head, tx_tail) : \A j \in 0..(k - 1) : tx[(tx_head + j) % RingCount].dd})
  IN  (tx_head + n) % RingCount

\* poll() reads the causes when it is done, handle_interrupt() before: a
\* frame that comes while it works has a cause of its own.
Poll ==
  /\ at = "online" /\ mode = "poll" /\ service = "idle"
  /\ service' = "frames" /\ serviced' = 0
  /\ tx_head' = Reaped
  /\ UNCHANGED <<initVars, rx, rdh, rdt, rx_index, handled, passed, tx, tdh, tdt, tx_tail,
                 accepted, sent, causeVars, arrived>>

CausesKept == icr
CausesRead == FALSE

Interrupt ==
  /\ msi /\ mode = "msi" /\ service = "idle"
  /\ msi' = FALSE /\ icr' = CausesRead
  /\ \/ icr /\ service' = "frames" /\ serviced' = 0 /\ tx_head' = Reaped
     \/ ~icr /\ UNCHANGED <<service, serviced, tx_head>>
  /\ UNCHANGED <<initVars, rx, rdh, rdt, rx_index, handled, passed, tx, tdh, tdt, tx_tail,
                 accepted, sent, ims, due, arrived>>

\* A filled descriptor: its frame goes up if it is whole.
TakeFrame ==
  /\ service = "frames" /\ serviced < RingCount /\ rx[rx_index].dd
  /\ service' = "recycle"
  /\ passed' = IF Good(rx[rx_index].frame) THEN Append(passed, rx[rx_index].frame) ELSE passed
  /\ UNCHANGED <<initVars, rx, rdh, rdt, rx_index, serviced, handled, txVars, causeVars, arrived>>

StatusLeft(d) == d
StatusCleared(d) == [d EXCEPT !.dd = FALSE]

\* recycle_rx_descriptor(): cleared before the device is told.
Recycle ==
  /\ service = "recycle"
  /\ rx' = [rx EXCEPT ![rx_index] = StatusCleared(@)]
  /\ rdt' = rx_index /\ rx_index' = NextSlot(rx_index)
  /\ serviced' = serviced + 1 /\ handled' = handled + 1
  /\ service' = "frames"
  /\ UNCHANGED <<initVars, rdh, passed, txVars, causeVars, arrived>>

ServiceDone ==
  /\ service = "frames"
  /\ serviced = RingCount \/ ~rx[rx_index].dd
  /\ service' = "idle" /\ serviced' = 0
  /\ icr' = IF mode = "poll" THEN FALSE ELSE icr
  /\ UNCHANGED <<initVars, rx, rdh, rdt, rx_index, handled, passed, txVars, ims, msi, due, arrived>>

\* transmit(), under its lock: reaps, and refuses when the ring is full.
RoomNoGap(head) == TRUE
Room(head) == NextSlot(tx_tail) # head /\ tx[tx_tail].dd

Transmit ==
  /\ at \in {"online", "clear"} /\ Len(accepted) < MaxSends
  /\ tx_head' = Reaped
  /\ \/ /\ Room(Reaped)
        /\ accepted' = Append(accepted, Len(accepted) + 1)
        /\ tx' = [tx EXCEPT ![tx_tail] = [dd |-> FALSE, frame |-> Len(accepted) + 1]]
        /\ tx_tail' = NextSlot(tx_tail)
     \/ ~Room(Reaped) /\ UNCHANGED <<accepted, tx, tx_tail>>
  /\ tdt' = tx_tail'
  /\ UNCHANGED <<initVars, rxVars, tdh, sent, causeVars, arrived>>

Setup == Probe \/ SetupRx \/ SetupTx \/ RegisterLink \/ RegisterService \/ ClearCauses
         \/ Quiesce \/ Drain

Device == Receive \/ Emit \/ \E d \in 1..Candidates : BeginDma(d) \/ EndDma(d)

Service == Poll \/ Interrupt \/ TakeFrame \/ Recycle \/ ServiceDone

Next == Setup \/ Device \/ Service \/ Transmit

Spec == Init /\ [][Next]_vars

\* The deferred-poll worker comes round again, and interrupts are taken.
Fairness == WF_vars(Setup) /\ WF_vars(Service)

FairSpec == Spec /\ Fairness

-----------------------------------------------------------------------------
(* What the rings hold, for the promise of LinkFrames.                     *)

Usable == at \in {"online", "clear", "service"}

Unread ==
  LET frames == [k \in 1..Gap(rx_index, rdh) |-> rx[(rx_index + (k - 1)) % RingCount].frame]
  IN  IF service = "recycle" /\ frames # <<>> THEN Tail(frames) ELSE frames

Unsent ==
  [k \in 1..Gap(tdh, tdt) |-> tx[(tdh + (k - 1)) % RingCount].frame]

Link == INSTANCE LinkFrames WITH
  Frames <- 1..(MaxFrames + MaxSends), Whole <- {f \in 1..MaxFrames : Good(f)}, RxRoom <- RingCount - 1, TxRoom <- RingCount - 1,
  up <- Usable, waiting <- IF cur =< Candidates /\ hw[cur].rx THEN Unread ELSE <<>>,
  queued <- Unsent

\* Frames go up and out once and in order, and damaged ones not at all.
FramesInOrder == Link!Spec

\* The device has no way into memory that the driver has given back: late
\* requests of a device that is given up included (e1000e.cpp:1081-1090).
DmaSafe ==
  \A d \in 1..Candidates :
    /\ hw[d].rx \/ hw[d].busy => pages[d] \in {"held", "retained"}
    /\ pages[d] = "held" => d = cur

\* A frame that was announced to a driver in service is dealt with, also when
\* it comes while the frames before it are (e1000e.cpp:1203-1207).  Few frames
\* come, so the driver can catch up.
Behind == due > handled
Served == Behind ~> ~Behind
=============================================================================
