------------------------------ MODULE MCDevices ------------------------------
(* The drivers of two network cards and of sound cards, which share         *)
(* nothing: one run explores each by itself, "which" saying which one it    *)
(* is, while the others stay in their initial states.                       *)
EXTENDS Integers, Sequences, TLC

CONSTANTS
  Candidates, MaxFrames,                                \* of both network cards
  QueueSize, IndexLimit, Serialised, MaxSends,          \* of VirtioNet
  RingCount, NicSends,                                  \* of E1000e
  Ring, Page, Guard, Prompt, MaxSamples                 \* of Hda

VARIABLES
  which,
  at, cur, status, has_mac, polled, rx, tx, in_use, worker, sending, reap, index, elem,
  arrived, handled, passed, accepted, sent,
  nic_at, nic_cur, hw, pages, mode, nic_rx, rdh, rdt, rx_index, nic_tx, tdh, tdt, tx_head, tx_tail,
  service, serviced, icr, ims, msi, due, nic_arrived, nic_handled, nic_passed, nic_accepted, nic_sent,
  dma, position, run, write_position, queued_bytes, last_position, stream_running, paused,
  op, step, left, numbered, snd_due, heard, past, late, silence

Virtio == INSTANCE VirtioNet WITH Size <- QueueSize

Intel == INSTANCE E1000e WITH
  MaxSends <- NicSends, at <- nic_at, cur <- nic_cur, rx <- nic_rx, tx <- nic_tx,
  arrived <- nic_arrived, handled <- nic_handled, passed <- nic_passed,
  accepted <- nic_accepted, sent <- nic_sent

Sound == INSTANCE Hda WITH written <- numbered, due <- snd_due

ASSUME DevicesAssumption ==
  /\ Virtio!VirtioAssumption /\ Intel!E1000eAssumption /\ Sound!HdaAssumption

virtioVars == <<
  at, cur, status, has_mac, polled, rx, tx, in_use, worker, sending, reap, index, elem,
  arrived, handled, passed, accepted, sent>>
intelVars == <<
  nic_at, nic_cur, hw, pages, mode, nic_rx, rdh, rdt, rx_index, nic_tx, tdh, tdt, tx_head, tx_tail,
  service, serviced, icr, ims, msi, due, nic_arrived, nic_handled, nic_passed, nic_accepted, nic_sent>>
soundVars == <<
  dma, position, run, write_position, queued_bytes, last_position, stream_running, paused,
  op, step, left, numbered, snd_due, heard, past, late, silence>>
devicesVars == <<which, virtioVars, intelVars, soundVars>>

DevicesInit ==
  /\ which \in {"virtio-net", "e1000e", "hda"}
  /\ Virtio!Init /\ Intel!Init /\ Sound!Init

VirtioNext == which = "virtio-net" /\ Virtio!Next /\ UNCHANGED <<which, intelVars, soundVars>>
IntelNext == which = "e1000e" /\ Intel!Next /\ UNCHANGED <<which, virtioVars, soundVars>>
SoundNext == which = "hda" /\ Sound!Next /\ UNCHANGED <<which, virtioVars, intelVars>>

DevicesNext == VirtioNext \/ IntelNext \/ SoundNext

\* The fairness of each which while it is explored.
DevicesFairness ==
  /\ WF_intelVars(which = "e1000e" /\ Intel!Setup) /\ WF_intelVars(which = "e1000e" /\ Intel!Service)
  /\ WF_virtioVars(which = "virtio-net" /\ Virtio!Worker) /\ SF_virtioVars(which = "virtio-net" /\ Virtio!Poll)
  /\ WF_virtioVars(which = "virtio-net" /\ (Virtio!Choose \/ Virtio!Reap("sender")))
  /\ WF_soundVars(which = "hda" /\ Sound!Play) /\ WF_soundVars(which = "hda" /\ Sound!Holder)

DevicesSpec == DevicesInit /\ [][DevicesNext]_devicesVars /\ DevicesFairness

------------------------------------------------------------------------------
\* Both drivers of network cards pass every good frame once, in the order of the
\* wire, and send what the stack gave them, in its order: each implements
\* LinkFrames (e1000e.cpp:1202-1243, 1366-1416 and virtio_net.cpp's poll() and
\* transmit()).
FramesInOrder == Intel!FramesInOrder /\ Virtio!FramesInOrder

\* Indices stay in their rings, no memory is given back while a device may
\* write it, and every descriptor belongs to the device, to the driver or to a
\* frame under way, once: after failed initialisations, wrapped indices and
\* full queues (e1000e.cpp:678-738, virtio_net.cpp:404-441, 749-774).
DeviceMemorySafe ==
  Intel!TypeOK /\ Intel!DmaSafe /\ Virtio!TypeOK /\ Virtio!DescriptorsConserved

\* What is heard is what was written, in order, once and to the end, however
\* often the ring wraps, runs out, is paused or flushed (hda.cpp:561-721).
HeardInOrder == Sound!TypeOK /\ Sound!NothingTwice /\ Sound!NothingSkipped

\* What a device has announced is taken from the ring in the end, lost causes
\* and full rings or not, and drain() returns (e1000e.cpp:1245-1255,
\* hda.cpp:655-679).
Waiting == Intel!Behind \/ Virtio!Behind \/ Sound!Draining
DevicesServed == Waiting ~> ~Waiting
=============================================================================
