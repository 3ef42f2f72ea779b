--------------------------------- MODULE Hda --------------------------------
(***************************************************************************)
(* Playback by the driver of Intel audio controllers,                      *)
(* intel-hda/src/hda.cpp: a cyclic buffer that the device plays round and  *)
(* round by itself, and a queue of samples that the driver keeps in it.    *)
(* An operation holds the lock of the driver from its call to its return;  *)
(* the device does not care for the lock and moves between any two steps.  *)
(*                                                                         *)
(* External: the device, which moves by whole frames of four bytes, the    *)
(* unit of the model; the rounding of positions is then no change.         *)
(***************************************************************************)
EXTENDS Naturals, Sequences, SequencesExt, FiniteSetsExt

CONSTANTS
  Ring,       \* kDmaBytes, in frames
  Page,       \* kPageSize, in frames
  Guard,      \* kSilenceGuardBytes, in frames
  Prompt,     \* somebody looks before the device is past the silence, see Timely
  MaxSamples  \* bound: frames that clients write

HdaAssumption ==
  /\ {Ring, Page, Guard, MaxSamples} \subseteq Nat \ {0}
  /\ Page + Guard < Ring /\ Prompt \in BOOLEAN

VARIABLES
  dma,      \* the buffer: a sample or 0, silence, in each cell
  position, \* where the device is (LPIB)
  run,      \* the device's run bit
  write_position, queued_bytes, last_position, stream_running, paused,  \* g_state
  op,       \* what holds the lock: "none", "write", "drain", "flush", "pause", "status"
  step,     \* what it does next: "update", "rebase" or "go on"
  left,     \* frames that write_pcm() has still to place
  written,  \* samples are numbered as they are written
  due,      \* history: samples written that must still be heard, in order
  heard,    \* history: samples played
  past,     \* history: frames that the device is past the queue
  late,     \* history: it was, and the driver has not begun anew since
  silence   \* history: frames that clear_silence_guard() had to clear last

deviceVars == <<position, run>>
queueVars == <<write_position, queued_bytes, last_position, stream_running, paused>>
callVars == <<op, step, left>>
historyVars == <<written, due, heard, past, late, silence>>
vars == <<dma, deviceVars, queueVars, callVars, historyVars>>

Cells == 0..(Ring - 1)
Ahead(i, j) == ((j + Ring) - i) % Ring  \* frames from cell i up to cell j

TypeOK ==
  /\ dma \in [Cells -> 0..MaxSamples]
  /\ {position, write_position, last_position} \subseteq Cells
  /\ queued_bytes \in 0..Ring
  /\ {run, stream_running, paused, late} \subseteq BOOLEAN
  /\ op \in {"none", "write", "drain", "flush", "pause", "status"}
  /\ step \in {"update", "rebase", "go on"}
  /\ {left, written} \subseteq 0..MaxSamples
  /\ due \in Seq(1..MaxSamples) /\ {past, silence} \subseteq 0..Guard

\* After setup_output().
Init ==
  /\ dma = [i \in Cells |-> 0] /\ position = 0 /\ run = FALSE
  /\ write_position = 0 /\ queued_bytes = 0 /\ last_position = 0
  /\ stream_running = FALSE /\ paused = FALSE
  /\ op = "none" /\ step = "update" /\ left = 0
  /\ written = 0 /\ due = <<>> /\ heard = <<>> /\ past = 0 /\ late = FALSE
  /\ silence = 0

-----------------------------------------------------------------------------
(* The device.  Somebody looks at its position before it has gone round,   *)
(* and before it has played the queue and Guard frames more; or, since     *)
(* less is cleared behind a queue that fills the buffer, before it has     *)
(* played what was cleared (Prompt).                                       *)

Slack == IF Prompt THEN silence ELSE Guard

Consumed == Ahead(last_position, position)
Behind == Consumed >= queued_bytes

Timely == Consumed + 1 < Ring /\ (Behind => past < Slack)

Play ==
  /\ run /\ Timely
  /\ position' = (position + 1) % Ring
  /\ past' = IF Behind THEN past + 1 ELSE past
  /\ late' = (late \/ Behind)
  /\ IF dma[position] = 0
     THEN UNCHANGED <<due, heard>>
     ELSE /\ heard' = Append(heard, dma[position])
          /\ due' = IF due # <<>> /\ Head(due) = dma[position] THEN Tail(due) ELSE due
  /\ UNCHANGED <<dma, run, queueVars, callVars, written, silence>>

-----------------------------------------------------------------------------
(* update_playback_position(), in two steps: the device goes on between    *)
(* the look at its position and its stop.                                  *)

Update ==
  /\ op # "none" /\ step = "update"
  /\ IF ~stream_running
     THEN step' = "go on" /\ UNCHANGED <<queued_bytes, last_position>>
     ELSE /\ queued_bytes' = IF Consumed > queued_bytes THEN 0 ELSE queued_bytes - Consumed
          /\ last_position' = position
          /\ step' = IF Behind THEN "rebase" ELSE "go on"
  /\ UNCHANGED <<dma, deviceVars, write_position, stream_running, paused, op, left, historyVars>>

OldPlace == last_position
Place == position

\* The stream stands still and the empty queue begins where the device is.
Rebase ==
  /\ run' = FALSE /\ stream_running' = FALSE
  /\ write_position' = Place /\ last_position' = Place
  /\ past' = 0 /\ late' = FALSE
  /\ UNCHANGED <<dma, position>>

Underrun ==
  /\ step = "rebase"
  /\ step' = "go on"
  /\ due' = IF late THEN <<>> ELSE due
  /\ Rebase
  /\ UNCHANGED <<queued_bytes, paused, op, left, written, heard, silence>>

-----------------------------------------------------------------------------
(* The operations.                                                         *)

Return == op' = "none" /\ step' = "update" /\ left' = 0

\* write_pcm() of n frames; when paused it takes none.
Write(n) ==
  /\ op = "none" /\ ~paused /\ written + n =< MaxSamples
  /\ op' = "write" /\ left' = n
  /\ UNCHANGED <<dma, deviceVars, queueVars, step, historyVars>>

Chunk == Min({left, Ring - queued_bytes, Ring - write_position})

NotCleared(start, room) == {}

\* clear_silence_guard(): the cells behind the queue, as far as they are free.
Cleared(start, room) == {(start + k) % Ring : k \in 0..(Min({room, Guard}) - 1)}

Copy ==
  /\ op = "write" /\ step = "go on"
  /\ left > 0 /\ Chunk > 0
  /\ ~(stream_running /\ queued_bytes # 0 /\ Ring - queued_bytes < Page)
  /\ LET place == (write_position + Chunk) % Ring
         guard == Cleared(place, Ring - (queued_bytes + Chunk))
     IN  /\ dma' = [i \in Cells |->
                      IF i \in write_position..(write_position + Chunk - 1)
                      THEN written + 1 + (i - write_position)
                      ELSE IF i \in guard THEN 0 ELSE dma[i]]
         /\ write_position' = place
  /\ queued_bytes' = queued_bytes + Chunk
  /\ left' = left - Chunk
  /\ written' = written + Chunk
  /\ due' = due \o [k \in 1..Chunk |-> written + k]
  /\ stream_running' = TRUE /\ run' = TRUE
  /\ last_position' = IF stream_running THEN last_position ELSE position
  /\ past' = IF past > Chunk THEN past - Chunk ELSE 0
  /\ silence' = Min({Guard, Ring - (queued_bytes + Chunk)})
  /\ step' = "update"
  /\ UNCHANGED <<position, paused, op, heard, late>>

\* It never waits: what does not fit is not taken.
WriteReturns ==
  /\ op = "write" /\ step = "go on"
  /\ \/ left = 0 \/ Chunk = 0
     \/ stream_running /\ queued_bytes # 0 /\ Ring - queued_bytes < Page
  /\ Return
  /\ UNCHANGED <<dma, deviceVars, queueVars, historyVars>>

\* Playing starts again where the device was stopped.
Resume ==
  /\ last_position' = position /\ run' = TRUE /\ stream_running' = TRUE /\ paused' = FALSE
  /\ UNCHANGED <<position, dma, write_position, queued_bytes>>

Drain ==
  /\ op = "none"
  /\ op' = "drain" /\ step' = "go on"
  /\ \/ paused /\ queued_bytes # 0 /\ Resume
     \/ ~(paused /\ queued_bytes # 0) /\ UNCHANGED <<dma, deviceVars, queueVars>>
  /\ UNCHANGED <<left, historyVars>>

StillPlaying == stream_running /\ queued_bytes # 0

DrainWaits ==
  /\ op = "drain" /\ step = "go on" /\ StillPlaying
  /\ step' = "update"
  /\ UNCHANGED <<dma, deviceVars, queueVars, op, left, historyVars>>

DrainReturns ==
  /\ op = "drain" /\ step = "go on" /\ ~StillPlaying
  /\ Rebase /\ queued_bytes' = 0 /\ paused' = FALSE
  /\ Return
  /\ UNCHANGED <<written, due, heard, silence>>

Call(name) ==
  /\ op = "none"
  /\ op' = name
  /\ UNCHANGED <<dma, deviceVars, queueVars, step, left, historyVars>>

\* flush() and set_paused() stop the device and look where it is once more.
Halt ==
  /\ op \in {"flush", "pause"} /\ step = "go on" /\ run
  /\ run' = FALSE /\ step' = "update"
  /\ UNCHANGED <<dma, position, queueVars, op, left, historyVars>>

FlushReturns ==
  /\ op = "flush" /\ step = "go on" /\ ~run
  /\ Rebase /\ queued_bytes' = 0 /\ paused' = FALSE
  /\ due' = <<>>
  /\ Return
  /\ UNCHANGED <<written, heard, silence>>

PauseReturns ==
  /\ op = "pause" /\ step = "go on" /\ ~run
  /\ stream_running' = FALSE /\ paused' = TRUE
  /\ Return
  /\ UNCHANGED <<dma, deviceVars, write_position, queued_bytes, last_position, historyVars>>

Unpause ==
  /\ op = "none" /\ paused
  /\ \/ queued_bytes # 0 /\ Resume
     \/ /\ queued_bytes = 0 /\ paused' = FALSE
        /\ UNCHANGED <<dma, deviceVars, write_position, queued_bytes, last_position, stream_running>>
  /\ UNCHANGED <<callVars, historyVars>>

StatusReturns ==
  /\ op = "status" /\ step = "go on"
  /\ Return
  /\ UNCHANGED <<dma, deviceVars, queueVars, historyVars>>

Calls ==
  \/ Drain \/ Call("flush") \/ Call("status") \/ Unpause
  \/ ~paused /\ Call("pause")
  \/ \E n \in 1..MaxSamples : Write(n)

Holder ==
  \/ Update \/ Underrun \/ Copy \/ WriteReturns \/ DrainWaits \/ DrainReturns
  \/ Halt \/ FlushReturns \/ PauseReturns \/ StatusReturns

Next == Play \/ Calls \/ Holder

Spec == Init /\ [][Next]_vars

\* The device plays, and who holds the lock goes on.
Fairness == WF_vars(Play) /\ WF_vars(Holder)

FairSpec == Spec /\ Fairness

-----------------------------------------------------------------------------
\* Nothing is heard twice or out of order: not after an underrun, a pause or a
\* flush, however often the buffer goes round (hda.cpp:577-580, 633-637).
NothingTwice == \A i, j \in DOMAIN heard : i < j => heard[i] < heard[j]

\* While the driver keeps ahead of the device, the next that is heard is the
\* oldest sample due, and a queue that has run out or was drained has been
\* heard to its end.
NothingSkipped ==
  /\ ~late /\ heard # <<>> /\ due # <<>> => Last(heard) < Head(due)
  /\ op = "none" /\ ~stream_running /\ ~paused => due = <<>>

\* A drain ends, and so does what waits for the lock behind it.
Draining == op = "drain"
DrainEnds == Draining ~> ~Draining
=============================================================================
