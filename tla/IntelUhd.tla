------------------------------ MODULE IntelUhd ------------------------------
(***************************************************************************)
(* The driver of Intel graphics, intel-uhd-gemini-lake/src/intel_uhd.cpp:  *)
(* the table of graphics addresses (GGTT) and what it puts there, the ring *)
(* of the blitter, and the one context that it runs on the render engine.  *)
(*                                                                         *)
(* The driver has no lock: the kernel makes one call at a time, as it does *)
(* in the model.  The two engines go on between any two steps of a call.   *)
(*                                                                         *)
(* External: the engines, as far as the driver relies on them; the kernel, *)
(* which makes the calls, unbinds a surface before it frees it, and hands  *)
(* over whole pages only.                                                  *)
(***************************************************************************)
EXTENDS Naturals, Sequences, SequencesExt

CONSTANTS
  Aperture,     \* pages of the GGTT that exist
  ScanPages,    \* pages of the scanout that the firmware left, at offset 0
  RingPages,    \* of the ring of the blitter
  RenderPages,  \* of status page, context and ring of the render engine
  BindingCount, BindingPages,  \* kRenderBindingCount, kRenderBindingBytes
  RingDwords,   \* of the ring of the blitter
  CopyDwords, FillDwords,  \* its two commands: 10 and 7
  TailUnits,    \* dwords by which a blitter may take its tail: the driver masks it as
                \* pairs (kTailAddrMask), while it writes and compares single ones
  RenderDwords, \* of the ring of the render engine
  RequestDwords,\* kRenderRequestDwords
  MapPages,     \* kMapWindowSize, in pages, without registers and scanout
  Surfaces, SurfacePages,  \* surfaces of the kernel and their sizes
  MaxCalls      \* bound: calls; a ring that runs again is followed for one command

UhdAssumption ==
  /\ {Aperture, ScanPages, RingPages, RenderPages, BindingCount, BindingPages, RingDwords, CopyDwords,
      FillDwords, RenderDwords, RequestDwords} \subseteq Nat \ {0}
  /\ SurfacePages \in [Surfaces -> Nat \ {0}] /\ {MapPages, MaxCalls} \subseteq Nat
  /\ TailUnits \subseteq {1, 2} /\ RingDwords % 2 = 0
  /\ RequestDwords =< RenderDwords

VARIABLES
  at,        \* the next step of the driver, "idle" between calls
  call,      \* the call
  g_state,   \* what the driver knows
  bindings,  \* g_render_bindings: a surface in each slot
  ggtt,      \* what each page of the GGTT is mapped to
  mapped,    \* pages of the window of virtual addresses that are used up
  wake,      \* engines that the driver keeps awake
  ring,      \* ring of the blitter: what was written to each dword
  blt,       \* the blitter: running, its head and tail, the command it is at, its unit
  rcs,       \* the render engine: has the context, the fence, its ring
  alive,     \* surfaces that are not freed
  submitted, executed, reported  \* history: commands of the blitter

hardware == <<ring, blt, rcs>>
history == <<submitted, executed, reported>>
vars == <<at, call, g_state, bindings, ggtt, mapped, wake, hardware, alive, history>>

None == "none"
Render == "RCS"
Blitter == "BCS"
Engines == {Render, Blitter}

\* The GGTT: the scanout and a page behind it, then what the driver needs.
BltHwsp == ScanPages + 1
BltRing == BltHwsp + 1
RenderArea == BltRing + RingPages
render_binding_ggtt_base == RenderArea + RenderPages
SourceWindow == render_binding_ggtt_base + BindingCount * BindingPages

Slots == 0..(BindingCount - 1)
SlotBase(i) == render_binding_ggtt_base + i * BindingPages

\* Pages that there are not, for writes behind the end.
Pages == 0..(SourceWindow + BindingPages + 1)
Block(first, n) == first..(first + n - 1)
PageOf(s, i) == <<s, i>>
NoPage == PageOf(None, 0)
ScanPage == PageOf("scanout", 0)
KernelPage == PageOf("kernel", 0)
OwnPages(s) == IF s = None THEN {} ELSE {PageOf(s, i) : i \in Block(0, SurfacePages[s])}

Map(first, n, what(_)) == [p \in Pages |-> IF p \in Block(first, n) THEN what(p - first) ELSE ggtt[p]]

NoCommand == [n |-> 0, len |-> 0, end |-> 0, refs |-> {}, s |-> None]
NoCall == [op |-> None, s |-> None]
Nothing == [command |-> NoCommand, part |-> 0]

Init ==
  /\ at = "init" /\ call = NoCall
  /\ g_state \in [active : {FALSE}, scanout : BOOLEAN, probe : BOOLEAN, ready : {FALSE}, disabled : {FALSE},
                  tail : {0}, window : {0}, context : {FALSE}, render_tail : {0}, probes : {0}, validated : {FALSE}]
  /\ bindings = [i \in Slots |-> None]
  /\ ggtt = [p \in Pages |-> IF p \in Block(0, ScanPages) THEN ScanPage ELSE NoPage]
  /\ mapped = 0 /\ wake = {}
  /\ ring = [i \in 0..(RingDwords - 1) |-> Nothing]
  /\ blt \in [on : {FALSE}, head : {0}, tail : {0}, cur : {NoCommand}, unit : TailUnits]
  /\ rcs = [in |-> FALSE, fence |-> FALSE, head |-> 0, tail |-> 0,
            ring |-> [i \in 0..(RenderDwords - 1) |-> 0], ran |-> <<>>]
  /\ alive = Surfaces /\ submitted = <<>> /\ executed = <<>> /\ reported = {}

-----------------------------------------------------------------------------
(* Steps of the driver.                                                    *)

\* map_physical_range(): what was mapped stays mapped.
Mappable == mapped < MapPages
MapOne == mapped' = mapped + 1

\* A call that returns; the probe lets its engine sleep again.
Return ==
  /\ at' = "idle" /\ call' = NoCall
  /\ wake' = IF call.op = "probe" THEN wake \ {Render} ELSE wake

\* init_device(), with a scanout that was adopted or none.  The probe of the
\* render engine is asked for, and the device a Gemini Lake.
InitDevice ==
  /\ at = "init" /\ g_state' = [g_state EXCEPT !.active = TRUE]
  /\ IF g_state.probe
       THEN at' = "render wake" /\ call' = [op |-> "probe", s |-> None]
       ELSE at' = "idle" /\ call' = NoCall
  /\ UNCHANGED <<bindings, ggtt, mapped, wake, hardware, alive, history>>

\* acquire_forcewake(): gives the request back when it is not acknowledged.
Acquire(engine, from, to) ==
  /\ at = from /\ wake' = wake \cup {engine} /\ at' = to
  /\ UNCHANGED <<call, g_state, bindings, ggtt, mapped, hardware, alive, history>>

Calls == {[op |-> o, s |-> s] : o \in {"present", "fill", "bind"}, s \in alive}
           \cup {[op |-> "render_fill", s |-> s] : s \in alive \cap {bindings[i] : i \in Slots}}
           \cup {[op |-> "blit", s |-> None]}

Begin ==
  /\ at = "idle" /\ g_state.active /\ Len(submitted) < MaxCalls
  /\ \E c \in Calls : call' = c /\ at' = "setup"
  /\ UNCHANGED <<g_state, bindings, ggtt, mapped, wake, hardware, alive, history>>

\* Where a call goes on when the blitter is set up.
AfterSetup ==
  CASE call.op \in {"present", "fill"} -> "window" [] call.op = "bind" -> "slot"
    [] call.op = "probe" -> "render setup" [] OTHER -> "submit"

Fits == g_state.scanout /\ BltRing + RingPages =< Aperture

KernelPages(pages) == [p \in Pages |-> IF p \in pages THEN KernelPage ELSE ggtt[p]]

\* setup_blt_engine() up to its registers; of the entries that it writes, one
\* may not be read back.
SetupReady ==
  /\ at = "setup" /\ g_state.ready /\ at' = AfterSetup
  /\ UNCHANGED <<call, g_state, bindings, ggtt, mapped, wake, hardware, alive, history>>

SetupRefused ==
  /\ at = "setup" /\ ~g_state.ready /\ (g_state.disabled \/ ~Fits) /\ Return
  /\ UNCHANGED <<g_state, bindings, ggtt, mapped, hardware, alive, history>>

SetupPages ==
  /\ at = "setup" /\ ~g_state.ready /\ ~g_state.disabled /\ Fits
  /\ \/ /\ mapped + 2 =< MapPages
        /\ ggtt' = KernelPages(Block(BltHwsp, 1 + RingPages)) /\ mapped' = mapped + 2
        /\ at' = "setup wake" /\ UNCHANGED <<call, wake>>
     \/ /\ ggtt' \in {ggtt, KernelPages({BltHwsp})} /\ mapped' \in {mapped, mapped + 1} /\ mapped' =< MapPages /\ Return
  /\ ring' = [i \in DOMAIN ring |-> Nothing]
  /\ UNCHANGED <<g_state, bindings, blt, rcs, alive, history>>

SetupAsleep ==
  /\ at = "setup wake" /\ g_state' = [g_state EXCEPT !.disabled = TRUE] /\ Return
  /\ UNCHANGED <<bindings, ggtt, mapped, hardware, alive, history>>

SetupRegisters ==
  /\ at = "setup registers"
  /\ blt' = [blt EXCEPT !.on = TRUE, !.head = 0, !.tail = 0]
  /\ g_state' = [g_state EXCEPT !.ready = TRUE, !.tail = 0]
  /\ wake' = wake \ {Blitter} /\ at' = AfterSetup
  /\ UNCHANGED <<call, bindings, ggtt, mapped, ring, rcs, alive, history>>

\* ensure_blt_source_window(), and the entries of the surface.
WindowFits(n) == n =< g_state.window \/ (SourceWindow + n =< Aperture /\ Mappable)

MapSource ==
  LET n == SurfacePages[call.s] IN
  /\ at = "window" /\ WindowFits(n)
  /\ IF n > g_state.window
       THEN MapOne /\ g_state' = [g_state EXCEPT !.window = n]
       ELSE UNCHANGED <<mapped, g_state>>
  /\ ggtt' = Map(SourceWindow, n, LAMBDA i : PageOf(call.s, i))
  /\ at' = "submit"
  /\ UNCHANGED <<call, bindings, wake, hardware, alive, history>>

NoWindow ==
  /\ at = "window" /\ ~WindowFits(SurfacePages[call.s]) /\ Return
  /\ UNCHANGED <<g_state, bindings, ggtt, mapped, hardware, alive, history>>

\* bind_render_surface() and unbind_render_surface().
FreeSlots == {i \in Slots : bindings[i] = None}
FirstFree == CHOOSE i \in FreeSlots : \A j \in FreeSlots : i =< j
CanBind ==
  /\ SurfacePages[call.s] =< BindingPages /\ FreeSlots # {}
  /\ SlotBase(FirstFree) + BindingPages =< Aperture /\ Mappable

Bind ==
  /\ at = "slot" /\ CanBind /\ MapOne
  /\ ggtt' = Map(SlotBase(FirstFree), SurfacePages[call.s], LAMBDA i : PageOf(call.s, i))
  /\ bindings' = [bindings EXCEPT ![FirstFree] = call.s]
  /\ Return
  /\ UNCHANGED <<g_state, hardware, alive, history>>

NoSlot ==
  /\ at = "slot" /\ ~CanBind /\ Return
  /\ UNCHANGED <<g_state, bindings, ggtt, mapped, hardware, alive, history>>

Unbind(i) ==
  /\ at = "idle" /\ bindings[i] # None
  /\ ggtt' = Map(SlotBase(i), SurfacePages[bindings[i]], LAMBDA p : NoPage)
  /\ bindings' = [bindings EXCEPT ![i] = None]
  /\ UNCHANGED <<at, call, g_state, mapped, wake, hardware, alive, history>>

\* The kernel frees a surface.
Free(s) ==
  /\ at = "idle" /\ s \in alive /\ \A i \in Slots : bindings[i] # s
  /\ alive' = alive \ {s}
  /\ UNCHANGED <<at, call, g_state, bindings, ggtt, mapped, wake, hardware, history>>

-----------------------------------------------------------------------------
(* submit_blt_commands().                                                  *)

\* The pages that a command of this call names.
Scanout == Block(0, ScanPages)
WindowOf(s) == Block(SourceWindow, SurfacePages[s])
Named ==
  CASE call.op = "present" -> Scanout \cup WindowOf(call.s)
    [] call.op = "fill" -> WindowOf(call.s)
    [] call.op = "render_fill" ->
         Block(SlotBase(CHOOSE i \in Slots : bindings[i] = call.s), SurfacePages[call.s])
    [] OTHER -> Scanout

Command ==
  LET len == IF call.op \in {"present", "blit"} THEN CopyDwords ELSE FillDwords
  IN [n |-> Len(submitted) + 1, len |-> len, end |-> g_state.tail + len, refs |-> Named, s |-> call.s]

SubmitRefused ==
  /\ at = "submit" /\ g_state' = [g_state EXCEPT !.disabled = TRUE] /\ Return
  /\ UNCHANGED <<bindings, ggtt, mapped, hardware, alive, history>>

SubmitAwake ==
  /\ at = "submit" /\ ~g_state.disabled
  /\ wake' = wake \cup {Blitter}
  /\ at' = IF g_state.tail + Command.len > RingDwords THEN "wrap" ELSE "write"
  /\ UNCHANGED <<call, g_state, bindings, ggtt, mapped, hardware, alive, history>>

\* What the blitter takes for its tail, and the head that it shows: it waits
\* in the middle of a command that is not there to its end.
Limit == blt.tail - (blt.tail % blt.unit)
Here == ring[blt.head % RingDwords].command
Partly == blt.head < Limit /\ Here.len > 0 /\ blt.head + Here.len > Limit
HeadShown == IF Partly THEN Limit ELSE blt.head

\* wait_for_blt_idle(): kHeadAddrMask counts dwords and kTailAddrMask pairs.
TailAddress(t) == t - (t % 2)
BltIdle == blt.cur = NoCommand /\ HeadShown = TailAddress(blt.tail)

Wrap ==
  /\ at = "wrap" /\ BltIdle
  /\ blt' = [blt EXCEPT !.head = 0, !.tail = 0]
  /\ g_state' = [g_state EXCEPT !.tail = 0] /\ at' = "write"
  /\ UNCHANGED <<call, bindings, ggtt, mapped, wake, ring, rcs, alive, history>>

WriteRing ==
  /\ at = "write"
  /\ ring' = [i \in DOMAIN ring |->
                IF i \in Block(g_state.tail, Command.len)
                  THEN [command |-> Command, part |-> i - g_state.tail] ELSE ring[i]]
  /\ g_state' = [g_state EXCEPT !.tail = @ + Command.len]
  /\ blt' = [blt EXCEPT !.tail = g_state'.tail]
  /\ submitted' = Append(submitted, Command)
  /\ at' = "wait"
  /\ UNCHANGED <<call, bindings, ggtt, mapped, wake, rcs, alive, executed, reported>>

BltDone ==
  /\ at = "wait" /\ BltIdle
  /\ reported' = reported \cup {Len(submitted)}
  /\ wake' = wake \ {Blitter} /\ at' = "idle" /\ call' = NoCall
  /\ UNCHANGED <<g_state, bindings, ggtt, mapped, hardware, alive, submitted, executed>>

\* A timeout stops the ring and is the last of the acceleration; only after a
\* command head and tail are set back.
BltTimeOut ==
  /\ at \in {"wrap", "wait"}
  /\ blt' = IF at = "wait" THEN [blt EXCEPT !.on = FALSE, !.head = 0, !.tail = 0] ELSE [blt EXCEPT !.on = FALSE]
  /\ g_state' = [g_state EXCEPT !.ready = FALSE, !.disabled = TRUE, !.tail = IF at = "wait" THEN 0 ELSE @]
  /\ wake' = wake \ {Blitter} /\ at' = "idle" /\ call' = NoCall
  /\ UNCHANGED <<bindings, ggtt, mapped, ring, rcs, alive, history>>

-----------------------------------------------------------------------------
(* The render engine: setup_render_engine(), and one request at a time.    *)

RenderFits == RenderArea + RenderPages =< Aperture

RenderSetup ==
  /\ at = "render setup" /\ RenderFits /\ mapped + 4 =< MapPages
  /\ ggtt' = KernelPages(Block(RenderArea, RenderPages)) /\ mapped' = mapped + 4
  /\ g_state' = [g_state EXCEPT !.context = TRUE, !.render_tail = 0, !.probes = 0]
  /\ at' = "request"
  /\ UNCHANGED <<call, bindings, wake, hardware, alive, history>>

RenderRefused ==
  /\ \/ at = "render wake" /\ wake' = wake /\ at' = "idle" /\ call' = NoCall /\ UNCHANGED <<g_state, ggtt>>
     \/ /\ at = "render setup" /\ Return /\ UNCHANGED g_state
        /\ ggtt' \in {ggtt} \cup (IF RenderFits THEN {KernelPages(Block(RenderArea, RenderPages))} ELSE {})
  /\ UNCHANGED <<bindings, mapped, hardware, alive, history>>

\* render_draw_demo() up to its request.
DrawDemo(s) ==
  /\ at = "idle" /\ s \in alive /\ g_state.validated /\ g_state.context /\ g_state.probes < MaxCalls
  /\ call' = [op |-> "draw", s |-> s] /\ at' = "render wake"
  /\ UNCHANGED <<g_state, bindings, ggtt, mapped, wake, hardware, alive, history>>

\* submit_gen9_render_breadcrumb(): a request that does not fit in front of the
\* end is put at zero, behind padding.
Padded == g_state.render_tail + RequestDwords > RenderDwords
RequestAt == IF Padded THEN 0 ELSE g_state.render_tail

SubmitRequest ==
  /\ at = "request"
  /\ LET padded == [i \in DOMAIN rcs.ring |-> IF Padded /\ i >= g_state.render_tail THEN 0 ELSE rcs.ring[i]]
     IN rcs' = [rcs EXCEPT !.ring = [padded EXCEPT ![RequestAt] = g_state.probes + 1], !.in = TRUE,
                           !.tail = RequestAt + RequestDwords, !.fence = FALSE]
  /\ at' = "retire"
  /\ UNCHANGED <<call, g_state, bindings, ggtt, mapped, wake, ring, blt, alive, history>>

\* The fence is there, the engine idle and its context field clear.  The probe
\* makes two requests, and looks at what they drew.
FenceSeen == rcs.fence
Retired == rcs.fence /\ ~rcs.in

NextRequest ==
  /\ at = "retire" /\ Retired
  /\ g_state' = [g_state EXCEPT !.render_tail = rcs.tail, !.probes = @ + 1]
  /\ at' = IF call.op = "probe" /\ g_state'.probes = 1 THEN "request" ELSE "look"
  /\ UNCHANGED <<call, bindings, ggtt, mapped, wake, hardware, alive, history>>

Drawn ==
  /\ at = "look" /\ g_state' = [g_state EXCEPT !.validated = TRUE]
  /\ wake' = wake \ {Render} /\ at' = "idle" /\ call' = NoCall
  /\ UNCHANGED <<bindings, ggtt, mapped, hardware, alive, history>>

\* Not retired in time, or nothing drawn: the probe gives up the context, the
\* demo what it was validated by.
NotDrawn ==
  /\ at \in {"retire", "look"}
  /\ g_state' = IF call.op = "probe" THEN [g_state EXCEPT !.context = FALSE]
                                     ELSE [g_state EXCEPT !.validated = FALSE]
  /\ wake' = wake \ {Render} /\ at' = "idle" /\ call' = NoCall
  /\ UNCHANGED <<bindings, ggtt, mapped, hardware, alive, history>>

-----------------------------------------------------------------------------
(* The engines (external).                                                 *)

\* A command is read, and carried out later; the ring goes round.
Fetch ==
  /\ Len(executed) =< MaxCalls
  /\ blt.on /\ blt.cur = NoCommand /\ blt.head # Limit /\ ~Partly
  /\ LET first == ring[blt.head % RingDwords]
         c == IF first.part = 0 THEN first.command ELSE [first.command EXCEPT !.n = 0]
     IN blt' = [blt EXCEPT !.cur = c, !.head = (@ + c.len) % RingDwords]
  /\ UNCHANGED <<at, call, g_state, bindings, ggtt, mapped, wake, ring, rcs, alive, history>>

Reached(c) == {ggtt[p] : p \in c.refs}

\* Also after the ring was stopped.
Execute ==
  /\ blt.cur # NoCommand
  /\ executed' = Append(executed, [n |-> blt.cur.n, late |-> ~blt.on,
       own |-> Reached(blt.cur) \subseteq {ScanPage} \cup (IF blt.cur.s \in alive THEN OwnPages(blt.cur.s) ELSE {})])
  /\ blt' = [blt EXCEPT !.cur = NoCommand]
  /\ UNCHANGED <<at, call, g_state, bindings, ggtt, mapped, wake, ring, rcs, alive, submitted, reported>>

\* The requests from the saved head on, round the end of the ring.
Requests(from, to) ==
  LET part(i, j) == SelectSeq([k \in 1..(j - i) |-> rcs.ring[i + k - 1]], LAMBDA r : r # 0)
  IN IF from =< to THEN part(from, to) ELSE part(from, RenderDwords) \o part(0, to)

RunRequest ==
  /\ rcs.in /\ ~rcs.fence
  /\ rcs' = [rcs EXCEPT !.fence = TRUE, !.head = rcs.tail, !.ran = @ \o Requests(rcs.head, rcs.tail)]
  /\ UNCHANGED <<at, call, g_state, bindings, ggtt, mapped, wake, ring, blt, alive, history>>

RetireContext ==
  /\ rcs.in /\ rcs.fence /\ rcs' = [rcs EXCEPT !.in = FALSE]
  /\ UNCHANGED <<at, call, g_state, bindings, ggtt, mapped, wake, ring, blt, alive, history>>

Setup ==
  \/ InitDevice \/ SetupReady \/ SetupRefused \/ SetupPages \/ SetupAsleep \/ SetupRegisters
  \/ Acquire(Blitter, "setup wake", "setup registers")
Surface == MapSource \/ NoWindow \/ Bind \/ NoSlot \/ (\E i \in Slots : Unbind(i)) \/ (\E s \in Surfaces : Free(s))
Submit == Begin \/ SubmitRefused \/ SubmitAwake \/ Wrap \/ WriteRing \/ BltDone \/ BltTimeOut
Draw ==
  \/ RenderSetup \/ RenderRefused \/ SubmitRequest \/ NextRequest \/ Drawn \/ NotDrawn
  \/ Acquire(Render, "render wake", IF call.op = "probe" THEN "setup" ELSE "request")
  \/ \E s \in Surfaces : DrawDemo(s)
Device == Fetch \/ Execute \/ RunRequest \/ RetireContext

Next == Setup \/ Surface \/ Submit \/ Draw \/ Device

Spec == Init /\ [][Next]_vars

-----------------------------------------------------------------------------
\* Nothing that an engine uses is mapped away, a bound surface is where it was
\* bound, and nothing is mapped behind the end of the table, whatever is bound,
\* shown and given up in between (intel_uhd.cpp:834-841, 1561-1644).
TablesHold ==
  /\ \A p \in Scanout : ggtt[p] = ScanPage
  /\ g_state.ready => \A p \in Block(BltHwsp, 1 + RingPages) : ggtt[p] = KernelPage
  /\ g_state.context => \A p \in Block(RenderArea, RenderPages) : ggtt[p] = KernelPage
  /\ \A i \in Slots : bindings[i] # None =>
       \A k \in Block(0, SurfacePages[bindings[i]]) : ggtt[SlotBase(i) + k] = PageOf(bindings[i], k)
  /\ \A p \in Pages : p >= Aperture => ggtt[p] = NoPage

\* A command whose end is in the middle of a pair: a blitter that takes its tail
\* in pairs waits for the next one, while the driver takes it for idle.
HeldBack(n) == blt.unit = 2 /\ submitted[n].end % 2 # 0

\* It is lost when the next command is put at the beginning of the ring.
Lost(n) == HeldBack(n) /\ n < Len(submitted) /\ submitted[n + 1].end = submitted[n + 1].len

\* With a tail exactly at its end the ring goes round, and what is in it runs again.
Overrun == \E n \in DOMAIN submitted : submitted[n].end = RingDwords

Executed(n) == \E i \in DOMAIN executed : executed[i].n = n
Behind(n) == \E i \in DOMAIN executed : executed[i].n > n

\* The blitter carries out what was submitted, in order and once, on the pages
\* of the surface of the call, and what is reported as done was carried out, as
\* long as the ring is not filled to its very end, after which nothing is reported
\* any more; with two exceptions.  A command that was given up may end later, on
\* pages that were freed since.  Where the tail counts pairs, a fill that is held
\* back is reported before it is carried out, with the next command, on pages that
\* may have been freed, or, if the ring starts anew with that, never
\* (intel_uhd.cpp:607-625, 1646-1705).
CommandsOnce ==
  /\ \A n \in reported : submitted[n].end < RingDwords /\ (Executed(n) \/ HeldBack(n))
  /\ ~Overrun =>
       /\ \A i \in DOMAIN executed :
            /\ executed[i].n \in DOMAIN submitted
            /\ executed[i].own \/ executed[i].late \/ HeldBack(executed[i].n)
       /\ \A i, j \in DOMAIN executed : i < j => executed[i].n < executed[j].n
       /\ \A n \in DOMAIN submitted : Behind(n) => Executed(n) \/ Lost(n)
       /\ \A n \in reported : n < Len(submitted) - 1 => Executed(n) \/ Lost(n)

\* The context, its ring and its target are written only while the engine does
\* not have them, and every request runs once, also behind the end of the ring
\* and after a failure (intel_uhd.cpp:1358-1371, 1421-1431).
ContextAtRest ==
  /\ at = "request" => ~rcs.in
  /\ \A i \in DOMAIN rcs.ran : rcs.ran[i] = i

\* Registers of an engine are used only while it is kept awake, and it may
\* sleep again when the call is over (intel_uhd.cpp:665-718).
AwakeWhenUsed ==
  /\ at \in {"setup registers", "wrap", "write", "wait"} => Blitter \in wake
  /\ at \in {"render setup", "request", "retire", "look"} => Render \in wake
  /\ at = "idle" => wake = {}
=============================================================================
