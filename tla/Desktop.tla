------------------------------- MODULE Desktop ------------------------------
(***************************************************************************)
(* The compositor, desktop/src/desktop.cpp, with its clients: a stack of   *)
(* windows whose pixels the clients write into shared memory whenever they *)
(* like, one pipe of requests, a pipe of events per client, and a screen   *)
(* that is painted again only where something is declared damaged.         *)
(*                                                                         *)
(* The screen has one dimension, columns, and the task bar, one cell; the  *)
(* pointer is in a column and in a zone of what is there.  Shadows, the    *)
(* volume control and the pixels themselves are left out.  External: the   *)
(* clients, as desktop_protocol.hpp has them, and pointer and keyboard.    *)
(***************************************************************************)
EXTENDS Integers, Sequences, SequencesExt, FiniteSetsExt, Functions

CONSTANTS
  Clients,     \* programs that open a window each, 1, 2, ... as they ask
  MaxWindows,  \* kMaxWindows
  Columns,     \* columns 0..Columns - 1 of the screen
  Width,       \* columns of a new window
  MinWidth,    \* the least width that resizing leaves
  Margin,      \* columns of a window that dragging leaves on the screen
  MenuColumns, \* columns that the menu covers; column 0 of the bar opens it
  EventRoom,   \* messages that an event pipe holds
  Batches,     \* pointer events that one read returns
  MaxDraws,    \* bound: times that clients draw
  MaxAsks      \* bound: messages under way to the compositor

DesktopAssumption ==
  /\ {MaxWindows, Columns, Width, MinWidth, Margin, EventRoom} \subseteq Nat \ {0}
  /\ {MaxDraws, MaxAsks} \subseteq Nat /\ Clients = 1..Cardinality(Clients)
  /\ MenuColumns \subseteq 0..(Columns - 1) /\ Width =< Columns

VARIABLES
  running,  \* F12 ends the desktop
  windows,  \* g_windows, back to front
  next_id,  \* g_next_window_id
  menu_open, pointer, drag, resize, grip,  \* pointer, its grips and the offset
  pipe,     \* requests under way
  events,   \* per client: its event pipe
  client,   \* per client: "off", "asked", "open" or "gone"
  surface,  \* per client: what it has drawn
  screen, bar  \* what was painted last

serverVars == <<running, windows, next_id, menu_open, pointer, drag, resize, grip>>
clientVars == <<client, surface>>
vars == <<serverVars, pipe, events, clientVars, screen, bar>>

AllColumns == 0..(Columns - 1)
Zones == {"title", "body", "bar"}
Focused(ws) == Len(ws)

Bounds(w) == (w.x..(w.x + w.width - 1)) \cap AllColumns
Hull(S) == IF S = {} THEN {} ELSE Min(S)..Max(S)

\* The window in front at a column, 0 for none.
WindowAt(ws, c) == Max({0} \cup {i \in DOMAIN ws : c \in Bounds(ws[i])})

PointerAt(p) == IF p.on_bar THEN {} ELSE {p.x}

\* What render() paints in a column.
Painted(ws, menu, p, c) ==
  LET i == WindowAt(ws, c) IN
    [window |-> IF i = 0 THEN 0 ELSE ws[i].id,
     drawn |-> IF i = 0 THEN 0 ELSE surface[ws[i].client],
     focused |-> i # 0 /\ i = Focused(ws),
     menu |-> menu /\ c \in MenuColumns,
     pointer |-> c \in PointerAt(p)]

\* The task buttons; which of them looks pressed is left out.
Buttons(ws) == {ws[i].id : i \in DOMAIN ws}

Render(old, ws, menu, p, area) ==
  [c \in AllColumns |-> IF c \in area THEN Painted(ws, menu, p, c) ELSE old[c]]

TypeOK ==
  /\ {running, menu_open} \subseteq BOOLEAN
  /\ Len(windows) =< MaxWindows
  /\ \A i \in DOMAIN windows :
       /\ windows[i].client \in Clients /\ windows[i].id \in 1..(next_id - 1)
       /\ windows[i].x \in (Margin - Columns)..(Columns - Margin)
       /\ windows[i].width \in 1..Columns
  /\ pointer \in [x : AllColumns, on_bar : BOOLEAN, down : BOOLEAN]
  /\ {drag, resize} \subseteq 0..MaxWindows
  /\ client \in [Clients -> {"off", "asked", "open", "gone"}]
  /\ surface \in [Clients -> 0..MaxDraws]
  /\ \A c \in Clients : Len(events[c]) =< EventRoom

Home == [x |-> 0, on_bar |-> FALSE, down |-> FALSE]
Blank == [c \in AllColumns |->
            [window |-> 0, drawn |-> 0, focused |-> FALSE, menu |-> FALSE, pointer |-> c = 0]]

Init ==
  /\ running = TRUE /\ windows = <<>> /\ next_id = 1 /\ menu_open = FALSE
  /\ pointer = Home
  /\ drag = 0 /\ resize = 0 /\ grip = 0
  /\ pipe = <<>> /\ events = [c \in Clients |-> <<>>]
  /\ client = [c \in Clients |-> "off"] /\ surface = [c \in Clients |-> 0]
  /\ screen = Blank /\ bar = {}

-----------------------------------------------------------------------------
(* The stack of windows: each operation gives the stack and the damage.    *)

Push(ws, w) ==
  [ws |-> Append(ws, w),
   damage |-> Bounds(w) \cup IF ws = <<>> THEN {} ELSE Bounds(Last(ws))]

OnlyRaised(ws, i) == Bounds(ws[i])

FocusChange(ws, i) == IF i = Len(ws) THEN {} ELSE Bounds(ws[i]) \cup Bounds(Last(ws))

Raise(ws, i) ==
  [ws |-> Append(RemoveAt(ws, i), ws[i]), damage |-> FocusChange(ws, i)]

Erase(ws, i) ==
  [ws |-> RemoveAt(ws, i),
   damage |-> Bounds(ws[i]) \cup
              IF i = Len(ws) /\ Len(ws) > 1 THEN Bounds(ws[i - 1]) ELSE {}]

-----------------------------------------------------------------------------
(* Clients.                                                                *)

ToServer(m) == IF running THEN Len(pipe) < MaxAsks /\ pipe' = Append(pipe, m) ELSE UNCHANGED pipe

Request(c, type) == [type |-> type, client |-> c]

Ask(c) ==
  /\ running /\ client[c] = "off" /\ \A d \in 1..(c - 1) : client[d] # "off"
  /\ ToServer(Request(c, "create"))
  /\ client' = [client EXCEPT ![c] = "asked"]
  /\ UNCHANGED <<serverVars, events, surface, screen, bar>>

\* New pixels show at once where the compositor paints for another reason.
Draw(c) ==
  /\ running /\ client[c] = "open" /\ FoldFunction(+, 0, surface) < MaxDraws
  /\ surface' = [surface EXCEPT ![c] = @ + 1]
  /\ ToServer(Request(c, "damage"))
  /\ UNCHANGED <<serverVars, events, client, screen, bar>>

\* A client without a window ends; one that is told to close takes it down.
ReadEvent(c) ==
  /\ client[c] \in {"asked", "open"} /\ events[c] # <<>>
  /\ events' = [events EXCEPT ![c] = Tail(@)]
  /\ CASE Head(events[c]) = "created" -> client' = [client EXCEPT ![c] = "open"] /\ UNCHANGED pipe
       [] Head(events[c]) = "refused" -> client' = [client EXCEPT ![c] = "gone"] /\ UNCHANGED pipe
       [] Head(events[c]) = "key" -> UNCHANGED <<client, pipe>>
       [] Head(events[c]) = "close" -> /\ client' = [client EXCEPT ![c] = "gone"]
                                       /\ ToServer(Request(c, "destroy"))
  /\ UNCHANGED <<serverVars, surface, screen, bar>>

Crash(c) ==
  /\ running /\ client[c] \in {"asked", "open"}
  /\ client' = [client EXCEPT ![c] = "gone"]
  /\ events' = [events EXCEPT ![c] = <<>>]
  /\ UNCHANGED <<serverVars, pipe, surface, screen, bar>>

-----------------------------------------------------------------------------
(* Requests, consume_server_pipe().  All that one read returns is handled  *)
(* in order, and the damage of several requests is painted at once, but    *)
(* before the stack changes.  s is the state under way; pending is damage  *)
(* not painted.                                                            *)

\* Nobody reads what a client that is gone would get.
Post(e, c, m) ==
  [e EXCEPT ![c] = IF Len(@) < EventRoom /\ client[c] # "gone" THEN Append(@, m) ELSE @]

IndexOf(ws, c) == Max({0} \cup {i \in DOMAIN ws : ws[i].client = c})

PaintedNow(s, area) == [s EXCEPT !.screen = Render(@, s.ws, menu_open, pointer, area)]

\* flush_damage()
Flushed(s) == [PaintedNow(s, Hull(UNION {s.pending[c] : c \in Clients})) EXCEPT
                 !.pending = [c \in Clients |-> {}]]

Changed(s, change) ==
  LET t == PaintedNow([s EXCEPT !.ws = change.ws], change.damage)
  IN  [t EXCEPT !.bar = Buttons(change.ws)]

\* handle_create(): a client that is gone has no pipe to open.
Created(s, c) ==
  IF client[c] = "gone" THEN s
  ELSE IF Len(s.ws) = MaxWindows THEN [s EXCEPT !.events = Post(@, c, "refused")]
  ELSE [Changed(s, Push(s.ws, [id |-> s.next_id, client |-> c, x |-> (Columns - Width) \div 2, width |-> Width]))
          EXCEPT !.events = Post(@, c, "created"), !.next_id = @ + 1]

NotFlushed(s) == s
BeforeChange(s) == Flushed(s)

Handle(s, m) ==
  LET i == IndexOf(s.ws, m.client) IN
  CASE m.type = "create" -> Created(BeforeChange(s), m.client)
    [] m.type = "damage" /\ i # 0 -> [s EXCEPT !.pending[m.client] = @ \cup Bounds(s.ws[i])]
    [] m.type = "destroy" /\ i # 0 -> LET f == BeforeChange(s) IN Changed(f, Erase(f.ws, i))
    [] i = 0 /\ m.type # "create" -> s

ConsumePipe(n) ==
  /\ running /\ n \in 1..Len(pipe)
  /\ \E s \in {Flushed(FoldLeft(Handle,
                [ws |-> windows, next_id |-> next_id, events |-> events, screen |-> screen,
                 bar |-> bar, pending |-> [c \in Clients |-> {}]],
                SubSeq(pipe, 1, n)))} :
         /\ windows' = s.ws /\ next_id' = s.next_id /\ events' = s.events
         /\ screen' = s.screen /\ bar' = s.bar
  /\ pipe' = SubSeq(pipe, n + 1, Len(pipe))
  /\ UNCHANGED <<running, menu_open, pointer, drag, resize, grip, clientVars>>

-----------------------------------------------------------------------------
(* The keyboard, handle_keyboard().                                        *)

Key ==
  /\ running /\ windows # <<>>
  /\ events' = Post(events, Last(windows).client, "key")
  /\ UNCHANGED <<serverVars, pipe, clientVars, screen, bar>>

CloseMenu ==
  /\ running /\ menu_open
  /\ menu_open' = FALSE
  /\ screen' = Render(screen, windows, FALSE, pointer, MenuColumns)
  /\ UNCHANGED <<running, windows, next_id, pointer, drag, resize, grip, pipe, events, clientVars, bar>>

\* Alt+Tab takes the window at the back.  What is painted reaches down to the
\* bar; the columns beside the windows are left out.
NextWindow ==
  /\ running /\ Len(windows) > 1
  /\ LET r == Raise(windows, 1) IN
       /\ windows' = r.ws
       /\ screen' = Render(screen, r.ws, menu_open, pointer, Hull(r.damage))
       /\ bar' = Buttons(r.ws)
  /\ UNCHANGED <<running, next_id, menu_open, pointer, drag, resize, grip, pipe, events, clientVars>>

\* Every client is told, then all descriptors are closed.
Quit ==
  /\ running /\ running' = FALSE
  /\ events' = [c \in Clients |-> IF IndexOf(windows, c) # 0 THEN Post(events, c, "close")[c] ELSE events[c]]
  /\ windows' = <<>> /\ pipe' = <<>>
  /\ menu_open' = FALSE /\ drag' = 0 /\ resize' = 0 /\ grip' = 0
  /\ screen' = Blank /\ bar' = {} /\ pointer' = Home
  /\ UNCHANGED <<next_id, clientVars>>

-----------------------------------------------------------------------------
(* The pointer, handle_mouse(): the events of a read one after the other,  *)
(* then one repaint.  r is the state under way.                            *)

Opened(r) == [r EXCEPT !.menu = ~@, !.damage = @ \cup MenuColumns]

\* A task button: the windows in the order of their ids, from column 1.
Button(ws, c) ==
  Max({0} \cup {i \in DOMAIN ws : Cardinality({j \in DOMAIN ws : ws[j].id < ws[i].id}) = c - 1})

PressBar(r, e) ==
  LET i == Button(r.ws, e.x) IN
  IF e.x = 0 THEN Opened(r)
  ELSE IF i = 0 THEN r
  ELSE LET f == Raise(r.ws, i) IN
       [r EXCEPT !.ws = f.ws, !.damage = @ \cup f.damage, !.bar = TRUE]

\* Over an entry of the menu, or beside it: no window gets the click.
PressMenu(r, e) ==
  IF e.zone = "body" THEN [r EXCEPT !.menu = FALSE, !.damage = @ \cup MenuColumns] ELSE r

\* The last column closes or resizes, the title moves.
PressWindow(r, e, i) ==
  LET f == Raise(r.ws, i)
      w == Last(f.ws)
      s == [r EXCEPT !.ws = f.ws, !.damage = @ \cup f.damage]
      corner == e.x = w.x + w.width - 1
  IN  CASE corner /\ e.zone = "body" -> [s EXCEPT !.resize = Len(f.ws)]
        [] corner /\ e.zone = "title" -> [s EXCEPT !.events = Post(@, w.client, "close")]
        [] ~corner /\ e.zone = "title" -> [s EXCEPT !.drag = Len(f.ws), !.grip = e.x - w.x]
        [] OTHER -> s

Pressed(r, e) ==
  LET i == WindowAt(r.ws, e.x) IN
  IF e.zone = "bar" THEN PressBar(r, e)
  ELSE IF r.menu /\ e.x \in MenuColumns THEN PressMenu(r, e)
  ELSE IF i = 0 THEN r ELSE PressWindow(r, e, i)

Clamped(x, lo, hi) == Max({lo, Min({x, hi})})

\* What was there and what is there now; only the first and the last count.
Geometry(r, i, w) ==
  [r EXCEPT !.ws[i] = w, !.changed = TRUE,
            !.old = IF r.changed THEN @ ELSE Bounds(r.ws[i]),
            !.new = Bounds(w)]

\* The index of a window may be out of date: then another one moves, or none.
Moved(r, e) ==
  IF ~e.down \/ r.drag \notin DOMAIN r.ws THEN r
  ELSE LET w == r.ws[r.drag] IN
       Geometry(r, r.drag, [w EXCEPT !.x = Clamped(e.x - r.grip, Margin - w.width, Columns - Margin)])

Resized(r, e) ==
  IF ~e.down \/ r.resize \notin DOMAIN r.ws THEN r
  ELSE LET w == r.ws[r.resize] IN
       Geometry(r, r.resize, [w EXCEPT !.width = Clamped(e.x - w.x + 1, MinWidth, Columns)])

PointerEvent(r, e) ==
  LET p == IF e.down /\ ~r.down THEN Pressed(r, e) ELSE r
      q == Resized(Moved(p, e), e)
      released == ~e.down /\ r.down
  IN  [q EXCEPT !.drag = IF released THEN 0 ELSE @, !.resize = IF released THEN 0 ELSE @,
                !.grip = IF released THEN 0 ELSE @, !.down = e.down]

NewOnly(r, before, after) == {Hull(r.new \cup after)}

\* The rectangles painted when the events have been dealt with.
Repaints(r, before, after) ==
  IF r.changed THEN {Hull(r.damage \cup r.old \cup before), Hull(r.new \cup after)}
  ELSE IF r.damage # {} THEN {Hull(r.damage \cup before \cup after)}
  ELSE {before, after}

\* Where an event leaves the pointer.
Rest(e) == [x |-> IF e.zone = "bar" THEN 0 ELSE e.x, on_bar |-> e.zone = "bar", down |-> e.down]

Pointer(batch) ==
  /\ running
  /\ \E r \in {FoldLeft(PointerEvent,
                [ws |-> windows, menu |-> menu_open, down |-> pointer.down, drag |-> drag,
                 resize |-> resize, grip |-> grip, events |-> events, damage |-> {}, bar |-> FALSE,
                 changed |-> FALSE, old |-> {}, new |-> {}], batch)} :
         /\ windows' = r.ws /\ menu_open' = r.menu /\ drag' = r.drag /\ resize' = r.resize
         /\ grip' = r.grip /\ events' = r.events /\ pointer' = Rest(Last(batch))
         /\ screen' = Render(screen, r.ws, r.menu, Rest(Last(batch)),
                             UNION Repaints(r, PointerAt(pointer), PointerAt(Rest(Last(batch)))))
         /\ bar' = IF r.bar THEN Buttons(r.ws) ELSE bar
  /\ UNCHANGED <<running, next_id, pipe, clientVars>>

Keyboard == Key \/ CloseMenu \/ NextWindow \/ Quit

Server == \E n \in 1..MaxAsks : ConsumePipe(n)

Next ==
  \/ Server \/ Keyboard
  \/ \E batch \in Batches : Pointer(batch)
  \/ \E c \in Clients : Ask(c) \/ Draw(c) \/ ReadEvent(c) \/ Crash(c)

Spec == Init /\ [][Next]_vars

-----------------------------------------------------------------------------
\* The screen shows the stack of windows as it is, focus, menu and pointer
\* included, and every window as it was drawn last, or a request is under way
\* that makes the compositor look at it again; and the bar has a button for
\* each (desktop.cpp:909-923, 1032-1165).
ScreenShowsScene ==
  running => bar = Buttons(windows) /\ \A c \in AllColumns :
    LET now == Painted(windows, menu_open, pointer, c) IN
      /\ screen[c] = [now EXCEPT !.drawn = screen[c].drawn]
      /\ screen[c].drawn # now.drawn =>
           Request(windows[WindowAt(windows, c)].client, "damage") \in ToSet(pipe)
=============================================================================
