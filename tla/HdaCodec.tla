------------------------------ MODULE HdaCodec ------------------------------
(***************************************************************************)
(* The start of the driver of Intel audio controllers,                     *)
(* intel-hda/src/hda.cpp: for one codec after the other it reads the graph *)
(* of widgets, looks for a route from a pin to a converter, best pin       *)
(* first, and sets the route up.                                           *)
(*                                                                         *)
(* External: the codecs, each with any graph of Graphs.  A graph gives     *)
(* each widget its kind, the widgets it is connected to in the order of    *)
(* read_connections(), and the amplifiers; lists longer than a widget      *)
(* holds (32) are left out.                                                *)
(***************************************************************************)
EXTENDS Integers, Sequences, SequencesExt, FiniteSets, FiniteSetsExt

CONSTANTS
  Codecs,  \* codecs of the controller
  Nodes,   \* node ids
  Graphs   \* functions from nodes to widgets, or to NoWidget

NoWidget == [kind |-> "none", links |-> <<>>, score |-> -1, amp |-> FALSE, gain |-> 0]

HdaCodecAssumption == Codecs \in Nat /\ Nodes \subseteq Nat \ {0} /\ IsFiniteSet(Nodes)

VARIABLES
  at,       \* "enumerate", "setup", "volume", "active" or "none"
  codec,    \* the codec it tries
  widgets,  \* its graph
  pin, dac, \* the route; 0 when there is none
  selected, \* per widget: the connection it uses, 0 for none
  enabled,  \* widgets powered, with their amplifiers open
  volume_node

vars == <<at, codec, widgets, pin, dac, selected, enabled, volume_node>>

Unselected == [n \in Nodes |-> 0]
NoGraph == [n \in Nodes |-> NoWidget]

Init ==
  /\ at = "enumerate" /\ codec = 1 /\ widgets = NoGraph
  /\ pin = 0 /\ dac = 0 /\ selected = Unselected /\ enabled = {} /\ volume_node = 0

Present(g, n) == n \in Nodes /\ g[n].kind # "none"

\* find_dac_path(): depth first, each widget once; r holds the widgets visited,
\* and the converter and the connections when it has been found.
RECURSIVE FindDacPath(_, _, _)
FindDacPath(g, n, r) ==
  IF n \in r.visited \/ ~Present(g, n) THEN r
  ELSE LET here == [r EXCEPT !.visited = @ \cup {n}]
           Try(s, i) ==
             IF s.dac # 0 THEN s
             ELSE LET t == FindDacPath(g, g[n].links[i], s)
                  IN  IF t.dac # 0 THEN [t EXCEPT !.selected[n] = i] ELSE t
       IN  IF g[n].kind = "output" THEN [here EXCEPT !.dac = n]
           ELSE FoldLeft(Try, here, [i \in DOMAIN g[n].links |-> i])

Search(g, n) == FindDacPath(g, n, [visited |-> {}, dac |-> 0, selected |-> Unselected])

AnyPin(g, p, q) == p < q
BetterPin(g, p, q) == g[p].score > g[q].score \/ (g[p].score = g[q].score /\ p < q)

\* The pins that can be used: speaker before headphone before line out, and
\* the lowest of a kind first.
Usable(g) == {p \in Nodes : g[p].score >= 0 /\ Search(g, p).dac # 0}

\* enumerate_codec(); what an earlier codec had is cleared.
Enumerate ==
  /\ at = "enumerate" /\ codec =< Codecs
  /\ \E g \in Graphs :
       /\ widgets' = g
       /\ \/ /\ Usable(g) = {}
             /\ codec' = codec + 1
             /\ UNCHANGED <<at, pin, dac>>
             /\ selected' = Unselected
          \/ \E p \in Usable(g) :
               /\ \A q \in Usable(g) \ {p} : BetterPin(g, p, q)
               /\ pin' = p /\ dac' = Search(g, p).dac /\ selected' = Search(g, p).selected
               /\ at' = "setup" /\ UNCHANGED codec
  /\ UNCHANGED <<enabled, volume_node>>

\* enable_path(): from the pin along the selected connections.
RECURSIVE Path(_, _)
Path(n, seen) ==
  IF n \in seen \/ ~Present(widgets, n) THEN <<>>
  ELSE IF n = dac \/ selected[n] = 0 THEN <<n>>
  ELSE <<n>> \o Path(widgets[n].links[selected[n]], seen \cup {n})

Enabled == ToSet(Path(pin, {}))

\* setup_output() fails without an output stream or memory, or when the stream
\* does not reset; the next codec is tried then.
SetupOutput ==
  /\ at = "setup"
  /\ \/ at' = "enumerate" /\ codec' = codec + 1 /\ UNCHANGED enabled
     \/ at' = "volume" /\ enabled' = Enabled /\ UNCHANGED codec
  /\ UNCHANGED <<widgets, pin, dac, selected, volume_node>>

LastAmp(w, best, n) == n

\* A later amplifier replaces the best one if it has more gain.
Louder(w, best, n) == IF best = 0 \/ w[n].gain > w[best].gain THEN n ELSE best

SelectVolumeNode ==
  /\ at = "volume"
  /\ volume_node' =
       FoldLeft(LAMBDA best, n : IF widgets[n].amp THEN Louder(widgets, best, n) ELSE best,
                0, Path(pin, {}))
  /\ at' = "active"
  /\ UNCHANGED <<codec, widgets, pin, dac, selected, enabled>>

GiveUp ==
  /\ at = "enumerate" /\ codec > Codecs
  /\ at' = "none"
  /\ UNCHANGED <<codec, widgets, pin, dac, selected, enabled, volume_node>>

Next == Enumerate \/ SetupOutput \/ SelectVolumeNode \/ GiveUp

Spec == Init /\ [][Next]_vars

-----------------------------------------------------------------------------
Linked(n) == {m \in ToSet(widgets[n].links) : Present(widgets, m)}

\* Widgets that n reaches by k connections or fewer; nothing leads on from a
\* converter.
Reach(n) ==
  LET step[k \in Nat] ==
        IF k = 0 THEN {n}
        ELSE step[k - 1] \cup UNION {Linked(m) : m \in {x \in step[k - 1] : widgets[x].kind # "output"}}
  IN  step[Cardinality(Nodes)]

Routable == {p \in Nodes : Present(widgets, p) /\ widgets[p].score >= 0
                           /\ \E m \in Reach(p) : widgets[m].kind = "output"}

\* An active driver has the best pin of those from which some converter can be
\* reached, its connections lead from this pin to the converter it feeds,
\* everything between is open, and the volume is set on that way; it passes
\* over a codec only if no pin reaches a converter (hda.cpp:208-288, 315-361).
RouteWorks ==
  /\ at = "active" =>
       /\ \A p \in Routable : widgets[pin].score >= widgets[p].score
       /\ pin \in Routable /\ widgets[dac].kind = "output"
       /\ dac \in enabled /\ enabled \subseteq Reach(pin)
       /\ \A n \in enabled \ {dac} : widgets[n].links[selected[n]] \in enabled
       /\ (\E n \in enabled : widgets[n].amp) =>
            /\ volume_node \in enabled /\ widgets[volume_node].amp
            /\ \A n \in enabled : widgets[n].amp => widgets[volume_node].gain >= widgets[n].gain
  /\ at = "enumerate" /\ selected = Unselected => Routable = {}
=============================================================================
