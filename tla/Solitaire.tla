------------------------------ MODULE Solitaire ------------------------------
(* The card game (solitaire/src/main.cpp): a board, the boards to go back to, *)
(* a pile that is selected for the next key, and a line of words in which    *)
(* keys stand for nothing by themselves.                                   *)
(*                                                                         *)
(* Left out: colours and layout, the help, the number of moves.  A line of  *)
(* words is the command that it is parsed to, whatever words it has.       *)
EXTENDS Naturals, Sequences, FiniteSets, SequencesExt, FiniteSetsExt

CONSTANTS
  Suits,          \* numbers, the first two of which are red
  Top,            \* the rank of a king
  kTableauCount, kMaxUndo,
  Decks           \* shuffled, as the seeds of deal() make them

Cards == Suits \X (1..Top)
Columns == 1..kTableauCount
None == 0
Waste == kTableauCount + 1

SolitaireAssumption ==
  /\ Suits \subseteq Nat /\ Top \in Nat \ {0} /\ kTableauCount \in Nat /\ kMaxUndo \in Nat \ {0}
  /\ \A d \in Decks :
       /\ d \in Seq(Cards) /\ ToSet(d) = Cards /\ IsInjective(d)
       /\ Len(d) >= ((kTableauCount + 1) * kTableauCount) \div 2

VARIABLES
  game,      \* the board
  undo,      \* boards, the latest last
  selected,  \* a column, Waste or None
  typing,    \* a line was begun
  quit

vars == <<game, undo, selected, typing, quit>>
boards == <<game, undo>>

suit(card) == card[1]
rank(card) == card[2]
is_red(card) == suit(card) \in {0, 1}
Up(card) == [card |-> card, up |-> TRUE]
Down(card) == [card |-> card, up |-> FALSE]

-----------------------------------------------------------------------------
\* deal(): a column of one card, one of two ..., whose last is face up.
Dealt(c) == (c * (c - 1)) \div 2
deal(deck) ==
  [deck |-> deck,
   tableau |-> [c \in Columns |->
     [r \in 1..c |-> [card |-> deck[Dealt(c) + r], up |-> r = c]]],
   stock |-> SubSeq(deck, Dealt(kTableauCount + 1) + 1, Len(deck)),
   waste |-> <<>>,
   foundations |-> [s \in Suits |-> <<>>]]

Descends(upper, lower) == is_red(upper) # is_red(lower) /\ rank(upper) = rank(lower) + 1

can_place_on_tableau(card, dest) ==
  IF dest = <<>> THEN rank(card) = Top ELSE Last(dest).up /\ Descends(Last(dest).card, card)

can_place_on_foundation(card, dest) ==
  IF dest = <<>> THEN rank(card) = 1 ELSE suit(card) = suit(Last(dest)) /\ rank(card) = rank(Last(dest)) + 1

reveal_tail(pile) == IF pile = <<>> THEN pile ELSE [pile EXCEPT ![Len(pile)].up = TRUE]

is_valid_tail_run(pile, first) ==
  /\ first \in DOMAIN pile /\ \A i \in first..Len(pile) : pile[i].up
  /\ \A i \in (first + 1)..Len(pile) : Descends(pile[i - 1].card, pile[i].card)

TurnedAsItLies(g) ==
  IF g.stock # <<>>
    THEN [g EXCEPT !.stock = Front(@), !.waste = Append(@, Last(g.stock))]
    ELSE [g EXCEPT !.stock = g.waste, !.waste = <<>>]

\* The moves, each a board if it is allowed and otherwise the same board.
draw_stock(g) ==
  IF g.stock # <<>>
    THEN [g EXCEPT !.stock = Front(@), !.waste = Append(@, Last(g.stock))]
    ELSE [g EXCEPT !.stock = Reverse(g.waste), !.waste = <<>>]

waste_to_tableau(g, dest) ==
  IF g.waste # <<>> /\ can_place_on_tableau(Last(g.waste), g.tableau[dest])
    THEN [g EXCEPT !.waste = Front(@), !.tableau[dest] = Append(@, Up(Last(g.waste)))]
    ELSE g

waste_to_foundation(g) ==
  IF g.waste # <<>> /\ can_place_on_foundation(Last(g.waste), g.foundations[suit(Last(g.waste))])
    THEN [g EXCEPT !.waste = Front(@), !.foundations[suit(Last(g.waste))] = Append(@, Last(g.waste))]
    ELSE g

tableau_to_foundation(g, src) ==
  LET pile == g.tableau[src]
      card == Last(pile).card
  IN IF pile # <<>> /\ Last(pile).up /\ can_place_on_foundation(card, g.foundations[suit(card)])
       THEN [g EXCEPT !.tableau[src] = reveal_tail(Front(@)), !.foundations[suit(card)] = Append(@, card)]
       ELSE g

tableau_to_tableau(g, src, dest, count) ==
  LET from == g.tableau[src]
      first == Len(from) - count + 1
  IN IF /\ src # dest /\ count \in 1..Len(from) /\ is_valid_tail_run(from, first)
        /\ can_place_on_tableau(from[first].card, g.tableau[dest])
       THEN [g EXCEPT !.tableau[src] = reveal_tail(SubSeq(@, 1, first - 1)),
                      !.tableau[dest] = @ \o SubSeq(from, first, Len(from))]
       ELSE g

\* 0 if no run fits.
best_tableau_run_count(g, src, dest) ==
  LET from == g.tableau[src] IN
  Max({0} \cup {n \in 1..Len(from) :
         /\ src # dest /\ is_valid_tail_run(from, Len(from) - n + 1)
         /\ can_place_on_tableau(from[Len(from) - n + 1].card, g.tableau[dest])})

longest_run(g, src, dest) == tableau_to_tableau(g, src, dest, best_tableau_run_count(g, src, dest))

\* The waste before the columns, and these from the left.
auto_foundation(g) ==
  LET able == {c \in Columns : tableau_to_foundation(g, c) # g} IN
  CASE waste_to_foundation(g) # g -> waste_to_foundation(g)
    [] waste_to_foundation(g) = g /\ able # {} -> tableau_to_foundation(g, Min(able))
    [] OTHER -> g

won(g) == \A s \in Suits : Len(g.foundations[s]) = Top

-----------------------------------------------------------------------------
\* save_undo(): the earliest board makes room.
save_undo == Append(IF Len(undo) = kMaxUndo THEN Tail(undo) ELSE undo, game)

Becomes(g) ==
  IF g = game THEN UNCHANGED boards ELSE game' = g /\ undo' = save_undo

GoBack ==
  IF undo = <<>> THEN UNCHANGED boards ELSE game' = Last(undo) /\ undo' = Front(undo)

NewDeal == \E d \in Decks : game' = deal(d) /\ undo' = save_undo

\* What a line can ask for; its other words are skipped or make it invalid.
Commands ==
  [op : {"draw", "auto", "waste to foundation", "undo", "restart", "quit", "invalid"}]
    \cup [op : {"waste to tableau"}, dest : Columns] \cup [op : {"to foundation"}, src : Columns]
    \cup [op : {"run"}, src : Columns, dest : Columns]
    \cup [op : {"cards"}, src : Columns, dest : Columns, count : 1..(kTableauCount + 1)]

Init ==
  /\ \E d \in Decks : game = deal(d)
  /\ undo = <<>> /\ selected = None /\ typing = FALSE /\ quit = FALSE

\* handle_quick_key().
Key == ~quit /\ ~typing /\ UNCHANGED typing

KeyDraw == Key /\ selected' = None /\ Becomes(draw_stock(game)) /\ UNCHANGED quit
KeyUndo == Key /\ selected' = None /\ GoBack /\ UNCHANGED quit
KeyRestart == Key /\ selected' = None /\ NewDeal /\ UNCHANGED quit
KeyQuit == Key /\ quit' = TRUE /\ UNCHANGED <<boards, selected>>

KeyWaste ==
  /\ Key /\ selected' = (IF game.waste = <<>> THEN None ELSE Waste)
  /\ UNCHANGED <<boards, quit>>

KeyColumn ==
  /\ Key /\ UNCHANGED quit
  /\ \E c \in Columns :
       IF selected = None
         THEN /\ selected' = (IF game.tableau[c] = <<>> THEN None ELSE c)
              /\ UNCHANGED boards
         ELSE /\ selected' = None
              /\ Becomes(IF selected = Waste THEN waste_to_tableau(game, c)
                         ELSE longest_run(game, selected, c))

KeyFoundation ==
  /\ Key /\ selected' = None /\ UNCHANGED quit
  /\ Becomes(CASE selected = None -> auto_foundation(game)
               [] selected = Waste -> waste_to_foundation(game)
               [] OTHER -> tableau_to_foundation(game, selected))

\* Any other letter begins a line, in which all letters are taken as such.
BeginLine == ~quit /\ ~typing /\ typing' = TRUE /\ UNCHANGED <<boards, selected, quit>>

EraseLine == typing /\ typing' = FALSE /\ UNCHANGED <<boards, selected, quit>>

Escape == ~quit /\ typing' = FALSE /\ selected' = None /\ UNCHANGED <<boards, quit>>

\* handle_command(), with handle_wordy_move().
Asked(g, c) ==
  CASE c.op = "draw" -> draw_stock(g)
    [] c.op = "auto" -> auto_foundation(g)
    [] c.op = "waste to foundation" -> waste_to_foundation(g)
    [] c.op = "waste to tableau" -> waste_to_tableau(g, c.dest)
    [] c.op = "to foundation" -> tableau_to_foundation(g, c.src)
    [] c.op = "run" -> longest_run(g, c.src, c.dest)
    [] c.op = "cards" -> tableau_to_tableau(g, c.src, c.dest, c.count)
    [] OTHER -> g

Enter ==
  /\ ~quit /\ typing' = FALSE /\ selected' = None
  /\ IF typing
       THEN \E c \in Commands :
              /\ quit' = (c.op = "quit")
              /\ CASE c.op = "undo" -> GoBack
                   [] c.op = "restart" -> NewDeal
                   [] OTHER -> Becomes(Asked(game, c))
       ELSE UNCHANGED <<boards, quit>>

Next ==
  \/ KeyDraw \/ KeyUndo \/ KeyRestart \/ KeyQuit \/ KeyWaste \/ KeyColumn \/ KeyFoundation
  \/ BeginLine \/ EraseLine \/ Escape \/ Enter

Spec == Init /\ [][Next]_vars

-----------------------------------------------------------------------------
Boards == Append(undo, game)
Faces(pile) == [i \in DOMAIN pile |-> pile[i].card]
PileNames ==
  {<<"stock", 0>>, <<"waste", 0>>} \cup ({"column"} \X Columns) \cup ({"foundation"} \X Suits)
Piles(g) ==
  [q \in PileNames |->
     CASE q[1] = "stock" -> g.stock
       [] q[1] = "waste" -> g.waste
       [] q[1] = "column" -> Faces(g.tableau[q[2]])
       [] OTHER -> g.foundations[q[2]]]

TypeOK ==
  /\ Len(undo) =< kMaxUndo /\ selected \in Columns \cup {None, Waste}
  /\ typing \in BOOLEAN /\ quit \in BOOLEAN

\* Every card of the deck is on every board once, on those to go back to as
\* well (main.cpp:188-226, 245-378).
EachOnce(piles) ==
  /\ \A q \in DOMAIN piles : ToSet(piles[q]) \subseteq Cards
  /\ \A card \in Cards : \E q \in DOMAIN piles : card \in ToSet(piles[q])
  /\ \A q, r \in DOMAIN piles : \A i \in DOMAIN piles[q], j \in DOMAIN piles[r] :
       piles[q][i] = piles[r][j] => q = r /\ i = j
CardsOnce == \A k \in DOMAIN Boards : EachOnce(Piles(Boards[k]))

\* A column is hidden cards below a run that descends in changing colours, with
\* a card to play at its end, and a foundation its suit in order: no move, however
\* many cards it takes, leaves a hidden last card or a broken run
\* (main.cpp:198-202, 308-378).
ColumnsOrdered ==
  \A k \in DOMAIN Boards :
    LET g == Boards[k] IN
    /\ \A c \in Columns :
         g.tableau[c] # <<>> =>
           \E first \in DOMAIN g.tableau[c] :
             /\ is_valid_tail_run(g.tableau[c], first)
             /\ \A i \in 1..(first - 1) : ~g.tableau[c][i].up
    /\ \A s \in Suits : g.foundations[s] = [i \in DOMAIN g.foundations[s] |-> <<s, i>>]

\* The cards that are drawn come in the order of the deal, round after round:
\* turning the waste over, and every undo, restores the order in which what was
\* not played lies in the stock (main.cpp:245-267).
Position(g, card) == CHOOSE i \in DOMAIN g.deck : g.deck[i] = card
TalonKeepsOrder ==
  \A k \in DOMAIN Boards :
    LET g == Boards[k]
        talon == g.stock \o Reverse(g.waste)
    IN \A i, j \in DOMAIN talon : i < j => Position(g, talon[i]) < Position(g, talon[j])

\* What is kept to go back to is the game as it was played: each board follows
\* from the one before by one move, the turn of some cards from the end of a
\* pile to another, or is a new deal (main.cpp:188-196, 449-454).
Gone(g, h) == {c \in Columns : Len(h.tableau[c]) < Len(g.tableau[c])}
Grown(g, h) == {c \in Columns : Len(h.tableau[c]) > Len(g.tableau[c])}
OneMove(g, h) ==
  /\ g # h /\ g.deck = h.deck /\ Cardinality(Gone(g, h)) =< 1 /\ Cardinality(Grown(g, h)) =< 1
  /\ \A s \in Suits : Len(h.foundations[s]) - Len(g.foundations[s]) \in {0, 1}
  /\ \A c \in Columns : IsPrefix(Faces(g.tableau[c]), Faces(h.tableau[c]))
                          \/ IsPrefix(Faces(h.tableau[c]), Faces(g.tableau[c]))
  /\ g.waste # h.waste => g.tableau = h.tableau \/ g.stock = h.stock
UndoIsThePast ==
  \A k \in 1..Len(undo) : OneMove(Boards[k], Boards[k + 1]) \/ Boards[k + 1] = deal(Boards[k + 1].deck)

\* The selected pile has a card to move (main.cpp:390-410, 443-490).
SelectionHolds ==
  /\ selected = Waste => game.waste # <<>>
  /\ selected \in Columns => game.tableau[selected] # <<>>
=============================================================================
