---------------------------- MODULE MCApplications ---------------------------
(* Programs that a user talks to, and the names that programs look up, for   *)
(* TLC: nothing is shared, and "part" says which of them a behaviour is of.   *)
EXTENDS Resolver, TLC

CONSTANTS Suits, Top, kTableauCount, kMaxUndo, Decks   \* of Solitaire

VARIABLES
  part,
  \* The variables of the part, in the order of its module; 0 beyond.
  s1, s2, s3, s4, s5, s6, s7, s8, s9, s10, s11, s12, s13, s14, s15

shared == <<s1, s2, s3, s4, s5, s6, s7, s8, s9, s10, s11, s12, s13, s14, s15>>

------------------------------------------------------------------------------
\* Lines of one letter and spaces, and directories in which the names to
\* complete differ, are one another's beginnings or are directories.
File(name) == [name |-> name, dir |-> FALSE]
Dir(name) == [name |-> name, dir |-> TRUE]

Line == INSTANCE Shell WITH
  Text <- {" ", "A"}, kMaxInputLength <- 3, kHistoryCapacity <- 2,
  Places <- {"home", "@sys"}, Root <- "@sys", Home <- "home",
  Directories <- {{File(<<"A", "A">>), Dir(<<"A">>)}, {Dir(<<"A">>)}, {File(<<"A", "A">>)}},
  echo_input <- s1, input <- s2, rendered_length <- s3, console <- s4,
  history <- s5, history_position <- s6, history_draft <- s7, escape_state <- s8,
  suppress_next_lf <- s9, cwd <- s10, g_current_cwd <- s11, own <- s12, adrift <- s13

------------------------------------------------------------------------------
\* A screen of two columns and two rows, and files with a line too long for
\* them, a character that is not shown and one line too many.
Editor == INSTANCE Writer WITH
  Text <- {"a", " "}, Width <- 2, Body <- 2, kMaxLines <- 2, kLineCap <- 4, kIndentWidth <- 2,
  kEvents <- 2, MaxEdits <- 1, MaxSaves <- 1,
  Files <- {<< <<"a", " ", "a">> >>, << <<"\t", "a", " ">>, <<>>, <<"a">> >>},
  lines <- s1, line <- s2, col <- s3, top <- s4, preferred <- s5, dirty <- s6, armed <- s7,
  file <- s8, handled <- s9, running <- s10, warned <- s11, lossy <- s12, edits <- s13, saves <- s14,
  warning <- s15

------------------------------------------------------------------------------
\* Four cells of which one row is shown; formulas that refer to themselves and
\* to one another; a file with a column too many.
One == [kind |-> "number", left |-> <<1>>, op |-> "none", right |-> <<>>]
Plus == [kind |-> "formula", left |-> <<1, 1>>, op |-> "+", right |-> <<1, 2>>]
Minus == [kind |-> "formula", left |-> <<2, 1>>, op |-> "-", right |-> <<2>>]

Table == INSTANCE Sheet WITH
  kRows <- 2, kCols <- 2, VisibleRows <- 1, VisibleCols <- 2, Numbers <- {1}, Formulas <- {Plus, Minus},
  Files <- {<< <<One>>, <<Plus, One>> >>, << <<One, One, Plus>>, <<>>, <<Plus>> >>},
  kEvents <- 2, MaxDepth <- 1, MaxEdits <- 2, MaxSaves <- 1,
  cells <- s1, at <- s2, left_top <- s3, edit <- s4, dirty <- s5, armed <- s6, file <- s7,
  handled <- s8, running <- s9, warned <- s10, lossy <- s11, edits <- s12, saves <- s13, warning <- s14

------------------------------------------------------------------------------
\* As large as the configuration says: three suits of three cards on three
\* columns, from one deck that can be won.
Board == INSTANCE Solitaire WITH
  game <- s1, undo <- s2, selected <- s3, typing <- s4, quit <- s5

OneDeck ==
  {<< <<2, 2>>, <<0, 2>>, <<0, 3>>, <<3, 3>>, <<0, 1>>, <<2, 3>>, <<3, 2>>, <<2, 1>>, <<3, 1>> >>}

------------------------------------------------------------------------------
\* Two programs with one question each, of other hosts or of the same: Resolver.
HashHost == [h \in Hosts |-> IF h = "h1" THEN 1 ELSE 2]

------------------------------------------------------------------------------
ASSUME Line!ShellAssumption /\ Editor!WriterAssumption /\ Table!SheetAssumption
ASSUME Board!SolitaireAssumption /\ ResolverAssumption

Zeros == s6 = 0 /\ s7 = 0 /\ s8 = 0 /\ s9 = 0 /\ s10 = 0 /\ s11 = 0 /\ s12 = 0 /\ s13 = 0 /\ s14 = 0
         /\ s15 = 0

PartsInit ==
  /\ Init
  /\ \/ part = "shell" /\ Line!Init /\ s14 = 0 /\ s15 = 0
     \/ part = "writer" /\ Editor!Init
     \/ part = "sheet" /\ Table!Init /\ s15 = 0
     \/ part = "names" /\ s1 = 0 /\ s2 = 0 /\ s3 = 0 /\ s4 = 0 /\ s5 = 0 /\ Zeros
     \/ part = "solitaire" /\ Board!Init /\ Zeros

PartsNext ==
  \/ part = "shell" /\ Line!Next /\ UNCHANGED <<part, vars, s14, s15>>
  \/ part = "writer" /\ Editor!Next /\ UNCHANGED <<part, vars>>
  \/ part = "sheet" /\ Table!Next /\ UNCHANGED <<part, vars, s15>>
  \/ part = "names" /\ Next /\ UNCHANGED <<part, shared>>
  \/ part = "solitaire" /\ Board!Next /\ UNCHANGED <<part, vars, s6, s7, s8, s9, s10, s11, s12, s13, s14, s15>>

PartsSpec == PartsInit /\ [][PartsNext]_<<part, vars, shared>>

------------------------------------------------------------------------------
\* No work is lost and the screen tells the truth about it, after any sequence of
\* keys.  The console shows the line that Enter will run, however it was edited,
\* completed or recalled, and the line that was begun comes back below the history
\* (shell.cpp:451-571, 812-925).  A text or a table that is not marked as changed
\* is in the file, and who leaves with changes was shown the warning for these,
\* unless no screen was drawn between the two keys or another message stood there
\* (Editor!WorkIsSaved, Table!WorkIsSaved); rows, cursor and results are those of
\* the document (write.cpp:160-735, sheet.cpp:120-538).
WorkNotLost ==
  /\ part = "shell" => Line!TypeOK /\ Line!LineShown /\ Line!DraftKept
  /\ part = "writer" => Editor!TypeOK /\ Editor!WorkIsSaved /\ Editor!RowsAgree
  /\ part = "sheet" => Table!TypeOK /\ Table!WorkIsSaved /\ Table!FormulasTrue /\ Table!CursorShown

\* A key of write puts in or takes away one thing at the cursor, over joined, split
\* and full lines, and the rest of the text stays (write.cpp:522-634).
KeysDoOneThing == [][part = "writer" => Editor!Changes]_shared

\* Every card is on the board once, runs and foundations are in order, the deal
\* is never shuffled again, and undoing leads back to boards that were there,
\* however moves, draws and undos are mixed (solitaire/src/main.cpp:200-700).
BoardsLegal ==
  part = "solitaire" =>
    /\ Board!TypeOK /\ Board!CardsOnce /\ Board!ColumnsOrdered /\ Board!TalonKeepsOrder
    /\ Board!UndoIsThePast /\ Board!SelectionHolds
=============================================================================
