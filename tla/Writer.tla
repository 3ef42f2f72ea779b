------------------------------- MODULE Writer --------------------------------
(* The text editor (editor-tools/src/write.cpp): lines of bounded length that *)
(* wrap at spaces into rows, a cursor that is in the text and on the screen,  *)
(* and a file that is removed and written anew by every save.              *)
(*                                                                         *)
(* External: the user; the file system, which may refuse to create a file,  *)
(* to take a line or to take a line break.  Text is a sequence of the characters *)
(* of Text; a document is a sequence of lines.  Of the status line only the  *)
(* warning is kept; colours and the text of the screen are left out.       *)
EXTENDS Integers, Sequences, FiniteSets, SequencesExt, FiniteSetsExt

CONSTANTS
  Text,            \* characters, " " among them
  Files,           \* what the file may hold at first: "\t" is not shown
  Width, Body,     \* columns and rows for text, wrap_width and editor_body_rows
  kMaxLines, kLineCap, kIndentWidth,
  kEvents,         \* keys that one read takes at most (8)
  MaxEdits, MaxSaves   \* bounds

WriterAssumption ==
  /\ {Width, Body, kMaxLines, kLineCap, kIndentWidth, kEvents} \subseteq Nat \ {0} /\ " " \in Text
  /\ \A f \in Files : Len(f) > 0

VARIABLES
  lines, line, col,  \* the document and the cursor, from 1 and from 0
  top,               \* the first row on the screen, g_top_visual
  preferred,         \* column of vertical moves, -1 if there is none
  dirty, armed,      \* g_dirty, g_quit_armed
  file,              \* what is on the disk, NoFile if nothing
  handled,           \* keys of this read since the screen was rendered
  running,
  warning,           \* the warning in g_status that was not rendered yet: "none",
                     \* "due", or "covered" by a message of the same read
  warned,            \* history: the text for which the warning was rendered last
  lossy,             \* history: the load left something out, a line break was
                     \* not written, or a save failed that was not needed
  edits, saves       \* bounds

cursor == <<line, col>>
vars == <<lines, cursor, top, preferred, dirty, armed, file, handled, running, warning, warned, lossy,
          edits, saves>>

NoFile == <<>>
Line == lines[line]

-----------------------------------------------------------------------------
(* Rows.                                                                   *)

\* wrap_segment(): where the row that starts after `start` characters ends,
\* and where the next one starts; beyond the line there is none.
Row(text, start) ==
  LET limit == start + Width
      spaces == {i \in (start + 1)..limit : i < Len(text) /\ text[i + 1] = " "}
  IN CASE limit >= Len(text) -> [start |-> start, end |-> Len(text), next |-> Len(text) + 1]
       [] limit < Len(text) /\ spaces # {} -> [start |-> start, end |-> Max(spaces), next |-> Max(spaces) + 1]
       [] OTHER -> [start |-> start, end |-> limit, next |-> limit]

\* The rows of all lines from the first on, each with its line.
Layout(ls) ==
  LET from[n \in 1..(Len(ls) + 1), start \in 0..kLineCap] ==
        IF n > Len(ls) THEN <<>>
        ELSE LET row == Row(ls[n], start)
                 ends == row.next > Len(ls[n])
             IN <<[line |-> n, last |-> ends, row |-> row]>>
                  \o (IF ends THEN from[n + 1, 0] ELSE from[n, row.next])
  IN from[1, 0]

\* cursor_visual_position(): the row from 0, and the column.
VisualRow(all, l, c) ==
  Min({i \in DOMAIN all : all[i].line = l /\ c >= all[i].row.start
                          /\ (c < all[i].row.next \/ all[i].last)}) - 1
VisualColumn(all, l, c) ==
  LET r == all[VisualRow(all, l, c) + 1].row
      x == IF c > r.end THEN r.end - r.start ELSE c - r.start
  IN IF x >= Width THEN Width - 1 ELSE x

\* set_cursor_from_visual_position().
PositionAt(all, row, x) ==
  LET at == all[row + 1]
      length == at.row.end - at.row.start
  IN <<at.line, at.row.start + IF x < length THEN x ELSE length>>

-----------------------------------------------------------------------------
\* load_document(): what cannot be shown or does not fit is left out, and lines
\* beyond the last one go on at its end.
Fits(text) ==
  LET shown == SelectSeq(text, LAMBDA ch : ch \in Text)
  IN SubSeq(shown, 1, IF Len(shown) < kLineCap THEN Len(shown) ELSE kLineCap - 1)
Loaded(f) ==
  LET n == IF Len(f) < kMaxLines THEN Len(f) ELSE kMaxLines IN
  [i \in 1..n |-> Fits(IF i < n THEN f[i] ELSE FlattenSeq(SubSeq(f, n, Len(f))))]

Init ==
  /\ \/ \E f \in Files : file = f /\ lines = Loaded(f) /\ lossy = (Loaded(f) # f)
     \/ file = NoFile /\ lines = << <<>> >> /\ lossy = TRUE
  /\ line = 1 /\ col = 0 /\ top = 0 /\ preferred = -1 /\ dirty = FALSE /\ armed = FALSE
  /\ handled = kEvents /\ running = TRUE /\ warning = "none" /\ warned = <<>> /\ edits = 0 /\ saves = 0

\* render() with ensure_cursor_visible(): before the first key, and then once for
\* all keys of a read.
Shown(row) == IF row < top THEN row ELSE IF row >= top + Body THEN row - Body + 1 ELSE top
Render ==
  /\ running /\ handled > 0 /\ handled' = 0 /\ top' = Shown(VisualRow(Layout(lines), line, col))
  /\ IF warning = "due" THEN warning' = "none" /\ warned' = lines ELSE UNCHANGED <<warning, warned>>
  /\ UNCHANGED <<lines, cursor, preferred, dirty, armed, file, running, lossy, edits, saves>>

\* The next key of a read.
Handles == running /\ handled < kEvents /\ handled' = handled + 1

Moves(l, c) ==
  /\ Handles /\ line' = l /\ col' = c
  /\ UNCHANGED <<lines, top, dirty, armed, file, running, warning, warned, lossy, edits, saves>>

Left ==
  /\ preferred' = -1
  /\ CASE col > 0 -> Moves(line, col - 1)
       [] col = 0 /\ line > 1 -> Moves(line - 1, Len(lines[line - 1]))
       [] OTHER -> Moves(line, col)

Right ==
  /\ preferred' = -1
  /\ CASE col < Len(Line) -> Moves(line, col + 1)
       [] col = Len(Line) /\ line < Len(lines) -> Moves(line + 1, 0)
       [] OTHER -> Moves(line, col)

Home == preferred' = -1 /\ \E l \in {line, 1} : Moves(l, 0)
End == preferred' = -1 /\ \E l \in {line, Len(lines)} : Moves(l, Len(lines[l]))

\* An arrow or a page.
Vertical ==
  LET all == Layout(lines)
      row == VisualRow(all, line, col)
      last == Len(all) - 1
  IN \E distance \in {1, Body}, target \in 0..last :
       /\ \/ target = (IF distance < row THEN row - distance ELSE 0)
          \/ target = (IF distance < last - row THEN row + distance ELSE last)
       /\ preferred' = (IF preferred = -1 THEN VisualColumn(all, line, col) ELSE preferred)
       /\ LET p == PositionAt(all, target, preferred') IN Moves(p[1], p[2])

-----------------------------------------------------------------------------
\* set_status(): the message takes the place of the warning.
Says == warning' = IF warning = "due" THEN "covered" ELSE warning

\* Every change of the text makes it dirty and takes back the first key of two
\* that quit; a key for which there is no room says so and only ends a vertical
\* move.
Edited(ls, l, c) ==
  /\ edits < MaxEdits /\ edits' = edits + 1
  /\ lines' = ls /\ line' = l /\ col' = c /\ dirty' = TRUE /\ armed' = FALSE /\ warning' = "none"
Still == UNCHANGED <<lines, cursor, dirty, armed, edits>>
Refused == Says /\ Still
Key ==
  /\ Handles /\ preferred' = -1
  /\ UNCHANGED <<top, file, running, warned, lossy, saves>>

Overtyped(text) == SubSeq(Line, 1, col) \o text \o SubSeq(Line, col + Len(text) + 1, Len(Line))
With(text) == SubSeq(Line, 1, col) \o text \o SubSeq(Line, col + 1, Len(Line))
Put(text) ==
  IF Len(Line) + Len(text) >= kLineCap THEN Refused
  ELSE Edited([lines EXCEPT ![line] = With(text)], line, col + Len(text))

InsertChar == Key /\ \E ch \in Text : Put(<<ch>>)
InsertIndent == Key /\ Put([i \in 1..kIndentWidth |-> " "])

SplitLine ==
  /\ Key
  /\ IF Len(lines) >= kMaxLines THEN Refused
     ELSE Edited(SubSeq(lines, 1, line - 1) \o <<SubSeq(Line, 1, col), SubSeq(Line, col + 1, Len(Line))>>
                   \o SubSeq(lines, line + 1, Len(lines)), line + 1, 0)

\* The line l and the next one as one.
Joins(l) == Len(lines[l]) + Len(lines[l + 1]) + 1 < kLineCap
Joined(l) ==
  SubSeq(lines, 1, l - 1) \o <<lines[l] \o lines[l + 1]>> \o SubSeq(lines, l + 2, Len(lines))

Backspace ==
  /\ Key
  /\ CASE col > 0 -> Edited([lines EXCEPT ![line] = RemoveAt(@, col)], line, col - 1)
       [] col = 0 /\ line > 1 /\ Joins(line - 1) -> Edited(Joined(line - 1), line - 1, Len(lines[line - 1]))
       [] col = 0 /\ line > 1 /\ ~Joins(line - 1) -> Refused
       [] OTHER -> Still /\ UNCHANGED warning

DeleteForward ==
  /\ Key
  /\ CASE col < Len(Line) -> Edited([lines EXCEPT ![line] = RemoveAt(@, col + 1)], line, col)
       [] col = Len(Line) /\ line < Len(lines) /\ Joins(line) -> Edited(Joined(line), line, col)
       [] col = Len(Line) /\ line < Len(lines) /\ ~Joins(line) -> Refused
       [] OTHER -> Still /\ UNCHANGED warning

-----------------------------------------------------------------------------
\* save_document(): the file is removed before it is made, and whether a line
\* break was written is not looked at.
Save ==
  /\ Handles /\ saves < MaxSaves /\ saves' = saves + 1
  /\ \/ /\ dirty' = FALSE /\ armed' = FALSE /\ warning' = "none"
        /\ \/ file' = lines /\ lossy' = FALSE
           \/ Len(lines) > 1 /\ file' = <<FlattenSeq(lines)>> /\ lossy' = TRUE
     \/ /\ file' = NoFile \/ \E n \in DOMAIN lines : lines[n] # <<>> /\ file' = Append(SubSeq(lines, 1, n - 1), <<>>)
        /\ lossy' = (lossy \/ ~dirty) /\ Says /\ UNCHANGED <<dirty, armed>>
  /\ UNCHANGED <<lines, cursor, top, preferred, running, warned, edits>>

\* The second key may be of the same read as the first.
Quit ==
  /\ Handles
  /\ IF dirty /\ ~armed
       THEN armed' = TRUE /\ warning' = "due" /\ UNCHANGED running
       ELSE running' = FALSE /\ UNCHANGED <<armed, warning>>
  /\ UNCHANGED <<lines, cursor, top, preferred, dirty, file, warned, lossy, edits, saves>>

Next ==
  \/ Render \/ Left \/ Right \/ Home \/ End \/ Vertical
  \/ InsertChar \/ InsertIndent \/ SplitLine \/ Backspace \/ DeleteForward \/ Save \/ Quit

Spec == Init /\ [][Next]_vars

-----------------------------------------------------------------------------
TypeOK ==
  /\ Len(lines) \in 1..kMaxLines /\ line \in DOMAIN lines /\ col \in 0..Len(Line)
  /\ \A n \in DOMAIN lines : Len(lines[n]) < kLineCap
  /\ preferred \in -1..(Width - 1)

\* Text that is not marked as changed is in the file, and who quits with changes
\* was shown the warning for just these, unless the screen was not rendered
\* between the two keys, which one read brought, or the read of the first brought a
\* key that put another message there (write.cpp:358-380, 657-737).
WorkIsSaved ==
  /\ ~dirty => file = lines \/ lossy
  /\ ~running /\ dirty => warned = lines \/ warning \in {"due", "covered"}

\* The rows fit the screen and hold all of the text but the spaces at which
\* they break, and drawing, counting and walking agree on them: a place that is
\* reached by moving up and down is on the row that was meant, and the
\* screen that was drawn shows the cursor (write.cpp:147-272, 299-320, 425-435).
RowsAgree ==
  LET all == Layout(lines) IN
  /\ \A row \in 0..(Len(all) - 1), x \in 0..(Width - 1) :
       LET p == PositionAt(all, row, x) IN
       VisualRow(all, p[1], p[2]) = row /\ VisualColumn(all, p[1], p[2]) =< x
  /\ \A i \in DOMAIN all : all[i].row.end - all[i].row.start =< Width
  /\ \A n \in DOMAIN lines, c \in 1..kLineCap : c =< Len(lines[n]) =>
       \E i \in DOMAIN all :
         /\ all[i].line = n /\ all[i].row.start < c
         /\ c =< all[i].row.end \/ (lines[n][c] = " " /\ c =< all[i].row.next)
  /\ handled = 0 => VisualRow(all, line, col) \in top..(top + Body - 1)

\* The document as one text, with the place of the cursor in it: a key puts one
\* thing there or takes one away next to it, lines being joined and split on the
\* way, and everything else stays as it is (write.cpp:522-634).
Break == "\n"
Flat == FlattenSeq([n \in DOMAIN lines |-> IF n = 1 THEN lines[n] ELSE <<Break>> \o lines[n]])
Place == FoldLeft(LAMBDA n, text : n + Len(text) + 1, 0, SubSeq(lines, 1, line - 1)) + col
Before == SubSeq(Flat, 1, Place)
After == SubSeq(Flat, Place + 1, Len(Flat))
Changes ==
  \/ Flat' = Flat
  \/ Before' \in {Before \o <<ch>> : ch \in Text \cup {Break}} \cup {Before \o [i \in 1..kIndentWidth |-> " "]}
       /\ After' = After
  \/ Before # <<>> /\ Before' = Front(Before) /\ After' = After
  \/ After # <<>> /\ Before' = Before /\ After' = Tail(After)
KeysDoOneThing == [][Changes]_vars
=============================================================================
