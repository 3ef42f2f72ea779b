-------------------------------- MODULE Sheet --------------------------------
(* The spreadsheet (console-tools/src/sheet.cpp): cells with numbers, text    *)
(* and formulas of two terms, which refer to cells up to a depth; a cursor;  *)
(* a line in which one is edited; a file with commas, removed and        *)
(* written anew by every save.                                             *)
(*                                                                         *)
(* External: the user; the file system, which may refuse to create the file *)
(* and to take any piece of it, which nobody looks at.  A cell has one of the *)
(* contents below; of the status line only the warning is kept; colours and *)
(* the text of the screen are left out.                                    *)
EXTENDS Integers, Sequences, FiniteSets, SequencesExt, FiniteSetsExt

CONSTANTS
  kRows, kCols,
  VisibleRows, VisibleCols,
  Numbers, Formulas,   \* that users type
  Files,               \* contents of the file at first: rows of contents
  kEvents,             \* keys that one read takes at most (8)
  MaxDepth,            \* of formulas that refer to formulas (8)
  MaxEdits, MaxSaves   \* bounds

Cells == (1..kRows) \X (1..kCols)
Content(kind) == [kind |-> kind, left |-> <<>>, op |-> "none", right |-> <<>>]
Empty == Content("empty")
Sign == Content("sign")     \* a formula of which only "=" was typed
Comma == Content("comma")   \* text with a comma, which a file cannot tell from two cells
Number(n) == [Content("number") EXCEPT !.left = <<n>>]
Formula(l, op, r) == [kind |-> "formula", left |-> l, op |-> op, right |-> r]
Contents == {Empty, Sign, Comma} \cup {Number(n) : n \in Numbers} \cup Formulas

SheetAssumption ==
  /\ {kRows, kCols, VisibleRows, VisibleCols, kEvents} \subseteq Nat \ {0} /\ MaxDepth \in Nat
  /\ \A f \in Formulas : f.kind = "formula" /\ {f.left, f.right} \cap Cells # {}

VARIABLES
  cells,
  at,          \* the cursor
  left_top,    \* the first row and column on the screen
  edit,        \* "no", "cell" or, if it was begun by a letter, which took the
               \* place of what the cell had, "letter"
  dirty, armed,
  file,
  handled,     \* keys of the read of main() since the screen was rendered
  running,
  warning,     \* the warning in g_status that was not rendered yet: "none", "due",
               \* or "covered" by a message of the same read
  warned,      \* history: the cells for which the warning was rendered last
  lossy,       \* history: a load or save left something out, a save failed
               \* that was not needed, or a letter was cancelled
  edits, saves

vars == <<cells, at, left_top, edit, dirty, armed, file, handled, running, warning, warned, lossy,
          edits, saves>>

NoFile == <<>>
NoCells == [c \in Cells |-> Empty]

-----------------------------------------------------------------------------
\* cell_value(), eval_formula(), parse_term(): a term is a cell or a number.
Magnitude(n) == IF n < 0 THEN -n ELSE n
Quotient(l, r) ==
  LET q == Magnitude(l) \div Magnitude(r) IN IF (l < 0) = (r < 0) THEN q ELSE -q
Applied(op, l, r) ==
  CASE op = "+" -> l + r [] op = "-" -> l - r [] op = "*" -> l * r
    [] op = "/" /\ r # 0 -> Quotient(l, r) [] OTHER -> l

Shown(cs) ==
  LET value[c \in Cells, depth \in 0..(MaxDepth + 1)] ==
        LET term(t) == IF t \in Cells THEN value[t, depth + 1] ELSE t[1] IN
        CASE cs[c].kind = "formula" /\ depth =< MaxDepth ->
               Applied(cs[c].op, term(cs[c].left), term(cs[c].right))
          [] cs[c].kind = "number" -> cs[c].left[1]
          [] OTHER -> 0
  IN [c \in Cells |-> value[c, 0]]

\* save_sheet(): up to the last row, and in each to the last cell, that is not empty.
Last1(S) == Max(S \cup {1})
Written(cs) ==
  [r \in 1..Last1({c[1] : c \in {d \in Cells : cs[d] # Empty}}) |->
    [k \in 1..Last1({n \in 1..kCols : cs[<<r, n>>] # Empty}) |-> cs[<<r, k>>]]]

\* load_sheet(): what is beyond the last row or column takes the place of the
\* last, and a comma in a cell begins another.
Least(m, n) == IF m < n THEN m ELSE n
Split(row) == FlattenSeq([i \in DOMAIN row |-> IF row[i] = Comma THEN <<Number(1), Number(1)>> ELSE <<row[i]>>])
Read(f) ==
  LET places == {<<r, k>> : r \in DOMAIN f, k \in 1..(2 * kCols + 1)}
      here(c) == {p \in places : p[2] =< Len(Split(f[p[1]])) /\ Least(p[1], kRows) = c[1] /\ Least(p[2], kCols) = c[2]}
      latest(c) == CHOOSE p \in here(c) : \A q \in here(c) : q[1] < p[1] \/ (q[1] = p[1] /\ q[2] =< p[2])
  IN [c \in Cells |-> IF here(c) = {} THEN Empty ELSE Split(f[latest(c)[1]])[latest(c)[2]]]

-----------------------------------------------------------------------------
Init ==
  /\ \/ \E f \in Files : file = f /\ cells = Read(f) /\ lossy = (Written(Read(f)) # f)
     \/ file = NoFile /\ cells = NoCells /\ lossy = FALSE
  /\ at = <<1, 1>> /\ left_top = <<1, 1>> /\ edit = "no"
  /\ dirty = FALSE /\ armed = FALSE /\ handled = kEvents /\ running = TRUE
  /\ warning = "none" /\ warned = NoCells
  /\ edits = 0 /\ saves = 0

\* render() with ensure_visible(): before the first key, and then once for all
\* keys of a read.
Scrolled(first, n, visible) == IF n < first THEN n ELSE IF n >= first + visible THEN n - visible + 1 ELSE first
Render ==
  /\ running /\ edit = "no" /\ handled > 0 /\ handled' = 0
  /\ left_top' = <<Scrolled(left_top[1], at[1], VisibleRows), Scrolled(left_top[2], at[2], VisibleCols)>>
  /\ IF warning = "due" THEN warning' = "none" /\ warned' = cells ELSE UNCHANGED <<warning, warned>>
  /\ UNCHANGED <<cells, at, edit, dirty, armed, file, running, lossy, edits, saves>>

\* The next key of a read of main().
Key == running /\ edit = "no" /\ handled < kEvents /\ handled' = handled + 1

\* set_status(): the message takes the place of the warning.
Says == warning' = IF warning = "due" THEN "covered" ELSE warning

Arrow ==
  /\ Key
  /\ at' \in {<<at[1] - 1, at[2]>>, <<at[1] + 1, at[2]>>, <<at[1], at[2] - 1>>, <<at[1], at[2] + 1>>} \cap Cells
  /\ UNCHANGED <<cells, left_top, edit, dirty, armed, file, running, warning, warned, lossy, edits, saves>>

\* Enter edits what is there, a letter is there before it is edited.
EditCell ==
  /\ Key /\ edits < MaxEdits /\ edits' = edits + 1
  /\ \/ edit' = "cell" /\ UNCHANGED cells
     \/ /\ edit' = "letter"
        /\ \E letter \in {Sign} \cup {Number(n) : n \in Numbers} : cells' = [cells EXCEPT ![at] = letter]
  /\ UNCHANGED <<at, left_top, dirty, armed, file, running, warning, warned, lossy, saves>>

AcceptStaysArmed ==
  /\ edit # "no" /\ edit' = "no" /\ dirty' = TRUE /\ warning' = "none"
  /\ \E input \in Contents : cells' = [cells EXCEPT ![at] = input]
  /\ UNCHANGED <<at, left_top, armed, file, handled, running, warned, lossy, edits, saves>>

\* edit_cell() reads keys of its own: any text, and Enter.
Accept ==
  /\ edit # "no" /\ edit' = "no" /\ dirty' = TRUE /\ armed' = FALSE /\ warning' = "none"
  /\ \E input \in Contents : cells' = [cells EXCEPT ![at] = input]
  /\ UNCHANGED <<at, left_top, file, handled, running, warned, lossy, edits, saves>>

\* Escape; what a letter did is not undone.
Cancel ==
  /\ edit # "no" /\ edit' = "no" /\ lossy' = (lossy \/ edit = "letter") /\ Says
  /\ UNCHANGED <<cells, at, left_top, dirty, armed, file, handled, running, warned, edits, saves>>

Save ==
  /\ Key /\ saves < MaxSaves /\ saves' = saves + 1
  /\ \/ /\ dirty' = FALSE /\ armed' = FALSE /\ warning' = "none"
        /\ \/ file' = Written(cells) /\ lossy' = (Comma \in {cells[c] : c \in Cells})
           \/ file' = << <<Empty>> >> /\ lossy' = TRUE
     \/ file' = NoFile /\ lossy' = (lossy \/ ~dirty) /\ Says /\ UNCHANGED <<dirty, armed>>
  /\ UNCHANGED <<cells, at, left_top, edit, running, warned, edits>>

\* The second key may be of the same read as the first.
Quit ==
  /\ Key
  /\ IF dirty /\ ~armed
       THEN armed' = TRUE /\ warning' = "due" /\ UNCHANGED running
       ELSE running' = FALSE /\ UNCHANGED <<armed, warning>>
  /\ UNCHANGED <<cells, at, left_top, edit, dirty, file, warned, lossy, edits, saves>>

Next == Render \/ Arrow \/ EditCell \/ Accept \/ Cancel \/ Save \/ Quit

Spec == Init /\ [][Next]_vars

-----------------------------------------------------------------------------
TypeOK ==
  /\ \A c \in Cells : cells[c] \in Contents
  /\ at \in Cells /\ left_top \in Cells /\ edit \in {"no", "cell", "letter"}

\* A sheet that is not marked as changed is what the file is read back to, and
\* who quits with changes was shown the warning for just these, apart from a
\* first letter that was cancelled, and unless the screen was not rendered between
\* the two keys, which one read brought, or the read of the first brought a key
\* that put another message there (sheet.cpp:240-320, 408-450, 472-536).
WorkIsSaved ==
  /\ ~dirty /\ edit = "no" => Read(file) = cells \/ lossy
  /\ ~running /\ dirty => warned = cells \/ warning \in {"due", "covered"} \/ lossy

\* A formula shows what its cells show, for every chain of formulas that is not
\* deeper than the bound and does not come back to itself (sheet.cpp:184-228).
Uses(c) == IF cells[c].kind = "formula" THEN {cells[c].left, cells[c].right} \cap Cells ELSE {}
Chains ==
  LET long[n \in 0..(MaxDepth + 1)] ==
        IF n = 0 THEN {c \in Cells : Uses(c) = {}} ELSE {c \in Cells : Uses(c) \subseteq long[n - 1]}
  IN long[MaxDepth + 1]
FormulasTrue ==
  LET shown == Shown(cells)
      term(t) == IF t \in Cells THEN shown[t] ELSE t[1]
  IN \A c \in Chains : cells[c].kind = "formula" =>
       shown[c] = Applied(cells[c].op, term(cells[c].left), term(cells[c].right))

\* The screen that was drawn shows the cursor (sheet.cpp:322-330).
CursorShown ==
  handled = 0 => /\ at[1] \in left_top[1]..(left_top[1] + VisibleRows - 1)
                 /\ at[2] \in left_top[2]..(left_top[2] + VisibleCols - 1)
=============================================================================
