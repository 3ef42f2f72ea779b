-------------------------------- MODULE Shell -------------------------------
(***************************************************************************)
(* The line editor of the shell, base-system/src/shell.cpp: one key at a   *)
(* time, with a history, completion of file names and escape sequences.    *)
(* The console shows what is written to it and takes a character back for  *)
(* each "\b"; it, the files and the programs are not in the repository.    *)
(* The kernel's setcwd() and getcwd() may fail at any call; a getcwd() that *)
(* fails writes nothing.                                                   *)
(***************************************************************************)
EXTENDS Naturals, Sequences, SequencesExt, FiniteSets

CONSTANTS
  Text,             \* printable characters that lines are made of
  kMaxInputLength,  \* a line is shorter than that
  kHistoryCapacity,
  Directories,      \* what a directory may hold: sets of [name, dir]
  Places,           \* directories that the shell may be in
  Root, Home        \* "@sys", and the user's directory

ShellAssumption ==
  /\ {kMaxInputLength, kHistoryCapacity} \subseteq Nat \ {0} /\ {Root, Home} \subseteq Places
  /\ " " \in Text /\ \A d \in Directories : \A e \in d : e.dir \in BOOLEAN /\ e.name \in Seq(Text \ {" "})

VARIABLES
  echo_input,        \* the input is a keyboard or a VTY
  input,             \* input_buffer
  rendered_length,
  console,           \* what stands there from the last prompt on
  history, history_position, history_draft,
  escape_state, suppress_next_lf,
  cwd, g_current_cwd,  \* where the process is, and where the shell takes it to be
  adrift,            \* history: since the last "cd" that went well, a call that
                     \* failed left the two apart
  own                \* history: the line as it was last edited below the history

editVars == <<input, rendered_length, console>>
historyVars == <<history, history_position, history_draft>>
keyVars == <<escape_state, suppress_next_lf>>
placeVars == <<cwd, g_current_cwd, adrift>>
vars == <<echo_input, editVars, historyVars, keyVars, placeVars, own>>

Printable == Text \cup {"/"}

TypeOK ==
  /\ echo_input \in BOOLEAN /\ suppress_next_lf \in BOOLEAN /\ escape_state \in 0..2
  /\ input \in Seq(Printable) /\ Len(input) < kMaxInputLength
  /\ rendered_length \in 0..kMaxInputLength
  /\ Len(history) =< kHistoryCapacity /\ history_position \in 0..Len(history)
  /\ {cwd, g_current_cwd} \subseteq Places

\* The place the shell was started in, or Root if getcwd() fails; then the home
\* directory, if there is one, setcwd() being not looked at; and the first prompt.
Init ==
  /\ echo_input \in BOOLEAN
  /\ cwd \in Places
  /\ \/ g_current_cwd = cwd /\ adrift = FALSE
     \/ g_current_cwd \in {Root, Home} /\ adrift = TRUE
  /\ input = <<>> /\ rendered_length = 0 /\ console = <<g_current_cwd>>
  /\ history = <<>> /\ history_position = 0 /\ history_draft = <<>>
  /\ escape_state = 0 /\ suppress_next_lf = FALSE
  /\ own = <<>>

-----------------------------------------------------------------------------
\* "\b" takes back what stands last, the prompt too.
Erased(text, n) == SubSeq(text, 1, IF n < Len(text) THEN Len(text) - n ELSE 0)

\* Without the echo, what stands there is up to the terminal at the far end.
Written(text) == IF echo_input THEN text ELSE console

\* render_line(): back over what was rendered, then the line.
Render(text, line) ==
  /\ input' = line /\ rendered_length' = Len(line)
  /\ console' = Written(Erased(text, rendered_length) \o line)

AtEdge == history_position = Len(history)

DraftSaved == IF AtEdge THEN input ELSE history_draft

\* recall_history(); at its edge stands the line that was being written.
Older ==
  /\ \/ history = <<>> /\ UNCHANGED <<historyVars, editVars>>
     \/ /\ history # <<>> /\ history_draft' = DraftSaved
        /\ \/ history_position = 0 /\ UNCHANGED <<history_position, editVars>>
           \/ /\ history_position > 0
              /\ history_position' = history_position - 1
              /\ Render(console, history[history_position])
        /\ UNCHANGED history
  /\ UNCHANGED <<echo_input, placeVars, own>>

Newer ==
  /\ \/ AtEdge /\ UNCHANGED <<history_position, editVars>>
     \/ /\ ~AtEdge
        /\ history_position' = history_position + 1
        /\ Render(console, IF history_position + 1 = Len(history) THEN history_draft
                           ELSE history[history_position + 2])
  /\ UNCHANGED <<echo_input, history, history_draft, placeVars, own>>

Edited(line) == own' = IF AtEdge THEN line ELSE own

Type(c) ==
  /\ \/ Len(input) + 1 >= kMaxInputLength /\ UNCHANGED <<editVars, own>>
     \/ /\ Len(input) + 1 < kMaxInputLength
        /\ input' = Append(input, c) /\ rendered_length' = Len(input')
        /\ console' = Written(Append(console, c))
        /\ Edited(input')
  /\ UNCHANGED <<echo_input, historyVars, placeVars>>

BackSpace ==
  /\ \/ input = <<>> /\ UNCHANGED <<editVars, own>>
     \/ /\ input # <<>>
        /\ input' = Front(input) /\ rendered_length' = Len(input')
        /\ console' = Written(Erased(console, 1))
        /\ Edited(input')
  /\ UNCHANGED <<echo_input, historyVars, placeVars>>

-----------------------------------------------------------------------------
(* complete_path(): the entries that the end of the line begins, those of  *)
(* the directory that the last word names before it.                       *)

Ends == {" ", "/"}

Leaf ==
  LET start == CHOOSE i \in 0..Len(input) :
                 (i = 0 \/ input[i] \in Ends) /\ \A j \in (i + 1)..Len(input) : input[j] \notin Ends
  IN  SubSeq(input, start + 1, Len(input))

Common(names) ==
  LET n == CHOOSE x \in names : TRUE
  IN  CHOOSE p \in Prefixes(n) :
        /\ \A m \in names : IsPrefix(p, m)
        /\ \A q \in Prefixes(n) : (\A m \in names : IsPrefix(q, m)) => Len(q) =< Len(p)

\* The line, and that the entries were listed under it.
Completed(entries) ==
  LET matches == {e \in entries : IsPrefix(Leaf, e.name)}
      common == Common({e.name : e \in matches})
      extra == SubSeq(common, Len(Leaf) + 1, Len(common))
      longer == input \o extra
      one == CHOOSE e \in matches : TRUE
      none == [line |-> input, listed |-> FALSE]
  IN  IF matches = {} \/ (extra # <<>> /\ Len(longer) >= kMaxInputLength) THEN none
      ELSE IF Cardinality(matches) > 1 THEN [line |-> longer, listed |-> extra = <<>>]
      ELSE IF Len(longer) + 1 < kMaxInputLength
           THEN [line |-> Append(longer, IF one.dir THEN "/" ELSE " "), listed |-> FALSE]
           ELSE [line |-> longer, listed |-> FALSE]

StillRendered(listed) == rendered_length
RenderedNow(listed) == IF listed THEN 0 ELSE rendered_length

\* Under the entries is a prompt with nothing behind it.
Complete ==
  /\ \E entries \in Directories \cup {{}} :
       \E c \in {Completed(entries)} :
         /\ input' = c.line /\ rendered_length' = Len(c.line)
         /\ console' = Written(
              Erased(IF c.listed THEN <<g_current_cwd>> ELSE console, RenderedNow(c.listed)) \o c.line)
         /\ Edited(c.line)
  /\ UNCHANGED <<echo_input, historyVars, placeVars>>

-----------------------------------------------------------------------------
\* The first word: "cd", after which getcwd() may fail; or a "cd" that fails or a
\* program, which leave the shell where it is.
ExecuteCommand ==
  \/ /\ cwd' \in Places
     /\ \/ g_current_cwd' = cwd' /\ adrift' = FALSE
        \/ UNCHANGED g_current_cwd /\ adrift' = TRUE
  \/ UNCHANGED placeVars

Blank(line) == \A i \in 1..Len(line) : line[i] = " "

\* The last lines, the same one twice in a row once.
Remembered(line) ==
  IF Blank(line) \/ (history # <<>> /\ Last(history) = line) THEN history
  ELSE Append(IF Len(history) = kHistoryCapacity THEN Tail(history) ELSE history, line)

Enter ==
  /\ history' = Remembered(input)
  /\ ExecuteCommand
  /\ input' = <<>> /\ own' = <<>>
  /\ history_position' = Len(history') /\ history_draft' = <<>>
  /\ console' = Written(<<g_current_cwd'>>) /\ rendered_length' = 0
  /\ UNCHANGED echo_input

Still == UNCHANGED <<echo_input, editVars, historyVars, placeVars, own>>

\* handle_input_byte(): within an escape sequence, and otherwise.
InEscape(key) ==
  /\ escape_state # 0
  /\ \/ escape_state = 1 /\ key = "[" /\ escape_state' = 2 /\ Still
     \/ escape_state = 1 /\ key # "[" /\ escape_state' = 0 /\ Still
     \/ escape_state = 2 /\ escape_state' = 0 /\ key = "A" /\ Older
     \/ escape_state = 2 /\ escape_state' = 0 /\ key = "B" /\ Newer
     \/ escape_state = 2 /\ escape_state' = 0 /\ key \notin {"A", "B"} /\ Still
  /\ UNCHANGED suppress_next_lf

Byte(key) ==
  /\ escape_state = 0
  /\ \/ key = "esc" /\ escape_state' = 1 /\ Still /\ UNCHANGED suppress_next_lf
     \/ /\ key # "esc" /\ UNCHANGED escape_state
        /\ suppress_next_lf' = (key = "cr")
        /\ \/ key = "lf" /\ suppress_next_lf /\ Still
           \/ key \in {"cr", "lf"} /\ ~(key = "lf" /\ suppress_next_lf) /\ Enter
           \/ key = "bs" /\ BackSpace
           \/ key = "tab" /\ Complete
           \/ key \in Text /\ Type(key)

\* The arrow keys of a keyboard are events of their own.
Arrow == echo_input /\ (Older \/ Newer) /\ UNCHANGED keyVars

Next ==
  \/ \E key \in Text \cup {"[", "A", "B", "cr", "lf", "bs", "tab", "esc"} : InEscape(key) \/ Byte(key)
  \/ Arrow

Spec == Init /\ [][Next]_vars

-----------------------------------------------------------------------------
\* The console shows the prompt with the place that programs will start in,
\* and the line as Enter would take it: after recall, completion, listing and
\* edits in any order (shell.cpp:455-459).  That place is the one that "cd" and
\* completion start from, unless a call that failed left them apart (617-627).
LineShown ==
  /\ echo_input => console = <<g_current_cwd>> \o input
  /\ cwd = g_current_cwd \/ adrift

\* The way back from the history leads to the line that was being written.
DraftKept == AtEdge => input = own
=============================================================================
