-------------------------------- MODULE Browse --------------------------------
(* The web browser of the console (network-tools/src/browse.cpp): an address *)
(* is loaded over redirections, the page is laid out in lines with its links  *)
(* and forms, and keys scroll, select, fill in, submit and go back.          *)
(*                                                                         *)
(* External: the server, which gives a page, a redirection or a failure, the *)
(* clock, the files of certificates and the user.  Left out: colours, the    *)
(* labels of links, entities, what a title or a heading looks like.          *)
EXTENDS Integers, Sequences, SequencesExt

CONSTANTS
  Sites,         \* each gives the pages their tags and text
  Typed,         \* addresses that the user types
  Inputs,        \* values that the user types
  Width,         \* columns of the document
  ViewRows,      \* rows of the document on the screen
  kMaxLinks, kMaxForms, kMaxHiddenFields, kMaxHistory, kMaxRedirects,
  MaxPairs,      \* fields for which there is room in an address
  MaxLoads, MaxEdits  \* bounds on addresses followed and values typed

BrowseAssumption ==
  /\ Width \in Nat \ {0, 1} /\ ViewRows \in Nat \ {0}
  /\ {kMaxLinks, kMaxForms, kMaxHiddenFields, kMaxHistory, kMaxRedirects, MaxPairs} \subseteq Nat

VARIABLES
  site,      \* the pages of the server
  at,        \* "connect", "answer", "failed", "page" or "quit"
  current,   \* session->current_url
  hop,       \* the address that the redirections have led to
  redirect,  \* redirections followed
  open,      \* connections of the program at tcpd: "used" and "left"
  store,     \* g_trust_store: "untried", "loaded" or "none"
  tls_mode,  \* of the connection
  secure,    \* of the page
  history,
  doc, scroll, selected,
  shown,     \* the address of the document
  cause,     \* history: the link or button that the address is loaded for
  loads, edits

view == <<doc, scroll, selected>>
vars == <<site, at, current, hop, redirect, open, store, tls_mode, secure, history, doc, scroll,
          selected, shown, cause, loads, edits>>

-----------------------------------------------------------------------------
(* The document.  A cell is a character with the link that it belongs to.   *)

EmptyDoc == [lines |-> <<<<>>>>, links |-> <<>>, forms |-> <<>>, hidden |-> <<>>, link |-> 0, form |-> 0]

\* document_new_line(): a link that goes on is now on the new line.
NewLine(d) ==
  [d EXCEPT !.lines = Append(@, <<>>),
            !.links = IF d.link = 0 THEN @ ELSE [@ EXCEPT ![d.link].line = Len(d.lines) + 1]]

\* document_append_char()
AppendChar(d, ch) ==
  LET e == IF Len(Last(d.lines)) >= Width THEN NewLine(d) ELSE d
  IN [e EXCEPT !.lines[Len(e.lines)] = Append(@, [ch |-> ch, link |-> e.link])]
AppendText(d, text) == FoldLeft(AppendChar, d, text)

\* document_trim_empty_tail()
Trimmed(d) ==
  LET full == {n \in 1..Len(d.lines) : n = 1 \/ d.lines[n] # <<>>}
  IN [d EXCEPT !.lines = SubSeq(@, 1, CHOOSE n \in full : \A m \in full : m =< n)]

Link(d, kind, ref, name, value) ==
  [kind |-> kind, ref |-> ref, name |-> name, value |-> value, line |-> Len(d.lines),
   form |-> IF kind = "anchor" THEN 0 ELSE d.form]

-----------------------------------------------------------------------------
(* The renderer: "column" is its own count of the cells of the line, which  *)
(* controls do not take part in.                                           *)

renderer_init ==
  [doc |-> EmptyDoc, column |-> 0, pending_space |-> FALSE, last_was_newline |-> TRUE,
   have_visible_text |-> FALSE, in_comment |-> FALSE, in_script |-> FALSE, in_tag |-> FALSE]

Broken(r) == [r EXCEPT !.doc = NewLine(@), !.column = 0]
Put(r, ch) == [r EXCEPT !.doc = AppendChar(@, ch), !.column = @ + 1]

renderer_output_char(r, ch) ==
  LET spaced == IF ~r.pending_space \/ r.column = 0 THEN r
                ELSE IF r.column + 1 >= Width THEN Broken(r) ELSE Put(r, " ")
      fits == IF spaced.column >= Width THEN Broken(spaced) ELSE spaced
  IN [Put(fits, ch) EXCEPT !.pending_space = FALSE, !.last_was_newline = FALSE, !.have_visible_text = TRUE]

renderer_emit_break(r) ==
  IF r.last_was_newline THEN r
  ELSE [Broken(r) EXCEPT !.pending_space = FALSE, !.last_was_newline = TRUE]

renderer_emit_paragraph(r) ==
  [Broken(IF r.last_was_newline THEN r ELSE Broken(r)) EXCEPT !.pending_space = FALSE, !.last_was_newline = TRUE]

ListItem(r) ==
  LET b == renderer_emit_break(r)
  IN [b EXCEPT !.doc = AppendText(@, <<"*", " ">>), !.column = 2, !.last_was_newline = FALSE]

\* A tag for which the buffer has no room loses the end of what it refers to.
Cut == [kind |-> "path", page |-> "cut"]
Ref(tag) == IF tag.long THEN Cut ELSE tag.ref

renderer_begin_link(r, tag) ==
  IF Len(r.doc.links) >= kMaxLinks THEN r
  ELSE [r EXCEPT !.doc.links = Append(@, Link(r.doc, "anchor", Ref(tag), "", <<>>)),
                 !.doc.link = Len(r.doc.links) + 1]
renderer_end_link(r) == [r EXCEPT !.doc.link = 0]

\* What stands for a control on the page.
Display == <<"[", "x", "]">>

renderer_emit_control(r, tag) ==
  IF Len(r.doc.links) >= kMaxLinks THEN r
  ELSE LET d == [r.doc EXCEPT !.links = Append(@, Link(r.doc, tag.tag, <<>>, tag.name, tag.value)),
                              !.link = Len(r.doc.links) + 1]
       IN [r EXCEPT !.doc = [AppendText(d, Display) EXCEPT !.link = r.doc.link]]

renderer_add_hidden_field(r, tag) ==
  IF r.doc.form = 0 \/ Len(r.doc.hidden) >= kMaxHiddenFields THEN r
  ELSE [r EXCEPT !.doc.hidden = Append(@, [form |-> r.doc.form, name |-> tag.name, value |-> tag.value])]

BeginForm(r, tag) ==
  IF Len(r.doc.forms) >= kMaxForms THEN r
  ELSE [r EXCEPT !.doc.forms = Append(@, [get |-> tag.get, action |-> Ref(tag)]),
                 !.doc.form = Len(r.doc.forms) + 1]

\* renderer_finish_tag().  The tag that begins a comment is over where the
\* comment is, which then goes on to the end of the next one.
renderer_finish_tag(r, tag) ==
  CASE r.in_comment -> IF tag.tag = "comment" THEN [r EXCEPT !.in_comment = FALSE] ELSE r
    [] ~r.in_comment /\ tag.tag = "comment" -> [r EXCEPT !.in_comment = TRUE]
    [] ~r.in_comment /\ tag.tag \in {"script", "/script"} -> [r EXCEPT !.in_script = (tag.tag = "script")]
    [] OTHER ->
       IF r.in_script THEN r
       ELSE CASE tag.tag = "a" -> renderer_begin_link(r, tag)
              [] tag.tag = "/a" -> renderer_end_link(r)
              [] tag.tag = "form" -> BeginForm(r, tag)
              [] tag.tag = "/form" -> [r EXCEPT !.doc.form = 0]
              [] tag.tag = "hidden" -> renderer_add_hidden_field(r, tag)
              [] tag.tag \in {"input", "submit"} -> renderer_emit_control(r, tag)
              [] tag.tag = "p" -> renderer_emit_paragraph(r)
              [] tag.tag = "br" -> renderer_emit_break(r)
              [] tag.tag = "li" -> ListItem(r)

\* renderer_process_html(); a "<" of a script or of text begins a tag that ends
\* with the next one.
renderer_process_html(r, token) ==
  CASE token.tag = "text" ->
         IF r.in_tag \/ r.in_comment \/ r.in_script THEN r
         ELSE IF token.ch = " " THEN [r EXCEPT !.pending_space = TRUE] ELSE renderer_output_char(r, token.ch)
    [] token.tag = "less" -> [r EXCEPT !.in_tag = TRUE]
    [] OTHER -> IF r.in_tag THEN [r EXCEPT !.in_tag = FALSE] ELSE renderer_finish_tag(r, token)

\* render_body_to_document()
render_body_to_document(page) ==
  LET r == FoldLeft(renderer_process_html, renderer_init, page)
      ended == IF r.last_was_newline THEN r.doc ELSE NewLine(r.doc)
  IN Trimmed(IF r.have_visible_text THEN ended ELSE AppendText(ended, <<"[", "e", "]">>))

-----------------------------------------------------------------------------
(* Addresses: the scheme (none where the user left it out), the page, and   *)
(* the fields of the query.                                                *)

\* parse_url() with its default.
Scheme(url) == IF url.scheme = "http" THEN "http" ELSE "https"

\* What a reference on a page says.  An address without a scheme is taken for
\* a path next to the current page.
Lost == "lost"
Refers(url, ref) ==
  CASE ref.kind = "url" ->
         IF ref.url.scheme # "none" THEN {ref.url}
         ELSE {[scheme |-> Scheme(url), page |-> Lost, query |-> ref.url.query]}
    [] ref.kind = "path" -> {[scheme |-> Scheme(url), page |-> ref.page, query |-> <<>>]}
    [] OTHER -> {}

\* resolve_link_url(): the target, or nothing for a fragment or another scheme.
resolve_link_url(ref) == Refers(current, ref)

Named(fields) == SelectSeq(fields, LAMBDA f : f.name # "")
Pairs(fields) == [n \in DOMAIN fields |-> <<fields[n].name, fields[n].value>>]

submit_control_name_exists(form, name) ==
  \E n \in DOMAIN doc.links : doc.links[n].kind = "submit" /\ doc.links[n].form = form /\ doc.links[n].name = name

\* build_form_submit_url(): hidden fields, the inputs, and the button itself.
FieldsSent(submit) ==
  LET hidden == SelectSeq(doc.hidden, LAMBDA f : f.form = submit.form /\ ~submit_control_name_exists(f.form, f.name))
      inputs == SelectSeq(doc.links, LAMBDA l : l.form = submit.form /\ l.kind = "input")
  IN Pairs(hidden) \o Pairs(Named(inputs)) \o Pairs(Named(<<submit>>))

build_form_submit_url(submit) ==
  IF submit.form = 0 THEN {}
  ELSE LET form == doc.forms[submit.form]
           action == IF form.action.kind = "none" THEN [kind |-> "url", url |-> current] ELSE form.action
       IN {[url EXCEPT !.query = @ \o FieldsSent(submit)]
             : url \in {u \in resolve_link_url(action) :
                          form.get /\ Len(u.query) + Len(FieldsSent(submit)) =< MaxPairs}}

-----------------------------------------------------------------------------
NoCause == <<"none">>

Init ==
  /\ site \in Sites /\ at = "connect" /\ current \in Typed /\ hop = current /\ redirect = 0 /\ open = {}
  /\ store = "untried" /\ tls_mode = "none" /\ secure = FALSE /\ history = <<>> /\ doc = EmptyDoc
  /\ scroll = 0 /\ selected = 0 /\ shown = current /\ cause = NoCause /\ loads = 0 /\ edits = 0

Page(url) == IF url.page \in DOMAIN site THEN site[url.page] ELSE <<[tag |-> "text", ch |-> "?"]>>

(* load_url_document().                                                    *)
Loading(step) == at = step /\ UNCHANGED <<site, current, history, loads, edits>>
Hops(step) == at' = step /\ UNCHANGED <<cause, secure, view, shown>>
NotLoaded ==
  /\ at' = "failed" /\ hop' = current /\ redirect' = 0 /\ tls_mode' = "none" /\ cause' = NoCause
  /\ UNCHANGED <<secure, view, shown>>

\* ensure_trust_store_loaded(): the files are looked for once.
Stores == IF store = "untried" THEN {"loaded", "none"} ELSE {store}

\* stream_connect() with init_tls_client(); a connection for which TLS cannot be
\* set up is left to itself.
Connect ==
  /\ Loading("connect")
  /\ \/ NotLoaded /\ UNCHANGED <<open, store>>
     \/ /\ Scheme(hop) = "http" /\ tls_mode' = "none" /\ open' = open \cup {"used"}
        /\ Hops("answer") /\ UNCHANGED <<store, hop, redirect>>
     \/ /\ Scheme(hop) = "https" /\ store' \in Stores
        /\ \/ store' = "loaded" /\ tls_mode' = "verified" /\ open' = open \cup {"used"}
              /\ Hops("answer") /\ UNCHANGED <<hop, redirect>>
           \/ open' = open \cup {"left"} /\ NotLoaded

Close == open' = open \ {"used"}

\* send_http_request(), read_response_headers(), read_body_to_buffer(): any
\* of them may fail.
NoAnswer == Loading("answer") /\ Close /\ NotLoaded /\ UNCHANGED store

\* A redirection to the same page of the other scheme, or to another page.
Locations == {[kind |-> "url", url |-> [hop EXCEPT !.scheme = s]] : s \in {"http", "https"} \ {Scheme(hop)}}
               \cup {[kind |-> "path", page |-> "home"]}
Redirect ==
  /\ Loading("answer") /\ Close
  /\ IF redirect = kMaxRedirects THEN NotLoaded
     ELSE /\ \E l \in Locations : \E url \in Refers(hop, l) : hop' = url
          /\ redirect' = redirect + 1 /\ Hops("connect") /\ UNCHANGED tls_mode
  /\ UNCHANGED store

Selects(d) == IF d.links = <<>> THEN 0 ELSE 1

Loaded ==
  /\ at = "answer" /\ Close /\ at' = "page"
  /\ doc' = render_body_to_document(Page(hop)) /\ scroll' = 0 /\ selected' = Selects(doc')
  /\ current' = hop /\ shown' = hop /\ secure' = (tls_mode = "verified")
  /\ redirect' = 0 /\ tls_mode' = "none" /\ cause' = NoCause
  /\ UNCHANGED <<site, hop, store, history, loads, edits>>

-----------------------------------------------------------------------------
(* browse_url().                                                           *)
Keeps == UNCHANGED <<site, open, store, tls_mode, secure, view, shown, edits>>
Load(url, why) ==
  /\ at' = "connect" /\ current' = url /\ hop' = url /\ redirect' = 0 /\ cause' = why /\ Keeps

Retry == at = "failed" /\ Load(current, NoCause) /\ UNCHANGED <<history, loads>>
Reload == at = "page" /\ Load(current, NoCause) /\ UNCHANGED <<history, loads>>

Back ==
  /\ at \in {"failed", "page"} /\ history # <<>>
  /\ Load(Last(history), NoCause) /\ history' = Front(history) /\ UNCHANGED loads

\* An address is left for another; a full history stays as it is.
Pushed == IF Len(history) < kMaxHistory THEN Append(history, current) ELSE history
Leave(url, why) == loads < MaxLoads /\ loads' = loads + 1 /\ Load(url, why) /\ history' = Pushed

OpenUrl == at = "page" /\ \E url \in Typed : Leave(url, NoCause)

Selected == doc.links[selected]
Follow ==
  /\ at = "page" /\ selected # 0
  /\ \/ /\ Selected.kind = "anchor"
        /\ \E url \in resolve_link_url(Selected.ref) : Leave(url, <<"link", selected>>)
     \/ /\ Selected.kind = "submit"
        /\ \E url \in build_form_submit_url(Selected) : Leave(url, <<"submit", selected>>)

\* prompt_line_on_status(): an escape leaves an empty value.
EnterValue ==
  /\ at = "page" /\ selected # 0 /\ Selected.kind = "input" /\ edits < MaxEdits /\ edits' = edits + 1
  /\ \E value \in Inputs \cup {<<>>} : doc' = [doc EXCEPT !.links[selected].value = value]
  /\ UNCHANGED <<site, at, current, hop, redirect, open, store, tls_mode, secure, history, scroll,
                 selected, shown, cause, loads>>

Looks ==
  /\ at = "page"
  /\ UNCHANGED <<site, at, current, hop, redirect, open, store, tls_mode, secure, history, doc,
                 shown, cause, loads, edits>>

Scroll ==
  /\ Looks /\ selected' = selected
  /\ \E step \in {1, IF ViewRows > 1 THEN ViewRows - 1 ELSE 1} :
       \/ scroll' = IF step < scroll THEN scroll - step ELSE 0
       \/ scroll + (IF step = 1 THEN ViewRows ELSE step) < Len(doc.lines) /\ scroll' = scroll + step

\* next_link_index(), clamp_view_to_selection(); "line" counts from 1.
clamp(line) ==
  IF line - 1 < scroll THEN line - 1
  ELSE IF line - 1 >= scroll + ViewRows THEN line - ViewRows ELSE scroll
SelectLink ==
  /\ Looks /\ doc.links # <<>>
  /\ LET count == Len(doc.links) IN
     \/ selected' = IF selected = count THEN 1 ELSE selected + 1
     \/ selected' = IF selected = 1 THEN count ELSE selected - 1
  /\ scroll' = clamp(doc.links[selected'].line)

Quit == at \in {"failed", "page"} /\ at' = "quit" /\ UNCHANGED <<site, current, hop, redirect, open, store,
  tls_mode, secure, history, view, shown, cause, loads, edits>>

Next ==
  \/ Connect \/ NoAnswer \/ Redirect \/ Loaded
  \/ Retry \/ Reload \/ Back \/ OpenUrl \/ Follow \/ EnterValue \/ Scroll \/ SelectLink \/ Quit

Spec == Init /\ [][Next]_vars

-----------------------------------------------------------------------------
TypeOK ==
  /\ at \in {"connect", "answer", "failed", "page", "quit"} /\ open \subseteq {"used", "left"}
  /\ selected \in 0..Len(doc.links) /\ Len(history) =< kMaxHistory /\ redirect \in 0..kMaxRedirects
  /\ \A n \in DOMAIN doc.lines : Len(doc.lines[n]) =< Width

\* What the author of a page means: its text and controls in order, each with
\* the number of the link it belongs to, comments and scripts left out.
Opens(page, n) ==
  LET before == {m \in 1..n : page[m].tag \in {"a", "/a"}}
      last == CHOOSE m \in before : \A o \in before : o =< m
  IN IF before # {} /\ page[last].tag = "a" THEN last ELSE 0
InScript(page, n) ==
  LET before == {m \in 1..n : page[m].tag \in {"script", "/script"}}
  IN before # {} /\ page[CHOOSE m \in before : \A o \in before : o =< m].tag = "script"
Number(page, n) == Cardinality({m \in 1..n : page[m].tag \in {"a", "input", "submit"}})
Meant(page) ==
  LET Cells(n) ==
        IF InScript(page, n) THEN <<>>
        ELSE CASE page[n].tag = "text" /\ page[n].ch # " " ->
                    <<[ch |-> page[n].ch, link |-> IF Opens(page, n) = 0 THEN 0 ELSE Number(page, Opens(page, n))]>>
               [] page[n].tag \in {"input", "submit"} -> [i \in 1..3 |-> [ch |-> Display[i], link |-> Number(page, n)]]
               [] page[n].tag = "li" -> <<[ch |-> "*", link |-> IF Opens(page, n) = 0 THEN 0 ELSE Number(page, Opens(page, n))]>>
               [] OTHER -> <<>>
  IN FlattenSeq([n \in DOMAIN page |-> Cells(n)])

\* Pages that it cannot read: with a comment, with a "<" that is no tag, or with
\* more links, forms or hidden fields than there is room for.
Readable(page) ==
  /\ \A n \in DOMAIN page : page[n].tag \notin {"comment", "less"}
  /\ Number(page, Len(page)) =< kMaxLinks
  /\ Cardinality({n \in DOMAIN page : page[n].tag = "form"}) =< kMaxForms
  /\ Cardinality({n \in DOMAIN page : page[n].tag = "hidden"}) =< kMaxHiddenFields

\* The document has all the text of the page, with the right links, and nothing
\* else, however the lines are broken and the two counts of columns differ
\* (browse.cpp:345-497, 999-1603).
PageShown ==
  at = "page" /\ Readable(Page(shown)) =>
    LET cells == SelectSeq(FlattenSeq(doc.lines), LAMBDA c : c.ch # " ")
        meant == Meant(Page(shown))
    IN \/ cells = meant
       \/ /\ \A n \in DOMAIN Page(shown) : Page(shown)[n].tag = "text" => Page(shown)[n].ch = " "
          /\ IsPrefix(meant, cells) /\ Len(cells) = Len(meant) + 3

\* What is marked as secure came over a verified connection, and no connection
\* is forgotten but those for which TLS could not be set up
\* (browse.cpp:763-861, 2077-2156).
SecureMark ==
  /\ at = "page" => (secure <=> Scheme(shown) = "https") /\ (secure => store = "loaded")
  /\ "used" \in open => at = "answer"

\* Following leads where the page says, and a form sends what stands in its own
\* fields, once each (browse.cpp:2158-2305).
FormOf(page, n) ==
  LET before == {m \in 1..n : page[m].tag \in {"form", "/form"}}
      last == CHOOSE m \in before : \A o \in before : o =< m
  IN IF before # {} /\ page[last].tag = "form" THEN last ELSE 0
GoesWhereMeant ==
  LET page == Page(shown)
      Of(l) == CHOOSE n \in DOMAIN page : page[n].tag \in {"a", "input", "submit"} /\ Number(page, n) = l
  IN at = "connect" /\ redirect = 0 /\ Readable(page) =>
       /\ cause[1] = "link" => page[Of(cause[2])].long \/ current \in Refers(shown, page[Of(cause[2])].ref)
       /\ cause[1] = "submit" =>
            LET form == FormOf(page, Of(cause[2]))
                mates == {n \in DOMAIN page : FormOf(page, n) = form /\ page[n].tag \in {"input", "submit", "hidden"}}
                name(n) == page[n].name
                fields == {n \in mates : name(n) # "" /\
                             CASE page[n].tag = "submit" -> n = Of(cause[2])
                               [] page[n].tag = "input" -> TRUE
                               [] OTHER -> \A m \in mates : page[m].tag = "submit" => name(m) # name(n)}
                value(n) == IF page[n].tag = "hidden" THEN page[n].value ELSE doc.links[Number(page, n)].value
                targets == IF page[form].ref.kind = "none" THEN {shown} ELSE Refers(shown, page[form].ref)
            IN ~page[form].long /\ (page[form].ref.kind # "none" \/ (shown.query = <<>> /\ shown.scheme # "none")) =>
                 /\ \E url \in targets : current.page = url.page /\ Scheme(current) = Scheme(url)
                 /\ Len(current.query) = Cardinality(fields)
                 /\ ToSet(current.query) = {<<name(n), value(n)>> : n \in fields}

\* Keys leave something of the document on the screen, unless it ends in links
\* without any text, whose lines are not part of it (browse.cpp:493-497, 1821-1853).
ViewHasText ==
  scroll < Len(doc.lines) \/ \E n \in DOMAIN doc.links : doc.links[n].line > Len(doc.lines)
=============================================================================
