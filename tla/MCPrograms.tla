------------------------------ MODULE MCPrograms -----------------------------
(* Programs, browse among them, and two drivers that do not share anything  *)
(* for TLC: one run explores each of them by itself, "part" saying which.  *)
(* The log of a service is ServiceLog's own, the others share their        *)
(* variables.                                                              *)
EXTENDS ServiceLog, Integers, SequencesExt

VARIABLES
  part,
  \* The variables of the part, in the order of its module; 0 beyond.
  s1, s2, s3, s4, s5, s6, s7, s8, s9, s10, s11, s12, s13, s14, s15, s16, s17

late == <<s15, s16, s17>>
early == <<s1, s2, s3, s4, s5, s6, s7, s8, s9, s10, s11, s12, s13, s14>>
shared == <<early, late>>

------------------------------------------------------------------------------
\* Two windows of two columns on three; presses, a release, and a
\* sweep of two events in one read.
Event(x, zone, down) == [x |-> x, zone |-> zone, down |-> down]

Batches ==
  {<<Event(0, z, TRUE)>> : z \in {"title", "body", "bar"}}
    \cup {<<Event(1, z, TRUE)>> : z \in {"title", "bar"}}
    \cup {<<Event(2, z, TRUE)>> : z \in {"title", "body"}}
    \cup {<<Event(2, "body", FALSE)>>, <<Event(0, "title", TRUE), Event(1, "title", TRUE)>>}

Desk == INSTANCE Desktop WITH
  Clients <- {1, 2}, MaxWindows <- 2, Columns <- 3, Width <- 2, MinWidth <- 2, Margin <- 2,
  MenuColumns <- {0}, EventRoom <- 1, Batches <- Batches, MaxDraws <- 1, MaxAsks <- 1,
  running <- s1, windows <- s2, next_id <- s3, menu_open <- s4, pointer <- s5,
  drag <- s6, resize <- s7, grip <- s8, pipe <- s9, events <- s10, client <- s11,
  surface <- s12, screen <- s13, bar <- s14

------------------------------------------------------------------------------
\* Four widgets: two pins, or a pin and a mixer, a mixer and a converter, with
\* up to two connections each, to one another, in cycles, and to no widget.
Widget(kind, links, score, amp, gain) ==
  [kind |-> kind, links |-> links, score |-> score, amp |-> amp, gain |-> gain]

LinksOf(n) == {<<>>} \cup {<<m>> : m \in (1..4) \ {n}} \cup {<<m, o>> : m, o \in (1..5) \ {n}}

Graphs ==
  { (1 :> Widget("pin", l1, 10, a, 2)
     @@ 2 :> Widget(k, l2, IF k = "pin" THEN 30 ELSE -1, TRUE, 1)
     @@ 3 :> Widget("mixer", l3, -1, TRUE, 3) @@ 4 :> Widget("output", <<>>, -1, TRUE, 3))
    : l1 \in LinksOf(1), l2 \in LinksOf(2), l3 \in LinksOf(3), k \in {"mixer", "pin"}, a \in BOOLEAN }

Codec == INSTANCE HdaCodec WITH
  Codecs <- 1, Nodes <- 1..4, Graphs <- Graphs,
  at <- s1, codec <- s2, widgets <- s3, pin <- s4, dac <- s5, selected <- s6,
  enabled <- s7, volume_node <- s8

------------------------------------------------------------------------------
\* The disk of the live system, one with a partition, a USB disk and one that
\* cannot be written.
Install == INSTANCE Installer WITH
  Devices <- <<"MEMDISK_0", "IDE_0", "IDE_0_0", "USBMS_0", "IDE_1">>,
  Kind <- [d \in {"MEMDISK_0", "IDE_0", "IDE_0_0", "USBMS_0", "IDE_1"} |->
            CASE d = "MEMDISK_0" -> "memdisk" [] d = "IDE_0" -> "disk" [] d = "IDE_0_0" -> "partition"
              [] d = "USBMS_0" -> "usb" [] OTHER -> "readonly"],
  Drivers <- {"e1000e", "hda"}, MaxTries <- 2,
  at <- s1, choice <- s2, fs <- s3, step <- s4, disk <- s5, loaded <- s6,
  password <- s7, report <- s8, agreed <- s9

------------------------------------------------------------------------------
\* Devices of few sectors of two entries, a word that a count makes wrap, and
\* metadata that takes a part of the device or too much of it.
Tools == INSTANCE DiskTools WITH
  Devices <- {12, 17, 24}, SectorSize <- 16, Word <- 32, MbrWord <- 16, MinDevice <- 8, EntrySectors <- 2,
  FrontSectors <- 4, RvtSize <- 14, RootSize <- 20, EntriesPerSector <- 2, MinClusters <- 1,
  Starts <- {0, 6}, Counts <- {0, 5, 28}, MetaSizes <- {90, 128}, Clusters <- {1, 2},
  Reserved <- {8}, FatCounts <- {1, 2}, MaxRuns <- 2,
  sectors <- s1, disk <- s2, at <- s3, layout <- s4, todo <- s5, fat <- s6, pass <- s7,
  runs <- s8, report <- s9, unread <- s10

------------------------------------------------------------------------------
\* A surface of one page and one of two, a ring of the blitter with room for
\* one command and the next one half, and a table of addresses that ends in the
\* window of the second surface.
Gpu == INSTANCE IntelUhd WITH
  Aperture <- 13, ScanPages <- 1, RingPages <- 1, RenderPages <- 2, BindingCount <- 2, BindingPages <- 2,
  RingDwords <- 8, CopyDwords <- 4, FillDwords <- 3, TailUnits <- {1, 2}, RenderDwords <- 3, RequestDwords <- 2,
  MapPages <- 7, Surfaces <- {"a", "b"}, SurfacePages <- [a |-> 1, b |-> 2], MaxCalls <- 3,
  at <- s1, call <- s2, g_state <- s3, bindings <- s4, ggtt <- s5, mapped <- s6, wake <- s7,
  ring <- s8, blt <- s9, rcs <- s10, alive <- s11, submitted <- s12, executed <- s13, reported <- s14

------------------------------------------------------------------------------
\* Bodies of less, as much and more than the program reads at once, and limits
\* on either side of each.
Fetch == INSTANCE Download WITH
  Bodies <- {0, 1, 3}, kIoBufferSize <- 2, kMaxRedirects <- 2, Limits <- {0, 2, 3, 4},
  at <- s1, options <- s2, redirect <- s3, meta <- s4, wire <- s5, body <- s6, remaining <- s7,
  written <- s8, output <- s9, open <- s10, odd <- s11, stored <- s12

------------------------------------------------------------------------------
\* A chord that repeats a note and needs more voices than there are, with
\* delays of no whole number of samples; groups without a delay, of which one
\* more than is allowed follows if it starts again; and a broken score.
Note(kind, channel, note, last) == [kind |-> kind, channel |-> channel, note |-> note, last |-> last]
Ticks(n) == [kind |-> "delay", ticks |-> n]
Songs == <<
  <<Note("play", 1, 5, FALSE), Note("play", 1, 6, TRUE), Ticks(1), Note("play", 1, 5, FALSE),
    Note("play", 1, 7, FALSE), Note("play", 15, 7, TRUE), Ticks(1), Note("release", 1, 5, FALSE),
    Note("off", 1, 0, TRUE), Ticks(2), [kind |-> "end"]>>,
  <<Note("play", 1, 5, TRUE), Ticks(0), Note("control", 1, 0, TRUE), Ticks(0), Note("play", 2, 5, TRUE),
    Ticks(0), [kind |-> "bad"]>> >>

Score == INSTANCE Music WITH
  Scores <- Songs, Lengths <- {1}, kMixerChannels <- 1, kMusicVoices <- 3,
  kOutputRate <- 5, kMusTicksPerSecond <- 3, kFramesPerChunk <- 2, Target <- 2, Steps <- 2,
  DrumFrames <- 1, MaxGroups <- 3,
  audio <- s1, channels <- s2, songs <- s3, g_song <- s4, cursor <- s5, until <- s6,
  remainder <- s7, voices <- s8, music <- s9, at <- s10, frame <- s11, queued <- s12,
  groups <- s13, played <- s14

------------------------------------------------------------------------------
\* Short pages of text, breaks and fields, which wrap; links of which one goes
\* over lines, one has no text, and one is too long; forms; and a page that
\* cannot be read.
Tag(t) == [tag |-> t]
Ch(c) == [tag |-> "text", ch |-> c]
Path(p) == [kind |-> "path", page |-> p]
Nowhere == [kind |-> "none"]
Anchor(ref, long) == [tag |-> "a", ref |-> ref, long |-> long]
Field(t, name, value) == [tag |-> t, name |-> name, value |-> value]
Form(get, ref) == [tag |-> "form", get |-> get, ref |-> ref, long |-> FALSE]

Tokens == {Ch("a"), Ch(" "), Anchor(Nowhere, FALSE), Tag("br"), Tag("li"), Field("input", "q", <<>>)}
Shorts == [1..3 -> {Ch("a"), Ch(" "), Field("input", "q", <<>>)}] \cup UNION {[1..n -> Tokens] : n \in 0..2}
Anchors ==
  <<Anchor(Path("form"), FALSE), Ch("a"), Ch("b"), Ch(" "), Ch("c"), Ch("d"), Tag("/a"), Tag("br"),
    Anchor(Path("x"), TRUE), Ch("e"), Tag("br"), Tag("/a"), Anchor(Nowhere, FALSE), Tag("p"), Tag("p"), Tag("p"),
    Anchor(Path("home"), FALSE), Tag("/a")>>
Forms ==
  <<Form(TRUE, Nowhere), Field("hidden", "h", <<"1">>), Field("hidden", "s", <<"1">>), Field("input", "q", <<>>),
    Tag("br"), Field("submit", "s", <<"2">>), Tag("/form"),
    Form(FALSE, Path("home")), Field("submit", "", <<>>), Tag("/form"), Field("input", "r", <<>>),
    Form(TRUE, Path("home")), Field("input", "q", <<>>), Field("submit", "", <<>>)>>
Noise ==
  <<Ch("a"), Tag("comment"), Ch("b"), Tag("comment"), Tag("script"), Ch("a"), Tag("less"), Tag("/script"), Ch("b"),
    Tag("/script"), Ch("c")>>

Web == INSTANCE Browse WITH
  Sites <- {[home |-> page] : page \in Shorts \cup {Noise}}
             \cup {[home |-> Anchors, form |-> Forms], [home |-> Forms, form |-> Anchors]},
  Typed <- {[scheme |-> "none", page |-> "home", query |-> <<>>],
            [scheme |-> "http", page |-> "home", query |-> <<<<"q", <<"x">>>>>>]},
  Inputs <- {<<"x">>}, Width <- 4, ViewRows <- 2, kMaxLinks <- 6, kMaxForms <- 3, kMaxHiddenFields <- 2,
  kMaxHistory <- 1, kMaxRedirects <- 1, MaxPairs <- 4, MaxLoads <- 1, MaxEdits <- 1,
  site <- s1, at <- s2, current <- s3, hop <- s4, redirect <- s5, open <- s6, store <- s7,
  tls_mode <- s8, secure <- s9, history <- s10, doc <- s11, scroll <- s12, selected <- s13,
  shown <- s14, cause <- s15, loads <- s16, edits <- s17

------------------------------------------------------------------------------
\* One score that ends where it starts.
Loop == INSTANCE Music WITH
  Scores <- <<<<[kind |-> "end"]>>>>, Lengths <- {1}, kMixerChannels <- 1, kMusicVoices <- 1,
  kOutputRate <- 5, kMusTicksPerSecond <- 3, kFramesPerChunk <- 1, Target <- 1, Steps <- 1,
  DrumFrames <- 1, MaxGroups <- 2,
  audio <- s1, channels <- s2, songs <- s3, g_song <- s4, cursor <- s5, until <- s6,
  remainder <- s7, voices <- s8, music <- s9, at <- s10, frame <- s11, queued <- s12,
  groups <- s13, played <- s14

------------------------------------------------------------------------------
ASSUME Score!MusicAssumption /\ Loop!MusicAssumption
ASSUME Fetch!DownloadAssumption /\ Web!BrowseAssumption
ASSUME Gpu!UhdAssumption
ASSUME Tools!DiskToolsAssumption
ASSUME Desk!DesktopAssumption /\ Install!InstallerAssumption

\* The ring of the log starts with zeroes.
Quiet == Init /\ log = [i \in Places |-> 0]

Short == s15 = 0 /\ s16 = 0 /\ s17 = 0

PartsInit ==
  \/ part = "browse" /\ Web!Init /\ Quiet
  \/ /\ part = "desktop" /\ Desk!Init /\ Quiet /\ Short
  \/ /\ part = "codec" /\ Codec!Init /\ Quiet /\ Short
     /\ s9 = 0 /\ s10 = 0 /\ s11 = 0 /\ s12 = 0 /\ s13 = 0 /\ s14 = 0
  \/ /\ part = "installer" /\ Install!Init /\ Quiet /\ Short
     /\ s10 = 0 /\ s11 = 0 /\ s12 = 0 /\ s13 = 0 /\ s14 = 0
  \/ /\ part = "disk" /\ Tools!Init /\ Quiet /\ Short
     /\ s11 = 0 /\ s12 = 0 /\ s13 = 0 /\ s14 = 0
  \/ /\ part = "graphics" /\ Gpu!Init /\ Quiet /\ Short
  \/ /\ part = "music" /\ Score!Init /\ Quiet /\ Short
  \/ /\ part = "download" /\ Fetch!Init /\ Quiet /\ Short
     /\ s13 = 0 /\ s14 = 0
  \/ /\ part = "log" /\ Quiet /\ Short
     /\ s1 = 0 /\ s2 = 0 /\ s3 = 0 /\ s4 = 0 /\ s5 = 0 /\ s6 = 0 /\ s7 = 0
     /\ s8 = 0 /\ s9 = 0 /\ s10 = 0 /\ s11 = 0 /\ s12 = 0 /\ s13 = 0 /\ s14 = 0

PartsNext ==
  \/ part = "browse" /\ Web!Next /\ UNCHANGED <<part, vars>>
  \/ part = "desktop" /\ Desk!Next /\ UNCHANGED <<part, vars, late>>
  \/ part = "codec" /\ Codec!Next /\ UNCHANGED <<part, vars, s9, s10, s11, s12, s13, s14, late>>
  \/ part = "installer" /\ Install!Next /\ UNCHANGED <<part, vars, s10, s11, s12, s13, s14, late>>
  \/ part = "disk" /\ Tools!Next /\ UNCHANGED <<part, vars, s11, s12, s13, s14, late>>
  \/ part = "graphics" /\ Gpu!Next /\ UNCHANGED <<part, vars, late>>
  \/ part = "music" /\ Score!Next /\ UNCHANGED <<part, vars, late>>
  \/ part = "download" /\ Fetch!Next /\ UNCHANGED <<part, vars, s13, s14, late>>
  \/ part = "log" /\ BoundedNext /\ UNCHANGED <<part, shared>>

PartsSpec == PartsInit /\ [][PartsNext]_<<vars, part, shared>>

------------------------------------------------------------------------------
LoopSpec ==
  /\ part = "music" /\ Loop!Init /\ Quiet /\ Short
  /\ [][Loop!Next /\ UNCHANGED <<part, vars, late>>]_<<vars, part, shared>>
  /\ WF_early(Loop!Mix)

\* An update of the sound comes to its end: the work on one frame is bounded
\* (the comment at neutrino_sound.cpp:317).
UpdateReturns == Loop!UpdateReturns

\* The screen shows the windows as they stand in the stack, focus, menu and
\* pointer included, although only what is declared damaged is painted
\* (desktop.cpp:781-891, 1032-1165, 1379-1392).  The browser shows the text of the
\* page with its links, marks as secure what is, and links and forms lead where
\* the page on the screen says (browse.cpp:338-497, 763-861, 999-1603, 2077-2521).
ScreenShowsScene ==
  /\ part = "desktop" => Desk!TypeOK /\ Desk!ScreenShowsScene
  /\ part = "browse" =>
       Web!TypeOK /\ Web!PageShown /\ Web!SecureMark /\ Web!GoesWhereMeant /\ Web!ViewHasText

\* The widgets from the pin to the converter are a path of the graph, selected
\* and open, of the best pin that has one, and the volume is set on that path
\* (hda.cpp:208-288, 315-361).  A score is played in time, over pauses, chunks
\* and repetitions; what sounds is what it holds, once for each note, whatever
\* voices are taken for others (neutrino_sound.cpp:252-460).
SoundAsMeant ==
  /\ part = "codec" => Codec!RouteWorks
  /\ part = "music" => Score!TypeOK /\ Score!OnTime /\ Score!NoNoteHangs /\ Score!OpenWhileUsed

\* A disk that is reported as installed has all that it needs to start, of one
\* installation, and no disk is touched that the user did not agree to erase,
\* after retries, failures and choices taken back (installer.cpp:1690-2013).
\* What mkpart, mkneufs or mkfat reports as made is whole, whatever runs before
\* it left; it fits the device, and nothing is written where data may be
\* (mkpart.cpp:344-367, mkneufs.cpp:406-580, mkfat.cpp:260-313).  What download
\* reports as fetched is the body that the server sent, in any framing and up
\* to the limit, on the disk if the file system put it there, and a failure leaves
\* no part of it (download.cpp:1014-1292).
FilesAsReported ==
  /\ part = "installer" => Install!TypeOK /\ Install!InstalledIsWhole /\ Install!OnlyAgreed
  /\ part = "disk" => Tools!TypeOK /\ Tools!LayoutsFit /\ Tools!MadeIsWhole
  /\ part = "download" => Fetch!TypeOK /\ Fetch!ReportedIsWhole /\ Fetch!NothingLeft

\* The engines of the graphics device find what the driver means them to use:
\* addresses are not mapped away, commands are carried out in order and once,
\* the context is written at rest, and registers are used while the engine is
\* awake, over timeouts, full tables and rings that wrap
\* (intel_uhd.cpp:657-841, 1349-1705).
GpuSafe ==
  part = "graphics" =>
    Gpu!TablesHold /\ Gpu!CommandsOnce /\ Gpu!ContextAtRest /\ Gpu!AwakeWhenUsed
=============================================================================
