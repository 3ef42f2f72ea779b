# A verification of the NeutrinoOS packages

The repository is the user space of NeutrinoOS: the first process and its
services, the network daemons, the package manager, a desktop, user-mode
drivers and programs. The kernel is not in it; what it does is taken from how
the code here uses it (`userspace-support/crt/syscall.hpp`). This directory
holds TLA+ specifications of the parts with state and control of their own,
their TLC configurations, and proofs for TLAPS. `PROJECT.json` says which lines
each definition stands for, what each run checks, which hazards of the code
the properties are for, and a mutation of the model that each property
catches.

## Inventory

Every process is single-threaded, except init, whose login thread runs beside
its service manager thread. Drivers are called by the kernel, which may call
them from a worker and from the network stack. Processes interact through
pipes that are found by name in the kernel's service registry (request pipes
of servers, one reply pipe per client), through process events, shared memory
(windows) and the file system.

| Part | State | Operations | Interacts with | What is hard | What makes it correct |
|---|---|---|---|---|---|
| Service manager, `init.cpp` | table of 24 services: pid, desired, restart request, budget, log pipe and ring | boot, start (recursive on `after`), stop, restart, reap, policy, logs | kernel process table; control channel | deaths between any two steps; a kill that takes effect later; reused pids; a loop inside the reaper | a pid in the table is a child of that service only; nobody unwanted keeps running; crash loops end; the manager gets back to its pipe |
| Service control channel, `service.cpp`, `service_protocol.hpp`, `init.cpp` | list of 32 announcements; one request pipe; a reply pipe per client | announce, send, authorize, execute, reply | `service`, kernel events | two channels with an order between them; a client that ends half way; a full list | a request is lost by overflow only, carried out once, and answered |
| Principals and login, `init.cpp` | table of principals, user store | look up, log in, run a shell | service manager thread, userctl | two threads fill one table without a lock | who gets a shell is who he says, with his own principal |
| tcpd, `tcpd.cpp` | listeners, pending connects, client ports, slots, sequence numbers | listen, connect, bind response, segments, acknowledgements, SYN timer, close | networkd, applications | a bind in flight; a crash with messages in flight; shared handles; loss, repetition, wrap | one answer to each request; tables agree with networkd's; each direction is a byte stream |
| networkd, `networkd.cpp` | 16 bindings, 16 hardware addresses, 8 pending pings | bind, unbind, send, ping, receive, look up | device, tcpd, dhcp, applications | a lookup polls the device inside a request; full pipes; handles on error paths | packets go where their next hop is; handles have one owner; requests are served |
| dhcp, `dhcp.cpp` | phase of the attempt, offer, lease | static settings, bind, discover, request, retry | networkd, device, `netctl set-ip` | late answers of earlier attempts, several servers, restarts | the address in use is held by a server; the client gets one in the end |
| Names, `userspace-support/net/dns.hpp` | a context per resolution | bind a port, ask, wait, give the port back | networkd | answers late for the question, the attempt or the program | the address is that of the host asked for; ports come back |
| libnet, httpserver, netshell | connections, slots, sessions | connect, accept, read, write, serve, log in | tcpd, kernel endpoints | partial reads, full pipes, clients that leave | answers are whole and one's own; everyone is served |
| neupak, `neupak.cpp`, `download.cpp` | lock file, two databases, indexes, cache, files | install with dependencies, uninstall, update-index, fetch | other neupak processes through the file system; servers | checks before the lock; crashes between two databases; four passes over one archive | what is recorded is there and from the archive meant; packages do not destroy each other |
| installer, mkpart, mkneufs, mkfat | answers, steps, layouts | plan, format, copy | disks | partial failure, arithmetic | what is reported as made is whole |
| e1000e, virtio-net, intel-hda, intel-uhd | descriptor rings, a cyclic buffer, a table of addresses | set up, send, receive, play, render | devices | two owners of a ring; indices that wrap; devices that fail half way | memory is given back when no device uses it; frames and samples in order, once |
| desktop, shell, write, sheet, solitaire, browse, doom's sound | windows, lines, documents, boards, pages, voices | keys and events | clients, files, console | long sequences of legal keys | the screen tells the truth; no work is lost |
| netctl, ping, tcpecho, netget, terminal, coreutils, listings | little | clients of the above | daemons | | |

Third-party ports (doom's game, bearssl, ffmpeg, openjdk, sdl2) and packages
that hold only configuration have no logic of this project's own. A third of
the lines of the repository that look like code are copies of two headers,
`syscall.hpp` and `descriptors.hpp`, one in each package.

## Plan

In the order of how much else rests on a part; all are modelled and checked.

| | Modules | Proved | Open for proofs |
|---|---|---|---|
| 1 | ServiceManager | all its safety properties | - |
| 2 | TcpPorts: tcpd composed with the bindings of networkd | all its safety properties | - |
| 3 | ByteStream (abstract), TcpStream | that it implements ByteStream; that both ends agree | - |
| 4 | ServiceControl, ServiceLog | all their safety properties | - |
| 5 | Networkd | all its safety properties | - |
| 6 | Dhcp | all its safety properties | - |
| 7 | Neupak, Archive | all safety properties of Neupak | `InstalledAsVerified` of Archive |
| 8 | LinkFrames (abstract), E1000e, VirtioNet, Hda, HdaCodec, IntelUhd | that both network drivers implement LinkFrames; all safety properties of E1000e, VirtioNet and Hda | `GpuSafe` of IntelUhd |
| 9 | Login, NetShell, HttpServer, LibNet, Resolver | all safety properties of Resolver and Login | `SlotsTrue` of NetShell and HttpServer |
| 10 | DiskTools, Installer, Download | layouts of mkpart, mkfat, mkneufs | |
| 11 | Solitaire, Desktop, Shell, Writer, Sheet, Music, Browse | all safety properties of Solitaire | `WorkIsSaved` of Writer and Sheet |

## The modules and the code

Modules of a part have the names of the source for their state and actions
where TLA+ allows it. Everything marked external in `PROJECT.json` (devices,
servers, users, the kernel) does what it likes within what the code relies on.

### Services

**ServiceManager** (`init.cpp` 785-1190). One action per step of the manager's
loop and one per outcome of a frame of `start_service()`; its recursion on
`after` is the variable `stack`, so that a process may die between two frames.
`pid`, `desired`, `restartReq`, `completed`, `starts` and `logOpen` are the
fields of `Service`; `starts` saturates where the code only compares it.
`proc` is the kernel's process table: a process exits with 0 or 1 at any time,
and a kill takes effect later, with the exit code 0 that `process_control()`
has by default. Reading service files is abstracted to the table entries it
can produce.

**ServiceControl** (`service.cpp`, `service_protocol.hpp`, `init.cpp`
1035-1131). `service` announces a request with a process event, writes it to
the control pipe and reads the reply from a pipe of its own. `Manager` takes a
request, reads events until it meets the announcement, executes, and writes
the reply in pieces, which may fail once the client is dead. `pending` is
`g_pending_authorizations`.

**ServiceLog** (`init.cpp` 823-834, 1063-1072). The ring and the text of
`service logs`, against the sequence of everything the service wrote.

**Login** (`init.cpp` 190-280, 354-690, 1192-1217, `userctl.cpp` 306-402). Two
threads ask for the principal of a user and fill one table in the three writes
of `cache_principal()`; the store of users follows the kernel's accounts, is
gone, or cannot be read.

### Network

**TcpPorts** (`tcpd.cpp`, with `networkd.cpp` 387-404 and 489-557). Requests
of applications, listeners, pending connects, cached client ports, connection
slots, the two pipes between tcpd and networkd, and networkd's bindings. A
crash of tcpd clears its tables and leaves what is in the pipes and networkd's
bindings of a pipe that is gone. Segments are their effect on a slot: SYN,
established, reset, close. `configured` is what `load_ipv4_config()` finds, and
may change at any time: without a configuration a connect begins nothing, no SYN
is answered, and the deadline of a slot that waits for a SYN+ACK only moves on
(`Counts`). A reply pipe that does not open drops the request (`Dropped`).

**ByteStream** and **TcpStream** (`tcpd.cpp` 364-403, 683-895, 1001-1037,
1091-1386). ByteStream is what a connection promises; TcpStream is one
connection between two tcpd over a network that keeps every segment ever sent
and delivers any of them at any time, so that loss, repetition and reordering
need no actions of their own. Sequence numbers are modulo `W`.
`Stream == INSTANCE ByteStream` maps `wire`, `got`, `fin` and `ended` to
themselves: the promise is about what tcpd gave to the wire and handed over.

**Networkd** (`networkd.cpp` 174-974). One loop that reads the server pipe or
the device. A lookup of a hardware address (`job`) polls the device inside the
request: the loop's other branch is off meanwhile. `handles` counts the write
handles networkd has open to each application's pipe; `said`, `heard`,
`missed` and `misdirected` are history.

**Dhcp** (`dhcp.cpp` 203-822, `netctl.cpp` 605-670, `networkd.cpp` 829-850).
The program counter of the client, its pipe, the interface, messages both ways
and what each server holds. All attempts have one transaction number, so a
late answer is as good as a fresh one.

**Resolver** (`dns.hpp`, `networkd.cpp` 490-566). Programs that bind the first
free port from `kFirstEphemeralPort` on, ask up to three times and give the
port back; every wait is a number of turns and may end early. A pipe is its
process and the number of its context, since a name may be used again.

**LibNet** (`net.cpp` 29-386, `http_client.cpp` 66-131, `tcpd_protocol.hpp`
84-202 and the side of `tcpd.cpp` that reads and writes these pipes). One
application that connects, listens and accepts, or asks for the lease, over
pipes of `PipeSize` messages. A message larger than the room is not cut: the
writer waits.

**HttpServer** (`httpserver.cpp`, `net.cpp` 204-232): slots, requests in any
cuts, answers to clients that read when they like, a file that changes while
it is sent. **NetShell** (`netshell.cpp` 99-1152): the negotiation of Telnet
options byte by byte, the login, the hand-over to the shell.

**Browse** (`browse.cpp`, `http.cpp` 172-366): the layout of a page from its
tokens, links, forms and fields; loading over redirections and TLS; every key;
the history.

### Packages and disks

**Neupak** (`neupak.cpp`). Processes that install and uninstall, one action
per step that another process or a crash can come between: the checks before
the lock, the creation of the lock file, its stamp, taking over a stale one,
reading the databases, each file copied or erased, the removal and the writing
of each database, the release. A file is the package and version it was copied
from; version 0 is a torn one. **Archive** (`neupak.cpp` 243-2877) is the same
command seen from the index and the archive: lookup, download into the cache,
checksum, manifest, and three passes of which only two are under the lock.

**Download** (`download.cpp`, `http.cpp` 368-438): redirections, framings,
limits, the `file_sync()` whose result is not looked at, and the exit code that
neupak believes. **Installer**
(`installer.cpp`): questions and steps, each of which may fail. **DiskTools**
(`mkpart.cpp`, `mkneufs.cpp`, `mkfat.cpp`): layouts with 64-bit arithmetic
modulo `Word` and the fields of an MBR below `MbrWord`, checks of what a device
holds, writes that may fail anywhere. A check whose read fails says what the code
says then: a layout for the first sector of mkpart, none for its second and for
the first of the others, so that these go on over what is there (`unread`).

### Drivers

**LinkFrames** is what the network stack may expect of a driver: frames each
once and in order, but for damaged ones, which are discarded. **E1000e**
(`e1000e.cpp` 294-1416) and **VirtioNet** (`virtio_net.cpp` 106-776) are
checked and proved to implement it. The device owns a descriptor until it says so, reads
ahead and writes back when it likes; a candidate device may fail at each step
of its set-up. **Hda** (`hda.cpp` 405-740) is the cyclic playback buffer, and
**HdaCodec** (57-484) the search for a route through the graph of a codec.
**IntelUhd** (`intel_uhd.cpp`) has the table of graphics addresses, the ring of
the blitter and the context of the render engine. The blitter takes its tail in
dwords, as the driver writes and compares it, or in pairs of them, as the driver's
mask has it: `unit` is either, for a whole behaviour.

### Programs

**Desktop** (`desktop.cpp`, `compositor.hpp`) in one dimension, with its
clients. **Shell** (`shell.cpp` 228-986), **Writer** (`write.cpp`), **Sheet**
(`sheet.cpp`), **Solitaire** (`solitaire/src/main.cpp`): one action per key or
command. Writer and Sheet handle up to `kEvents` keys between two renderings, as
one read brings them, and the user sees only what is rendered. The shell's
`setcwd()` and `getcwd()` may fail wherever they are called. **Music** (`doom/src/neutrino_sound.cpp`): effects and a score, mixed
into chunks for a device that may refuse them.


## Runs

| Run | Question | Parts |
|---|---|---|
| `supervisor_safety` | does the service table follow the process table under every interleaving? | ServiceManager |
| `supervision` | are requests announced, carried out once and answered; does the manager get back to its pipe, and is an accepted restart carried out? | `control`: ServiceControl; `table`: ServiceManager |
| `tcp_ports` | one answer each, no closed handle, tables that agree, unique tuples, also over a crash? | TcpPorts |
| `tcp_cached` | (finding) is a cached port used when no port can be bound? | TcpPorts |
| `transport` | are both directions of a connection byte streams; is the address in use held by a server, and does the client get one? | `stream`: TcpStream; `lease`: Dhcp |
| `dhcp_static` | (finding) does a static configuration that set-ip reported stay? | Dhcp |
| `neupak` | does what is recorded hold, with crashes and concurrent commands, and is it what the archive held? | `databases`: Neupak; `archive`: Archive |
| `networkd` | do packets go to their next hop, is an answer ever missed, have handles owners; is everyone served, and only who may be? | `lookups`, `services`: Networkd; `netshell`, `httpserver`, `login`, `libnet` |
| `devices` | do drivers keep their rings and give each frame and sample once? | `e1000e`, `virtio-net`, `hda` |
| `programs` | is what is shown, played or reported so? | `desktop`, `browse`, `codec`, `music`, `installer`, `disk`, `download`, `graphics`, `log` |
| `music_empty_loop` | (finding) is the work of one update bounded? | Music |
| `applications` | is work kept, are boards legal, are names those asked for? | `shell`, `writer`, `sheet`, `solitaire`, `names` |

A run with parts explores each by itself: the variable `part` (`which` of the
devices, `scene` of networkd) says which one a behaviour is of, and the
variables of the others stay as they were. Parts that never exist at one time
share variables with neutral names (`s1`, `l1`), which the INSTANCE statement
of the MC module gives to the module's own; the parts that are proved about
have constants and variables of their own. An invariant
of such a run is the conjunction of what its parts promise.

### Bounds, and why the interesting cases are within them

- `supervisor_safety`: two services are the least that have a dependency, a
  cycle, and a dependent that starts while its dependency dies; the recursion is
  cut off at `MaxServices` as in the code. Three pids for two services and a
  foreign child make a pid come back while its old status is still to be
  reaped. The budget of two automatic starts is used up, reset and used up
  again.
- `supervision`: three clients are the least that make a list of one overflow:
  one asks, two announcements are read before its own. A reply has two pieces,
  so that the client may die between them. `MaxOthers` lets an event of another
  kind stand before an announcement.
- `tcp_ports`: two ephemeral ports, two client ports, two peers and three
  requests make a port bound, cached, used again, refused towards the same peer
  and lost in a crash. Two retries of a SYN tell a count from a flag, and the
  configuration may go and come back at any time. A
  second port to listen on meets a full table of listeners, and after a crash
  three bindings for four ports a full table of networkd.
- `stream`: W is 64 and the two sides begin 1 and 4 below it, so that the SYN
  or the first chunk of five numbers wraps; two chunks each way and one SYN
  sent again. The theorems hold for every W and number of chunks.
- `lease`, `databases`, `archive`: `MaxTroubles` counts whatever goes wrong, of
  any kinds. Two of them meet in every order, as a lost message and a late
  answer, or a crash and a lock that grows old.
- `networkd`: two hosts that move between two hardware addresses, one of them a
  gateway in one configuration; two applications, a UDP and a TCP port but one
  binding, two pings with one number, pipes of one message, one death. One
  table entry per host: the code has 16. `Turns` is 5000 in the code and 2
  here: the last turn and one before it.
- `e1000e`, `virtio-net`: two candidate devices, so that a set-up that fails
  is followed by one that works; rings of 3 and 2 descriptors, indices that
  wrap at 4, four frames and two or four sends: more than a ring holds. `hda`:
  five samples around a ring of five pages of two with a guard.
- `netshell`, `httpserver`: two clients for one slot. `login`: three users and
  two slots, two starts of services, two logins, one change of the accounts.
  `libnet`: pipes of one message, two calls, one trouble.
- `codec`: every graph of four widgets. `disk`: devices of 12, 17 and 24
  sectors and words of 32, so that sums overflow. `installer`: five devices, of
  which one is the live system's, and two tries. `graphics`: a ring of eight
  dwords, which copies of four fill to its end and fills of three end within a
  pair of, both units of the tail, three calls, and an aperture of 13 pages. `download`: bodies of 0, 1 and 3 units,
  at, below and above the limit. `music`: two scores with effects over them.
- `browse`: a window four characters wide; every page of up to three tokens,
  and longer ones for links, forms and text that is no text.
- `shell`: lines of up to two letters, two places; `writer`: two columns and two
  rows; `sheet`: two by two cells; both take two keys in one read, of the eight of
  the code: the two that quit, or the first and one that covers its warning; `solitaire`: three suits of three cards on three
  columns; `names`: two programs, two ports and bindings, two attempts.

Deadlock is checked in `supervisor_safety`, whose system never stops. In the
others requests, frames or keys are bounded, and a system that has served them
all stops. Symmetry is used in `supervisor_safety` (pids), `tcp_cached`
(requests) and `neupak` (processes): no definition tells them apart. Runs with
liveness properties use none.

### Fairness

- ServiceManager: weak fairness of the manager thread, which is never blocked
  for long, and of each kill, which the kernel carries out. Nothing obliges a
  service to end by itself.
- ServiceControl: weak fairness of the manager and of each living client's
  read of its reply; a client may die instead and is not obliged to send.
- TcpPorts: weak fairness of what tcpd and networkd do by themselves, reading
  their pipes and the SYN timer, which supposes that `time_get()` does not fail
  for ever (555-557). Nothing obliges a peer to answer, nor a configuration to be
  there: that it comes and stays is a premise of the property.
- Dhcp: weak fairness of the client, of the link coming back and of each
  message being served or delivered. Troubles are bounded: a network that
  always loses keeps everybody from an address.
- Networkd: weak fairness of the loop and of each living application reading
  its pipe. Frames are bounded in the run; `poll_network()` goes on until the
  device has no more, so a device that is never empty would keep it there.
- E1000e: weak fairness of the set-up and of the interrupt's service. VirtioNet:
  weak fairness of the worker and of a sender that has begun, strong fairness
  of the poll, which the kernel's timer comes back to although the stack may be
  sending each time. Hda: weak fairness of the device playing and of the caller
  who holds the stream.
- NetShell, HttpServer: weak fairness of the server's loop and of clients that
  stay. LibNet: weak fairness of the application, tcpd and the far end.
- Music: weak fairness of the mixer, within one update.

## What the properties say

`supervisor_safety`: `PidsOwned` (a pid in the table is an unreaped child and
belongs to one service, though pids are reused), `UnwantedIsEnding` (what was
stopped or is being replaced is on its way out), `LogReaderKept` (a log pipe
is not overwritten with output in it), `CrashLoopBounded`, `DependencyFirst`,
`StoppedStaysStopped`.

`supervision`: `RequestsPairOff` (`DroppedWereEvicted`: only an overflow drops
a request; `AnnouncementsAreUsedUp`: one announcement, one request),
`Answered`, `ManagerAttends`, `RestartHonoured`.

`tcp_ports`: `RepliesSafe` (`AnsweredOnce`; `HandlesOpen`: no write through a
closed handle; `ResponsesOwned`: a bind response finds who waits for it),
`PortsTied` (the three tables of tcpd and the bindings of networkd agree),
`TupleUnique`, `ConnectAnswered`.

`transport`: `EndsAgree` (`SidesAgree`: the two sides' numbers differ by what
is on its way; `WholeBeforeEof`: an end of stream follows all that was
written), `ByteStreams` (the refinement), `LeaseHeld`, `Addressed`.

`neupak`: `FilesAsRecorded` (`RecordedIsThere`: what is recorded is on the disk;
`NothingOverwritten`: nothing of another package is), `DatabasesConsistent`
(`DatabasesAgree`: both databases know the same packages;
`DependenciesInstalled`), `ArchivesTrue` (what is installed is what was
verified, with what it needs, and there is a kernel to start from).

`networkd`: `NotMisdirected`, `NoAnswerMissed`, `HandlesOwned`,
`RequestsServed`; of the servers, the login and libnet `SessionsJust` (who gets
a shell is who he says, answers are whole and one's own, nothing stays open)
and `Attended` (who asks is served, if those who stay go on).

`devices`: `FramesInOrder` (both drivers implement LinkFrames),
`DeviceMemorySafe` (no descriptor and no page has two owners, rings are as the
device expects them), `HeardInOrder` (samples are heard once and in order,
silence between), `DevicesServed`.

`programs`: `ScreenShowsScene`, `SoundAsMeant`, `FilesAsReported`, `GpuSafe`,
`Recent`. `applications`: `WorkNotLost`, `KeysDoOneThing`, `BoardsLegal`,
`NamesJust`. What each asks of its parts stands above it in the MC module.

### Conditions

Some are conditional. Each condition is a state of the model that TLC reaches,
and without it TLC finds the code breaking the property:

- Neupak's say nothing once the lock of a process at work was taken from it
  (`robbed`). The code lets that happen without any failure: the lock file is
  empty until its time is written (`neupak.cpp` 1711-1713), an empty one is
  stale (1668), and then two processes change the databases.
- `RecordedIsThere` leaves out packages whose last change a failure or a crash
  cut short (`damaged`): the code repairs nothing. `DatabasesAgree` leaves out
  databases whose writing was cut short (`cut`), `DependenciesInstalled` an
  uninstall that could not read the indexes (`blind`), and `NothingOverwritten`
  what `--force-overwrite` was told to take (`shared`). In Archive apart are
  packages whose archive or manifest another process replaced between two
  passes (`plain` is for the others), archives with entries of two sizes
  (`Even` excludes them), changes that were cut short, and a torn kernel that
  was kept as the previous one (`buried`).
- `LeaseHeld` leaves out that an attempt was given up with messages on their way
  (`stale`): the client compares neither the transaction nor the address of a
  late acknowledgement. `Addressed` excepts a client that was killed: networkd
  keeps the port of the dead one, and the next client ends with code 37.
- `ConnectAnswered` excepts a request that waits for a bind that networkd
  dropped without a word because its table was full (`NoBindingFor`). It speaks of
  interfaces that keep a configuration from some time on: while there is none the
  SYN timer counts nothing (`tcpd.cpp` 597-600), and the connect waits for ever.
- VirtioNet is checked with `Serialised`: the kernel does not call poll() and
  transmit() at one time. Without it two owners take one descriptor
  (`virtio_net.cpp` 469). Hda is checked with `Prompt`: somebody looks at the
  device before it has played past what was cleared behind the queue.
- Login's properties end when both threads fill one place of the table
  (`overlapped`). In DiskTools a count that makes the sum with the start wrap
  passes the check of a GPT; `PartitionFits` says that the partition then has no
  sectors. An MBR may stand before the header of a GPT that the check could not
  read (`unread`). Download: a file that was not put on the disk is reported as
  complete all the same (`unsynced`), and a long line of a chunk is split
  (`split`).
- IntelUhd: a command whose wait was given up may end on pages that were freed
  since (`late`). Where the tail counts pairs, a fill that ends within one is
  reported before it is carried out (`HeldBack`), and lost if the ring starts anew
  then (`Lost`); after a tail exactly at the ring's end the commands in it run
  again, and no call reports success any more (`Overrun`). HttpServer: a client whose file changed while it was sent, or
  who found no free slot (`excused`). Writer and Sheet (`lossy`): documents of
  which loading or saving left something out, and those that were clean when a
  save failed; and a second Ctrl+Q that came before the warning of the first was
  rendered, in the same read, or after another message took its place
  (`warning`): who quits with changes was otherwise shown the warning for these.
- Shell: since a `getcwd()` that failed after cd, or a `setcwd()` at the start,
  the prompt names the place that programs are given, and cd and completion
  start from another (`adrift`).
- Resolver: two questions of one program with the same number (`twins`), and
  pipes whose owner stopped waiting for a bind or died (`given_up`).
- LibNet: `CircleWasEarly` says of the circular wait in which application and
  tcpd both write that it needs an answer that came `early`.
- Browse: only tokens the browser can read (`Readable`), tags that fit its
  buffer, and addresses with a scheme; see below.

### Behaviour worth knowing

What the models do because the code does, and no comment or test disagrees:

- write: a failed save removes the file before it makes a new one, so a clean
  document whose save failed has no file, and nothing is marked as changed;
  writes of line ends are not checked. sheet: cancelling the first letter typed
  into a cell leaves the letter there without a mark; a comma in a cell splits
  it when the file is read back.
- browse: `<!-- text -->` swallows the page up to the next comment's end, and
  `<` in a script the end tag of it; tags beyond 95 bytes are cut, so their links
  lead elsewhere; a form without action goes to the old query; a shorter value
  of a field shows the rest of the longer one; a full history drops the newest
  page; a TLS set-up that fails leaves the connection open.
- neupak: a local archive cut between two entries installs those before; names
  in manifest and index are not compared; the temporary manifest and the cache
  are shared without the lock; a torn kernel becomes the "previous" one.
- libnet: `http::post` sends no Content-Length; a connect that was given up
  leaves its connection in tcpd; a CloseRequest without an IPv4 configuration
  is dropped.
- networkd with fewer table entries than hosts overwrites an answer before the
  lookup sees it: with 16 entries, that takes 17 hosts. The theorem about
  `NoAnswerMissed` has this as its hypothesis.

## Proofs

Every theorem holds for all values of the constants that the assumption of its
module allows: any number of services, pids, clients, ports, hosts, any size of
the tables, any length of a stream.

- **ServiceManagerProofs** (`ManagerAssumption`). Types; then ownership, where
  `PidsOwned` needs `UnwantedIsEnding` with it, since a pid may be reused only
  when it was reaped; then the frames of `start_service()`: `FramesWait` says
  that every outer frame waits for exactly the frame inside it and that its
  service has no process, `ReturnedUp` that a return value tells the truth
  about the table. `DependencyFirst` follows, for any depth of the recursion.
  `CrashLoopBounded` needs `BudgetLeft`: while a relaunch by the policy is on
  its way, no inner frame can have launched the same service.
  `StoppedStaysStopped` follows from `WantedWasAsked`, `LogReaderKept` from
  `ReadersClosed`.
- **TcpPortsProofs** (`PortsAssumption`). Types with `Shaped`, that a used slot
  names a port, a peer and a request. `PortsTied` needs `AckedPorts`, that a
  good response on its way is about a port bound to this tcpd, and `Waiting`,
  that a pending connect names a peer. `RepliesSafe` needs that each request
  has one place: `Uses` counts the listeners, pending connects, slots and
  messages that hold its handle, `OneMessage` and `MessagesAwaited` tie each
  bind that is under way to the one who waits for it. `TupleUnique` and
  `RepliesSafe` are proved for ports to listen on that are not ephemeral
  (`Disjoint`, a hypothesis): the code does not keep an application from
  listening on an ephemeral port.
- **StreamProofs** (`StreamAssumption`). That TcpStream implements
  ByteStream, step by step, and that its ends agree, if a connection carries
  less than one turn of the sequence numbers (`NumbersSuffice`, a hypothesis:
  `tcpd.cpp` compares numbers for equality, and TCP keeps an old segment apart
  by its lifetime, which the model does not have). `Numbers` places every
  number of a side in the count of what it sent, `Carried` says that a segment
  that was ever sent holds the chunk of its number, and `Whole` that an end of
  stream was sent behind all chunks. The arithmetic of remainders is in the
  lemmas `ModIs`, `ModSum`, `ModNear` and `ModDiff`; `NextSegment` concludes
  that a segment with the number expected is the very next one. Dhcp
  (`DhcpAssumption`) is here too: `LeaseHeld` needs `OneAttempt`, that while no
  attempt was given up with messages on their way all requests are for the
  present offer and whoever acknowledges it holds its address, and `Port68`,
  that a client that was killed never hears an answer again. `LeaseStaysHeld`
  states it of the run's own specification.
- **ServiceControl** (`ControlAssumption`; the proofs are at the end of the
  module). `IInv` says of each client
  where its announcement is: on its way, in the list or evicted (`Paired`), in
  one place only (`Unique`), and nowhere once it is used up (`UsedUp`).
- **ProgramsProofs** has the theorems of the drivers, of ServiceLog, DiskTools
  and Login. `MemoryIsSafe`, `FramesAreInOrder` and `HeardAsWritten` are about
  the run's own specification; `StepOfEach` gives each driver its part of it.
  - VirtioNet (`VirtioAssumption`) and E1000e (`E1000eAssumption`): `VirtioInv`
    says of each descriptor who has it, the driver, the device or a step under
    way; `DmaInv` that a device that may write to memory has its pages, and
    `ServiceInv` that the driver is called only for the one it keeps.
    `ReceiveRing` and
    `TransmitRing` view the rings as sequences, which is what LinkFrames has:
    each step of a driver is then a step of LinkFrames, or none. The condition of
    VirtioNet, `Serialised`, is a hypothesis.
  - Hda (`HdaAssumption`, hypothesis `Prompt`): `SoundInv`. `PlayPlaces` is where
    in the cyclic buffer the driver will write, `PlaySilence` that the cells
    behind the queue are silent, `PlayQueue` that what is queued is newer than
    what was heard and in order, and `PlayDue` that `due` is what is left of the
    queue. Both positions are remainders: the lemmas on them come first.
  - ServiceLog (`LogAssumption`): `Kept` relates each place of the ring to the
    byte written that long ago; `Recent` follows with a lemma on `SubSeq`. The
    ring's remainders are resolved in the lemma `Round`.
  - DiskTools (`DiskToolsAssumption`): where the sectors of a partition are, for
    every device, start and count, with sums that wrap at `Word`: between the tables
    and as many as were asked for, or none where the sum wraps, which an MBR keeps
    out (`WrapOnce`: it wraps once at most, to a last sector before the start); that
    the loop in which mkfat sizes its table comes to a fixed point, and that the structures of
    NEUFS follow one another.
  - Login (`LoginAssumption`): `OwnPlaces` says that a place that a thread fills,
    or that nobody has, holds no principal, so that `find_cached_principal()`
    never finds half an entry; `Typed` that what was read of the store and typed
    goes with the shell that is on its way; `Accounts` that root is made up on a
    first boot only.
- **NetworkdProofs** (`NetworkdAssumption`). `Latest`: a host has one entry,
  with the address that it announced last, whatever the table overwrites; from
  it `NotMisdirected`. `NoAnswerMissed` needs a table that holds every host
  (`TableHoldsHosts`, a hypothesis; see above for what happens without it).
  `HandlesOwned` is a count: opening a handle, a reply, a reply that comes
  twice and a full table change the handles, the bindings and the pending
  pings by one each, which the lemmas on cardinalities carry.
- **NeupakProofs** (`NeupakAssumption`, `QueueAssumption`). Neither property is
  inductive, since a command writes its two databases one after the other, with
  the files copied or erased before. `Plan` says of a process at work how far it
  is: what its own copies of the databases are to those on the disk (`Written`),
  which of the files of its package are in place (`Placed`), that no other
  package has a claim on the paths it still works on (`Mine`), and that the
  copies, once written, will satisfy the properties. `Clear` is what
  `check_conflicts()` is for: the records share no path, and no path of theirs
  holds a file of another package, but for libraries and what was shared by
  force. `Alone` says that whoever is at work holds the
  lock, so that no two plans are under way; all of this holds while the lock was
  taken from nobody at work (`~robbed`; see the conditions above). Crashes are
  steps of the theorems too; `damaged`, `cut` and `blind` leave out what the runs
  leave out. `QueueAssumption` says that the dependencies have
  no cycle, on which the recursion of the code would not end: that it then comes
  to a queue is an induction over data. TLC evaluates it on the run.
- **ApplicationsProofs** has the theorems of Resolver and of Solitaire.
  For Resolver (`ResolverAssumption`) `Engaged` says of each program with
  an open context what its pipe means elsewhere: at most one bind is under way,
  for the present candidate and without effect yet (`BindsWait`); a response to
  the present candidate tells the truth (`ResponsesTrue`); no other port is
  bound to it, and its owner knows of that one or will read of it (`HoldsOne`);
  no unbind is on its way (`NoUnbind`). That an unbind finds the port still
  bound to its sender (`Unbinding`) is what keeps `PortsHeld`: networkd looks at
  the port of an unbind and not at who sends it. `Past` keeps the pipes of a
  new context apart from those of earlier ones, `GivenBack` is `PortsGivenBack`
  with the port, and `Unmistaken` says that nothing on its way that a listener
  would take for its answer is about another host.
  For Solitaire (`SolitaireAssumption`: a deck has each card once and enough of
  them for the columns) `BoardInv` says that the game is a sequence of legal
  boards, each of which follows from the one before it (`IsGame`), and
  `LegalBoard` is what the properties say of one board, with the types. Every
  move takes cards from the end of one pile to another, in their order
  (`MovedOnce`) or all of them in reverse (`TurnedOnce`), so that each card stays
  once; `RunTaken` and `RunPlaced` are about what such a move leaves of a column
  and makes of one, `DrawnTalon`, `TurnedTalon` and `PlayedTalon` about the order
  of the talon. `DealIsLegal` needs where a card of the deck comes to lie, which is
  the arithmetic of `DealtGrows`. `BoardsStayLegal` is about the run's own
  specification.

Only model-checked: the liveness properties and `ENABLED`, which are out of the
prover's reach here, and what recursion over data computes (the layouts of
browse, the mixing of music, the search of HdaCodec); the invariants of
Archive, of the servers (NetShell, HttpServer, LibNet) and of the programs
(Desktop, Shell, Writer, Sheet, Installer, Download), and of the
graphics driver.

## Findings

- `tcp_cached`: after eight connects, each with a port of its own, every
  further one is refused although cached ports are idle. A free ephemeral port
  always exists, so `choose_client_port()` never comes to the reuse that
  `tcpd.cpp:667-669` speaks of, and no entry is left to bind the free one with.
- `dhcp_static`: `netctl set-ip` during an attempt reports that the address was
  applied and saved, and the acknowledgement replaces it until the next boot.
- `music_empty_loop`: a looping score without a delay keeps the update loop for
  ever, although the comment at `neutrino_sound.cpp:317` says that the work is
  bounded: each restart begins the count anew.

## Not modelled

- The kernel: scheduling, signals, file systems. Writes that the code makes in
  one call are atomic, unless a model says otherwise (LibNet, HttpServer).
- Contents: formats of messages, archives, databases and service files, their
  checksums and hashes. A step that reads one may fail where the code has an
  error path that changes state.
- In tcpd a second slot for a peer (its initial sequence number may overlap
  the first one's), and retransmission, which the code does not have.
- Listings, text tools, the terminal, the font viewer, netget, ping and tcpecho
  as programs: they read and print. The libc and the system call wrappers: one
  instruction or a loop over characters each.
- Third-party ports, and packages that hold data only. `PROJECT.json` has every
  component, with what is left out of those that are modelled in part.
