--------------------------- MODULE ServiceManager ---------------------------
(***************************************************************************)
(* The service manager thread of init (PID 1), base-system/src/init.cpp:   *)
(* it starts the enabled services, and then for ever drains their log      *)
(* pipes, reaps dead children, applies the restart policy and serves one   *)
(* control request.  start_service() recurses on the `after' dependency;   *)
(* the recursion is the variable `stack', so that processes may die        *)
(* between two of its frames.                                              *)
(*                                                                         *)
(* The kernel is external: `proc' is its process table, a process exits    *)
(* with code 0 or 1 whenever it likes, and a kill takes effect later, with *)
(* the exit code 0 that process_control() passes by default.               *)
(***************************************************************************)
EXTENDS Naturals, Sequences, FiniteSets

CONSTANTS
  Services,       \* names of the loaded service definitions
  Definitions,    \* the possible results of load_services()
  Pids,           \* process identifiers the kernel hands out, and reuses
  NoPid,          \* the value 0 of Service::pid
  NoService,      \* an empty `after'
  Missing,        \* an `after' that names no loaded service
  Lingering,      \* services whose offspring may outlive them and hold the log pipe
  MaxServices,    \* kMaxServices, the bound of start_service's recursion
  MaxAutoStarts,  \* kMaxAutomaticServiceStarts
  MaxOthers       \* bound: children of init that are no services

Definition == [after   : Services \cup {NoService, Missing},
               policy  : {"never", "on-failure", "always"},
               type    : {"simple", "oneshot"},
               enabled : BOOLEAN]

ASSUME ManagerAssumption ==
  /\ Definitions \subseteq [Services -> Definition]
  /\ NoPid \notin Pids
  /\ NoService \notin Services
  /\ Missing \notin Services
  /\ Lingering \subseteq Services
  /\ MaxServices \in Nat \ {0}
  /\ MaxAutoStarts \in Nat \ {0}
  /\ MaxOthers \in Nat

VARIABLES
  def,         \* the service table's definitions, read-only after loading
  pid,         \* Service::pid
  desired,     \* Service::desired_running
  restartReq,  \* Service::restart_requested
  completed,   \* Service::completed
  starts,      \* Service::starts, saturating at MaxAutoStarts: it is only
               \* ever compared with that limit
  logOpen,     \* Service::log_handle # kInvalidDescriptor
  proc,        \* kernel: state of each process of init
  others,      \* kernel: children so far that are no services
  phase,       \* where the manager's loop is
  bootLeft,    \* enabled services the boot loop has still to start
  stack,       \* frames of start_service, innermost first
  ret,         \* value returned by the last start_service frame that ended
  leaked,      \* history: services whose open log handle was overwritten
  asked,       \* history: whether the last call that named the service, a
               \* request or a dependent's start, wanted it up or down
  cause,       \* history: who made the outermost start_service call
  auto         \* history: automatic relaunches since starts was last reset

table   == <<pid, desired, restartReq, completed, starts, logOpen>>
history == <<leaked, asked, cause, auto>>
kernel  == <<proc, others>>
vars    == <<def, table, kernel, phase, bootLeft, stack, ret, history>>

Zombie    == {"exit0", "exit1", "killed0"}
ProcState == {"free", "running", "dying"} \cup Zombie

Cap(n, bound) == IF n > bound THEN bound ELSE n

TypeOK ==
  /\ def \in Definitions
  /\ pid \in [Services -> Pids \cup {NoPid}]
  /\ desired \in [Services -> BOOLEAN]
  /\ restartReq \in [Services -> BOOLEAN]
  /\ completed \in [Services -> BOOLEAN]
  /\ starts \in [Services -> 0..MaxAutoStarts]
  /\ logOpen \in [Services -> BOOLEAN]
  /\ proc \in [Pids -> ProcState]
  /\ others \in 0..MaxOthers
  /\ phase \in {"boot", "drain", "reap", "serve", "reply"}
  /\ bootLeft \subseteq Services
  /\ stack \in Seq(Services)
  /\ ret \in BOOLEAN
  /\ leaked \subseteq Services
  /\ asked \in [Services -> {"none", "up", "down"}]
  /\ cause \in {"boot", "policy", "request"}
  /\ auto \in [Services -> 0..MaxAutoStarts + 1]

Init ==
  /\ def \in Definitions
  /\ pid = [s \in Services |-> NoPid]
  /\ desired = [s \in Services |-> FALSE]
  /\ restartReq = [s \in Services |-> FALSE]
  /\ completed = [s \in Services |-> FALSE]
  /\ starts = [s \in Services |-> 0]
  /\ logOpen = [s \in Services |-> FALSE]
  /\ proc = [p \in Pids |-> "free"]
  /\ others = 0
  /\ phase = "boot"
  /\ bootLeft = {s \in Services : def[s].enabled}
  /\ stack = <<>>
  /\ ret = FALSE
  /\ leaked = {}
  /\ asked = [s \in Services |-> "none"]
  /\ cause = "boot"
  /\ auto = [s \in Services |-> 0]

-----------------------------------------------------------------------------
(* start_service(), one frame at a time.                                   *)

Call(s, why) ==
  /\ stack' = <<s>>
  /\ ret' = FALSE
  /\ cause' = why

Top == Head(stack)

\* A frame that returns true resumes its caller after the dependency check.
ReturnTrue == stack' = Tail(stack) /\ ret' = TRUE

\* A frame that returns false makes every caller return false.
ReturnFalse == stack' = <<>> /\ ret' = FALSE

\* `if (service.pid != 0)': nothing to start, but it is wanted again.
StartRunning ==
  /\ stack # <<>>
  /\ pid[Top] # NoPid
  /\ desired' = [desired EXCEPT ![Top] = TRUE]
  /\ asked' = [asked EXCEPT ![Top] = "up"]
  /\ ReturnTrue
  /\ UNCHANGED <<def, pid, restartReq, completed, starts, logOpen, kernel,
                 phase, bootLeft, leaked, cause, auto>>

\* Too deep (a cycle of `after'), or the dependency is not a loaded service.
StartRefused ==
  /\ stack # <<>>
  /\ pid[Top] = NoPid
  /\ \/ Len(stack) > MaxServices
     \/ ~ret /\ def[Top].after = Missing
  /\ ReturnFalse
  /\ UNCHANGED <<def, table, kernel, phase, bootLeft, history>>

\* The recursive call start_service(*dependency, depth + 1).
StartDependency ==
  /\ stack # <<>>
  /\ pid[Top] = NoPid
  /\ Len(stack) =< MaxServices
  /\ ~ret
  /\ def[Top].after \in Services
  /\ stack' = <<def[Top].after>> \o stack
  /\ UNCHANGED <<def, table, kernel, phase, bootLeft, ret, history>>

MayLaunchAlone ==
  /\ stack # <<>>
  /\ pid[Top] = NoPid
  /\ Len(stack) =< MaxServices

MayLaunch ==
  /\ stack # <<>>
  /\ pid[Top] = NoPid
  /\ Len(stack) =< MaxServices
  /\ ret \/ def[Top].after = NoService

\* No principal for the user, no pipe, or child_with_stdio_as() failed.
LaunchFails ==
  /\ MayLaunch
  /\ ReturnFalse
  /\ UNCHANGED <<def, table, kernel, phase, bootLeft, history>>

\* The child runs; the new log reader overwrites log_handle.
Launch ==
  /\ MayLaunch
  /\ \E p \in Pids :
       /\ proc[p] = "free"
       /\ proc' = [proc EXCEPT ![p] = "running"]
       /\ pid' = [pid EXCEPT ![Top] = p]
  /\ logOpen' = [logOpen EXCEPT ![Top] = TRUE]
  /\ leaked' = IF logOpen[Top] THEN leaked \cup {Top} ELSE leaked
  /\ desired' = [desired EXCEPT ![Top] = TRUE]
  /\ restartReq' = [restartReq EXCEPT ![Top] = FALSE]
  /\ completed' = [completed EXCEPT ![Top] = FALSE]
  /\ starts' = [starts EXCEPT ![Top] = Cap(@ + 1, MaxAutoStarts)]
  /\ auto' = IF cause = "policy" /\ Len(stack) = 1
             THEN [auto EXCEPT ![Top] = Cap(@ + 1, MaxAutoStarts + 1)] ELSE auto
  /\ asked' = [asked EXCEPT ![Top] = IF Len(stack) > 1 THEN "up" ELSE @]
  /\ ReturnTrue
  /\ UNCHANGED <<def, others, phase, bootLeft, cause>>

StartStep ==
  StartRunning \/ StartRefused \/ StartDependency \/ LaunchFails \/ Launch

-----------------------------------------------------------------------------
(* service_manager(): the boot loop and the four parts of its main loop.   *)

\* The directory's order decides which enabled service comes next.
Boot ==
  /\ phase = "boot" /\ stack = <<>>
  /\ \/ \E s \in bootLeft :
          /\ bootLeft' = bootLeft \ {s}
          /\ asked' = [asked EXCEPT ![s] = "up"]
          /\ Call(s, "boot")
          /\ UNCHANGED <<phase, leaked, auto>>
     \/ /\ bootLeft = {}
        /\ phase' = "drain"
        /\ UNCHANGED <<bootLeft, stack, ret, history>>
  /\ UNCHANGED <<def, table, kernel>>

\* No process of the service itself writes to the log pipe any more.
WriterGone(s) == pid[s] = NoPid \/ proc[pid[s]] \in Zombie

\* drain_service_log() of every service: end of file closes the reader.
DrainLogs ==
  /\ phase = "drain" /\ stack = <<>>
  /\ \E closed \in SUBSET {s \in Services : logOpen[s]} :
       /\ \A s \in Services \ Lingering :
            logOpen[s] /\ WriterGone(s) => s \in closed
       /\ logOpen' = [s \in Services |-> logOpen[s] /\ s \notin closed]
  /\ phase' = "reap"
  /\ UNCHANGED <<def, pid, desired, restartReq, completed, starts, kernel,
                 bootLeft, stack, ret, history>>

Failed(p) == proc[p] = "exit1"

\* The service's restart policy asks for a new run.
PolicyRestartUnasked(s, p) ==
  \/ def[s].policy = "always"
  \/ def[s].policy = "on-failure" /\ Failed(p)

PolicyRestart(s, p) ==
  /\ desired[s]
  /\ \/ def[s].policy = "always"
     \/ def[s].policy = "on-failure" /\ Failed(p)

HasBudgetAtLimit(s) == starts[s] =< MaxAutoStarts

HasBudgetAlways(s) == TRUE

HasBudget(s) == starts[s] < MaxAutoStarts

AgainByPolicyOnly(s, p) == PolicyRestart(s, p) /\ HasBudget(s)

Again(s, p) == restartReq[s] \/ (PolicyRestart(s, p) /\ HasBudget(s))

ForgetNothing(s) == UNCHANGED pid

\* The reaped pid may be handed out again, so that the table drops it.
Forget(s) == pid' = [pid EXCEPT ![s] = NoPid]

ReaderAsBefore(s) == {logOpen[s]}

\* The reaper drains the log to its end; offspring may hold the pipe open.
ReaderAfterDeath(s) == {FALSE, logOpen[s] /\ s \in Lingering}

\* reap_service_children(), one child whose pid is in the service table.
Reap(s) ==
  LET p == pid[s]
  IN
  /\ phase = "reap" /\ stack = <<>>
  /\ p # NoPid
  /\ proc[p] \in Zombie
  /\ proc' = [proc EXCEPT ![p] = "free"]
  /\ \E open \in ReaderAfterDeath(s) : logOpen' = [logOpen EXCEPT ![s] = open]
  /\ Forget(s)
  /\ completed' = [completed EXCEPT ![s] =
       def[s].type = "oneshot" /\ desired[s] /\ ~restartReq[s] /\ ~Failed(p)]
  /\ restartReq' = [restartReq EXCEPT ![s] = FALSE]
  /\ desired' = [desired EXCEPT ![s] = @ /\ Again(s, p)]
  /\ IF Again(s, p)
     THEN Call(s, IF restartReq[s] THEN "request" ELSE "policy")
     ELSE UNCHANGED <<stack, ret, cause>>
  /\ UNCHANGED <<def, starts, others, phase, bootLeft, leaked, asked, auto>>

\* A dead child that is no service: its status is dropped.
ReapOther ==
  /\ phase = "reap" /\ stack = <<>>
  /\ \E p \in Pids :
       /\ proc[p] \in Zombie
       /\ \A s \in Services : pid[s] # p
       /\ proc' = [proc EXCEPT ![p] = "free"]
  /\ UNCHANGED <<def, table, others, phase, bootLeft, stack, ret, history>>

\* process_wait_child() has no more dead children to report.
ReapDone ==
  /\ phase = "reap" /\ stack = <<>>
  /\ \A p \in Pids : proc[p] \notin Zombie
  /\ phase' = "serve"
  /\ UNCHANGED <<def, table, kernel, bootLeft, stack, ret, history>>

\* The server pipe is empty, the request is not accepted, or it only reads
\* the table (kList, kStatus, kLogs, an unknown service or command).
NoRequest ==
  /\ phase = "serve" /\ stack = <<>>
  /\ phase' = "drain"
  /\ UNCHANGED <<def, table, kernel, bootLeft, stack, ret, history>>

\* kStart: a stopped service gets a fresh restart budget.
RequestStart(s) ==
  /\ phase = "serve" /\ stack = <<>>
  /\ phase' = "reply"
  /\ starts' = [starts EXCEPT ![s] = IF pid[s] = NoPid THEN 0 ELSE @]
  /\ auto' = [auto EXCEPT ![s] = IF pid[s] = NoPid THEN 0 ELSE @]
  /\ asked' = [asked EXCEPT ![s] = "up"]
  /\ Call(s, "request")
  /\ UNCHANGED <<def, pid, desired, restartReq, completed, logOpen, kernel,
                 bootLeft, leaked>>

KillNothing(p) == UNCHANGED proc

\* process_control(pid, KILL): it fails on a process that is already dead.
Kill(p) ==
  proc' = IF p # NoPid /\ proc[p] = "running"
          THEN [proc EXCEPT ![p] = "dying"] ELSE proc

\* kStop is stop_service(service, false).
RequestStop(s) ==
  /\ phase = "serve" /\ stack = <<>>
  /\ phase' = "reply"
  /\ desired' = [desired EXCEPT ![s] = FALSE]
  /\ restartReq' = [restartReq EXCEPT ![s] = FALSE]
  /\ completed' = [completed EXCEPT ![s] = FALSE]
  /\ Kill(pid[s])
  /\ asked' = [asked EXCEPT ![s] = "down"]
  /\ UNCHANGED <<def, pid, starts, logOpen, others, bootLeft, stack, ret, leaked,
                 cause, auto>>

\* kRestart is stop_service(service, true): kill and let the reaper relaunch,
\* or start at once when there is no process.
RequestRestart(s) ==
  /\ phase = "serve" /\ stack = <<>>
  /\ phase' = "reply"
  /\ starts' = [starts EXCEPT ![s] = 0]
  /\ auto' = [auto EXCEPT ![s] = 0]
  /\ desired' = [desired EXCEPT ![s] = TRUE]
  /\ restartReq' = [restartReq EXCEPT ![s] = TRUE]
  /\ Kill(pid[s])
  /\ asked' = [asked EXCEPT ![s] = "up"]
  /\ IF pid[s] = NoPid THEN Call(s, "request") ELSE UNCHANGED <<stack, ret, cause>>
  /\ UNCHANGED <<def, pid, completed, logOpen, others, bootLeft, leaked>>

\* The reply is written; the loop sleeps and comes round again.
Reply ==
  /\ phase = "reply" /\ stack = <<>>
  /\ phase' = "drain"
  /\ UNCHANGED <<def, table, kernel, bootLeft, stack, ret, history>>

Manager ==
  \/ StartStep \/ Boot \/ DrainLogs \/ ReapOther \/ ReapDone \/ NoRequest \/ Reply
  \/ \E s \in Services :
       Reap(s) \/ RequestStart(s) \/ RequestStop(s) \/ RequestRestart(s)

-----------------------------------------------------------------------------
(* The kernel and the other processes.                                     *)

\* A process ends of its own accord.
Exit(p) ==
  /\ proc[p] \in {"running", "dying"}
  /\ \E code \in {"exit0", "exit1"} : proc' = [proc EXCEPT ![p] = code]
  /\ UNCHANGED <<def, table, others, phase, bootLeft, stack, ret, history>>

\* A kill takes effect, with process_control's default exit code 0.
Die(p) ==
  /\ proc[p] = "dying"
  /\ proc' = [proc EXCEPT ![p] = "killed0"]
  /\ UNCHANGED <<def, table, others, phase, bootLeft, stack, ret, history>>

\* init gains a child that is no service.
Adopt(p) ==
  /\ proc[p] = "free"
  /\ others < MaxOthers
  /\ proc' = [proc EXCEPT ![p] = "running"]
  /\ others' = others + 1
  /\ UNCHANGED <<def, table, phase, bootLeft, stack, ret, history>>

Next == Manager \/ \E p \in Pids : Exit(p) \/ Die(p) \/ Adopt(p)

Spec == Init /\ [][Next]_vars

\* The manager thread is scheduled again and again, and kills take effect.
Fairness == WF_vars(Manager) /\ \A p \in Pids : WF_vars(Die(p))

FairSpec == Spec /\ Fairness

-----------------------------------------------------------------------------
(* Properties.                                                             *)

Launched(s) == pid[s] = NoPid /\ pid'[s] # NoPid

\* A pid in the service table names a child that has not been reaped, and no
\* two services claim the same child: a kill or a reaped status never reaches
\* the wrong service although the kernel reuses pids (init.cpp:916, 926).
PidsOwned ==
  \A s \in Services : pid[s] # NoPid =>
    /\ proc[pid[s]] # "free"
    /\ \A t \in Services \ {s} : pid[t] # pid[s]

\* A process that stop_service() gave up on, to stop it or to replace it, is
\* on its way out: no sequence of stop, start and restart requests leaves an
\* unwanted process running (init.cpp:909-917).
UnwantedIsEnding ==
  \A s \in Services :
    pid[s] # NoPid /\ (~desired[s] \/ restartReq[s]) => proc[pid[s]] # "running"

\* A log reader is overwritten while still open only when something else than
\* the service's own process holds the pipe: the reaper drains it before the
\* relaunch (init.cpp:933, 900).
LogReaderKept == leaked \subseteq Lingering

\* The restart budget bounds a crash loop: between two resets of `starts' by
\* the operator, the policy relaunches a service at most MaxAutoStarts times,
\* whatever dependency starts and failed launches happen in between
\* (init.cpp:944-955).
CrashLoopBounded == \A s \in Services : auto[s] =< starts[s]

\* `after' names a service that must be started first (README.md:36): when a
\* service is launched, its dependency has a process in the table, even when
\* children died while start_service() was recursing (init.cpp:857-860).
DependencyFirst ==
  [][\A s \in Services : Launched(s) =>
       def[s].after = NoService \/ pid[def[s].after] # NoPid]_vars

\* A stopped service stays stopped: the reaper and the boot loop launch on
\* their own account only a service whose last start, stop or restart, by a
\* request or by a dependent, wanted it up (init.cpp:909-912, 940-947).
StoppedStaysStopped ==
  [][\A s \in Services : Launched(s) /\ Len(stack) = 1 => asked[s] = "up"]_vars

\* Crashing services cannot starve the control pipe: the reaper, which
\* relaunches inside its own loop, always ends (init.cpp:919-960).
ControlResponsive == []<>(phase = "serve")

Serving(s) == stack # <<>> /\ stack[Len(stack)] = s /\ cause = "request"

\* A restart accepted for a live service ends in an attempt to launch it,
\* whatever its policy and exit code, unless it is stopped meanwhile
\* (init.cpp:946).
RestartHonoured ==
  \A s \in Services :
    restartReq[s] /\ pid[s] # NoPid ~> Serving(s) \/ asked[s] = "down"
=============================================================================
