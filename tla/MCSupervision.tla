---------------------------- MODULE MCSupervision ----------------------------
(* Two questions about init for TLC, whose parts share nothing here: the    *)
(* pairing of requests on the control pipe, with clients that are all alike, *)
(* and the progress of the manager over its table; "part" says which.      *)
EXTENDS ServiceControl, TLC

CONSTANTS net, app, NoService, Missing, NoPid, p1, p2

VARIABLES
  part,
  def, pid, desired, restartReq, completed, starts, logOpen, proc, children,
  loop, bootLeft, stack, ret, leaked, asked, cause, auto

tableVars ==
  <<def, pid, desired, restartReq, completed, starts, logOpen, proc, children,
    loop, bootLeft, stack, ret, leaked, asked, cause, auto>>

\* A daemon that crashes in a loop, and a oneshot that needs it.
Service(after, policy, type) == [after |-> after, policy |-> policy, type |-> type, enabled |-> TRUE]

Manages == INSTANCE ServiceManager WITH
  Services <- {net, app}, Pids <- {p1, p2}, Lingering <- {}, MaxServices <- 2, MaxAutoStarts <- 2,
  MaxOthers <- 0, others <- children, phase <- loop,
  Definitions <- {(net :> Service(NoService, "always", "simple")) @@ (app :> Service(net, "never", "oneshot"))}

PartsInit == part \in {"control", "table"} /\ Init /\ Manages!Init

PartsNext ==
  \/ part = "control" /\ Next /\ UNCHANGED <<part, tableVars>>
  \/ part = "table" /\ Manages!Next /\ UNCHANGED <<part, vars>>

PartsFairness ==
  /\ WF_vars(part = "control" /\ Manager)
  /\ \A c \in Clients : WF_vars(part = "control" /\ ReadReply(c))
  /\ WF_tableVars(part = "table" /\ Manages!Manager)
  /\ \A p \in {p1, p2} : WF_tableVars(part = "table" /\ Manages!Die(p))

PartsSpec == PartsInit /\ [][PartsNext]_<<vars, part, tableVars>> /\ PartsFairness

------------------------------------------------------------------------------
\* The manager comes back to its services from a client that stops half way,
\* and to its control pipe through failed starts and processes that crash in a
\* loop, for ever (init.cpp:1168-1194).
ManagerAttends == ManagerReturns /\ (part = "table" => Manages!ControlResponsive)

\* A restart accepted for a live service ends in an attempt to launch it,
\* whatever its policy and exit code, unless it is stopped meanwhile
\* (init.cpp:946).
RestartHonoured == part = "table" => Manages!RestartHonoured
=============================================================================
