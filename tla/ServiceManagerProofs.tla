------------------------ MODULE ServiceManagerProofs ------------------------
(***************************************************************************)
(* Proofs about ServiceManager for every set of services, of definitions   *)
(* and of pids and every value of the limits.                              *)
(***************************************************************************)
EXTENDS ServiceManager, TLAPS

\* What the stack of start_service frames is built with stays a stack.
LEMMA EmptyStack == <<>> \in Seq(Services)
OBVIOUS

LEMMA OneFrame == ASSUME NEW s \in Services PROVE <<s>> \in Seq(Services)
OBVIOUS

LEMMA PopFrame ==
  ASSUME NEW q \in Seq(Services), q # <<>>
  PROVE  Head(q) \in Services /\ Tail(q) \in Seq(Services)
OBVIOUS

LEMMA PushFrame ==
  ASSUME NEW s \in Services, NEW q \in Seq(Services)
  PROVE  <<s>> \o q \in Seq(Services)
OBVIOUS

\* A saturating counter stays within its bound.
LEMMA CapBounds ==
  ASSUME NEW bound \in Nat, NEW n \in 0..bound
  PROVE  Cap(n + 1, bound) \in 0..bound
BY DEF Cap

\* Every step of the manager, of the kernel and of the children keeps the types.
LEMMA TypeStep == TypeOK /\ [Next]_vars => TypeOK'
<1> SUFFICES ASSUME TypeOK, [Next]_vars PROVE TypeOK'
  OBVIOUS
<1> USE ManagerAssumption
    DEF ManagerAssumption, TypeOK, ProcState, Zombie, table, kernel, history
<1>0. /\ def \in [Services -> Definition]
      /\ \A s \in Services : def[s].after \in Services \cup {NoService, Missing}
  BY DEF Definition
<1>1. CASE StartRunning
  BY <1>1, PopFrame DEF StartRunning, Top, ReturnTrue
<1>2. CASE StartRefused
  BY <1>2, EmptyStack DEF StartRefused, ReturnFalse
<1>3. CASE StartDependency
  BY <1>3, <1>0, PushFrame DEF StartDependency, Top
<1>4. CASE LaunchFails
  BY <1>4, EmptyStack DEF LaunchFails, ReturnFalse
<1>5. CASE Launch
  <2>1. Top \in Services /\ stack' \in Seq(Services)
    BY <1>5, PopFrame DEF Launch, MayLaunch, Top, ReturnTrue
  <2>2. starts' \in [Services -> 0..MaxAutoStarts]
    BY <1>5, <2>1, CapBounds DEF Launch
  <2>3. auto' \in [Services -> 0..MaxAutoStarts + 1]
    BY <1>5, <2>1, CapBounds DEF Launch
  <2>4. pid' \in [Services -> Pids \cup {NoPid}] /\ proc' \in [Pids -> ProcState]
    BY <1>5, <2>1 DEF Launch
  <2>5. /\ desired' \in [Services -> BOOLEAN] /\ restartReq' \in [Services -> BOOLEAN]
        /\ completed' \in [Services -> BOOLEAN] /\ logOpen' \in [Services -> BOOLEAN]
        /\ leaked' \subseteq Services /\ asked' \in [Services -> {"none", "up", "down"}]
        /\ ret' \in BOOLEAN
    BY <1>5, <2>1 DEF Launch, ReturnTrue
  <2> QED
    BY <1>5, <2>1, <2>2, <2>3, <2>4, <2>5 DEF Launch
<1>6. CASE Boot
  <2>1. stack' \in Seq(Services) /\ ret' \in BOOLEAN
        /\ cause' \in {"boot", "policy", "request"}
    <3>1. CASE bootLeft = {}
      BY <1>6, <3>1 DEF Boot
    <3>2. ASSUME NEW s \in bootLeft, stack' = <<s>>, ret' = FALSE, cause' = "boot"
          PROVE  stack' \in Seq(Services) /\ ret' \in BOOLEAN
                 /\ cause' \in {"boot", "policy", "request"}
      BY <3>2, OneFrame
    <3> QED
      BY <1>6, <3>1, <3>2 DEF Boot, Call
  <2>2. bootLeft' \subseteq Services /\ asked' \in [Services -> {"none", "up", "down"}]
    BY <1>6 DEF Boot
  <2> QED
    BY <1>6, <2>1, <2>2 DEF Boot
<1>7. CASE DrainLogs
  BY <1>7 DEF DrainLogs
<1>8. ASSUME NEW s \in Services, Reap(s) PROVE TypeOK'
  <2>0. \/ stack' = <<s>> /\ ret' = FALSE /\ cause' \in {"policy", "request"}
        \/ UNCHANGED <<stack, ret, cause>>
    BY <1>8 DEF Reap, Call
  <2>1. stack' \in Seq(Services) /\ ret' \in BOOLEAN
        /\ cause' \in {"boot", "policy", "request"}
    BY <2>0, OneFrame
  <2>2. /\ pid' \in [Services -> Pids \cup {NoPid}] /\ proc' \in [Pids -> ProcState]
        /\ restartReq' \in [Services -> BOOLEAN]
    BY <1>8 DEF Reap, Forget
  <2>4. desired' \in [Services -> BOOLEAN]
    BY <1>8 DEF Reap
  <2>5. logOpen' \in [Services -> BOOLEAN]
    BY <1>8 DEF Reap, ReaderAfterDeath
  <2>3. completed' \in [Services -> BOOLEAN]
    BY <1>8 DEF Reap
  <2> QED
    BY <1>8, <2>1, <2>2, <2>3, <2>4, <2>5 DEF Reap
<1>9. CASE ReapOther
  BY <1>9 DEF ReapOther
<1>10. CASE ReapDone
  BY <1>10 DEF ReapDone
<1>11. CASE NoRequest
  BY <1>11 DEF NoRequest
<1>12. ASSUME NEW s \in Services, RequestStart(s) PROVE TypeOK'
  <2>1. stack' \in Seq(Services) /\ ret' \in BOOLEAN
        /\ cause' \in {"boot", "policy", "request"}
    BY <1>12, OneFrame DEF RequestStart, Call
  <2>2. /\ starts' \in [Services -> 0..MaxAutoStarts]
        /\ auto' \in [Services -> 0..MaxAutoStarts + 1]
    BY <1>12 DEF RequestStart
  <2> QED
    BY <1>12, <2>1, <2>2 DEF RequestStart
<1>13. ASSUME NEW s \in Services, RequestStop(s) PROVE TypeOK'
  BY <1>13 DEF RequestStop, Kill
<1>14. ASSUME NEW s \in Services, RequestRestart(s) PROVE TypeOK'
  <2>1. stack' \in Seq(Services) /\ ret' \in BOOLEAN
        /\ cause' \in {"boot", "policy", "request"}
    BY <1>14, OneFrame DEF RequestRestart, Call
  <2> QED
    BY <1>14, <2>1 DEF RequestRestart, Kill
<1>15. CASE Reply
  BY <1>15 DEF Reply
<1>16. ASSUME NEW p \in Pids, Exit(p) \/ Die(p) PROVE TypeOK'
  <2>1. CASE Exit(p)
    BY <2>1 DEF Exit
  <2>2. CASE Die(p)
    BY <2>2 DEF Die
  <2> QED
    BY <1>16, <2>1, <2>2
<1>17. ASSUME NEW p \in Pids, Adopt(p) PROVE TypeOK'
  <2>1. others' \in 0..MaxOthers
    BY <1>17 DEF Adopt
  <2> QED
    BY <1>17, <2>1 DEF Adopt
<1>18. CASE UNCHANGED vars
  BY <1>18 DEF vars
<1> QED
  BY <1>1, <1>2, <1>3, <1>4, <1>5, <1>6, <1>7, <1>8, <1>9, <1>10, <1>11,
     <1>12, <1>13, <1>14, <1>15, <1>16, <1>17, <1>18 DEF Next, Manager, StartStep

\* The initial table is well typed.
LEMMA TypeInit == Init => TypeOK
<1> SUFFICES ASSUME Init PROVE TypeOK
  OBVIOUS
<1> USE DEF Init
<1>1. stack \in Seq(Services)
  BY EmptyStack
<1>2. 0 \in 0..MaxAutoStarts /\ 0 \in 0..MaxAutoStarts + 1 /\ 0 \in 0..MaxOthers
  BY ManagerAssumption DEF ManagerAssumption
<1>3. /\ starts \in [Services -> 0..MaxAutoStarts]
      /\ auto \in [Services -> 0..MaxAutoStarts + 1]
      /\ others \in 0..MaxOthers
  BY <1>2
<1>4. bootLeft \subseteq Services
  OBVIOUS
<1> QED
  BY <1>1, <1>3, <1>4 DEF TypeOK, ProcState

\* Type correctness of the service table and of the manager's control state.
THEOREM TypeCorrect == Spec => []TypeOK
  BY TypeInit, TypeStep, PTL DEF Spec

-----------------------------------------------------------------------------
(* Who owns which child.                                                   *)

Ownership == TypeOK /\ PidsOwned /\ UnwantedIsEnding

LEMMA OwnershipStep == Ownership /\ [Next]_vars => PidsOwned' /\ UnwantedIsEnding'
<1> SUFFICES ASSUME Ownership, [Next]_vars PROVE PidsOwned' /\ UnwantedIsEnding'
  OBVIOUS
<1> USE ManagerAssumption DEF ManagerAssumption, Ownership, TypeOK, PidsOwned,
      UnwantedIsEnding, table, kernel, history
<1>1. CASE StartRunning
  BY <1>1 DEF StartRunning, Top
<1>2. CASE StartRefused \/ StartDependency \/ LaunchFails
  BY <1>2 DEF StartRefused, StartDependency, LaunchFails
<1>3. CASE Launch
  <2>1. Top \in Services
    BY <1>3, PopFrame DEF Launch, MayLaunch, Top
  <2>2. PICK p \in Pids : /\ proc[p] = "free"
                         /\ proc' = [proc EXCEPT ![p] = "running"]
                         /\ pid' = [pid EXCEPT ![Top] = p]
    BY <1>3 DEF Launch
  <2>3. \A s \in Services : pid[s] # p
    BY <2>2
  <2>4. PidsOwned'
    BY <2>1, <2>2, <2>3
  <2>5. UnwantedIsEnding'
    BY <1>3, <2>1, <2>2, <2>3 DEF Launch
  <2> QED
    BY <2>4, <2>5
<1>4. CASE Boot \/ DrainLogs \/ ReapDone \/ NoRequest \/ Reply
  BY <1>4 DEF Boot, DrainLogs, ReapDone, NoRequest, Reply
<1>5. ASSUME NEW r \in Services, Reap(r) PROVE PidsOwned' /\ UnwantedIsEnding'
  <2>1. /\ pid[r] # NoPid
        /\ pid' = [pid EXCEPT ![r] = NoPid]
        /\ proc' = [proc EXCEPT ![pid[r]] = "free"]
    BY <1>5 DEF Reap, Forget
  <2>2. \A s \in Services \ {r} : /\ pid'[s] = pid[s]
                                  /\ pid[s] # NoPid => proc'[pid[s]] = proc[pid[s]]
    BY <2>1
  <2>3. \A s \in Services \ {r} : /\ desired'[s] = desired[s]
                                  /\ restartReq'[s] = restartReq[s]
    BY <1>5 DEF Reap
  <2> QED
    BY <2>1, <2>2, <2>3
<1>6. CASE ReapOther
  BY <1>6 DEF ReapOther
<1>7. ASSUME NEW r \in Services, RequestStart(r) PROVE PidsOwned' /\ UnwantedIsEnding'
  BY <1>7 DEF RequestStart
<1>8. ASSUME NEW r \in Services, RequestStop(r) \/ RequestRestart(r)
      PROVE  PidsOwned' /\ UnwantedIsEnding'
  <2>1. /\ pid' = pid
        /\ Kill(pid[r])
        /\ \A s \in Services \ {r} : /\ desired'[s] = desired[s]
                                     /\ restartReq'[s] = restartReq[s]
    BY <1>8 DEF RequestStop, RequestRestart
  <2>2. \A p \in Pids : \/ proc'[p] = proc[p]
                        \/ p = pid[r] /\ proc[p] = "running" /\ proc'[p] = "dying"
    BY <2>1 DEF Kill
  <2>3. pid[r] # NoPid => proc'[pid[r]] # "running"
    BY <2>1 DEF Kill
  <2>4. PidsOwned'
    BY <2>1, <2>2
  <2>5. ASSUME NEW s \in Services, pid'[s] # NoPid, ~desired'[s] \/ restartReq'[s]
        PROVE  proc'[pid'[s]] # "running"
    <3>1. CASE s = r
      BY <3>1, <2>5, <2>1, <2>3
    <3>2. CASE s # r
      BY <3>2, <2>5, <2>1, <2>2
    <3> QED
      BY <3>1, <3>2
  <2> QED
    BY <2>4, <2>5
<1>9. ASSUME NEW p \in Pids, Exit(p) \/ Die(p) \/ Adopt(p)
      PROVE  PidsOwned' /\ UnwantedIsEnding'
  BY <1>9 DEF Exit, Die, Adopt
<1>10. CASE UNCHANGED vars
  BY <1>10 DEF vars
<1> QED
  BY <1>1, <1>2, <1>3, <1>4, <1>5, <1>6, <1>7, <1>8, <1>9, <1>10
     DEF Next, Manager, StartStep

LEMMA OwnershipInvariant == Spec => []Ownership
<1>1. Init => Ownership
  <2>1. Init => PidsOwned /\ UnwantedIsEnding
    BY ManagerAssumption DEF ManagerAssumption, Init, PidsOwned, UnwantedIsEnding
  <2> QED
    BY <2>1, TypeInit DEF Ownership
<1>2. Ownership /\ [Next]_vars => Ownership'
  BY OwnershipStep, TypeStep DEF Ownership
<1> QED
  BY <1>1, <1>2, PTL DEF Spec

\* No kill and no exit status reaches the wrong service, for any number of
\* services and pids.
THEOREM PidsAreOwned == Spec => []PidsOwned
  BY OwnershipInvariant, PTL DEF Ownership

\* No sequence of requests leaves an unwanted process running.
THEOREM UnwantedEnd == Spec => []UnwantedIsEnding
  BY OwnershipInvariant, PTL DEF Ownership

-----------------------------------------------------------------------------
(* The frames of start_service.                                            *)

\* The frames below the innermost wait for their dependency, so that their
\* service has no process, and the next frame is that dependency.
FramesWait ==
  \A i \in 2..Len(stack) :
    pid[stack[i]] = NoPid /\ def[stack[i]].after = stack[i - 1]

\* A frame that is told its dependency is up finds it in the table.
ReturnedUp ==
  ret /\ stack # <<>> =>
    def[Top].after \in Services /\ pid[def[Top].after] # NoPid

Frames == TypeOK /\ FramesWait /\ ReturnedUp

LEMMA FrameAt ==
  ASSUME NEW q \in Seq(Services), q # <<>>
  PROVE  /\ Len(q) \in Nat \ {0}
         /\ Head(q) = q[1]
         /\ \A i \in 1..Len(q) : q[i] \in Services
OBVIOUS

LEMMA OneOrMore ==
  ASSUME NEW q \in Seq(Services), q # <<>>
  PROVE  Len(q) = 1 \/ Len(q) > 1
<1> DEFINE n == Len(q)
<1>1. n \in Nat \ {0}
  BY FrameAt
<1> HIDE DEF n
<1>2. n = 1 \/ n > 1
  BY <1>1
<1> QED
  BY <1>2 DEF n

LEMMA PopIndex ==
  ASSUME NEW q \in Seq(Services), q # <<>>
  PROVE  /\ Len(Tail(q)) = Len(q) - 1
         /\ \A i \in 1..Len(q) - 1 : Tail(q)[i] = q[i + 1]
         /\ Tail(q) # <<>> => Len(q) > 1
OBVIOUS

LEMMA PushIndex ==
  ASSUME NEW s \in Services, NEW q \in Seq(Services)
  PROVE  /\ Len(<<s>> \o q) = Len(q) + 1
         /\ (<<s>> \o q)[1] = s
         /\ \A i \in 2..Len(q) + 1 : (<<s>> \o q)[i] = q[i - 1]
         /\ <<s>> \o q # <<>>
OBVIOUS

LEMMA FrameIndex ==
  ASSUME NEW s \in Services
  PROVE  /\ Len(<<s>>) = 1 /\ <<s>>[1] = s /\ Head(<<s>>) = s /\ <<s>> # <<>>
         /\ Len(<<>>) = 0
OBVIOUS

\* A launched service has no other frame on the stack: it would be waiting
\* for a dependency that is already up.
LEMMA LaunchedOnce ==
  ASSUME Frames, MayLaunch
  PROVE  \A i \in 2..Len(stack) : stack[i] # Top
<1> USE DEF Frames, TypeOK
<1>1. stack # <<>> /\ Top = stack[1] /\ Top \in Services /\ Len(stack) \in Nat
  BY FrameAt DEF MayLaunch, Top
<1> SUFFICES ASSUME NEW i \in 2..Len(stack), stack[i] = Top PROVE FALSE
  OBVIOUS
<1>2. def[Top].after = stack[i - 1] /\ i - 1 \in 1..Len(stack)
  <2>1. i \in 2..Len(stack) /\ i - 1 \in 1..Len(stack)
    BY <1>1
  <2>2. def[stack[i]].after = stack[i - 1]
    BY <2>1 DEF FramesWait
  <2> QED
    BY <2>1, <2>2
<1>3. stack[i - 1] \in Services
  BY <1>1, <1>2, FrameAt
<1>4. pid[stack[i - 1]] # NoPid
  BY <1>1, <1>2, <1>3, ManagerAssumption DEF ManagerAssumption, MayLaunch, ReturnedUp
<1>5. CASE i = 2
  BY <1>1, <1>4, <1>5 DEF MayLaunch
<1>6. CASE i > 2
  BY <1>1, <1>4, <1>6 DEF FramesWait
<1> QED
  BY <1>1, <1>5, <1>6

\* A frame that ends and returns true keeps the frames below it in order.
LEMMA ReturnKeepsFrames ==
  ASSUME Frames, TypeOK', stack # <<>>, ReturnTrue, def' = def, pid'[Top] # NoPid,
         \A i \in 2..Len(stack) : pid'[stack[i]] = NoPid
  PROVE  FramesWait' /\ ReturnedUp'
<1> USE DEF Frames, TypeOK, ReturnTrue
<1>1. /\ Top = stack[1] /\ Top \in Services /\ Len(stack) \in Nat \ {0}
      /\ Len(stack') = Len(stack) - 1
      /\ \A i \in 1..Len(stack) - 1 : stack'[i] = stack[i + 1]
      /\ stack' # <<>> => Len(stack) > 1
  BY FrameAt, PopIndex DEF Top
<1>2. FramesWait'
  <2> SUFFICES ASSUME NEW i \in 2..Len(stack')
               PROVE  pid'[stack'[i]] = NoPid /\ def'[stack'[i]].after = stack'[i - 1]
    BY DEF FramesWait
  <2>1. /\ i \in 1..Len(stack) - 1 /\ i - 1 \in 1..Len(stack) - 1
        /\ i + 1 \in 2..Len(stack) /\ (i + 1) - 1 = i /\ (i - 1) + 1 = i
    BY <1>1
  <2>2. stack'[i] = stack[i + 1] /\ stack'[i - 1] = stack[i]
    BY <2>1, <1>1
  <2> QED
    BY <2>1, <2>2 DEF FramesWait
<1>3. ReturnedUp'
  <2> SUFFICES ASSUME stack' # <<>>
               PROVE  def[Head(stack')].after \in Services /\ pid'[def[Head(stack')].after] # NoPid
    BY DEF ReturnedUp, Top
  <2>1. Head(stack') = stack[2] /\ 2 \in 2..Len(stack) /\ 2 - 1 = 1
    BY <1>1, FrameAt
  <2>2. def[stack[2]].after = stack[1]
    BY <2>1 DEF FramesWait
  <2> QED
    BY <1>1, <2>1, <2>2
<1> QED
  BY <1>2, <1>3

\* So does every step.
LEMMA FramesStep == Frames /\ [Next]_vars => FramesWait' /\ ReturnedUp'
<1> SUFFICES ASSUME Frames, [Next]_vars PROVE FramesWait' /\ ReturnedUp'
  OBVIOUS
<1>0. TypeOK'
  BY TypeStep DEF Frames
<1> USE ManagerAssumption DEF ManagerAssumption, table, kernel, history
<1>1. CASE StartRunning
  <2>1. pid'[Top] # NoPid /\ pid' = pid
    BY <1>1 DEF StartRunning
  <2>2. \A i \in 2..Len(stack) : pid'[stack[i]] = NoPid
    BY <2>1 DEF Frames, FramesWait
  <2> QED
    BY <1>0, <1>1, <2>1, <2>2, ReturnKeepsFrames DEF StartRunning
<1>2. CASE StartRefused \/ LaunchFails
  <2>1. stack' = <<>> /\ ret' = FALSE
    BY <1>2 DEF StartRefused, LaunchFails, ReturnFalse
  <2>2. \A i \in 2..Len(stack') : FALSE
    BY <2>1
  <2> QED
    BY <2>1, <2>2 DEF FramesWait, ReturnedUp
<1>3. CASE StartDependency
  <2>1. /\ stack # <<>> /\ stack \in Seq(Services) /\ def[Top].after \in Services
        /\ stack' = <<def[Top].after>> \o stack
        /\ pid[Top] = NoPid /\ ret' = FALSE /\ pid' = pid /\ def' = def
    BY <1>3 DEF StartDependency, Frames, TypeOK
  <2>2. /\ Len(stack) \in Nat \ {0} /\ Top = stack[1]
        /\ Len(stack') = Len(stack) + 1
        /\ stack'[1] = def[Top].after
        /\ \A i \in 2..Len(stack) + 1 : stack'[i] = stack[i - 1]
    BY <2>1, FrameAt, PushIndex DEF Top
  <2>3. ASSUME NEW i \in 2..Len(stack')
        PROVE  pid'[stack'[i]] = NoPid /\ def'[stack'[i]].after = stack'[i - 1]
    <3>1. CASE i = 2
      BY <2>1, <2>2, <3>1
    <3>2. CASE i > 2
      <4>1. i - 1 \in 2..Len(stack) /\ i - 1 \in 2..Len(stack) + 1 /\ i \in 2..Len(stack) + 1
        BY <2>2, <3>2
      <4>2. stack'[i] = stack[i - 1] /\ stack'[i - 1] = stack[(i - 1) - 1]
        BY <2>2, <4>1
      <4> QED
        BY <2>1, <4>1, <4>2 DEF Frames, FramesWait
    <3> QED
      BY <3>1, <3>2
  <2> QED
    BY <2>1, <2>3 DEF FramesWait, ReturnedUp
<1>4. CASE Launch
  <2>1. MayLaunch /\ stack # <<>> /\ Top \in Services /\ def' = def
    BY <1>4, PopFrame DEF Launch, MayLaunch, Top, Frames, TypeOK
  <2>2. /\ pid'[Top] # NoPid
        /\ \A s \in Services \ {Top} : pid'[s] = pid[s]
    BY <1>4, <2>1 DEF Launch, Frames, TypeOK
  <2>3. \A i \in 2..Len(stack) : stack[i] \in Services \ {Top}
    BY <2>1, LaunchedOnce, FrameAt DEF Frames, TypeOK
  <2>4. \A i \in 2..Len(stack) : pid'[stack[i]] = NoPid
    BY <2>2, <2>3 DEF Frames, FramesWait
  <2> QED
    BY <1>0, <1>4, <2>1, <2>2, <2>4, ReturnKeepsFrames DEF Launch
<1>5. ASSUME NEW s \in Services, stack' = <<s>>, ret' = FALSE
      PROVE  FramesWait' /\ ReturnedUp'
  <2>1. Len(stack') = 1
    BY <1>5, FrameIndex
  <2>2. \A i \in 2..Len(stack') : FALSE
    BY <2>1
  <2> QED
    BY <1>5, <2>2 DEF FramesWait, ReturnedUp
<1>6. CASE stack = <<>> /\ stack' = stack
  BY <1>6 DEF FramesWait, ReturnedUp
<1>7. CASE Boot
  BY <1>5, <1>6, <1>7 DEF Boot, Call, Frames, TypeOK
<1>8. CASE DrainLogs \/ ReapOther \/ ReapDone \/ NoRequest \/ Reply
  BY <1>6, <1>8 DEF DrainLogs, ReapOther, ReapDone, NoRequest, Reply
<1>9. ASSUME NEW s \in Services, Reap(s) PROVE FramesWait' /\ ReturnedUp'
  BY <1>5, <1>6, <1>9 DEF Reap, Call
<1>10. ASSUME NEW s \in Services, RequestStart(s) \/ RequestStop(s) \/ RequestRestart(s)
       PROVE  FramesWait' /\ ReturnedUp'
  BY <1>5, <1>6, <1>10 DEF RequestStart, RequestStop, RequestRestart, Call
<1>11. ASSUME NEW p \in Pids, Exit(p) \/ Die(p) \/ Adopt(p) PROVE FramesWait' /\ ReturnedUp'
  BY <1>11 DEF Exit, Die, Adopt, Frames, FramesWait, ReturnedUp, Top
<1>12. CASE UNCHANGED vars
  BY <1>12 DEF vars, Frames, FramesWait, ReturnedUp, Top
<1> QED
  BY <1>1, <1>2, <1>3, <1>4, <1>7, <1>8, <1>9, <1>10, <1>11, <1>12
     DEF Next, Manager, StartStep

LEMMA FramesInvariant == Spec => []Frames
<1>1. Init => Frames
  <2>1. Init => stack = <<>> /\ Len(stack) = 0
    BY DEF Init
  <2>2. Init => FramesWait /\ ReturnedUp
    BY <2>1 DEF FramesWait, ReturnedUp
  <2> QED
    BY <2>2, TypeInit DEF Frames
<1>2. Frames /\ [Next]_vars => Frames'
  BY FramesStep, TypeStep DEF Frames
<1> QED
  BY <1>1, <1>2, PTL DEF Spec

\* Only Launch gives a service a process, and only to the innermost frame's.
LEMMA LaunchOnlyTop ==
  ASSUME TypeOK, Next, NEW s \in Services, Launched(s)
  PROVE  Launch /\ s = Top
BY DEF Next, Manager, StartStep, StartRunning, StartRefused, StartDependency, LaunchFails,
       Launch, Boot, DrainLogs, Reap, Forget, ReapOther, ReapDone, NoRequest, RequestStart,
       RequestStop, RequestRestart, Reply, Exit, Die, Adopt, table, Launched, TypeOK

\* A service is launched only when its dependency is up, however deep the
\* chain of dependencies and whatever dies during the recursion.
THEOREM DependenciesFirst == Spec => DependencyFirst
<1>1. Frames /\ [Next]_vars =>
        [\A s \in Services : Launched(s) =>
           def[s].after = NoService \/ pid[def[s].after] # NoPid]_vars
  <2> SUFFICES ASSUME Frames, Next, NEW s \in Services, Launched(s)
               PROVE  def[s].after = NoService \/ pid[def[s].after] # NoPid
    OBVIOUS
  <2>1. Launch /\ s = Top
    BY LaunchOnlyTop DEF Frames
  <2> QED
    BY <2>1 DEF Launch, MayLaunch, Frames, ReturnedUp
<1> QED
  BY <1>1, FramesInvariant, PTL DEF Spec, DependencyFirst

-----------------------------------------------------------------------------
(* The restart budget.                                                     *)

\* The service of the outermost frame.
Root == stack[Len(stack)]

\* While a relaunch decided by the policy is on its way, its service still
\* has budget: no inner frame can have launched it.
BudgetLeft == cause = "policy" /\ stack # <<>> => starts[Root] < MaxAutoStarts

Budget == Frames /\ BudgetLeft /\ CrashLoopBounded

LEMMA RootIsFrame ==
  ASSUME TypeOK, stack # <<>>
  PROVE  Root \in Services /\ (Len(stack) = 1 => Root = Top)
BY FrameAt DEF TypeOK, Root, Top

\* Popping and pushing frames leaves the outermost frame alone.
LEMMA PopKeepsRoot ==
  ASSUME TypeOK, stack # <<>>, ReturnTrue, stack' # <<>>
  PROVE  Root' = Root
<1>1. stack' = Tail(stack) /\ Len(stack') = Len(stack) - 1 /\ Len(stack) > 1
      /\ Len(stack) \in Nat
  BY PopIndex, FrameAt DEF TypeOK, ReturnTrue
<1>2. Len(stack') \in 1..Len(stack) - 1 /\ Len(stack') + 1 = Len(stack)
  BY <1>1
<1>3. stack'[Len(stack')] = stack[Len(stack') + 1]
  BY <1>1, <1>2, PopIndex DEF TypeOK
<1> QED
  BY <1>2, <1>3 DEF Root

LEMMA PushKeepsRoot ==
  ASSUME TypeOK, stack # <<>>, NEW s \in Services, stack' = <<s>> \o stack
  PROVE  Root' = Root
<1>1. Len(stack') = Len(stack) + 1 /\ Len(stack) \in Nat \ {0}
  BY PushIndex, FrameAt DEF TypeOK
<1>2. Len(stack') \in 2..Len(stack) + 1 /\ Len(stack') - 1 = Len(stack)
  BY <1>1
<1>3. stack'[Len(stack')] = stack[Len(stack') - 1]
  BY <1>1, <1>2, PushIndex DEF TypeOK
<1> QED
  BY <1>2, <1>3 DEF Root

LEMMA BudgetStep == Budget /\ [Next]_vars => BudgetLeft' /\ CrashLoopBounded'
<1> SUFFICES ASSUME Budget, [Next]_vars PROVE BudgetLeft' /\ CrashLoopBounded'
  OBVIOUS
<1>0. TypeOK /\ TypeOK' /\ MaxAutoStarts \in Nat \ {0}
  BY TypeStep, ManagerAssumption DEF Budget, Frames, ManagerAssumption
<1> USE DEF Budget, table, kernel, history
<1>1. CASE StartRunning
  <2>1. stack' # <<>> => Root' = Root
    BY <1>0, <1>1, PopKeepsRoot DEF StartRunning
  <2> QED
    BY <1>1, <2>1 DEF StartRunning, BudgetLeft, CrashLoopBounded
<1>2. CASE StartRefused \/ LaunchFails
  BY <1>2 DEF StartRefused, LaunchFails, ReturnFalse, BudgetLeft, CrashLoopBounded
<1>3. CASE StartDependency
  <2>1. Root' = Root /\ stack # <<>>
    BY <1>0, <1>3, PushKeepsRoot DEF StartDependency
  <2> QED
    BY <1>3, <2>1 DEF StartDependency, BudgetLeft, CrashLoopBounded
<1>4. CASE Launch
  <2>1. MayLaunch /\ stack # <<>> /\ Top \in Services /\ Len(stack) \in Nat \ {0}
    BY <1>0, <1>4, FrameAt DEF Launch, MayLaunch, Top, TypeOK
  <2>2. /\ starts' = [starts EXCEPT ![Top] = Cap(starts[Top] + 1, MaxAutoStarts)]
        /\ starts[Top] \in 0..MaxAutoStarts /\ auto[Top] \in 0..MaxAutoStarts
        /\ auto[Top] =< starts[Top]
    BY <1>0, <1>4, <2>1 DEF Launch, TypeOK, CrashLoopBounded
  <2>3. BudgetLeft'
    <3> SUFFICES ASSUME cause' = "policy", stack' # <<>>
                 PROVE  starts'[Root'] < MaxAutoStarts
      BY DEF BudgetLeft
    <3>1. Root' = Root /\ cause = "policy" /\ Len(stack) > 1
      BY <1>0, <1>4, <2>1, PopKeepsRoot, PopIndex DEF Launch, ReturnTrue, TypeOK
    <3>2. Len(stack) \in 2..Len(stack)
      BY <2>1, <3>1
    <3>3. Root # Top
      BY <2>1, <3>2, LaunchedOnce DEF Root
    <3> QED
      BY <1>0, <2>1, <2>2, <3>1, <3>3, RootIsFrame DEF BudgetLeft, TypeOK
  <2>4. auto'[Top] =< starts'[Top]
    <3>1. CASE cause = "policy" /\ Len(stack) = 1
      <4>1. starts[Top] < MaxAutoStarts
        BY <1>0, <2>1, <3>1, RootIsFrame DEF BudgetLeft
      <4>2. auto'[Top] = Cap(auto[Top] + 1, MaxAutoStarts + 1)
        BY <1>0, <1>4, <2>1, <3>1 DEF Launch, TypeOK
      <4> QED
        BY <1>0, <2>1, <2>2, <4>1, <4>2 DEF Cap, TypeOK
    <3>2. CASE ~(cause = "policy" /\ Len(stack) = 1)
      <4>1. auto' = auto
        BY <1>4, <3>2 DEF Launch
      <4> QED
        BY <1>0, <2>1, <2>2, <4>1 DEF Cap, TypeOK
    <3> QED
      BY <3>1, <3>2
  <2>5. \A s \in Services \ {Top} : auto'[s] = auto[s] /\ starts'[s] = starts[s]
    BY <1>0, <1>4, <2>1, <2>2 DEF Launch, TypeOK
  <2> QED
    BY <2>3, <2>4, <2>5 DEF CrashLoopBounded
<1>5. CASE Boot
  BY <1>5 DEF Boot, Call, BudgetLeft, CrashLoopBounded
<1>6. CASE DrainLogs \/ ReapOther \/ ReapDone \/ NoRequest \/ Reply
  BY <1>6 DEF DrainLogs, ReapOther, ReapDone, NoRequest, Reply, BudgetLeft, CrashLoopBounded
<1>7. ASSUME NEW s \in Services, Reap(s) PROVE BudgetLeft' /\ CrashLoopBounded'
  <2>1. starts' = starts /\ auto' = auto /\ stack = <<>>
    BY <1>7 DEF Reap
  <2>2. ASSUME cause' = "policy", stack' # <<>>
        PROVE  stack' = <<s>> /\ starts[s] < MaxAutoStarts
    BY <1>7, <2>1, <2>2 DEF Reap, Again, HasBudget, Call
  <2>3. stack' = <<s>> => Root' = s
    BY FrameIndex DEF Root
  <2> QED
    BY <2>1, <2>2, <2>3 DEF BudgetLeft, CrashLoopBounded
<1>8. ASSUME NEW s \in Services, RequestStart(s) \/ RequestStop(s) \/ RequestRestart(s)
      PROVE  BudgetLeft' /\ CrashLoopBounded'
  <2>1. ASSUME NEW t \in Services
        PROVE  \/ auto'[t] = auto[t] /\ starts'[t] = starts[t]
               \/ auto'[t] = 0 /\ starts'[t] = 0
    <3>1. CASE RequestStart(s)
      BY <1>0, <3>1 DEF RequestStart, TypeOK
    <3>2. CASE RequestStop(s)
      BY <3>2 DEF RequestStop
    <3>3. CASE RequestRestart(s)
      BY <1>0, <3>3 DEF RequestRestart, TypeOK
    <3> QED
      BY <1>8, <3>1, <3>2, <3>3
  <2>2. BudgetLeft'
    BY <1>8 DEF RequestStart, RequestStop, RequestRestart, Call, BudgetLeft
  <2> QED
    BY <2>1, <2>2 DEF CrashLoopBounded
<1>9. ASSUME NEW p \in Pids, Exit(p) \/ Die(p) \/ Adopt(p)
      PROVE  BudgetLeft' /\ CrashLoopBounded'
  BY <1>9 DEF Exit, Die, Adopt, BudgetLeft, CrashLoopBounded, Root
<1>10. CASE UNCHANGED vars
  BY <1>10 DEF vars, BudgetLeft, CrashLoopBounded, Root
<1> QED
  BY <1>1, <1>2, <1>3, <1>4, <1>5, <1>6, <1>7, <1>8, <1>9, <1>10
     DEF Next, Manager, StartStep

\* Whatever the tables and the crashes, the policy relaunches a service at
\* most MaxAutoStarts times on one budget.
THEOREM CrashLoopsEnd == Spec => []CrashLoopBounded
<1>1. Init => BudgetLeft /\ CrashLoopBounded
  BY DEF Init, BudgetLeft, CrashLoopBounded
<1>2. Frames /\ BudgetLeft /\ CrashLoopBounded /\ [Next]_vars
        => BudgetLeft' /\ CrashLoopBounded'
  BY BudgetStep DEF Budget
<1> QED
  BY <1>1, <1>2, FramesInvariant, PTL DEF Spec

-----------------------------------------------------------------------------
(* What the operator asked for, and the log readers.                       *)

\* Every start under way, and everything the reaper would relaunch, goes back
\* to a call that wanted the service up.
WantedWasAsked ==
  /\ \A s \in Services : desired[s] \/ restartReq[s] => asked[s] = "up"
  /\ stack # <<>> => asked[Root] = "up"

LEMMA WantedStep == TypeOK /\ WantedWasAsked /\ [Next]_vars => WantedWasAsked'
<1> SUFFICES ASSUME TypeOK, WantedWasAsked, [Next]_vars PROVE WantedWasAsked'
  OBVIOUS
<1> USE DEF WantedWasAsked, table, kernel, history
<1>1. CASE StartRunning \/ Launch
  <2>1. stack # <<>> /\ Top \in Services /\ Root \in Services
    BY <1>1, FrameAt, RootIsFrame DEF StartRunning, Launch, MayLaunch, Top, TypeOK
  <2>2. stack' # <<>> => Root' = Root
    BY <1>1, <2>1, PopKeepsRoot DEF StartRunning, Launch
  <2>3. asked'[Top] = "up" /\ \A s \in Services \ {Top} : asked'[s] = asked[s]
    <3>1. CASE StartRunning
      BY <2>1, <3>1 DEF StartRunning, TypeOK
    <3>2. CASE Launch /\ Len(stack) > 1
      BY <2>1, <3>2 DEF Launch, TypeOK
    <3>3. CASE Launch /\ Len(stack) = 1
      <4>1. Root = Top
        BY <2>1, <3>3, RootIsFrame
      <4>2. asked' = [asked EXCEPT ![Top] = asked[Top]]
        BY <3>3 DEF Launch
      <4> QED
        BY <2>1, <4>1, <4>2 DEF TypeOK
    <3>4. Len(stack) = 1 \/ Len(stack) > 1
      BY <2>1, OneOrMore DEF TypeOK
    <3> QED
      BY <1>1, <3>1, <3>2, <3>3, <3>4
  <2>4. \A s \in Services \ {Top} : /\ desired'[s] = desired[s]
                                    /\ restartReq'[s] = restartReq[s]
    BY <1>1, <2>1 DEF StartRunning, Launch, TypeOK
  <2> QED
    BY <2>1, <2>2, <2>3, <2>4
<1>2. CASE StartRefused \/ LaunchFails
  BY <1>2 DEF StartRefused, LaunchFails, ReturnFalse
<1>3. CASE StartDependency
  <2>1. Root' = Root /\ stack # <<>>
    BY <1>3, PushKeepsRoot DEF StartDependency
  <2> QED
    BY <1>3, <2>1 DEF StartDependency
<1>4. ASSUME NEW s \in Services, stack' = <<s>> PROVE Root' = s
  BY <1>4, FrameIndex DEF Root
<1>5. CASE Boot
  <2>1. CASE bootLeft = {}
    BY <1>5, <2>1 DEF Boot
  <2>2. ASSUME NEW s \in bootLeft, asked' = [asked EXCEPT ![s] = "up"], Call(s, "boot")
        PROVE  WantedWasAsked'
    BY <1>4, <1>5, <2>2 DEF Boot, Call, TypeOK
  <2> QED
    BY <1>5, <2>1, <2>2 DEF Boot
<1>6. CASE DrainLogs \/ ReapOther \/ ReapDone \/ NoRequest \/ Reply
  BY <1>6 DEF DrainLogs, ReapOther, ReapDone, NoRequest, Reply
<1>7. ASSUME NEW s \in Services, Reap(s) PROVE WantedWasAsked'
  <2>1. /\ asked' = asked /\ stack = <<>>
        /\ \A t \in Services : (desired'[t] => desired[t]) /\ (restartReq'[t] => restartReq[t])
    BY <1>7 DEF Reap, TypeOK
  <2>2. stack' # <<>> => stack' = <<s>> /\ asked[s] = "up"
    BY <1>7 DEF Reap, Call, Again, PolicyRestart
  <2> QED
    BY <1>4, <2>1, <2>2
<1>8. ASSUME NEW s \in Services, RequestStart(s) PROVE WantedWasAsked'
  BY <1>4, <1>8 DEF RequestStart, Call, TypeOK
<1>9. ASSUME NEW s \in Services, RequestStop(s) PROVE WantedWasAsked'
  BY <1>9 DEF RequestStop, TypeOK
<1>10. ASSUME NEW s \in Services, RequestRestart(s) PROVE WantedWasAsked'
  BY <1>4, <1>10 DEF RequestRestart, Call, TypeOK
<1>11. ASSUME NEW p \in Pids, Exit(p) \/ Die(p) \/ Adopt(p) PROVE WantedWasAsked'
  BY <1>11 DEF Exit, Die, Adopt, Root
<1>12. CASE UNCHANGED vars
  BY <1>12 DEF vars, Root
<1> QED
  BY <1>1, <1>2, <1>3, <1>5, <1>6, <1>7, <1>8, <1>9, <1>10, <1>11, <1>12
     DEF Next, Manager, StartStep

\* A stopped service is relaunched only when a later request, or a dependent,
\* asks for it.
THEOREM StoppedServicesStayStopped == Spec => StoppedStaysStopped
<1>1. Init => WantedWasAsked
  BY DEF Init, WantedWasAsked
<1>2. TypeOK /\ WantedWasAsked /\ [Next]_vars =>
        [\A s \in Services : Launched(s) /\ Len(stack) = 1 => asked[s] = "up"]_vars
  <2> SUFFICES ASSUME TypeOK, WantedWasAsked, Next,
                      NEW s \in Services, Launched(s), Len(stack) = 1
               PROVE  asked[s] = "up"
    OBVIOUS
  <2>1. Launch /\ s = Top
    BY LaunchOnlyTop
  <2> QED
    BY <2>1, RootIsFrame DEF Launch, MayLaunch, WantedWasAsked
<1> QED
  BY <1>1, <1>2, WantedStep, TypeCorrect, PTL DEF Spec, StoppedStaysStopped

\* A log reader of a service without a process is open only when offspring
\* of the service holds the pipe.
ReadersClosed ==
  \A s \in Services : logOpen[s] /\ pid[s] = NoPid => s \in Lingering

\* The relaunch never drops a reader that the reaper could have drained.
THEOREM LogReadersAreKept == Spec => []LogReaderKept
<1>1. Init => ReadersClosed /\ LogReaderKept
  BY DEF Init, ReadersClosed, LogReaderKept
<1>2. TypeOK /\ ReadersClosed /\ LogReaderKept /\ [Next]_vars
        => ReadersClosed' /\ LogReaderKept'
  <2> SUFFICES ASSUME TypeOK, ReadersClosed, LogReaderKept, [Next]_vars
               PROVE  ReadersClosed' /\ LogReaderKept'
    OBVIOUS
  <2> USE DEF TypeOK, ReadersClosed, LogReaderKept, table, kernel, history
  <2>1. CASE Launch
    <3>1. pid[Top] = NoPid /\ Top \in Services
      BY <2>1, FrameAt DEF Launch, MayLaunch, Top
    <3>2. /\ pid'[Top] \in Pids
          /\ \A s \in Services \ {Top} : pid'[s] = pid[s] /\ logOpen'[s] = logOpen[s]
      BY <2>1, <3>1 DEF Launch
    <3>3. LogReaderKept'
      BY <2>1, <3>1 DEF Launch
    <3> QED
      BY <3>1, <3>2, <3>3, ManagerAssumption DEF ManagerAssumption
  <2>2. CASE DrainLogs
    BY <2>2 DEF DrainLogs
  <2>3. ASSUME NEW s \in Services, Reap(s) PROVE ReadersClosed' /\ LogReaderKept'
    BY <2>3 DEF Reap, Forget, ReaderAfterDeath
  <2>4. CASE UNCHANGED <<pid, logOpen, leaked>>
    BY <2>4
  <2> QED
    BY <2>1, <2>2, <2>3, <2>4
    DEF Next, Manager, StartStep, StartRunning, StartRefused, StartDependency,
       LaunchFails, Boot, ReapOther, ReapDone, NoRequest, RequestStart, RequestStop,
       RequestRestart, Reply, Exit, Die, Adopt, vars
<1> QED
  BY <1>1, <1>2, TypeCorrect, PTL DEF Spec
=============================================================================
