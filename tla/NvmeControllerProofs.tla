------------------------ MODULE NvmeControllerProofs ------------------------
(***************************************************************************)
(* The controller and its driver, for every number of queue pairs and of   *)
(* link failures.  Neither property is inductive: what the main loop finds *)
(* when it comes to a branch depends on what the driver has asked for and  *)
(* on the causes the handler has not looked at yet.  The invariant         *)
(* tabulates, for each thing the driver may be doing, how far the loop may *)
(* be and which status it may find, as long as no status was overwritten.  *)
(***************************************************************************)
EXTENDS NvmeController, TLAPS

Registers == [ccEn : 0 .. 1, ccShn : 0 .. 2, cstsRdy : 0 .. 1, cstsShst : 0 .. 2]
QueueSets == [admin : BOOLEAN, sq : [Qids -> Qids \cup {0}], cq : SUBSET Qids]

\* the loop is between branches and finds this status
Waits(status) == main = InLoop /\ task.status = status

\* the loop has done this step of a branch and the handler has left, or put,
\* one of these statuses
Works(branch, step, statuses) ==
    main = [branch |-> branch, step |-> step] /\ task.status \in statuses

\* nothing of a driver is kept
Nothing == queues.cq = {} /\ (\A q \in Qids : queues.sq[q] = 0) /\ task.cacheEn = 0

\* CC, CSTS.RDY and CSTS.SHST
CC(en, shn) == reg.ccEn = en /\ reg.ccShn = shn
CSTS(rdy, shst) == reg.cstsRdy = rdy /\ reg.cstsShst = shst

\* a controller that is not ready and was not asked to be
Resting ==
    /\ CSTS(0, 0)
    /\ \/ Waits("IDLE") \/ Waits("RESET")
       \/ Works("RESET", 1, {"RESET"}) \/ Works("RESET", 2, {"RESET"})
       \/ Works("WAIT_RESET", 2, {"WAIT_RESET", "RESET"})

\* one that was asked to be ready, perhaps before it had finished a reset
Starting(statuses) ==
    /\ CSTS(0, 0)
    /\ \/ Waits("WAIT_CC_EN")
       \/ Works("RESET", 1, {"WAIT_CC_EN"}) \/ Works("RESET", 2, {"WAIT_CC_EN"})
       \/ Works("WAIT_RESET", 2, {"WAIT_CC_EN"})
       \/ (Works("WAIT_CC_EN", 1, statuses) /\ queues.admin)

Serving ==
    /\ CSTS(1, 0) /\ queues.admin
    /\ Waits("RUNNING") \/ Works("WAIT_CC_EN", 2, {"WAIT_CC_EN"})

\* one that was asked to shut down and is about to, is at it, or has
Asked == CSTS(1, 0) /\ (Waits("SHUTDOWN") \/ Works("WAIT_CC_EN", 2, {"SHUTDOWN"}))
Closing(statuses) == CSTS(1, 1) /\ Works("SHUTDOWN", 1, statuses)
Closed(statuses) ==
    /\ CSTS(1, 2)
    /\ \/ Waits("WAIT_RESET") \/ (Waits("RESET") /\ "RESET" \in statuses)
       \/ Works("SHUTDOWN", 2, statuses)

\* one that is ready and is to be reset
Resetting ==
    /\ CSTS(1, 0)
    /\ \/ Waits("RESET")
       \/ Works("RESET", 1, {"RESET"}) \/ Works("WAIT_CC_EN", 2, {"RESET"})
       \/ Works("WAIT_RESET", 1, {"WAIT_RESET", "RESET"})

\* What the driver is doing and what the controller makes of it.
Together ==
    \/ host = "off" /\ CC(0, 0) /\ Resting
    \/ /\ host = "enabling" /\ CC(1, 0)
       /\ \/ "nvmeCcEn" \in irq /\ Resting
          \/ irq = {} /\ (Starting({"WAIT_CC_EN"}) \/ Serving)
    \/ host = "on" /\ CC(1, 0) /\ irq = {} /\ Serving
    \/ /\ host = "stopping" /\ CC(1, 1)
       /\ \/ irq = {"nvmeCcShn"} /\ Serving
          \/ irq = {} /\ (Asked \/ Closing({"SHUTDOWN"}) \/ Closed({"SHUTDOWN"}))
    \/ host = "stopping" /\ CC(1, 2) /\ irq \subseteq {"nvmeCcShn"} /\ Serving
    \/ host = "stopped" /\ CC(1, 1) /\ irq = {} /\ Closed({"SHUTDOWN"})
    \/ /\ host = "disabling" /\ CC(0, 0)
       /\ Resting \/ Serving \/ Resetting \/ Closed({"SHUTDOWN", "RESET"})
    \/ /\ host = "gone" /\ CC(0, 0)
       /\ \/ Resting \/ Serving \/ Resetting \/ Closed({"SHUTDOWN", "RESET"})
          \/ Closing({"SHUTDOWN", "RESET"})
          \/ CSTS(0, 0) /\ Works("WAIT_CC_EN", 1, {"RESET"})
          \/ "pcieLink" \in irq /\ (Starting({"WAIT_CC_EN"}) \/ Asked)

\* What a driver leaves is there only while the loop serves it, or has not yet
\* come to the branch that clears it.
Kept ==
    Nothing \/ (CSTS(1, 0) /\ (Waits("RUNNING") \/ Waits("SHUTDOWN") \/ Waits("RESET")))

ControllerInv ==
    /\ TypeOK
    /\ link.up = (host # "gone")
    /\ cmd # NoCmd => host = "on"
    /\ ~lost => Together /\ Kept

(***************************************************************************)
(* The main loop.                                                          *)
(***************************************************************************)

USE DEF Registers, QueueSets

\* Initially nothing runs and nothing is kept.
LEMMA InitController == Init => ControllerInv
<1> SUFFICES ASSUME Init PROVE ControllerInv
  OBVIOUS
<1>1. TypeOK
  <2>1. MaxLinkDowns \in Nat /\ 0 \in 0 .. MaxLinkDowns
    BY QueueAssumption
  <2>2. reg \in Registers
    BY DEF Init
  <2>3. queues \in QueueSets
    BY DEF Init, NoQueues
  <2>4. task \in [status : Status, cacheEn : 0 .. 1]
    BY DEF Init, Status
  <2>5. main \in [branch : Status \cup {"none"}, step : 0 .. 2]
    BY DEF Init, InLoop
  <2>6. link \in [up : BOOLEAN, downs : 0 .. MaxLinkDowns]
    BY <2>1 DEF Init
  <2> QED BY <2>2, <2>3, <2>4, <2>5, <2>6 DEF Init, TypeOK
<1>2. Together
  BY DEF Init, Together, CC, Resting, CSTS, Waits
<1>3. Kept
  BY DEF Init, Kept, Nothing, NoQueues
<1> QED BY <1>1, <1>2, <1>3 DEF Init, ControllerInv

\* A change of CC keeps the registers typed.
LEMMA CCTyped ==
    ASSUME NEW r \in Registers, NEW en \in 0 .. 1, NEW shn \in 0 .. 2
    PROVE  [r EXCEPT !.ccEn = en, !.ccShn = shn] \in Registers
BY DEF Registers

\* A branch of the loop begins.
LEMMA BranchBegins == ControllerInv /\ (Enable \/ Shutdown \/ Disable \/ Reset) => ControllerInv'
<1> SUFFICES ASSUME ControllerInv, Enable \/ Shutdown \/ Disable \/ Reset PROVE ControllerInv'
  OBVIOUS
<1> USE DEF ControllerInv
<1>1. TypeOK'
  <2>0. /\ reg \in Registers
        /\ queues \in QueueSets
        /\ task \in [status : Status, cacheEn : 0 .. 1]
    BY DEF TypeOK
  <2>1. /\ main' \in [branch : Status \cup {"none"}, step : 0 .. 2]
        /\ UNCHANGED <<irq, link, host, cmd, lost>>
    BY DEF Branch, Enable, Shutdown, Disable, Reset, Status
  <2>2. reg' \in Registers
    BY <2>0 DEF Branch, Enable, Shutdown, Disable, Reset
  <2>3. queues' \in QueueSets
    <3>1. NoQueues \in QueueSets
      BY DEF NoQueues
    <3> QED BY <2>0, <3>1 DEF Branch, Enable, Shutdown, Disable, Reset
  <2>4. task' \in [status : Status, cacheEn : 0 .. 1]
    BY <2>0 DEF Branch, Enable, Shutdown, Disable, Reset
  <2> QED BY <2>1, <2>2, <2>3, <2>4 DEF TypeOK
<1>2. ASSUME ~lost PROVE Together'
  <2>1. CASE Enable
    BY <1>2, <2>1 DEF TypeOK, Branch, Enable, Together, CC, CSTS, Resting,
          Starting, Serving, Asked, Closing, Closed, Resetting, Waits, Works,
          InLoop
  <2>2. CASE Shutdown
    BY <1>2, <2>2 DEF TypeOK, Branch, Shutdown, Together, CC, CSTS, Resting,
          Starting, Serving, Asked, Closing, Closed, Resetting, Waits, Works,
          InLoop
  <2>3. CASE Disable
    BY <1>2, <2>3 DEF TypeOK, Branch, Disable, Together, CC, CSTS, Resting,
          Starting, Serving, Asked, Closing, Closed, Resetting, Waits, Works,
          InLoop
  <2>4. CASE Reset
    BY <1>2, <2>4 DEF TypeOK, Branch, Reset, Together, CC, CSTS, Resting,
          Starting, Serving, Asked, Closing, Closed, Resetting, Waits, Works,
          InLoop
  <2> QED BY <2>1, <2>2, <2>3, <2>4
<1>3. ASSUME ~lost PROVE Kept'
  BY <1>3 DEF TypeOK, Branch, Enable, Shutdown, Disable, Reset, NoQueues,
        InLoop, Kept, Nothing, CSTS, Waits
<1> QED BY <1>1, <1>2, <1>3 DEF Branch, Enable, Shutdown, Disable, Reset

\* A branch writes CSTS.
LEMMA ReportKept == ControllerInv /\ Report => ControllerInv'
<1> SUFFICES ASSUME ControllerInv, Report PROVE ControllerInv'
  OBVIOUS
<1> USE DEF ControllerInv
<1>1. TypeOK'
  <2>1. /\ reg \in Registers
        /\ main \in [branch : Status \cup {"none"}, step : 0 .. 2]
    BY DEF TypeOK
  <2>2. reg' \in Registers
    BY <2>1 DEF Report
  <2>3. main' \in [branch : Status \cup {"none"}, step : 0 .. 2]
    BY <2>1 DEF Report
  <2> QED BY <2>2, <2>3 DEF TypeOK, Report
<1>2. ASSUME ~lost PROVE Together'
  BY <1>2 DEF TypeOK, Report, Together, CC, CSTS, Resting, Starting, Serving,
        Asked, Closing, Closed, Resetting, Waits, Works, InLoop
<1>3. ASSUME ~lost PROVE Kept'
  BY <1>3 DEF TypeOK, Report, Kept, Nothing, CSTS, Waits, InLoop
<1> QED BY <1>1, <1>2, <1>3 DEF Report

\* A branch stores the next status.  Unless that loses one, the status it
\* finds is its own or a reset that it has served as well.
LEMMA StoreStatusKept == ControllerInv /\ StoreStatus => ControllerInv'
<1> SUFFICES ASSUME ControllerInv, StoreStatus PROVE ControllerInv'
  OBVIOUS
<1> USE DEF ControllerInv
<1>1. TypeOK'
  <2>1. task \in [status : Status, cacheEn : 0 .. 1] /\ lost \in BOOLEAN
    BY DEF TypeOK
  <2>2. task' \in [status : Status, cacheEn : 0 .. 1]
    BY <2>1 DEF StoreStatus, NextStatus, Status
  <2>3. main' \in [branch : Status \cup {"none"}, step : 0 .. 2]
    BY DEF StoreStatus, InLoop
  <2>4. lost' \in BOOLEAN
    BY DEF StoreStatus
  <2> QED BY <2>2, <2>3, <2>4 DEF TypeOK, StoreStatus
<1>2. ASSUME ~lost' PROVE Together'
  <2>1. ~lost /\ (task.status # main.branch => task.status = "RESET" /\ main.branch # "WAIT_CC_EN")
    BY <1>2 DEF StoreStatus, Loses
  <2>2. main'.branch = "none" /\ main' = InLoop /\ task'.status = NextStatus(main.branch)
    BY DEF StoreStatus, InLoop, TypeOK
  <2> QED BY <2>1, <2>2 DEF TypeOK, StoreStatus, NextStatus, Together, CC,
        CSTS, Resting, Starting, Serving, Asked, Closing, Closed, Resetting,
        Waits, Works, InLoop
<1>3. ASSUME ~lost' PROVE Kept'
  BY <1>3 DEF TypeOK, StoreStatus, Kept, Nothing, CSTS, Waits, InLoop
<1> QED BY <1>1, <1>2, <1>3 DEF StoreStatus

\* A command is handled: a driver sends one only while the loop serves it.
LEMMA HandleCommandKept == ControllerInv /\ HandleCommand => ControllerInv'
<1> SUFFICES ASSUME ControllerInv, HandleCommand PROVE ControllerInv'
  OBVIOUS
<1> USE DEF ControllerInv
<1>1. TypeOK'
  <2>1. /\ queues \in QueueSets
        /\ task \in [status : Status, cacheEn : 0 .. 1]
        /\ cmd \in AdminCmds
    BY DEF TypeOK, HandleCommand
  <2>2. cmd.qid \in Qids
    BY <2>1 DEF AdminCmds
  <2>3. queues' \in QueueSets
    BY <2>1, <2>2 DEF HandleCommand, AdminEffect
  <2>4. task' \in [status : Status, cacheEn : 0 .. 1]
    BY <2>1 DEF HandleCommand
  <2> QED BY <2>3, <2>4 DEF TypeOK, HandleCommand
<1>2. ASSUME ~lost PROVE Together' /\ Kept'
  <2>1. host = "on" /\ CC(1, 0) /\ irq = {} /\ Serving
    BY <1>2 DEF HandleCommand, Together
  <2>2. queues'.admin = queues.admin /\ task'.status = task.status
    BY DEF TypeOK, HandleCommand, AdminEffect
  <2>3. Serving' /\ CC(1, 0)' /\ host' = "on" /\ irq' = {}
    BY <2>1, <2>2 DEF HandleCommand, Serving, CSTS, CC, Waits, Works
  <2> QED BY <2>1, <2>2, <2>3 DEF HandleCommand, Together, Kept, Serving,
        Waits, CSTS
<1> QED BY <1>1, <1>2 DEF HandleCommand

\* The handler looks at the registers.
LEMMA HandlerKept == ControllerInv /\ dev_irq_handler => ControllerInv'
<1> SUFFICES ASSUME ControllerInv, dev_irq_handler PROVE ControllerInv'
  OBVIOUS
<1> USE DEF ControllerInv
<1>1. TypeOK'
  <2>1. task \in [status : Status, cacheEn : 0 .. 1]
    BY DEF TypeOK
  <2>2. task' \in [status : Status, cacheEn : 0 .. 1] /\ irq' = {}
    BY <2>1 DEF dev_irq_handler, Status
  <2> QED BY <2>2 DEF TypeOK, dev_irq_handler
<1>2. ASSUME ~lost PROVE Together'
  BY <1>2 DEF TypeOK, dev_irq_handler, Together, CC, CSTS, Resting, Starting,
        Serving, Asked, Closing, Closed, Resetting, Waits, Works, InLoop
<1>3. ASSUME ~lost PROVE Kept'
  BY <1>3 DEF TypeOK, dev_irq_handler, Together, CC, CSTS, Resting, Starting,
        Serving, Asked, Closing, Closed, Resetting, Waits, Works, InLoop, Kept,
        Nothing
<1> QED BY <1>1, <1>2, <1>3 DEF dev_irq_handler

(***************************************************************************)
(* The driver and the link.                                                *)
(***************************************************************************)

\* A write of CC changes CC and latches causes, and nothing else.
LEMMA WriteCCFacts ==
    ASSUME TypeOK, NEW en \in 0 .. 1, NEW shn \in 0 .. 2, WriteCC(en, shn)
    PROVE  /\ reg' \in Registers
           /\ reg'.ccEn = en /\ reg'.ccShn = shn
           /\ reg'.cstsRdy = reg.cstsRdy /\ reg'.cstsShst = reg.cstsShst
           /\ irq \subseteq irq' /\ irq' \subseteq irq \cup {"nvmeCcEn", "nvmeCcShn"}
           /\ "nvmeCcEn" \in irq' <=> "nvmeCcEn" \in irq \/ en # reg.ccEn
           /\ "nvmeCcShn" \in irq' <=> "nvmeCcShn" \in irq \/ shn # reg.ccShn
<1>1. reg \in Registers
  BY DEF TypeOK
<1> QED BY <1>1 DEF WriteCC

\* The driver starts the controller, disables it, or shuts it down.
LEMMA HostAsks ==
    /\ ControllerInv
    /\ HostEnable \/ HostDisable \/ \E shn \in 1 .. 2 : HostShutdown(shn)
    => ControllerInv'
<1> SUFFICES ASSUME ControllerInv,
                    HostEnable \/ HostDisable \/ \E shn \in 1 .. 2 : HostShutdown(shn)
             PROVE  ControllerInv'
  OBVIOUS
<1> USE DEF ControllerInv
<1>1. PICK en \in 0 .. 1, shn \in 0 .. 2 : WriteCC(en, shn)
  BY DEF HostEnable, HostDisable, HostShutdown
<1>2. /\ reg' \in Registers
      /\ irq \subseteq irq' /\ irq' \subseteq irq \cup {"nvmeCcEn", "nvmeCcShn"}
  BY <1>1, WriteCCFacts
<1>3. UNCHANGED <<queues, task, main, link, lost>>
  BY DEF HostEnable, HostDisable, HostShutdown, HostIdle
<1>4. TypeOK'
  BY <1>2, <1>3 DEF TypeOK, HostEnable, HostDisable, HostShutdown, HostIdle
<1>5. ASSUME ~lost PROVE Together'
  <2>1. CASE HostEnable
    <3>1. WriteCC(1, 0) /\ host = "off" /\ host' = "enabling"
      BY <2>1 DEF HostEnable, HostIdle
    <3>2. "nvmeCcEn" \in irq' /\ CC(1, 0)' /\ CC(0, 0) /\ Resting
      BY <1>5, <3>1, WriteCCFacts DEF Together, CC
    <3>3. Resting'
      BY <1>3, <3>1, <3>2, WriteCCFacts DEF Resting, CSTS, Waits, Works
    <3> QED BY <3>1, <3>2, <3>3 DEF Together
  <2>2. CASE HostDisable
    <3>1. WriteCC(0, 0) /\ host \in {"stopped", "on", "stopping"} /\ host' = "disabling"
          /\ (host = "stopping" => reg.ccShn = 2)
      BY <2>2 DEF HostDisable, HostIdle
    <3>2. CC(0, 0)' /\ (Serving \/ Closed({"SHUTDOWN"}))
      BY <1>5, <3>1, WriteCCFacts DEF Together, CC
    <3>3. Serving' \/ Closed({"SHUTDOWN", "RESET"})'
      BY <1>3, <3>1, <3>2, WriteCCFacts DEF Serving, Closed, CSTS, Waits, Works
    <3> QED BY <3>1, <3>2, <3>3 DEF Together
  <2>3. CASE \E shn_1 \in 1 .. 2 : HostShutdown(shn_1)
    <3>1. PICK k \in 1 .. 2 : HostShutdown(k)
      BY <2>3
    <3>2. WriteCC(1, k) /\ host = "on" /\ host' = "stopping" /\ k \in 0 .. 2
      BY <3>1 DEF HostShutdown, HostIdle
    <3>3. CC(1, 0) /\ irq = {} /\ Serving /\ CC(1, k)'
      BY <1>5, <3>2, WriteCCFacts DEF Together, CC
    <3>4. irq' = {"nvmeCcShn"}
      BY <3>2, <3>3, WriteCCFacts DEF CC
    <3>5. Serving'
      BY <1>3, <3>2, <3>3, WriteCCFacts DEF Serving, CSTS, Waits, Works
    <3>6. k = 1 \/ k = 2
      OBVIOUS
    <3> QED BY <3>2, <3>3, <3>4, <3>5, <3>6 DEF Together
  <2> QED BY <2>1, <2>2, <2>3
<1>6. ASSUME ~lost PROVE Kept'
  BY <1>1, <1>3, <1>6, WriteCCFacts DEF Kept, Nothing, CSTS, Waits
<1> QED BY <1>3, <1>4, <1>5, <1>6 DEF HostEnable, HostDisable, HostShutdown,
      HostIdle

\* The driver sees its answer, or sends a command.
LEMMA HostGoesOn ==
    ControllerInv /\ (HostSees \/ \E c \in AdminCmds : HostCommand(c)) => ControllerInv'
<1> SUFFICES ASSUME ControllerInv, HostSees \/ \E c \in AdminCmds : HostCommand(c)
             PROVE  ControllerInv'
  OBVIOUS
<1> USE DEF ControllerInv
<1>1. UNCHANGED <<reg, irq, queues, task, main, link, lost>>
  BY DEF HostSees, HostCommand, HostIdle
<1>2. TypeOK'
  BY <1>1 DEF TypeOK, HostSees, HostCommand, HostIdle
<1>3. ASSUME ~lost PROVE Together'
  <2>1. CASE HostSees
    BY <1>1, <1>3, <2>1 DEF TypeOK, HostSees, HostIdle, Together, CC, CSTS,
          Resting, Starting, Serving, Asked, Closing, Closed, Resetting, Waits,
          Works
  <2>2. CASE \E c \in AdminCmds : HostCommand(c)
    BY <1>1, <1>3, <2>2 DEF HostCommand, HostIdle, Together, CC, CSTS, Serving,
          Waits, Works
  <2> QED BY <2>1, <2>2
<1>4. ASSUME ~lost PROVE Kept'
  BY <1>1, <1>4 DEF Kept, Nothing, CSTS, Waits
<1> QED BY <1>1, <1>2, <1>3, <1>4 DEF HostSees, HostCommand, HostIdle

\* The link goes down, or has been trained again.
LEMMA LinkChanges == ControllerInv /\ (LinkDown \/ LinkUp) => ControllerInv'
<1> SUFFICES ASSUME ControllerInv, LinkDown \/ LinkUp PROVE ControllerInv'
  OBVIOUS
<1> USE DEF ControllerInv
<1>1. UNCHANGED <<queues, task, main, lost>>
  BY DEF LinkDown, LinkUp
<1>2. TypeOK'
  <2>1. /\ reg \in Registers
        /\ link \in [up : BOOLEAN, downs : 0 .. MaxLinkDowns]
        /\ MaxLinkDowns \in Nat
    BY QueueAssumption DEF TypeOK
  <2>2. reg' \in Registers
    <3>1. CASE LinkDown
      <4>1. reg' = [reg EXCEPT !.ccEn = 0, !.ccShn = 0]
        BY <3>1 DEF LinkDown
      <4>2. 0 \in 0 .. 1 /\ 0 \in 0 .. 2
        OBVIOUS
      <4> HIDE DEF Registers
      <4>3. [reg EXCEPT !.ccEn = 0, !.ccShn = 0] \in Registers
        BY <2>1, <4>2, CCTyped, Zenon
      <4> QED BY <4>1, <4>3
    <3>2. CASE LinkUp
      BY <2>1, <3>2 DEF LinkUp
    <3> QED BY <3>1, <3>2
  <2>3. link' \in [up : BOOLEAN, downs : 0 .. MaxLinkDowns]
    <3>1. CASE LinkDown
      <4>1. link.downs \in Nat /\ link.downs + 1 \in 0 .. MaxLinkDowns
        BY <2>1, <3>1 DEF LinkDown
      <4> QED BY <3>1, <4>1 DEF LinkDown
    <3>2. CASE LinkUp
      BY <2>1, <3>2 DEF LinkUp
    <3> QED BY <3>1, <3>2
  <2> QED BY <1>1, <2>2, <2>3 DEF TypeOK, LinkDown, LinkUp
<1>3. ASSUME ~lost PROVE Together'
  <2>1. CASE LinkDown
    <3>1. /\ host # "gone" /\ host' = "gone" /\ "pcieLink" \in irq' /\ CC(0, 0)'
          /\ reg'.cstsRdy = reg.cstsRdy /\ reg'.cstsShst = reg.cstsShst
      BY <2>1 DEF LinkDown, TypeOK, CC
    <3> QED BY <1>1, <1>3, <3>1 DEF Together, CC, CSTS, Resting, Starting,
          Serving, Asked, Closing, Closed, Resetting, Waits, Works
  <2>2. CASE LinkUp
    <3>1. host = "gone" /\ host' = "disabling" /\ reg' = reg /\ irq = {} /\ main = InLoop
      BY <2>2 DEF LinkUp
    <3> QED BY <1>1, <1>3, <3>1 DEF Together, CC, CSTS, Resting, Starting,
          Serving, Asked, Closing, Closed, Resetting, Waits, Works, InLoop
  <2> QED BY <2>1, <2>2
<1>4. ASSUME ~lost PROVE Kept'
  BY <1>1, <1>4 DEF LinkDown, LinkUp, TypeOK, Kept, Nothing, CSTS, Waits
<1> QED BY <1>1, <1>2, <1>3, <1>4 DEF LinkDown, LinkUp, TypeOK

\* The invariant holds in every reachable state, whatever the order in which
\* loop, handler, driver and link take their steps.
THEOREM ControllerInvariant == Spec => []ControllerInv
<1>1. Init => ControllerInv
  BY InitController
<1>2. ControllerInv /\ [Next]_vars => ControllerInv'
  <2> SUFFICES ASSUME ControllerInv, [Next]_vars PROVE ControllerInv'
    OBVIOUS
  <2>1. CASE MainLoop
    BY <2>1, BranchBegins, ReportKept, StoreStatusKept, HandleCommandKept DEF
          MainLoop
  <2>2. CASE dev_irq_handler
    BY <2>2, HandlerKept
  <2>3. CASE HostEnable \/ HostDisable \/ \E shn \in 1 .. 2 : HostShutdown(shn)
    BY <2>3, HostAsks
  <2>4. CASE HostSees \/ \E c \in AdminCmds : HostCommand(c)
    BY <2>4, HostGoesOn
  <2>5. CASE LinkDown \/ LinkUp
    BY <2>5, LinkChanges
  <2>6. CASE UNCHANGED vars
    BY <2>6 DEF vars, ControllerInv, TypeOK, Together, Kept, Nothing, CC, CSTS,
          Resting, Starting, Serving, Asked, Closing, Closed, Resetting, Waits,
          Works
  <2> QED BY <2>1, <2>2, <2>3, <2>4, <2>5, <2>6 DEF Next
<1> QED BY <1>1, <1>2, PTL DEF Spec

\* A controller that reports that it is not ready, or that its shutdown is
\* complete, has no I/O queue and no cache setting of the driver before.
THEOREM NothingLeftBehindTheorem == Spec => []NothingLeftBehind
<1>1. ControllerInv => NothingLeftBehind
  BY DEF ControllerInv, Kept, Nothing, CSTS, NothingLeftBehind
<1> QED BY <1>1, ControllerInvariant, PTL

\* The driver sends commands only to a controller that fetches them.
THEOREM ReadyMeansRunningTheorem == Spec => []ReadyMeansRunning
<1>1. ControllerInv => ReadyMeansRunning
  BY DEF ControllerInv, Together, Serving, Waits, Works, ReadyMeansRunning
<1> QED BY <1>1, ControllerInvariant, PTL

=============================================================================
