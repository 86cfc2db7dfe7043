--------------------------- MODULE NvmeController ---------------------------
(***************************************************************************)
(* The controller as the host driver sees it: the main loop of nvme_main.c,*)
(* the interrupt handler of host_lld.c and the admin commands that set up  *)
(* queues.  Loop and handler share the word g_nvmeTask.status without a    *)
(* lock.  A branch of the loop tests the word, works, writes CSTS, which   *)
(* lets the host go on, and only then stores the next status; the handler  *)
(* may run between any two of these steps and store another one.           *)
(*                                                                         *)
(* External: the host follows the NVMe protocol and waits for CSTS before  *)
(* its next change of CC; the hardware latches the causes of an interrupt, *)
(* drops queued commands when the controller is disabled, clears CC when   *)
(* the link goes down, and training the link again takes longer than a     *)
(* branch of the loop and the handler; a write of the status register by   *)
(* the firmware changes CSTS only.                                         *)
(***************************************************************************)
EXTENDS Naturals, FiniteSets

CONSTANTS
    QUEUE_NUM,      \* I/O queue pairs
    MaxLinkDowns,   \* how often the link goes down
    NoCmd

ASSUME QueueAssumption == QUEUE_NUM \in 1 .. 8 /\ MaxLinkDowns \in Nat

Qids == 1 .. QUEUE_NUM

Status == {"IDLE", "WAIT_CC_EN", "RUNNING", "SHUTDOWN", "WAIT_RESET", "RESET"}

\* admin commands on a queue; the ones that touch none carry queue 1
AdminCmds ==
    [opc : {"CREATE_IO_CQ", "CREATE_IO_SQ", "DELETE_IO_SQ", "DELETE_IO_CQ",
            "SET_CACHE", "ASYNC_EVENT"}, qid : Qids]

VARIABLES
    reg,        \* NVME_STATUS_REG
    irq,        \* DEV_IRQ_STATUS_REG: the causes latched
    queues,     \* the admin queue bit, the completion queue of each valid SQ, the CQs
    task,       \* g_nvmeTask
    main,       \* the branch of the loop and how far it is
    link,       \* up or not, and how often it went down
    host,       \* what the driver is doing
    cmd,        \* the command in the FIFO
    lost        \* a change of status was overwritten before it was served

vars == <<reg, irq, queues, task, main, link, host, cmd, lost>>

NoQueues == [admin |-> FALSE, sq |-> [q \in Qids |-> 0], cq |-> {}]
InLoop == [branch |-> "none", step |-> 0]

Init ==
    /\ reg = [ccEn |-> 0, ccShn |-> 0, cstsRdy |-> 0, cstsShst |-> 0]
    /\ irq = {}
    /\ queues = NoQueues
    /\ task = [status |-> "IDLE", cacheEn |-> 0]
    /\ main = InLoop
    /\ link = [up |-> TRUE, downs |-> 0]
    /\ host = "off"
    /\ cmd = NoCmd
    /\ lost = FALSE

(***************************************************************************)
(* The main loop.                                                          *)
(***************************************************************************)
Branch(status, enabled) ==
    /\ main = InLoop /\ task.status = status /\ enabled
    /\ main' = [branch |-> status, step |-> 1]
    /\ UNCHANGED <<irq, link, host, cmd, lost>>

Enable ==
    /\ Branch("WAIT_CC_EN", reg.ccEn = 1)
    /\ queues' = [queues EXCEPT !.admin = TRUE]
    /\ UNCHANGED <<reg, task>>

Shutdown ==
    /\ Branch("SHUTDOWN", reg.ccShn # 0)
    /\ reg' = [reg EXCEPT !.cstsShst = 1]
    /\ queues' = NoQueues
    /\ task' = [task EXCEPT !.cacheEn = 0]

Disable ==
    /\ Branch("WAIT_RESET", reg.ccEn = 0)
    /\ reg' = [reg EXCEPT !.cstsShst = 0]
    /\ task' = [task EXCEPT !.cacheEn = 0]
    /\ UNCHANGED queues

\* Mutant of Reset: the queues of the host before stay valid.
ResetKeepsQueues ==
    /\ Branch("RESET", TRUE)
    /\ reg' = [reg EXCEPT !.cstsShst = 0]
    /\ queues' = [queues EXCEPT !.admin = FALSE]
    /\ task' = [task EXCEPT !.cacheEn = 0]

Reset ==
    /\ Branch("RESET", TRUE)
    /\ reg' = [reg EXCEPT !.cstsShst = 0]
    /\ queues' = NoQueues
    /\ task' = [task EXCEPT !.cacheEn = 0]

\* the write of CSTS that the host waits for
Report ==
    /\ main.step = 1
    /\ reg' = CASE main.branch = "WAIT_CC_EN" -> [reg EXCEPT !.cstsRdy = 1]
                [] main.branch = "SHUTDOWN"   -> [reg EXCEPT !.cstsShst = 2]
                [] OTHER                      -> [reg EXCEPT !.cstsRdy = 0]
    /\ main' = [main EXCEPT !.step = 2]
    /\ UNCHANGED <<irq, queues, task, link, host, cmd, lost>>

NextStatus(branch) ==
    CASE branch = "WAIT_CC_EN" -> "RUNNING"
      [] branch = "SHUTDOWN"   -> "WAIT_RESET"
      [] OTHER                 -> "IDLE"

\* whether storing over the status loses it: a reset is served by every
\* branch but the one that enables the controller
Loses(branch, status) ==
    status # branch /\ (status = "RESET" => branch = "WAIT_CC_EN")

\* Mutant of StoreStatus: a finished enable leaves the loop waiting.
StoreStatusIdle ==
    /\ main.step = 2
    /\ task' = [task EXCEPT !.status = "IDLE"]
    /\ lost' = (lost \/ Loses(main.branch, task.status))
    /\ main' = InLoop
    /\ UNCHANGED <<reg, irq, queues, link, host, cmd>>

StoreStatus ==
    /\ main.step = 2
    /\ task' = [task EXCEPT !.status = NextStatus(main.branch)]
    /\ lost' = (lost \/ Loses(main.branch, task.status))
    /\ main' = InLoop
    /\ UNCHANGED <<reg, irq, queues, link, host, cmd>>

\* handle_nvme_admin_cmd: the handlers that keep state
AdminEffect(c) ==
    CASE c.opc = "CREATE_IO_CQ" -> [queues EXCEPT !.cq = @ \cup {c.qid}]
      [] c.opc = "DELETE_IO_CQ" -> [queues EXCEPT !.cq = @ \ {c.qid}]
      [] c.opc = "CREATE_IO_SQ" -> [queues EXCEPT !.sq[c.qid] = c.qid]
      [] c.opc = "DELETE_IO_SQ" -> [queues EXCEPT !.sq[c.qid] = 0]
      [] OTHER                  -> queues

\* get_nvme_cmd finds a command: it is handled and completed, or its slot
\* released
HandleCommand ==
    /\ main = InLoop /\ task.status = "RUNNING" /\ cmd # NoCmd
    /\ queues' = AdminEffect(cmd)
    /\ task' = IF cmd.opc = "SET_CACHE" THEN [task EXCEPT !.cacheEn = 1] ELSE task
    /\ cmd' = NoCmd
    /\ UNCHANGED <<reg, irq, main, link, host, lost>>

MainLoop ==
    Enable \/ Shutdown \/ Disable \/ Reset \/ Report \/ StoreStatus \/ HandleCommand

(***************************************************************************)
(* The interrupt handler looks at the registers, not at the causes: causes *)
(* that came together are taken in its order, with their latest values.    *)
(***************************************************************************)
\* Mutant of dev_irq_handler: CC.EN is only looked at for a start.
dev_irq_handlerStartOnly ==
    LET shn  == "nvmeCcShn" \in irq /\ reg.ccShn = 1
        en   == "nvmeCcEn" \in irq /\ reg.ccEn = 1
        next == CASE shn -> "SHUTDOWN"
                  [] ~shn /\ en -> "WAIT_CC_EN"
                  [] OTHER -> IF "pcieLink" \in irq /\ ~link.up THEN "RESET" ELSE task.status
    IN  /\ irq # {}
        /\ irq' = {}
        /\ task' = [task EXCEPT !.status = next]
        /\ UNCHANGED <<reg, queues, main, link, host, cmd, lost>>

dev_irq_handler ==
    LET shn  == "nvmeCcShn" \in irq /\ reg.ccShn = 1
        en   == "nvmeCcEn" \in irq
        down == "pcieLink" \in irq /\ ~link.up
        next == CASE shn -> "SHUTDOWN"
                  [] ~shn /\ en -> IF reg.ccEn = 1 THEN "WAIT_CC_EN" ELSE "RESET"
                  [] OTHER -> IF down THEN "RESET" ELSE task.status
    IN  /\ irq # {}
        /\ irq' = {}
        /\ task' = [task EXCEPT !.status = next]
        /\ UNCHANGED <<reg, queues, main, link, host, cmd, lost>>

(***************************************************************************)
(* The host driver and the link.                                           *)
(***************************************************************************)
\* a write of CC latches a cause for each field that changes
WriteCC(en, shn) ==
    /\ reg' = [reg EXCEPT !.ccEn = en, !.ccShn = shn]
    /\ irq' = irq \cup {c \in {"nvmeCcEn"} : en # reg.ccEn}
                  \cup {c \in {"nvmeCcShn"} : shn # reg.ccShn}

HostIdle(from, to) == host = from /\ host' = to /\ UNCHANGED <<queues, task, main, link, lost>>

HostEnable == HostIdle("off", "enabling") /\ WriteCC(1, 0) /\ UNCHANGED cmd

HostSees ==
    /\ \/ HostIdle("enabling", "on") /\ reg.cstsRdy = 1
       \/ HostIdle("stopping", "stopped") /\ reg.cstsShst = 2
       \/ HostIdle("disabling", "off") /\ reg.cstsRdy = 0
    /\ UNCHANGED <<reg, irq, cmd>>

\* the driver creates a CQ before its SQ and deletes them in reverse
HostCommand(c) ==
    /\ HostIdle("on", "on") /\ cmd = NoCmd
    /\ c.opc \in {"CREATE_IO_CQ", "DELETE_IO_CQ"} => queues.sq[c.qid] = 0
    /\ c.opc = "CREATE_IO_SQ" => c.qid \in queues.cq
    /\ cmd' = c
    /\ UNCHANGED <<reg, irq>>

\* shn is 1 for a normal shutdown, 2 for an abrupt one
HostShutdown(shn) == HostIdle("on", "stopping") /\ cmd = NoCmd /\ WriteCC(1, shn) /\ UNCHANGED cmd

\* after a shutdown, to reset the controller, or when an abrupt shutdown
\* is not answered in time
HostDisable ==
    /\ \/ HostIdle("stopped", "disabling")
       \/ HostIdle("on", "disabling")
       \/ HostIdle("stopping", "disabling") /\ reg.ccShn = 2
    /\ WriteCC(0, 0)
    /\ cmd' = NoCmd

LinkDown ==
    /\ link.up /\ link.downs < MaxLinkDowns
    /\ link' = [up |-> FALSE, downs |-> link.downs + 1]
    /\ host' = "gone" /\ cmd' = NoCmd
    /\ reg' = [reg EXCEPT !.ccEn = 0, !.ccShn = 0]
    /\ irq' = irq \cup {"pcieLink"}
    /\ UNCHANGED <<queues, task, main, lost>>

LinkUp ==
    /\ ~link.up /\ irq = {} /\ main = InLoop
    /\ link' = [link EXCEPT !.up = TRUE]
    /\ host' = "disabling"
    /\ irq' = {"pcieLink"}
    /\ UNCHANGED <<reg, queues, task, main, cmd, lost>>

Next ==
    \/ MainLoop
    \/ dev_irq_handler
    \/ HostEnable \/ HostSees \/ HostDisable
    \/ \E c \in AdminCmds : HostCommand(c)
    \/ \E shn \in 1 .. 2 : HostShutdown(shn)
    \/ LinkDown \/ LinkUp

\* the loop never stops, interrupts are delivered, a driver sees the answer
\* it polls for; nobody has to start anything
Spec == Init /\ [][Next]_vars /\ WF_vars(MainLoop) /\ WF_vars(dev_irq_handler) /\ WF_vars(HostSees)

(***************************************************************************)
(* Properties.                                                             *)
(***************************************************************************)
TypeOK ==
    /\ reg \in [ccEn : 0 .. 1, ccShn : 0 .. 2, cstsRdy : 0 .. 1, cstsShst : 0 .. 2]
    /\ irq \subseteq {"pcieLink", "nvmeCcEn", "nvmeCcShn"}
    /\ queues \in [admin : BOOLEAN, sq : [Qids -> Qids \cup {0}], cq : SUBSET Qids]
    /\ task \in [status : Status, cacheEn : 0 .. 1]
    /\ main \in [branch : Status \cup {"none"}, step : 0 .. 2]
    /\ link \in [up : BOOLEAN, downs : 0 .. MaxLinkDowns]
    /\ host \in {"off", "enabling", "on", "stopping", "stopped", "disabling", "gone"}
    /\ cmd \in AdminCmds \cup {NoCmd}
    /\ lost \in BOOLEAN

\* A controller that reports that it is not ready, or that its shutdown is
\* complete, has no I/O queue and no cache setting of the driver before.
NothingLeftBehind ==
    ~lost /\ (reg.cstsRdy = 0 \/ reg.cstsShst = 2)
        => queues.cq = {} /\ (\A q \in Qids : queues.sq[q] = 0) /\ task.cacheEn = 0

\* The driver sends commands only to a controller that fetches them: its
\* admin queue is set up and the loop runs, or is about to.
ReadyMeansRunning ==
    ~lost /\ host = "on"
        => /\ queues.admin
           /\ \/ task.status = "RUNNING"
              \/ task.status = "WAIT_CC_EN" /\ main = [branch |-> "WAIT_CC_EN", step |-> 2]

\* Each wait of the driver ends, unless the handler stored its status while
\* a branch was on its way to store another: that one window loses a request.
Answered ==
    /\ \A w \in {"enabling", "disabling"} : (host = w) ~> (host # w \/ lost)
    /\ (host = "stopping" /\ reg.ccShn = 1) ~> (host # "stopping" \/ lost)
    /\ (cmd # NoCmd) ~> (cmd = NoCmd \/ lost)

=============================================================================
