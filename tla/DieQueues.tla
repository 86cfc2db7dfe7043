----------------------------- MODULE DieQueues ------------------------------
(***************************************************************************)
(* The two request queues of one NAND die and the state machine that       *)
(* executes them (low_level_scheduler.c).  The host path queues its page   *)
(* reads, programs and DMA transfers in the req queue; garbage collection  *)
(* and the bad block table use the sub-req queue.  Whoever sweeps the      *)
(* channels says which queue goes first, so the order in which the two     *)
(* queues are drained depends on who is waiting for what.                  *)
(*                                                                         *)
(* One die suffices: dies share nothing here but the bus, and a busy bus   *)
(* only delays a visit to the die.  A sweep visits the die once for each   *)
(* list the die may be on; the model takes a step per visit.  The firmware *)
(* routine that is running, and those that called it, are the sequence     *)
(* todo; it is empty in the main loop.                                     *)
(***************************************************************************)
EXTENDS Naturals, Sequences

CONSTANTS
    REQ_QUEUE_DEPTH, SUB_REQ_QUEUE_DEPTH, RETRY_LIMIT, PAGE_NUM_PER_BLOCK,
    Joins           \* whether the host runs joins

ASSUME DepthAssumption ==
    /\ REQ_QUEUE_DEPTH \in Nat \ {0, 1}
    /\ PAGE_NUM_PER_BLOCK \in Nat \ {0}
    /\ SUB_REQ_QUEUE_DEPTH = 2 * PAGE_NUM_PER_BLOCK
    /\ RETRY_LIMIT \in Nat /\ Joins \in BOOLEAN

Queues == {"REQ", "SUB"}
Other(q) == IF q = "REQ" THEN "SUB" ELSE "REQ"
Capacity(q) == IF q = "REQ" THEN REQ_QUEUE_DEPTH - 1 ELSE SUB_REQ_QUEUE_DEPTH - 1

Requests == {"ReadPageTrigger", "ReadPageTransfer", "ProgramPage", "BlockErase", "DMA"}

VARIABLES
    die,    \* queues, dieStatus entry, list, retry limit and NAND registers
    todo,   \* what the running firmware routines still have to do
    order   \* history: queues of the unfinished requests in the order pushed

vars == <<die, todo, order>>

(***************************************************************************)
(* Steps of firmware routines.                                             *)
(***************************************************************************)
Step(d, q, r, f) == [do |-> d, queue |-> q, request |-> r, first |-> f]

\* Mutant of Push: a wait for room favours the queue that is full.
PushFavoursItself(q, r) == Step("push", q, r, q)

Push(q, r)  == Step("push", q, r, Other(q))     \* PushToReqQueue, PushToSubReqQueue
Drain(q)    == Step("drain", q, "DMA", q)       \* EmptyReqQ, EmptySubReqQ
DrainAll(f) == Step("drainAll", f, "DMA", f)    \* the first loop of EmptyLowLevelQ
ReadTable(f) == Step("readTable", f, "DMA", f)
Relocate(f)  == Step("relocate", f, "DMA", f)
Reserve == Step("reserve", "REQ", "DMA", "SUB") \* reservedReq = 1

\* n pages read and programmed elsewhere
Copies(n) ==
    [i \in 1 .. 2 * n |-> Push("SUB", IF i % 2 = 1 THEN "ReadPageTrigger" ELSE "ProgramPage")]

\* Mutant of Collection: the req queue is not drained.
CollectionWithoutDrain(n) ==
    <<Drain("SUB")>> \o Copies(n) \o <<Push("SUB", "BlockErase"), Push("REQ", "ProgramPage"), Reserve>>

\* PmWrite when a collection with n copies must free the page it programs
Collection(n) ==
    <<Drain("SUB")>> \o Copies(n)
        \o <<Push("SUB", "BlockErase"), Drain("REQ"), Push("REQ", "ProgramPage"), Reserve>>

\* a join fetches its pages, those not buffered from this die, and waits for them
Join == {<<Drain("REQ")>>, <<Push("REQ", "ReadPageTrigger"), Reserve, Drain("REQ")>>}

\* Mutant of Commands: reservedReq is not set after a push.
CommandsWithoutReserve ==
    {<<Push("REQ", r)>> : r \in {"ReadPageTrigger", "ProgramPage", "DMA"}}

\* what one command of the host may make the upper layers do to this die
Commands ==
    {<<Push("REQ", r), Reserve>> : r \in {"ReadPageTrigger", "ProgramPage", "DMA"}}
    \cup {Collection(n) : n \in 0 .. PAGE_NUM_PER_BLOCK - 1}
    \cup (IF Joins THEN Join ELSE {})

\* EmptyLowLevelQ, called when a sweep ends with badBlockUpdate set
EmptyLowLevelQ(f) == <<DrainAll(f), ReadTable(f)>>

(***************************************************************************)
(* The scheduler, as operators on the record of the die.                   *)
(***************************************************************************)
Init ==
    /\ die = [queue |-> [q \in Queues |-> <<>>],
              empty |-> [q \in Queues |-> TRUE],       \* reqQueueEmpty, subReqQueueEmpty
              queueSelect |-> "SUB",
              dieStatus |-> "IDLE", owner |-> "SUB",    \* DS_x is REQ x, DS_SUB_x is SUB x
              list |-> "idle",
              retryLimit |-> RETRY_LIMIT,
              ready |-> TRUE,                           \* the ready/busy line
              owed |-> "nothing",                       \* what the controller works on
              complete |-> "none", errorInfo |-> "pass",
              fresh |-> TRUE,                           \* history: see FreshStatus
              reservedReq |-> FALSE,
              badBlockUpdate |-> FALSE, newBadBlocks |-> 0]
    /\ todo = <<>>
    /\ order = <<>>

Front(s, q) == Head(s.queue[q])
Idle(s) == s.queue["REQ"] = <<>> /\ s.queue["SUB"] = <<>>

ListFor(request) ==
    CASE request = "DMA" -> "nvmeDma"
      [] request = "ReadPageTrigger" -> "nandTrigger"
      [] request = "ReadPageTransfer" -> "nandTransfer"
      [] request = "ProgramPage" -> "nandTrigNTrans"
      [] request = "BlockErase" -> "nandErase"

\* Mutant of FindPriorityTable: the flag of the first queue is set whichever
\* queue has work.
FindPriorityMarksFirst(s, first) ==
    LET q == IF s.queue[first] # <<>> THEN first ELSE Other(first)
        t == [s EXCEPT !.empty[first] = TRUE, !.queueSelect = q]
    IN  IF Idle(s) THEN [t EXCEPT !.empty[q] = TRUE, !.list = "idle"]
        ELSE [t EXCEPT !.list = ListFor(Front(s, q).request)]

FindPriorityTable(s, first) ==
    LET other == Other(first)
    IN  IF s.queue[first] # <<>>
        THEN [s EXCEPT !.queueSelect = first, !.list = ListFor(Front(s, first).request)]
        ELSE IF s.queue[other] # <<>>
        THEN [s EXCEPT !.empty[first] = TRUE, !.queueSelect = other,
                       !.list = ListFor(Front(s, other).request)]
        ELSE [s EXCEPT !.empty = [q \in Queues |-> TRUE], !.queueSelect = other,
                       !.list = "idle"]

\* PopFromReqQueue, PopFromSubReqQueue: the front request of q goes to the controller
Issue(s, q) ==
    IF Front(s, q).request = "ReadPageTransfer"
    THEN [s EXCEPT !.owed = "transfer", !.complete = "none", !.fresh = TRUE]
    ELSE [s EXCEPT !.ready = FALSE, !.fresh = FALSE]

Finish(s, q) == [s EXCEPT !.queue[q] = Tail(@), !.dieStatus = "IDLE"]

SetFront(s, q, request, option) ==
    [s EXCEPT !.queue[q] = <<[request |-> request, statusOption |-> option]>> \o Tail(@)]

\* Mutant of Retried: the status option is not reset with the request.
RetriedKeepsOption(s, q) ==
    LET r == Front(s, q).request
        o == Front(s, q).statusOption
        t == [s EXCEPT !.retryLimit = @ - 1]
    IN  IF r = "ReadPageTransfer"
        THEN [SetFront(t, q, "ReadPageTrigger", o) EXCEPT !.dieStatus = "TR_FAIL"]
        ELSE [t EXCEPT !.dieStatus = IF s.dieStatus = "TR_REEXE" THEN "TR_FAIL" ELSE "FAIL"]

\* a failed request is executed again; a failed transfer from its trigger on
Retried(s, q) ==
    LET r == Front(s, q).request
        t == [s EXCEPT !.retryLimit = @ - 1]
    IN  IF r = "ReadPageTransfer"
        THEN [SetFront(t, q, "ReadPageTrigger", "STATUS_CHECK") EXCEPT !.dieStatus = "TR_FAIL"]
        ELSE [SetFront(t, q, r, "STATUS_CHECK") EXCEPT
                 !.dieStatus = IF s.dieStatus = "TR_REEXE" THEN "TR_FAIL" ELSE "FAIL"]

\* Mutant of Failed: every failure starts a new round of retries.
FailedRetriesForever(s, q) == Retried([s EXCEPT !.retryLimit = RETRY_LIMIT], q)

Failed(s, q) == IF s.retryLimit > 0 THEN Retried(s, q) ELSE Finish(s, q)

\* the front request of q succeeded; the trigger of a read leaves the transfer
Succeeded(s, q) ==
    LET t == SetFront(s, q, "ReadPageTransfer", Front(s, q).statusOption)
    IN  CASE s.dieStatus = "TR_REEXE" -> [t EXCEPT !.dieStatus = "FAIL"]
          [] s.dieStatus # "TR_REEXE" /\ Front(s, q).request = "ReadPageTrigger"
                -> [t EXCEPT !.dieStatus = "IDLE"]
          [] OTHER -> Finish(s, q)

\* RS_WARNING: too many bit errors, the block is to be replaced
Warned(s, q) ==
    [Finish(s, q) EXCEPT !.badBlockUpdate = TRUE,
                         !.newBadBlocks = IF @ < REQ_QUEUE_DEPTH THEN @ + 1 ELSE @]

ExeLowLevelReqPerDie(s, reqStatus) ==
    LET q == s.queueSelect
        o == s.owner
    IN  CASE s.dieStatus = "IDLE" /\ Front(s, q).request = "DMA" -> Finish(s, q)
          [] s.dieStatus = "IDLE" /\ Front(s, q).request # "DMA" ->
                [Issue(s, q) EXCEPT !.dieStatus = "EXE", !.owner = q, !.retryLimit = RETRY_LIMIT]
          [] s.dieStatus = "TR_FAIL" -> [Issue(s, o) EXCEPT !.dieStatus = "TR_REEXE"]
          [] s.dieStatus = "FAIL" -> [Issue(s, o) EXCEPT !.dieStatus = "REEXE"]
          [] s.dieStatus \in {"EXE", "REEXE", "TR_REEXE"} ->
                CASE reqStatus = "DONE" -> Succeeded(s, o)
                  [] reqStatus = "FAIL" -> Failed(s, o)
                  [] reqStatus = "WARNING" -> Warned(s, o)
                  [] reqStatus = "RUNNING" -> s

(***************************************************************************)
(* CheckReqStatusAsync and CheckSubReqStatusAsync: what they return, and   *)
(* the state they leave.  The completion word is shared by transfers and   *)
(* status checks; "bare" has its completion bit but no ready status.       *)
(***************************************************************************)
CheckStatus(s, q) ==
    LET r == Front(s, q)
    IN  IF r.request = "ReadPageTransfer"
        THEN CASE s.complete = "none" -> "RUNNING"
               [] s.complete # "none" /\ s.errorInfo = "pass" -> "DONE"
               [] s.complete # "none" /\ s.errorInfo = "fail" -> "FAIL"
               [] s.complete # "none" /\ s.errorInfo = "warning" ->
                     IF q = "REQ" THEN "WARNING" ELSE "DONE"
        ELSE CASE r.statusOption = "CHECK_STATUS_REPORT" /\ s.complete = "pass" -> "DONE"
               [] r.statusOption = "CHECK_STATUS_REPORT" /\ s.complete = "fail" -> "FAIL"
               [] OTHER -> "RUNNING"

AfterCheck(s, q) ==
    LET r == Front(s, q)
    IN  CASE r.request = "ReadPageTransfer" -> s
          [] r.request # "ReadPageTransfer" /\ r.statusOption = "STATUS_CHECK" ->
                [SetFront(s, q, r.request, "CHECK_STATUS_REPORT") EXCEPT
                    !.owed = "status", !.complete = "none", !.fresh = TRUE]
          [] r.request # "ReadPageTransfer" /\ r.statusOption = "CHECK_STATUS_REPORT" ->
                IF s.complete = "bare" THEN SetFront(s, q, r.request, "STATUS_CHECK") ELSE s

(***************************************************************************)
(* One visit of ExeLowLevelReqPerCh to the die, on the list it is on.      *)
(***************************************************************************)
VisitIdle(s, first) == FindPriorityTable(s, first)

VisitStatusReport(s, first) ==
    LET status == CheckStatus(s, s.queueSelect)
        t == AfterCheck(s, s.queueSelect)
    IN  IF status # "RUNNING"
        THEN FindPriorityTable(ExeLowLevelReqPerDie(t, status), first)
        ELSE IF Front(t, s.queueSelect).statusOption = "STATUS_CHECK"
        THEN [t EXCEPT !.list = "nandStatus"]
        ELSE t

VisitNvmeDma(s, first) == FindPriorityTable(ExeLowLevelReqPerDie(s, "RUNNING"), first)
VisitNandStatus(s) == [AfterCheck(s, s.queueSelect) EXCEPT !.list = "statusReport"]
VisitNand(s)     == [ExeLowLevelReqPerDie(s, "RUNNING") EXCEPT !.list = "nandStatus"]
VisitTransfer(s) == [ExeLowLevelReqPerDie(s, "RUNNING") EXCEPT !.list = "statusReport"]

\* a list is served if the die is on it and ready for it
Visitable(s) ==
    /\ s.list = "idle" => ~Idle(s)
    /\ s.list \in {"statusReport", "nandStatus"} => s.ready

Visited(s, first) ==
    CASE s.list = "idle" -> VisitIdle(s, first)
      [] s.list = "statusReport" -> VisitStatusReport(s, first)
      [] s.list = "nvmeDma" -> VisitNvmeDma(s, first)
      [] s.list = "nandStatus" -> VisitNandStatus(s)
      [] s.list \in {"nandTrigger", "nandErase", "nandTrigNTrans"} -> VisitNand(s)
      [] s.list = "nandTransfer" -> VisitTransfer(s)

(***************************************************************************)
(* Steps of the firmware.                                                  *)
(***************************************************************************)
Room(q) == Len(die.queue[q]) < Capacity(q)

First == IF todo = <<>> THEN "SUB" ELSE Head(todo).first

\* the running routine is in a loop that sweeps the channels
Sweeping ==
    IF todo = <<>> THEN die.reservedReq
    ELSE \/ Head(todo).do \in {"drain", "drainAll"}
         \/ Head(todo).do = "push" /\ ~Room(Head(todo).queue)

\* the first request of queue q is finished
Without(sequence, q) ==
    LET i == CHOOSE i \in DOMAIN sequence :
                sequence[i] = q /\ \A j \in 1 .. i - 1 : sequence[j] # q
    IN  SubSeq(sequence, 1, i - 1) \o SubSeq(sequence, i + 1, Len(sequence))

Sweep ==
    /\ Sweeping /\ Visitable(die)
    /\ die' = [Visited(die, First) EXCEPT !.reservedReq = TRUE]
    /\ order' = IF \E q \in Queues : Len(die'.queue[q]) < Len(die.queue[q])
                THEN Without(order, CHOOSE q \in Queues :
                                       Len(die'.queue[q]) < Len(die.queue[q]))
                ELSE order
    /\ UNCHANGED todo

\* a sweep that finds no request at all: the main loop stops sweeping
SweepNothing ==
    /\ Sweeping /\ die.list = "idle" /\ Idle(die) /\ die.reservedReq
    /\ die' = [die EXCEPT !.reservedReq = FALSE]
    /\ UNCHANGED <<todo, order>>

Command ==
    /\ todo = <<>> /\ ~die.badBlockUpdate
    /\ todo' \in Commands
    /\ UNCHANGED <<die, order>>

Doing(what) == todo # <<>> /\ Head(todo).do = what

\* PushToReqQueue and PushToSubReqQueue once there is room
PushRequest ==
    LET q == Head(todo).queue
    IN  /\ Doing("push") /\ Room(q) /\ ~die.badBlockUpdate
        /\ die' = [die EXCEPT
                      !.empty[q] = FALSE,
                      !.queue[q] = Append(@, [request |-> Head(todo).request,
                                              statusOption |-> "STATUS_CHECK"])]
        /\ order' = Append(order, q)
        /\ todo' = Tail(todo)

\* ExeLowLevelReq, EmptyReqQ and EmptySubReqQ end; a bad block found on the
\* way is taken care of before the caller goes on
SweepEnds ==
    /\ IF todo = <<>> THEN die.badBlockUpdate /\ todo' = EmptyLowLevelQ(First)
       ELSE \/ /\ Doing("push") /\ die.badBlockUpdate
               /\ todo' = EmptyLowLevelQ(First) \o todo
            \/ /\ Doing("drain") /\ die.empty[Head(todo).queue]
               /\ todo' = (IF die.badBlockUpdate THEN EmptyLowLevelQ(First) ELSE <<>>)
                             \o Tail(todo)
            \/ /\ Doing("drainAll") /\ die.list = "idle" /\ Idle(die)
               /\ todo' = Tail(todo)
    /\ UNCHANGED <<die, order>>

\* EmptyLowLevelQ: the table of the metadata block is read
ReadBadBlockTable ==
    /\ Doing("readTable")
    /\ die' = [die EXCEPT !.badBlockUpdate = FALSE]
    /\ todo' = <<Push("SUB", "ReadPageTrigger"), DrainAll(First), Relocate(First)>> \o Tail(todo)
    /\ UNCHANGED order

\* EmptyLowLevelQ: CompulsoryGC moves n pages of a bad block and erases it;
\* after the last one the table is written back
UpdateBadBlockTable ==
    /\ Doing("relocate") /\ die.newBadBlocks > 0
    /\ die' = [die EXCEPT !.newBadBlocks = @ - 1]
    /\ \E n \in 0 .. PAGE_NUM_PER_BLOCK :
          todo' = Copies(n) \o <<Push("SUB", "BlockErase")>>
                     \o (IF die.newBadBlocks > 1 THEN todo
                         ELSE <<Push("SUB", "BlockErase"), Push("SUB", "ProgramPage"), Reserve>>
                                 \o Tail(todo))
    /\ UNCHANGED order

ReserveRequests ==
    /\ Doing("reserve")
    /\ die' = [die EXCEPT !.reservedReq = TRUE]
    /\ todo' = Tail(todo)
    /\ UNCHANGED order

(***************************************************************************)
(* Steps of the NAND die and its controller.                               *)
(***************************************************************************)
NandReady ==
    /\ ~die.ready
    /\ die' = [die EXCEPT !.ready = TRUE]
    /\ UNCHANGED <<todo, order>>

TransferEnds ==
    /\ die.owed = "transfer"
    /\ \E e \in {"pass", "warning", "fail"} :
          die' = [die EXCEPT !.owed = "nothing", !.complete = "bare", !.errorInfo = e]
    /\ UNCHANGED <<todo, order>>

StatusReported(answers) ==
    /\ die.owed = "status"
    /\ \E c \in answers : die' = [die EXCEPT !.owed = "nothing", !.complete = c]
    /\ UNCHANGED <<todo, order>>

Firmware ==
    \/ Sweep \/ SweepNothing \/ PushRequest \/ SweepEnds
    \/ ReadBadBlockTable \/ UpdateBadBlockTable \/ ReserveRequests

Nand == NandReady \/ TransferEnds \/ StatusReported({"pass", "fail", "bare"})

Next == Command \/ Firmware \/ Nand

\* The main loop runs and every waiting loop sweeps before it looks at the
\* queues again; the die answers, and asked often enough for its status it does
\* report the operation as ended.
Spec ==
    /\ Init /\ [][Next]_vars
    /\ WF_vars(Firmware) /\ SF_vars(todo # <<>> /\ Sweep)
    /\ WF_vars(Nand) /\ SF_vars(StatusReported({"pass", "fail"}))

(***************************************************************************)
(* Properties.                                                             *)
(***************************************************************************)
Entry == [request : Requests, statusOption : {"STATUS_CHECK", "CHECK_STATUS_REPORT"}]

DieType ==
    [queue : [Queues -> Seq(Entry)], empty : [Queues -> BOOLEAN],
     queueSelect : Queues, owner : Queues,
     dieStatus : {"IDLE", "EXE", "TR_FAIL", "TR_REEXE", "FAIL", "REEXE"},
     list : {"idle", "statusReport", "nvmeDma", "nandStatus", "nandTrigger",
             "nandErase", "nandTrigNTrans", "nandTransfer"},
     retryLimit : 0 .. RETRY_LIMIT, ready : BOOLEAN,
     owed : {"nothing", "transfer", "status"},
     complete : {"none", "bare", "pass", "fail"},
     errorInfo : {"pass", "warning", "fail"}, fresh : BOOLEAN,
     reservedReq : BOOLEAN, badBlockUpdate : BOOLEAN,
     newBadBlocks : 0 .. REQ_QUEUE_DEPTH]

Steps == [do : {"push", "drain", "drainAll", "readTable", "relocate", "reserve"},
          queue : Queues, request : Requests, first : Queues]

\* Type invariant: in particular no queue outgrows its ring.
TypeOK ==
    /\ die \in DieType
    /\ \A q \in Queues : Len(die.queue[q]) <= Capacity(q)
    /\ todo \in Seq(Steps)
    /\ order \in Seq(Queues)

\* queue q has a request between its first command to the die and its end; a
\* read is two commands
Executing(q) ==
    \/ die.dieStatus # "IDLE" /\ die.owner = q
    \/ die.queue[q] # <<>> /\ Front(die, q).request = "ReadPageTransfer"

\* The order the page map relies on when it treats a queued request as done:
\* whatever the two queues and the routine that sweeps, the request under
\* execution is the oldest unfinished one of its die, so that no other
\* command comes between the trigger and the transfer of a read.
InIssueOrder == \A q \in Queues : Executing(q) => Head(order) = q

\* ... and requests, DMA transfers included, end in the order they were pushed.
FinishInOrder == [][Len(order') < Len(order) => order' = Tail(order)]_vars

\* The answer the scheduler acts on was asked for after the command that it
\* judges: a retry never sees the status of the failed attempt.
FreshStatus ==
    die.list = "statusReport" /\ CheckStatus(die, die.queueSelect) # "RUNNING" => die.fresh

\* EmptyReqQ and EmptySubReqQ count the dies whose flag says empty: the flag
\* never says so while a request waits or executes.
EmptyMeansEmpty == \A q \in Queues : die.empty[q] => die.queue[q] = <<>>

\* The main loop sweeps only while reservedReq is set: it is never clear with
\* a request left in a queue.
NoLostWakeup == todo = <<>> /\ ~die.reservedReq => Idle(die)

\* Every routine that waits for the die returns to the main loop.
CommandEnds == (todo # <<>>) ~> (todo = <<>>)

\* "manage the failed request": a request under execution succeeds or is
\* given up after its retries.
RequestEnds == (die.dieStatus # "IDLE") ~> (die.dieStatus = "IDLE")

=============================================================================
