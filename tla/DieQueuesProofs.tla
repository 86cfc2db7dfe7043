-------------------------- MODULE DieQueuesProofs --------------------------
(***************************************************************************)
(* The scheduler of a die, for queues of every depth, blocks of every size *)
(* and every number of retries.                                            *)
(*                                                                         *)
(* The first half holds whatever the host does.  The second half is about  *)
(* hosts that run no joins: a join drains the queues in the wrong order.   *)
(* Its argument is that each routine sweeps with the queue first whose     *)
(* requests are the older ones.  So the invariant spells out the history:  *)
(* the requests of the queue that goes first, then those of the other.     *)
(***************************************************************************)
EXTENDS DieQueues, SequenceTheorems, TLAPS

Executions == {"EXE", "REEXE", "TR_REEXE"}

\* the lists on which the die waits to start its front request
Starts == {"nvmeDma", "nandTrigger", "nandErase", "nandTrigNTrans", "nandTransfer"}

\* What holds of a die in every state: the flags are right, and what the die
\* is to do next is in its queues.
Sound(s) ==
    /\ \A q \in Queues : s.empty[q] => s.queue[q] = <<>>
    /\ s.list # "idle" => s.queue[s.queueSelect] # <<>>
    /\ s.dieStatus # "IDLE" => s.queue[s.owner] # <<>>
    /\ s.list \in Starts => s.list = ListFor(Front(s, s.queueSelect).request)
    /\ s.list \in {"nandStatus", "statusReport"} => s.dieStatus \in Executions

\* a request as it was pushed
Pristine(r) == r.request # "ReadPageTransfer" /\ r.statusOption = "STATUS_CHECK"

\* the front request of queue q has ended
Popped(s, t, q) ==
    /\ s.queue[q] # <<>> /\ t.queue[q] = Tail(s.queue[q])
    /\ \A p \in Queues \ {q} : t.queue[p] = s.queue[p]

\* the front request of queue q has become r
Refronted(s, t, q, r) ==
    /\ s.queue[q] # <<>> /\ t.queue[q] # <<>>
    /\ Len(t.queue[q]) = Len(s.queue[q])
    /\ t.queue[q][1] = r
    /\ \A i \in 2 .. Len(s.queue[q]) : t.queue[q][i] = s.queue[q][i]
    /\ \A p \in Queues \ {q} : t.queue[p] = s.queue[p]

\* what the end of an execution makes of its request
Judged(s, t) ==
    LET o == s.owner
        r == Front(s, o)
    IN  \/ Popped(s, t, o) /\ t.dieStatus = "IDLE"
        \/ /\ Refronted(s, t, o, [r EXCEPT !.request = "ReadPageTransfer"])
           /\ t.dieStatus \in {"IDLE", "FAIL"}
        \/ \E x \in Entry : /\ x.statusOption = "STATUS_CHECK"
                            /\ x.request # "ReadPageTransfer"
                            /\ x.request = "DMA" => r.request = "DMA"
                            /\ Refronted(s, t, o, x)
                            /\ t.dieStatus \in {"FAIL", "TR_FAIL"}

\* the fields a judgement leaves alone
SameSelection(s, t) ==
    /\ t.list = s.list /\ t.queueSelect = s.queueSelect /\ t.owner = s.owner
    /\ t.empty = s.empty /\ t.fresh = s.fresh

\* What holds besides of a die without joins: only the front request of the
\* selected queue may be under way, it is the one that the die status is
\* about, and its options say how far it is.
Strict(s) ==
    LET r == Front(s, s.queueSelect)
    IN  /\ \A q \in Queues : \A i \in 1 .. Len(s.queue[q]) :
              Pristine(s.queue[q][i]) \/ (s.list # "idle" /\ q = s.queueSelect /\ i = 1)
        /\ s.dieStatus # "IDLE" =>
              s.list # "idle" /\ s.owner = s.queueSelect /\ r.request # "DMA"
        /\ s.list \in Starts => s.dieStatus \in {"IDLE", "FAIL", "TR_FAIL"}
        /\ s.list \in Starts /\ r.request # "ReadPageTransfer" => r.statusOption = "STATUS_CHECK"
        /\ s.list # "idle" /\ r.request = "ReadPageTransfer"
              => r.statusOption = "CHECK_STATUS_REPORT"
        /\ s.list = "nandStatus" => Pristine(r)
        /\ s.list = "statusReport" => s.fresh /\ r.statusOption = "CHECK_STATUS_REPORT"

\* queue f goes first: when it has requests, its front is the selected one
Selected(s, f) == s.list # "idle" /\ s.queue[f] # <<>> => s.queueSelect = f

SameLengths(s, t) == \A q \in Queues : Len(t.queue[q]) = Len(s.queue[q])

\* a visit that takes the die from s to t, favouring queue f, is right
GoodVisit(s, t, f) ==
    /\ t \in DieType /\ Sound(t)
    /\ SameLengths(s, t) \/ \E q \in Queues : Popped(s, t, q)
    /\ Strict(s) /\ Selected(s, f)
          => /\ Strict(t) /\ Selected(t, f)
             /\ SameLengths(s, t) \/ (s.list # "idle" /\ Popped(s, t, s.queueSelect))

(***************************************************************************)
(* The operators of the scheduler.                                         *)
(***************************************************************************)

\* A nonempty queue has a front and a rest.
LEMMA FrontAndRest ==
    ASSUME NEW s \in DieType, NEW q \in Queues, s.queue[q] # <<>>
    PROVE  /\ Front(s, q) \in Entry /\ Front(s, q) = s.queue[q][1]
           /\ Tail(s.queue[q]) \in Seq(Entry)
           /\ Len(s.queue[q]) \in Nat \ {0}
           /\ Len(Tail(s.queue[q])) = Len(s.queue[q]) - 1
           /\ \A i \in 1 .. Len(Tail(s.queue[q])) : Tail(s.queue[q])[i] = s.queue[q][i + 1]
<1>1. s.queue[q] \in Seq(Entry)
  BY DEF DieType
<1> QED BY <1>1, HeadTailProperties, EmptySeq DEF Front

\* Replacing the front request changes nothing else.
LEMMA SetFrontFacts ==
    ASSUME NEW s \in DieType, NEW q \in Queues, s.queue[q] # <<>>,
           NEW r \in Requests, NEW o \in {"STATUS_CHECK", "CHECK_STATUS_REPORT"}
    PROVE  /\ SetFront(s, q, r, o) \in DieType
           /\ SetFront(s, q, r, o) = [s EXCEPT !.queue = SetFront(s, q, r, o).queue]
           /\ SameSelection(s, SetFront(s, q, r, o))
           /\ Refronted(s, SetFront(s, q, r, o), q, [request |-> r, statusOption |-> o])
<1> DEFINE e == [request |-> r, statusOption |-> o]
           n == <<e>> \o Tail(s.queue[q])
<1>1. e \in Entry /\ <<e>> \in Seq(Entry) /\ Len(<<e>>) = 1 /\ <<e>>[1] = e
  BY DEF Entry
<1>2. /\ Tail(s.queue[q]) \in Seq(Entry)
      /\ Len(s.queue[q]) \in Nat \ {0}
      /\ Len(Tail(s.queue[q])) = Len(s.queue[q]) - 1
      /\ \A i \in 1 .. Len(Tail(s.queue[q])) : Tail(s.queue[q])[i] = s.queue[q][i + 1]
  BY FrontAndRest
<1> HIDE DEF e
<1>3. /\ n \in Seq(Entry)
      /\ Len(n) = Len(s.queue[q])
      /\ \A i \in 1 .. Len(s.queue[q]) :
            n[i] = IF i <= 1 THEN <<e>>[i] ELSE Tail(s.queue[q])[i - 1]
  BY <1>1, <1>2, ConcatProperties
<1> HIDE DEF n
<1>4. n # <<>> /\ n[1] = e /\ \A i \in 2 .. Len(s.queue[q]) : n[i] = s.queue[q][i]
  <2>1. n # <<>>
    BY <1>2, <1>3, EmptySeq
  <2>2. n[1] = e
    BY <1>1, <1>2, <1>3
  <2>3. ASSUME NEW i \in 2 .. Len(s.queue[q])
        PROVE  n[i] = s.queue[q][i]
    <3>1. i - 1 \in 1 .. Len(Tail(s.queue[q])) /\ (i - 1) + 1 = i
          /\ i \in 1 .. Len(s.queue[q]) /\ ~(i <= 1)
      BY <1>2
    <3>2. n[i] = Tail(s.queue[q])[i - 1]
      BY <1>3, <3>1
    <3>3. Tail(s.queue[q])[i - 1] = s.queue[q][(i - 1) + 1]
      BY <1>2, <3>1
    <3> QED BY <3>1, <3>2, <3>3
  <2> QED BY <2>1, <2>2, <2>3
<1>5. SetFront(s, q, r, o) = [s EXCEPT !.queue = [s.queue EXCEPT ![q] = n]]
  BY DEF SetFront, n, e, DieType
<1>6. [s.queue EXCEPT ![q] = n] \in [Queues -> Seq(Entry)]
  BY <1>3 DEF DieType
<1> QED BY <1>3, <1>4, <1>5, <1>6 DEF DieType, e, SameSelection, Refronted

\* Ending a request removes it.
LEMMA FinishFacts ==
    ASSUME NEW s \in DieType, NEW q \in Queues, s.queue[q] # <<>>
    PROVE  /\ Finish(s, q) \in DieType /\ SameSelection(s, Finish(s, q))
           /\ Popped(s, Finish(s, q), q) /\ Finish(s, q).dieStatus = "IDLE"
<1>1. Tail(s.queue[q]) \in Seq(Entry)
  BY FrontAndRest
<1>2. [s.queue EXCEPT ![q] = Tail(s.queue[q])] \in [Queues -> Seq(Entry)]
  BY <1>1 DEF DieType
<1>3. Finish(s, q) = [s EXCEPT !.queue = [s.queue EXCEPT ![q] = Tail(s.queue[q])],
                               !.dieStatus = "IDLE"]
  BY DEF Finish, DieType
<1> QED BY <1>2, <1>3 DEF DieType, Popped, SameSelection

\* A warning ends the request, too.
LEMMA WarnedFacts ==
    ASSUME NEW s \in DieType, NEW q \in Queues, s.queue[q] # <<>>
    PROVE  /\ Warned(s, q) \in DieType /\ SameSelection(s, Warned(s, q))
           /\ Popped(s, Warned(s, q), q) /\ Warned(s, q).dieStatus = "IDLE"
<1> DEFINE t == Finish(s, q)
           n == IF t.newBadBlocks < REQ_QUEUE_DEPTH THEN t.newBadBlocks + 1 ELSE t.newBadBlocks
<1>1. /\ t \in DieType /\ SameSelection(s, t)
      /\ Popped(s, t, q) /\ t.dieStatus = "IDLE"
  BY FinishFacts
<1> HIDE DEF t
<1>2. n \in 0 .. REQ_QUEUE_DEPTH
  BY <1>1, DepthAssumption DEF DieType
<1>3. Warned(s, q) = [t EXCEPT !.badBlockUpdate = TRUE, !.newBadBlocks = n]
  BY DEF Warned, t
<1> HIDE DEF n
<1>4. LET w == [t EXCEPT !.badBlockUpdate = TRUE, !.newBadBlocks = n]
      IN  /\ w \in DieType /\ SameSelection(t, w)
          /\ w.queue = t.queue /\ w.dieStatus = t.dieStatus
  BY <1>1, <1>2 DEF DieType, SameSelection
<1> QED BY <1>1, <1>3, <1>4 DEF Popped, SameSelection

\* A retry makes the front request pristine; a transfer becomes its trigger.
LEMMA RetriedFacts ==
    ASSUME NEW s \in DieType, NEW q \in Queues, s.queue[q] # <<>>, s.retryLimit > 0
    PROVE  LET t == Retried(s, q)
               x == IF Front(s, q).request = "ReadPageTransfer"
                    THEN [request |-> "ReadPageTrigger", statusOption |-> "STATUS_CHECK"]
                    ELSE [request |-> Front(s, q).request, statusOption |-> "STATUS_CHECK"]
           IN  /\ t \in DieType /\ SameSelection(s, t)
               /\ Refronted(s, t, q, x) /\ t.dieStatus \in {"FAIL", "TR_FAIL"}
<1> DEFINE u == [s EXCEPT !.retryLimit = @ - 1]
           r == Front(s, q).request
           new == IF r = "ReadPageTransfer" THEN "ReadPageTrigger" ELSE r
           v == SetFront(u, q, new, "STATUS_CHECK")
           d == IF r = "ReadPageTransfer" \/ s.dieStatus = "TR_REEXE" THEN "TR_FAIL" ELSE "FAIL"
<1>0. s.retryLimit - 1 \in 0 .. RETRY_LIMIT
  BY DepthAssumption DEF DieType
<1>1. u \in DieType /\ u.queue = s.queue /\ SameSelection(s, u)
  BY <1>0 DEF DieType, SameSelection
<1>2. new \in Requests
  BY FrontAndRest DEF Entry, Requests
<1>3. Retried(s, q) = [v EXCEPT !.dieStatus = d]
  BY DEF Retried
<1> HIDE DEF u, d, new
<1>4. /\ v \in DieType /\ SameSelection(u, v)
      /\ Refronted(u, v, q, [request |-> new, statusOption |-> "STATUS_CHECK"])
  BY <1>1, <1>2, SetFrontFacts
<1>5. d \in {"FAIL", "TR_FAIL"}
  BY DEF d
<1> HIDE DEF v
<1>6. LET t == [v EXCEPT !.dieStatus = d]
      IN  t \in DieType /\ SameSelection(v, t) /\ t.queue = v.queue /\ t.dieStatus = d
  BY <1>4, <1>5 DEF DieType, SameSelection
<1>7. Refronted(s, Retried(s, q), q, [request |-> new, statusOption |-> "STATUS_CHECK"])
  BY <1>1, <1>3, <1>4, <1>6 DEF Refronted
<1>8. SameSelection(s, Retried(s, q))
  BY <1>1, <1>3, <1>4, <1>6 DEF SameSelection
<1> QED BY <1>3, <1>5, <1>6, <1>7, <1>8 DEF new, r

\* A success ends the request, or turns it into the transfer of its read.
LEMMA SucceededFacts ==
    ASSUME NEW s \in DieType, NEW q \in Queues, s.queue[q] # <<>>
    PROVE  LET t == Succeeded(s, q)
           IN  /\ t \in DieType /\ SameSelection(s, t)
               /\ \/ Popped(s, t, q) /\ t.dieStatus = "IDLE"
                  \/ /\ Refronted(s, t, q, [Front(s, q) EXCEPT !.request = "ReadPageTransfer"])
                     /\ t.dieStatus \in {"IDLE", "FAIL"}
<1> DEFINE o == Front(s, q).statusOption
           v == SetFront(s, q, "ReadPageTransfer", o)
<1>1. /\ Front(s, q) \in Entry
      /\ [Front(s, q) EXCEPT !.request = "ReadPageTransfer"] =
            [request |-> "ReadPageTransfer", statusOption |-> o]
  BY FrontAndRest DEF Entry
<1>2. "ReadPageTransfer" \in Requests /\ o \in {"STATUS_CHECK", "CHECK_STATUS_REPORT"}
  BY <1>1 DEF Entry, Requests
<1> HIDE DEF o
<1>3. /\ v \in DieType /\ SameSelection(s, v)
      /\ Refronted(s, v, q, [request |-> "ReadPageTransfer", statusOption |-> o])
  BY <1>2, SetFrontFacts
<1>4. Succeeded(s, q) \in {[v EXCEPT !.dieStatus = "FAIL"], [v EXCEPT !.dieStatus = "IDLE"], Finish(s, q)}
  BY DEF Succeeded, o
<1> HIDE DEF v
<1>5. \A d \in {"IDLE", "FAIL"} :
             LET t == [v EXCEPT !.dieStatus = d]
             IN  /\ t \in DieType /\ SameSelection(s, t)
                 /\ Refronted(s, t, q, [request |-> "ReadPageTransfer", statusOption |-> o])
                 /\ t.dieStatus = d
  BY <1>3 DEF DieType, SameSelection, Refronted
<1>6. CASE Succeeded(s, q) = Finish(s, q)
  BY <1>6, FinishFacts
<1>7. CASE \E d \in {"IDLE", "FAIL"} : Succeeded(s, q) = [v EXCEPT !.dieStatus = d]
  BY <1>1, <1>5, <1>7
<1> QED BY <1>4, <1>6, <1>7

\* The verdict on an execution.
LEMMA JudgedFacts ==
    ASSUME NEW s \in DieType, s.queue[s.owner] # <<>>, s.dieStatus \in Executions,
           NEW status \in {"DONE", "FAIL", "WARNING"}
    PROVE  LET t == ExeLowLevelReqPerDie(s, status)
           IN  t \in DieType /\ SameSelection(s, t) /\ Judged(s, t)
<1> DEFINE o == s.owner
           t == ExeLowLevelReqPerDie(s, status)
<1>0. o \in Queues /\ s.retryLimit \in Nat /\ Front(s, o) \in Entry
  BY FrontAndRest, DepthAssumption DEF DieType
<1>1. CASE status = "DONE"
  <2>1. t = Succeeded(s, o)
    BY <1>1 DEF ExeLowLevelReqPerDie, Executions
  <2> QED BY <1>0, <2>1, SucceededFacts DEF Judged
<1>2. CASE status = "WARNING"
  <2>1. t = Warned(s, o)
    BY <1>2 DEF ExeLowLevelReqPerDie, Executions
  <2> QED BY <1>0, <2>1, WarnedFacts DEF Judged
<1>3. CASE status = "FAIL" /\ ~(s.retryLimit > 0)
  <2>1. t = Finish(s, o)
    BY <1>3 DEF ExeLowLevelReqPerDie, Executions, Failed
  <2> QED BY <1>0, <2>1, FinishFacts DEF Judged
<1>4. CASE status = "FAIL" /\ s.retryLimit > 0
  <2> DEFINE x == IF Front(s, o).request = "ReadPageTransfer"
                  THEN [request |-> "ReadPageTrigger", statusOption |-> "STATUS_CHECK"]
                  ELSE [request |-> Front(s, o).request, statusOption |-> "STATUS_CHECK"]
  <2>1. t = Retried(s, o)
    BY <1>4 DEF ExeLowLevelReqPerDie, Executions, Failed
  <2>2. /\ x \in Entry /\ x.statusOption = "STATUS_CHECK"
        /\ x.request # "ReadPageTransfer"
        /\ x.request = "DMA" => Front(s, o).request = "DMA"
    BY <1>0 DEF Entry, Requests
  <2>3. /\ t \in DieType /\ SameSelection(s, t)
        /\ Refronted(s, t, o, x) /\ t.dieStatus \in {"FAIL", "TR_FAIL"}
    BY <1>0, <1>4, <2>1, RetriedFacts
  <2> HIDE DEF x
  <2> QED BY <2>2, <2>3 DEF Judged
<1> QED BY <1>1, <1>2, <1>3, <1>4

\* The command of the front request goes to the die.
LEMMA IssueFacts ==
    ASSUME NEW s \in DieType, NEW q \in Queues, s.queue[q] # <<>>
    PROVE  LET t == Issue(s, q)
           IN  /\ t \in DieType /\ t.queue = s.queue
               /\ t.list = s.list /\ t.queueSelect = s.queueSelect /\ t.owner = s.owner
               /\ t.empty = s.empty
               /\ t.fresh = (Front(s, q).request = "ReadPageTransfer")
<1>1. CASE Front(s, q).request = "ReadPageTransfer"
  <2>1. Issue(s, q) = [s EXCEPT !.owed = "transfer", !.complete = "none", !.fresh = TRUE]
    BY <1>1 DEF Issue
  <2> QED BY <1>1, <2>1 DEF DieType
<1>2. CASE Front(s, q).request # "ReadPageTransfer"
  <2>1. Issue(s, q) = [s EXCEPT !.ready = FALSE, !.fresh = FALSE]
    BY <1>2 DEF Issue
  <2> QED BY <1>2, <2>1 DEF DieType
<1> QED BY <1>1, <1>2

\* Starting or restarting the request of the die.
LEMMA StartedFacts ==
    ASSUME NEW s \in DieType, s.dieStatus \in {"IDLE", "FAIL", "TR_FAIL"},
           s.queue[s.queueSelect] # <<>>, s.dieStatus # "IDLE" => s.queue[s.owner] # <<>>,
           s.dieStatus = "IDLE" => Front(s, s.queueSelect).request # "DMA"
    PROVE  LET t == ExeLowLevelReqPerDie(s, "RUNNING")
               o == IF s.dieStatus = "IDLE" THEN s.queueSelect ELSE s.owner
           IN  /\ t \in DieType /\ t.queue = s.queue
               /\ t.list = s.list /\ t.queueSelect = s.queueSelect /\ t.owner = o
               /\ t.empty = s.empty /\ t.dieStatus \in Executions
               /\ t.fresh = (Front(s, o).request = "ReadPageTransfer")
<1> DEFINE t == ExeLowLevelReqPerDie(s, "RUNNING")
<1>1. CASE s.dieStatus = "IDLE"
  <2> DEFINE u == Issue(s, s.queueSelect)
  <2>1. t = [u EXCEPT !.dieStatus = "EXE", !.owner = s.queueSelect, !.retryLimit = RETRY_LIMIT]
    BY <1>1 DEF ExeLowLevelReqPerDie
  <2>2. /\ u \in DieType /\ u.queue = s.queue
        /\ u.list = s.list /\ u.queueSelect = s.queueSelect
        /\ u.empty = s.empty
        /\ u.fresh = (Front(s, s.queueSelect).request = "ReadPageTransfer")
    BY IssueFacts DEF DieType
  <2>3. RETRY_LIMIT \in 0 .. RETRY_LIMIT
    BY DepthAssumption
  <2> HIDE DEF u
  <2>4. LET w == [u EXCEPT !.dieStatus = "EXE", !.owner = s.queueSelect, !.retryLimit = RETRY_LIMIT]
        IN  /\ w \in DieType /\ w.queue = u.queue
            /\ w.list = u.list /\ w.queueSelect = u.queueSelect /\ w.owner = s.queueSelect
            /\ w.empty = u.empty /\ w.dieStatus = "EXE" /\ w.fresh = u.fresh
    BY <2>2, <2>3 DEF DieType
  <2> QED BY <1>1, <2>1, <2>2, <2>4 DEF Executions, Front
<1>2. CASE s.dieStatus # "IDLE"
  <2> DEFINE u == Issue(s, s.owner)
  <2>1. PICK d \in {"TR_REEXE", "REEXE"} : t = [u EXCEPT !.dieStatus = d]
    BY <1>2 DEF ExeLowLevelReqPerDie
  <2>2. /\ u \in DieType /\ u.queue = s.queue
        /\ u.list = s.list /\ u.queueSelect = s.queueSelect /\ u.owner = s.owner
        /\ u.empty = s.empty
        /\ u.fresh = (Front(s, s.owner).request = "ReadPageTransfer")
    BY <1>2, IssueFacts DEF DieType
  <2> HIDE DEF u
  <2>3. LET w == [u EXCEPT !.dieStatus = d]
        IN  /\ w \in DieType /\ w.queue = u.queue
            /\ w.list = u.list /\ w.queueSelect = u.queueSelect /\ w.owner = u.owner
            /\ w.empty = u.empty /\ w.dieStatus = d /\ w.fresh = u.fresh
    BY <2>2 DEF DieType
  <2> QED BY <1>2, <2>1, <2>2, <2>3 DEF Executions, Front
<1> QED BY <1>1, <1>2

\* FindPriorityTable puts the die on the list of the request it selects, that
\* of the first queue if that one has any.
LEMMA FindPriorityFacts ==
    ASSUME NEW s \in DieType, NEW f \in Queues,
           \A q \in Queues : s.empty[q] => s.queue[q] = <<>>
    PROVE  LET t == FindPriorityTable(s, f)
           IN  /\ t \in DieType
               /\ t.queue = s.queue /\ t.dieStatus = s.dieStatus /\ t.owner = s.owner
               /\ t.fresh = s.fresh
               /\ \A q \in Queues : t.empty[q] => t.queue[q] = <<>>
               /\ s.queue[f] # <<>> => t.queueSelect = f /\ t.list # "idle"
               /\ s.queue[f] = <<>> => t.queueSelect = Other(f)
               /\ t.list # "idle" => /\ t.queue[t.queueSelect] # <<>>
                                     /\ t.list = ListFor(Front(t, t.queueSelect).request)
                                     /\ t.list \in Starts
               /\ t.list = "idle" => Idle(t)
<1>0. Other(f) \in Queues /\ Queues = {f, Other(f)} /\ f # Other(f)
  BY DEF Queues, Other
<1>1. ASSUME NEW q \in Queues, s.queue[q] # <<>>
      PROVE  ListFor(Front(s, q).request) \in Starts
  BY <1>1, FrontAndRest DEF ListFor, Entry, Requests, Starts
<1>2. CASE s.queue[f] # <<>>
  <2> DEFINE l == ListFor(Front(s, f).request)
  <2>1. FindPriorityTable(s, f) = [s EXCEPT !.queueSelect = f, !.list = l]
    BY <1>2 DEF FindPriorityTable
  <2>2. l \in Starts
    BY <1>1, <1>2
  <2> HIDE DEF l
  <2>3. LET w == [s EXCEPT !.queueSelect = f, !.list = l]
        IN  /\ w \in DieType /\ w.queue = s.queue /\ w.dieStatus = s.dieStatus
            /\ w.owner = s.owner /\ w.empty = s.empty /\ w.fresh = s.fresh
            /\ w.queueSelect = f /\ w.list = l
    BY <2>2 DEF DieType, Starts
  <2> QED BY <1>2, <2>1, <2>2, <2>3 DEF Front, Starts, l
<1>3. CASE s.queue[f] = <<>> /\ s.queue[Other(f)] # <<>>
  <2>1. FindPriorityTable(s, f) =
          [s EXCEPT !.empty = [s.empty EXCEPT ![f] = TRUE], !.queueSelect = Other(f),
                    !.list = ListFor(Front(s, Other(f)).request)]
    BY <1>3 DEF FindPriorityTable, DieType
  <2>2. [s.empty EXCEPT ![f] = TRUE] \in [Queues -> BOOLEAN]
    BY DEF DieType
  <2> QED BY <1>0, <1>1, <1>3, <2>1, <2>2 DEF DieType, Starts, Front
<1>4. CASE s.queue[f] = <<>> /\ s.queue[Other(f)] = <<>>
  <2>1. FindPriorityTable(s, f) =
          [s EXCEPT !.empty = [q \in Queues |-> TRUE], !.queueSelect = Other(f), !.list = "idle"]
    BY <1>4 DEF FindPriorityTable
  <2>2. \A q \in Queues : s.queue[q] = <<>>
    BY <1>0, <1>4
  <2> QED BY <1>0, <1>4, <2>1, <2>2 DEF DieType, Starts, Front, Idle, Queues
<1> QED BY <1>2, <1>3, <1>4

\* Asking for the status of the front request.
LEMMA AfterCheckFacts ==
    ASSUME NEW s \in DieType, NEW q \in Queues, s.queue[q] # <<>>
    PROVE  LET t == AfterCheck(s, q)
               r == Front(s, q)
           IN  /\ t \in DieType /\ t.dieStatus = s.dieStatus
               /\ t.list = s.list /\ t.queueSelect = s.queueSelect /\ t.owner = s.owner
               /\ t.empty = s.empty
               /\ \/ /\ t = s
                     /\ \/ r.request = "ReadPageTransfer"
                        \/ r.statusOption = "CHECK_STATUS_REPORT" /\ s.complete # "bare"
                  \/ /\ r.request # "ReadPageTransfer" /\ r.statusOption = "STATUS_CHECK"
                     /\ t.fresh
                     /\ Refronted(s, t, q, [r EXCEPT !.statusOption = "CHECK_STATUS_REPORT"])
                  \/ /\ r.request # "ReadPageTransfer"
                     /\ r.statusOption = "CHECK_STATUS_REPORT" /\ s.complete = "bare"
                     /\ Refronted(s, t, q, [r EXCEPT !.statusOption = "STATUS_CHECK"])
<1> DEFINE r == Front(s, q)
           t == AfterCheck(s, q)
<1>0. /\ r \in Entry
      /\ \A o \in {"STATUS_CHECK", "CHECK_STATUS_REPORT"} :
            [r EXCEPT !.statusOption = o] = [request |-> r.request, statusOption |-> o]
  BY FrontAndRest DEF Entry
<1>1. CASE \/ r.request = "ReadPageTransfer"
           \/ r.statusOption = "CHECK_STATUS_REPORT" /\ s.complete # "bare"
  BY <1>0, <1>1 DEF AfterCheck
<1>2. CASE r.request # "ReadPageTransfer" /\ r.statusOption = "STATUS_CHECK"
  <2> DEFINE v == SetFront(s, q, r.request, "CHECK_STATUS_REPORT")
  <2>1. t = [v EXCEPT !.owed = "status", !.complete = "none", !.fresh = TRUE]
    BY <1>2 DEF AfterCheck
  <2>2. /\ v \in DieType /\ SameSelection(s, v) /\ v.dieStatus = s.dieStatus
        /\ Refronted(s, v, q, [r EXCEPT !.statusOption = "CHECK_STATUS_REPORT"])
    <3>1. /\ v \in DieType /\ SameSelection(s, v) /\ v = [s EXCEPT !.queue = v.queue]
          /\ Refronted(s, v, q, [request |-> r.request, statusOption |-> "CHECK_STATUS_REPORT"])
      BY <1>0, SetFrontFacts DEF Entry
    <3> HIDE DEF v, r
    <3> QED BY <1>0, <3>1 DEF DieType
  <2> HIDE DEF v, r
  <2>3. LET w == [v EXCEPT !.owed = "status", !.complete = "none", !.fresh = TRUE]
        IN  /\ w \in DieType /\ w.queue = v.queue /\ w.dieStatus = v.dieStatus
            /\ w.list = v.list /\ w.queueSelect = v.queueSelect /\ w.owner = v.owner
            /\ w.empty = v.empty /\ w.fresh
    BY <2>2 DEF DieType
  <2> QED BY <1>2, <2>1, <2>2, <2>3 DEF SameSelection, Refronted, r
<1>3. CASE /\ r.request # "ReadPageTransfer"
           /\ r.statusOption = "CHECK_STATUS_REPORT" /\ s.complete = "bare"
  <2> DEFINE v == SetFront(s, q, r.request, "STATUS_CHECK")
  <2>1. t = v
    BY <1>3 DEF AfterCheck
  <2>2. /\ v \in DieType /\ SameSelection(s, v) /\ v.dieStatus = s.dieStatus
        /\ Refronted(s, v, q, [r EXCEPT !.statusOption = "STATUS_CHECK"])
    <3>1. /\ v \in DieType /\ SameSelection(s, v) /\ v = [s EXCEPT !.queue = v.queue]
          /\ Refronted(s, v, q, [request |-> r.request, statusOption |-> "STATUS_CHECK"])
      BY <1>0, SetFrontFacts DEF Entry
    <3> HIDE DEF v, r
    <3> QED BY <1>0, <3>1 DEF DieType
  <2> HIDE DEF v
  <2> QED BY <1>3, <2>1, <2>2 DEF SameSelection
<1> QED BY <1>0, <1>1, <1>2, <1>3 DEF Entry

\* A die whose requests are all as pushed may select any of them.
LEMMA SelectAny ==
    ASSUME NEW s \in DieType, NEW f \in Queues, s.dieStatus = "IDLE",
           \A q \in Queues : s.empty[q] => s.queue[q] = <<>>,
           \A q \in Queues : \A i \in 1 .. Len(s.queue[q]) : Pristine(s.queue[q][i])
    PROVE  LET t == FindPriorityTable(s, f)
           IN  Strict(t) /\ Selected(t, f)
<1> DEFINE t == FindPriorityTable(s, f)
<1>1. /\ t \in DieType /\ t.queue = s.queue /\ t.dieStatus = "IDLE"
      /\ s.queue[f] # <<>> => t.queueSelect = f
      /\ t.list # "idle" => t.queue[t.queueSelect] # <<>> /\ t.list \in Starts
  BY FindPriorityFacts
<1>2. t.list # "idle" => Pristine(Front(t, t.queueSelect))
  <2> HAVE t.list # "idle"
  <2>1. /\ Front(t, t.queueSelect) = t.queue[t.queueSelect][1]
        /\ Len(t.queue[t.queueSelect]) \in Nat \ {0}
    BY <1>1, FrontAndRest DEF DieType
  <2>2. t.queueSelect \in Queues
    BY <1>1 DEF DieType
  <2> QED BY <1>1, <2>1, <2>2
<1> HIDE DEF t
<1>3. Selected(t, f)
  BY <1>1 DEF Selected
<1>4. Strict(t)
  BY <1>1, <1>2 DEF Strict, Pristine, Starts
<1> QED BY <1>3, <1>4 DEF t

\* A die with a request under way selects that one.
LEMMA SelectFront ==
    ASSUME NEW s \in DieType, NEW f \in Queues, NEW o \in Queues,
           s.dieStatus \in {"IDLE", "FAIL", "TR_FAIL"}, s.dieStatus # "IDLE" => s.owner = o,
           \A q \in Queues : s.empty[q] => s.queue[q] = <<>>,
           s.queue[o] # <<>>, s.queue[f] # <<>> => o = f,
           \A q \in Queues : \A i \in 1 .. Len(s.queue[q]) :
              Pristine(s.queue[q][i]) \/ (q = o /\ i = 1),
           Front(s, o).request # "DMA",
           Front(s, o).request = "ReadPageTransfer"
              => Front(s, o).statusOption = "CHECK_STATUS_REPORT",
           Front(s, o).request # "ReadPageTransfer"
              => Front(s, o).statusOption = "STATUS_CHECK"
    PROVE  LET t == FindPriorityTable(s, f)
           IN  Strict(t) /\ Selected(t, f)
<1> DEFINE t == FindPriorityTable(s, f)
<1>1. /\ t \in DieType /\ t.queue = s.queue /\ t.dieStatus = s.dieStatus /\ t.owner = s.owner
      /\ s.queue[f] # <<>> => t.queueSelect = f /\ t.list # "idle"
      /\ s.queue[f] = <<>> => t.queueSelect = Other(f)
      /\ t.list # "idle" => t.list \in Starts
      /\ t.list = "idle" => Idle(t)
  BY FindPriorityFacts
<1>2. t.list # "idle"
  BY <1>1 DEF Idle, Queues
<1>3. t.queueSelect = o
  BY <1>1 DEF Queues, Other
<1>4. Front(t, t.queueSelect) = Front(s, o)
  BY <1>1, <1>3 DEF Front
<1> HIDE DEF t
<1>5. Selected(t, f)
  BY <1>1 DEF Selected
<1>6. Strict(t)
  BY <1>1, <1>2, <1>3, <1>4 DEF Strict, Starts
<1> QED BY <1>5, <1>6 DEF t

\* After a change of one queue that leaves its flag right, selecting again
\* makes the die sound.
LEMMA SelectSound ==
    ASSUME NEW s \in DieType, Sound(s), NEW u \in DieType, NEW f \in Queues,
           NEW o \in Queues, s.queue[o] # <<>>, u.empty = s.empty,
           \A q \in Queues \ {o} : u.queue[q] = s.queue[q],
           u.dieStatus # "IDLE" => u.queue[u.owner] # <<>>
    PROVE  /\ \A q \in Queues : u.empty[q] => u.queue[q] = <<>>
           /\ FindPriorityTable(u, f) \in DieType
           /\ FindPriorityTable(u, f).queue = u.queue
           /\ Sound(FindPriorityTable(u, f))
<1> DEFINE t == FindPriorityTable(u, f)
<1>1. \A q \in Queues : u.empty[q] => u.queue[q] = <<>>
  BY DEF Sound
<1>2. /\ t \in DieType
      /\ t.queue = u.queue /\ t.dieStatus = u.dieStatus /\ t.owner = u.owner
      /\ \A q \in Queues : t.empty[q] => t.queue[q] = <<>>
      /\ t.list # "idle" => /\ t.queue[t.queueSelect] # <<>>
                            /\ t.list = ListFor(Front(t, t.queueSelect).request)
                            /\ t.list \in Starts
  BY <1>1, FindPriorityFacts
<1> HIDE DEF t
<1>3. Sound(t)
  BY <1>2 DEF Sound, Starts
<1> QED BY <1>1, <1>2, <1>3 DEF t

\* A request that ends leaves pristine requests behind.
LEMMA PoppedPristine ==
    ASSUME NEW s \in DieType, NEW u \in DieType, NEW q \in Queues,
           Strict(s), s.list # "idle", q = s.queueSelect, Popped(s, u, q)
    PROVE  \A p \in Queues : \A i \in 1 .. Len(u.queue[p]) : Pristine(u.queue[p][i])
<1>1. ASSUME NEW i \in 1 .. Len(u.queue[q])
      PROVE  Pristine(u.queue[q][i])
  <2>1. /\ Len(s.queue[q]) \in Nat \ {0}
        /\ Len(u.queue[q]) = Len(s.queue[q]) - 1
        /\ u.queue[q][i] = s.queue[q][i + 1]
    BY FrontAndRest DEF Popped
  <2>2. i + 1 \in 1 .. Len(s.queue[q]) /\ i + 1 # 1
    BY <2>1
  <2> QED BY <2>1, <2>2 DEF Strict
<1>2. ASSUME NEW p \in Queues \ {q}
      PROVE  \A i \in 1 .. Len(u.queue[p]) : Pristine(u.queue[p][i])
  BY DEF Popped, Strict
<1> QED BY <1>1, <1>2

\* Replacing the front request keeps the lengths.
LEMMA RefrontedLengths ==
    ASSUME NEW s \in DieType, NEW u \in DieType, NEW q \in Queues, NEW r,
           Refronted(s, u, q, r)
    PROVE  SameLengths(s, u) /\ u.queue[q] # <<>> /\ Front(u, q) = r
<1>1. Front(u, q) = u.queue[q][1]
  BY FrontAndRest DEF Refronted
<1> QED BY <1>1 DEF Refronted, SameLengths

\* The front request of the selected queue replaced, the others are pristine.
LEMMA RefrontedPristine ==
    ASSUME NEW s \in DieType, NEW u \in DieType, NEW o \in Queues, NEW r,
           Strict(s), s.list # "idle", o = s.queueSelect, Refronted(s, u, o, r)
    PROVE  \A q \in Queues : \A i \in 1 .. Len(u.queue[q]) :
              Pristine(u.queue[q][i]) \/ (q = o /\ i = 1)
<1>1. ASSUME NEW i \in 1 .. Len(u.queue[o]), i # 1
      PROVE  Pristine(u.queue[o][i])
  <2>1. i \in 2 .. Len(s.queue[o]) /\ i \in 1 .. Len(s.queue[o])
    BY <1>1 DEF Refronted
  <2> QED BY <1>1, <2>1 DEF Refronted, Strict
<1> QED BY <1>1 DEF Refronted, Strict

\* Choosing a request for an idle die is right.
LEMMA VisitIdleGood ==
    ASSUME NEW s \in DieType, Sound(s), NEW f \in Queues, s.list = "idle", ~Idle(s)
    PROVE  GoodVisit(s, VisitIdle(s, f), f)
<1> DEFINE t == FindPriorityTable(s, f)
<1>1. PICK o \in Queues : s.queue[o] # <<>>
  BY DEF Idle, Queues
<1>2. /\ \A q \in Queues : s.empty[q] => s.queue[q] = <<>>
      /\ t \in DieType /\ Sound(t) /\ t.queue = s.queue
  BY <1>1, SelectSound DEF Sound
<1>3. SameLengths(s, t)
  BY <1>2 DEF SameLengths
<1>4. ASSUME Strict(s)
      PROVE  Strict(t) /\ Selected(t, f)
  <2>1. \A q \in Queues : \A i \in 1 .. Len(s.queue[q]) : Pristine(s.queue[q][i])
    BY <1>4 DEF Strict
  <2>2. s.dieStatus = "IDLE"
    BY <1>4 DEF Strict
  <2> QED BY <1>2, <2>1, <2>2, SelectAny
<1> HIDE DEF t
<1>5. GoodVisit(s, t, f)
  BY <1>2, <1>3, <1>4 DEF GoodVisit
<1> QED BY <1>5 DEF VisitIdle, t

\* The DMA request at the front is handed over, or a request that waits for
\* its retry is started.
LEMMA VisitNvmeDmaGood ==
    ASSUME NEW s \in DieType, Sound(s), NEW f \in Queues, s.list = "nvmeDma"
    PROVE  GoodVisit(s, VisitNvmeDma(s, f), f)
<1> DEFINE q == s.queueSelect
           u == ExeLowLevelReqPerDie(s, "RUNNING")
           t == FindPriorityTable(u, f)
<1>0. /\ q \in Queues /\ s.queue[q] # <<>> /\ s.list # "idle"
      /\ Front(s, q).request = "DMA"
  <2>1. q \in Queues /\ s.queue[q] # <<>> /\ s.list = ListFor(Front(s, q).request)
    BY DEF Sound, Starts, DieType
  <2>2. Front(s, q).request \in Requests
    BY <2>1, FrontAndRest DEF Entry
  <2> QED BY <2>1, <2>2 DEF ListFor, Requests
<1>1. CASE s.dieStatus = "IDLE"
  <2>1. u = Finish(s, q)
    BY <1>0, <1>1 DEF ExeLowLevelReqPerDie
  <2>2. u \in DieType /\ SameSelection(s, u) /\ Popped(s, u, q) /\ u.dieStatus = "IDLE"
    BY <1>0, <2>1, FinishFacts
  <2>3. /\ \A p \in Queues : u.empty[p] => u.queue[p] = <<>>
        /\ t \in DieType /\ t.queue = u.queue /\ Sound(t)
    BY <1>0, <2>2, SelectSound DEF Popped, SameSelection
  <2>4. Popped(s, t, q)
    BY <2>2, <2>3 DEF Popped
  <2>5. ASSUME Strict(s) PROVE Strict(t) /\ Selected(t, f)
    <3>1. \A p \in Queues : \A i \in 1 .. Len(u.queue[p]) : Pristine(u.queue[p][i])
      BY <1>0, <2>2, <2>5, PoppedPristine
    <3> QED BY <2>2, <2>3, <3>1, SelectAny
  <2> HIDE DEF t
  <2>6. GoodVisit(s, t, f)
    BY <1>0, <2>3, <2>4, <2>5 DEF GoodVisit
  <2> QED BY <2>6 DEF VisitNvmeDma, t
<1>2. CASE s.dieStatus # "IDLE"
  <2>1. ~Strict(s)
    BY <1>0, <1>2 DEF Strict
  <2>2. u \in DieType /\ u.queue = s.queue /\ u.empty = s.empty /\ u.queue[u.owner] # <<>>
    <3>1. CASE s.dieStatus \in Executions
      <4>1. u = s
        BY <3>1 DEF ExeLowLevelReqPerDie, Executions
      <4> QED BY <1>2, <4>1 DEF Sound
    <3>2. CASE s.dieStatus \in {"FAIL", "TR_FAIL"}
      BY <1>0, <1>2, <3>2, StartedFacts DEF Sound
    <3> QED BY <1>2, <3>1, <3>2 DEF DieType, Executions
  <2>3. t \in DieType /\ t.queue = u.queue /\ Sound(t)
    BY <1>0, <2>2, SelectSound
  <2>4. SameLengths(s, t)
    BY <2>2, <2>3 DEF SameLengths
  <2> HIDE DEF t
  <2>5. GoodVisit(s, t, f)
    BY <2>1, <2>3, <2>4 DEF GoodVisit
  <2> QED BY <2>5 DEF VisitNvmeDma, t
<1> QED BY <1>1, <1>2

\* The first status check asks for the report.
LEMMA VisitNandStatusGood ==
    ASSUME NEW s \in DieType, Sound(s), NEW f \in Queues, s.list = "nandStatus"
    PROVE  GoodVisit(s, VisitNandStatus(s), f)
<1> DEFINE q == s.queueSelect
           r == Front(s, q)
           u == AfterCheck(s, q)
           t == [u EXCEPT !.list = "statusReport"]
<1>0. q \in Queues /\ s.queue[q] # <<>> /\ s.list # "idle" /\ r \in Entry
  BY FrontAndRest DEF Sound, DieType
<1>1. /\ u \in DieType /\ u.dieStatus = s.dieStatus
      /\ u.queueSelect = s.queueSelect /\ u.owner = s.owner /\ u.empty = s.empty
  BY <1>0, AfterCheckFacts
<1>2. PICK x : \/ u = s /\ ~Pristine(r)
               \/ /\ Refronted(s, u, q, x) /\ u.fresh /\ r.request # "ReadPageTransfer"
                  /\ x = [r EXCEPT !.statusOption = "CHECK_STATUS_REPORT"]
               \/ Refronted(s, u, q, x) /\ ~Pristine(r)
  BY <1>0, AfterCheckFacts DEF Pristine
<1> HIDE DEF u
<1>3. /\ t \in DieType /\ t.queue = u.queue /\ t.dieStatus = s.dieStatus
      /\ t.queueSelect = q /\ t.owner = s.owner /\ t.empty = s.empty
      /\ t.list = "statusReport" /\ t.fresh = u.fresh
  BY <1>1 DEF DieType
<1> HIDE DEF t
<1>4. SameLengths(s, t) /\ \A p \in Queues : u.queue[p] = <<>> <=> s.queue[p] = <<>>
  BY <1>0, <1>2, <1>3 DEF Refronted, SameLengths
<1>5. Sound(t)
  BY <1>0, <1>3, <1>4 DEF Sound, Starts, Executions, DieType
<1>6. ASSUME Strict(s), Selected(s, f)
      PROVE  Strict(t) /\ Selected(t, f)
  <2>1. Pristine(r) /\ s.owner = q /\ r.request # "DMA"
    BY <1>0, <1>5, <1>6, <1>3 DEF Strict, Sound, Executions
  <2>2. /\ Refronted(s, u, q, x) /\ u.fresh
        /\ x = [r EXCEPT !.statusOption = "CHECK_STATUS_REPORT"]
    BY <1>2, <2>1
  <2>3. Front(u, q) = x
    BY <1>0, <1>1, <2>2, RefrontedLengths
  <2>4. Front(t, t.queueSelect) = x
    BY <1>3, <2>3 DEF Front
  <2>5. \A p \in Queues : \A i \in 1 .. Len(t.queue[p]) :
           Pristine(t.queue[p][i]) \/ (p = q /\ i = 1)
    BY <1>0, <1>1, <1>3, <1>6, <2>2, RefrontedPristine
  <2>6. x.request = r.request /\ x.statusOption = "CHECK_STATUS_REPORT"
    BY <1>0, <2>2 DEF Entry
  <2>7. Strict(t)
    BY <1>3, <2>1, <2>2, <2>4, <2>5, <2>6 DEF Strict, Starts
  <2>8. Selected(t, f)
    BY <1>0, <1>3, <1>4, <1>6 DEF Selected
  <2> QED BY <2>7, <2>8
<1> QED BY <1>3, <1>4, <1>5, <1>6 DEF GoodVisit, VisitNandStatus, t, u

\* The command of an erase, a program or the trigger of a read is sent, and the
\* transfer of a read is started.
LEMMA VisitStartGood ==
    ASSUME NEW s \in DieType, Sound(s), NEW f \in Queues,
           s.list \in Starts \ {"nvmeDma"},
           NEW l, l = IF s.list = "nandTransfer" THEN "statusReport" ELSE "nandStatus"
    PROVE  GoodVisit(s, [ExeLowLevelReqPerDie(s, "RUNNING") EXCEPT !.list = l], f)
<1> DEFINE q == s.queueSelect
           r == Front(s, q)
           u == ExeLowLevelReqPerDie(s, "RUNNING")
           t == [u EXCEPT !.list = l]
<1>0. /\ q \in Queues /\ s.queue[q] # <<>> /\ s.list # "idle"
      /\ r.request # "DMA"
      /\ r.request = "ReadPageTransfer" <=> s.list = "nandTransfer"
  <2>1. q \in Queues /\ s.queue[q] # <<>> /\ s.list = ListFor(r.request)
    BY DEF Sound, Starts, DieType
  <2>2. r.request \in Requests
    BY <2>1, FrontAndRest DEF Entry
  <2> QED BY <2>1, <2>2 DEF ListFor, Requests, Starts
<1>1. /\ u \in DieType /\ u.queue = s.queue /\ u.empty = s.empty
      /\ u.queueSelect = q /\ u.dieStatus \in Executions /\ u.queue[u.owner] # <<>>
      /\ s.dieStatus \in {"IDLE", "FAIL", "TR_FAIL"}
            => /\ u.owner = IF s.dieStatus = "IDLE" THEN q ELSE s.owner
               /\ u.fresh = (Front(s, u.owner).request = "ReadPageTransfer")
  <2>1. CASE s.dieStatus \in Executions
    <3>1. u = s
      BY <2>1 DEF ExeLowLevelReqPerDie, Executions
    <3> QED BY <2>1, <3>1 DEF Sound, Executions
  <2>2. CASE s.dieStatus \in {"IDLE", "FAIL", "TR_FAIL"}
    <3>1. s.dieStatus # "IDLE" => s.queue[s.owner] # <<>>
      BY DEF Sound
    <3> QED BY <1>0, <2>2, <3>1, StartedFacts
  <2> QED BY <2>1, <2>2 DEF DieType, Executions
<1> HIDE DEF u
<1>2. /\ t \in DieType /\ t.queue = u.queue /\ t.dieStatus = u.dieStatus
      /\ t.queueSelect = u.queueSelect /\ t.owner = u.owner /\ t.empty = u.empty
      /\ t.list = l /\ t.fresh = u.fresh
  BY <1>1 DEF DieType
<1> HIDE DEF t
<1>3. SameLengths(s, t)
  BY <1>1, <1>2 DEF SameLengths
<1>4. Sound(t)
  BY <1>0, <1>1, <1>2 DEF Sound, Starts, Executions
<1>5. ASSUME Strict(s), Selected(s, f)
      PROVE  Strict(t) /\ Selected(t, f)
  <2>1. Front(t, t.queueSelect) = r
    BY <1>1, <1>2 DEF Front
  <2>2. s.dieStatus \in {"IDLE", "FAIL", "TR_FAIL"} /\ u.owner = q
    BY <1>1, <1>5 DEF Strict
  <2>3. /\ r.request # "ReadPageTransfer" => r.statusOption = "STATUS_CHECK"
        /\ r.request = "ReadPageTransfer" => r.statusOption = "CHECK_STATUS_REPORT"
    BY <1>0, <1>5 DEF Strict
  <2>4. \A p \in Queues : \A i \in 1 .. Len(t.queue[p]) :
           Pristine(t.queue[p][i]) \/ (p = q /\ i = 1)
    BY <1>1, <1>2, <1>5 DEF Strict
  <2>5. l = "statusReport" => t.fresh
    BY <1>0, <1>1, <1>2, <2>2
  <2>6. Strict(t)
    BY <1>0, <1>1, <1>2, <2>1, <2>2, <2>3, <2>4, <2>5 DEF Strict, Starts, Pristine
  <2>7. Selected(t, f)
    BY <1>0, <1>1, <1>2, <1>5 DEF Selected
  <2> QED BY <2>6, <2>7
<1> QED BY <1>2, <1>3, <1>4, <1>5 DEF GoodVisit, t, u

\* A status other than RUNNING is a verdict, and checking it changed nothing.
LEMMA CheckStatusFacts ==
    ASSUME NEW s \in DieType, NEW q \in Queues, s.queue[q] # <<>>,
           CheckStatus(s, q) # "RUNNING"
    PROVE  CheckStatus(s, q) \in {"DONE", "FAIL", "WARNING"} /\ AfterCheck(s, q) = s
<1>1. CASE Front(s, q).request = "ReadPageTransfer"
  <2>1. AfterCheck(s, q) = s
    BY <1>1 DEF AfterCheck
  <2>2. CheckStatus(s, q) \in {"DONE", "FAIL", "WARNING"}
    BY <1>1 DEF CheckStatus, DieType
  <2> QED BY <2>1, <2>2
<1>2. CASE Front(s, q).request # "ReadPageTransfer"
  <2>1. /\ Front(s, q).statusOption = "CHECK_STATUS_REPORT"
        /\ s.complete \in {"pass", "fail"}
    BY <1>2 DEF CheckStatus
  <2>2. CheckStatus(s, q) \in {"DONE", "FAIL", "WARNING"}
    BY <1>2, <2>1 DEF CheckStatus
  <2>3. AfterCheck(s, q) = s
    BY <1>2, <2>1 DEF AfterCheck
  <2> QED BY <2>2, <2>3
<1> QED BY <1>1, <1>2

\* A verdict is acted on and the next request selected.
LEMMA VisitVerdictGood ==
    ASSUME NEW s \in DieType, Sound(s), NEW f \in Queues, s.list = "statusReport",
           NEW status \in {"DONE", "FAIL", "WARNING"}
    PROVE  GoodVisit(s, FindPriorityTable(ExeLowLevelReqPerDie(s, status), f), f)
<1> DEFINE o == s.owner
           r == Front(s, o)
           u == ExeLowLevelReqPerDie(s, status)
           t == FindPriorityTable(u, f)
<1>0. /\ o \in Queues /\ s.queue[o] # <<>> /\ s.list # "idle"
      /\ s.dieStatus \in Executions /\ s.dieStatus # "IDLE" /\ r \in Entry
  <2>1. o \in Queues /\ s.dieStatus \in Executions
    BY DEF Sound, DieType
  <2>2. s.queue[o] # <<>>
    BY <2>1 DEF Sound, Executions
  <2> QED BY <2>1, <2>2, FrontAndRest DEF Executions
<1>1. u \in DieType /\ SameSelection(s, u) /\ Judged(s, u)
  BY <1>0, JudgedFacts
<1> HIDE DEF u
<1>2. /\ \A q \in Queues \ {o} : u.queue[q] = s.queue[q]
      /\ u.dieStatus # "IDLE" => u.queue[u.owner] # <<>>
  BY <1>1 DEF Judged, Popped, Refronted, SameSelection
<1>3. /\ \A q \in Queues : u.empty[q] => u.queue[q] = <<>>
      /\ t \in DieType /\ t.queue = u.queue /\ Sound(t)
  BY <1>0, <1>1, <1>2, SelectSound DEF SameSelection
<1>4. ASSUME Popped(s, u, o), u.dieStatus = "IDLE"
      PROVE  GoodVisit(s, t, f)
  <2>1. Popped(s, t, o)
    BY <1>3, <1>4 DEF Popped
  <2>2. ASSUME Strict(s), Selected(s, f)
        PROVE  /\ Strict(t) /\ Selected(t, f)
               /\ Popped(s, t, s.queueSelect)
    <3>1. o = s.queueSelect
      BY <1>0, <2>2 DEF Strict
    <3>2. \A p \in Queues : \A i \in 1 .. Len(u.queue[p]) : Pristine(u.queue[p][i])
      BY <1>0, <1>1, <1>4, <2>2, <3>1, PoppedPristine
    <3> QED BY <1>1, <1>3, <1>4, <2>1, <3>1, <3>2, SelectAny
  <2> HIDE DEF t
  <2> QED BY <1>0, <1>3, <2>1, <2>2 DEF GoodVisit
<1>5. ASSUME NEW x, Refronted(s, u, o, x), u.dieStatus \in {"IDLE", "FAIL", "TR_FAIL"},
             \/ x = [r EXCEPT !.request = "ReadPageTransfer"]
             \/ /\ x.statusOption = "STATUS_CHECK" /\ x.request # "ReadPageTransfer"
                /\ x.request = "DMA" => r.request = "DMA"
      PROVE  GoodVisit(s, t, f)
  <2>1. SameLengths(s, u) /\ u.queue[o] # <<>> /\ Front(u, o) = x
    BY <1>0, <1>1, <1>5, RefrontedLengths
  <2>2. SameLengths(s, t)
    BY <1>3, <2>1 DEF SameLengths
  <2>3. ASSUME Strict(s), Selected(s, f)
        PROVE  Strict(t) /\ Selected(t, f)
    <3>1. o = s.queueSelect /\ r.request # "DMA" /\ r.statusOption = "CHECK_STATUS_REPORT"
      BY <1>0, <2>3 DEF Strict
    <3>2. \A q \in Queues : \A i \in 1 .. Len(u.queue[q]) :
             Pristine(u.queue[q][i]) \/ (q = o /\ i = 1)
      BY <1>0, <1>1, <1>5, <2>3, <3>1, RefrontedPristine
    <3>3. /\ x.request # "DMA"
          /\ x.request = "ReadPageTransfer" => x.statusOption = "CHECK_STATUS_REPORT"
          /\ x.request # "ReadPageTransfer" => x.statusOption = "STATUS_CHECK"
      BY <1>0, <1>5, <3>1 DEF Entry
    <3>4. u.queue[f] # <<>> => o = f
      <4>1. u.queue[f] = <<>> <=> s.queue[f] = <<>>
        BY <1>2, <1>5 DEF Refronted
      <4> QED BY <1>0, <2>3, <3>1, <4>1 DEF Selected
    <3>5. u.owner = o
      BY <1>1 DEF SameSelection
    <3> HIDE DEF o, r
    <3> QED BY <1>0, <1>1, <1>3, <1>5, <2>1, <3>2, <3>3, <3>4, <3>5, SelectFront
  <2> HIDE DEF t
  <2> QED BY <1>3, <2>2, <2>3 DEF GoodVisit
<1>6. ASSUME Refronted(s, u, o, [r EXCEPT !.request = "ReadPageTransfer"]),
             u.dieStatus \in {"IDLE", "FAIL"}
      PROVE  GoodVisit(s, t, f)
  BY <1>5, <1>6
<1>7. ASSUME NEW x \in Entry, x.statusOption = "STATUS_CHECK", x.request # "ReadPageTransfer",
             x.request = "DMA" => r.request = "DMA", Refronted(s, u, o, x),
             u.dieStatus \in {"FAIL", "TR_FAIL"}
      PROVE  GoodVisit(s, t, f)
  BY <1>5, <1>7
<1> HIDE DEF t
<1>8. GoodVisit(s, t, f)
  BY <1>1, <1>4, <1>6, <1>7 DEF Judged
<1> QED BY <1>8 DEF t, u

\* While no verdict is there the report is awaited or asked for again.
LEMMA VisitRunningGood ==
    ASSUME NEW s \in DieType, Sound(s), NEW f \in Queues, s.list = "statusReport",
           CheckStatus(s, s.queueSelect) = "RUNNING"
    PROVE  GoodVisit(s, VisitStatusReport(s, f), f)
<1> DEFINE q == s.queueSelect
           r == Front(s, q)
           u == AfterCheck(s, q)
           t == IF Front(u, q).statusOption = "STATUS_CHECK"
                THEN [u EXCEPT !.list = "nandStatus"] ELSE u
<1>0. q \in Queues /\ s.queue[q] # <<>> /\ s.list # "idle" /\ r \in Entry
  BY FrontAndRest DEF Sound, DieType
<1>1. /\ u \in DieType /\ u.dieStatus = s.dieStatus /\ u.list = "statusReport"
      /\ u.queueSelect = s.queueSelect /\ u.owner = s.owner /\ u.empty = s.empty
  BY <1>0, AfterCheckFacts
<1>2. PICK x : \/ u = s
               \/ /\ Refronted(s, u, q, x) /\ r.statusOption = "STATUS_CHECK"
                  /\ x = [r EXCEPT !.statusOption = "CHECK_STATUS_REPORT"]
               \/ /\ Refronted(s, u, q, x) /\ r.request # "ReadPageTransfer"
                  /\ x = [r EXCEPT !.statusOption = "STATUS_CHECK"]
  BY <1>0, AfterCheckFacts
<1> HIDE DEF u
<1>3. /\ t \in DieType /\ t.queue = u.queue /\ t.dieStatus = s.dieStatus
      /\ t.queueSelect = q /\ t.owner = s.owner /\ t.empty = s.empty /\ t.fresh = u.fresh
      /\ t.list = IF Front(u, q).statusOption = "STATUS_CHECK" THEN "nandStatus"
                  ELSE "statusReport"
  <2>1. LET w == [u EXCEPT !.list = "nandStatus"]
        IN  /\ w \in DieType /\ w.queue = u.queue /\ w.dieStatus = u.dieStatus
            /\ w.queueSelect = u.queueSelect /\ w.owner = u.owner /\ w.empty = u.empty
            /\ w.fresh = u.fresh /\ w.list = "nandStatus"
    BY <1>1 DEF DieType
  <2> QED BY <1>1, <2>1
<1>4. t = IF Front(u, q).statusOption = "STATUS_CHECK"
          THEN [u EXCEPT !.list = "nandStatus"] ELSE u
  OBVIOUS
<1> HIDE DEF t
<1>5. SameLengths(s, t) /\ \A p \in Queues : u.queue[p] = <<>> <=> s.queue[p] = <<>>
  BY <1>0, <1>2, <1>3 DEF Refronted, SameLengths
<1>6. Sound(t)
  BY <1>0, <1>3, <1>5 DEF Sound, Starts, Executions, DieType
<1>7. ASSUME Strict(s), Selected(s, f)
      PROVE  Strict(t) /\ Selected(t, f)
  <2>1. s.owner = q /\ r.request # "DMA" /\ r.statusOption = "CHECK_STATUS_REPORT" /\ s.fresh
    BY <1>0, <1>3, <1>6, <1>7 DEF Strict, Sound, Executions
  <2>2. Selected(t, f)
    BY <1>0, <1>3, <1>5, <1>7 DEF Selected
  <2>3. CASE u = s
    <3>1. t = s
      BY <1>4, <2>1, <2>3
    <3> QED BY <1>7, <3>1
  <2>4. CASE /\ Refronted(s, u, q, x) /\ r.request # "ReadPageTransfer"
             /\ x = [r EXCEPT !.statusOption = "STATUS_CHECK"]
    <3>1. Front(u, q) = x
      BY <1>0, <1>1, <2>4, RefrontedLengths
    <3>2. x.request = r.request /\ x.statusOption = "STATUS_CHECK"
      BY <1>0, <2>4 DEF Entry
    <3>3. Front(t, t.queueSelect) = x
      BY <1>3, <3>1 DEF Front
    <3>4. \A p \in Queues : \A i \in 1 .. Len(t.queue[p]) :
             Pristine(t.queue[p][i]) \/ (p = q /\ i = 1)
      BY <1>0, <1>1, <1>3, <1>7, <2>4, RefrontedPristine
    <3>5. t.list = "nandStatus"
      BY <1>3, <3>1, <3>2
    <3>6. Strict(t)
      BY <1>3, <2>1, <2>4, <3>2, <3>3, <3>4, <3>5 DEF Strict, Starts, Pristine
    <3> QED BY <2>2, <3>6
  <2> QED BY <1>2, <2>1, <2>3, <2>4
<1>8. VisitStatusReport(s, f) = t
  BY <1>1, <1>4 DEF VisitStatusReport, u
<1> QED BY <1>3, <1>5, <1>6, <1>7, <1>8 DEF GoodVisit

\* Every visit is right.
LEMMA VisitedGood ==
    ASSUME NEW s \in DieType, Sound(s), NEW f \in Queues, Visitable(s)
    PROVE  GoodVisit(s, Visited(s, f), f)
<1>1. CASE s.list = "idle"
  BY <1>1, VisitIdleGood DEF Visited, Visitable
<1>2. CASE s.list = "nvmeDma"
  BY <1>2, VisitNvmeDmaGood DEF Visited
<1>3. CASE s.list = "nandStatus"
  BY <1>3, VisitNandStatusGood DEF Visited
<1>4. CASE s.list = "nandTransfer"
  BY <1>4, VisitStartGood DEF Visited, VisitTransfer, Starts
<1>5. CASE s.list \in {"nandTrigger", "nandErase", "nandTrigNTrans"}
  BY <1>5, VisitStartGood DEF Visited, VisitNand, Starts
<1>6. CASE s.list = "statusReport"
  <2>1. Visited(s, f) = VisitStatusReport(s, f)
    BY <1>6 DEF Visited
  <2>2. CASE CheckStatus(s, s.queueSelect) = "RUNNING"
    BY <1>6, <2>1, <2>2, VisitRunningGood
  <2>3. CASE CheckStatus(s, s.queueSelect) # "RUNNING"
    <3>1. s.queueSelect \in Queues /\ s.queue[s.queueSelect] # <<>>
      BY <1>6 DEF Sound, DieType
    <3>2. /\ CheckStatus(s, s.queueSelect) \in {"DONE", "FAIL", "WARNING"}
          /\ AfterCheck(s, s.queueSelect) = s
      BY <2>3, <3>1, CheckStatusFacts
    <3>3. Visited(s, f) =
             FindPriorityTable(ExeLowLevelReqPerDie(s, CheckStatus(s, s.queueSelect)), f)
      BY <2>1, <2>3, <3>2 DEF VisitStatusReport
    <3> QED BY <1>6, <3>2, <3>3, VisitVerdictGood
  <2> QED BY <2>2, <2>3
<1> QED BY <1>1, <1>2, <1>3, <1>4, <1>5, <1>6 DEF DieType

(***************************************************************************)
(* What the routines have still to do.                                     *)
(***************************************************************************)

\* steps after which the main loop has no request to forget
Wakers == {"reserve", "drainAll", "relocate"}

\* a request that is pushed is waited for or announced later
Announced(t) ==
    \A i \in 1 .. Len(t) : t[i].do = "push" => \E j \in i + 1 .. Len(t) : t[j].do \in Wakers

\* a transfer is never pushed: it is what is left of a read that was triggered
Pushes == Requests \ {"ReadPageTransfer"}

\* The steps of a relocation are pushes to the sub-req queue.
LEMMA CopiesFacts ==
    ASSUME NEW n \in Nat
    PROVE  /\ Copies(n) \in Seq(Steps) /\ Len(Copies(n)) = 2 * n
           /\ \A i \in 1 .. 2 * n : \E r \in Pushes : Copies(n)[i] = Push("SUB", r)
<1> DEFINE e(i) == Push("SUB", IF i % 2 = 1 THEN "ReadPageTrigger" ELSE "ProgramPage")
<1>1. \A r \in Pushes : Push("SUB", r) \in Steps
  BY DEF Push, Step, Steps, Queues, Other, Pushes
<1>2. \A i \in 1 .. 2 * n : \E r \in Pushes : e(i) = Push("SUB", r)
  BY DEF Requests, Pushes
<1>3. \A i \in 1 .. 2 * n : e(i) \in Steps
  BY <1>1, <1>2
<1>4. 2 * n \in Nat
  OBVIOUS
<1>5. Copies(n) = [i \in 1 .. 2 * n |-> e(i)]
  BY DEF Copies
<1> HIDE DEF e
<1>6. [i \in 1 .. 2 * n |-> e(i)] \in Seq(Steps)
  BY <1>3, <1>4, IsASeq
<1>7. Len([i \in 1 .. 2 * n |-> e(i)]) = 2 * n
  BY <1>3, <1>4
<1> QED BY <1>2, <1>5, <1>6, <1>7

\* The steps are well typed.
LEMMA StepTypes ==
    /\ \A q \in Queues, r \in Requests : Push(q, r) \in Steps
    /\ \A q \in Queues : {Drain(q), DrainAll(q), ReadTable(q), Relocate(q), Reserve} \subseteq Steps
BY DEF Push, Drain, DrainAll, ReadTable, Relocate, Reserve, Step, Steps, Queues, Other, Requests

\* Steps put in front move the others back.
LEMMA ConcatSteps ==
    ASSUME NEW p \in Seq(Steps), NEW t \in Seq(Steps)
    PROVE  /\ p \o t \in Seq(Steps) /\ Len(p \o t) = Len(p) + Len(t)
           /\ Len(p) \in Nat /\ Len(t) \in Nat
           /\ \A i \in 1 .. Len(p) : (p \o t)[i] = p[i]
           /\ \A i \in 1 .. Len(t) : (p \o t)[Len(p) + i] = t[i]
<1> DEFINE u == p \o t
<1>1. /\ u \in Seq(Steps) /\ Len(u) = Len(p) + Len(t) /\ Len(p) \in Nat /\ Len(t) \in Nat
      /\ \A i \in 1 .. Len(p) + Len(t) : u[i] = IF i <= Len(p) THEN p[i] ELSE t[i - Len(p)]
  BY ConcatProperties, LenProperties
<1> HIDE DEF u
<1>2. ASSUME NEW i \in 1 .. Len(t) PROVE u[Len(p) + i] = t[i]
  <2>1. Len(p) + i \in 1 .. Len(p) + Len(t) /\ ~(Len(p) + i <= Len(p))
        /\ (Len(p) + i) - Len(p) = i
    BY <1>1
  <2> QED BY <1>1, <2>1
<1>3. \A i \in 1 .. Len(p) : u[i] = p[i]
  BY <1>1
<1> QED BY <1>1, <1>2, <1>3 DEF u

\* Steps put in front keep the pushes announced if theirs are.
LEMMA AnnouncedInFront ==
    ASSUME NEW p \in Seq(Steps), NEW t \in Seq(Steps), Announced(t),
           \/ \A i \in 1 .. Len(p) : p[i].do # "push"
           \/ \E j \in 1 .. Len(t) : t[j].do \in Wakers
           \/ p[Len(p)].do \in Wakers
    PROVE  p \o t \in Seq(Steps) /\ Announced(p \o t)
<1> DEFINE u == p \o t
<1>1. /\ u \in Seq(Steps) /\ Len(u) = Len(p) + Len(t) /\ Len(p) \in Nat /\ Len(t) \in Nat
      /\ \A i \in 1 .. Len(p) : u[i] = p[i]
      /\ \A i \in 1 .. Len(t) : u[Len(p) + i] = t[i]
  BY ConcatSteps
<1> HIDE DEF u
<1>2. ASSUME NEW i \in 1 .. Len(u), u[i].do = "push"
      PROVE  \E j \in i + 1 .. Len(u) : u[j].do \in Wakers
  <2>1. CASE i <= Len(p)
    <3>1. i \in 1 .. Len(p) /\ p[i].do = "push"
      BY <1>1, <1>2, <2>1
    <3>2. ASSUME NEW j \in 1 .. Len(t), t[j].do \in Wakers
          PROVE  \E k \in i + 1 .. Len(u) : u[k].do \in Wakers
      <4>1. Len(p) + j \in i + 1 .. Len(u) /\ u[Len(p) + j].do \in Wakers
        BY <1>1, <3>1, <3>2
      <4> QED BY <4>1
    <3>3. CASE p[Len(p)].do \in Wakers
      <4>1. i # Len(p)
        BY <3>1, <3>3 DEF Wakers
      <4>2. Len(p) \in i + 1 .. Len(u) /\ u[Len(p)].do \in Wakers
        BY <1>1, <3>1, <3>3, <4>1
      <4> QED BY <4>2
    <3> QED BY <3>1, <3>2, <3>3
  <2>2. CASE ~(i <= Len(p))
    <3>1. i - Len(p) \in 1 .. Len(t) /\ Len(p) + (i - Len(p)) = i
      BY <1>1, <2>2
    <3>2. t[i - Len(p)].do = "push"
      BY <1>1, <1>2, <3>1
    <3>3. PICK j \in (i - Len(p)) + 1 .. Len(t) : t[j].do \in Wakers
      BY <3>1, <3>2 DEF Announced
    <3>4. Len(p) + j \in i + 1 .. Len(u) /\ j \in 1 .. Len(t)
      BY <1>1, <3>1, <3>3
    <3>5. u[Len(p) + j].do \in Wakers
      BY <1>1, <3>3, <3>4
    <3> QED BY <3>4, <3>5
  <2> QED BY <2>1, <2>2
<1> QED BY <1>1, <1>2 DEF Announced, u

\* The steps after the first one.
LEMMA TailSteps ==
    ASSUME NEW t \in Seq(Steps), t # <<>>
    PROVE  /\ Head(t) \in Steps /\ Head(t) = t[1] /\ Tail(t) \in Seq(Steps)
           /\ Len(t) \in Nat \ {0} /\ Len(Tail(t)) = Len(t) - 1
           /\ \A i \in 1 .. Len(Tail(t)) : Tail(t)[i] = t[i + 1]
           /\ t = <<Head(t)>> \o Tail(t)
<1>1. /\ Head(t) \in Steps /\ Head(t) = t[1] /\ Tail(t) \in Seq(Steps)
      /\ Len(t) \in Nat \ {0} /\ Len(Tail(t)) = Len(t) - 1
      /\ \A i \in 1 .. Len(Tail(t)) : Tail(t)[i] = t[i + 1]
  BY HeadTailProperties, EmptySeq
<1> DEFINE h == <<Head(t)>>
           u == h \o Tail(t)
<1>2. h \in Seq(Steps) /\ Len(h) = 1 /\ h[1] = Head(t)
  BY <1>1
<1> HIDE DEF h
<1>3. /\ u \in Seq(Steps) /\ Len(u) = Len(t)
      /\ \A i \in 1 .. Len(t) : u[i] = IF i <= 1 THEN h[i] ELSE Tail(t)[i - 1]
  <2>1. /\ u \in Seq(Steps) /\ Len(u) = Len(h) + Len(Tail(t))
        /\ \A i \in 1 .. Len(h) + Len(Tail(t)) :
              u[i] = IF i <= Len(h) THEN h[i] ELSE Tail(t)[i - Len(h)]
    BY <1>1, <1>2, ConcatProperties
  <2> HIDE DEF u
  <2>2. Len(h) + Len(Tail(t)) = Len(t)
    BY <1>1, <1>2
  <2> QED BY <1>2, <2>1, <2>2
<1> HIDE DEF u
<1>4. ASSUME NEW i \in 1 .. Len(t) PROVE u[i] = t[i]
  <2>1. CASE i = 1
    BY <1>1, <1>2, <1>3, <2>1
  <2>2. CASE i # 1
    <3>1. i - 1 \in 1 .. Len(Tail(t)) /\ (i - 1) + 1 = i /\ ~(i <= 1)
      BY <1>1, <2>2
    <3> QED BY <1>1, <1>3, <3>1
  <2> QED BY <2>1, <2>2
<1>5. u = t
  BY <1>3, <1>4, SeqEqual
<1> QED BY <1>1, <1>5 DEF u, h

\* Pushes stay announced when the first step is done, the one done included.
LEMMA AnnouncedTail ==
    ASSUME NEW t \in Seq(Steps), t # <<>>, Announced(t)
    PROVE  /\ Announced(Tail(t))
           /\ t[1].do = "push" => \E i \in 1 .. Len(Tail(t)) : Tail(t)[i].do \in Wakers
<1>1. /\ Len(t) \in Nat \ {0} /\ Len(Tail(t)) = Len(t) - 1
      /\ \A i \in 1 .. Len(Tail(t)) : Tail(t)[i] = t[i + 1]
  BY TailSteps
<1>2. ASSUME NEW i \in 0 .. Len(Tail(t)), t[i + 1].do = "push"
      PROVE  \E j \in i + 1 .. Len(Tail(t)) : Tail(t)[j].do \in Wakers
  <2>1. PICK j \in (i + 1) + 1 .. Len(t) : t[j].do \in Wakers
    BY <1>1, <1>2 DEF Announced
  <2>2. j - 1 \in i + 1 .. Len(Tail(t)) /\ j - 1 \in 1 .. Len(Tail(t)) /\ (j - 1) + 1 = j
    BY <1>1, <2>1
  <2> QED BY <1>1, <2>1, <2>2
<1>3. Announced(Tail(t))
  BY <1>1, <1>2 DEF Announced
<1>4. t[1].do = "push" => \E i \in 1 .. Len(Tail(t)) : Tail(t)[i].do \in Wakers
  BY <1>1, <1>2
<1> QED BY <1>3, <1>4

\* The last steps of a collection, and those of a relocation.
LEMMA ShortStacks ==
    /\ LET t == <<Push("SUB", "BlockErase"), Drain("REQ"), Push("REQ", "ProgramPage"), Reserve>>
       IN  t \in Seq(Steps) /\ Len(t) = 4 /\ Announced(t) /\ t[4].do \in Wakers
    /\ LET t == <<Push("SUB", "BlockErase"), Push("SUB", "ProgramPage"), Reserve>>
       IN  t \in Seq(Steps) /\ Len(t) = 3 /\ Announced(t) /\ t[3].do \in Wakers
    /\ \A r \in Requests :
          LET t == <<Push("REQ", r), Reserve>>
          IN  t \in Seq(Steps) /\ Len(t) = 2 /\ Announced(t)
    /\ LET t == <<Push("REQ", "ReadPageTrigger"), Reserve, Drain("REQ")>>
       IN  t \in Seq(Steps) /\ Announced(t)
    /\ \A f \in Queues :
          LET t == <<Push("SUB", "ReadPageTrigger"), DrainAll(f), Relocate(f)>>
          IN  t \in Seq(Steps) /\ Len(t) = 3 /\ Announced(t) /\ t[3].do \in Wakers
    /\ \A x \in Steps : x.do # "push" => Announced(<<x>>)
    /\ Announced(<<>>)
<1> USE StepTypes DEF Wakers, Queues, Requests
<1>1. LET t == <<Push("SUB", "BlockErase"), Drain("REQ"), Push("REQ", "ProgramPage"), Reserve>>
      IN  t \in Seq(Steps) /\ Len(t) = 4 /\ Announced(t) /\ t[4].do \in Wakers
  <2> DEFINE t == <<Push("SUB", "BlockErase"), Drain("REQ"), Push("REQ", "ProgramPage"), Reserve>>
  <2>1. t \in Seq(Steps) /\ Len(t) = 4 /\ t[4].do = "reserve"
    BY DEF Reserve, Step
  <2>2. ASSUME NEW i \in 1 .. 4, t[i].do = "push" PROVE 4 \in i + 1 .. 4
    BY <2>2 DEF Reserve, Step
  <2> HIDE DEF t
  <2>3. Announced(t)
    BY <2>1, <2>2 DEF Announced
  <2> QED BY <2>1, <2>3 DEF t
<1>2. LET t == <<Push("SUB", "BlockErase"), Push("SUB", "ProgramPage"), Reserve>>
      IN  t \in Seq(Steps) /\ Len(t) = 3 /\ Announced(t) /\ t[3].do \in Wakers
  <2> DEFINE t == <<Push("SUB", "BlockErase"), Push("SUB", "ProgramPage"), Reserve>>
  <2>1. t \in Seq(Steps) /\ Len(t) = 3 /\ t[3].do = "reserve"
    BY DEF Reserve, Step
  <2>2. ASSUME NEW i \in 1 .. 3, t[i].do = "push" PROVE 3 \in i + 1 .. 3
    BY <2>2 DEF Reserve, Step
  <2> HIDE DEF t
  <2>3. Announced(t)
    BY <2>1, <2>2 DEF Announced
  <2> QED BY <2>1, <2>3 DEF t
<1>3. ASSUME NEW r \in Requests
      PROVE  LET t == <<Push("REQ", r), Reserve>>
             IN  t \in Seq(Steps) /\ Len(t) = 2 /\ Announced(t)
  <2> DEFINE t == <<Push("REQ", r), Reserve>>
  <2>1. t \in Seq(Steps) /\ Len(t) = 2 /\ t[2].do = "reserve"
    BY DEF Reserve, Step
  <2>2. ASSUME NEW i \in 1 .. 2, t[i].do = "push" PROVE 2 \in i + 1 .. 2
    BY <2>2 DEF Reserve, Step
  <2> HIDE DEF t
  <2>3. Announced(t)
    BY <2>1, <2>2 DEF Announced
  <2> QED BY <2>1, <2>3 DEF t
<1>4. LET t == <<Push("REQ", "ReadPageTrigger"), Reserve, Drain("REQ")>>
      IN  t \in Seq(Steps) /\ Announced(t)
  <2> DEFINE t == <<Push("REQ", "ReadPageTrigger"), Reserve, Drain("REQ")>>
  <2>1. t \in Seq(Steps) /\ Len(t) = 3 /\ t[2].do = "reserve"
    BY DEF Reserve, Step
  <2>2. ASSUME NEW i \in 1 .. 3, t[i].do = "push" PROVE 2 \in i + 1 .. 3
    BY <2>2 DEF Reserve, Drain, Step
  <2> HIDE DEF t
  <2>3. Announced(t)
    BY <2>1, <2>2 DEF Announced
  <2> QED BY <2>1, <2>3 DEF t
<1>5. ASSUME NEW f \in Queues
      PROVE  LET t == <<Push("SUB", "ReadPageTrigger"), DrainAll(f), Relocate(f)>>
             IN  t \in Seq(Steps) /\ Len(t) = 3 /\ Announced(t) /\ t[3].do \in Wakers
  <2> DEFINE t == <<Push("SUB", "ReadPageTrigger"), DrainAll(f), Relocate(f)>>
  <2>1. t \in Seq(Steps) /\ Len(t) = 3 /\ t[3].do = "relocate"
    BY DEF Relocate, Step
  <2>2. ASSUME NEW i \in 1 .. 3, t[i].do = "push" PROVE 3 \in i + 1 .. 3
    BY <2>2 DEF Relocate, Step
  <2> HIDE DEF t
  <2>3. Announced(t)
    BY <2>1, <2>2 DEF Announced
  <2> QED BY <2>1, <2>3 DEF t
<1>6. \A x \in Steps : x.do # "push" => Announced(<<x>>)
  BY DEF Announced
<1>7. Announced(<<>>)
  BY DEF Announced
<1> QED BY <1>1, <1>2, <1>3, <1>4, <1>5, <1>6, <1>7

\* Whatever a command makes the upper layers do, its pushes are announced.
LEMMA CommandsAnnounced ==
    ASSUME NEW c \in Commands
    PROVE  c \in Seq(Steps) /\ Announced(c)
<1>1. \A r \in Requests : <<Push("REQ", r), Reserve>> \in Seq(Steps) /\ Announced(<<Push("REQ", r), Reserve>>)
  BY ShortStacks
<1>2. ASSUME NEW n \in 0 .. PAGE_NUM_PER_BLOCK - 1
      PROVE  Collection(n) \in Seq(Steps) /\ Announced(Collection(n))
  <2> DEFINE t == <<Push("SUB", "BlockErase"), Drain("REQ"), Push("REQ", "ProgramPage"), Reserve>>
             d == <<Drain("SUB")>>
             k == d \o Copies(n)
  <2>1. t \in Seq(Steps) /\ Announced(t) /\ \E j \in 1 .. Len(t) : t[j].do \in Wakers
    BY ShortStacks
  <2>2. Copies(n) \in Seq(Steps)
    BY CopiesFacts, DepthAssumption
  <2>3. d \in Seq(Steps)
    BY StepTypes DEF Queues
  <2>4. k \in Seq(Steps)
    BY <2>2, <2>3, ConcatSteps
  <2>5. Collection(n) = k \o t
    BY DEF Collection
  <2> HIDE DEF k, t
  <2> QED BY <2>1, <2>4, <2>5, AnnouncedInFront
<1>3. <<Drain("REQ")>> \in Seq(Steps) /\ Announced(<<Drain("REQ")>>)
  BY StepTypes, ShortStacks DEF Queues, Drain, Step
<1>4. ASSUME NEW j \in Join PROVE j \in Seq(Steps) /\ Announced(j)
  BY <1>3, ShortStacks DEF Join
<1> QED BY <1>1, <1>2, <1>4 DEF Commands, Requests

(***************************************************************************)
(* The invariant that holds with joins as without.                         *)
(***************************************************************************)

DieOK ==
    /\ die \in DieType
    /\ \A q \in Queues : Len(die.queue[q]) <= Capacity(q)
    /\ Sound(die)

TodoOK == todo \in Seq(Steps) /\ Announced(todo)

\* the main loop sweeps, or has nothing to, or somebody will see to it
Awake == die.reservedReq \/ Idle(die) \/ \E i \in 1 .. Len(todo) : todo[i].do \in Wakers

BaseInv == DieOK /\ TodoOK /\ Awake

\* s and t differ in nothing that Sound and Strict look at
SameWork(s, t) ==
    /\ t.queue = s.queue /\ t.empty = s.empty /\ t.list = s.list
    /\ t.queueSelect = s.queueSelect /\ t.owner = s.owner
    /\ t.dieStatus = s.dieStatus /\ t.fresh = s.fresh

\* Registers and flags have no part in the work.
LEMMA SameWorkFacts ==
    ASSUME NEW s, NEW t, SameWork(s, t)
    PROVE  /\ Sound(s) => Sound(t)
           /\ Strict(s) => Strict(t)
           /\ Idle(s) <=> Idle(t)
<1> USE DEF SameWork
<1>1. \A q \in Queues : Front(t, q) = Front(s, q)
  BY DEF Front
<1>2. Front(t, t.queueSelect) = Front(s, s.queueSelect)
  BY DEF Front
<1>3. Sound(s) => Sound(t)
  BY <1>2 DEF Sound
<1>4. Strict(s) => Strict(t)
  BY <1>2 DEF Strict
<1> QED BY <1>3, <1>4 DEF Idle

\* Setting the flags and registers that are not part of the work.
LEMMA FlagFacts ==
    ASSUME NEW s \in DieType, NEW b \in BOOLEAN
    PROVE  LET t == [s EXCEPT !.reservedReq = b]
               u == [s EXCEPT !.badBlockUpdate = b]
               v == [s EXCEPT !.ready = b]
           IN  /\ t \in DieType /\ SameWork(s, t) /\ t.reservedReq = b
               /\ t.badBlockUpdate = s.badBlockUpdate
               /\ u \in DieType /\ SameWork(s, u) /\ u.reservedReq = s.reservedReq
               /\ v \in DieType /\ SameWork(s, v) /\ v.reservedReq = s.reservedReq
BY DEF DieType, SameWork

\* Initially the die has nothing to do.
LEMMA InitBase == Init => BaseInv
<1> SUFFICES ASSUME Init PROVE BaseInv
  OBVIOUS
<1>1. die.queue = [q \in Queues |-> <<>>] /\ die.list = "idle" /\ die.dieStatus = "IDLE"
      /\ todo = <<>>
  BY DEF Init
<1>2. die \in DieType
  BY DepthAssumption DEF Init, DieType, Queues, Entry
<1>3. \A q \in Queues : Len(die.queue[q]) <= Capacity(q)
  BY <1>1, DepthAssumption DEF Capacity, Queues
<1>4. Sound(die) /\ Idle(die)
  BY <1>1 DEF Sound, Idle, Starts, Queues
<1>5. todo \in Seq(Steps) /\ Announced(todo)
  BY <1>1, ShortStacks
<1> QED BY <1>2, <1>3, <1>4, <1>5 DEF BaseInv, DieOK, TodoOK, Awake

\* The routine that sweeps names a queue.
LEMMA FirstTyped == TodoOK => First \in Queues /\ (todo # <<>> => Head(todo) \in Steps)
<1> SUFFICES ASSUME TodoOK PROVE First \in Queues /\ (todo # <<>> => Head(todo) \in Steps)
  OBVIOUS
<1>1. todo # <<>> => Head(todo) \in Steps
  BY TailSteps DEF TodoOK
<1> QED BY <1>1 DEF First, Steps, Queues

\* Popped queues and refronted ones are no longer than before.
LEMMA LengthsBounded ==
    ASSUME NEW s \in DieType, NEW t \in DieType,
           SameLengths(s, t) \/ \E q \in Queues : Popped(s, t, q),
           \A q \in Queues : Len(s.queue[q]) <= Capacity(q)
    PROVE  \A q \in Queues : Len(t.queue[q]) <= Capacity(q)
<1>0. \A q \in Queues : Capacity(q) \in Int
  BY DepthAssumption DEF Capacity
<1>1. CASE SameLengths(s, t)
  BY <1>1 DEF SameLengths
<1>2. ASSUME NEW q \in Queues, Popped(s, t, q)
      PROVE  \A p \in Queues : Len(t.queue[p]) <= Capacity(p)
  <2>1. Len(t.queue[q]) = Len(s.queue[q]) - 1 /\ Len(s.queue[q]) \in Nat \ {0}
    BY <1>2, FrontAndRest DEF Popped
  <2>2. Len(t.queue[q]) <= Capacity(q)
    BY <1>0, <2>1
  <2>3. \A p \in Queues \ {q} : t.queue[p] = s.queue[p]
    BY <1>2 DEF Popped
  <2> QED BY <2>2, <2>3
<1> QED BY <1>1, <1>2

\* A sweep.
LEMMA SweepBase == BaseInv /\ Sweep => BaseInv'
<1> SUFFICES ASSUME BaseInv, Sweep PROVE BaseInv'
  OBVIOUS
<1> DEFINE t == Visited(die, First)
<1>1. /\ die \in DieType /\ Sound(die) /\ Visitable(die) /\ First \in Queues
      /\ \A q \in Queues : Len(die.queue[q]) <= Capacity(q)
  BY FirstTyped DEF BaseInv, DieOK, Sweep
<1>2. GoodVisit(die, t, First)
  BY <1>1, VisitedGood
<1>3. die' = [t EXCEPT !.reservedReq = TRUE] /\ todo' = todo
  BY DEF Sweep
<1> HIDE DEF t
<1>4. t \in DieType /\ Sound(t) /\ (SameLengths(die, t) \/ \E q \in Queues : Popped(die, t, q))
  BY <1>2 DEF GoodVisit
<1>5. die' \in DieType /\ SameWork(t, die') /\ die'.reservedReq
  BY <1>3, <1>4, FlagFacts
<1>6. \A q \in Queues : Len(t.queue[q]) <= Capacity(q)
  BY <1>1, <1>4, LengthsBounded
<1>7. \A q \in Queues : Len(die'.queue[q]) <= Capacity(q)
  BY <1>5, <1>6 DEF SameWork
<1>8. Sound(die')
  BY <1>4, <1>5, SameWorkFacts
<1>9. DieOK'
  BY <1>5, <1>7, <1>8 DEF DieOK
<1> QED BY <1>3, <1>5, <1>9 DEF BaseInv, TodoOK, Awake

\* Steps that change nothing but flags and registers of the die.
LEMMA FlagsBase ==
    ASSUME BaseInv, die' \in DieType, SameWork(die, die'), UNCHANGED todo,
           die'.reservedReq = die.reservedReq
    PROVE  BaseInv'
<1>1. Sound(die') /\ (Idle(die') <=> Idle(die)) /\ die'.queue = die.queue
  BY SameWorkFacts DEF BaseInv, DieOK, SameWork
<1>2. DieOK'
  BY <1>1 DEF BaseInv, DieOK
<1> QED BY <1>1, <1>2 DEF BaseInv, TodoOK, Awake, Idle

\* The die and its controller.
LEMMA NandBase == BaseInv /\ Nand => BaseInv' /\ SameWork(die, die') /\ UNCHANGED <<todo, order>>
<1> SUFFICES ASSUME BaseInv, Nand
             PROVE  BaseInv' /\ SameWork(die, die') /\ UNCHANGED <<todo, order>>
  OBVIOUS
<1>0. die \in DieType
  BY DEF BaseInv, DieOK
<1>1. /\ die' \in DieType /\ SameWork(die, die') /\ die'.reservedReq = die.reservedReq
      /\ UNCHANGED <<todo, order>>
  <2>1. CASE NandReady
    BY <1>0, <2>1, FlagFacts DEF NandReady
  <2>2. CASE TransferEnds
    BY <1>0, <2>2 DEF TransferEnds, DieType, SameWork
  <2>3. CASE StatusReported({"pass", "fail", "bare"})
    BY <1>0, <2>3 DEF StatusReported, DieType, SameWork
  <2> QED BY <2>1, <2>2, <2>3 DEF Nand
<1> QED BY <1>1, FlagsBase

\* A sweep that finds no request.
LEMMA SweepNothingBase == BaseInv /\ SweepNothing => BaseInv' /\ SameWork(die, die') /\ Idle(die)
<1> SUFFICES ASSUME BaseInv, SweepNothing
             PROVE  BaseInv' /\ SameWork(die, die') /\ Idle(die)
  OBVIOUS
<1>0. die \in DieType /\ Idle(die) /\ todo' = todo
  BY DEF BaseInv, DieOK, SweepNothing
<1>1. die' \in DieType /\ SameWork(die, die')
  BY <1>0, FlagFacts DEF SweepNothing
<1>2. Sound(die') /\ Idle(die') /\ die'.queue = die.queue
  BY <1>0, <1>1, SameWorkFacts DEF BaseInv, DieOK, SameWork
<1>3. DieOK'
  BY <1>1, <1>2 DEF BaseInv, DieOK
<1> QED BY <1>0, <1>1, <1>2, <1>3 DEF BaseInv, TodoOK, Awake, Idle

\* A command of the host.
LEMMA CommandBase == BaseInv /\ Command => BaseInv'
<1> SUFFICES ASSUME BaseInv, Command PROVE BaseInv'
  OBVIOUS
<1>1. todo = <<>> /\ die' = die /\ TodoOK'
  BY CommandsAnnounced DEF Command, TodoOK
<1>2. die.reservedReq \/ Idle(die)
  BY <1>1 DEF BaseInv, Awake
<1> QED BY <1>1, <1>2 DEF BaseInv, DieOK, Awake, Idle

\* The step that is done leaves the rest in order.
LEMMA RestOK ==
    ASSUME TodoOK, todo # <<>>
    PROVE  /\ Head(todo) \in Steps /\ Head(todo) = todo[1]
           /\ Tail(todo) \in Seq(Steps) /\ Announced(Tail(todo))
           /\ Len(todo) \in Nat \ {0} /\ Len(Tail(todo)) = Len(todo) - 1
           /\ \A i \in 1 .. Len(Tail(todo)) : Tail(todo)[i] = todo[i + 1]
BY TailSteps, AnnouncedTail DEF TodoOK

\* A step that is no waker leaves the wakers there are.
LEMMA RestAwake ==
    ASSUME TodoOK, todo # <<>>, Awake, Head(todo).do \notin Wakers
    PROVE  \/ die.reservedReq \/ Idle(die)
           \/ \E i \in 1 .. Len(Tail(todo)) : Tail(todo)[i].do \in Wakers
<1>1. CASE \E i \in 1 .. Len(todo) : todo[i].do \in Wakers
  <2>1. PICK i \in 1 .. Len(todo) : todo[i].do \in Wakers
    BY <1>1
  <2>2. i # 1
    BY <2>1, RestOK
  <2>3. i - 1 \in 1 .. Len(Tail(todo)) /\ (i - 1) + 1 = i
    BY <2>1, <2>2, RestOK
  <2> QED BY <2>1, <2>3, RestOK
<1> QED BY <1>1 DEF Awake

\* what a push makes of the die
Pushed(s, q, r) ==
    [s EXCEPT !.empty[q] = FALSE,
              !.queue[q] = Append(@, [request |-> r, statusOption |-> "STATUS_CHECK"])]

\* queue q has one request more, r, as it was pushed
Grown(s, t, q, r) ==
    /\ t \in DieType /\ t.list = s.list /\ t.queueSelect = s.queueSelect
    /\ t.owner = s.owner /\ t.dieStatus = s.dieStatus /\ t.fresh = s.fresh
    /\ t.reservedReq = s.reservedReq
    /\ t.empty[q] = FALSE /\ \A p \in Queues \ {q} : t.empty[p] = s.empty[p]
    /\ \A p \in Queues \ {q} : t.queue[p] = s.queue[p]
    /\ t.queue[q] # <<>> /\ Len(t.queue[q]) = Len(s.queue[q]) + 1
    /\ Len(s.queue[q]) \in Nat
    /\ \A i \in 1 .. Len(s.queue[q]) : t.queue[q][i] = s.queue[q][i]
    /\ t.queue[q][Len(s.queue[q]) + 1] = [request |-> r, statusOption |-> "STATUS_CHECK"]

\* A push appends one request.
LEMMA PushFacts ==
    ASSUME NEW s \in DieType, NEW q \in Queues, NEW r \in Requests
    PROVE  Grown(s, Pushed(s, q, r), q, r)
<1> DEFINE e == [request |-> r, statusOption |-> "STATUS_CHECK"]
           n == Append(s.queue[q], e)
           t == Pushed(s, q, r)
<1>1. e \in Entry /\ s.queue[q] \in Seq(Entry)
  BY DEF Entry, DieType
<1> HIDE DEF e
<1>2. /\ n \in Seq(Entry) /\ Len(n) = Len(s.queue[q]) + 1 /\ Len(s.queue[q]) \in Nat
      /\ \A i \in 1 .. Len(s.queue[q]) : n[i] = s.queue[q][i]
      /\ n[Len(s.queue[q]) + 1] = e
  BY <1>1, AppendProperties, LenProperties
<1>3. n # <<>>
  BY <1>2, EmptySeq
<1> HIDE DEF n
<1>4. t = [s EXCEPT !.empty = [s.empty EXCEPT ![q] = FALSE],
                    !.queue = [s.queue EXCEPT ![q] = n]]
  BY DEF DieType, Pushed, n, e
<1>5. /\ [s.empty EXCEPT ![q] = FALSE] \in [Queues -> BOOLEAN]
      /\ [s.queue EXCEPT ![q] = n] \in [Queues -> Seq(Entry)]
      /\ [s.empty EXCEPT ![q] = FALSE][q] = FALSE
      /\ [s.queue EXCEPT ![q] = n][q] = n
      /\ \A p \in Queues \ {q} : [s.empty EXCEPT ![q] = FALSE][p] = s.empty[p]
      /\ \A p \in Queues \ {q} : [s.queue EXCEPT ![q] = n][p] = s.queue[p]
  BY <1>2 DEF DieType
<1> DEFINE be == [s.empty EXCEPT ![q] = FALSE]
           bq == [s.queue EXCEPT ![q] = n]
<1> HIDE DEF be, bq, t
<1>6. LET w == [s EXCEPT !.empty = be, !.queue = bq]
      IN  be \in [Queues -> BOOLEAN] /\ bq \in [Queues -> Seq(Entry)] =>
          /\ w \in DieType /\ w.list = s.list /\ w.queueSelect = s.queueSelect
          /\ w.owner = s.owner /\ w.dieStatus = s.dieStatus /\ w.fresh = s.fresh
          /\ w.reservedReq = s.reservedReq /\ w.empty = be /\ w.queue = bq
  BY DEF DieType
<1>7. /\ t \in DieType /\ t.list = s.list /\ t.queueSelect = s.queueSelect
      /\ t.owner = s.owner /\ t.dieStatus = s.dieStatus /\ t.fresh = s.fresh
      /\ t.reservedReq = s.reservedReq /\ t.empty = be /\ t.queue = bq
  BY <1>4, <1>5, <1>6 DEF be, bq
<1> QED BY <1>2, <1>3, <1>5, <1>7 DEF Grown, t, e, be, bq

\* A push.
LEMMA PushBase == BaseInv /\ PushRequest => BaseInv'
<1> SUFFICES ASSUME BaseInv, PushRequest PROVE BaseInv'
  OBVIOUS
<1> DEFINE q == Head(todo).queue
           r == Head(todo).request
<1>0. die' = Pushed(die, q, r)
  BY DEF PushRequest, Pushed
<1>1. todo # <<>> /\ Head(todo).do = "push" /\ Room(q) /\ todo' = Tail(todo)
  BY DEF PushRequest, Doing
<1>2. /\ die \in DieType /\ Sound(die) /\ TodoOK
      /\ \A p \in Queues : Len(die.queue[p]) <= Capacity(p)
  BY DEF BaseInv, DieOK
<1>3. q \in Queues /\ r \in Requests /\ die \in DieType
  BY <1>1, <1>2, FirstTyped DEF Steps
<1> HIDE DEF q, r
<1>4. /\ die' \in DieType /\ die'.list = die.list /\ die'.queueSelect = die.queueSelect
      /\ die'.owner = die.owner /\ die'.dieStatus = die.dieStatus
      /\ die'.reservedReq = die.reservedReq
      /\ die'.empty[q] = FALSE /\ \A p \in Queues \ {q} : die'.empty[p] = die.empty[p]
      /\ \A p \in Queues \ {q} : die'.queue[p] = die.queue[p]
      /\ die'.queue[q] # <<>> /\ Len(die'.queue[q]) = Len(die.queue[q]) + 1
      /\ Len(die.queue[q]) \in Nat
      /\ \A i \in 1 .. Len(die.queue[q]) : die'.queue[q][i] = die.queue[q][i]
  <2>1. Grown(die, die', q, r)
    BY <1>0, <1>3, PushFacts
  <2> QED BY <2>1 DEF Grown
<1>5. \A p \in Queues : Len(die'.queue[p]) <= Capacity(p)
  <2>1. Len(die'.queue[q]) <= Capacity(q)
    BY <1>1, <1>3, <1>4, DepthAssumption DEF Room, Capacity
  <2> QED BY <1>2, <1>4, <2>1
<1>6. \A p \in Queues : die.queue[p] # <<>> =>
          die'.queue[p] # <<>> /\ Front(die', p) = Front(die, p)
  <2>1. ASSUME die.queue[q] # <<>> PROVE Front(die', q) = Front(die, q)
    <3>1. Front(die, q) = die.queue[q][1] /\ Len(die.queue[q]) \in Nat \ {0}
      BY <1>2, <1>3, <2>1, FrontAndRest
    <3>2. Front(die', q) = die'.queue[q][1]
      BY <1>3, <1>4, FrontAndRest
    <3> QED BY <1>4, <3>1, <3>2
  <2> QED BY <1>4, <2>1 DEF Front
<1>7. Sound(die')
  <2>1. \A p \in Queues : die'.empty[p] => die'.queue[p] = <<>>
    BY <1>2, <1>4 DEF Sound
  <2>2. die.queueSelect \in Queues /\ die.owner \in Queues
    BY <1>2 DEF DieType
  <2>3. die'.list # "idle" => die'.queue[die'.queueSelect] # <<>>
    BY <1>2, <1>4, <1>6, <2>2 DEF Sound
  <2>4. die'.dieStatus # "IDLE" => die'.queue[die'.owner] # <<>>
    BY <1>2, <1>4, <1>6, <2>2 DEF Sound
  <2>5. die'.list \in Starts => die'.list = ListFor(Front(die', die'.queueSelect).request)
    BY <1>2, <1>4, <1>6, <2>2 DEF Sound, Starts
  <2>6. die'.list \in {"nandStatus", "statusReport"} => die'.dieStatus \in Executions
    BY <1>2, <1>4 DEF Sound
  <2> QED BY <2>1, <2>3, <2>4, <2>5, <2>6 DEF Sound
<1>8. TodoOK' /\ \E i \in 1 .. Len(todo') : todo'[i].do \in Wakers
  <2>1. todo[1].do = "push"
    BY <1>1, <1>2, RestOK
  <2> QED BY <1>1, <1>2, <2>1, RestOK, AnnouncedTail DEF TodoOK
<1> QED BY <1>4, <1>5, <1>7, <1>8 DEF BaseInv, DieOK, Awake

\* The steps of EmptyLowLevelQ wake the main loop.
LEMMA EmptyingFacts ==
    ASSUME NEW f \in Queues, NEW t \in Seq(Steps), Announced(t)
    PROVE  LET u == EmptyLowLevelQ(f) \o t
           IN  /\ u \in Seq(Steps) /\ Announced(u)
               /\ \E i \in 1 .. Len(u) : u[i].do \in Wakers
<1> DEFINE e == EmptyLowLevelQ(f)
           u == e \o t
<1>1. e \in Seq(Steps) /\ Len(e) = 2 /\ e[1].do = "drainAll" /\ e[2].do = "readTable"
  BY StepTypes DEF EmptyLowLevelQ, DrainAll, ReadTable, Step
<1> HIDE DEF e
<1>2. \A i \in 1 .. Len(e) : e[i].do # "push"
  BY <1>1
<1>3. u \in Seq(Steps) /\ Announced(u)
  BY <1>1, <1>2, AnnouncedInFront
<1>4. Len(u) = 2 + Len(t) /\ Len(t) \in Nat /\ u[1] = e[1]
  <2>1. /\ Len(u) = Len(e) + Len(t) /\ Len(t) \in Nat
        /\ \A i \in 1 .. Len(e) : u[i] = e[i]
    BY <1>1, ConcatSteps
  <2> HIDE DEF u
  <2> QED BY <1>1, <2>1
<1>5. 1 \in 1 .. Len(u) /\ u[1].do \in Wakers
  BY <1>1, <1>4 DEF Wakers
<1> QED BY <1>3, <1>5 DEF e

\* The end of a waiting loop.
LEMMA SweepEndsBase == BaseInv /\ SweepEnds => BaseInv'
<1> SUFFICES ASSUME BaseInv, SweepEnds PROVE BaseInv'
  OBVIOUS
<1>1. /\ DieOK' /\ die' = die /\ TodoOK /\ Awake /\ First \in Queues
      /\ <<>> \in Seq(Steps) /\ Announced(<<>>)
  BY FirstTyped, ShortStacks DEF SweepEnds, BaseInv, DieOK
<1>2. ASSUME NEW t \in Seq(Steps), Announced(t), todo' = EmptyLowLevelQ(First) \o t
      PROVE  BaseInv'
  <2>1. TodoOK' /\ \E i \in 1 .. Len(todo') : todo'[i].do \in Wakers
    BY <1>1, <1>2, EmptyingFacts DEF TodoOK
  <2> QED BY <1>1, <2>1 DEF BaseInv, Awake
<1>3. CASE todo = <<>>
  <2>1. todo' = EmptyLowLevelQ(First) \o <<>>
    <3>1. EmptyLowLevelQ(First) \in Seq(Steps)
      BY <1>1, StepTypes DEF EmptyLowLevelQ
    <3> QED BY <1>3, <3>1, ConcatEmptySeq DEF SweepEnds
  <2> QED BY <1>1, <1>2, <2>1
<1>4. CASE todo # <<>> /\ Doing("push")
  <2>1. todo' = EmptyLowLevelQ(First) \o todo
    BY <1>4 DEF SweepEnds, Doing
  <2> QED BY <1>1, <1>2, <2>1 DEF TodoOK
<1>5. CASE todo # <<>> /\ Doing("drain")
  <2>1. /\ Tail(todo) \in Seq(Steps) /\ Announced(Tail(todo))
        /\ (\/ die.reservedReq \/ Idle(die)
            \/ \E i \in 1 .. Len(Tail(todo)) : Tail(todo)[i].do \in Wakers)
    BY <1>1, <1>5, RestOK, RestAwake DEF Doing, Wakers
  <2>2. \/ todo' = EmptyLowLevelQ(First) \o Tail(todo)
        \/ todo' = <<>> \o Tail(todo)
    BY <1>5 DEF SweepEnds, Doing
  <2>3. CASE todo' = <<>> \o Tail(todo)
    <3>1. todo' = Tail(todo)
      BY <2>1, <2>3, ConcatEmptySeq
    <3> QED BY <1>1, <2>1, <3>1 DEF BaseInv, TodoOK, Awake, Idle
  <2> QED BY <1>1, <1>2, <2>1, <2>2, <2>3
<1>6. CASE todo # <<>> /\ Doing("drainAll")
  <2>1. todo' = Tail(todo) /\ Idle(die)
    BY <1>6 DEF SweepEnds, Doing
  <2> QED BY <1>1, <1>6, <2>1, RestOK DEF BaseInv, TodoOK, Awake, Idle
<1> QED BY <1>3, <1>4, <1>5, <1>6 DEF SweepEnds

\* The table is read.
LEMMA ReadBase == BaseInv /\ ReadBadBlockTable => BaseInv' /\ SameWork(die, die')
<1> SUFFICES ASSUME BaseInv, ReadBadBlockTable PROVE BaseInv' /\ SameWork(die, die')
  OBVIOUS
<1> DEFINE p == <<Push("SUB", "ReadPageTrigger"), DrainAll(First), Relocate(First)>>
<1>1. die \in DieType /\ DieOK /\ TodoOK /\ todo # <<>> /\ First \in Queues
  BY FirstTyped DEF BaseInv, DieOK, ReadBadBlockTable, Doing
<1>2. die' \in DieType /\ SameWork(die, die')
  BY <1>1, FlagFacts DEF ReadBadBlockTable
<1>3. Sound(die') /\ die'.queue = die.queue
  BY <1>1, <1>2, SameWorkFacts DEF DieOK, SameWork
<1>4. DieOK'
  BY <1>1, <1>2, <1>3 DEF DieOK
<1>5. p \in Seq(Steps) /\ Len(p) = 3 /\ Announced(p) /\ p[3].do \in Wakers
  BY <1>1, ShortStacks
<1>6. todo' = p \o Tail(todo)
  BY DEF ReadBadBlockTable
<1> HIDE DEF p
<1>7. TodoOK'
  BY <1>1, <1>5, <1>6, RestOK, AnnouncedInFront DEF TodoOK
<1>8. 3 \in 1 .. Len(todo') /\ todo'[3].do \in Wakers
  <2>1. /\ Len(todo') = Len(p) + Len(Tail(todo)) /\ Len(Tail(todo)) \in Nat
        /\ \A i \in 1 .. Len(p) : todo'[i] = p[i]
    BY <1>1, <1>5, <1>6, RestOK, ConcatSteps
  <2> QED BY <1>5, <2>1
<1> QED BY <1>2, <1>4, <1>7, <1>8 DEF BaseInv, Awake

\* The steps of a relocation, in front of steps that end with a waker.
LEMMA RelocationFacts ==
    ASSUME NEW n \in Nat, NEW t \in Seq(Steps), Announced(t),
           \E i \in 1 .. Len(t) : t[i].do \in Wakers
    PROVE  LET u == Copies(n) \o <<Push("SUB", "BlockErase")>> \o t
           IN  /\ u \in Seq(Steps) /\ Announced(u)
               /\ \E i \in 1 .. Len(u) : u[i].do \in Wakers
<1> DEFINE e == <<Push("SUB", "BlockErase")>>
           c == Copies(n)
           p == c \o e
           u == p \o t
<1>1. e \in Seq(Steps) /\ c \in Seq(Steps)
  BY StepTypes, CopiesFacts DEF Queues, Requests
<1> HIDE DEF e, c
<1>2. p \in Seq(Steps)
  BY <1>1, ConcatSteps
<1> HIDE DEF p
<1>3. u \in Seq(Steps) /\ Announced(u)
  BY <1>2, AnnouncedInFront
<1>4. \E i \in 1 .. Len(u) : u[i].do \in Wakers
  <2>1. PICK i \in 1 .. Len(t) : t[i].do \in Wakers
    OBVIOUS
  <2>2. /\ Len(u) = Len(p) + Len(t) /\ Len(p) \in Nat /\ Len(t) \in Nat
        /\ u[Len(p) + i] = t[i]
    BY <1>2, <2>1, ConcatSteps
  <2> HIDE DEF u
  <2>3. Len(p) + i \in 1 .. Len(u)
    BY <2>1, <2>2
  <2> QED BY <2>1, <2>2, <2>3
<1> QED BY <1>3, <1>4 DEF u, p, c, e

\* The blocks found bad are relocated.
LEMMA UpdateBase == BaseInv /\ UpdateBadBlockTable => BaseInv' /\ SameWork(die, die')
<1> SUFFICES ASSUME BaseInv, UpdateBadBlockTable PROVE BaseInv' /\ SameWork(die, die')
  OBVIOUS
<1> DEFINE w == <<Push("SUB", "BlockErase"), Push("SUB", "ProgramPage"), Reserve>>
<1>1. die \in DieType /\ DieOK /\ TodoOK /\ todo # <<>> /\ Head(todo).do = "relocate"
  BY DEF BaseInv, DieOK, UpdateBadBlockTable, Doing
<1>2. die' \in DieType /\ SameWork(die, die')
  <2>1. die' = [die EXCEPT !.newBadBlocks = die.newBadBlocks - 1]
    BY <1>1 DEF UpdateBadBlockTable, DieType
  <2>2. die.newBadBlocks - 1 \in 0 .. REQ_QUEUE_DEPTH
    BY <1>1, DepthAssumption DEF UpdateBadBlockTable, DieType
  <2>3. ASSUME NEW n \in 0 .. REQ_QUEUE_DEPTH
        PROVE  /\ [die EXCEPT !.newBadBlocks = n] \in DieType
               /\ SameWork(die, [die EXCEPT !.newBadBlocks = n])
    BY <1>1 DEF DieType, SameWork
  <2> QED BY <2>1, <2>2, <2>3
<1>3. Sound(die') /\ die'.queue = die.queue
  BY <1>1, <1>2, SameWorkFacts DEF DieOK, SameWork
<1>4. DieOK'
  BY <1>1, <1>2, <1>3 DEF DieOK
<1>5. /\ Tail(todo) \in Seq(Steps) /\ Announced(Tail(todo))
      /\ todo \in Seq(Steps) /\ Announced(todo) /\ Len(todo) \in Nat \ {0}
      /\ todo[1].do \in Wakers
  BY <1>1, RestOK DEF TodoOK, Wakers
<1>6. w \in Seq(Steps) /\ Len(w) = 3 /\ Announced(w) /\ w[3].do \in Wakers
  BY ShortStacks
<1>7. PICK n \in 0 .. PAGE_NUM_PER_BLOCK :
          todo' = Copies(n) \o <<Push("SUB", "BlockErase")>>
                     \o (IF die.newBadBlocks > 1 THEN todo ELSE w \o Tail(todo))
  BY DEF UpdateBadBlockTable
<1> HIDE DEF w
<1>8. /\ w \o Tail(todo) \in Seq(Steps) /\ Announced(w \o Tail(todo))
      /\ \E i \in 1 .. Len(w \o Tail(todo)) : (w \o Tail(todo))[i].do \in Wakers
  <2>1. w \o Tail(todo) \in Seq(Steps) /\ Announced(w \o Tail(todo))
    BY <1>5, <1>6, AnnouncedInFront
  <2>2. /\ Len(w \o Tail(todo)) = Len(w) + Len(Tail(todo)) /\ Len(Tail(todo)) \in Nat
        /\ \A i \in 1 .. Len(w) : (w \o Tail(todo))[i] = w[i]
    BY <1>5, <1>6, ConcatSteps
  <2>3. 3 \in 1 .. Len(w \o Tail(todo)) /\ (w \o Tail(todo))[3].do \in Wakers
    <3> DEFINE v == w \o Tail(todo)
    <3> HIDE DEF v
    <3>1. Len(v) = Len(w) + Len(Tail(todo)) /\ \A i \in 1 .. Len(w) : v[i] = w[i]
      BY <2>2 DEF v
    <3>2. 3 \in 1 .. Len(v) /\ v[3].do \in Wakers
      BY <1>6, <2>2, <3>1
    <3> QED BY <3>2 DEF v
  <2> QED BY <2>1, <2>3
<1>9. n \in Nat
  BY DepthAssumption
<1>10. ASSUME NEW t \in Seq(Steps), Announced(t), \E i \in 1 .. Len(t) : t[i].do \in Wakers,
              todo' = Copies(n) \o <<Push("SUB", "BlockErase")>> \o t
       PROVE  TodoOK' /\ \E i \in 1 .. Len(todo') : todo'[i].do \in Wakers
  BY <1>9, <1>10, RelocationFacts DEF TodoOK
<1>11. TodoOK' /\ \E i \in 1 .. Len(todo') : todo'[i].do \in Wakers
  <2>1. CASE die.newBadBlocks > 1
    <3>1. 1 \in 1 .. Len(todo)
      BY <1>5
    <3>2. todo' = Copies(n) \o <<Push("SUB", "BlockErase")>> \o todo
      BY <1>7, <2>1
    <3> QED BY <1>5, <1>10, <3>1, <3>2
  <2>2. CASE ~(die.newBadBlocks > 1)
    BY <1>7, <1>8, <1>10, <2>2
  <2> QED BY <2>1, <2>2
<1> QED BY <1>2, <1>4, <1>11 DEF BaseInv, Awake

\* reservedReq is set.
LEMMA ReserveBase == BaseInv /\ ReserveRequests => BaseInv' /\ SameWork(die, die')
<1> SUFFICES ASSUME BaseInv, ReserveRequests PROVE BaseInv' /\ SameWork(die, die')
  OBVIOUS
<1>1. die \in DieType /\ DieOK /\ TodoOK /\ todo # <<>> /\ todo' = Tail(todo)
  BY DEF BaseInv, DieOK, ReserveRequests, Doing
<1>2. die' \in DieType /\ SameWork(die, die') /\ die'.reservedReq
  BY <1>1, FlagFacts DEF ReserveRequests
<1>3. Sound(die') /\ die'.queue = die.queue
  BY <1>1, <1>2, SameWorkFacts DEF DieOK, SameWork
<1>4. DieOK' /\ TodoOK'
  BY <1>1, <1>2, <1>3, RestOK DEF DieOK, TodoOK
<1> QED BY <1>2, <1>4 DEF BaseInv, Awake

\* Every step keeps the invariant.
LEMMA NextBase == BaseInv /\ [Next]_vars => BaseInv'
<1> SUFFICES ASSUME BaseInv, [Next]_vars PROVE BaseInv'
  OBVIOUS
<1>1. CASE UNCHANGED vars
  BY <1>1 DEF BaseInv, DieOK, TodoOK, Awake, Idle, vars
<1>2. CASE Command
  BY <1>2, CommandBase
<1>3. CASE Firmware
  BY <1>3, SweepBase, SweepNothingBase, PushBase, SweepEndsBase, ReadBase, UpdateBase,
     ReserveBase DEF Firmware
<1>4. CASE Nand
  BY <1>4, NandBase
<1> QED BY <1>1, <1>2, <1>3, <1>4 DEF Next

\* Whatever the host sends, joins included, no queue outgrows its ring, and the
\* die and the running routines stay what they are (PushToReqQueue waits for
\* room, and nothing else lengthens a queue).
THEOREM QueuesBounded == Spec => []BaseInv
<1>1. Init => BaseInv
  BY InitBase
<1>2. BaseInv /\ [Next]_vars => BaseInv'
  BY NextBase
<1> QED BY <1>1, <1>2, PTL DEF Spec

\* The flags EmptyReqQ and EmptySubReqQ go by never call a queue empty in which
\* a request waits or executes, joins or no joins.
THEOREM EmptyFlagsRight == Spec => []EmptyMeansEmpty
<1>1. BaseInv => EmptyMeansEmpty
  BY DEF BaseInv, DieOK, Sound, EmptyMeansEmpty
<1> QED BY <1>1, QueuesBounded, PTL

\* The main loop never stops sweeping with a request left in a queue, joins or
\* no joins: what is pushed is announced, and only a sweep that finds both
\* queues empty clears reservedReq.
THEOREM WakeupsKept == Spec => []NoLostWakeup
<1>1. BaseInv => NoLostWakeup
  BY DEF BaseInv, Awake, NoLostWakeup
<1> QED BY <1>1, QueuesBounded, PTL

(***************************************************************************)
(* The order of the requests, for hosts that run no joins.  EmptyLowLevelQ *)
(* and what it starts work on an empty req queue; any other routine keeps  *)
(* the queue it sweeps with the same as the one before it.                 *)
(***************************************************************************)

Sub(e) == e.do = "push" /\ e.queue = "SUB" /\ e.request \in Pushes

\* what step i of the routines t has to do with those around it
LinkAt(t, i) ==
    /\ t[i].do = "push" => /\ t[i].first = Other(t[i].queue) /\ i < Len(t)
                           /\ t[i].request \in Pushes
    /\ t[i].do = "push" /\ t[i].queue = "REQ" => i + 1 = Len(t) /\ t[i + 1].do = "reserve"
    /\ Sub(t[i]) => \/ Sub(t[i + 1])
                    \/ t[i + 1].do = "drain" /\ t[i + 1].queue = "REQ"
                    \/ t[i + 1].do \in {"reserve", "drainAll", "relocate"}
    /\ t[i].do = "drain" => t[i].first = t[i].queue
    /\ t[i].do = "reserve" => t[i].first = "SUB"
    /\ t[i].do = "drainAll" => /\ i < Len(t)
                               /\ t[i + 1].do = "relocate" \/ (i = 1 /\ t[2].do = "readTable")
    /\ t[i].do = "readTable" => i = 1 \/ (i = 2 /\ t[1].do = "drainAll")

Linked(t) == \A i \in 1 .. Len(t) : LinkAt(t, i)

\* EmptyLowLevelQ has found both queues empty and has not yet returned
Clean(t) ==
    \E j \in 1 .. Len(t) :
       \/ t[j].do = "relocate"
       \/ t[j].do = "reserve" /\ (j < Len(t) \/ (j > 1 /\ Sub(t[j - 1])))

PlanOK ==
    /\ Linked(todo)
    /\ Clean(todo) => die.queue["REQ"] = <<>>
    /\ todo # <<>> /\ Head(todo).do = "readTable" => Idle(die)

\* sequence o names the queue of each request of s, those of queue f first
OrderOK(o, s, f) ==
    /\ o \in Seq(Queues)
    /\ Len(o) = Len(s.queue["REQ"]) + Len(s.queue["SUB"])
    /\ \A i \in 1 .. Len(o) : o[i] = IF i <= Len(s.queue[f]) THEN f ELSE Other(f)

WorkOK == Strict(die) /\ Selected(die, First) /\ OrderOK(order, die, First)

OrderInv == BaseInv /\ PlanOK /\ WorkOK

\* There are two queues.
LEMMA TwoQueues ==
    ASSUME NEW q \in Queues
    PROVE  Other(q) \in Queues /\ Other(q) # q /\ Other(Other(q)) = q
           /\ Queues \ {q} = {Other(q)}
BY DEF Queues, Other

\* The lengths of the queues.
LEMMA QueueLengths ==
    ASSUME NEW s \in DieType, NEW q \in Queues
    PROVE  Len(s.queue[q]) \in Nat /\ (s.queue[q] = <<>> <=> Len(s.queue[q]) = 0)
BY EmptySeq, LenProperties DEF DieType

\* The length of the history, whichever queue goes first.
LEMMA OrderLength ==
    ASSUME NEW s \in DieType, NEW f \in Queues, NEW o, OrderOK(o, s, f)
    PROVE  /\ Len(o) = Len(s.queue[f]) + Len(s.queue[Other(f)])
           /\ Len(s.queue[f]) \in Nat /\ Len(s.queue[Other(f)]) \in Nat
<1>1. "REQ" \in Queues /\ "SUB" \in Queues /\ Other(f) \in Queues
  BY DEF Queues, Other
<1>2. /\ Len(s.queue["REQ"]) \in Nat /\ Len(s.queue["SUB"]) \in Nat
      /\ Len(s.queue[f]) \in Nat /\ Len(s.queue[Other(f)]) \in Nat
  BY <1>1, QueueLengths
<1>3. Len(o) = Len(s.queue["REQ"]) + Len(s.queue["SUB"])
  BY DEF OrderOK
<1>4. \/ f = "REQ" /\ Other(f) = "SUB"
      \/ f = "SUB" /\ Other(f) = "REQ"
  BY DEF Queues, Other
<1> DEFINE l(q) == Len(s.queue[q])
<1> HIDE DEF l
<1>5. l("REQ") \in Nat /\ l("SUB") \in Nat /\ Len(o) = l("REQ") + l("SUB")
  BY <1>2, <1>3 DEF l
<1>6. Len(o) = l(f) + l(Other(f))
  BY <1>4, <1>5
<1> QED BY <1>2, <1>6 DEF l

\* ... and back.
LEMMA OrderFrom ==
    ASSUME NEW s \in DieType, NEW f \in Queues, NEW o \in Seq(Queues),
           Len(o) = Len(s.queue[f]) + Len(s.queue[Other(f)]),
           \A i \in 1 .. Len(o) : o[i] = IF i <= Len(s.queue[f]) THEN f ELSE Other(f)
    PROVE  OrderOK(o, s, f)
<1>1. "REQ" \in Queues /\ "SUB" \in Queues
  BY DEF Queues
<1>2. Len(s.queue["REQ"]) \in Nat /\ Len(s.queue["SUB"]) \in Nat
  BY <1>1, QueueLengths
<1>3. \/ f = "REQ" /\ Other(f) = "SUB"
      \/ f = "SUB" /\ Other(f) = "REQ"
  BY DEF Queues, Other
<1>4. Len(o) = Len(s.queue["REQ"]) + Len(s.queue["SUB"])
  <2> DEFINE l(q) == Len(s.queue[q])
  <2> HIDE DEF l
  <2>1. l("REQ") \in Nat /\ l("SUB") \in Nat /\ Len(o) = l(f) + l(Other(f))
    BY <1>2 DEF l
  <2>2. Len(o) = l("REQ") + l("SUB")
    <3>1. CASE f = "REQ" /\ Other(f) = "SUB"
      BY <2>1, <3>1
    <3>2. CASE f = "SUB" /\ Other(f) = "REQ"
      <4>1. Len(o) = l("SUB") + l("REQ")
        BY <2>1, <3>2
      <4>2. \A m, n \in Nat : m + n = n + m
        OBVIOUS
      <4> QED BY <2>1, <4>1, <4>2, Zenon
    <3> QED BY <1>3, <3>1, <3>2
  <2> QED BY <2>2 DEF l
<1> QED BY <1>4 DEF OrderOK

\* With one queue empty it does not matter which goes first.
LEMMA EitherFirst ==
    ASSUME NEW s \in DieType, Sound(s), NEW f \in Queues, NEW g \in Queues, NEW o,
           Selected(s, f), OrderOK(o, s, f),
           s.queue["REQ"] = <<>> \/ s.queue["SUB"] = <<>>
    PROVE  Selected(s, g) /\ OrderOK(o, s, g)
<1>1. CASE g = f
  BY <1>1
<1>2. CASE g # f
  <2>1. g = Other(f) /\ f = Other(g)
    BY <1>2 DEF Queues, Other
  <2>2. s.queue[f] = <<>> \/ s.queue[g] = <<>>
    BY <2>1 DEF Queues, Other
  <2>3. Selected(s, g)
    <3>1. s.queueSelect \in Queues
      BY DEF DieType
    <3>2. s.queueSelect = f \/ s.queueSelect = g
      BY <2>1, <3>1 DEF Queues, Other
    <3> QED BY <2>2, <3>2 DEF Selected, Sound
  <2> DEFINE l(q) == Len(s.queue[q])
  <2>4. /\ Len(o) = l(f) + l(g) /\ l(f) \in Nat /\ l(g) \in Nat
        /\ (l(f) = 0 \/ l(g) = 0)
    BY <2>1, <2>2, OrderLength, QueueLengths
  <2>5. o \in Seq(Queues) /\ \A i \in 1 .. Len(o) : o[i] = IF i <= l(f) THEN f ELSE g
    BY <2>1 DEF OrderOK
  <2> HIDE DEF l
  <2>6. Len(o) = l(g) + l(f)
    BY <2>4
  <2>7. \A i \in 1 .. Len(o) : o[i] = IF i <= l(g) THEN g ELSE f
    BY <2>4, <2>5
  <2> QED BY <2>1, <2>3, <2>5, <2>6, <2>7, OrderFrom DEF l
<1> QED BY <1>1, <1>2

\* A die with the same work has the same order.
LEMMA SameWorkOrder ==
    ASSUME NEW s, NEW t, SameWork(s, t), NEW f, NEW o
    PROVE  /\ Selected(s, f) => Selected(t, f)
           /\ OrderOK(o, s, f) => OrderOK(o, t, f)
BY DEF SameWork, Selected, OrderOK

\* The oldest request is that of the selected queue.
LEMMA OldestSelected ==
    ASSUME NEW s \in DieType, Sound(s), NEW f \in Queues, NEW o, s.list # "idle",
           Selected(s, f), OrderOK(o, s, f)
    PROVE  o # <<>> /\ Len(o) \in Nat \ {0} /\ o[1] = s.queueSelect /\ Head(o) = s.queueSelect
<1>1. s.queue[s.queueSelect] # <<>> /\ s.queueSelect \in Queues
  BY DEF Sound, DieType
<1> DEFINE l(q) == Len(s.queue[q])
<1>2. /\ Len(o) = l(f) + l(Other(f)) /\ l(f) \in Nat /\ l(Other(f)) \in Nat
      /\ \A i \in 1 .. Len(o) : o[i] = IF i <= l(f) THEN f ELSE Other(f)
  BY OrderLength DEF OrderOK
<1>3. o \in Seq(Queues)
  BY DEF OrderOK
<1>4. Len(o) \in Nat \ {0} /\ o[1] = s.queueSelect
  <2>1. CASE s.queueSelect = f
    <3>1. l(f) # 0
      BY <1>1, <2>1, QueueLengths
    <3> HIDE DEF l
    <3> QED BY <1>2, <2>1, <3>1
  <2>2. CASE s.queueSelect # f
    <3>1. s.queueSelect = Other(f)
      BY <1>1, <2>2 DEF Queues, Other
    <3>2. s.queue[f] = <<>>
      BY <2>2 DEF Selected
    <3>3. l(f) = 0 /\ l(Other(f)) # 0
      BY <1>1, <3>1, <3>2, QueueLengths
    <3> HIDE DEF l
    <3> QED BY <1>2, <3>1, <3>3
  <2> QED BY <2>1, <2>2
<1>5. o # <<>>
  BY <1>3, <1>4, EmptySeq
<1> QED BY <1>3, <1>4, <1>5, HeadTailProperties

\* Taking away the first of the oldest queue takes away the head.
LEMMA WithoutOldest ==
    ASSUME NEW o \in Seq(Queues), o # <<>>
    PROVE  Without(o, o[1]) = Tail(o)
<1>1. Len(o) \in Nat \ {0} /\ Tail(o) \in Seq(Queues) /\ Len(Tail(o)) = Len(o) - 1
      /\ \A i \in 1 .. Len(Tail(o)) : Tail(o)[i] = o[i + 1]
  BY HeadTailProperties, EmptySeq
<1> DEFINE P(i) == o[i] = o[1] /\ \A j \in 1 .. i - 1 : o[j] # o[1]
           c == CHOOSE i \in DOMAIN o : P(i)
<1>2. DOMAIN o = 1 .. Len(o) /\ 1 \in DOMAIN o
  BY <1>1, LenProperties
<1>3. P(1)
  OBVIOUS
<1>4. \A i \in DOMAIN o : P(i) => i = 1
  BY <1>2
<1>5. c = 1
  <2> HIDE DEF P
  <2> QED BY <1>2, <1>3, <1>4
<1>6. Without(o, o[1]) = SubSeq(o, 1, c - 1) \o SubSeq(o, c + 1, Len(o))
  BY DEF Without
<1> HIDE DEF c
<1>7. SubSeq(o, 1, 0) = <<>>
  BY SubSeqProperties
<1>8. SubSeq(o, 2, Len(o)) = Tail(o)
  BY <1>1
<1>9. <<>> \o Tail(o) = Tail(o)
  BY <1>1, ConcatEmptySeq
<1> QED BY <1>5, <1>6, <1>7, <1>8, <1>9

\* The end of the oldest request.
LEMMA OrderPop ==
    ASSUME NEW s \in DieType, NEW t \in DieType, Sound(s), NEW f \in Queues, NEW o,
           s.list # "idle", Selected(s, f), OrderOK(o, s, f), Popped(s, t, s.queueSelect)
    PROVE  OrderOK(Tail(o), t, f)
<1> DEFINE q == s.queueSelect
           a == Len(s.queue[f])
           b == Len(s.queue[Other(f)])
           c == Len(t.queue[f])
           d == Len(t.queue[Other(f)])
<1>1. q \in Queues /\ s.queue[q] # <<>> /\ t.queue[q] = Tail(s.queue[q])
      /\ \A p \in Queues \ {q} : t.queue[p] = s.queue[p]
  BY DEF DieType, Popped
<1>2. Len(t.queue[q]) = Len(s.queue[q]) - 1 /\ Len(s.queue[q]) \in Nat \ {0}
  BY <1>1, FrontAndRest
<1>3. /\ o \in Seq(Queues) /\ Len(o) = a + b /\ a \in Nat /\ b \in Nat
      /\ \A i \in 1 .. Len(o) : o[i] = IF i <= a THEN f ELSE Other(f)
  BY OrderLength DEF OrderOK
<1>4. /\ Len(o) \in Nat \ {0} /\ Tail(o) \in Seq(Queues) /\ Len(Tail(o)) = Len(o) - 1
      /\ \A i \in 1 .. Len(Tail(o)) : Tail(o)[i] = o[i + 1]
  BY <1>3, OldestSelected, HeadTailProperties
<1>5. \/ c = a - 1 /\ d = b /\ a # 0
      \/ a = 0 /\ c = a /\ d = b - 1
  <2>1. CASE q = f
    <3>1. t.queue[Other(f)] = s.queue[Other(f)]
      BY <1>1, <2>1, TwoQueues
    <3> QED BY <1>2, <2>1, <3>1
  <2>2. CASE q # f
    <3>1. q = Other(f) /\ t.queue[f] = s.queue[f]
      BY <1>1, <2>2 DEF Queues, Other
    <3>2. s.queue[f] = <<>>
      BY <2>2 DEF Selected
    <3>3. a = 0
      BY <3>2, QueueLengths
    <3> QED BY <1>2, <3>1, <3>3
  <2> QED BY <2>1, <2>2
<1> HIDE DEF a, b, c, d, q
<1>6. Len(Tail(o)) = c + d
  BY <1>3, <1>4, <1>5
<1>7. ASSUME NEW i \in 1 .. Len(Tail(o))
      PROVE  Tail(o)[i] = IF i <= c THEN f ELSE Other(f)
  <2>1. i + 1 \in 1 .. Len(o) /\ Tail(o)[i] = o[i + 1]
    BY <1>4
  <2>2. o[i + 1] = IF i + 1 <= a THEN f ELSE Other(f)
    BY <1>3, <2>1
  <2>3. i + 1 <= a <=> i <= c
    BY <1>3, <1>4, <1>5
  <2> QED BY <2>1, <2>2, <2>3
<1> QED BY <1>4, <1>6, <1>7, OrderFrom DEF c, d

\* A request for the queue that goes second.
LEMMA OrderPush ==
    ASSUME NEW s \in DieType, NEW t, NEW f \in Queues, NEW q, q = Other(f), NEW r,
           NEW o, OrderOK(o, s, f), Grown(s, t, q, r)
    PROVE  OrderOK(Append(o, q), t, f)
<1> DEFINE a == Len(s.queue[f])
           b == Len(s.queue[Other(f)])
           n == Append(o, q)
<1>1. /\ o \in Seq(Queues) /\ Len(o) = a + b /\ a \in Nat /\ b \in Nat
      /\ \A i \in 1 .. Len(o) : o[i] = IF i <= a THEN f ELSE Other(f)
  BY OrderLength DEF OrderOK
<1>2. q \in Queues /\ f \in Queues \ {q}
  BY TwoQueues
<1>3. t \in DieType /\ Len(t.queue[f]) = a /\ Len(t.queue[Other(f)]) = b + 1
  BY <1>2 DEF Grown
<1> HIDE DEF a, b
<1>4. /\ n \in Seq(Queues) /\ Len(n) = Len(o) + 1 /\ n[Len(o) + 1] = q
      /\ \A i \in 1 .. Len(o) : n[i] = o[i]
  BY <1>1, <1>2, AppendProperties
<1> HIDE DEF n
<1>5. Len(n) = a + (b + 1)
  BY <1>1, <1>4
<1>6. ASSUME NEW i \in 1 .. Len(n) PROVE n[i] = IF i <= a THEN f ELSE Other(f)
  <2>1. CASE i = Len(o) + 1
    <3>1. ~(i <= a)
      BY <1>1, <2>1
    <3> QED BY <1>4, <2>1, <3>1
  <2>2. CASE i # Len(o) + 1
    <3>1. i \in 1 .. Len(o)
      BY <1>1, <1>4, <2>2
    <3> QED BY <1>1, <1>4, <3>1
  <2> QED BY <2>1, <2>2
<1>7. OrderOK(n, t, f)
  BY <1>3, <1>4, <1>5, <1>6, OrderFrom
<1> QED BY <1>7 DEF n

\* The first request of a queue leaves no other queue shorter.
LEMMA OnlyPopped ==
    ASSUME NEW s \in DieType, NEW t \in DieType, NEW q \in Queues, Popped(s, t, q)
    PROVE  /\ \A p \in Queues : Len(t.queue[p]) < Len(s.queue[p]) <=> p = q
           /\ (CHOOSE p \in Queues : Len(t.queue[p]) < Len(s.queue[p])) = q
<1>1. /\ Len(t.queue[q]) = Len(s.queue[q]) - 1 /\ Len(s.queue[q]) \in Nat \ {0}
      /\ \A p \in Queues \ {q} : t.queue[p] = s.queue[p]
  BY FrontAndRest DEF Popped
<1> DEFINE S(p) == Len(t.queue[p]) < Len(s.queue[p])
<1>2. S(q)
  BY <1>1
<1>3. ASSUME NEW p \in Queues \ {q} PROVE ~S(p)
  <2>1. Len(t.queue[p]) = Len(s.queue[p]) /\ Len(s.queue[p]) \in Nat
    BY <1>1, QueueLengths
  <2> QED BY <2>1
<1>4. \A p \in Queues : S(p) <=> p = q
  BY <1>2, <1>3
<1> HIDE DEF S
<1>5. (CHOOSE p \in Queues : S(p)) = q
  BY <1>4
<1> QED BY <1>4, <1>5 DEF S

\* An empty queue stays empty under a visit.
LEMMA EmptyStays ==
    ASSUME NEW s \in DieType, NEW t \in DieType, NEW p \in Queues, s.queue[p] = <<>>,
           SameLengths(s, t) \/ \E q \in Queues : Popped(s, t, q)
    PROVE  t.queue[p] = <<>>
<1>1. CASE SameLengths(s, t)
  BY <1>1, QueueLengths DEF SameLengths
<1>2. CASE \E q \in Queues : Popped(s, t, q)
  BY <1>2 DEF Popped
<1> QED BY <1>1, <1>2

\* A sweep ends the oldest request or none.
LEMMA SweepOrder ==
    OrderInv /\ Sweep => PlanOK' /\ WorkOK' /\ (order' = order \/ order' = Tail(order))
<1> SUFFICES ASSUME OrderInv, Sweep
             PROVE  PlanOK' /\ WorkOK' /\ (order' = order \/ order' = Tail(order))
  OBVIOUS
<1> DEFINE f == First
           t == Visited(die, f)
           S(q) == Len(die'.queue[q]) < Len(die.queue[q])
<1>1. die \in DieType /\ Sound(die) /\ Visitable(die) /\ f \in Queues
  BY FirstTyped DEF OrderInv, BaseInv, DieOK, Sweep
<1>2. GoodVisit(die, t, f)
  BY <1>1, VisitedGood
<1>3. Strict(die) /\ Selected(die, f) /\ OrderOK(order, die, f)
  BY DEF OrderInv, WorkOK
<1>4. die' = [t EXCEPT !.reservedReq = TRUE] /\ todo' = todo /\ First' = f
  BY DEF Sweep, First
<1>5. order' = IF \E q \in Queues : S(q) THEN Without(order, CHOOSE q \in Queues : S(q))
               ELSE order
  BY DEF Sweep
<1> HIDE DEF t, f
<1>6. /\ t \in DieType /\ Strict(t) /\ Selected(t, f)
      /\ SameLengths(die, t) \/ (die.list # "idle" /\ Popped(die, t, die.queueSelect))
  BY <1>2, <1>3 DEF GoodVisit
<1>7. die' \in DieType /\ SameWork(t, die')
  BY <1>4, <1>6, FlagFacts
<1>8. Strict(die') /\ Selected(die', f)
  BY <1>6, <1>7, SameWorkFacts, SameWorkOrder
<1>9. die'.queue = t.queue
  BY <1>7 DEF SameWork
<1>10. (order' = order \/ order' = Tail(order)) /\ OrderOK(order', die', f)
  <2>1. CASE SameLengths(die, t)
    <3>1. \A q \in Queues : ~S(q)
      <4>1. ASSUME NEW q \in Queues PROVE ~S(q)
        <5>1. Len(die'.queue[q]) = Len(die.queue[q]) /\ Len(die.queue[q]) \in Nat
          BY <1>1, <1>9, <2>1, QueueLengths DEF SameLengths
        <5> QED BY <5>1
      <4> QED BY <4>1
    <3>2. order' = order
      BY <1>5, <3>1
    <3>3. OrderOK(order, die', f)
      <4>1. "REQ" \in Queues /\ "SUB" \in Queues
        BY DEF Queues
      <4> QED BY <1>1, <1>3, <1>9, <2>1, <4>1 DEF SameLengths, OrderOK
    <3> QED BY <3>2, <3>3
  <2>2. CASE die.list # "idle" /\ Popped(die, t, die.queueSelect)
    <3> DEFINE q == die.queueSelect
    <3>1. q \in Queues /\ Popped(die, die', q)
      BY <1>1, <1>9, <2>2 DEF Popped, DieType
    <3>2. (\E p \in Queues : S(p)) /\ (CHOOSE p \in Queues : S(p)) = q
      BY <1>1, <1>7, <3>1, OnlyPopped
    <3>3. order \in Seq(Queues) /\ order # <<>> /\ order[1] = q
      BY <1>1, <1>3, <2>2, OldestSelected DEF OrderOK
    <3>4. order' = Without(order, q)
      BY <1>5, <3>2
    <3>5. order' = Tail(order)
      BY <3>3, <3>4, WithoutOldest
    <3>6. OrderOK(Tail(order), die', f)
      BY <1>1, <1>3, <1>7, <2>2, <3>1, OrderPop
    <3> QED BY <3>5, <3>6
  <2> QED BY <1>6, <2>1, <2>2
<1>11. die.queue["REQ"] = <<>> => die'.queue["REQ"] = <<>>
  <2>1. "REQ" \in Queues /\ die.queueSelect \in Queues
    BY <1>1 DEF Queues, DieType
  <2> QED BY <1>1, <1>6, <1>9, <2>1, EmptyStays
<1>12. ~(todo # <<>> /\ Head(todo).do = "readTable")
  BY DEF Sweep, Sweeping
<1> QED BY <1>4, <1>8, <1>10, <1>11, <1>12 DEF OrderInv, PlanOK, WorkOK

(***************************************************************************)
(* The plan.                                                               *)
(***************************************************************************)

\* no routine of t is EmptyLowLevelQ before it has read the table
Nested(t) ==
    \A i \in 1 .. Len(t) :
       /\ t[i].do # "readTable"
       /\ t[i].do = "drainAll" => i < Len(t) /\ t[i + 1].do = "relocate"

\* What remains of linked steps is linked.
LEMMA LinkedRest ==
    ASSUME NEW t \in Seq(Steps), t # <<>>, Linked(t)
    PROVE  /\ Linked(Tail(t)) /\ (Clean(Tail(t)) => Clean(t))
           /\ t[1].do # "drainAll" => Nested(Tail(t))
           /\ t[1].do \notin {"drainAll", "readTable"} => Nested(t)
<1> DEFINE r == Tail(t)
<1>1. /\ Len(t) \in Nat \ {0} /\ Len(r) = Len(t) - 1
      /\ \A i \in 1 .. Len(r) : r[i] = t[i + 1]
  BY TailSteps
<1> HIDE DEF r
<1>2. ASSUME NEW i \in 1 .. Len(r) PROVE LinkAt(r, i)
  <2>1. i + 1 \in 1 .. Len(t) /\ i + 1 # 1 /\ r[i] = t[i + 1]
        /\ (i < Len(r) <=> i + 1 < Len(t)) /\ (i + 1 = Len(r) <=> (i + 1) + 1 = Len(t))
        /\ (i + 1 = 2 => i = 1)
    BY <1>1
  <2>2. i < Len(r) => r[i + 1] = t[(i + 1) + 1]
    BY <1>1
  <2>3. LinkAt(t, i + 1)
    BY <2>1 DEF Linked
  <2> QED BY <2>1, <2>2, <2>3 DEF LinkAt, Sub
<1>3. Clean(r) => Clean(t)
  <2>1. ASSUME NEW j \in 1 .. Len(r),
               \/ r[j].do = "relocate"
               \/ r[j].do = "reserve" /\ (j < Len(r) \/ (j > 1 /\ Sub(r[j - 1])))
        PROVE  Clean(t)
    <3>1. /\ j + 1 \in 1 .. Len(t) /\ r[j] = t[j + 1]
          /\ (j < Len(r) => j + 1 < Len(t)) /\ j + 1 > 1 /\ (j + 1) - 1 = j
      BY <1>1
    <3>2. j > 1 => r[j - 1] = t[j]
      <4>1. j > 1 => j - 1 \in 1 .. Len(r) /\ (j - 1) + 1 = j
        BY <1>1
      <4> QED BY <1>1, <4>1
    <3> QED BY <2>1, <3>1, <3>2 DEF Clean
  <2> QED BY <2>1 DEF Clean
<1>4. ASSUME NEW i \in 1 .. Len(t), i # 1
      PROVE  /\ t[i].do = "drainAll" => i < Len(t) /\ t[i + 1].do = "relocate"
             /\ t[1].do # "drainAll" => t[i].do # "readTable"
  BY <1>4 DEF Linked, LinkAt
<1>5. t[1].do # "drainAll" => Nested(r)
  <2> SUFFICES ASSUME t[1].do # "drainAll", NEW i \in 1 .. Len(r)
               PROVE  /\ r[i].do # "readTable"
                      /\ r[i].do = "drainAll" => i < Len(r) /\ r[i + 1].do = "relocate"
    BY DEF Nested
  <2>1. /\ i + 1 \in 1 .. Len(t) /\ i + 1 # 1 /\ r[i] = t[i + 1]
        /\ (i < Len(r) <=> i + 1 < Len(t))
    BY <1>1
  <2>2. i + 1 < Len(t) => r[i + 1] = t[(i + 1) + 1]
    BY <1>1
  <2> QED BY <1>4, <2>1, <2>2
<1>6. t[1].do \notin {"drainAll", "readTable"} => Nested(t)
  BY <1>4 DEF Nested
<1> QED BY <1>2, <1>3, <1>5, <1>6 DEF Linked, r

\* Steps put in front of linked ones.
LEMMA LinkedInFront ==
    ASSUME NEW p \in Seq(Steps), NEW t \in Seq(Steps), Linked(t), Nested(t),
           \A i \in 1 .. Len(p) : LinkAt(p \o t, i)
    PROVE  Linked(p \o t)
<1> DEFINE u == p \o t
<1>1. /\ u \in Seq(Steps) /\ Len(u) = Len(p) + Len(t) /\ Len(p) \in Nat /\ Len(t) \in Nat
      /\ \A i \in 1 .. Len(t) : u[Len(p) + i] = t[i]
  BY ConcatSteps
<1>2. \A i \in 1 .. Len(p) : LinkAt(u, i)
  OBVIOUS
<1> HIDE DEF u
<1>3. ASSUME NEW i \in 1 .. Len(t) PROVE LinkAt(u, Len(p) + i)
  <2>0. \A m, n, k \in Nat : (m + k < m + n <=> k < n) /\ ((m + k) + 1 = m + n <=> k + 1 = n)
    OBVIOUS
  <2>1. /\ u[Len(p) + i] = t[i]
        /\ (Len(p) + i < Len(u) <=> i < Len(t))
        /\ ((Len(p) + i) + 1 = Len(u) <=> i + 1 = Len(t))
    <3>1. i \in Nat /\ Len(u) = Len(p) + Len(t) /\ Len(p) \in Nat /\ Len(t) \in Nat
      BY <1>1
    <3>2. Len(p) + i < Len(p) + Len(t) <=> i < Len(t)
      BY <2>0, <3>1, Zenon
    <3>3. (Len(p) + i) + 1 = Len(p) + Len(t) <=> i + 1 = Len(t)
      BY <2>0, <3>1, Zenon
    <3>4. u[Len(p) + i] = t[i]
      BY <1>1
    <3> QED BY <3>1, <3>2, <3>3, <3>4
  <2>2. i < Len(t) => u[(Len(p) + i) + 1] = t[i + 1]
    <3>1. i < Len(t) => i + 1 \in 1 .. Len(t) /\ (Len(p) + i) + 1 = Len(p) + (i + 1)
      BY <1>1
    <3> QED BY <1>1, <3>1
  <2>3. LinkAt(t, i) /\ t[i].do # "readTable" /\ (t[i].do = "drainAll" => t[i + 1].do = "relocate")
    BY DEF Linked, Nested
  <2> QED BY <2>1, <2>2, <2>3 DEF LinkAt, Sub
<1>4. ASSUME NEW i \in 1 .. Len(u) PROVE LinkAt(u, i)
  <2>1. CASE i <= Len(p)
    <3>1. i \in 1 .. Len(p)
      BY <1>1, <2>1
    <3> QED BY <1>2, <3>1
  <2>2. CASE ~(i <= Len(p))
    <3>1. i - Len(p) \in 1 .. Len(t) /\ Len(p) + (i - Len(p)) = i
      BY <1>1, <2>2
    <3>2. LinkAt(u, Len(p) + (i - Len(p)))
      BY <1>3, <3>1
    <3> QED BY <3>1, <3>2
  <2> QED BY <2>1, <2>2
<1> QED BY <1>4 DEF Linked, u

\* EmptyLowLevelQ is called.
LEMMA EmptyingLinked ==
    ASSUME NEW f \in Queues, NEW t \in Seq(Steps), Linked(t), Nested(t)
    PROVE  LET u == EmptyLowLevelQ(f) \o t
           IN  /\ Linked(u) /\ (Clean(u) => Clean(t))
               /\ u # <<>> /\ Head(u).first = f /\ Head(u).do = "drainAll"
<1> DEFINE e == EmptyLowLevelQ(f)
           u == e \o t
<1>1. /\ e \in Seq(Steps) /\ Len(e) = 2
      /\ e[1].do = "drainAll" /\ e[1].first = f /\ e[2].do = "readTable"
  BY StepTypes DEF EmptyLowLevelQ, DrainAll, ReadTable, Step
<1> HIDE DEF e
<1>2. /\ u \in Seq(Steps) /\ Len(u) = 2 + Len(t) /\ Len(t) \in Nat
      /\ u[1] = e[1] /\ u[2] = e[2]
      /\ \A i \in 1 .. Len(t) : u[2 + i] = t[i]
  <2>1. /\ u \in Seq(Steps) /\ Len(u) = Len(e) + Len(t) /\ Len(t) \in Nat
        /\ \A i \in 1 .. Len(e) : u[i] = e[i]
        /\ \A i \in 1 .. Len(t) : u[Len(e) + i] = t[i]
    BY <1>1, ConcatSteps
  <2> HIDE DEF u
  <2> QED BY <1>1, <2>1
<1>3. ASSUME NEW i \in 1 .. Len(e) PROVE LinkAt(u, i)
  <2> HIDE DEF u
  <2>1. i = 1 \/ i = 2
    BY <1>1
  <2>2. 1 < Len(u)
    BY <1>2
  <2> QED BY <1>1, <1>2, <2>1, <2>2 DEF LinkAt, Sub
<1>4. Linked(u)
  BY <1>1, <1>3, LinkedInFront
<1> HIDE DEF u
<1>5. Clean(u) => Clean(t)
  <2>1. ASSUME NEW j \in 1 .. Len(u),
               \/ u[j].do = "relocate"
               \/ u[j].do = "reserve" /\ (j < Len(u) \/ (j > 1 /\ Sub(u[j - 1])))
        PROVE  Clean(t)
    <3>1. j # 1 /\ j # 2
      BY <1>1, <1>2, <2>1
    <3>2. /\ j - 2 \in 1 .. Len(t) /\ 2 + (j - 2) = j
          /\ (j < Len(u) <=> j - 2 < Len(t))
      BY <1>2, <3>1
    <3>3. u[j] = t[j - 2]
      BY <1>2, <3>2
    <3>4. j - 2 = 1 => ~Sub(u[j - 1])
      <4>1. j - 2 = 1 => j - 1 = 2
        OBVIOUS
      <4> QED BY <1>1, <1>2, <4>1 DEF Sub
    <3>5. j - 2 > 1 => u[j - 1] = t[(j - 2) - 1]
      <4>1. j - 2 > 1 => (j - 2) - 1 \in 1 .. Len(t) /\ 2 + ((j - 2) - 1) = j - 1
        BY <3>2
      <4> QED BY <1>2, <4>1
    <3>6. j - 2 = 1 \/ j - 2 > 1
      BY <3>2
    <3> QED BY <2>1, <3>2, <3>3, <3>4, <3>5, <3>6 DEF Clean
  <2> QED BY <2>1 DEF Clean
<1>6. u # <<>> /\ Head(u) = u[1]
  BY <1>2, EmptySeq, HeadTailProperties
<1> QED BY <1>1, <1>2, <1>4, <1>5, <1>6 DEF u, e

\* The steps of a collection.
LEMMA CollectionShape ==
    ASSUME NEW n \in Nat
    PROVE  LET u == Collection(n)
               m == 2 * n
           IN  /\ m \in Nat /\ Len(u) = m + 5 /\ u[1] = Drain("SUB")
               /\ \A i \in 2 .. m + 2 : Sub(u[i]) /\ u[i].first = "REQ"
               /\ u[m + 3] = Drain("REQ") /\ u[m + 4] = Push("REQ", "ProgramPage")
               /\ u[m + 5] = Reserve
<1> DEFINE t == <<Push("SUB", "BlockErase"), Drain("REQ"), Push("REQ", "ProgramPage"), Reserve>>
           d == <<Drain("SUB")>>
           c == Copies(n)
           k == d \o c
           u == k \o t
           m == 2 * n
<1>1. /\ t \in Seq(Steps) /\ Len(t) = 4 /\ t[1] = Push("SUB", "BlockErase")
      /\ t[2] = Drain("REQ") /\ t[3] = Push("REQ", "ProgramPage") /\ t[4] = Reserve
  BY ShortStacks
<1>2. d \in Seq(Steps) /\ Len(d) = 1 /\ d[1] = Drain("SUB")
  BY StepTypes DEF Queues
<1>3. /\ c \in Seq(Steps) /\ Len(c) = m /\ m \in Nat
      /\ \A i \in 1 .. m : \E r \in Pushes : c[i] = Push("SUB", r)
  <2>1. m \in Nat
    OBVIOUS
  <2> QED BY <2>1, CopiesFacts
<1>4. \A r \in Pushes : Sub(Push("SUB", r)) /\ Push("SUB", r).first = "REQ"
  BY DEF Sub, Push, Step, Other
<1>5. \A i \in 1 .. m : Sub(c[i]) /\ c[i].first = "REQ"
  BY <1>3, <1>4
<1> HIDE DEF t, d, c, m
<1>6. /\ k \in Seq(Steps) /\ Len(k) = 1 + m /\ k[1] = d[1]
      /\ \A i \in 1 .. m : k[1 + i] = c[i]
  <2>1. /\ k \in Seq(Steps) /\ Len(k) = Len(d) + Len(c)
        /\ \A i \in 1 .. Len(d) : k[i] = d[i]
        /\ \A i \in 1 .. Len(c) : k[Len(d) + i] = c[i]
    BY <1>2, <1>3, ConcatSteps
  <2> HIDE DEF k
  <2> QED BY <1>2, <1>3, <2>1
<1> HIDE DEF k
<1>7. /\ Len(u) = (1 + m) + 4
      /\ \A i \in 1 .. 1 + m : u[i] = k[i]
      /\ \A i \in 1 .. 4 : u[(1 + m) + i] = t[i]
  <2>1. /\ Len(u) = Len(k) + Len(t)
        /\ \A i \in 1 .. Len(k) : u[i] = k[i]
        /\ \A i \in 1 .. Len(t) : u[Len(k) + i] = t[i]
    BY <1>1, <1>6, ConcatSteps
  <2> HIDE DEF u
  <2> QED BY <1>1, <1>6, <2>1
<1>8. Collection(n) = u
  BY DEF Collection, u, k, t, d, c
<1> HIDE DEF u
<1>9. Len(u) = m + 5 /\ u[1] = Drain("SUB")
  BY <1>2, <1>3, <1>6, <1>7
<1>10. ASSUME NEW i \in 2 .. m + 2 PROVE Sub(u[i]) /\ u[i].first = "REQ"
  <2>1. CASE i <= m + 1
    <3>1. i - 1 \in 1 .. m /\ 1 + (i - 1) = i /\ i \in 1 .. 1 + m
      BY <1>3, <2>1
    <3> QED BY <1>5, <1>6, <1>7, <3>1
  <2>2. CASE ~(i <= m + 1)
    <3>1. i = (1 + m) + 1
      BY <1>3, <2>2
    <3> QED BY <1>1, <1>4, <1>7, <3>1 DEF Pushes, Requests
  <2> QED BY <2>1, <2>2
<1>11. u[(1 + m) + 2] = Drain("REQ") /\ u[(1 + m) + 3] = Push("REQ", "ProgramPage")
       /\ u[(1 + m) + 4] = Reserve
  BY <1>1, <1>7
<1>12. (1 + m) + 2 = m + 3 /\ (1 + m) + 3 = m + 4 /\ (1 + m) + 4 = m + 5
  BY <1>3
<1>13. u[m + 3] = Drain("REQ") /\ u[m + 4] = Push("REQ", "ProgramPage") /\ u[m + 5] = Reserve
  BY <1>11, <1>12
<1> QED BY <1>3, <1>8, <1>9, <1>10, <1>13 DEF m

\* A command of a host without joins begins and goes on as planned.
LEMMA CommandLinked ==
    ASSUME NEW c \in Commands, Joins = FALSE
    PROVE  /\ Linked(c) /\ ~Clean(c) /\ c # <<>>
           /\ Head(c).first = "SUB" /\ Head(c).do # "readTable"
<1>0. c \in Seq(Steps)
  BY CommandsAnnounced
<1>1. ASSUME NEW r \in Pushes, c = <<Push("REQ", r), Reserve>>
      PROVE  /\ Linked(c) /\ ~Clean(c) /\ c # <<>>
             /\ Head(c).first = "SUB" /\ Head(c).do # "readTable"
  <2>1. /\ Len(c) = 2 /\ c[1].do = "push" /\ c[1].queue = "REQ" /\ c[1].first = "SUB"
        /\ c[1].request \in Pushes
        /\ c[2].do = "reserve" /\ c[2].first = "SUB"
    BY <1>1 DEF Push, Reserve, Step, Other
  <2>2. c # <<>> /\ Head(c) = c[1]
    BY <1>1
  <2>3. Linked(c)
    BY <2>1 DEF Linked, LinkAt, Sub, Other
  <2>4. ~Clean(c)
    BY <2>1 DEF Clean, Sub
  <2> QED BY <2>1, <2>2, <2>3, <2>4
<1>2. ASSUME NEW n \in 0 .. PAGE_NUM_PER_BLOCK - 1, c = Collection(n)
      PROVE  /\ Linked(c) /\ ~Clean(c) /\ c # <<>>
             /\ Head(c).first = "SUB" /\ Head(c).do # "readTable"
  <2> DEFINE m == 2 * n
  <2>0. n \in Nat
    BY DepthAssumption
  <2>1. /\ m \in Nat /\ Len(c) = m + 5
        /\ c[1] = Drain("SUB") /\ c[m + 3] = Drain("REQ")
        /\ c[m + 4] = Push("REQ", "ProgramPage") /\ c[m + 5] = Reserve
        /\ \A i \in 2 .. m + 2 : Sub(c[i]) /\ c[i].first = "REQ"
    BY <1>2, <2>0, CollectionShape
  <2> HIDE DEF m
  <2>2. /\ c[1].do = "drain" /\ c[1].queue = "SUB" /\ c[1].first = "SUB"
        /\ c[m + 3].do = "drain" /\ c[m + 3].queue = "REQ" /\ c[m + 3].first = "REQ"
        /\ c[m + 4].do = "push" /\ c[m + 4].queue = "REQ" /\ c[m + 4].first = "SUB"
        /\ c[m + 4].request \in Pushes
        /\ c[m + 5].do = "reserve" /\ c[m + 5].first = "SUB"
    BY <2>1 DEF Push, Drain, Reserve, Step, Other, Pushes, Requests
  <2>3. ASSUME NEW i \in 1 .. Len(c)
        PROVE  i = 1 \/ i \in 2 .. m + 2 \/ i = m + 3 \/ i = m + 4 \/ i = m + 5
    BY <2>1
  <2>4. ASSUME NEW i \in 1 .. Len(c) PROVE LinkAt(c, i)
    <3>1. CASE i = 1 \/ i = m + 3 \/ i = m + 5
      BY <2>2, <3>1 DEF LinkAt, Sub
    <3>2. CASE i \in 2 .. m + 2
      <4>1. /\ c[i].do = "push" /\ c[i].queue = "SUB" /\ c[i].first = Other(c[i].queue)
            /\ c[i].request \in Pushes
        BY <2>1, <3>2 DEF Sub, Other
      <4>2. i < Len(c) /\ (i + 1 \in 2 .. m + 2 \/ i + 1 = m + 3)
        BY <2>1, <3>2
      <4>3. Sub(c[i + 1]) \/ (c[i + 1].do = "drain" /\ c[i + 1].queue = "REQ")
        BY <2>1, <2>2, <4>2
      <4> QED BY <4>1, <4>2, <4>3 DEF LinkAt, Sub
    <3>3. CASE i = m + 4
      <4>1. i < Len(c) /\ i + 1 = Len(c) /\ i + 1 = m + 5
        BY <2>1, <3>3
      <4> QED BY <2>2, <3>3, <4>1 DEF LinkAt, Sub, Other
    <3> QED BY <2>3, <3>1, <3>2, <3>3
  <2>5. ~Clean(c)
    <3>1. SUFFICES ASSUME NEW i \in 1 .. Len(c),
                          \/ c[i].do = "relocate"
                          \/ c[i].do = "reserve" /\ (i < Len(c) \/ (i > 1 /\ Sub(c[i - 1])))
                   PROVE  FALSE
      BY DEF Clean
    <3>2. i = m + 5
      BY <2>1, <2>2, <2>3, <3>1 DEF Sub
    <3>3. i - 1 = m + 4 /\ ~(i < Len(c))
      BY <2>1, <3>2
    <3> QED BY <2>2, <3>1, <3>2, <3>3 DEF Sub
  <2>6. c # <<>> /\ Head(c) = c[1]
    BY <1>0, <2>1, EmptySeq, HeadTailProperties
  <2> QED BY <2>2, <2>4, <2>5, <2>6 DEF Linked
<1>3. \/ \E r \in Pushes : c = <<Push("REQ", r), Reserve>>
      \/ \E n \in 0 .. PAGE_NUM_PER_BLOCK - 1 : c = Collection(n)
  BY DEF Commands, Pushes, Requests
<1> QED BY <1>1, <1>2, <1>3

\* A step that leaves the work of the die alone, and the queue that goes first
\* as well unless one of the two is empty.
LEMMA Handover ==
    ASSUME OrderInv, BaseInv', SameWork(die, die'), order' = order,
           \/ First' = First
           \/ die.queue["REQ"] = <<>> \/ die.queue["SUB"] = <<>>
    PROVE  WorkOK'
<1>1. die \in DieType /\ Sound(die) /\ First \in Queues /\ First' \in Queues
  <2>1. First' \in Queues
    <3>1. todo' # <<>> => Head(todo') \in Steps
      BY TailSteps DEF BaseInv, TodoOK
    <3> QED BY <3>1 DEF First, Steps, Queues
  <2> QED BY <2>1, FirstTyped DEF OrderInv, BaseInv, DieOK
<1>2. Strict(die) /\ Selected(die, First) /\ OrderOK(order, die, First)
  BY DEF OrderInv, WorkOK
<1>3. Selected(die, First') /\ OrderOK(order, die, First')
  BY <1>1, <1>2, EitherFirst
<1>4. Strict(die') /\ Selected(die', First') /\ OrderOK(order', die', First')
  BY <1>2, <1>3, SameWorkFacts, SameWorkOrder
<1> QED BY <1>4 DEF WorkOK

\* What the invariant says of the step that is done next.
LEMMA NextStep ==
    ASSUME OrderInv, todo # <<>>
    PROVE  /\ todo \in Seq(Steps) /\ Head(todo) = todo[1] /\ Len(todo) \in Nat \ {0}
           /\ Tail(todo) \in Seq(Steps) /\ Len(Tail(todo)) = Len(todo) - 1
           /\ \A i \in 1 .. Len(Tail(todo)) : Tail(todo)[i] = todo[i + 1]
           /\ First = todo[1].first /\ First \in Queues
           /\ \A i \in 1 .. Len(todo) : LinkAt(todo, i)
           /\ Linked(todo) /\ Linked(Tail(todo)) /\ (Clean(Tail(todo)) => Clean(todo))
           /\ todo[1].do # "drainAll" => Nested(Tail(todo))
           /\ todo[1].do \notin {"drainAll", "readTable"} => Nested(todo)
           /\ Tail(todo) = <<>> <=> Len(todo) = 1
           /\ Tail(todo) # <<>> => Head(Tail(todo)) = todo[2] /\ 2 \in 1 .. Len(todo)
<1>1. /\ todo \in Seq(Steps) /\ Head(todo) = todo[1] /\ Len(todo) \in Nat \ {0}
      /\ Tail(todo) \in Seq(Steps) /\ Len(Tail(todo)) = Len(todo) - 1
      /\ \A i \in 1 .. Len(Tail(todo)) : Tail(todo)[i] = todo[i + 1]
  BY RestOK DEF OrderInv, BaseInv, TodoOK
<1>2. Linked(todo)
  BY DEF OrderInv, PlanOK
<1>3. First = todo[1].first /\ First \in Queues
  BY <1>1, FirstTyped DEF OrderInv, BaseInv, First
<1>4. Tail(todo) = <<>> <=> Len(todo) = 1
  <2>1. Tail(todo) = <<>> <=> Len(Tail(todo)) = 0
    BY <1>1, EmptySeq
  <2> QED BY <1>1, <2>1
<1>5. Tail(todo) # <<>> => Head(Tail(todo)) = todo[2] /\ 2 \in 1 .. Len(todo)
  BY <1>1, <1>4, HeadTailProperties
<1> QED BY <1>1, <1>2, <1>3, <1>4, <1>5, LinkedRest DEF Linked

\* A command of the host.
LEMMA CommandOrder == OrderInv /\ Command /\ Joins = FALSE => PlanOK' /\ WorkOK'
<1> SUFFICES ASSUME OrderInv, Command, Joins = FALSE PROVE PlanOK' /\ WorkOK'
  OBVIOUS
<1>1. todo = <<>> /\ die' = die /\ order' = order /\ todo' \in Commands
  BY DEF Command
<1>2. /\ Linked(todo') /\ ~Clean(todo') /\ todo' # <<>>
      /\ Head(todo').first = "SUB" /\ Head(todo').do # "readTable"
  BY <1>1, CommandLinked
<1>3. First' = First
  BY <1>1, <1>2 DEF First
<1>4. WorkOK'
  BY <1>1, <1>3 DEF OrderInv, WorkOK
<1> QED BY <1>2, <1>4 DEF PlanOK

\* The die and its controller.
LEMMA NandOrder == OrderInv /\ Nand => PlanOK' /\ WorkOK' /\ order' = order
<1> SUFFICES ASSUME OrderInv, Nand PROVE PlanOK' /\ WorkOK' /\ order' = order
  OBVIOUS
<1>1. BaseInv' /\ SameWork(die, die') /\ todo' = todo /\ order' = order
  BY NandBase DEF OrderInv
<1>2. First' = First
  BY <1>1 DEF First
<1>3. WorkOK'
  BY <1>1, <1>2, Handover
<1>4. PlanOK'
  BY <1>1 DEF OrderInv, PlanOK, SameWork, Idle
<1> QED BY <1>1, <1>3, <1>4

\* A sweep that finds no request.
LEMMA SweepNothingOrder == OrderInv /\ SweepNothing => PlanOK' /\ WorkOK' /\ order' = order
<1> SUFFICES ASSUME OrderInv, SweepNothing PROVE PlanOK' /\ WorkOK' /\ order' = order
  OBVIOUS
<1>1. BaseInv' /\ SameWork(die, die') /\ todo' = todo /\ order' = order
  BY SweepNothingBase DEF OrderInv, SweepNothing
<1>2. First' = First
  BY <1>1 DEF First
<1>3. WorkOK'
  BY <1>1, <1>2, Handover
<1>4. PlanOK'
  BY <1>1 DEF OrderInv, PlanOK, SameWork, Idle
<1> QED BY <1>1, <1>3, <1>4

\* reservedReq is set.
LEMMA ReserveOrder == OrderInv /\ ReserveRequests => PlanOK' /\ WorkOK' /\ order' = order
<1> SUFFICES ASSUME OrderInv, ReserveRequests PROVE PlanOK' /\ WorkOK' /\ order' = order
  OBVIOUS
<1>1. /\ BaseInv' /\ SameWork(die, die') /\ todo' = Tail(todo) /\ order' = order
      /\ todo # <<>> /\ Head(todo).do = "reserve"
  BY ReserveBase DEF OrderInv, ReserveRequests, Doing
<1>2. /\ Len(todo) \in Nat \ {0} /\ todo[1].do = "reserve" /\ LinkAt(todo, 1)
      /\ First = todo[1].first /\ Linked(todo') /\ (Clean(todo') => Clean(todo))
      /\ Tail(todo) = <<>> <=> Len(todo) = 1
  BY <1>1, NextStep
<1>3. First = "SUB"
  BY <1>2 DEF LinkAt
<1>4. CASE todo' = <<>>
  <2>1. First' = First
    BY <1>3, <1>4 DEF First
  <2>2. PlanOK'
    BY <1>1, <1>2, <1>4 DEF OrderInv, PlanOK, SameWork
  <2> QED BY <1>1, <2>1, <2>2, Handover
<1>5. CASE todo' # <<>>
  <2>1. Clean(todo)
    BY <1>1, <1>2, <1>5 DEF Clean
  <2>2. die.queue["REQ"] = <<>>
    BY <2>1 DEF OrderInv, PlanOK
  <2>3. Head(todo').do # "readTable"
    <3>1. Head(Tail(todo)) = todo[2] /\ LinkAt(todo, 2)
      BY <1>1, <1>5, NextStep
    <3> QED BY <1>1, <1>2, <3>1 DEF LinkAt
  <2>4. PlanOK'
    BY <1>1, <1>2, <2>2, <2>3 DEF PlanOK, SameWork
  <2> QED BY <1>1, <2>2, <2>4, Handover
<1> QED BY <1>4, <1>5

\* The end of a waiting loop.
LEMMA SweepEndsOrder == OrderInv /\ SweepEnds => PlanOK' /\ WorkOK' /\ order' = order
<1> SUFFICES ASSUME OrderInv, SweepEnds PROVE PlanOK' /\ WorkOK' /\ order' = order
  OBVIOUS
<1>1. BaseInv' /\ die' = die /\ order' = order /\ SameWork(die, die')
  BY SweepEndsBase DEF OrderInv, SweepEnds, SameWork
<1>2. /\ \A q \in Queues : die.empty[q] => die.queue[q] = <<>>
      /\ First \in Queues /\ (Clean(todo) => die.queue["REQ"] = <<>>)
  BY FirstTyped DEF OrderInv, BaseInv, DieOK, Sound, PlanOK
<1>3. ASSUME NEW t \in Seq(Steps), Linked(t), Nested(t),
             Clean(t) => die.queue["REQ"] = <<>>, todo' = EmptyLowLevelQ(First) \o t
      PROVE  PlanOK' /\ WorkOK' /\ order' = order
  <2>1. /\ Linked(todo') /\ (Clean(todo') => Clean(t))
        /\ todo' # <<>> /\ Head(todo').first = First /\ Head(todo').do = "drainAll"
    BY <1>2, <1>3, EmptyingLinked
  <2>2. First' = First
    BY <2>1 DEF First
  <2> QED BY <1>1, <1>3, <2>1, <2>2, Handover DEF PlanOK
<1>4. CASE todo = <<>>
  <2>1. <<>> \in Seq(Steps) /\ Linked(<<>>) /\ Nested(<<>>) /\ ~Clean(<<>>)
    BY DEF Linked, Nested, Clean
  <2>2. todo' = EmptyLowLevelQ(First) \o <<>>
    <3>1. EmptyLowLevelQ(First) \in Seq(Steps)
      BY <1>2, StepTypes DEF EmptyLowLevelQ
    <3> QED BY <1>4, <3>1, ConcatEmptySeq DEF SweepEnds
  <2> QED BY <1>3, <2>1, <2>2
<1>5. CASE todo # <<>> /\ Doing("push")
  <2>1. todo' = EmptyLowLevelQ(First) \o todo /\ Head(todo).do = "push"
    BY <1>5 DEF SweepEnds, Doing
  <2>2. todo \in Seq(Steps) /\ Linked(todo) /\ Nested(todo)
    BY <1>5, <2>1, NextStep
  <2> QED BY <1>2, <1>3, <2>1, <2>2
<1>6. ASSUME todo # <<>>, todo' = Tail(todo), Head(todo).do = "drainAll" => Idle(die),
             die.queue["REQ"] = <<>> \/ die.queue["SUB"] = <<>>
      PROVE  PlanOK' /\ WorkOK' /\ order' = order
  <2>1. WorkOK'
    BY <1>1, <1>6, Handover
  <2>2. Linked(todo') /\ (Clean(todo') => Clean(todo))
    BY <1>6, NextStep
  <2>3. todo' # <<>> /\ Head(todo').do = "readTable" => Idle(die)
    <3>1. todo' # <<>> => Head(todo') = todo[2] /\ LinkAt(todo, 2) /\ Head(todo) = todo[1]
      BY <1>6, NextStep
    <3> QED BY <1>6, <3>1 DEF LinkAt
  <2> QED BY <1>1, <1>2, <2>1, <2>2, <2>3 DEF PlanOK, Idle
<1>7. CASE todo # <<>> /\ Doing("drain")
  <2>1. /\ Head(todo).do = "drain" /\ die.empty[Head(todo).queue]
        /\ \/ todo' = EmptyLowLevelQ(First) \o Tail(todo)
           \/ todo' = <<>> \o Tail(todo)
    BY <1>7 DEF SweepEnds, Doing
  <2>2. Head(todo).queue \in Queues
    BY <1>7, FirstTyped DEF OrderInv, BaseInv, Steps
  <2>3. die.queue["REQ"] = <<>> \/ die.queue["SUB"] = <<>>
    BY <1>2, <2>1, <2>2 DEF Queues
  <2>4. /\ Tail(todo) \in Seq(Steps) /\ Linked(Tail(todo)) /\ Nested(Tail(todo))
        /\ (Clean(Tail(todo)) => Clean(todo))
    BY <1>7, <2>1, NextStep
  <2>5. CASE todo' = EmptyLowLevelQ(First) \o Tail(todo)
    BY <1>2, <1>3, <2>4, <2>5
  <2>6. CASE todo' = <<>> \o Tail(todo)
    <3>1. todo' = Tail(todo)
      BY <2>4, <2>6, ConcatEmptySeq
    <3> QED BY <1>6, <1>7, <2>1, <2>3, <3>1
  <2> QED BY <2>1, <2>5, <2>6
<1>8. CASE todo # <<>> /\ Doing("drainAll")
  <2>1. todo' = Tail(todo) /\ Idle(die)
    BY <1>8 DEF SweepEnds, Doing
  <2> QED BY <1>6, <1>8, <2>1 DEF Idle
<1> QED BY <1>4, <1>5, <1>7, <1>8 DEF SweepEnds

\* The table is read.
LEMMA ReadOrder == OrderInv /\ ReadBadBlockTable => PlanOK' /\ WorkOK' /\ order' = order
<1> SUFFICES ASSUME OrderInv, ReadBadBlockTable PROVE PlanOK' /\ WorkOK' /\ order' = order
  OBVIOUS
<1> DEFINE p == <<Push("SUB", "ReadPageTrigger"), DrainAll(First), Relocate(First)>>
           t == Tail(todo)
<1>1. /\ BaseInv' /\ SameWork(die, die') /\ order' = order
      /\ todo # <<>> /\ Head(todo).do = "readTable" /\ todo' = p \o t
  BY ReadBase DEF OrderInv, ReadBadBlockTable, Doing
<1>2. Idle(die) /\ die.queue["REQ"] = <<>>
  BY <1>1 DEF OrderInv, PlanOK, Idle
<1>3. WorkOK'
  BY <1>1, <1>2, Handover
<1>4. t \in Seq(Steps) /\ Linked(t) /\ Nested(t) /\ First \in Queues
  BY <1>1, NextStep
<1>5. /\ p \in Seq(Steps) /\ Len(p) = 3
      /\ Sub(p[1]) /\ p[1].first = "REQ" /\ p[2].do = "drainAll" /\ p[3].do = "relocate"
  BY <1>4, ShortStacks DEF Sub, Push, DrainAll, Relocate, Step, Other, Pushes, Requests
<1> HIDE DEF p, t
<1>6. /\ Len(p \o t) = 3 + Len(t) /\ Len(t) \in Nat /\ p \o t \in Seq(Steps)
      /\ (p \o t)[1] = p[1] /\ (p \o t)[2] = p[2] /\ (p \o t)[3] = p[3]
  <2>1. /\ Len(p \o t) = Len(p) + Len(t) /\ Len(t) \in Nat /\ p \o t \in Seq(Steps)
        /\ \A i \in 1 .. Len(p) : (p \o t)[i] = p[i]
    BY <1>4, <1>5, ConcatSteps
  <2> DEFINE u == p \o t
  <2> HIDE DEF u
  <2>2. Len(u) = Len(p) + Len(t) /\ \A i \in 1 .. Len(p) : u[i] = p[i]
    BY <2>1 DEF u
  <2>3. Len(u) = 3 + Len(t) /\ u[1] = p[1] /\ u[2] = p[2] /\ u[3] = p[3]
    BY <1>5, <2>2
  <2> QED BY <2>1, <2>3 DEF u
<1>7. ASSUME NEW i \in 1 .. Len(p) PROVE LinkAt(p \o t, i)
  <2> DEFINE u == p \o t
  <2>1. /\ 2 < Len(u) /\ Sub(u[1]) /\ u[1].first = "REQ"
        /\ u[2].do = "drainAll" /\ u[3].do = "relocate"
    BY <1>5, <1>6
  <2> HIDE DEF u
  <2>2. LinkAt(u, 1)
    BY <1>6, <2>1 DEF LinkAt, Sub, Other, u
  <2>3. LinkAt(u, 2)
    BY <2>1 DEF LinkAt, Sub
  <2>4. LinkAt(u, 3)
    BY <2>1 DEF LinkAt, Sub
  <2>5. i = 1 \/ i = 2 \/ i = 3
    BY <1>5
  <2> QED BY <2>2, <2>3, <2>4, <2>5 DEF u
<1>8. Linked(todo')
  BY <1>1, <1>4, <1>5, <1>7, LinkedInFront
<1>9. die'.queue["REQ"] = <<>> /\ Idle(die')
  BY <1>1, <1>2 DEF SameWork, Idle
<1> QED BY <1>1, <1>3, <1>8, <1>9 DEF PlanOK

\* Steps that belong to no EmptyLowLevelQ, put in front.
LEMMA NestedInFront ==
    ASSUME NEW p \in Seq(Steps), NEW t \in Seq(Steps), Nested(t),
           \A i \in 1 .. Len(p) : p[i].do \notin {"readTable", "drainAll"}
    PROVE  Nested(p \o t)
<1> DEFINE u == p \o t
<1>1. /\ Len(u) = Len(p) + Len(t) /\ Len(p) \in Nat /\ Len(t) \in Nat
      /\ \A i \in 1 .. Len(p) : u[i] = p[i]
      /\ \A i \in 1 .. Len(t) : u[Len(p) + i] = t[i]
  BY ConcatSteps
<1> HIDE DEF u
<1>2. ASSUME NEW i \in 1 .. Len(t)
      PROVE  /\ u[Len(p) + i].do # "readTable"
             /\ u[Len(p) + i].do = "drainAll"
                   => Len(p) + i < Len(u) /\ u[(Len(p) + i) + 1].do = "relocate"
  <2>1. /\ u[Len(p) + i] = t[i] /\ t[i].do # "readTable"
        /\ t[i].do = "drainAll" => i < Len(t) /\ t[i + 1].do = "relocate"
    BY <1>1 DEF Nested
  <2>2. CASE i < Len(t)
    <3>1. /\ i + 1 \in 1 .. Len(t) /\ (Len(p) + i) + 1 = Len(p) + (i + 1)
          /\ Len(p) + i < Len(u)
      BY <1>1, <2>2
    <3>2. u[(Len(p) + i) + 1] = t[i + 1]
      BY <1>1, <3>1
    <3> QED BY <2>1, <3>1, <3>2
  <2>3. CASE t[i].do # "drainAll"
    BY <2>1, <2>3
  <2> QED BY <2>1, <2>2, <2>3
<1>3. ASSUME NEW i \in 1 .. Len(u)
      PROVE  /\ u[i].do # "readTable"
             /\ u[i].do = "drainAll" => i < Len(u) /\ u[i + 1].do = "relocate"
  <2>1. CASE i <= Len(p)
    <3>1. i \in 1 .. Len(p) /\ u[i] = p[i]
      BY <1>1, <2>1
    <3> QED BY <3>1
  <2>2. CASE ~(i <= Len(p))
    <3>1. i - Len(p) \in 1 .. Len(t) /\ Len(p) + (i - Len(p)) = i
      BY <1>1, <2>2
    <3> QED BY <1>2, <3>1
  <2> QED BY <2>1, <2>2
<1> QED BY <1>3 DEF Nested, u

\* Pushes to the sub-req queue, put in front of more of them or of a relocation.
LEMMA SubsInFront ==
    ASSUME NEW p \in Seq(Steps), NEW t \in Seq(Steps), Linked(t), Nested(t), t # <<>>,
           \A i \in 1 .. Len(p) : Sub(p[i]) /\ p[i].first = "REQ",
           Sub(t[1]) \/ t[1].do = "relocate"
    PROVE  Linked(p \o t)
<1> DEFINE u == p \o t
<1>1. /\ Len(u) = Len(p) + Len(t) /\ Len(p) \in Nat /\ Len(t) \in Nat
      /\ \A i \in 1 .. Len(p) : u[i] = p[i]
      /\ \A i \in 1 .. Len(t) : u[Len(p) + i] = t[i]
  BY ConcatSteps
<1>2. Len(t) # 0
  BY EmptySeq
<1> HIDE DEF u
<1>3. ASSUME NEW i \in 1 .. Len(p) PROVE LinkAt(u, i)
  <2>1. i < Len(u) /\ Sub(u[i]) /\ u[i].first = "REQ"
    BY <1>1, <1>2
  <2>2. Sub(u[i + 1]) \/ u[i + 1].do = "relocate"
    <3>1. CASE i < Len(p)
      <4>1. i + 1 \in 1 .. Len(p)
        BY <1>1, <3>1
      <4> QED BY <1>1, <4>1
    <3>2. CASE ~(i < Len(p))
      <4>1. i + 1 = Len(p) + 1 /\ 1 \in 1 .. Len(t)
        BY <1>1, <1>2, <3>2
      <4> QED BY <1>1, <4>1
    <3> QED BY <3>1, <3>2
  <2> QED BY <2>1, <2>2 DEF LinkAt, Sub, Other
<1> QED BY <1>3, LinkedInFront DEF u

\* The steps that write the table back, put in front.
LEMMA WriteBackLinked ==
    ASSUME NEW t \in Seq(Steps), Linked(t), Nested(t)
    PROVE  LET u == <<Push("SUB", "BlockErase"), Push("SUB", "ProgramPage"), Reserve>> \o t
           IN  u \in Seq(Steps) /\ u # <<>> /\ Linked(u) /\ Nested(u) /\ Sub(u[1])
<1> DEFINE w == <<Push("SUB", "BlockErase"), Push("SUB", "ProgramPage"), Reserve>>
           u == w \o t
<1>1. /\ w \in Seq(Steps) /\ Len(w) = 3
      /\ Sub(w[1]) /\ w[1].first = "REQ" /\ Sub(w[2]) /\ w[2].first = "REQ"
      /\ w[3].do = "reserve" /\ w[3].first = "SUB"
  BY ShortStacks DEF Sub, Push, Reserve, Step, Other, Pushes, Requests
<1> HIDE DEF w
<1>2. /\ u \in Seq(Steps) /\ Len(u) = 3 + Len(t) /\ Len(t) \in Nat
      /\ u[1] = w[1] /\ u[2] = w[2] /\ u[3] = w[3]
  <2>1. /\ u \in Seq(Steps) /\ Len(u) = Len(w) + Len(t) /\ Len(t) \in Nat
        /\ \A i \in 1 .. Len(w) : u[i] = w[i]
    BY <1>1, ConcatSteps
  <2> HIDE DEF u
  <2> QED BY <1>1, <2>1
<1>3. \A i \in 1 .. Len(w) : i = 1 \/ i = 2 \/ i = 3
  BY <1>1
<1> HIDE DEF u
<1>4. LinkAt(u, 1) /\ LinkAt(u, 2) /\ LinkAt(u, 3)
  <2>1. 2 < Len(u)
    BY <1>2
  <2>2. LinkAt(u, 1)
    BY <1>1, <1>2, <2>1 DEF LinkAt, Sub, Other
  <2>3. LinkAt(u, 2)
    BY <1>1, <1>2, <2>1 DEF LinkAt, Sub, Other
  <2>4. LinkAt(u, 3)
    BY <1>1, <1>2, <2>1 DEF LinkAt, Sub, Other
  <2> QED BY <2>2, <2>3, <2>4
<1>5. Linked(u)
  BY <1>1, <1>3, <1>4, LinkedInFront DEF u
<1>6. Nested(u)
  <2>1. \A i \in 1 .. Len(w) : w[i].do \notin {"readTable", "drainAll"}
    BY <1>1, <1>3 DEF Sub
  <2> QED BY <1>1, <2>1, NestedInFront DEF u
<1>7. u # <<>>
  BY <1>2, EmptySeq
<1> QED BY <1>1, <1>2, <1>5, <1>6, <1>7 DEF u, w

\* The blocks found bad are relocated.
LEMMA UpdateOrder == OrderInv /\ UpdateBadBlockTable => PlanOK' /\ WorkOK' /\ order' = order
<1> SUFFICES ASSUME OrderInv, UpdateBadBlockTable PROVE PlanOK' /\ WorkOK' /\ order' = order
  OBVIOUS
<1> DEFINE w == <<Push("SUB", "BlockErase"), Push("SUB", "ProgramPage"), Reserve>>
           e == <<Push("SUB", "BlockErase")>>
<1>1. /\ BaseInv' /\ SameWork(die, die') /\ order' = order
      /\ todo # <<>> /\ Head(todo).do = "relocate"
  BY UpdateBase DEF OrderInv, UpdateBadBlockTable, Doing
<1>2. PICK n \in 0 .. PAGE_NUM_PER_BLOCK :
          todo' = Copies(n) \o e \o (IF die.newBadBlocks > 1 THEN todo ELSE w \o Tail(todo))
  BY DEF UpdateBadBlockTable
<1>3. /\ todo \in Seq(Steps) /\ Linked(todo) /\ Nested(todo) /\ todo[1].do = "relocate"
      /\ Tail(todo) \in Seq(Steps) /\ Linked(Tail(todo)) /\ Nested(Tail(todo))
      /\ Len(todo) \in Nat \ {0}
  BY <1>1, NextStep
<1>4. die.queue["REQ"] = <<>>
  BY <1>3 DEF OrderInv, PlanOK, Clean
<1>5. WorkOK'
  BY <1>1, <1>4, Handover
<1>6. /\ Copies(n) \o e \in Seq(Steps) /\ Len(Copies(n) \o e) \in Nat \ {0}
      /\ \A i \in 1 .. Len(Copies(n) \o e) :
            Sub((Copies(n) \o e)[i]) /\ (Copies(n) \o e)[i].first = "REQ"
  <2> DEFINE c == Copies(n)
             p == c \o e
             m == 2 * n
  <2>1. n \in Nat
    BY DepthAssumption
  <2>2. m \in Nat
    BY <2>1
  <2>3. \A r \in Pushes : Sub(Push("SUB", r)) /\ Push("SUB", r).first = "REQ"
    BY DEF Sub, Push, Step, Other
  <2>4. /\ c \in Seq(Steps) /\ Len(c) = m
        /\ \A i \in 1 .. m : \E r \in Pushes : c[i] = Push("SUB", r)
    BY <2>1, CopiesFacts
  <2>5. e \in Seq(Steps) /\ Len(e) = 1 /\ e[1] = Push("SUB", "BlockErase")
    BY StepTypes DEF Queues, Requests
  <2>6. \A i \in 1 .. m : Sub(c[i]) /\ c[i].first = "REQ"
    BY <2>3, <2>4
  <2> HIDE DEF m, c, e
  <2>7. /\ p \in Seq(Steps) /\ Len(p) = Len(c) + Len(e)
        /\ \A i \in 1 .. Len(c) : p[i] = c[i]
        /\ \A i \in 1 .. Len(e) : p[Len(c) + i] = e[i]
    BY <2>4, <2>5, ConcatSteps
  <2> HIDE DEF p
  <2>8. ASSUME NEW i \in 1 .. Len(p) PROVE Sub(p[i]) /\ p[i].first = "REQ"
    <3>1. CASE i <= m
      <4>1. i \in 1 .. m
        BY <3>1
      <4> QED BY <2>4, <2>6, <2>7, <4>1
    <3>2. CASE ~(i <= m)
      <4>1. i = m + 1
        BY <2>2, <2>4, <2>5, <2>7, <3>2
      <4>2. p[m + 1] = e[1]
        BY <2>4, <2>5, <2>7
      <4> QED BY <2>3, <2>5, <4>1, <4>2 DEF Pushes, Requests
    <3> QED BY <3>1, <3>2
  <2>9. Len(p) \in Nat \ {0}
    BY <2>2, <2>4, <2>5, <2>7
  <2> QED BY <2>7, <2>8, <2>9 DEF p, c
<1> DEFINE p == Copies(n) \o e
<1> HIDE DEF p, e
<1>7. ASSUME NEW t \in Seq(Steps), Linked(t), Nested(t), t # <<>>,
             Sub(t[1]) \/ t[1].do = "relocate", todo' = p \o t
      PROVE  PlanOK'
  <2>1. Linked(todo')
    BY <1>6, <1>7, SubsInFront DEF p
  <2>2. todo' \in Seq(Steps) /\ Len(todo') = Len(p) + Len(t) /\ Len(t) \in Nat
        /\ \A i \in 1 .. Len(p) : todo'[i] = p[i]
    BY <1>6, <1>7, ConcatSteps DEF p
  <2>3. 1 \in 1 .. Len(p) /\ Sub(p[1]) /\ Len(todo') # 0
    BY <1>6, <2>2 DEF p
  <2>4. todo' # <<>> /\ Head(todo') = todo'[1] /\ Sub(todo'[1])
    BY <2>2, <2>3, EmptySeq, HeadTailProperties
  <2> QED BY <1>1, <1>4, <2>1, <2>4 DEF PlanOK, SameWork, Sub
<1>8. CASE die.newBadBlocks > 1
  <2>1. todo' = p \o todo
    BY <1>2, <1>8 DEF p
  <2> QED BY <1>1, <1>3, <1>5, <1>7, <2>1
<1>9. CASE ~(die.newBadBlocks > 1)
  <2>1. /\ w \o Tail(todo) \in Seq(Steps) /\ w \o Tail(todo) # <<>>
        /\ Linked(w \o Tail(todo)) /\ Nested(w \o Tail(todo)) /\ Sub((w \o Tail(todo))[1])
    BY <1>3, WriteBackLinked
  <2> HIDE DEF w
  <2>2. todo' = p \o (w \o Tail(todo))
    BY <1>2, <1>9 DEF p
  <2> QED BY <1>1, <1>5, <1>7, <2>1, <2>2
<1> QED BY <1>1, <1>5, <1>8, <1>9

\* A request that is pushed waits behind those of its queue.
LEMMA StrictPush ==
    ASSUME NEW s \in DieType, Sound(s), Strict(s), NEW t, NEW q \in Queues,
           NEW r \in Pushes, Grown(s, t, q, r),
           NEW f \in Queues, f # q, Selected(s, f)
    PROVE  Strict(t) /\ Selected(t, f)
<1> USE DEF Grown
<1>1. \A p \in Queues : Len(s.queue[p]) \in Nat
  BY QueueLengths
<1>2. \A p \in Queues : \A i \in 1 .. Len(s.queue[p]) :
         Pristine(s.queue[p][i]) \/ (s.list # "idle" /\ p = s.queueSelect /\ i = 1)
  BY DEF Strict
<1>3. \A p \in Queues : \A i \in 1 .. Len(t.queue[p]) :
         Pristine(t.queue[p][i]) \/ (t.list # "idle" /\ p = t.queueSelect /\ i = 1)
  <2>1. ASSUME NEW i \in 1 .. Len(t.queue[q])
        PROVE  Pristine(t.queue[q][i]) \/ (t.list # "idle" /\ q = t.queueSelect /\ i = 1)
    <3>1. CASE i = Len(s.queue[q]) + 1
      BY <3>1 DEF Pristine, Pushes
    <3>2. CASE i # Len(s.queue[q]) + 1
      <4>1. i \in 1 .. Len(s.queue[q])
        BY <3>2
      <4> QED BY <1>2, <4>1
    <3> QED BY <3>1, <3>2
  <2>2. \A p \in Queues \ {q} : t.queue[p] = s.queue[p]
    OBVIOUS
  <2>3. t.list = s.list /\ t.queueSelect = s.queueSelect
    OBVIOUS
  <2> QED BY <1>2, <2>1, <2>2, <2>3
<1>4. s.list # "idle" => Front(t, t.queueSelect) = Front(s, s.queueSelect)
  <2> SUFFICES ASSUME s.list # "idle"
               PROVE  Front(t, s.queueSelect) = Front(s, s.queueSelect)
    OBVIOUS
  <2>1. s.queueSelect \in Queues /\ s.queue[s.queueSelect] # <<>>
    BY DEF Sound, DieType
  <2>2. CASE s.queueSelect = q
    <3>1. Front(s, q) = s.queue[q][1] /\ Len(s.queue[q]) \in Nat \ {0}
      BY <2>1, <2>2, FrontAndRest
    <3>2. t \in DieType /\ t.queue[q] # <<>>
      OBVIOUS
    <3>3. Front(t, q) = t.queue[q][1]
      BY <3>2, FrontAndRest
    <3>4. t.queue[q][1] = s.queue[q][1]
      BY <3>1
    <3> QED BY <2>2, <3>1, <3>3, <3>4
  <2>3. CASE s.queueSelect # q
    BY <2>1, <2>3 DEF Front
  <2> QED BY <2>2, <2>3
<1>5. /\ t.list = s.list /\ t.queueSelect = s.queueSelect /\ t.owner = s.owner
      /\ t.dieStatus = s.dieStatus /\ t.fresh = s.fresh /\ t.queue[f] = s.queue[f]
  OBVIOUS
<1> HIDE DEF Grown
<1>6. s.dieStatus # "IDLE" => s.list # "idle"
  BY DEF Strict
<1>7. Strict(t)
  BY <1>3, <1>4, <1>5, <1>6 DEF Strict, Starts
<1>8. Selected(t, f)
  BY <1>5 DEF Selected
<1> QED BY <1>7, <1>8

\* After a push the same queue goes first, or the req queue is empty.
LEMMA FirstAfterPush ==
    ASSUME OrderInv, PushRequest
    PROVE  LET q == Head(todo).queue
           IN  /\ q \in Queues /\ Head(todo).request \in Pushes /\ First = Other(q)
               /\ todo # <<>> /\ todo' = Tail(todo) /\ Linked(todo')
               /\ First' = First \/ (q = "SUB" /\ die.queue["REQ"] = <<>>)
               /\ Clean(todo') => q = "SUB" /\ die.queue["REQ"] = <<>>
               /\ todo' # <<>> => Head(todo').do # "readTable"
<1> DEFINE q == Head(todo).queue
<1>1. todo # <<>> /\ Head(todo).do = "push" /\ todo' = Tail(todo)
  BY DEF PushRequest, Doing
<1>2. /\ todo \in Seq(Steps) /\ Head(todo) = todo[1] /\ Len(todo) \in Nat \ {0}
      /\ Len(Tail(todo)) = Len(todo) - 1
      /\ \A i \in 1 .. Len(Tail(todo)) : Tail(todo)[i] = todo[i + 1]
      /\ First = todo[1].first /\ \A i \in 1 .. Len(todo) : LinkAt(todo, i)
      /\ Linked(Tail(todo)) /\ (Clean(Tail(todo)) => Clean(todo))
      /\ Tail(todo) # <<>> => Head(Tail(todo)) = todo[2]
      /\ Tail(todo) = <<>> <=> Len(todo) = 1
  BY <1>1, NextStep
<1>3. q \in Queues
  BY <1>1, FirstTyped DEF OrderInv, BaseInv, Steps
<1>4. LinkAt(todo, 1) /\ todo[1].do = "push"
  BY <1>1, <1>2
<1>5. First = Other(q) /\ todo[1].request \in Pushes /\ 1 < Len(todo)
  BY <1>2, <1>4 DEF LinkAt
<1>6. LinkAt(todo, 2) /\ 2 \in 1 .. Len(todo)
  BY <1>2, <1>5
<1>7. Tail(todo) # <<>>
  <2>1. Len(todo) # 1
    BY <1>2, <1>5
  <2> QED BY <1>2, <2>1
<1>8. First' = todo[2].first
  BY <1>1, <1>2, <1>7 DEF First
<1>9. Clean(todo) => die.queue["REQ"] = <<>>
  BY DEF OrderInv, PlanOK
<1>10. todo[2].do # "readTable"
  BY <1>4, <1>6 DEF LinkAt
<1>11. CASE q = "REQ"
  <2>1. 2 = Len(todo) /\ todo[2].do = "reserve"
    <3>1. 1 + 1 = 2 /\ todo[1].queue = "REQ"
      BY <1>2, <1>11
    <3> QED BY <1>4, <3>1 DEF LinkAt
  <2>2. First' = "SUB" /\ First = "SUB"
    BY <1>5, <1>6, <1>8, <1>11, <2>1 DEF LinkAt, Other
  <2>3. ~Clean(Tail(todo))
    <3> DEFINE t == Tail(todo)
    <3>1. Len(t) = Len(todo) - 1 /\ \A i \in 1 .. Len(t) : t[i] = todo[i + 1]
      BY <1>2
    <3> HIDE DEF t
    <3>2. Len(t) = 1 /\ t[1].do = "reserve"
      BY <2>1, <3>1
    <3>3. ~Clean(t)
      BY <3>2 DEF Clean
    <3> QED BY <3>3 DEF t
  <2> QED BY <1>1, <1>2, <1>3, <1>5, <1>7, <1>10, <2>2, <2>3
<1>12. CASE q = "SUB"
  <2>1. Sub(todo[1]) /\ First = "REQ"
    BY <1>2, <1>4, <1>5, <1>12 DEF Sub, Other
  <2>2. \/ Sub(todo[2])
        \/ todo[2].do = "drain" /\ todo[2].queue = "REQ"
        \/ todo[2].do \in {"reserve", "drainAll", "relocate"}
    <3>1. 1 + 1 = 2
      OBVIOUS
    <3> QED BY <1>4, <2>1, <3>1 DEF LinkAt
  <2>3. CASE Sub(todo[2]) \/ (todo[2].do = "drain" /\ todo[2].queue = "REQ")
    <3>1. todo[2].first = "REQ"
      BY <1>6, <2>3 DEF LinkAt, Sub, Other
    <3> QED BY <1>1, <1>2, <1>3, <1>5, <1>7, <1>8, <1>9, <1>10, <1>12, <2>1, <3>1
  <2>4. CASE todo[2].do \in {"reserve", "drainAll", "relocate"}
    <3>1. Clean(todo)
      <4>1. CASE todo[2].do = "reserve"
        <5>1. 2 > 1 /\ 2 - 1 = 1
          OBVIOUS
        <5> QED BY <1>6, <2>1, <4>1, <5>1 DEF Clean
      <4>2. CASE todo[2].do = "relocate"
        BY <1>6, <4>2 DEF Clean
      <4>3. CASE todo[2].do = "drainAll"
        <5>1. 2 < Len(todo) /\ todo[2 + 1].do = "relocate"
          BY <1>6, <4>3 DEF LinkAt
        <5>2. 2 + 1 \in 1 .. Len(todo)
          BY <1>2, <5>1
        <5> QED BY <5>1, <5>2 DEF Clean
      <4> QED BY <2>4, <4>1, <4>2, <4>3
    <3> QED BY <1>1, <1>2, <1>3, <1>5, <1>7, <1>9, <1>10, <1>12, <3>1
  <2> QED BY <2>2, <2>3, <2>4
<1> QED BY <1>3, <1>11, <1>12 DEF Queues

\* A push.
LEMMA PushOrder == OrderInv /\ PushRequest => PlanOK' /\ WorkOK' /\ Len(order') = Len(order) + 1
<1> SUFFICES ASSUME OrderInv, PushRequest
             PROVE  PlanOK' /\ WorkOK' /\ Len(order') = Len(order) + 1
  OBVIOUS
<1> DEFINE q == Head(todo).queue
           r == Head(todo).request
<1>1. die' = Pushed(die, q, r) /\ order' = Append(order, q)
  BY DEF PushRequest, Pushed
<1>2. /\ q \in Queues /\ r \in Pushes /\ First = Other(q)
      /\ First' = First \/ (q = "SUB" /\ die.queue["REQ"] = <<>>)
      /\ Linked(todo')
      /\ Clean(todo') => q = "SUB" /\ die.queue["REQ"] = <<>>
      /\ todo' # <<>> => Head(todo').do # "readTable"
  BY FirstAfterPush
<1> HIDE DEF q, r
<1>3. /\ die \in DieType /\ Sound(die) /\ Strict(die)
      /\ Selected(die, First) /\ OrderOK(order, die, First)
  BY DEF OrderInv, BaseInv, DieOK, WorkOK
<1>4. r \in Requests /\ First \in Queues /\ q = Other(First) /\ First # q
  BY <1>2, TwoQueues DEF Pushes
<1>5. Grown(die, die', q, r)
  BY <1>1, <1>2, <1>3, <1>4, PushFacts
<1>6. Strict(die') /\ Selected(die', First)
  BY <1>2, <1>3, <1>4, <1>5, StrictPush
<1>7. OrderOK(order', die', First)
  BY <1>1, <1>3, <1>4, <1>5, OrderPush
<1>8. q = "SUB" /\ die.queue["REQ"] = <<>> => die'.queue["REQ"] = <<>>
  BY <1>5 DEF Grown, Queues
<1>9. BaseInv'
  BY PushBase DEF OrderInv
<1>10. die' \in DieType /\ Sound(die') /\ First' \in Queues
  <2>1. First' \in Queues
    <3>1. todo' # <<>> => Head(todo') \in Steps
      BY <1>9, TailSteps DEF BaseInv, TodoOK
    <3> QED BY <3>1 DEF First, Steps, Queues
  <2> QED BY <1>9, <2>1 DEF BaseInv, DieOK
<1>11. Selected(die', First') /\ OrderOK(order', die', First')
  BY <1>2, <1>4, <1>6, <1>7, <1>8, <1>10, EitherFirst
<1>12. WorkOK'
  BY <1>6, <1>11 DEF WorkOK
<1>13. PlanOK'
  BY <1>2, <1>8 DEF PlanOK
<1>14. Len(order') = Len(order) + 1
  <2>1. order \in Seq(Queues)
    BY <1>3 DEF OrderOK
  <2> QED BY <1>1, <1>2, <2>1, AppendProperties
<1> QED BY <1>12, <1>13, <1>14

\* Initially nothing is queued.
LEMMA InitOrder == Init => OrderInv
<1> SUFFICES ASSUME Init PROVE OrderInv
  OBVIOUS
<1>1. /\ BaseInv /\ die.queue = [q \in Queues |-> <<>>]
      /\ die.list = "idle" /\ die.dieStatus = "IDLE" /\ todo = <<>> /\ order = <<>>
  BY InitBase DEF Init
<1>2. PlanOK
  BY <1>1 DEF PlanOK, Linked, Clean
<1>3. Strict(die)
  <2>1. \A q \in Queues : Len(die.queue[q]) = 0
    BY <1>1
  <2> QED BY <1>1, <2>1 DEF Strict, Starts
<1>4. Selected(die, First)
  BY <1>1 DEF Selected
<1>5. OrderOK(order, die, First)
  <2>1. order \in Seq(Queues) /\ Len(order) = 0
    BY <1>1
  <2>2. Len(die.queue["REQ"]) = 0 /\ Len(die.queue["SUB"]) = 0
    BY <1>1 DEF Queues
  <2> QED BY <2>1, <2>2 DEF OrderOK
<1> QED BY <1>1, <1>2, <1>3, <1>4, <1>5 DEF OrderInv, WorkOK

\* Every step of a device whose host runs no joins keeps the order.
LEMMA NextOrder ==
    ASSUME OrderInv, [Next]_vars, Joins = FALSE
    PROVE  OrderInv' /\ (order' = order \/ order' = Tail(order) \/ Len(order') = Len(order) + 1)
<1>1. BaseInv'
  BY NextBase DEF OrderInv
<1>2. CASE UNCHANGED vars
  <2>1. die' = die /\ todo' = todo /\ order' = order
    BY <1>2 DEF vars
  <2>2. First' = First
    BY <2>1 DEF First
  <2> QED BY <1>1, <2>1, <2>2 DEF OrderInv, PlanOK, WorkOK, Idle
<1>3. CASE Command
  <2>1. order' = order
    BY <1>3 DEF Command
  <2> QED BY <1>1, <1>3, <2>1, CommandOrder DEF OrderInv
<1>4. CASE Sweep
  BY <1>1, <1>4, SweepOrder DEF OrderInv
<1>5. CASE PushRequest
  BY <1>1, <1>5, PushOrder DEF OrderInv
<1>6. CASE SweepNothing \/ SweepEnds \/ ReadBadBlockTable \/ UpdateBadBlockTable
           \/ ReserveRequests \/ Nand
  <2>1. PlanOK' /\ WorkOK' /\ order' = order
    BY <1>6, SweepNothingOrder, SweepEndsOrder, ReadOrder, UpdateOrder, ReserveOrder, NandOrder
  <2> QED BY <1>1, <2>1 DEF OrderInv
<1> QED BY <1>2, <1>3, <1>4, <1>5, <1>6 DEF Next, Firmware

\* Without joins the unfinished requests of a die are at all times those of the
\* queue that the running routine favours, oldest first, and then those of the
\* other.
THEOREM OrderKept == ASSUME Joins = FALSE PROVE Spec => []OrderInv
<1>1. Init => OrderInv
  BY InitOrder
<1>2. OrderInv /\ [Next]_vars => OrderInv'
  BY NextOrder
<1> QED BY <1>1, <1>2, PTL DEF Spec

\* The request under execution is the oldest unfinished one of its die, for
\* hosts that run no joins: whichever routine sweeps, and whatever fails, no
\* command comes between the trigger and the transfer of a read.
THEOREM IssueOrderKept == ASSUME Joins = FALSE PROVE Spec => []InIssueOrder
<1>1. OrderInv => InIssueOrder
  <2> SUFFICES ASSUME OrderInv, NEW q \in Queues, Executing(q)
               PROVE  Head(order) = q
    BY DEF InIssueOrder
  <2>1. /\ die \in DieType /\ Sound(die) /\ Strict(die) /\ First \in Queues
        /\ Selected(die, First) /\ OrderOK(order, die, First)
    BY FirstTyped DEF OrderInv, BaseInv, DieOK, WorkOK
  <2>2. CASE die.dieStatus # "IDLE" /\ die.owner = q
    <3>1. die.list # "idle" /\ die.queueSelect = q
      BY <2>1, <2>2 DEF Strict
    <3> QED BY <2>1, <3>1, OldestSelected
  <2>3. CASE die.queue[q] # <<>> /\ Front(die, q).request = "ReadPageTransfer"
    <3>1. Front(die, q) = die.queue[q][1] /\ Len(die.queue[q]) \in Nat \ {0}
      BY <2>1, <2>3, FrontAndRest
    <3>2. 1 \in 1 .. Len(die.queue[q]) /\ ~Pristine(die.queue[q][1])
      BY <2>3, <3>1 DEF Pristine
    <3>3. die.list # "idle" /\ die.queueSelect = q
      BY <2>1, <3>2 DEF Strict
    <3> QED BY <2>1, <3>3, OldestSelected
  <2> QED BY <2>2, <2>3 DEF Executing
<1> QED BY <1>1, OrderKept, PTL

\* Requests end in the order in which they were pushed, for hosts that run no
\* joins.
THEOREM FinishOrderKept == ASSUME Joins = FALSE PROVE Spec => FinishInOrder
<1>1. OrderInv /\ [Next]_vars => [Len(order') < Len(order) => order' = Tail(order)]_vars
  <2> SUFFICES ASSUME OrderInv, [Next]_vars, Len(order') < Len(order)
               PROVE  order' = Tail(order)
    OBVIOUS
  <2>1. Len(order) \in Nat
    BY LenProperties DEF OrderInv, WorkOK, OrderOK
  <2>2. order' = order \/ order' = Tail(order) \/ Len(order') = Len(order) + 1
    BY NextOrder
  <2>3. order' # order /\ Len(order') # Len(order) + 1
    BY <2>1
  <2> QED BY <2>2, <2>3
<1> QED BY <1>1, OrderKept, PTL DEF Spec, FinishInOrder

\* The status that ends or repeats a request was asked for after the command
\* it judges, for hosts that run no joins.
THEOREM StatusFresh == ASSUME Joins = FALSE PROVE Spec => []FreshStatus
<1>1. OrderInv => FreshStatus
  BY DEF OrderInv, WorkOK, Strict, FreshStatus
<1> QED BY <1>1, OrderKept, PTL

\* Every value stays of its type, the history included, for hosts that run no
\* joins.
THEOREM QueuesTyped == ASSUME Joins = FALSE PROVE Spec => []TypeOK
<1>1. OrderInv => TypeOK
  BY DEF OrderInv, BaseInv, DieOK, TodoOK, WorkOK, OrderOK, TypeOK
<1> QED BY <1>1, OrderKept, PTL

=============================================================================
