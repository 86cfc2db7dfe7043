---------------------------- MODULE HostDmaProofs ----------------------------
(***************************************************************************)
(* For every width of the counters: the driver is never a full lap ahead   *)
(* of the hardware, and its answer about an entry is exact.                *)
(*                                                                         *)
(* The invariant ties the counters to the totals they abbreviate.  A total *)
(* is the pair of its lap and its counter; Laps says that totals are       *)
(* ordered as such pairs are, which makes DoneExactly a matter of linear   *)
(* arithmetic on laps and counters.                                        *)
(***************************************************************************)
EXTENDS HostDma, TLAPS

\* What the counters stand for.
Counters ==
    /\ issued = COUNT * overFlowCnt + fifoTail
    /\ \A e \in Entries : recorded[e] = COUNT * dmaLap[e] + dmaTail[e]
    /\ \A e \in Entries : recorded[e] <= issued

DmaInv == TypeOK /\ NeverALapAhead /\ Counters /\ ReleasedAfterTransfer

-----------------------------------------------------------------------------
\* A total is its lap and its counter.
LEMMA Divided ==
    ASSUME NEW n \in Nat
    PROVE  /\ n \div COUNT \in Nat
           /\ n % COUNT \in 0 .. COUNT - 1
           /\ n = COUNT * (n \div COUNT) + (n % COUNT)
BY CountAssumption

\* A whole lap outweighs every counter.
LEMMA LapOutweighs ==
    ASSUME NEW a \in Nat, NEW b \in Nat, a > b,
           NEW x \in 0 .. COUNT - 1, NEW y \in 0 .. COUNT - 1
    PROVE  COUNT * a + x > COUNT * b + y
<1> DEFINE d == a - b - 1
<1>1. d \in Nat /\ a = b + 1 + d
  OBVIOUS
<1> HIDE DEF d
<1>2. COUNT * a = COUNT * b + COUNT + COUNT * d
  BY <1>1, CountAssumption
<1>3. COUNT * d \in Nat /\ COUNT * b \in Nat
  BY <1>1, CountAssumption
<1>4. QED
  BY <1>2, <1>3, CountAssumption

\* Totals are ordered by lap, then by counter.
LEMMA Laps ==
    ASSUME NEW a \in Nat, NEW b \in Nat,
           NEW x \in 0 .. COUNT - 1, NEW y \in 0 .. COUNT - 1
    PROVE  (COUNT * a + x >= COUNT * b + y) <=> (a > b \/ (a = b /\ x >= y))
<1>0. COUNT * a \in Nat /\ COUNT * b \in Nat
  BY CountAssumption
<1>1. CASE a > b
  BY <1>1, <1>0, LapOutweighs
<1>2. CASE b > a
  <2>1. COUNT * b + y > COUNT * a + x
    BY <1>2, LapOutweighs
  <2>2. QED
    BY <2>1, <1>0, <1>2, CountAssumption
<1>3. CASE a = b
  <2>1. COUNT * a = COUNT * b
    BY <1>3
  <2>2. QED
    BY <2>1, <1>0, <1>3, CountAssumption
<1>4. QED
  BY <1>1, <1>2, <1>3

\* The counter after one more transfer, and whether it starts a lap.
LEMMA OneMore ==
    ASSUME NEW t \in 0 .. COUNT - 1
    PROVE  /\ Bump(t) \in 0 .. COUNT - 1
           /\ Bump(t) = IF t = COUNT - 1 THEN 0 ELSE t + 1
           /\ Wrapped(t, Bump(t)) <=> t = COUNT - 1
BY CountAssumption DEF Bump, Wrapped

-----------------------------------------------------------------------------
\* The answer of check_auto_*_dma_partial_done (host_lld.c:462), on laps and
\* counters: the hardware is at most one lap behind, and a part was issued no
\* later than now.
LEMMA AnswerByLaps ==
    ASSUME NEW lap \in Nat, NEW tail \in 0 .. COUNT - 1,
           NEW headLap \in Nat, NEW head \in 0 .. COUNT - 1,
           NEW assist \in Nat, NEW tailIndex \in 0 .. COUNT - 1,
           lap > headLap \/ (lap = headLap /\ tail >= head),
           headLap + 1 > lap \/ (headLap + 1 = lap /\ head > tail),
           lap > assist \/ (lap = assist /\ tail >= tailIndex)
    PROVE  PartialDone(head, tail, tailIndex, lap, assist)
               <=> (headLap > assist \/ (headLap = assist /\ head >= tailIndex))
BY CountAssumption DEF PartialDone

\* Under the invariant the answer about a recorded entry is exact.
LEMMA Exact ==
    ASSUME DmaInv, NEW e \in Entries
    PROVE  EntryDone(e) <=> completed >= recorded[e]
<1> DEFINE headLap == completed \div COUNT
           head == completed % COUNT
<1>1. /\ headLap \in Nat /\ head \in 0 .. COUNT - 1
      /\ completed = COUNT * headLap + head
  BY Divided DEF DmaInv, TypeOK
<1>2. /\ overFlowCnt \in Nat /\ fifoTail \in 0 .. COUNT - 1
      /\ dmaLap[e] \in Nat /\ dmaTail[e] \in 0 .. COUNT - 1
      /\ issued = COUNT * overFlowCnt + fifoTail
      /\ recorded[e] = COUNT * dmaLap[e] + dmaTail[e]
      /\ recorded[e] <= issued
      /\ completed <= issued /\ issued < completed + COUNT
      /\ issued \in Nat /\ completed \in Nat /\ recorded[e] \in Nat
  BY DEF DmaInv, TypeOK, Counters, NeverALapAhead
<1>3. EntryDone(e) = PartialDone(head, fifoTail, dmaTail[e], overFlowCnt, dmaLap[e])
  BY DEF EntryDone, HeadRegister
<1> HIDE DEF headLap, head
<1>4. overFlowCnt > headLap \/ (overFlowCnt = headLap /\ fifoTail >= head)
  <2>1. COUNT * overFlowCnt + fifoTail >= COUNT * headLap + head
    BY <1>1, <1>2
  <2>2. QED
    BY <2>1, <1>1, <1>2, Laps
<1>5. headLap + 1 > overFlowCnt \/ (headLap + 1 = overFlowCnt /\ head > fifoTail)
  <2>1. COUNT * (headLap + 1) = COUNT * headLap + COUNT
    BY <1>1, CountAssumption
  <2>2. ~ (COUNT * overFlowCnt + fifoTail >= COUNT * (headLap + 1) + head)
    <3>1. issued < COUNT * (headLap + 1) + head
      BY <2>1, <1>1, <1>2, CountAssumption
    <3>2. QED
      BY <3>1, <1>1, <1>2, CountAssumption
  <2>3. headLap + 1 \in Nat
    BY <1>1
  <2>4. ~ (overFlowCnt > headLap + 1 \/ (overFlowCnt = headLap + 1 /\ fifoTail >= head))
    BY <2>2, <2>3, <1>1, <1>2, Laps
  <2>5. QED
    BY <2>4, <1>1, <1>2, CountAssumption
<1>6. overFlowCnt > dmaLap[e] \/ (overFlowCnt = dmaLap[e] /\ fifoTail >= dmaTail[e])
  <2>1. COUNT * overFlowCnt + fifoTail >= COUNT * dmaLap[e] + dmaTail[e]
    BY <1>2
  <2>2. QED
    BY <2>1, <1>2, Laps
<1>7. completed >= recorded[e]
          <=> (headLap > dmaLap[e] \/ (headLap = dmaLap[e] /\ head >= dmaTail[e]))
  BY <1>1, <1>2, Laps
<1>8. QED
  BY <1>1, <1>2, <1>3, <1>4, <1>5, <1>6, <1>7, AnswerByLaps

-----------------------------------------------------------------------------
\* The counters start at zero.
LEMMA InitDma == Init => DmaInv
BY CountAssumption, BoundAssumption
   DEF Init, DmaInv, TypeOK, NeverALapAhead, Counters, ReleasedAfterTransfer

\* The room the driver waits for keeps the hardware within a lap.
LEMMA RoomMeansRoom ==
    ASSUME DmaInv, HasRoom
    PROVE  issued + 1 < completed + COUNT
<1> DEFINE headLap == completed \div COUNT
           head == completed % COUNT
<1>1. /\ headLap \in Nat /\ head \in 0 .. COUNT - 1
      /\ completed = COUNT * headLap + head
  BY Divided DEF DmaInv, TypeOK
<1>2. /\ overFlowCnt \in Nat /\ fifoTail \in 0 .. COUNT - 1
      /\ issued = COUNT * overFlowCnt + fifoTail
      /\ completed <= issued /\ issued < completed + COUNT
      /\ issued \in Nat /\ completed \in Nat
  BY DEF DmaInv, TypeOK, Counters, NeverALapAhead
<1>3. Bump(fifoTail) # head
  BY DEF HasRoom, HeadRegister
<1> HIDE DEF headLap, head
<1>4. SUFFICES ASSUME issued + 1 = completed + COUNT
               PROVE  FALSE
  BY <1>2, CountAssumption
<1>5. COUNT * (headLap + 1) = COUNT * headLap + COUNT
  BY <1>1, CountAssumption
<1>6. COUNT * (overFlowCnt + 1) = COUNT * overFlowCnt + COUNT
  BY <1>2, CountAssumption
<1>7. /\ COUNT * overFlowCnt \in Nat /\ COUNT * headLap \in Nat
      /\ headLap + 1 \in Nat /\ overFlowCnt + 1 \in Nat
  BY <1>1, <1>2, CountAssumption
<1>8. COUNT * overFlowCnt + fifoTail + 1 = COUNT * (headLap + 1) + head
  BY <1>1, <1>2, <1>4, <1>5, <1>7, CountAssumption
<1>9. CASE fifoTail = COUNT - 1
  <2>1. COUNT * (overFlowCnt + 1) + 0 = COUNT * (headLap + 1) + head
    BY <1>8, <1>6, <1>9, <1>7, <1>1, CountAssumption
  <2>2. head = 0
    <3>1. 0 \in 0 .. COUNT - 1
      BY CountAssumption
    <3>2. overFlowCnt + 1 > headLap + 1 \/ (overFlowCnt + 1 = headLap + 1 /\ 0 >= head)
      BY <2>1, <3>1, <1>7, <1>1, Laps, CountAssumption
    <3>3. headLap + 1 > overFlowCnt + 1 \/ (overFlowCnt + 1 = headLap + 1 /\ head >= 0)
      BY <2>1, <3>1, <1>7, <1>1, Laps, CountAssumption
    <3>4. QED
      BY <3>2, <3>3, <1>1, <1>2
  <2>3. QED
    BY <2>2, <1>3, <1>9, <1>2, OneMore, CountAssumption
<1>10. CASE fifoTail # COUNT - 1
  <2>1. fifoTail + 1 \in 0 .. COUNT - 1
    BY <1>10, <1>2, CountAssumption
  <2>2. COUNT * overFlowCnt + (fifoTail + 1) = COUNT * (headLap + 1) + head
    BY <1>8, <1>7, <1>1, <1>2
  <2>3. overFlowCnt > headLap + 1 \/ (overFlowCnt = headLap + 1 /\ fifoTail + 1 >= head)
    BY <2>1, <2>2, <1>7, <1>1, <1>2, Laps, CountAssumption
  <2>4. headLap + 1 > overFlowCnt \/ (headLap + 1 = overFlowCnt /\ head >= fifoTail + 1)
    BY <2>1, <2>2, <1>7, <1>1, <1>2, Laps, CountAssumption
  <2>5. head = fifoTail + 1
    BY <2>3, <2>4, <1>1, <1>2
  <2>6. QED
    BY <2>5, <1>3, <1>10, <1>2, OneMore
<1>11. QED
  BY <1>9, <1>10

\* Every step keeps the invariant.
LEMMA StepDma == DmaInv /\ [Next]_dvars => DmaInv'
<1> SUFFICES ASSUME DmaInv, [Next]_dvars
             PROVE  DmaInv'
  OBVIOUS
<1> USE CountAssumption, BoundAssumption
<1>1. ASSUME NEW e \in Entries, NEW sectors \in 1 .. MaxPart, StartPart(e, sectors)
      PROVE  DmaInv'
  BY <1>1 DEF StartPart, DmaInv, TypeOK, NeverALapAhead, Counters, ReleasedAfterTransfer, records
<1>2. ASSUME SetAutoDma
      PROVE  DmaInv'
  <2>1. issued + 1 < completed + COUNT
    BY <1>2, RoomMeansRoom DEF SetAutoDma
  <2>2. /\ issued' = issued + 1 /\ completed' = completed
        /\ fifoTail' = Bump(fifoTail) /\ fifoHead' = HeadRegister
        /\ overFlowCnt' = IF fifoTail = COUNT - 1 THEN overFlowCnt + 1 ELSE overFlowCnt
        /\ fifoTail' = IF fifoTail = COUNT - 1 THEN 0 ELSE fifoTail + 1
        /\ fifoTail' \in 0 .. COUNT - 1
    BY <1>2, OneMore DEF SetAutoDma, DmaInv, TypeOK
  <2>3. issued' = COUNT * overFlowCnt' + fifoTail'
    <3>1. COUNT * (overFlowCnt + 1) = COUNT * overFlowCnt + COUNT /\ COUNT * overFlowCnt \in Nat
      BY DEF DmaInv, TypeOK
    <3>2. QED
      BY <3>1, <2>2 DEF DmaInv, TypeOK, Counters
  <2>4. loop.entry \in Entries /\ loop.left \in 1 .. MaxPart
    BY <1>2 DEF SetAutoDma, DmaInv, TypeOK
  <2>5. loop' \in [entry : Entries, left : 0 .. MaxPart]
    <3>1. loop' = [loop EXCEPT !.left = loop.left - 1]
      BY <1>2 DEF SetAutoDma
    <3>2. QED
      BY <3>1, <2>4 DEF DmaInv, TypeOK
  <2>6. fifoHead' \in 0 .. COUNT - 1
    BY <2>2, Divided DEF HeadRegister, DmaInv, TypeOK
  <2>7. CASE loop.left = 1
    <3>1. /\ dmaExe' = [dmaExe EXCEPT ![loop.entry] = TRUE]
          /\ dmaTail' = [dmaTail EXCEPT ![loop.entry] = fifoTail']
          /\ dmaLap' = [dmaLap EXCEPT ![loop.entry] = overFlowCnt']
          /\ recorded' = [recorded EXCEPT ![loop.entry] = issued']
      BY <1>2, <2>7 DEF SetAutoDma
    <3>2. QED
      BY <2>1, <2>2, <2>3, <2>4, <2>5, <2>6, <3>1
         DEF DmaInv, TypeOK, NeverALapAhead, Counters, ReleasedAfterTransfer
  <2>8. CASE loop.left # 1
    <3>1. UNCHANGED records
      BY <1>2, <2>8 DEF SetAutoDma
    <3>2. QED
      BY <2>1, <2>2, <2>3, <2>4, <2>5, <2>6, <3>1
         DEF DmaInv, TypeOK, NeverALapAhead, Counters, ReleasedAfterTransfer, records
  <2>9. QED
    BY <2>7, <2>8
<1>3. ASSUME NEW e \in Entries, CheckDMA(e)
      PROVE  DmaInv'
  <2>1. EntryDone(e) <=> completed >= recorded[e]
    BY Exact
  <2>2. HeadRegister \in 0 .. COUNT - 1
    BY Divided DEF HeadRegister, DmaInv, TypeOK
  <2>3. /\ fifoHead' = HeadRegister
        /\ dmaExe' = [dmaExe EXCEPT ![e] = ~ EntryDone(e)]
        /\ UNCHANGED <<issued, completed, fifoTail, overFlowCnt, dmaTail, dmaLap, recorded, loop>>
    BY <1>3 DEF CheckDMA
  <2>4. dmaExe' \in [Entries -> BOOLEAN]
    BY <2>3 DEF DmaInv, TypeOK, EntryDone
  <2>5. ReleasedAfterTransfer'
    BY <2>1, <2>3, <2>4 DEF DmaInv, TypeOK, ReleasedAfterTransfer
  <2>6. QED
    BY <2>2, <2>3, <2>4, <2>5 DEF DmaInv, TypeOK, NeverALapAhead, Counters
<1>4. ASSUME Transfer
      PROVE  DmaInv'
  BY <1>4 DEF Transfer, DmaInv, TypeOK, NeverALapAhead, Counters, ReleasedAfterTransfer, records
<1>5. ASSUME UNCHANGED dvars
      PROVE  DmaInv'
  BY <1>5 DEF dvars, records, DmaInv, TypeOK, NeverALapAhead, Counters, ReleasedAfterTransfer
<1>6. QED
  BY <1>1, <1>2, <1>3, <1>4, <1>5 DEF Next

\* The invariant holds throughout.
THEOREM DmaInvHolds == DmaSpec => []DmaInv
BY InitDma, StepDma, PTL DEF DmaSpec

\* The counters are well formed and the driver is never a lap ahead: a full
\* queue is never taken for an empty one (host_lld.c:376).
THEOREM LapTheorem == DmaSpec => [](TypeOK /\ NeverALapAhead)
<1>1. DmaInv => TypeOK /\ NeverALapAhead
  BY DEF DmaInv
<1>2. QED
  BY <1>1, DmaInvHolds, PTL

\* The answer of check_auto_*_dma_partial_done is exact at all times, for
\* counters of every width and over any number of laps (host_lld.c:462).
THEOREM DoneExactlyTheorem == DmaSpec => []DoneExactly
<1>1. DmaInv => DoneExactly
  BY Exact DEF DoneExactly
<1>2. QED
  BY <1>1, DmaInvHolds, PTL

\* A buffer entry that no longer waits has had all its transfers
\* (low_level_scheduler.c:174-191).
THEOREM ReleaseTheorem == DmaSpec => []ReleasedAfterTransfer
<1>1. DmaInv => ReleasedAfterTransfer
  BY DEF DmaInv
<1>2. QED
  BY <1>1, DmaInvHolds, PTL

=============================================================================
