-------------------------- MODULE LruBufferProofs --------------------------
(***************************************************************************)
(* The page buffer, for every number of dies, entries, pages and sectors,  *)
(* and commands of every length.                                           *)
(*                                                                         *)
(* The state of the buffer says little by itself: what an entry holds now  *)
(* is rarely what it was given to hold.  The invariant says instead what   *)
(* the queue of each die leads to.  Each request turns a view of the die,  *)
(* the contents of its entries and of its pages on the NAND, into another; *)
(* the view behind the last request is the one that has to be right, and   *)
(* each read gets what it is to deliver from the view it meets.  A handler *)
(* appends views, the device takes the first away, and neither disturbs    *)
(* what the other relies on.                                               *)
(***************************************************************************)
EXTENDS LruBuffer, Integers, SequenceTheorems, WellFoundedInduction, TLAPS

(***************************************************************************)
(* Parts of a command: each lies inside a page, and the parts, one after   *)
(* the other, are the sectors of the command and no other.                 *)
(***************************************************************************)
S == SECTOR_NUM_PER_PAGE

\* the sector a part begins at, and the one behind its end
First(part) == part.lpn * S + part.offset
Behind(part) == First(part) + part.subReqSect

\* Products by a number of one or more keep the order, a whole multiple apart.
LEMMA SpreadBy ==
    ASSUME NEW w \in Nat \ {0}, NEW i \in Nat, NEW j \in Nat, i < j
    PROVE  /\ i * w \in Nat /\ j * w \in Nat
           /\ i * w + w <= j * w
<1>1. PICK d \in Nat : j = i + 1 + d
  <2>1. j - i - 1 \in Nat /\ j = i + 1 + (j - i - 1)
    OBVIOUS
  <2> QED BY <2>1
<1>2. d * w \in Nat /\ i * w \in Nat
  OBVIOUS
<1>3. j * w = i * w + w + d * w
  BY <1>1
<1> QED BY <1>2, <1>3

\* ... so a multiple and an offset below the factor are unique.
LEMMA UniqueBy ==
    ASSUME NEW w \in Nat \ {0}, NEW i \in Nat, NEW j \in Nat,
           NEW p \in 0 .. w - 1, NEW q \in 0 .. w - 1, i * w + p = j * w + q
    PROVE  i = j /\ p = q
<1>1. i * w \in Nat /\ j * w \in Nat
  OBVIOUS
<1>2. i < j => i * w + w <= j * w
  BY SpreadBy
<1>3. j < i => j * w + w <= i * w
  BY SpreadBy
<1>4. i = j
  <2> DEFINE a == i * w
             b == j * w
  <2>1. a \in Nat /\ b \in Nat /\ a + p = b + q /\ (i < j => a + w <= b) /\ (j < i => b + w <= a)
    BY <1>1, <1>2, <1>3
  <2> HIDE DEF a, b
  <2> QED BY <2>1
<1>5. p = q
  <2> DEFINE a == i * w
  <2>1. a \in Nat /\ a + p = a + q
    BY <1>1, <1>4
  <2> HIDE DEF a
  <2> QED BY <2>1
<1> QED BY <1>4, <1>5

\* Quotient and remainder.
LEMMA DivisionBy ==
    ASSUME NEW n \in Nat, NEW w \in Nat \ {0}
    PROVE  /\ n \div w \in Nat /\ n % w \in 0 .. w - 1
           /\ n = (n \div w) * w + (n % w)
OBVIOUS

\* Quotient and remainder by the page size.
LEMMA Division ==
    ASSUME NEW n \in Nat
    PROVE  /\ n \div S \in Nat /\ n % S \in 0 .. S - 1
           /\ n = (n \div S) * S + (n % S)
BY DivisionBy, SectorAssumption DEF S

\* ... which are unique.
LEMMA Unique ==
    ASSUME NEW n \in Nat, NEW i \in Nat, NEW r \in 0 .. S - 1, n = i * S + r
    PROVE  n \div S = i /\ n % S = r
<1>1. /\ n \div S \in Nat /\ n % S \in 0 .. S - 1
      /\ n = (n \div S) * S + (n % S)
  BY Division
<1>2. S \in Nat \ {0}
  BY SectorAssumption DEF S
<1> QED BY <1>1, <1>2, UniqueBy

\* The numbers a command is cut by, in terms of quotients and remainders.
LEMMA Cut ==
    ASSUME NEW curSect \in Nat, NEW reqSect \in Nat \ {0}
    PROVE  LET q == curSect \div S
               r == curSect % S
               loop == Loop(curSect, reqSect)
               m == Rest(curSect, reqSect)
           IN  /\ q \in Nat /\ loop \in Nat /\ r \in 0 .. S - 1 /\ m \in 0 .. S - 1
               /\ curSect = q * S + r
               /\ r + reqSect = loop * S + m
  <1> DEFINE q == curSect \div S
             r == curSect % S
             loop == (r + reqSect) \div S
             m == (r + reqSect) % S
  <1>1. q \in Nat /\ r \in 0 .. S - 1 /\ curSect = q * S + r
    BY Division
  <1>2. S \in Nat
    BY SectorAssumption DEF S
  <1>3. r + reqSect \in Nat
    BY <1>1, <1>2
  <1>4. loop \in Nat /\ m \in 0 .. S - 1 /\ r + reqSect = loop * S + m
    BY <1>3, Division
  <1>5. loop = Loop(curSect, reqSect)
    BY DEF Loop, S
  <1>6. m = Rest(curSect, reqSect)
    <2>1. curSect + reqSect \in Nat /\ q + loop \in Nat
      BY <1>1, <1>4
    <2>2. curSect + reqSect = (q + loop) * S + m
      <3> HIDE DEF q, r, loop, m
      <3> QED BY <1>1, <1>2, <1>4
    <2>3. (curSect + reqSect) % S = m
      <3> HIDE DEF q, r, loop, m
      <3> QED BY <1>4, <2>1, <2>2, Unique
    <2> QED BY <2>3 DEF Rest, S
  <1> HIDE DEF q, r, loop, m
  <1>7. /\ q \in Nat /\ Loop(curSect, reqSect) \in Nat
        /\ r \in 0 .. S - 1 /\ Rest(curSect, reqSect) \in 0 .. S - 1
        /\ curSect = q * S + r
        /\ r + reqSect = Loop(curSect, reqSect) * S + Rest(curSect, reqSect)
    BY <1>1, <1>4, <1>5, <1>6
  <1> QED BY <1>7 DEF q, r

\* Every part of a command moves at least one sector, inside one page.
THEOREM PartInPage ==
    ASSUME NEW curSect \in Nat, NEW reqSect \in Nat \ {0},
           NEW k \in 0 .. LastPart(curSect, reqSect)
    PROVE  LET part == Part(curSect, reqSect, k)
           IN  /\ part.lpn \in Nat /\ part.offset \in 0 .. S - 1
               /\ part.subReqSect \in 1 .. S - part.offset
  <1> DEFINE q == curSect \div S
             r == curSect % S
             loop == Loop(curSect, reqSect)
             m == Rest(curSect, reqSect)
  <1>1. /\ q \in Nat /\ loop \in Nat /\ r \in 0 .. S - 1 /\ m \in 0 .. S - 1
        /\ r + reqSect = loop * S + m
    BY Cut
  <1>2. S \in Nat \ {0}
    BY SectorAssumption DEF S
  <1>3. LastPart(curSect, reqSect) =
           IF loop = 0 THEN 0 ELSE IF m = 0 THEN loop - 1 ELSE loop
    BY DEF LastPart
  <1>4. Part(curSect, reqSect, k) =
           [lpn |-> q + k, offset |-> IF k = 0 THEN r ELSE 0,
            subReqSect |-> IF k = 0 THEN IF loop = 0 THEN reqSect ELSE S - r
                           ELSE IF k < loop THEN S ELSE m,
            dmaIndex |-> IF k = 0 THEN 0 ELSE (S - r) + (k - 1) * S]
    BY DEF Part, ToPageEnd, S
  <1> HIDE DEF q, r, loop, m
  <1>5. k \in Nat /\ (k # 0 => k < loop \/ (k = loop /\ m # 0))
    BY <1>1, <1>3
  <1>6. loop = 0 => r + reqSect = m
    BY <1>1, <1>2
  <1> QED BY <1>1, <1>2, <1>4, <1>5, <1>6

\* The part that begins dmaIndex sectors into the command is the part that
\* the host's buffer expects there.
THEOREM PartInPlace ==
    ASSUME NEW curSect \in Nat, NEW reqSect \in Nat \ {0},
           NEW k \in 0 .. LastPart(curSect, reqSect)
    PROVE  LET part == Part(curSect, reqSect, k)
           IN  First(part) = curSect + part.dmaIndex
  <1> DEFINE q == curSect \div S
             r == curSect % S
             loop == Loop(curSect, reqSect)
             m == Rest(curSect, reqSect)
  <1>1. /\ q \in Nat /\ r \in 0 .. S - 1 /\ curSect = q * S + r
        /\ loop \in Nat /\ m \in 0 .. S - 1
    BY Cut
  <1>2. S \in Nat \ {0}
    BY SectorAssumption DEF S
  <1>3. k \in Nat
    <2>1. LastPart(curSect, reqSect) \in Int
      BY <1>1 DEF LastPart
    <2> QED BY <2>1
  <1>4. LET part == Part(curSect, reqSect, k)
        IN  /\ part.lpn = q + k /\ part.offset = IF k = 0 THEN r ELSE 0
            /\ part.dmaIndex = IF k = 0 THEN 0 ELSE (S - r) + (k - 1) * S
    BY DEF Part, ToPageEnd, S
  <1> HIDE DEF q, r, loop, m
  <1>5. (q + k) * S = q * S + k * S /\ (k - 1) * S = k * S - S
    BY <1>1, <1>2, <1>3
  <1>6. q * S \in Nat /\ k * S \in Nat
    BY <1>1, <1>2, <1>3
  <1>7. CASE k = 0
    BY <1>1, <1>2, <1>4, <1>7 DEF First
  <1>8. CASE k # 0
    BY <1>1, <1>2, <1>3, <1>4, <1>5, <1>6, <1>8 DEF First
  <1> QED BY <1>7, <1>8

\* Each part begins behind the one before it, and the last ends where the
\* command does: no sector is left out and none is moved twice.
THEOREM PartsFollow ==
    ASSUME NEW curSect \in Nat, NEW reqSect \in Nat \ {0},
           NEW k \in 0 .. LastPart(curSect, reqSect)
    PROVE  Behind(Part(curSect, reqSect, k)) =
              IF k = LastPart(curSect, reqSect) THEN curSect + reqSect
              ELSE First(Part(curSect, reqSect, k + 1))
  <1> DEFINE q == curSect \div S
             r == curSect % S
             loop == Loop(curSect, reqSect)
             m == Rest(curSect, reqSect)
             last == LastPart(curSect, reqSect)
  <1>1. /\ q \in Nat /\ loop \in Nat /\ r \in 0 .. S - 1 /\ m \in 0 .. S - 1
        /\ curSect = q * S + r
        /\ r + reqSect = loop * S + m
    BY Cut
  <1>2. S \in Nat \ {0}
    BY SectorAssumption DEF S
  <1>3. last = IF loop = 0 THEN 0 ELSE IF m = 0 THEN loop - 1 ELSE loop
    BY DEF LastPart
  <1>4. ASSUME NEW j \in Nat
        PROVE  LET part == Part(curSect, reqSect, j)
               IN  /\ part.lpn = q + j /\ part.offset = IF j = 0 THEN r ELSE 0
                   /\ part.subReqSect =
                         IF j = 0 THEN IF loop = 0 THEN reqSect ELSE S - r
                         ELSE IF j < loop THEN S ELSE m
    BY DEF Part, ToPageEnd, S
  <1> HIDE DEF q, r, loop, m, last
  <1>5. k \in Nat /\ k <= last
    BY <1>1, <1>3 DEF last
  <1>6. /\ (q + k) * S = q * S + k * S
        /\ (q + (k + 1)) * S = q * S + k * S + S
        /\ q * S \in Nat /\ k * S \in Nat /\ loop * S \in Nat
    BY <1>1, <1>2, <1>5
  <1>7. Behind(Part(curSect, reqSect, k)) =
           q * S + k * S + (IF k = 0 THEN r ELSE 0)
             + (IF k = 0 THEN IF loop = 0 THEN reqSect ELSE S - r
                ELSE IF k < loop THEN S ELSE m)
    BY <1>4, <1>5, <1>6 DEF Behind, First
  <1>8. CASE k = last
    <2>1. CASE loop = 0
      BY <1>1, <1>2, <1>3, <1>6, <1>7, <1>8, <2>1 DEF last
    <2>2. CASE loop # 0 /\ m = 0
      <3>1. k = loop - 1 /\ k * S = loop * S - S
        BY <1>1, <1>2, <1>3, <1>8, <2>2
      <3>2. curSect + reqSect = q * S + loop * S
        BY <1>1, <1>6, <2>2
      <3>3. Behind(Part(curSect, reqSect, k)) = q * S + k * S + S
        BY <1>1, <1>2, <1>5, <1>6, <1>7, <2>2, <3>1
      <3> QED BY <1>2, <1>6, <1>8, <3>1, <3>2, <3>3 DEF last
    <2>3. CASE loop # 0 /\ m # 0
      <3>1. k = loop /\ k # 0
        BY <1>3, <1>8, <2>3
      <3>2. curSect + reqSect = q * S + loop * S + m
        BY <1>1, <1>6
      <3>3. Behind(Part(curSect, reqSect, k)) = q * S + k * S + m
        <4>1. ~(k < loop)
          BY <1>1, <3>1
        <4> QED BY <1>1, <1>2, <1>5, <1>6, <1>7, <3>1, <4>1
      <3> QED BY <1>8, <3>1, <3>2, <3>3 DEF last
    <2> QED BY <2>1, <2>2, <2>3
  <1>9. CASE k # last
    <2>1. k < loop
      BY <1>1, <1>3, <1>5, <1>9
    <2>2. First(Part(curSect, reqSect, k + 1)) = q * S + k * S + S
      BY <1>1, <1>2, <1>4, <1>5, <1>6 DEF First
    <2>3. Behind(Part(curSect, reqSect, k)) = q * S + k * S + S
      BY <1>1, <1>2, <1>5, <1>6, <1>7, <2>1
    <2> QED BY <1>9, <2>2, <2>3 DEF last
  <1> QED BY <1>8, <1>9

\* A nonempty set of numbers has a least one.
LEMMA LeastNumber ==
    ASSUME NEW N \in SUBSET Nat, N # {}
    PROVE  \E m \in N : \A n \in N : m <= n
<1> DEFINE R == OpToRel(<, Nat)
<1>1. R = {pair \in Nat \X Nat : pair[1] < pair[2]}
  BY DEF OpToRel
<1>2. IsWellFoundedOn(R, Nat)
  BY NatLessThanWellFounded
<1> HIDE DEF R
<1>3. PICK m \in N : \A n \in N : ~ (<<n, m>> \in R)
  BY <1>2, WFMin
<1>4. ASSUME NEW n \in N PROVE m <= n
  <2>1. m \in Nat /\ n \in Nat /\ ~ (<<n, m>> \in R)
    BY <1>3
  <2>2. ~ (n < m)
    BY <1>1, <2>1
  <2> QED BY <2>1, <2>2
<1> QED BY <1>4

(***************************************************************************)
(* The buffer.                                                             *)
(***************************************************************************)
EntriesOf(d) == d * BUF_ENTRY_NUM_PER_DIE .. (d + 1) * BUF_ENTRY_NUM_PER_DIE - 1
LpnsOf(d) == {l \in Lpns : Die(l) = d}
Contents == Data \cup {None}

DmaKinds == {"RxDMA", "TxDMA"}
Requests == [request : {"ProgramPage", "ReadPage"} \cup DmaKinds,
             entry : Entries, lpn : Lpns, slot : Slots \cup {None},
             dmaIndex : Nat, offset : Sectors, subReqSect : 0 .. SECTOR_NUM_PER_PAGE]

\* the sectors a request moves between host and buffer, and the place of
\* sector s in the command, for a request or a DMA under way
SectorsOf(r) ==
    IF r.request \in DmaKinds THEN r.offset .. r.offset + r.subReqSect - 1 ELSE {}
At(x, s) == x.dmaIndex + s - x.offset

\* what die d may have in its queue
RequestOK(r, d) ==
    /\ r \in Requests /\ r.entry \in EntriesOf(d) /\ r.lpn \in LpnsOf(d)
    /\ r.request \in DmaKinds => r.slot \in Slots /\ SectorsOf(r) \subseteq Sectors

Buffers == [entry : [Entries -> [lpn : Lpns \cup {None}, dirty : BOOLEAN, data : PageData]],
            lru : [Dies -> Seq(Entries)], mapped : SUBSET Lpns, queue : [Dies -> Seq(Requests)]]

\* the list of die d is a permutation of its entries
ListOK(list, d) ==
    /\ Len(list) = BUF_ENTRY_NUM_PER_DIE
    /\ \A i \in 1 .. Len(list) : list[i] \in EntriesOf(d)
    /\ \A i, j \in 1 .. Len(list) : list[i] = list[j] => i = j
    /\ \A e \in EntriesOf(d) : \E i \in 1 .. Len(list) : list[i] = e

\* the entries of die d hold pages of it, each once
PagesOK(entry, d) ==
    /\ \A e \in EntriesOf(d) : entry[e].lpn # None => Die(entry[e].lpn) = d
    /\ \A e \in EntriesOf(d) : entry[e].dirty => entry[e].lpn # None
    /\ \A e, f \in EntriesOf(d) : entry[e].lpn = entry[f].lpn /\ entry[e].lpn # None => e = f

BufferOK(b) ==
    /\ b \in Buffers
    /\ \A d \in Dies : /\ ListOK(b.lru[d], d) /\ PagesOK(b.entry, d)
                       /\ \A i \in 1 .. Len(b.queue[d]) : RequestOK(b.queue[d][i], d)

(***************************************************************************)
(* The transfers that are still to come.                                   *)
(***************************************************************************)
Commands == [op : {"none", "read", "write"}, left : SUBSET Nat,
             value : {<<>>} \cup UNION {[0 .. n - 1 -> Contents] : n \in Nat \ {0}}]
Flights == [kind : {"none"} \cup DmaKinds, slot : Slots \cup {None},
            dmaIndex : Nat, offset : Sectors, left : SUBSET Sectors]

SlotsOK(sl) == /\ sl \in [Slots -> Commands]
               /\ \A t \in Slots : /\ \A i \in sl[t].left : sl[t].value[i] \in Contents
                                   /\ sl[t].left = {} => sl[t] = Free
FlyingOK(fl) == /\ fl \in [Entries -> Flights]
                /\ \A e \in Entries : fl[e].left # {} => fl[e].kind # "none" /\ fl[e].slot \in Slots
                /\ \A e \in Entries : \A s \in fl[e].left : fl[e].offset <= s

\* The host waits for what x will move: sectors ss, in the given direction.
Owed(sl, x, kind, ss) ==
    ss # {} => /\ sl[x.slot].op = (IF kind = "RxDMA" THEN "write" ELSE "read")
               /\ \A s \in ss : At(x, s) \in sl[x.slot].left

\* x and y move different sectors of the host
Apart(x, xs, y, ys) == x.slot = y.slot => \A s \in xs, u \in ys : At(x, s) # At(y, u)

Transfers(q, fl, sl) ==
    /\ \A d \in Dies : \A i \in 1 .. Len(q[d]) : Owed(sl, q[d][i], q[d][i].request, SectorsOf(q[d][i]))
    /\ \A e \in Entries : Owed(sl, fl[e], fl[e].kind, fl[e].left)
    /\ \A c, d \in Dies : \A i \in 1 .. Len(q[c]), j \in 1 .. Len(q[d]) :
          <<c, i>> # <<d, j>> => Apart(q[c][i], SectorsOf(q[c][i]), q[d][j], SectorsOf(q[d][j]))
    /\ \A d \in Dies, e \in Entries : \A i \in 1 .. Len(q[d]) :
          Apart(q[d][i], SectorsOf(q[d][i]), fl[e], fl[e].left)
    /\ \A e, f \in Entries : e # f => Apart(fl[e], fl[e].left, fl[f], fl[f].left)

(***************************************************************************)
(* What the queue of a die leads to.                                       *)
(***************************************************************************)
\* the contents of die d: its entries and its pages on the NAND
Views(d) == [data : [EntriesOf(d) -> PageData], stored : [LpnsOf(d) -> PageData]]

\* contents of a page of the buffer when its DMA is done
Landed(sl, f, data) ==
    [s \in Sectors |-> IF f.kind = "RxDMA" /\ s \in f.left THEN sl[f.slot].value[At(f, s)] ELSE data[s]]

View(d, entry, st, fl, sl) ==
    [data |-> [e \in EntriesOf(d) |-> Landed(sl, fl[e], entry[e].data)],
     stored |-> [l \in LpnsOf(d) |-> st[l]]]

\* contents of a page of the buffer when the host's sectors have arrived
Received(sl, r, data) ==
    [s \in Sectors |-> IF s \in SectorsOf(r) THEN sl[r.slot].value[At(r, s)] ELSE data[s]]

\* what request r makes of view v
Effect(sl, r, v) ==
    CASE r.request = "ProgramPage" -> [v EXCEPT !.stored[r.lpn] = v.data[r.entry]]
      [] r.request = "ReadPage" -> [v EXCEPT !.data[r.entry] = v.stored[r.lpn]]
      [] r.request = "RxDMA" -> [v EXCEPT !.data[r.entry] = Received(sl, r, v.data[r.entry])]
      [] r.request = "TxDMA" -> v

\* a read gets from view v what it is to deliver
Delivers(sl, r, v) ==
    r.request = "TxDMA" =>
        \A s \in SectorsOf(r) : Agrees(v.data[r.entry][s], sl[r.slot].value[At(r, s)])
\* The requests of q turn v into w, and every read among them delivers.
Leads(d, sl, q, v, w) ==
    \E views \in [0 .. Len(q) -> Views(d)] :
        /\ views[0] = v /\ views[Len(q)] = w
        /\ \A i \in 1 .. Len(q) : /\ views[i] = Effect(sl, q[i], views[i - 1])
                                  /\ Delivers(sl, q[i], views[i - 1])
\* the NAND has the page when the view w is reached
InStore(l, rows, lt, w) ==
    \A s \in Sectors : /\ Agrees(w.stored[l][s], lt[l][s])
                       /\ l \notin rows => lt[l][s] = None

\* In view w the page l is where it should be.
Kept(d, l, entry, rows, lt, w) ==
    /\ \A e \in EntriesOf(d) : entry[e].lpn = l => \A s \in Sectors : Agrees(w.data[e][s], lt[l][s])
    /\ (\A e \in EntriesOf(d) : entry[e].lpn = l => ~entry[e].dirty) => InStore(l, rows, lt, w)
DieKeeps(d, b, st, fl, sl, lt) ==
    \E w \in Views(d) : /\ Leads(d, sl, b.queue[d], View(d, b.entry, st, fl, sl), w)
                        /\ \A l \in LpnsOf(d) : Kept(d, l, b.entry, b.mapped, lt, w)

Sound(b, st, fl, sl, lt) ==
    /\ BufferOK(b) /\ st \in [Lpns -> PageData] /\ lt \in [Lpns -> PageData]
    /\ SlotsOK(sl) /\ FlyingOK(fl) /\ Transfers(b.queue, fl, sl)
    /\ \A d \in Dies : DieKeeps(d, b, st, fl, sl, lt)

\* the entries of a join hold its pages, and no write is under way
JoinOK == /\ join \subseteq Entries \X Lpns
          /\ \A p \in join : bufEntry[p[1]].lpn = p[2]
          /\ join # {} => \A t \in Slots : slots[t].op # "write"

LruInv == Sound(Ftl, stored, flying, slots, latest) /\ ReadsLatest /\ JoinOK

(***************************************************************************)
(* Dies and their entries.                                                 *)
(***************************************************************************)

\* What the constants are.
LEMMA Sizes ==
    /\ DIE_NUM \in Nat \ {0} /\ BUF_ENTRY_NUM_PER_DIE \in Nat \ {0, 1}
    /\ Pages \in Nat \ {0} /\ SECTOR_NUM_PER_PAGE \in Nat \ {0} /\ MaxReq \in Nat \ {0}
BY BufferAssumption, SectorAssumption

\* The page has a die.
LEMMA DieOfPage ==
    ASSUME NEW l \in Lpns
    PROVE  Die(l) \in Dies /\ l \in LpnsOf(Die(l)) /\ l \in Nat
<1>1. l \in Nat
  BY Sizes DEF Lpns
<1> QED BY <1>1, Sizes DEF Die, Dies, LpnsOf

\* A die has entries.
LEMMA EntriesOfDie ==
    ASSUME NEW d \in Dies
    PROVE  /\ EntriesOf(d) \subseteq Entries /\ EntriesOf(d) \subseteq Nat
           /\ d * BUF_ENTRY_NUM_PER_DIE \in EntriesOf(d)
           /\ \A e \in EntriesOf(d) : \E p \in 0 .. BUF_ENTRY_NUM_PER_DIE - 1 :
                 e = d * BUF_ENTRY_NUM_PER_DIE + p
           /\ \A p \in 0 .. BUF_ENTRY_NUM_PER_DIE - 1 :
                 d * BUF_ENTRY_NUM_PER_DIE + p \in EntriesOf(d)
<1> DEFINE n == BUF_ENTRY_NUM_PER_DIE
<1>1. /\ n \in Nat \ {0} /\ DIE_NUM \in Nat /\ d \in Nat /\ d < DIE_NUM
  BY Sizes DEF Dies
<1>2. d * n \in Nat /\ (d + 1) * n = d * n + n /\ d * n + n <= DIE_NUM * n
  <2>1. (d + 1) * n = d * n + n /\ d * n \in Nat
    BY <1>1
  <2>2. d * n + n <= DIE_NUM * n
    BY <1>1, SpreadBy
  <2> QED BY <2>1, <2>2
<1>3. EntriesOf(d) = d * n .. d * n + n - 1 /\ Entries = 0 .. DIE_NUM * n - 1
  <2>1. EntriesOf(d) = d * n .. (d + 1) * n - 1
    BY DEF EntriesOf
  <2>2. (d + 1) * n - 1 = d * n + n - 1
    BY <1>1, <1>2
  <2> QED BY <2>1, <2>2 DEF Entries
<1>4. DIE_NUM * n \in Nat
  BY <1>1
<1> DEFINE a == d * n
           z == DIE_NUM * n
<1>5. a \in Nat /\ z \in Nat /\ a + n <= z
  BY <1>2, <1>4
<1>6. EntriesOf(d) = a .. a + n - 1 /\ Entries = 0 .. z - 1
  BY <1>3
<1> HIDE DEF a, z
<1>7. a .. a + n - 1 \subseteq 0 .. z - 1 /\ a .. a + n - 1 \subseteq Nat /\ a \in a .. a + n - 1
  BY <1>1, <1>5
<1>8. \A p \in 0 .. n - 1 : a + p \in a .. a + n - 1
  BY <1>1, <1>5
<1>9. \A e \in a .. a + n - 1 : e - a \in 0 .. n - 1 /\ e = a + (e - a)
  BY <1>1, <1>5
<1> QED BY <1>6, <1>7, <1>8, <1>9 DEF a

\* ... of its own,
LEMMA EntriesApart ==
    ASSUME NEW c \in Dies, NEW d \in Dies, NEW e \in EntriesOf(c), e \in EntriesOf(d)
    PROVE  c = d
<1>1. c \in Nat /\ d \in Nat /\ BUF_ENTRY_NUM_PER_DIE \in Nat \ {0}
  BY Sizes DEF Dies
<1>2. PICK p \in 0 .. BUF_ENTRY_NUM_PER_DIE - 1 : e = c * BUF_ENTRY_NUM_PER_DIE + p
  BY EntriesOfDie
<1>3. PICK q \in 0 .. BUF_ENTRY_NUM_PER_DIE - 1 : e = d * BUF_ENTRY_NUM_PER_DIE + q
  BY EntriesOfDie
<1> QED BY <1>1, <1>2, <1>3, UniqueBy

\* ... and all entries are of a die.
LEMMA DieOfEntry ==
    ASSUME NEW e \in Entries
    PROVE  \E d \in Dies : e \in EntriesOf(d)
<1> DEFINE n == BUF_ENTRY_NUM_PER_DIE
           d == e \div n
           p == e % n
<1>1. n \in Nat \ {0} /\ DIE_NUM \in Nat
  BY Sizes
<1>2. e \in Nat /\ e < DIE_NUM * n
  <2>1. DIE_NUM * n \in Nat
    BY <1>1
  <2> QED BY <2>1 DEF Entries
<1>3. d \in Nat /\ p \in 0 .. n - 1 /\ e = d * n + p
  BY <1>1, <1>2, DivisionBy
<1> HIDE DEF d, p
<1>4. d < DIE_NUM
  <2>1. CASE d = DIE_NUM
    <3>1. d * n \in Nat /\ e = d * n + p /\ e < d * n
      BY <1>1, <1>2, <1>3, <2>1
    <3> QED BY <1>2, <1>3, <3>1
  <2>2. CASE DIE_NUM < d
    <3>1. DIE_NUM * n + n <= d * n /\ d * n \in Nat /\ DIE_NUM * n \in Nat
      BY <1>1, <1>3, <2>2, SpreadBy
    <3> DEFINE a == d * n
               z == DIE_NUM * n
    <3>2. a \in Nat /\ z \in Nat /\ z + n <= a /\ e = a + p /\ e < z
      BY <1>2, <1>3, <3>1
    <3> HIDE DEF a, z
    <3> QED BY <1>1, <1>3, <3>2
  <2> QED BY <1>1, <1>3, <2>1, <2>2
<1>5. d \in Dies
  BY <1>1, <1>3, <1>4 DEF Dies
<1> QED BY <1>3, <1>5, EntriesOfDie

\* Moving an entry to the front permutes the list.
LEMMA ToFrontFacts ==
    ASSUME NEW d \in Dies, NEW list \in Seq(Entries), ListOK(list, d), NEW e \in EntriesOf(d)
    PROVE  /\ ToFront(list, e) \in Seq(Entries) /\ ListOK(ToFront(list, e), d)
           /\ ToFront(list, e)[1] = e
<1> DEFINE n == Len(list)
           i == CHOOSE i \in DOMAIN list : list[i] = e
           from == [j \in 1 .. n |-> IF j = 1 THEN i ELSE IF j <= i THEN j - 1 ELSE j]
           t == ToFront(list, e)
<1>1. n \in Nat \ {0} /\ DOMAIN list = 1 .. n /\ list \in [1 .. n -> Entries] /\ n = BUF_ENTRY_NUM_PER_DIE
  BY LenProperties, Sizes DEF ListOK
<1>2. i \in 1 .. n /\ list[i] = e
  BY <1>1 DEF ListOK
<1>3. t = [j \in 1 .. n |-> IF j = 1 THEN e ELSE IF j <= i THEN list[j - 1] ELSE list[j]]
  BY <1>1 DEF ToFront
<1> HIDE DEF i, t
<1>4. \A j \in 1 .. n : from[j] \in 1 .. n /\ t[j] = list[from[j]]
  BY <1>1, <1>2, <1>3
<1>5. t \in [1 .. n -> Entries]
  BY <1>1, <1>3, <1>4
<1>6. t \in Seq(Entries) /\ Len(t) = n
  BY <1>1, <1>5, SeqDef, LenProperties
<1>7. \A j \in 1 .. n : t[j] \in EntriesOf(d)
  BY <1>4 DEF ListOK
<1>8. ASSUME NEW j \in 1 .. n, NEW k \in 1 .. n, t[j] = t[k]
      PROVE  j = k
  <2>1. from[j] = from[k]
    BY <1>4, <1>8 DEF ListOK
  <2> QED BY <1>1, <1>2, <2>1
<1>9. ASSUME NEW f \in EntriesOf(d)
      PROVE  \E j \in 1 .. n : t[j] = f
  <2>1. PICK k \in 1 .. n : list[k] = f
    BY DEF ListOK
  <2>2. CASE k < i
    <3>1. k + 1 \in 1 .. n /\ from[k + 1] = k
      BY <1>1, <1>2, <2>2
    <3> HIDE DEF from
    <3> QED BY <1>4, <2>1, <3>1
  <2>3. CASE k = i
    BY <1>1, <1>2, <1>3, <2>1, <2>3
  <2>4. CASE k > i
    BY <1>1, <1>2, <1>3, <2>1, <2>4
  <2> QED BY <1>2, <2>2, <2>3, <2>4
<1>10. ListOK(t, d)
  BY <1>1, <1>6, <1>7, <1>8, <1>9 DEF ListOK
<1> QED BY <1>1, <1>3, <1>6, <1>10 DEF t

\* The last entry of a list is an entry of the die, and not the first.
LEMMA LastEntry ==
    ASSUME NEW d \in Dies, NEW list \in Seq(Entries), ListOK(list, d)
    PROVE  list[Len(list)] \in EntriesOf(d) /\ list[Len(list)] # list[1]
<1>1. Len(list) \in Nat \ {0, 1}
  BY Sizes DEF ListOK
<1>2. 1 \in 1 .. Len(list) /\ Len(list) \in 1 .. Len(list) /\ Len(list) # 1
  BY <1>1
<1> QED BY <1>2 DEF ListOK

(***************************************************************************)
(* Views.                                                                  *)
(***************************************************************************)

\* what transfer x takes from the host, or brings to it, is as good in s2 as in sl
Same(sl, s2, x, ss) == \A s \in ss : s2[x.slot].value[At(x, s)] = sl[x.slot].value[At(x, s)]

\* views v and w differ in page l, which has become what the entry e holds
Saved(d, e, l, v, w) ==
    /\ w.data = v.data /\ w.stored[l] = v.data[e]
    /\ \A k \in LpnsOf(d) \ {l} : w.stored[k] = v.stored[k]

\* views v and w differ in entry e, which has become page
Filled(d, e, page, v, w) ==
    /\ w.stored = v.stored /\ w.data[e] = page
    /\ \A f \in EntriesOf(d) \ {e} : w.data[f] = v.data[f]

\* A request makes a view of a view.
LEMMA EffectFacts ==
    ASSUME NEW d \in Dies, NEW sl, NEW r, RequestOK(r, d), NEW v \in Views(d),
           r.request = "RxDMA" => \A s \in SectorsOf(r) : sl[r.slot].value[At(r, s)] \in Contents
    PROVE  LET w == Effect(sl, r, v)
           IN  /\ w \in Views(d)
               /\ r.request = "ProgramPage" => Saved(d, r.entry, r.lpn, v, w)
               /\ r.request = "ReadPage" => Filled(d, r.entry, v.stored[r.lpn], v, w)
               /\ r.request = "RxDMA" => Filled(d, r.entry, Received(sl, r, v.data[r.entry]), v, w)
               /\ r.request = "TxDMA" => w = v
<1>1. /\ r.entry \in EntriesOf(d) /\ r.lpn \in LpnsOf(d)
      /\ r.request \in {"ProgramPage", "ReadPage", "RxDMA", "TxDMA"}
  BY DEF RequestOK, Requests, DmaKinds
<1>2. v.data \in [EntriesOf(d) -> PageData] /\ v.stored \in [LpnsOf(d) -> PageData]
  BY DEF Views
<1>3. v.data[r.entry] \in PageData /\ v.stored[r.lpn] \in PageData
  BY <1>1, <1>2
<1>4. CASE r.request = "ProgramPage"
  <2>1. Effect(sl, r, v) = [v EXCEPT !.stored[r.lpn] = v.data[r.entry]]
    BY <1>4 DEF Effect
  <2>2. [v.stored EXCEPT ![r.lpn] = v.data[r.entry]] \in [LpnsOf(d) -> PageData]
    BY <1>1, <1>2, <1>3
  <2>3. Effect(sl, r, v) = [data |-> v.data, stored |-> [v.stored EXCEPT ![r.lpn] = v.data[r.entry]]]
    BY <2>1 DEF Views
  <2>4. Effect(sl, r, v) \in Views(d)
    BY <1>2, <2>2, <2>3 DEF Views
  <2>5. /\ Effect(sl, r, v).data = v.data
        /\ Effect(sl, r, v).stored[r.lpn] = v.data[r.entry]
        /\ \A l \in LpnsOf(d) \ {r.lpn} : Effect(sl, r, v).stored[l] = v.stored[l]
    BY <1>1, <1>2, <2>3
  <2> QED BY <1>4, <2>4, <2>5 DEF Saved
<1>5. CASE r.request = "ReadPage"
  <2>1. Effect(sl, r, v) = [v EXCEPT !.data[r.entry] = v.stored[r.lpn]]
    BY <1>5 DEF Effect
  <2>2. [v.data EXCEPT ![r.entry] = v.stored[r.lpn]] \in [EntriesOf(d) -> PageData]
    BY <1>1, <1>2, <1>3
  <2>3. Effect(sl, r, v) = [data |-> [v.data EXCEPT ![r.entry] = v.stored[r.lpn]], stored |-> v.stored]
    BY <2>1 DEF Views
  <2>4. Effect(sl, r, v) \in Views(d)
    BY <1>2, <2>2, <2>3 DEF Views
  <2>5. /\ Effect(sl, r, v).stored = v.stored
        /\ Effect(sl, r, v).data[r.entry] = v.stored[r.lpn]
        /\ \A e \in EntriesOf(d) \ {r.entry} : Effect(sl, r, v).data[e] = v.data[e]
    BY <1>1, <1>2, <2>3
  <2> QED BY <1>5, <2>4, <2>5 DEF Filled
<1>6. CASE r.request = "RxDMA"
  <2> DEFINE new == Received(sl, r, v.data[r.entry])
  <2>1. Effect(sl, r, v) = [v EXCEPT !.data[r.entry] = new]
    BY <1>6 DEF Effect
  <2>2. new \in PageData
    <3>1. \A s \in Sectors : v.data[r.entry][s] \in Contents
      BY <1>3 DEF PageData, Contents
    <3>2. \A s \in Sectors :
             (IF s \in SectorsOf(r) THEN sl[r.slot].value[At(r, s)] ELSE v.data[r.entry][s]) \in Contents
      BY <1>6, <3>1
    <3> QED BY <3>2 DEF Received, PageData, Contents
  <2> HIDE DEF new
  <2>3. [v.data EXCEPT ![r.entry] = new] \in [EntriesOf(d) -> PageData]
    BY <1>1, <1>2, <2>2
  <2>4. Effect(sl, r, v) = [data |-> [v.data EXCEPT ![r.entry] = new], stored |-> v.stored]
    BY <2>1 DEF Views
  <2>5. Effect(sl, r, v) \in Views(d)
    BY <1>2, <2>3, <2>4 DEF Views
  <2>6. /\ Effect(sl, r, v).stored = v.stored
        /\ Effect(sl, r, v).data[r.entry] = new
        /\ \A e \in EntriesOf(d) \ {r.entry} : Effect(sl, r, v).data[e] = v.data[e]
    BY <1>1, <1>2, <2>4
  <2> QED BY <1>6, <2>5, <2>6 DEF new, Filled
<1>7. CASE r.request = "TxDMA"
  BY <1>7 DEF Effect
<1> QED BY <1>1, <1>4, <1>5, <1>6, <1>7

\* ... which depends on the command only as far as the host's sectors go.
LEMMA EffectSame ==
    ASSUME NEW d \in Dies, NEW sl, NEW s2, NEW r, RequestOK(r, d), NEW v,
           Same(sl, s2, r, SectorsOf(r))
    PROVE  Effect(s2, r, v) = Effect(sl, r, v) /\ (Delivers(s2, r, v) <=> Delivers(sl, r, v))
<1>1. \A page : Received(s2, r, page) = Received(sl, r, page)
  BY DEF Received, Same
<1>2. Effect(s2, r, v) = Effect(sl, r, v)
  BY <1>1 DEF Effect
<1>3. Delivers(s2, r, v) <=> Delivers(sl, r, v)
  BY DEF Delivers, Same
<1> QED BY <1>2, <1>3

\* An empty queue leads nowhere.
LEMMA LeadsEmpty ==
    ASSUME NEW d \in Dies, NEW sl, NEW v \in Views(d)
    PROVE  Leads(d, sl, <<>>, v, v) /\ \A w : Leads(d, sl, <<>>, v, w) => w = v
<1>1. Len(<<>>) = 0 /\ 1 .. 0 = {}
  BY EmptySeq
<1>2. Leads(d, sl, <<>>, v, v)
  <2> DEFINE views == [i \in 0 .. 0 |-> v]
  <2>1. views \in [0 .. Len(<<>>) -> Views(d)] /\ views[0] = v /\ views[Len(<<>>)] = v
    BY <1>1
  <2>2. \A i \in 1 .. Len(<<>>) : /\ views[i] = Effect(sl, <<>>[i], views[i - 1])
                                  /\ Delivers(sl, <<>>[i], views[i - 1])
    BY <1>1
  <2> HIDE DEF views
  <2> QED BY <2>1, <2>2 DEF Leads
<1>3. \A w : Leads(d, sl, <<>>, v, w) => w = v
  BY <1>1 DEF Leads
<1> QED BY <1>2, <1>3

\* A request that is pushed acts on the view that was last.
LEMMA LeadsAppend ==
    ASSUME NEW d \in Dies, NEW sl, NEW q \in Seq(Requests), NEW r \in Requests, NEW v, NEW w,
           Leads(d, sl, q, v, w), Effect(sl, r, w) \in Views(d), Delivers(sl, r, w)
    PROVE  Leads(d, sl, Append(q, r), v, Effect(sl, r, w))
<1> DEFINE n == Len(q)
           x == Effect(sl, r, w)
<1>1. PICK views \in [0 .. n -> Views(d)] :
        /\ views[0] = v /\ views[n] = w
        /\ \A i \in 1 .. n : /\ views[i] = Effect(sl, q[i], views[i - 1])
                             /\ Delivers(sl, q[i], views[i - 1])
  BY DEF Leads
<1>2. n \in Nat /\ Len(Append(q, r)) = n + 1 /\ Append(q, r)[n + 1] = r
      /\ \A i \in 1 .. n : Append(q, r)[i] = q[i]
  BY LenProperties, AppendProperties
<1> DEFINE more == [i \in 0 .. n + 1 |-> IF i <= n THEN views[i] ELSE x]
<1> HIDE DEF n, x
<1>3. more \in [0 .. n + 1 -> Views(d)]
  BY <1>1, <1>2 DEF x
<1>4. more[0] = v /\ more[n + 1] = x
  BY <1>1, <1>2
<1>5. ASSUME NEW i \in 1 .. n + 1
      PROVE  /\ more[i] = Effect(sl, Append(q, r)[i], more[i - 1])
             /\ Delivers(sl, Append(q, r)[i], more[i - 1])
  <2>1. CASE i <= n
    <3>1. i \in 1 .. n /\ more[i] = views[i] /\ more[i - 1] = views[i - 1] /\ Append(q, r)[i] = q[i]
      BY <1>2, <2>1
    <3> HIDE DEF more
    <3> QED BY <1>1, <3>1
  <2>2. CASE i = n + 1
    <3>1. more[i] = x /\ more[i - 1] = w /\ Append(q, r)[i] = r
      BY <1>1, <1>2, <2>2
    <3> HIDE DEF more
    <3> QED BY <3>1 DEF x
  <2> QED BY <1>2, <2>1, <2>2
<1> HIDE DEF more
<1> QED BY <1>2, <1>3, <1>4, <1>5 DEF Leads, x

\* A request that is taken away has acted on the view that was first.
LEMMA LeadsTail ==
    ASSUME NEW d \in Dies, NEW sl, NEW q \in Seq(Requests), q # <<>>, NEW v, NEW w,
           Leads(d, sl, q, v, w)
    PROVE  /\ Leads(d, sl, Tail(q), Effect(sl, Head(q), v), w)
           /\ Delivers(sl, Head(q), v)
<1> DEFINE n == Len(q)
<1>1. PICK views \in [0 .. n -> Views(d)] :
        /\ views[0] = v /\ views[n] = w
        /\ \A i \in 1 .. n : /\ views[i] = Effect(sl, q[i], views[i - 1])
                             /\ Delivers(sl, q[i], views[i - 1])
  BY DEF Leads
<1>2. n \in Nat \ {0} /\ Len(Tail(q)) = n - 1 /\ Head(q) = q[1]
      /\ \A i \in 1 .. n - 1 : Tail(q)[i] = q[i + 1]
  BY EmptySeq, HeadTailProperties
<1> DEFINE rest == [i \in 0 .. n - 1 |-> views[i + 1]]
<1> HIDE DEF n
<1>3. rest \in [0 .. n - 1 -> Views(d)]
  BY <1>1, <1>2
<1>4. views[1] = Effect(sl, Head(q), v) /\ Delivers(sl, Head(q), v)
  BY <1>1, <1>2
<1>5. rest[0] = views[1] /\ rest[n - 1] = w
  BY <1>1, <1>2
<1>6. ASSUME NEW i \in 1 .. n - 1
      PROVE  /\ rest[i] = Effect(sl, Tail(q)[i], rest[i - 1])
             /\ Delivers(sl, Tail(q)[i], rest[i - 1])
  <2>1. i + 1 \in 1 .. n /\ rest[i] = views[i + 1] /\ rest[i - 1] = views[i] /\ (i + 1) - 1 = i
    BY <1>2
  <2> HIDE DEF rest
  <2> QED BY <1>1, <1>2, <2>1
<1> HIDE DEF rest
<1> QED BY <1>2, <1>3, <1>4, <1>5, <1>6 DEF Leads

\* Commands that agree on the host's sectors lead to the same view.
LEMMA LeadsSame ==
    ASSUME NEW d \in Dies, NEW sl, NEW s2, NEW q, NEW v, NEW w, Leads(d, sl, q, v, w),
           \A i \in 1 .. Len(q) : RequestOK(q[i], d) /\ Same(sl, s2, q[i], SectorsOf(q[i]))
    PROVE  Leads(d, s2, q, v, w)
<1>1. PICK views \in [0 .. Len(q) -> Views(d)] :
        /\ views[0] = v /\ views[Len(q)] = w
        /\ \A i \in 1 .. Len(q) : /\ views[i] = Effect(sl, q[i], views[i - 1])
                                  /\ Delivers(sl, q[i], views[i - 1])
  BY DEF Leads
<1>2. \A i \in 1 .. Len(q) : /\ views[i] = Effect(s2, q[i], views[i - 1])
                             /\ Delivers(s2, q[i], views[i - 1])
  BY <1>1, EffectSame
<1> QED BY <1>1, <1>2 DEF Leads

\* What a transfer is owed has contents.
LEMMA OwedContents ==
    ASSUME NEW sl, SlotsOK(sl), NEW x, x.slot \in Slots, NEW kind, NEW ss, Owed(sl, x, kind, ss)
    PROVE  \A s \in ss : sl[x.slot].value[At(x, s)] \in Contents
BY DEF SlotsOK, Owed

\* What a die holds is a view.
LEMMA ViewTyped ==
    ASSUME NEW d \in Dies, NEW b, NEW st, NEW fl, NEW sl, b \in Buffers, st \in [Lpns -> PageData],
           FlyingOK(fl), SlotsOK(sl), \A e \in Entries : Owed(sl, fl[e], fl[e].kind, fl[e].left)
    PROVE  View(d, b.entry, st, fl, sl) \in Views(d)
<1>1. \A l \in LpnsOf(d) : st[l] \in PageData
  BY DEF LpnsOf
<1>2. ASSUME NEW e \in EntriesOf(d)
      PROVE  Landed(sl, fl[e], b.entry[e].data) \in PageData
  <2>1. e \in Entries
    BY EntriesOfDie
  <2>2. b.entry[e].data \in PageData
    BY <2>1 DEF Buffers
  <2>3. ASSUME NEW s \in Sectors
        PROVE  (IF fl[e].kind = "RxDMA" /\ s \in fl[e].left
                THEN sl[fl[e].slot].value[At(fl[e], s)] ELSE b.entry[e].data[s]) \in Contents
    <3>1. CASE s \in fl[e].left
      <4>1. fl[e].slot \in Slots
        BY <2>1, <3>1 DEF FlyingOK
      <4>2. sl[fl[e].slot].value[At(fl[e], s)] \in Contents
        BY <2>1, <3>1, <4>1, OwedContents
      <4> QED BY <2>2, <4>2 DEF PageData, Contents
    <3>2. CASE s \notin fl[e].left
      BY <2>2, <3>2 DEF PageData, Contents
    <3> QED BY <3>1, <3>2
  <2> QED BY <2>3 DEF Landed, PageData, Contents
<1> QED BY <1>1, <1>2 DEF View, Views

\* Where a page should be depends on little.
LEMMA KeptSame ==
    ASSUME NEW d, NEW l, NEW entry, NEW entry2, NEW rows, NEW rows2, NEW lt, NEW lt2, NEW w,
           Kept(d, l, entry, rows, lt, w),
           \A e \in EntriesOf(d) : entry2[e].lpn = entry[e].lpn /\ entry2[e].dirty = entry[e].dirty,
           l \in rows <=> l \in rows2, lt2[l] = lt[l]
    PROVE  Kept(d, l, entry2, rows2, lt2, w)
<1>1. InStore(l, rows, lt, w) => InStore(l, rows2, lt2, w)
  BY DEF InStore
<1> QED BY <1>1 DEF Kept

\* A die whose view is the same keeps its pages.
LEMMA SameView ==
    ASSUME NEW d \in Dies, NEW b, NEW c, NEW st, NEW st2, NEW fl, NEW fl2, NEW sl, NEW s2,
           NEW lt, NEW lt2, DieKeeps(d, b, st, fl, sl, lt),
           View(d, c.entry, st2, fl2, s2) = View(d, b.entry, st, fl, sl),
           c.queue[d] = b.queue[d],
           \A i \in 1 .. Len(b.queue[d]) :
              RequestOK(b.queue[d][i], d) /\ Same(sl, s2, b.queue[d][i], SectorsOf(b.queue[d][i])),
           \A e \in EntriesOf(d) : /\ c.entry[e].lpn = b.entry[e].lpn
                                   /\ c.entry[e].dirty = b.entry[e].dirty,
           \A l \in LpnsOf(d) : lt2[l] = lt[l] /\ (l \in b.mapped <=> l \in c.mapped)
    PROVE  DieKeeps(d, c, st2, fl2, s2, lt2)
<1>1. PICK w \in Views(d) : /\ Leads(d, sl, b.queue[d], View(d, b.entry, st, fl, sl), w)
                            /\ \A l \in LpnsOf(d) : Kept(d, l, b.entry, b.mapped, lt, w)
  BY DEF DieKeeps
<1>2. Leads(d, s2, c.queue[d], View(d, c.entry, st2, fl2, s2), w)
  BY <1>1, LeadsSame
<1>3. \A l \in LpnsOf(d) : Kept(d, l, c.entry, c.mapped, lt2, w)
  BY <1>1, KeptSame
<1> QED BY <1>2, <1>3 DEF DieKeeps

\* So does a die that is not concerned.
LEMMA OtherDie ==
    ASSUME NEW d \in Dies, NEW b, NEW c, NEW st, NEW st2, NEW fl, NEW fl2, NEW sl, NEW s2,
           NEW lt, NEW lt2, DieKeeps(d, b, st, fl, sl, lt),
           c.queue[d] = b.queue[d],
           \A i \in 1 .. Len(b.queue[d]) :
              RequestOK(b.queue[d][i], d) /\ Same(sl, s2, b.queue[d][i], SectorsOf(b.queue[d][i])),
           \A e \in EntriesOf(d) : /\ c.entry[e] = b.entry[e] /\ fl2[e] = fl[e]
                                   /\ Same(sl, s2, fl[e], fl[e].left),
           \A l \in LpnsOf(d) : /\ st2[l] = st[l] /\ lt2[l] = lt[l]
                                /\ (l \in b.mapped <=> l \in c.mapped)
    PROVE  DieKeeps(d, c, st2, fl2, s2, lt2)
<1>1. ASSUME NEW e \in EntriesOf(d)
      PROVE  Landed(s2, fl2[e], c.entry[e].data) = Landed(sl, fl[e], b.entry[e].data)
  BY DEF Landed, Same
<1>2. View(d, c.entry, st2, fl2, s2) = View(d, b.entry, st, fl, sl)
  BY <1>1 DEF View
<1> QED BY <1>2, SameView

(***************************************************************************)
(* Pushes.                                                                 *)
(***************************************************************************)

\* everything but what the dies keep
Base(b, st, fl, sl, lt) ==
    /\ BufferOK(b) /\ st \in [Lpns -> PageData] /\ lt \in [Lpns -> PageData]
    /\ SlotsOK(sl) /\ FlyingOK(fl) /\ Transfers(b.queue, fl, sl)

Others(d, b, st, fl, sl, lt) == \A c \in Dies \ {d} : DieKeeps(c, b, st, fl, sl, lt)

Reaches(d, b, st, fl, sl, w) ==
    w \in Views(d) /\ Leads(d, sl, b.queue[d], View(d, b.entry, st, fl, sl), w)

\* the transfers of slot t are of sectors before n
Below(q, fl, t, n) ==
    /\ \A d \in Dies : \A i \in 1 .. Len(q[d]) :
          q[d][i].slot = t => \A s \in SectorsOf(q[d][i]) : At(q[d][i], s) < n
    /\ \A e \in Entries : fl[e].slot = t => \A s \in fl[e].left : At(fl[e], s) < n

\* A push lengthens one queue and does nothing else.
LEMMA PushFacts ==
    ASSUME NEW b, BufferOK(b), NEW l \in Lpns, NEW r, RequestOK(r, Die(l))
    PROVE  LET c == PushToReqQueue(b, l, r)
           IN  /\ BufferOK(c) /\ c.entry = b.entry /\ c.lru = b.lru /\ c.mapped = b.mapped
               /\ Die(l) \in Dies /\ b.queue[Die(l)] \in Seq(Requests) /\ r \in Requests
               /\ c.queue[Die(l)] = Append(b.queue[Die(l)], r)
               /\ \A d \in Dies \ {Die(l)} : c.queue[d] = b.queue[d]
<1> DEFINE c == PushToReqQueue(b, l, r)
           d == Die(l)
           q == b.queue[d]
<1>1. d \in Dies /\ b \in Buffers /\ r \in Requests
  BY DieOfPage DEF BufferOK, RequestOK
<1>2. b.queue \in [Dies -> Seq(Requests)] /\ q \in Seq(Requests)
  BY <1>1 DEF Buffers
<1>3. c = [b EXCEPT !.queue[d] = Append(@, r)]
  BY DEF PushToReqQueue
<1>4. c = [entry |-> b.entry, lru |-> b.lru, mapped |-> b.mapped,
           queue |-> [b.queue EXCEPT ![d] = Append(@, r)]]
  BY <1>1, <1>3 DEF Buffers
<1> HIDE DEF c
<1>5. /\ Append(q, r) \in Seq(Requests) /\ Len(Append(q, r)) = Len(q) + 1
      /\ \A i \in 1 .. Len(q) : Append(q, r)[i] = q[i]
      /\ Append(q, r)[Len(q) + 1] = r /\ Len(q) \in Nat
  BY <1>1, <1>2, AppendProperties, LenProperties
<1>6. c.queue = [b.queue EXCEPT ![d] = Append(q, r)] /\ c.queue[d] = Append(q, r)
      /\ \A k \in Dies \ {d} : c.queue[k] = b.queue[k]
  BY <1>1, <1>2, <1>4
<1>7. c \in Buffers
  <2>1. [b.queue EXCEPT ![d] = Append(q, r)] \in [Dies -> Seq(Requests)]
    BY <1>1, <1>2, <1>5
  <2> QED BY <1>1, <1>4, <2>1 DEF Buffers
<1>8. ASSUME NEW k \in Dies, NEW i \in 1 .. Len(c.queue[k])
      PROVE  RequestOK(c.queue[k][i], k)
  <2>1. CASE k # d
    BY <1>6, <2>1 DEF BufferOK
  <2>2. CASE k = d
    <3>1. i \in 1 .. Len(q) + 1
      BY <1>5, <1>6, <2>2
    <3>2. CASE i = Len(q) + 1
      BY <1>5, <1>6, <2>2, <3>2
    <3>3. CASE i \in 1 .. Len(q)
      BY <1>1, <1>5, <1>6, <2>2, <3>3 DEF BufferOK
    <3> QED BY <1>5, <3>1, <3>2, <3>3
  <2> QED BY <2>1, <2>2
<1>9. c.entry = b.entry /\ c.lru = b.lru /\ c.mapped = b.mapped
  BY <1>4
<1>10. BufferOK(c)
  BY <1>7, <1>8, <1>9 DEF BufferOK
<1> QED BY <1>1, <1>2, <1>6, <1>9, <1>10 DEF c

\* A push acts on the view that the queue led to.
LEMMA PushReaches ==
    ASSUME NEW b, BufferOK(b), NEW l \in Lpns, NEW r, RequestOK(r, Die(l)),
           NEW st, NEW fl, NEW sl, NEW w, Reaches(Die(l), b, st, fl, sl, w), Delivers(sl, r, w),
           r.request = "RxDMA" => \A s \in SectorsOf(r) : sl[r.slot].value[At(r, s)] \in Contents
    PROVE  Reaches(Die(l), PushToReqQueue(b, l, r), st, fl, sl, Effect(sl, r, w))
<1> DEFINE c == PushToReqQueue(b, l, r)
           d == Die(l)
<1>1. d \in Dies /\ c.queue[d] = Append(b.queue[d], r) /\ c.entry = b.entry
      /\ b.queue[d] \in Seq(Requests) /\ r \in Requests
  BY PushFacts
<1>2. w \in Views(d) /\ Leads(d, sl, b.queue[d], View(d, b.entry, st, fl, sl), w)
  BY DEF Reaches
<1>3. Effect(sl, r, w) \in Views(d)
  BY <1>1, <1>2, EffectFacts
<1>4. Leads(d, sl, c.queue[d], View(d, c.entry, st, fl, sl), Effect(sl, r, w))
  BY <1>1, <1>2, <1>3, LeadsAppend
<1> QED BY <1>3, <1>4 DEF Reaches

\* The transfers stay apart when the one that is pushed is apart from them.
LEMMA PushTransfers ==
    ASSUME NEW b, BufferOK(b), NEW l \in Lpns, NEW r, RequestOK(r, Die(l)), NEW fl, NEW sl,
           Transfers(b.queue, fl, sl), Owed(sl, r, r.request, SectorsOf(r)),
           \A d \in Dies : \A i \in 1 .. Len(b.queue[d]) :
              Apart(b.queue[d][i], SectorsOf(b.queue[d][i]), r, SectorsOf(r)),
           \A e \in Entries : Apart(r, SectorsOf(r), fl[e], fl[e].left)
    PROVE  Transfers(PushToReqQueue(b, l, r).queue, fl, sl)
<1> DEFINE q == b.queue
           p == PushToReqQueue(b, l, r).queue
           k == Die(l)
           n == Len(q[k])
<1>1. /\ k \in Dies /\ p[k] = Append(q[k], r) /\ q[k] \in Seq(Requests) /\ r \in Requests
      /\ \A d \in Dies \ {k} : p[d] = q[d]
  BY PushFacts
<1>2. n \in Nat /\ Len(p[k]) = n + 1 /\ p[k][n + 1] = r /\ \A i \in 1 .. n : p[k][i] = q[k][i]
  BY <1>1, LenProperties, AppendProperties
<1> HIDE DEF p, n, k
<1>3. \A d \in Dies : \A i \in 1 .. Len(p[d]) :
         \/ d = k /\ i = n + 1 /\ p[d][i] = r
         \/ i \in 1 .. Len(q[d]) /\ p[d][i] = q[d][i] /\ ~(d = k /\ i = n + 1)
  <2> SUFFICES ASSUME NEW d \in Dies, NEW i \in 1 .. Len(p[d])
               PROVE  \/ d = k /\ i = n + 1 /\ p[d][i] = r
                      \/ i \in 1 .. Len(q[d]) /\ p[d][i] = q[d][i] /\ ~(d = k /\ i = n + 1)
    OBVIOUS
  <2>1. CASE d # k
    BY <1>1, <2>1
  <2>2. CASE d = k /\ i = n + 1
    BY <1>2, <2>2
  <2>3. CASE d = k /\ i # n + 1
    <3>1. i \in 1 .. n
      BY <1>2, <2>3
    <3> QED BY <1>2, <2>3, <3>1 DEF n
  <2> QED BY <2>1, <2>2, <2>3
<1>4. ASSUME NEW d \in Dies, NEW i \in 1 .. Len(p[d])
      PROVE  /\ Owed(sl, p[d][i], p[d][i].request, SectorsOf(p[d][i]))
             /\ \A e \in Entries : Apart(p[d][i], SectorsOf(p[d][i]), fl[e], fl[e].left)
  BY <1>3 DEF Transfers
<1>5. \A x, y, xs, ys : Apart(x, xs, y, ys) => Apart(y, ys, x, xs)
  BY DEF Apart
<1>6. ASSUME NEW c \in Dies, NEW d \in Dies, NEW i \in 1 .. Len(p[c]), NEW j \in 1 .. Len(p[d]),
             <<c, i>> # <<d, j>>
      PROVE  Apart(p[c][i], SectorsOf(p[c][i]), p[d][j], SectorsOf(p[d][j]))
  <2>1. CASE c = k /\ i = n + 1
    <3>1. ~(d = k /\ j = n + 1)
      BY <1>6, <2>1
    <3>2. p[c][i] = r /\ j \in 1 .. Len(q[d]) /\ p[d][j] = q[d][j]
      BY <1>2, <1>3, <2>1, <3>1
    <3> QED BY <1>5, <3>2
  <2>2. CASE ~(c = k /\ i = n + 1)
    <3>1. i \in 1 .. Len(q[c]) /\ p[c][i] = q[c][i]
      BY <1>3, <2>2
    <3>2. CASE d = k /\ j = n + 1
      <4>1. p[d][j] = r
        BY <1>2, <3>2
      <4> QED BY <3>1, <4>1
    <3>3. CASE ~(d = k /\ j = n + 1)
      <4>1. j \in 1 .. Len(q[d]) /\ p[d][j] = q[d][j]
        BY <1>3, <3>3
      <4> QED BY <1>6, <3>1, <4>1 DEF Transfers
    <3> QED BY <3>2, <3>3
  <2> QED BY <2>1, <2>2
<1>7. \A e, f \in Entries : e # f => Apart(fl[e], fl[e].left, fl[f], fl[f].left)
  BY DEF Transfers
<1>8. \A e \in Entries : Owed(sl, fl[e], fl[e].kind, fl[e].left)
  BY DEF Transfers
<1> QED BY <1>4, <1>6, <1>7, <1>8 DEF Transfers, p

\* A request that moves nothing is apart from all.
LEMMA PushQuiet ==
    ASSUME NEW b, BufferOK(b), NEW l \in Lpns, NEW r, RequestOK(r, Die(l)), NEW fl, NEW sl,
           Transfers(b.queue, fl, sl), SectorsOf(r) = {}
    PROVE  /\ Transfers(PushToReqQueue(b, l, r).queue, fl, sl)
           /\ \A t, n : Below(b.queue, fl, t, n) => Below(PushToReqQueue(b, l, r).queue, fl, t, n)
<1> DEFINE q == b.queue
           p == PushToReqQueue(b, l, r).queue
<1>1. Transfers(p, fl, sl)
  <2>1. \A x, xs : Apart(x, xs, r, SectorsOf(r)) /\ Apart(r, SectorsOf(r), x, xs)
    BY DEF Apart
  <2>2. Owed(sl, r, r.request, SectorsOf(r))
    BY DEF Owed
  <2> QED BY <2>1, <2>2, PushTransfers
<1>2. ASSUME NEW d \in Dies, NEW i \in 1 .. Len(p[d])
      PROVE  SectorsOf(p[d][i]) = {} \/ (i \in 1 .. Len(q[d]) /\ p[d][i] = q[d][i])
  <2>1. /\ Die(l) \in Dies /\ p[Die(l)] = Append(q[Die(l)], r)
        /\ q[Die(l)] \in Seq(Requests) /\ r \in Requests
        /\ \A k \in Dies \ {Die(l)} : p[k] = q[k]
    BY PushFacts
  <2>2. CASE d # Die(l)
    BY <2>1, <2>2
  <2>3. CASE d = Die(l)
    <3>1. /\ Len(q[d]) \in Nat /\ Len(p[d]) = Len(q[d]) + 1 /\ p[d][Len(q[d]) + 1] = r
          /\ \A j \in 1 .. Len(q[d]) : p[d][j] = q[d][j]
      BY <2>1, <2>3, LenProperties, AppendProperties
    <3> HIDE DEF p, q
    <3>2. CASE i = Len(q[d]) + 1
      BY <3>1, <3>2
    <3>3. CASE i # Len(q[d]) + 1
      BY <3>1, <3>3
    <3> QED BY <3>2, <3>3
  <2> QED BY <2>2, <2>3
<1>3. ASSUME NEW t, NEW n, Below(q, fl, t, n) PROVE Below(p, fl, t, n)
  <2> HIDE DEF p
  <2> QED BY <1>2, <1>3 DEF Below
<1> QED BY <1>1, <1>3

\* A transfer that starts at sector n of its command is apart from those before.
LEMMA PushNext ==
    ASSUME NEW b, BufferOK(b), NEW l \in Lpns, NEW r, RequestOK(r, Die(l)), NEW fl, NEW sl,
           FlyingOK(fl), Transfers(b.queue, fl, sl), r.request \in DmaKinds, NEW t, r.slot = t,
           Owed(sl, r, r.request, SectorsOf(r)),
           NEW n \in Nat, Below(b.queue, fl, t, n), r.dmaIndex = n
    PROVE  /\ Transfers(PushToReqQueue(b, l, r).queue, fl, sl)
           /\ Below(PushToReqQueue(b, l, r).queue, fl, t, n + r.subReqSect)
<1> DEFINE q == b.queue
           p == PushToReqQueue(b, l, r).queue
           m == n + r.subReqSect
<1>1. r \in Requests /\ r.offset \in Nat /\ r.subReqSect \in Nat /\ m \in Nat /\ n <= m
  <2>1. r \in Requests
    BY DEF RequestOK
  <2> QED BY <2>1, Sizes DEF Requests, Sectors
<1>2. \A s \in SectorsOf(r) : At(r, s) \in Int /\ n <= At(r, s) /\ At(r, s) < m
  <2>1. SectorsOf(r) = r.offset .. r.offset + r.subReqSect - 1
    BY DEF SectorsOf
  <2> QED BY <1>1, <2>1 DEF At
<1>3. \A d \in Dies : \A i \in 1 .. Len(q[d]) : \A s \in SectorsOf(q[d][i]) :
         s \in Int /\ At(q[d][i], s) \in Int
  <2> SUFFICES ASSUME NEW d \in Dies, NEW i \in 1 .. Len(q[d]), NEW s \in SectorsOf(q[d][i])
               PROVE  s \in Int /\ At(q[d][i], s) \in Int
    OBVIOUS
  <2>1. q[d][i] \in Requests /\ SectorsOf(q[d][i]) \subseteq Sectors
    <3>1. RequestOK(q[d][i], d)
      BY DEF BufferOK
    <3> QED BY <3>1 DEF RequestOK, SectorsOf
  <2>2. q[d][i].dmaIndex \in Nat /\ q[d][i].offset \in Int /\ s \in Int
    BY <2>1, Sizes DEF Requests, Sectors
  <2> QED BY <2>2 DEF At
<1>4. \A e \in Entries : \A s \in fl[e].left : At(fl[e], s) \in Int
  <2> SUFFICES ASSUME NEW e \in Entries, NEW s \in fl[e].left PROVE At(fl[e], s) \in Int
    OBVIOUS
  <2>1. fl[e] \in Flights
    BY DEF FlyingOK
  <2>2. fl[e].dmaIndex \in Nat /\ fl[e].offset \in Int /\ s \in Int
    BY <2>1, Sizes DEF Flights, Sectors
  <2> QED BY <2>2 DEF At
<1>5. \A d \in Dies : \A i \in 1 .. Len(q[d]) : Apart(q[d][i], SectorsOf(q[d][i]), r, SectorsOf(r))
  <2> SUFFICES ASSUME NEW d \in Dies, NEW i \in 1 .. Len(q[d]), q[d][i].slot = r.slot,
                      NEW s \in SectorsOf(q[d][i]), NEW u \in SectorsOf(r)
               PROVE  At(q[d][i], s) # At(r, u)
    BY DEF Apart
  <2>1. At(q[d][i], s) < n /\ At(q[d][i], s) \in Int
    BY <1>3 DEF Below
  <2> QED BY <1>2, <2>1
<1>6. \A e \in Entries : Apart(r, SectorsOf(r), fl[e], fl[e].left)
  <2> SUFFICES ASSUME NEW e \in Entries, fl[e].slot = r.slot,
                      NEW s \in fl[e].left, NEW u \in SectorsOf(r)
               PROVE  At(r, u) # At(fl[e], s)
    BY DEF Apart
  <2>1. At(fl[e], s) < n /\ At(fl[e], s) \in Int
    BY <1>4 DEF Below
  <2> QED BY <1>2, <2>1
<1>7. Transfers(p, fl, sl)
  BY <1>5, <1>6, PushTransfers
<1>8. ASSUME NEW d \in Dies, NEW i \in 1 .. Len(p[d])
      PROVE  p[d][i] = r \/ (i \in 1 .. Len(q[d]) /\ p[d][i] = q[d][i])
  <2>1. /\ Die(l) \in Dies /\ p[Die(l)] = Append(q[Die(l)], r)
        /\ q[Die(l)] \in Seq(Requests) /\ r \in Requests
        /\ \A k \in Dies \ {Die(l)} : p[k] = q[k]
    BY PushFacts
  <2>2. CASE d # Die(l)
    BY <2>1, <2>2
  <2>3. CASE d = Die(l)
    <3>1. /\ Len(q[d]) \in Nat /\ Len(p[d]) = Len(q[d]) + 1 /\ p[d][Len(q[d]) + 1] = r
          /\ \A j \in 1 .. Len(q[d]) : p[d][j] = q[d][j]
      BY <1>1, <2>1, <2>3, LenProperties, AppendProperties
    <3> HIDE DEF p, q
    <3>2. CASE i = Len(q[d]) + 1
      BY <3>1, <3>2
    <3>3. CASE i # Len(q[d]) + 1
      BY <3>1, <3>3
    <3> QED BY <3>2, <3>3
  <2> QED BY <2>2, <2>3
<1>9. Below(p, fl, t, m)
  <2>1. ASSUME NEW d \in Dies, NEW i \in 1 .. Len(p[d]), p[d][i].slot = t,
               NEW s \in SectorsOf(p[d][i])
        PROVE  At(p[d][i], s) < m
    <3>1. CASE p[d][i] = r
      BY <1>2, <2>1, <3>1
    <3>2. CASE i \in 1 .. Len(q[d]) /\ p[d][i] = q[d][i]
      <4>1. At(q[d][i], s) < n /\ At(q[d][i], s) \in Int
        BY <1>3, <2>1, <3>2 DEF Below
      <4> QED BY <1>1, <3>2, <4>1
    <3> QED BY <1>8, <3>1, <3>2
  <2>2. ASSUME NEW e \in Entries, fl[e].slot = t, NEW s \in fl[e].left
        PROVE  At(fl[e], s) < m
    <3>1. At(fl[e], s) < n /\ At(fl[e], s) \in Int
      BY <1>4, <2>2 DEF Below
    <3> QED BY <1>1, <3>1
  <2> HIDE DEF p, m
  <2> QED BY <2>1, <2>2 DEF Below
<1> QED BY <1>7, <1>9

(***************************************************************************)
(* A page is brought into the buffer.                                      *)
(***************************************************************************)

\* c has the data of b, and no transfers of later sectors
Kin(b, c, fl) ==
    /\ \A e \in Entries : c.entry[e].data = b.entry[e].data
    /\ \A t, n : Below(b.queue, fl, t, n) => Below(c.queue, fl, t, n)

\* A page is hit where it is, and in one entry only.
LEMMA HitsFacts ==
    ASSUME NEW b, BufferOK(b), NEW l \in Lpns
    PROVE  /\ \A e : e \in Hits(b, l) <=> e \in EntriesOf(Die(l)) /\ b.entry[e].lpn = l
           /\ \A e, f \in Hits(b, l) : e = f
           /\ Hits(b, l) # {} => (CHOOSE e \in Hits(b, l) : TRUE) \in Hits(b, l)
<1> DEFINE d == Die(l)
           list == b.lru[d]
<1>1. d \in Dies /\ l # None
  <2>1. l \in Nat
    BY DieOfPage
  <2> QED BY <2>1, DieOfPage, BufferAssumption
<1>2. ListOK(list, d) /\ PagesOK(b.entry, d) /\ list \in Seq(Entries)
  BY <1>1 DEF BufferOK, Buffers
<1>3. DOMAIN list = 1 .. Len(list)
  BY <1>2, LenProperties
<1>4. {list[i] : i \in DOMAIN list} = EntriesOf(d)
  BY <1>2, <1>3 DEF ListOK
<1>5. Hits(b, l) = {e \in EntriesOf(d) : b.entry[e].lpn = l}
  BY <1>4 DEF Hits
<1> QED BY <1>1, <1>2, <1>5 DEF PagesOK

\* A hit changes the order of the list only.
LEMMA TouchedFacts ==
    ASSUME NEW b, BufferOK(b), NEW l \in Lpns, NEW e \in EntriesOf(Die(l))
    PROVE  LET c == Touched(b, l, e)
           IN  /\ BufferOK(c) /\ c.entry = b.entry /\ c.mapped = b.mapped /\ c.queue = b.queue
               /\ c.lru[Die(l)][1] = e
               /\ \A d \in Dies \ {Die(l)} : c.lru[d] = b.lru[d]
<1> DEFINE c == Touched(b, l, e)
           d == Die(l)
           new == ToFront(b.lru[d], e)
<1>1. d \in Dies /\ b \in Buffers
  BY DieOfPage DEF BufferOK
<1>2. b.lru \in [Dies -> Seq(Entries)] /\ ListOK(b.lru[d], d) /\ b.lru[d] \in Seq(Entries)
  BY <1>1 DEF Buffers, BufferOK
<1>3. new \in Seq(Entries) /\ ListOK(new, d) /\ new[1] = e
  BY <1>1, <1>2, ToFrontFacts
<1>4. c = [entry |-> b.entry, lru |-> [b.lru EXCEPT ![d] = new],
           mapped |-> b.mapped, queue |-> b.queue]
  <2>1. b = [entry |-> b.entry, lru |-> b.lru, mapped |-> b.mapped, queue |-> b.queue]
    BY <1>1 DEF Buffers
  <2>2. c = [b EXCEPT !.lru[d] = new]
    BY DEF Touched
  <2> HIDE DEF c, new
  <2> QED BY <2>1, <2>2
<1> HIDE DEF c, new
<1>5. [b.lru EXCEPT ![d] = new] \in [Dies -> Seq(Entries)]
  BY <1>1, <1>2, <1>3
<1>6. c \in Buffers
  BY <1>1, <1>4, <1>5 DEF Buffers
<1>7. c.lru[d] = new /\ \A k \in Dies \ {d} : c.lru[k] = b.lru[k]
  BY <1>1, <1>2, <1>4
<1>8. \A k \in Dies : ListOK(c.lru[k], k)
  BY <1>3, <1>7 DEF BufferOK
<1>9. c.entry = b.entry /\ c.mapped = b.mapped /\ c.queue = b.queue
  BY <1>4
<1>10. BufferOK(c)
  BY <1>6, <1>8, <1>9 DEF BufferOK
<1> QED BY <1>3, <1>7, <1>9, <1>10 DEF c

\* The page in the entry that is evicted is remembered as mapped.
LEMMA MappedFacts ==
    ASSUME NEW b, BufferOK(b), NEW l \in Lpns
    PROVE  LET c == [b EXCEPT !.mapped = @ \cup {l}]
           IN  /\ BufferOK(c) /\ c.entry = b.entry /\ c.lru = b.lru /\ c.queue = b.queue
               /\ c.mapped = b.mapped \cup {l}
<1> DEFINE c == [b EXCEPT !.mapped = @ \cup {l}]
<1>1. b \in Buffers
  BY DEF BufferOK
<1>2. c = [entry |-> b.entry, lru |-> b.lru, mapped |-> b.mapped \cup {l}, queue |-> b.queue]
  <2>1. b = [entry |-> b.entry, lru |-> b.lru, mapped |-> b.mapped, queue |-> b.queue]
    BY <1>1 DEF Buffers
  <2> QED BY <2>1
<1> HIDE DEF c
<1>3. c \in Buffers
  BY <1>1, <1>2 DEF Buffers
<1>4. /\ c.entry = b.entry /\ c.lru = b.lru /\ c.queue = b.queue
      /\ c.mapped = b.mapped \cup {l}
  BY <1>2
<1>5. BufferOK(c)
  BY <1>3, <1>4 DEF BufferOK
<1> QED BY <1>4, <1>5 DEF c

\* A request of the firmware itself.
LEMMA RequestFacts ==
    ASSUME NEW d \in Dies, NEW e \in EntriesOf(d), NEW l \in LpnsOf(d),
           NEW kind \in {"ProgramPage", "ReadPage"}
    PROVE  /\ RequestOK(Request(kind, e, l), d) /\ SectorsOf(Request(kind, e, l)) = {}
           /\ Request(kind, e, l).request = kind
           /\ Request(kind, e, l).entry = e /\ Request(kind, e, l).lpn = l
<1> DEFINE r == Request(kind, e, l)
<1>1. r = [request |-> kind, entry |-> e, lpn |-> l, slot |-> None,
           dmaIndex |-> 0, offset |-> 0, subReqSect |-> 0]
  BY DEF Request
<1>2. e \in Entries /\ l \in Lpns /\ 0 \in Sectors /\ 0 \in 0 .. SECTOR_NUM_PER_PAGE
  BY EntriesOfDie, Sizes DEF LpnsOf, Sectors
<1> HIDE DEF r
<1>3. r \in Requests
  BY <1>1, <1>2 DEF Requests
<1>4. r.request \notin DmaKinds /\ r.request = kind /\ r.entry = e /\ r.lpn = l
  BY <1>1 DEF DmaKinds
<1>5. SectorsOf(r) = {}
  BY <1>4 DEF SectorsOf
<1> QED BY <1>3, <1>4, <1>5 DEF RequestOK, r

\* c has the page l in entry e, where it belongs, but for its data; the NAND has it.
Almost(b, st, fl, sl, lt, l, e) ==
    /\ Base(b, st, fl, sl, lt) /\ Others(Die(l), b, st, fl, sl, lt)
    /\ e \in EntriesOf(Die(l)) /\ b.entry[e].lpn = l
    /\ \E w : /\ Reaches(Die(l), b, st, fl, sl, w)
              /\ \A k \in LpnsOf(Die(l)) \ {l} : Kept(Die(l), k, b.entry, b.mapped, lt, w)
              /\ InStore(l, b.mapped, lt, w)

\* The page of the entry that is evicted goes to the NAND, unless it is there.
LEMMA EvictedFacts ==
    ASSUME NEW b, NEW st, NEW fl, NEW sl, NEW lt, Sound(b, st, fl, sl, lt),
           NEW l \in Lpns, NEW e \in EntriesOf(Die(l))
    PROVE  LET c == Evicted(b, l, e)
               old == b.entry[e].lpn
           IN  /\ Base(c, st, fl, sl, lt) /\ Others(Die(l), c, st, fl, sl, lt)
               /\ c.entry = b.entry /\ c.lru = b.lru /\ Kin(b, c, fl)
               /\ \E w : /\ Reaches(Die(l), c, st, fl, sl, w)
                         /\ \A k \in LpnsOf(Die(l)) \ {old} : Kept(Die(l), k, b.entry, c.mapped, lt, w)
                         /\ old # None => InStore(old, c.mapped, lt, w)
<1> DEFINE c == Evicted(b, l, e)
           d == Die(l)
           old == b.entry[e].lpn
<1>1. d \in Dies /\ e \in Entries /\ BufferOK(b) /\ b \in Buffers /\ PagesOK(b.entry, d)
  BY DieOfPage, EntriesOfDie DEF Sound, BufferOK
<1>2. b.entry[e] \in [lpn : Lpns \cup {None}, dirty : BOOLEAN, data : PageData]
  BY <1>1 DEF Buffers
<1>3. old # None => old \in LpnsOf(d)
  BY <1>1, <1>2 DEF PagesOK, LpnsOf
<1>4. PICK w : /\ Reaches(d, b, st, fl, sl, w)
               /\ \A k \in LpnsOf(d) : Kept(d, k, b.entry, b.mapped, lt, w)
  BY <1>1 DEF Sound, DieKeeps, Reaches
<1>5. CASE ~b.entry[e].dirty
  <2>1. c = b
    BY <1>5 DEF Evicted
  <2>2. old # None => InStore(old, b.mapped, lt, w)
    <3> SUFFICES ASSUME old # None PROVE InStore(old, b.mapped, lt, w)
      OBVIOUS
    <3>1. Kept(d, old, b.entry, b.mapped, lt, w)
      BY <1>3, <1>4
    <3>2. \A f \in EntriesOf(d) : b.entry[f].lpn = old => ~b.entry[f].dirty
      BY <1>1, <1>5 DEF PagesOK
    <3> QED BY <3>1, <3>2 DEF Kept
  <2>3. Base(b, st, fl, sl, lt) /\ Others(d, b, st, fl, sl, lt) /\ Kin(b, b, fl)
    BY DEF Sound, Base, Others, Kin
  <2> QED BY <1>4, <2>1, <2>2, <2>3
<1>6. CASE b.entry[e].dirty
  <2> DEFINE m == [b EXCEPT !.mapped = @ \cup {old}]
             r == Request("ProgramPage", e, old)
             x == Effect(sl, r, w)
  <2>1. c = PushToReqQueue(m, old, r)
    BY <1>6 DEF Evicted
  <2>2. old # None /\ old \in LpnsOf(d) /\ old \in Lpns /\ Die(old) = d
    BY <1>1, <1>3, <1>6 DEF PagesOK, LpnsOf
  <2>3. /\ BufferOK(m) /\ m.entry = b.entry /\ m.lru = b.lru /\ m.queue = b.queue
        /\ m.mapped = b.mapped \cup {old}
    BY <1>1, <2>2, MappedFacts
  <2>4. /\ RequestOK(r, d) /\ SectorsOf(r) = {} /\ r.request = "ProgramPage"
        /\ r.entry = e /\ r.lpn = old
    BY <1>1, <2>2, RequestFacts
  <2> HIDE DEF m, r, c
  <2>5. /\ BufferOK(c) /\ c.entry = b.entry /\ c.lru = b.lru /\ c.mapped = b.mapped \cup {old}
        /\ \A k \in Dies \ {d} : c.queue[k] = b.queue[k]
    BY <2>1, <2>2, <2>3, <2>4, PushFacts
  <2>6. /\ Transfers(c.queue, fl, sl)
        /\ \A t, n : Below(b.queue, fl, t, n) => Below(c.queue, fl, t, n)
    <3>1. Transfers(m.queue, fl, sl)
      BY <2>3 DEF Sound
    <3> QED BY <2>1, <2>2, <2>3, <2>4, <3>1, PushQuiet
  <2>7. Base(c, st, fl, sl, lt)
    BY <2>5, <2>6 DEF Sound, Base
  <2>8. Others(d, c, st, fl, sl, lt)
    <3> SUFFICES ASSUME NEW k \in Dies \ {d} PROVE DieKeeps(k, c, st, fl, sl, lt)
      BY DEF Others
    <3>1. DieKeeps(k, b, st, fl, sl, lt) /\ c.queue[k] = b.queue[k]
      BY <2>5 DEF Sound
    <3>2. \A i \in 1 .. Len(b.queue[k]) :
             RequestOK(b.queue[k][i], k) /\ Same(sl, sl, b.queue[k][i], SectorsOf(b.queue[k][i]))
      BY <1>1 DEF BufferOK, Same
    <3>3. \A f \in EntriesOf(k) : Same(sl, sl, fl[f], fl[f].left) /\ c.entry[f] = b.entry[f]
      BY <2>5 DEF Same
    <3>4. \A j \in LpnsOf(k) : j \in b.mapped <=> j \in c.mapped
      BY <2>2, <2>5 DEF LpnsOf
    <3> QED BY <3>1, <3>2, <3>3, <3>4, OtherDie
  <2>9. Reaches(d, c, st, fl, sl, x)
    <3>1. Reaches(d, m, st, fl, sl, w)
      BY <1>4, <2>3 DEF Reaches
    <3>2. Delivers(sl, r, w)
      BY <2>4 DEF Delivers
    <3> QED BY <2>1, <2>2, <2>3, <2>4, <3>1, <3>2, PushReaches
  <2>10. w \in Views(d) /\ w.stored \in [LpnsOf(d) -> PageData]
    BY <1>4 DEF Reaches, Views
  <2>11. /\ x.data = w.data /\ x.stored[old] = w.data[e]
         /\ \A k \in LpnsOf(d) \ {old} : x.stored[k] = w.stored[k]
    <3>1. Saved(d, r.entry, r.lpn, w, x)
      BY <1>1, <2>4, <2>10, EffectFacts
    <3> HIDE DEF x
    <3> QED BY <2>4, <3>1 DEF Saved
  <2> HIDE DEF x
  <2>12. ASSUME NEW k \in LpnsOf(d) \ {old}
         PROVE  Kept(d, k, b.entry, c.mapped, lt, x)
    <3>1. Kept(d, k, b.entry, b.mapped, lt, w)
      BY <1>4
    <3>2. x.stored[k] = w.stored[k] /\ (k \in c.mapped <=> k \in b.mapped)
      BY <2>5, <2>10, <2>11
    <3> QED BY <2>11, <3>1, <3>2 DEF Kept, InStore
  <2>13. InStore(old, c.mapped, lt, x)
    <3>1. Kept(d, old, b.entry, b.mapped, lt, w)
      BY <1>4, <2>2
    <3>2. \A s \in Sectors : Agrees(w.data[e][s], lt[old][s])
      BY <3>1 DEF Kept
    <3>3. x.stored[old] = w.data[e] /\ old \in c.mapped
      BY <2>2, <2>5, <2>10, <2>11
    <3> QED BY <3>2, <3>3 DEF InStore
  <2>14. Kin(b, c, fl)
    BY <2>5, <2>6 DEF Kin
  <2> QED BY <2>5, <2>7, <2>8, <2>9, <2>12, <2>13, <2>14 DEF c
<1>7. b.entry[e].dirty \in BOOLEAN
  BY <1>2
<1> QED BY <1>5, <1>6, <1>7

\* The entry of b whose page was evicted becomes that of page l.
Given(b, l, e, dirty) ==
    [b EXCEPT !.lru[Die(l)] = ToFront(@, e), !.entry[e].lpn = l, !.entry[e].dirty = dirty]

\* Only that entry changes, and not its data.
LEMMA GivenFacts ==
    ASSUME NEW b, BufferOK(b), NEW l \in Lpns, NEW e \in EntriesOf(Die(l)), Hits(b, l) = {},
           NEW dirty \in BOOLEAN
    PROVE  LET c == Given(b, l, e, dirty)
           IN  /\ BufferOK(c) /\ c.mapped = b.mapped /\ c.queue = b.queue
               /\ c.lru[Die(l)][1] = e
               /\ c.entry[e].lpn = l /\ c.entry[e].dirty = dirty /\ c.entry[e].data = b.entry[e].data
               /\ \A f \in Entries \ {e} : c.entry[f] = b.entry[f]
<1> DEFINE c == Given(b, l, e, dirty)
           d == Die(l)
           new == ToFront(b.lru[d], e)
           Record == [lpn : Lpns \cup {None}, dirty : BOOLEAN, data : PageData]
           filled == [lpn |-> l, dirty |-> dirty, data |-> b.entry[e].data]
<1>1. d \in Dies /\ b \in Buffers /\ e \in Entries /\ l \in Lpns /\ l # None
  <2>1. l \in Nat
    BY DieOfPage
  <2> QED BY <2>1, DieOfPage, EntriesOfDie, BufferAssumption DEF BufferOK
<1>2. b.lru \in [Dies -> Seq(Entries)] /\ ListOK(b.lru[d], d) /\ b.lru[d] \in Seq(Entries)
      /\ b.entry \in [Entries -> Record] /\ b.entry[e] \in Record
  BY <1>1 DEF Buffers, BufferOK
<1>3. new \in Seq(Entries) /\ ListOK(new, d) /\ new[1] = e
  BY <1>1, <1>2, ToFrontFacts
<1>4. c = [entry |-> [b.entry EXCEPT ![e] = filled], lru |-> [b.lru EXCEPT ![d] = new],
           mapped |-> b.mapped, queue |-> b.queue]
  <2>1. b = [entry |-> b.entry, lru |-> b.lru, mapped |-> b.mapped, queue |-> b.queue]
    BY <1>1 DEF Buffers
  <2>2. c = [b EXCEPT !.lru[d] = new, !.entry[e].lpn = l, !.entry[e].dirty = dirty]
    BY DEF Given
  <2> HIDE DEF c, new
  <2>3. c = [entry |-> [b.entry EXCEPT ![e].lpn = l, ![e].dirty = dirty],
             lru |-> [b.lru EXCEPT ![d] = new], mapped |-> b.mapped, queue |-> b.queue]
    BY <2>1, <2>2
  <2>4. [b.entry EXCEPT ![e].lpn = l, ![e].dirty = dirty] = [b.entry EXCEPT ![e] = filled]
    BY <1>1, <1>2
  <2> QED BY <2>3, <2>4
<1> HIDE DEF c, new
<1>5. [b.lru EXCEPT ![d] = new] \in [Dies -> Seq(Entries)]
  BY <1>1, <1>2, <1>3
<1>6. filled \in Record
  BY <1>1, <1>2
<1>7. [b.entry EXCEPT ![e] = filled] \in [Entries -> Record]
  BY <1>1, <1>2, <1>6
<1>8. c \in Buffers
  BY <1>1, <1>4, <1>5, <1>7 DEF Buffers
<1>9. c.lru[d] = new /\ \A k \in Dies \ {d} : c.lru[k] = b.lru[k]
  BY <1>1, <1>2, <1>4
<1>10. /\ c.entry[e].lpn = l /\ c.entry[e].dirty = dirty /\ c.entry[e].data = b.entry[e].data
       /\ \A f \in Entries \ {e} : c.entry[f] = b.entry[f]
  <2>1. c.entry[e] = filled /\ \A f \in Entries \ {e} : c.entry[f] = b.entry[f]
    BY <1>1, <1>2, <1>4
  <2> QED BY <2>1
<1>11. \A k \in Dies : ListOK(c.lru[k], k)
  BY <1>3, <1>9 DEF BufferOK
<1>12. c.mapped = b.mapped /\ c.queue = b.queue
  BY <1>4
<1>13. ASSUME NEW k \in Dies PROVE PagesOK(c.entry, k)
  <2>1. PagesOK(b.entry, k) /\ EntriesOf(k) \subseteq Entries
    BY EntriesOfDie DEF BufferOK
  <2>2. CASE k # d
    <3>1. \A f \in EntriesOf(k) : f # e
      BY <1>1, <2>2, EntriesApart
    <3>2. \A f \in EntriesOf(k) : c.entry[f] = b.entry[f]
      BY <1>10, <2>1, <3>1
    <3> QED BY <2>1, <3>2 DEF PagesOK
  <2>3. CASE k = d
    <3>1. \A f \in EntriesOf(d) : b.entry[f].lpn # l
      BY HitsFacts
    <3>2. \A f \in EntriesOf(d) \ {e} : c.entry[f] = b.entry[f]
      BY <1>10, <2>1, <2>3
    <3> QED BY <1>1, <1>10, <2>1, <2>3, <3>1, <3>2 DEF PagesOK
  <2> QED BY <2>2, <2>3
<1>14. BufferOK(c)
  BY <1>8, <1>11, <1>12, <1>13 DEF BufferOK
<1> QED BY <1>3, <1>9, <1>10, <1>12, <1>14 DEF c

\* The victim is an entry of the die, and not the one used last.
LEMMA VictimFacts ==
    ASSUME NEW b, BufferOK(b), NEW l \in Lpns
    PROVE  Victim(b, l) \in EntriesOf(Die(l)) /\ Victim(b, l) # b.lru[Die(l)][1]
<1>1. Die(l) \in Dies
  BY DieOfPage
<1>2. ListOK(b.lru[Die(l)], Die(l)) /\ b.lru[Die(l)] \in Seq(Entries)
  BY <1>1 DEF BufferOK, Buffers
<1> QED BY <1>1, <1>2, LastEntry DEF Victim

\* An allocation leaves the page in its entry, but for its data.
LEMMA AllocatedFacts ==
    ASSUME NEW b, NEW st, NEW fl, NEW sl, NEW lt, Sound(b, st, fl, sl, lt),
           NEW l \in Lpns, Hits(b, l) = {}, NEW dirty \in BOOLEAN
    PROVE  LET c == Allocated(b, l, dirty)
               e == Victim(b, l)
           IN  /\ Almost(c, st, fl, sl, lt, l, e) /\ c.entry[e].dirty = dirty
               /\ Kin(b, c, fl) /\ c.lru[Die(l)][1] = e /\ e # b.lru[Die(l)][1]
               /\ \A f \in Entries \ {e} : c.entry[f] = b.entry[f]
<1> DEFINE e == Victim(b, l)
           d == Die(l)
           m == Evicted(b, l, e)
           c == Given(m, l, e, dirty)
           old == b.entry[e].lpn
<1>1. d \in Dies /\ BufferOK(b) /\ e \in EntriesOf(d) /\ e \in Entries /\ e # b.lru[d][1]
  BY DieOfPage, EntriesOfDie, VictimFacts DEF Sound
<1>2. Allocated(b, l, dirty) = c
  BY DEF Allocated, Given
<1>3. /\ Base(m, st, fl, sl, lt) /\ Others(d, m, st, fl, sl, lt)
      /\ m.entry = b.entry /\ m.lru = b.lru /\ Kin(b, m, fl)
      /\ \E w : /\ Reaches(d, m, st, fl, sl, w)
                /\ \A k \in LpnsOf(d) \ {old} : Kept(d, k, b.entry, m.mapped, lt, w)
                /\ old # None => InStore(old, m.mapped, lt, w)
  BY <1>1, EvictedFacts
<1>4. BufferOK(m) /\ Hits(m, l) = {}
  <2>1. Hits(m, l) = Hits(b, l)
    BY <1>3 DEF Hits
  <2> QED BY <1>3, <2>1 DEF Base
<1> HIDE DEF m, e
<1>5. /\ BufferOK(c) /\ c.mapped = m.mapped /\ c.queue = m.queue /\ c.lru[d][1] = e
      /\ c.entry[e].lpn = l /\ c.entry[e].dirty = dirty /\ c.entry[e].data = m.entry[e].data
      /\ \A f \in Entries \ {e} : c.entry[f] = m.entry[f]
  BY <1>1, <1>4, GivenFacts
<1> HIDE DEF c
<1>6. Base(c, st, fl, sl, lt)
  BY <1>3, <1>5 DEF Base
<1>7. Others(d, c, st, fl, sl, lt)
  <2> SUFFICES ASSUME NEW k \in Dies \ {d} PROVE DieKeeps(k, c, st, fl, sl, lt)
    BY DEF Others
  <2>1. DieKeeps(k, m, st, fl, sl, lt) /\ c.queue[k] = m.queue[k]
    BY <1>3, <1>5 DEF Others
  <2>2. \A i \in 1 .. Len(m.queue[k]) :
           RequestOK(m.queue[k][i], k) /\ Same(sl, sl, m.queue[k][i], SectorsOf(m.queue[k][i]))
    BY <1>4 DEF BufferOK, Same
  <2>3. \A f \in EntriesOf(k) : Same(sl, sl, fl[f], fl[f].left) /\ c.entry[f] = m.entry[f]
    <3>1. \A f \in EntriesOf(k) : f \in Entries /\ f # e
      BY <1>1, EntriesApart, EntriesOfDie
    <3> QED BY <1>5, <3>1 DEF Same
  <2>4. \A j \in LpnsOf(k) : j \in m.mapped <=> j \in c.mapped
    BY <1>5
  <2> QED BY <2>1, <2>2, <2>3, <2>4, OtherDie
<1>8. PICK w : /\ Reaches(d, m, st, fl, sl, w)
               /\ \A k \in LpnsOf(d) \ {old} : Kept(d, k, b.entry, m.mapped, lt, w)
               /\ old # None => InStore(old, m.mapped, lt, w)
  BY <1>3
<1>9. \A f \in Entries : c.entry[f].data = m.entry[f].data
  BY <1>5
<1>10. Reaches(d, c, st, fl, sl, w)
  <2>1. \A f \in EntriesOf(d) : c.entry[f].data = m.entry[f].data
    BY <1>1, <1>9, EntriesOfDie
  <2>2. View(d, c.entry, st, fl, sl) = View(d, m.entry, st, fl, sl)
    BY <2>1 DEF View
  <2> QED BY <1>5, <1>8, <2>2 DEF Reaches
<1>11. \A f \in EntriesOf(d) : b.entry[f].lpn # l
  BY <1>1, HitsFacts
<1>12. \A f \in EntriesOf(d) \ {e} : c.entry[f] = b.entry[f]
  BY <1>1, <1>3, <1>5, EntriesOfDie
<1>13. ASSUME NEW k \in LpnsOf(d) \ {l}
       PROVE  Kept(d, k, c.entry, c.mapped, lt, w)
  <2>1. k # None
    <3>1. k \in Nat
      BY Sizes DEF LpnsOf, Lpns
    <3> QED BY <3>1, BufferAssumption
  <2>2. CASE k = old
    <3>1. \A f \in EntriesOf(d) : c.entry[f].lpn # k
      <4>1. PagesOK(b.entry, d)
        BY <1>1 DEF BufferOK
      <4>2. \A f \in EntriesOf(d) \ {e} : b.entry[f].lpn # k
        BY <1>1, <2>1, <2>2, <4>1 DEF PagesOK
      <4> QED BY <1>5, <1>12, <4>2
    <3>2. InStore(k, c.mapped, lt, w)
      BY <1>5, <1>8, <2>1, <2>2
    <3> QED BY <3>1, <3>2 DEF Kept
  <2>3. CASE k # old
    <3>1. Kept(d, k, b.entry, c.mapped, lt, w)
      BY <1>5, <1>8, <2>3
    <3>2. \A f \in EntriesOf(d) : c.entry[f].lpn = k => f # e /\ c.entry[f] = b.entry[f]
      BY <1>5, <1>12
    <3>3. \A f \in EntriesOf(d) : b.entry[f].lpn = k => f # e
      BY <2>3
    <3>4. \A f \in EntriesOf(d) : b.entry[f].lpn = k => c.entry[f] = b.entry[f]
      BY <1>12, <3>3
    <3> QED BY <3>1, <3>2, <3>4 DEF Kept
  <2> QED BY <2>2, <2>3
<1>14. InStore(l, c.mapped, lt, w)
  <2>1. l \in LpnsOf(d) \ {old}
    BY <1>1, <1>11, DieOfPage
  <2>2. Kept(d, l, b.entry, m.mapped, lt, w)
    BY <1>8, <2>1
  <2> QED BY <1>5, <1>11, <2>2 DEF Kept
<1>15. Almost(c, st, fl, sl, lt, l, e)
  BY <1>1, <1>5, <1>6, <1>7, <1>10, <1>13, <1>14 DEF Almost
<1>16. Kin(b, c, fl)
  BY <1>3, <1>5, <1>9 DEF Kin
<1> QED BY <1>1, <1>2, <1>3, <1>5, <1>15, <1>16 DEF e

\* The page is read, if the NAND has it, and then it is where it belongs.
LEMMA FetchedFacts ==
    ASSUME NEW b, NEW st, NEW fl, NEW sl, NEW lt, NEW l \in Lpns, NEW e,
           Almost(b, st, fl, sl, lt, l, e)
    PROVE  LET c == Fetched(b, l, e)
           IN  Sound(c, st, fl, sl, lt) /\ Kin(b, c, fl) /\ c.entry = b.entry /\ c.lru = b.lru
<1> DEFINE c == Fetched(b, l, e)
           d == Die(l)
<1>1. /\ d \in Dies /\ l \in LpnsOf(d) /\ e \in EntriesOf(d) /\ b.entry[e].lpn = l
      /\ Base(b, st, fl, sl, lt) /\ Others(d, b, st, fl, sl, lt) /\ BufferOK(b) /\ l # None
  <2>1. l \in Nat
    BY DieOfPage
  <2> QED BY <2>1, DieOfPage, BufferAssumption DEF Almost, Base
<1>2. PICK w : /\ Reaches(d, b, st, fl, sl, w)
               /\ \A k \in LpnsOf(d) \ {l} : Kept(d, k, b.entry, b.mapped, lt, w)
               /\ InStore(l, b.mapped, lt, w)
  BY DEF Almost
<1>3. \A f \in EntriesOf(d) : b.entry[f].lpn = l => f = e
  BY <1>1 DEF BufferOK, PagesOK
<1>4. CASE l \notin b.mapped
  <2>1. c = b
    BY <1>4 DEF Fetched
  <2>2. \A s \in Sectors : lt[l][s] = None
    BY <1>2, <1>4 DEF InStore
  <2>3. Kept(d, l, b.entry, b.mapped, lt, w)
    BY <1>2, <2>2 DEF Kept, Agrees
  <2>4. DieKeeps(d, b, st, fl, sl, lt)
    BY <1>2, <2>3 DEF DieKeeps, Reaches
  <2>5. Sound(b, st, fl, sl, lt)
    BY <1>1, <2>4 DEF Sound, Base, Others
  <2> QED BY <2>1, <2>5 DEF Kin
<1>5. CASE l \in b.mapped
  <2> DEFINE r == Request("ReadPage", e, l)
             x == Effect(sl, r, w)
  <2>1. c = PushToReqQueue(b, l, r)
    BY <1>5 DEF Fetched
  <2>2. /\ RequestOK(r, d) /\ SectorsOf(r) = {} /\ r.request = "ReadPage"
        /\ r.entry = e /\ r.lpn = l
    BY <1>1, RequestFacts
  <2> HIDE DEF r, c
  <2>3. /\ BufferOK(c) /\ c.entry = b.entry /\ c.lru = b.lru /\ c.mapped = b.mapped
        /\ \A k \in Dies \ {d} : c.queue[k] = b.queue[k]
    BY <1>1, <2>1, <2>2, PushFacts
  <2>4. /\ Transfers(c.queue, fl, sl)
        /\ \A t, n : Below(b.queue, fl, t, n) => Below(c.queue, fl, t, n)
    <3>1. Transfers(b.queue, fl, sl)
      BY <1>1 DEF Base
    <3> QED BY <1>1, <2>1, <2>2, <3>1, PushQuiet
  <2>5. ASSUME NEW k \in Dies \ {d} PROVE DieKeeps(k, c, st, fl, sl, lt)
    <3>1. DieKeeps(k, b, st, fl, sl, lt) /\ c.queue[k] = b.queue[k]
      BY <1>1, <2>3 DEF Others
    <3>2. \A i \in 1 .. Len(b.queue[k]) :
             RequestOK(b.queue[k][i], k) /\ Same(sl, sl, b.queue[k][i], SectorsOf(b.queue[k][i]))
      BY <1>1 DEF BufferOK, Same
    <3>3. \A f \in EntriesOf(k) : Same(sl, sl, fl[f], fl[f].left) /\ c.entry[f] = b.entry[f]
      BY <2>3 DEF Same
    <3>4. \A j \in LpnsOf(k) : j \in b.mapped <=> j \in c.mapped
      BY <2>3
    <3> QED BY <3>1, <3>2, <3>3, <3>4, OtherDie
  <2>6. Reaches(d, c, st, fl, sl, x)
    <3>1. Delivers(sl, r, w)
      BY <2>2 DEF Delivers
    <3> QED BY <1>1, <1>2, <2>1, <2>2, <3>1, PushReaches
  <2>7. w \in Views(d)
    BY <1>2 DEF Reaches
  <2>8. Filled(d, e, w.stored[l], w, x)
    <3>1. Filled(d, r.entry, w.stored[r.lpn], w, x)
      BY <1>1, <2>2, <2>7, EffectFacts
    <3> QED BY <2>2, <3>1
  <2> HIDE DEF x
  <2>9. ASSUME NEW k \in LpnsOf(d) \ {l} PROVE Kept(d, k, c.entry, c.mapped, lt, x)
    <3>1. Kept(d, k, b.entry, b.mapped, lt, w)
      BY <1>2
    <3>2. \A f \in EntriesOf(d) : b.entry[f].lpn = k => x.data[f] = w.data[f]
      BY <1>1, <2>8 DEF Filled
    <3>3. x.stored = w.stored
      BY <2>8 DEF Filled
    <3> QED BY <2>3, <3>1, <3>2, <3>3 DEF Kept, InStore
  <2>10. Kept(d, l, c.entry, c.mapped, lt, x)
    <3>1. x.stored = w.stored /\ x.data[e] = w.stored[l]
      BY <2>8 DEF Filled
    <3>2. InStore(l, c.mapped, lt, x)
      BY <1>2, <2>3, <3>1 DEF InStore
    <3>3. \A s \in Sectors : Agrees(x.data[e][s], lt[l][s])
      BY <1>2, <3>1 DEF InStore
    <3> QED BY <1>3, <2>3, <3>2, <3>3 DEF Kept
  <2>11. DieKeeps(d, c, st, fl, sl, lt)
    BY <2>6, <2>9, <2>10 DEF DieKeeps, Reaches
  <2>12. Sound(c, st, fl, sl, lt)
    BY <1>1, <2>3, <2>4, <2>5, <2>11 DEF Sound, Base
  <2>13. Kin(b, c, fl)
    BY <2>3, <2>4 DEF Kin
  <2> QED BY <2>3, <2>12, <2>13 DEF c
<1> QED BY <1>4, <1>5

\* the entry a page will be in
Chosen(b, l) == IF Hits(b, l) # {} THEN CHOOSE e \in Hits(b, l) : TRUE ELSE Victim(b, l)

\* After a hit or a fetch the page is in the buffer, in the entry used last;
\* the entry used last before was not taken from its page.
LEMMA PageToBufferFacts ==
    ASSUME NEW b, NEW st, NEW fl, NEW sl, NEW lt, Sound(b, st, fl, sl, lt), NEW l \in Lpns
    PROVE  LET c == PageToBuffer(b, l)
               e == Chosen(b, l)
           IN  /\ Sound(c, st, fl, sl, lt) /\ Kin(b, c, fl)
               /\ e \in EntriesOf(Die(l)) /\ c.entry[e].lpn = l /\ c.lru[Die(l)][1] = e
               /\ e = b.lru[Die(l)][1] => b.entry[e].lpn = l
               /\ \A f \in Entries \ {e} : c.entry[f] = b.entry[f]
<1> DEFINE c == PageToBuffer(b, l)
           e == Chosen(b, l)
           d == Die(l)
<1>1. BufferOK(b) /\ d \in Dies
  BY DieOfPage DEF Sound
<1>2. CASE Hits(b, l) # {}
  <2>1. e \in Hits(b, l) /\ c = Touched(b, l, e)
    BY <1>1, <1>2, HitsFacts DEF Chosen, PageToBuffer
  <2>2. e \in EntriesOf(d) /\ b.entry[e].lpn = l
    BY <1>1, <2>1, HitsFacts
  <2> HIDE DEF c, e
  <2>3. /\ BufferOK(c) /\ c.entry = b.entry /\ c.mapped = b.mapped /\ c.queue = b.queue
        /\ c.lru[d][1] = e
    BY <1>1, <2>1, <2>2, TouchedFacts
  <2>4. \A k \in Dies : DieKeeps(k, b, st, fl, sl, lt) => DieKeeps(k, c, st, fl, sl, lt)
    BY <2>3 DEF DieKeeps
  <2>5. Sound(c, st, fl, sl, lt)
    BY <2>3, <2>4 DEF Sound
  <2>6. Kin(b, c, fl)
    BY <2>3 DEF Kin
  <2> QED BY <2>2, <2>3, <2>5, <2>6 DEF c, e
<1>3. CASE Hits(b, l) = {}
  <2>0. PICK clean \in BOOLEAN : clean = FALSE
    OBVIOUS
  <2> DEFINE m == Allocated(b, l, clean)
  <2>1. e = Victim(b, l) /\ c = Fetched(m, l, e)
    BY <1>3, <2>0 DEF Chosen, PageToBuffer
  <2> HIDE DEF c, e
  <2>2. /\ Almost(m, st, fl, sl, lt, l, e)
        /\ Kin(b, m, fl) /\ m.lru[d][1] = e /\ e # b.lru[d][1]
        /\ \A f \in Entries \ {e} : m.entry[f] = b.entry[f]
    BY <1>3, <2>1, AllocatedFacts
  <2> HIDE DEF m
  <2>3. Sound(c, st, fl, sl, lt) /\ Kin(m, c, fl) /\ c.entry = m.entry /\ c.lru = m.lru
    BY <2>1, <2>2, FetchedFacts
  <2>4. e \in EntriesOf(d) /\ c.entry[e].lpn = l
    BY <2>2, <2>3 DEF Almost
  <2>5. Kin(b, c, fl)
    BY <2>2, <2>3 DEF Kin
  <2> QED BY <2>2, <2>3, <2>4, <2>5 DEF c, e
<1> QED BY <1>2, <1>3

(***************************************************************************)
(* A part of a command.                                                    *)
(***************************************************************************)
PartOK(part) ==
    /\ part.lpn \in Lpns /\ part.dmaIndex \in Nat /\ part.offset \in Sectors
    /\ part.subReqSect \in 1 .. SECTOR_NUM_PER_PAGE - part.offset

PartSectors(part) == part.offset .. part.offset + part.subReqSect - 1

\* The transfer of a part.
LEMMA DmaFacts ==
    ASSUME NEW part, PartOK(part), NEW e \in EntriesOf(Die(part.lpn)), NEW t \in Slots,
           NEW kind \in DmaKinds
    PROVE  LET r == Dma(kind, e, t, part)
           IN  /\ RequestOK(r, Die(part.lpn)) /\ SectorsOf(r) = PartSectors(part)
               /\ r.request = kind /\ r.entry = e /\ r.lpn = part.lpn /\ r.slot = t
               /\ r.dmaIndex = part.dmaIndex /\ r.subReqSect = part.subReqSect
               /\ \A s : At(r, s) = At(part, s)
<1> DEFINE r == Dma(kind, e, t, part)
           d == Die(part.lpn)
<1>1. r = [request |-> kind, entry |-> e, lpn |-> part.lpn, slot |-> t,
           dmaIndex |-> part.dmaIndex, offset |-> part.offset, subReqSect |-> part.subReqSect]
  BY DEF Dma
<1> HIDE DEF r
<1>2. /\ r.request = kind /\ r.entry = e /\ r.lpn = part.lpn /\ r.slot = t
      /\ r.dmaIndex = part.dmaIndex /\ r.offset = part.offset /\ r.subReqSect = part.subReqSect
  BY <1>1
<1>3. d \in Dies /\ part.lpn \in LpnsOf(d) /\ e \in Entries
  <2>1. d \in Dies /\ part.lpn \in LpnsOf(d)
    BY DieOfPage DEF PartOK
  <2> QED BY <2>1, EntriesOfDie
<1>4. /\ SECTOR_NUM_PER_PAGE \in Nat \ {0} /\ part.offset \in 0 .. SECTOR_NUM_PER_PAGE - 1
      /\ part.subReqSect \in 1 .. SECTOR_NUM_PER_PAGE - part.offset
  BY Sizes DEF PartOK, Sectors
<1>5. part.subReqSect \in 0 .. SECTOR_NUM_PER_PAGE
  BY <1>4
<1>6. r \in Requests
  BY <1>1, <1>3, <1>5 DEF Requests, PartOK
<1>7. SectorsOf(r) = PartSectors(part)
  BY <1>2 DEF SectorsOf, PartSectors
<1>8. PartSectors(part) \subseteq Sectors
  BY <1>4 DEF PartSectors, Sectors
<1>9. RequestOK(r, d)
  BY <1>2, <1>3, <1>6, <1>7, <1>8 DEF RequestOK
<1>10. \A s : At(r, s) = At(part, s)
  BY <1>2 DEF At
<1> QED BY <1>2, <1>7, <1>9, <1>10 DEF r

\* A part of a read gets what was written last.
LEMMA ReadPartFacts ==
    ASSUME NEW b, NEW st, NEW fl, NEW sl, NEW lt, Sound(b, st, fl, sl, lt),
           NEW t \in Slots, NEW part, PartOK(part), Below(b.queue, fl, t, part.dmaIndex),
           sl[t].op = "read",
           \A s \in PartSectors(part) : /\ At(part, s) \in sl[t].left
                                        /\ sl[t].value[At(part, s)] = lt[part.lpn][s]
    PROVE  LET c == ReadPart(b, t, part)
           IN  /\ Sound(c, st, fl, sl, lt)
               /\ Below(c.queue, fl, t, part.dmaIndex + part.subReqSect)
               /\ \A f \in Entries : c.entry[f].data = b.entry[f].data
<1> DEFINE l == part.lpn
           d == Die(l)
           e == Chosen(b, l)
           m == PageToBuffer(b, l)
           r == Dma("TxDMA", e, t, part)
           c == PushToReqQueue(m, l, r)
<1>1. ReadPart(b, t, part) = c
  BY DEF ReadPart, PageToBuffer, Chosen
<1>2. l \in Lpns /\ d \in Dies /\ l \in LpnsOf(d) /\ part.dmaIndex \in Nat
  BY DieOfPage DEF PartOK
<1>3. /\ Sound(m, st, fl, sl, lt) /\ Kin(b, m, fl) /\ e \in EntriesOf(d) /\ m.entry[e].lpn = l
  BY <1>2, PageToBufferFacts
<1> HIDE DEF m, e
<1>4. /\ RequestOK(r, d) /\ SectorsOf(r) = PartSectors(part)
      /\ r.request = "TxDMA" /\ r.entry = e /\ r.slot = t
      /\ r.dmaIndex = part.dmaIndex /\ r.subReqSect = part.subReqSect
      /\ \A s : At(r, s) = At(part, s)
  <2>1. "TxDMA" \in DmaKinds
    BY DEF DmaKinds
  <2> QED BY <1>3, <2>1, DmaFacts
<1> HIDE DEF r, c
<1>5. BufferOK(m) /\ FlyingOK(fl) /\ SlotsOK(sl) /\ Transfers(m.queue, fl, sl)
      /\ Below(m.queue, fl, t, part.dmaIndex)
  BY <1>3 DEF Sound, Kin
<1>6. /\ BufferOK(c) /\ c.entry = m.entry /\ c.mapped = m.mapped
      /\ \A k \in Dies \ {d} : c.queue[k] = m.queue[k]
  BY <1>2, <1>4, <1>5, PushFacts DEF c
<1>7. Owed(sl, r, r.request, SectorsOf(r))
  BY <1>4 DEF Owed
<1>8. Transfers(c.queue, fl, sl) /\ Below(c.queue, fl, t, part.dmaIndex + part.subReqSect)
  <2>1. r.request \in DmaKinds
    BY <1>4 DEF DmaKinds
  <2> QED BY <1>2, <1>4, <1>5, <1>7, <2>1, PushNext DEF c
<1>9. PICK w : /\ Reaches(d, m, st, fl, sl, w)
               /\ \A k \in LpnsOf(d) : Kept(d, k, m.entry, m.mapped, lt, w)
  BY <1>2, <1>3 DEF Sound, DieKeeps, Reaches
<1>10. Delivers(sl, r, w)
  <2> SUFFICES ASSUME NEW s \in PartSectors(part)
               PROVE  Agrees(w.data[e][s], sl[t].value[At(part, s)])
    BY <1>4 DEF Delivers
  <2>1. s \in Sectors
    BY <1>4 DEF RequestOK, DmaKinds
  <2>2. Kept(d, l, m.entry, m.mapped, lt, w)
    BY <1>2, <1>9
  <2>3. Agrees(w.data[e][s], lt[l][s])
    BY <1>3, <2>1, <2>2 DEF Kept
  <2> QED BY <2>3
<1>11. Reaches(d, c, st, fl, sl, w)
  <2>1. Effect(sl, r, w) = w
    BY <1>4 DEF Effect
  <2>2. r.request # "RxDMA"
    BY <1>4
  <2>3. Reaches(d, c, st, fl, sl, Effect(sl, r, w))
    BY <1>2, <1>4, <1>5, <1>9, <1>10, <2>2, PushReaches DEF c
  <2> QED BY <2>1, <2>3
<1>12. DieKeeps(d, c, st, fl, sl, lt)
  BY <1>6, <1>9, <1>11 DEF DieKeeps, Reaches
<1>13. ASSUME NEW k \in Dies \ {d} PROVE DieKeeps(k, c, st, fl, sl, lt)
  <2>1. DieKeeps(k, m, st, fl, sl, lt)
    BY <1>3 DEF Sound
  <2> QED BY <1>6, <2>1 DEF DieKeeps
<1>14. Sound(c, st, fl, sl, lt)
  BY <1>3, <1>6, <1>8, <1>12, <1>13 DEF Sound
<1>15. \A f \in Entries : c.entry[f].data = b.entry[f].data
  BY <1>3, <1>6 DEF Kin
<1> QED BY <1>1, <1>8, <1>14, <1>15


\* b with the page in entry e dirty
Dirtied(b, e) == [b EXCEPT !.entry[e].dirty = TRUE]

\* Only that entry changes, and not its data.
LEMMA DirtiedFacts ==
    ASSUME NEW b, BufferOK(b), NEW d \in Dies, NEW e \in EntriesOf(d), b.entry[e].lpn # None
    PROVE  LET c == Dirtied(b, e)
           IN  /\ BufferOK(c) /\ c.mapped = b.mapped /\ c.queue = b.queue
               /\ c.entry[e].lpn = b.entry[e].lpn /\ c.entry[e].dirty
               /\ c.entry[e].data = b.entry[e].data
               /\ \A f \in Entries \ {e} : c.entry[f] = b.entry[f]
<1>0. PICK yes \in BOOLEAN : yes = TRUE
  OBVIOUS
<1> DEFINE c == Dirtied(b, e)
           Record == [lpn : Lpns \cup {None}, dirty : BOOLEAN, data : PageData]
           filled == [lpn |-> b.entry[e].lpn, dirty |-> yes, data |-> b.entry[e].data]
<1>1. b \in Buffers /\ e \in Entries
  BY EntriesOfDie DEF BufferOK
<1>2. b.entry \in [Entries -> Record] /\ b.entry[e] \in Record
  BY <1>1 DEF Buffers
<1>3. c = [entry |-> [b.entry EXCEPT ![e] = filled], lru |-> b.lru,
           mapped |-> b.mapped, queue |-> b.queue]
  <2>1. b = [entry |-> b.entry, lru |-> b.lru, mapped |-> b.mapped, queue |-> b.queue]
    BY <1>1 DEF Buffers
  <2>2. c = [b EXCEPT !.entry[e].dirty = yes]
    BY <1>0 DEF Dirtied
  <2> HIDE DEF c
  <2>3. c = [entry |-> [b.entry EXCEPT ![e].dirty = yes], lru |-> b.lru,
             mapped |-> b.mapped, queue |-> b.queue]
    BY <2>1, <2>2
  <2>4. [b.entry EXCEPT ![e].dirty = yes] = [b.entry EXCEPT ![e] = filled]
    BY <1>1, <1>2
  <2> QED BY <2>3, <2>4
<1> HIDE DEF c
<1>4. filled \in Record
  BY <1>2
<1>5. [b.entry EXCEPT ![e] = filled] \in [Entries -> Record]
  BY <1>1, <1>2, <1>4
<1>6. c \in Buffers
  BY <1>1, <1>3, <1>5 DEF Buffers
<1>7. /\ c.entry[e].lpn = b.entry[e].lpn /\ c.entry[e].dirty
      /\ c.entry[e].data = b.entry[e].data
      /\ \A f \in Entries \ {e} : c.entry[f] = b.entry[f]
  <2>1. c.entry[e] = filled /\ \A f \in Entries \ {e} : c.entry[f] = b.entry[f]
    BY <1>1, <1>2, <1>3
  <2>2. c.entry[e].dirty = yes
    BY <2>1
  <2> QED BY <1>0, <2>1, <2>2
<1>8. c.mapped = b.mapped /\ c.queue = b.queue /\ c.lru = b.lru
  BY <1>3
<1>9. ASSUME NEW k \in Dies PROVE PagesOK(c.entry, k)
  <2>1. PagesOK(b.entry, k) /\ EntriesOf(k) \subseteq Entries
    BY EntriesOfDie DEF BufferOK
  <2> QED BY <1>7, <2>1 DEF PagesOK
<1>10. BufferOK(c)
  BY <1>6, <1>8, <1>9 DEF BufferOK
<1> QED BY <1>7, <1>8, <1>10 DEF c

\* Page l is in entry e, and dirty; it will be where it belongs when the
\* sectors ss of it have arrived from the host.
Awaits(b, st, fl, sl, lt, l, e, ss) ==
    /\ Base(b, st, fl, sl, lt) /\ Others(Die(l), b, st, fl, sl, lt)
    /\ e \in EntriesOf(Die(l)) /\ b.entry[e].lpn = l /\ b.entry[e].dirty
    /\ \E w : /\ Reaches(Die(l), b, st, fl, sl, w)
              /\ \A k \in LpnsOf(Die(l)) \ {l} : Kept(Die(l), k, b.entry, b.mapped, lt, w)
              /\ \A s \in Sectors \ ss : Agrees(w.data[e][s], lt[l][s])

\* lt2 is lt with the sectors of the part as the command of slot t has them
Rewritten(lt, lt2, sl, t, part) ==
    /\ lt2 \in [Lpns -> PageData]
    /\ \A k \in Lpns \ {part.lpn} : lt2[k] = lt[k]
    /\ \A s \in Sectors : lt2[part.lpn][s] = IF s \in PartSectors(part)
                                             THEN sl[t].value[At(part, s)] ELSE lt[part.lpn][s]

\* A buffered page awaits the sectors of a write as soon as it is dirty.
LEMMA HitAwaits ==
    ASSUME NEW b, NEW st, NEW fl, NEW sl, NEW lt, Sound(b, st, fl, sl, lt),
           NEW l \in Lpns, NEW e \in EntriesOf(Die(l)), b.entry[e].lpn = l, NEW ss
    PROVE  LET c == Dirtied(Touched(b, l, e), e)
           IN  Awaits(c, st, fl, sl, lt, l, e, ss) /\ Kin(b, c, fl)
<1> DEFINE d == Die(l)
           m == Touched(b, l, e)
           c == Dirtied(m, e)
<1>1. BufferOK(b) /\ d \in Dies /\ l \in LpnsOf(d) /\ l # None /\ e \in Entries
  <2>1. l \in Nat
    BY DieOfPage
  <2> QED BY <2>1, DieOfPage, EntriesOfDie, BufferAssumption DEF Sound
<1>2. BufferOK(m) /\ m.entry = b.entry /\ m.mapped = b.mapped /\ m.queue = b.queue
  BY <1>1, TouchedFacts
<1> HIDE DEF m
<1>3. /\ BufferOK(c) /\ c.mapped = m.mapped /\ c.queue = m.queue
      /\ c.entry[e].lpn = m.entry[e].lpn /\ c.entry[e].dirty
      /\ c.entry[e].data = m.entry[e].data
      /\ \A f \in Entries \ {e} : c.entry[f] = m.entry[f]
  BY <1>1, <1>2, DirtiedFacts
<1> HIDE DEF c
<1>4. \A f \in Entries : c.entry[f].data = b.entry[f].data
  BY <1>2, <1>3
<1>5. Base(c, st, fl, sl, lt)
  BY <1>2, <1>3 DEF Sound, Base
<1>6. ASSUME NEW k \in Dies \ {d} PROVE DieKeeps(k, c, st, fl, sl, lt)
  <2>1. DieKeeps(k, b, st, fl, sl, lt) /\ c.queue[k] = b.queue[k]
    BY <1>2, <1>3 DEF Sound
  <2>2. \A i \in 1 .. Len(b.queue[k]) :
           RequestOK(b.queue[k][i], k) /\ Same(sl, sl, b.queue[k][i], SectorsOf(b.queue[k][i]))
    BY <1>1 DEF BufferOK, Same
  <2>3. \A f \in EntriesOf(k) : Same(sl, sl, fl[f], fl[f].left) /\ c.entry[f] = b.entry[f]
    <3>1. \A f \in EntriesOf(k) : f \in Entries /\ f # e
      BY <1>1, EntriesApart, EntriesOfDie
    <3> QED BY <1>2, <1>3, <3>1 DEF Same
  <2>4. \A j \in LpnsOf(k) : j \in b.mapped <=> j \in c.mapped
    BY <1>2, <1>3
  <2> QED BY <2>1, <2>2, <2>3, <2>4, OtherDie
<1>7. PICK w : /\ Reaches(d, b, st, fl, sl, w)
               /\ \A k \in LpnsOf(d) : Kept(d, k, b.entry, b.mapped, lt, w)
  BY <1>1 DEF Sound, DieKeeps, Reaches
<1>8. Reaches(d, c, st, fl, sl, w)
  <2>1. \A f \in EntriesOf(d) : c.entry[f].data = b.entry[f].data
    BY <1>1, <1>4, EntriesOfDie
  <2>2. View(d, c.entry, st, fl, sl) = View(d, b.entry, st, fl, sl)
    BY <2>1 DEF View
  <2> QED BY <1>2, <1>3, <1>7, <2>2 DEF Reaches
<1>9. ASSUME NEW k \in LpnsOf(d) \ {l} PROVE Kept(d, k, c.entry, c.mapped, lt, w)
  <2>1. Kept(d, k, b.entry, b.mapped, lt, w)
    BY <1>7
  <2>2. \A f \in EntriesOf(d) \ {e} : c.entry[f] = b.entry[f]
    BY <1>1, <1>2, <1>3, EntriesOfDie
  <2>3. b.entry[e].lpn # k /\ c.entry[e].lpn # k
    BY <1>2, <1>3
  <2>4. c.mapped = b.mapped
    BY <1>2, <1>3
  <2> QED BY <2>1, <2>2, <2>3, <2>4 DEF Kept
<1>10. \A s \in Sectors \ ss : Agrees(w.data[e][s], lt[l][s])
  BY <1>1, <1>7 DEF Kept
<1>11. Awaits(c, st, fl, sl, lt, l, e, ss)
  BY <1>2, <1>3, <1>5, <1>6, <1>8, <1>9, <1>10 DEF Awaits, Others
<1>12. Kin(b, c, fl)
  BY <1>2, <1>3, <1>4 DEF Kin
<1> QED BY <1>11, <1>12 DEF c, m

\* An entry that is allocated to a page that is written awaits its sectors,
\* at once when the whole page is written and else when it has been read.
LEMMA MissAwaits ==
    ASSUME NEW b, NEW st, NEW fl, NEW sl, NEW lt, Sound(b, st, fl, sl, lt),
           NEW l \in Lpns, Hits(b, l) = {}, NEW ss
    PROVE  LET e == Victim(b, l)
               m == Allocated(b, l, TRUE)
               c == Fetched(m, l, e)
           IN  /\ Awaits(m, st, fl, sl, lt, l, e, Sectors) /\ Kin(b, m, fl)
               /\ Awaits(c, st, fl, sl, lt, l, e, ss) /\ Kin(b, c, fl)
<1>1. PICK yes \in BOOLEAN : yes = TRUE
  OBVIOUS
<1> DEFINE d == Die(l)
           e == Victim(b, l)
           m == Allocated(b, l, yes)
           c == Fetched(m, l, e)
<1>2. /\ Almost(m, st, fl, sl, lt, l, e) /\ m.entry[e].dirty = yes
      /\ Kin(b, m, fl)
  BY AllocatedFacts
<1> HIDE DEF m, e
<1>3. Sound(c, st, fl, sl, lt) /\ Kin(m, c, fl) /\ c.entry = m.entry
  BY <1>2, FetchedFacts
<1> HIDE DEF c
<1>4. d \in Dies /\ l \in LpnsOf(d) /\ e \in EntriesOf(d) /\ m.entry[e].lpn = l
  BY <1>2, DieOfPage DEF Almost
<1>5. m.entry[e].dirty
  BY <1>1, <1>2
<1>6. Awaits(m, st, fl, sl, lt, l, e, Sectors)
  BY <1>2, <1>5 DEF Almost, Awaits
<1>7. Awaits(c, st, fl, sl, lt, l, e, ss)
  <2>1. PICK w : /\ Reaches(d, c, st, fl, sl, w)
                 /\ \A k \in LpnsOf(d) : Kept(d, k, c.entry, c.mapped, lt, w)
    BY <1>3, <1>4 DEF Sound, DieKeeps, Reaches
  <2>2. \A s \in Sectors : Agrees(w.data[e][s], lt[l][s])
    <3>1. Kept(d, l, c.entry, c.mapped, lt, w)
      BY <1>4, <2>1
    <3>2. c.entry[e].lpn = l
      BY <1>3, <1>4
    <3> QED BY <1>4, <3>1, <3>2 DEF Kept
  <2>3. Base(c, st, fl, sl, lt) /\ Others(d, c, st, fl, sl, lt)
    BY <1>3 DEF Sound, Base, Others
  <2>4. c.entry[e].lpn = l /\ c.entry[e].dirty
    BY <1>3, <1>4, <1>5
  <2> QED BY <1>4, <2>1, <2>2, <2>3, <2>4 DEF Awaits
<1>8. Kin(b, c, fl)
  BY <1>2, <1>3 DEF Kin
<1> QED BY <1>1, <1>2, <1>6, <1>7, <1>8 DEF m, c, e

\* the host waits for the part to be written
Ordered(sl, t, part) ==
    sl[t].op = "write" /\ \A s \in PartSectors(part) : At(part, s) \in sl[t].left

\* no transfer of slot t is of a sector behind the part
Past(b, fl, t, part) == Below(b.queue, fl, t, part.dmaIndex + part.subReqSect)

\* the part of the write may be sent to entry e
Ready(b, st, fl, sl, lt, t, part, e) ==
    /\ PartOK(part) /\ Awaits(b, st, fl, sl, lt, part.lpn, e, PartSectors(part))
    /\ Below(b.queue, fl, t, part.dmaIndex) /\ Ordered(sl, t, part)

Sent(b, t, part, e) == PushToReqQueue(b, part.lpn, Dma("RxDMA", e, t, part))

\* The transfer that brings the sectors a page awaits.
LEMMA WritePush ==
    ASSUME NEW b, NEW st, NEW fl, NEW sl, NEW lt, NEW t \in Slots, NEW part, NEW e, NEW lt2,
           Ready(b, st, fl, sl, lt, t, part, e), Rewritten(lt, lt2, sl, t, part)
    PROVE  /\ Sound(Sent(b, t, part, e), st, fl, sl, lt2) /\ Past(Sent(b, t, part, e), fl, t, part)
           /\ Sent(b, t, part, e).entry = b.entry
<1> DEFINE l == part.lpn
           d == Die(l)
           r == Dma("RxDMA", e, t, part)
           c == PushToReqQueue(b, l, r)
           ss == PartSectors(part)
<1>0. /\ PartOK(part) /\ Awaits(b, st, fl, sl, lt, l, e, ss)
      /\ Below(b.queue, fl, t, part.dmaIndex) /\ Ordered(sl, t, part)
  BY DEF Ready
<1>1. /\ l \in Lpns /\ d \in Dies /\ l \in LpnsOf(d) /\ part.dmaIndex \in Nat
      /\ e \in EntriesOf(d) /\ b.entry[e].lpn = l /\ b.entry[e].dirty
      /\ Base(b, st, fl, sl, lt) /\ Others(d, b, st, fl, sl, lt)
  BY <1>0, DieOfPage DEF PartOK, Awaits
<1>2. /\ RequestOK(r, d) /\ SectorsOf(r) = ss
      /\ r.request = "RxDMA" /\ r.entry = e /\ r.slot = t
      /\ r.dmaIndex = part.dmaIndex /\ r.subReqSect = part.subReqSect
      /\ \A s : At(r, s) = At(part, s)
  <2>1. "RxDMA" \in DmaKinds
    BY DEF DmaKinds
  <2> QED BY <1>0, <1>1, <2>1, DmaFacts
<1> HIDE DEF r, c, ss
<1>3. BufferOK(b) /\ FlyingOK(fl) /\ SlotsOK(sl) /\ Transfers(b.queue, fl, sl)
  BY <1>1 DEF Base
<1>4. /\ BufferOK(c) /\ c.entry = b.entry /\ c.mapped = b.mapped
      /\ \A k \in Dies \ {d} : c.queue[k] = b.queue[k]
  BY <1>1, <1>2, <1>3, PushFacts DEF c
<1>5. Owed(sl, r, r.request, SectorsOf(r))
  BY <1>0, <1>2 DEF Owed, Ordered, ss
<1>6. Transfers(c.queue, fl, sl) /\ Below(c.queue, fl, t, part.dmaIndex + part.subReqSect)
  <2>1. r.request \in DmaKinds
    BY <1>2 DEF DmaKinds
  <2> QED BY <1>0, <1>1, <1>2, <1>3, <1>5, <2>1, PushNext DEF c
<1>7. PICK w : /\ Reaches(d, b, st, fl, sl, w)
               /\ \A k \in LpnsOf(d) \ {l} : Kept(d, k, b.entry, b.mapped, lt, w)
               /\ \A s \in Sectors \ ss : Agrees(w.data[e][s], lt[l][s])
  BY <1>0 DEF Awaits, ss
<1> DEFINE x == Effect(sl, r, w)
<1>8. \A s \in SectorsOf(r) : sl[r.slot].value[At(r, s)] \in Contents
  BY <1>2, <1>3, <1>5, OwedContents
<1>9. Reaches(d, c, st, fl, sl, x)
  <2>1. Delivers(sl, r, w)
    BY <1>2 DEF Delivers
  <2> QED BY <1>1, <1>2, <1>3, <1>7, <1>8, <2>1, PushReaches DEF c
<1>10. Filled(d, e, Received(sl, r, w.data[e]), w, x)
  <2>1. w \in Views(d)
    BY <1>7 DEF Reaches
  <2>2. Filled(d, r.entry, Received(sl, r, w.data[r.entry]), w, x)
    BY <1>1, <1>2, <1>8, <2>1, EffectFacts
  <2> QED BY <1>2, <2>2
<1> HIDE DEF x
<1>11. ASSUME NEW k \in LpnsOf(d) \ {l} PROVE Kept(d, k, c.entry, c.mapped, lt2, x)
  <2>1. Kept(d, k, b.entry, b.mapped, lt, w)
    BY <1>7
  <2>2. \A f \in EntriesOf(d) : b.entry[f].lpn = k => x.data[f] = w.data[f]
    BY <1>1, <1>10 DEF Filled
  <2>3. x.stored = w.stored
    BY <1>10 DEF Filled
  <2>4. lt2[k] = lt[k]
    BY DEF Rewritten, LpnsOf
  <2> QED BY <1>4, <2>1, <2>2, <2>3, <2>4 DEF Kept, InStore
<1>12. Kept(d, l, c.entry, c.mapped, lt2, x)
  <2>1. \A f \in EntriesOf(d) : b.entry[f].lpn = l => f = e
    BY <1>1, <1>3 DEF BufferOK, PagesOK
  <2>2. ASSUME NEW s \in Sectors PROVE Agrees(x.data[e][s], lt2[l][s])
    <3>1. x.data[e] = Received(sl, r, w.data[e])
      BY <1>10 DEF Filled
    <3>2. CASE s \in ss
      <4>1. x.data[e][s] = sl[t].value[At(part, s)]
        BY <1>2, <3>1, <3>2 DEF Received
      <4>2. lt2[l][s] = sl[t].value[At(part, s)]
        BY <3>2 DEF Rewritten, ss
      <4> QED BY <4>1, <4>2 DEF Agrees
    <3>3. CASE s \notin ss
      <4>1. x.data[e][s] = w.data[e][s]
        BY <1>2, <3>1, <3>3 DEF Received
      <4>2. lt2[l][s] = lt[l][s]
        BY <3>3 DEF Rewritten, ss
      <4> QED BY <1>7, <3>3, <4>1, <4>2
    <3> QED BY <3>2, <3>3
  <2> QED BY <1>1, <1>4, <2>1, <2>2 DEF Kept
<1>13. DieKeeps(d, c, st, fl, sl, lt2)
  BY <1>9, <1>11, <1>12 DEF DieKeeps, Reaches
<1>14. ASSUME NEW k \in Dies \ {d} PROVE DieKeeps(k, c, st, fl, sl, lt2)
  <2>1. DieKeeps(k, b, st, fl, sl, lt) /\ c.queue[k] = b.queue[k]
    BY <1>1, <1>4 DEF Others
  <2>2. \A i \in 1 .. Len(b.queue[k]) :
           RequestOK(b.queue[k][i], k) /\ Same(sl, sl, b.queue[k][i], SectorsOf(b.queue[k][i]))
    BY <1>3 DEF BufferOK, Same
  <2>3. \A f \in EntriesOf(k) : Same(sl, sl, fl[f], fl[f].left) /\ c.entry[f] = b.entry[f]
    BY <1>4 DEF Same
  <2>4. \A j \in LpnsOf(k) : lt2[j] = lt[j] /\ (j \in b.mapped <=> j \in c.mapped)
    BY <1>1, <1>4 DEF Rewritten, LpnsOf
  <2> QED BY <2>1, <2>2, <2>3, <2>4, OtherDie
<1>15. Sound(c, st, fl, sl, lt2)
  BY <1>1, <1>4, <1>6, <1>13, <1>14 DEF Sound, Base, Rewritten
<1> QED BY <1>4, <1>6, <1>15 DEF c, r, Past, Sent

\* A part of a write leaves in the page what the host has written.
LEMMA WritePartFacts ==
    ASSUME NEW b, NEW st, NEW fl, NEW sl, NEW lt, Sound(b, st, fl, sl, lt),
           NEW t \in Slots, NEW part, PartOK(part), Below(b.queue, fl, t, part.dmaIndex),
           Ordered(sl, t, part),
           NEW lt2, Rewritten(lt, lt2, sl, t, part)
    PROVE  LET c == WritePart(b, t, part)
           IN  /\ Sound(c, st, fl, sl, lt2) /\ Past(c, fl, t, part)
               /\ \A f \in Entries : c.entry[f].data = b.entry[f].data
<1> DEFINE l == part.lpn
           d == Die(l)
           ss == PartSectors(part)
           c == WritePart(b, t, part)
<1>1. BufferOK(b) /\ l \in Lpns
  BY DEF Sound, PartOK
<1>2. ASSUME NEW m, NEW e, Awaits(m, st, fl, sl, lt, l, e, ss), Kin(b, m, fl),
             c = PushToReqQueue(m, l, Dma("RxDMA", e, t, part))
      PROVE  /\ Sound(c, st, fl, sl, lt2)
             /\ Past(c, fl, t, part)
             /\ \A f \in Entries : c.entry[f].data = b.entry[f].data
  <2>1. Below(m.queue, fl, t, part.dmaIndex)
    BY <1>2 DEF Kin
  <2>2. Ready(m, st, fl, sl, lt, t, part, e)
    BY <1>2, <2>1 DEF Ready
  <2>3. /\ Sound(Sent(m, t, part, e), st, fl, sl, lt2) /\ Past(Sent(m, t, part, e), fl, t, part)
        /\ Sent(m, t, part, e).entry = m.entry
    BY <2>2, WritePush
  <2>4. c = Sent(m, t, part, e)
    BY <1>2 DEF Sent
  <2> HIDE DEF c
  <2> QED BY <1>2, <2>3, <2>4 DEF Kin
<1>3. CASE Hits(b, l) # {}
  <2> DEFINE e == CHOOSE e \in Hits(b, l) : TRUE
             m == Dirtied(Touched(b, l, e), e)
  <2>1. e \in EntriesOf(d) /\ b.entry[e].lpn = l
    BY <1>1, <1>3, HitsFacts
  <2>2. c = PushToReqQueue(m, l, Dma("RxDMA", e, t, part))
    BY <1>3 DEF WritePart, Dirtied
  <2> HIDE DEF e
  <2>3. Awaits(m, st, fl, sl, lt, l, e, ss) /\ Kin(b, m, fl)
    BY <1>1, <2>1, HitAwaits
  <2> HIDE DEF m, c
  <2> QED BY <1>2, <2>2, <2>3 DEF c
<1>4. CASE Hits(b, l) = {}
  <2> DEFINE e == Victim(b, l)
             m == Allocated(b, l, TRUE)
             n == Fetched(m, l, e)
  <2>1. /\ Awaits(m, st, fl, sl, lt, l, e, Sectors) /\ Kin(b, m, fl)
        /\ Awaits(n, st, fl, sl, lt, l, e, ss) /\ Kin(b, n, fl)
    BY <1>1, <1>4, MissAwaits
  <2>2. c = PushToReqQueue(IF part.subReqSect = SECTOR_NUM_PER_PAGE THEN m ELSE n,
                           l, Dma("RxDMA", e, t, part))
    BY <1>4 DEF WritePart
  <2> HIDE DEF e, m, n, c
  <2>3. CASE part.subReqSect = SECTOR_NUM_PER_PAGE
    <3>1. ss = Sectors
      <4>1. /\ SECTOR_NUM_PER_PAGE \in Nat \ {0} /\ part.offset \in 0 .. SECTOR_NUM_PER_PAGE - 1
            /\ part.subReqSect \in 1 .. SECTOR_NUM_PER_PAGE - part.offset
        BY Sizes DEF PartOK, Sectors
      <4>2. part.offset = 0
        BY <2>3, <4>1
      <4> QED BY <2>3, <4>1, <4>2 DEF PartSectors, Sectors
    <3>2. Awaits(m, st, fl, sl, lt, l, e, ss)
      BY <2>1, <3>1
    <3>3. c = PushToReqQueue(m, l, Dma("RxDMA", e, t, part))
      BY <2>2, <2>3
    <3> QED BY <1>2, <2>1, <3>2, <3>3 DEF c
  <2>4. CASE part.subReqSect # SECTOR_NUM_PER_PAGE
    <3>1. c = PushToReqQueue(n, l, Dma("RxDMA", e, t, part))
      BY <2>2, <2>4
    <3> QED BY <1>2, <2>1, <3>1 DEF c
  <2> QED BY <2>3, <2>4
<1> QED BY <1>3, <1>4 DEF c

(***************************************************************************)
(* The parts of a command, one after the other.                            *)
(***************************************************************************)

\* the sectors are sectors of the device
OnDevice(curSect, reqSect) ==
    curSect \in Nat /\ reqSect \in Nat \ {0} /\ curSect + reqSect <= Pages * SECTOR_NUM_PER_PAGE

\* A part does not reach beyond the command.
LEMMA PartWithin ==
    ASSUME NEW curSect \in Nat, NEW reqSect \in Nat \ {0},
           NEW k \in 0 .. LastPart(curSect, reqSect)
    PROVE  Behind(Part(curSect, reqSect, k)) <= curSect + reqSect
<1> DEFINE q == curSect \div S
           r == curSect % S
           loop == Loop(curSect, reqSect)
           m == Rest(curSect, reqSect)
           part == Part(curSect, reqSect, k)
<1>1. /\ q \in Nat /\ loop \in Nat /\ r \in 0 .. S - 1 /\ m \in 0 .. S - 1
      /\ curSect = q * S + r /\ r + reqSect = loop * S + m
  BY Cut
<1>2. S \in Nat \ {0}
  BY SectorAssumption DEF S
<1>3. k \in Nat /\ k <= loop /\ LastPart(curSect, reqSect) <= loop
      /\ LastPart(curSect, reqSect) \in Nat
  <2>1. LastPart(curSect, reqSect) = IF loop = 0 THEN 0 ELSE IF m = 0 THEN loop - 1 ELSE loop
    BY DEF LastPart
  <2> HIDE DEF loop, m
  <2> QED BY <1>1, <2>1
<1>4. part.lpn = q + k
  BY DEF Part, S
<1>5. /\ part.lpn \in Nat /\ part.offset \in 0 .. S - 1
      /\ part.subReqSect \in 1 .. S - part.offset
  BY PartInPage
<1>6. CASE k = LastPart(curSect, reqSect)
  BY <1>6, PartsFollow, <1>1
<1>7. CASE k # LastPart(curSect, reqSect)
  <2> HIDE DEF q, r, loop, m, part
  <2>1. k < loop /\ q + k \in Nat /\ q + loop \in Nat /\ q + k < q + loop
    BY <1>1, <1>3, <1>7
  <2>2. /\ (q + k) * S \in Nat /\ (q + loop) * S \in Nat
        /\ (q + k) * S + S <= (q + loop) * S
    BY <1>2, <2>1, SpreadBy
  <2>3. (q + loop) * S = q * S + loop * S
    BY <1>1, <1>2
  <2>4. q * S \in Nat /\ loop * S \in Nat
    BY <1>1, <1>2
  <2>5. curSect + reqSect = q * S + loop * S + m
    BY <1>1, <2>4
  <2>6. (q + loop) * S <= curSect + reqSect
    BY <1>1, <2>3, <2>4, <2>5
  <2>7. Behind(part) = (q + k) * S + part.offset + part.subReqSect
    BY <1>4 DEF Behind, First
  <2> DEFINE a == (q + k) * S
             z == (q + loop) * S
  <2>8. a \in Nat /\ z \in Nat /\ a + S <= z /\ z <= curSect + reqSect
        /\ Behind(part) = a + part.offset + part.subReqSect
    BY <2>2, <2>6, <2>7
  <2> HIDE DEF a, z
  <2>9. Behind(part) <= curSect + reqSect
    BY <1>2, <1>5, <2>8
  <2> QED BY <2>9 DEF part
<1> QED BY <1>6, <1>7

\* A part is of a page of the device, and its sectors are those of the command
\* that it moves.
LEMMA PartFacts ==
    ASSUME NEW curSect, NEW reqSect, OnDevice(curSect, reqSect),
           NEW k \in 0 .. LastPart(curSect, reqSect)
    PROVE  LET part == Part(curSect, reqSect, k)
           IN  /\ PartOK(part) /\ First(part) = curSect + part.dmaIndex
               /\ part.dmaIndex + part.subReqSect <= reqSect
               /\ k = 0 => part.dmaIndex = 0
               /\ k = LastPart(curSect, reqSect) => part.dmaIndex + part.subReqSect = reqSect
               /\ k # LastPart(curSect, reqSect) =>
                     Part(curSect, reqSect, k + 1).dmaIndex = part.dmaIndex + part.subReqSect
<1> DEFINE part == Part(curSect, reqSect, k)
           last == LastPart(curSect, reqSect)
<1>1. curSect \in Nat /\ reqSect \in Nat \ {0} /\ curSect + reqSect <= Pages * S
  BY DEF OnDevice, S
<1>2. S \in Nat \ {0} /\ Pages \in Nat
  BY Sizes DEF S
<1>3. /\ part.lpn \in Nat /\ part.offset \in 0 .. S - 1
      /\ part.subReqSect \in 1 .. S - part.offset
  BY <1>1, PartInPage
<1>4. First(part) = curSect + part.dmaIndex
  BY <1>1, PartInPlace
<1>5. Behind(part) <= curSect + reqSect
  BY <1>1, PartWithin
<1>6. Behind(part) = IF k = last THEN curSect + reqSect ELSE First(Part(curSect, reqSect, k + 1))
  BY <1>1, PartsFollow
<1>7. k \in Nat /\ last \in Nat /\ k <= last
  <2>1. Loop(curSect, reqSect) \in Nat
    BY <1>1, Cut
  <2>2. last \in Nat
    BY <2>1 DEF LastPart
  <2> HIDE DEF last
  <2> QED BY <2>2 DEF last
<1>8. part.dmaIndex = IF k = 0 THEN 0 ELSE ToPageEnd(curSect) + (k - 1) * S
  BY DEF Part, S
<1>9. ToPageEnd(curSect) \in Nat
  <2>1. curSect % S \in 0 .. S - 1
    BY <1>1, Division
  <2> QED BY <1>2, <2>1 DEF ToPageEnd, S
<1>10. part.dmaIndex \in Nat
  <2>1. k # 0 => (k - 1) * S \in Nat
    BY <1>2, <1>7
  <2> QED BY <1>8, <1>9, <2>1
<1>11. k # last => First(Part(curSect, reqSect, k + 1)) = curSect + Part(curSect, reqSect, k + 1).dmaIndex
                   /\ Part(curSect, reqSect, k + 1).dmaIndex \in Int
  <2> SUFFICES ASSUME k # last
               PROVE  First(Part(curSect, reqSect, k + 1)) = curSect + Part(curSect, reqSect, k + 1).dmaIndex
                      /\ Part(curSect, reqSect, k + 1).dmaIndex \in Int
    OBVIOUS
  <2>1. k + 1 \in 0 .. last
    BY <1>7
  <2>2. Part(curSect, reqSect, k + 1).dmaIndex = ToPageEnd(curSect) + (k + 1 - 1) * S
    <3>1. k + 1 # 0
      BY <1>7
    <3> QED BY <3>1 DEF Part, S
  <2>3. (k + 1 - 1) * S \in Int
    BY <1>2, <1>7
  <2> QED BY <1>1, <1>9, <2>1, <2>2, <2>3, PartInPlace
<1> HIDE DEF last
<1>12. Behind(part) = First(part) + part.subReqSect /\ First(part) = part.lpn * S + part.offset
  BY DEF Behind, First
<1> DEFINE next == Part(curSect, reqSect, k + 1)
<1> HIDE DEF part, next
<1>13. part.lpn \in Lpns
  <2>1. Pages <= part.lpn => Pages * S <= part.lpn * S
    <3>1. CASE Pages < part.lpn
      <4>1. Pages * S \in Nat /\ part.lpn * S \in Nat /\ Pages * S + S <= part.lpn * S
        BY <1>2, <1>3, <3>1, SpreadBy
      <4> DEFINE a == Pages * S
                 z == part.lpn * S
      <4>2. a \in Nat /\ z \in Nat /\ a + S <= z
        BY <4>1
      <4> HIDE DEF a, z
      <4>3. a <= z
        BY <1>2, <4>2
      <4> QED BY <4>3 DEF a, z
    <3>2. CASE Pages = part.lpn
      <4>1. Pages * S \in Nat
        BY <1>2
      <4> DEFINE a == Pages * S
      <4>2. a \in Nat /\ part.lpn * S = a
        BY <3>2, <4>1
      <4> HIDE DEF a
      <4>3. a <= part.lpn * S
        BY <4>2
      <4> QED BY <4>3 DEF a
    <3> QED BY <1>2, <1>3, <3>1, <3>2
  <2>2. Pages * S \in Nat /\ part.lpn * S \in Nat
    BY <1>2, <1>3
  <2> DEFINE a == Pages * S
             z == part.lpn * S
  <2>3. /\ a \in Nat /\ z \in Nat /\ (Pages <= part.lpn => a <= z) /\ curSect + reqSect <= a
        /\ Behind(part) = z + part.offset + part.subReqSect
    BY <1>1, <1>3, <1>12, <2>1, <2>2
  <2> HIDE DEF a, z
  <2>4. ~ (Pages <= part.lpn)
    BY <1>1, <1>2, <1>3, <1>5, <2>3
  <2> QED BY <1>2, <1>3, <2>4 DEF Lpns
<1>14. PartOK(part)
  BY <1>3, <1>10, <1>13 DEF PartOK, Sectors, S
<1>15. part.lpn * S \in Nat
  BY <1>2, <1>3
<1>16. /\ part.dmaIndex + part.subReqSect <= reqSect
       /\ k = last => part.dmaIndex + part.subReqSect = reqSect
       /\ k # last => next.dmaIndex = part.dmaIndex + part.subReqSect
  <2>1. Behind(part) = curSect + part.dmaIndex + part.subReqSect
    BY <1>1, <1>3, <1>4, <1>10, <1>12
  <2>2. part.subReqSect \in Nat
    BY <1>2, <1>3
  <2>3. k # last => Behind(part) = curSect + next.dmaIndex /\ next.dmaIndex \in Int
    BY <1>6, <1>11 DEF next
  <2>4. k = last => Behind(part) = curSect + reqSect
    BY <1>6
  <2> DEFINE n == Behind(part)
  <2>5. /\ curSect \in Nat /\ reqSect \in Nat /\ n <= curSect + reqSect
        /\ n = curSect + part.dmaIndex + part.subReqSect
        /\ k # last => n = curSect + next.dmaIndex /\ next.dmaIndex \in Int
        /\ k = last => n = curSect + reqSect
    BY <1>1, <1>5, <2>1, <2>3, <2>4
  <2> HIDE DEF n
  <2> QED BY <1>10, <2>2, <2>5
<1> QED BY <1>4, <1>8, <1>14, <1>16 DEF part, next, last

\* The sector s of the page of a part is the sector of the command it stands for,
\* and no other sector is.
LEMMA PartSectorFacts ==
    ASSUME NEW curSect, NEW reqSect, OnDevice(curSect, reqSect),
           NEW k \in 0 .. LastPart(curSect, reqSect)
    PROVE  LET part == Part(curSect, reqSect, k)
               from == curSect + part.dmaIndex
           IN  /\ \A s \in PartSectors(part) :
                     /\ s \in Sectors /\ At(part, s) \in 0 .. reqSect - 1
                     /\ LpnOf(curSect + At(part, s)) = part.lpn /\ OffsetOf(curSect + At(part, s)) = s
               /\ \A l \in Lpns, s \in Sectors :
                     l * SECTOR_NUM_PER_PAGE + s \in from .. from + part.subReqSect - 1
                        <=> l = part.lpn /\ s \in PartSectors(part)
<1> DEFINE part == Part(curSect, reqSect, k)
           from == curSect + part.dmaIndex
           a == part.lpn * S
<1>1. /\ PartOK(part) /\ First(part) = from /\ part.dmaIndex + part.subReqSect <= reqSect
      /\ curSect \in Nat /\ reqSect \in Nat
  BY PartFacts DEF OnDevice
<1>2. S \in Nat \ {0} /\ Sectors = 0 .. S - 1
  BY Sizes DEF S, Sectors
<1>3. /\ part.lpn \in Lpns /\ part.lpn \in Nat /\ part.dmaIndex \in Nat /\ part.offset \in 0 .. S - 1
      /\ part.subReqSect \in 1 .. S - part.offset
      /\ PartSectors(part) = part.offset .. part.offset + part.subReqSect - 1
  BY <1>1, <1>2, DieOfPage DEF PartOK, PartSectors, S
<1> HIDE DEF part
<1>4. a \in Nat /\ from = a + part.offset
  BY <1>1, <1>2, <1>3 DEF First
<1> HIDE DEF a
<1>5. ASSUME NEW s \in PartSectors(part)
      PROVE  /\ s \in Sectors /\ At(part, s) \in 0 .. reqSect - 1
             /\ LpnOf(curSect + At(part, s)) = part.lpn /\ OffsetOf(curSect + At(part, s)) = s
  <2>1. s \in Sectors /\ s \in 0 .. S - 1
    BY <1>2, <1>3
  <2>2. At(part, s) = part.dmaIndex + s - part.offset
    BY DEF At
  <2> DEFINE n == part.dmaIndex
             o == part.offset
             m == part.subReqSect
             i == At(part, s)
  <2>8. /\ s \in Int /\ o <= s /\ s <= o + m - 1 /\ n \in Nat /\ o \in Nat /\ m \in Nat
        /\ i = n + s - o /\ n + m <= reqSect /\ curSect + n = a + o
    BY <1>1, <1>2, <1>3, <1>4, <2>2
  <2> HIDE DEF n, o, m, i
  <2>3. At(part, s) \in 0 .. reqSect - 1
    <3>1. i \in 0 .. reqSect - 1
      BY <1>1, <2>8
    <3> QED BY <3>1 DEF i
  <2>4. curSect + At(part, s) = a + s
    <3>1. curSect + i = a + s
      BY <1>1, <1>4, <2>8
    <3> QED BY <3>1 DEF i
  <2>5. curSect + At(part, s) \in Nat
    BY <1>1, <2>3
  <2>6. LpnOf(curSect + At(part, s)) = part.lpn /\ OffsetOf(curSect + At(part, s)) = s
    <3>1. curSect + At(part, s) = part.lpn * S + s
      BY <2>4 DEF a
    <3> DEFINE sect == curSect + At(part, s)
    <3> HIDE DEF sect
    <3>2. sect \div S = part.lpn /\ sect % S = s
      BY <1>3, <2>1, <2>5, <3>1, Unique DEF sect
    <3> QED BY <3>2 DEF sect, LpnOf, OffsetOf, S
  <2> QED BY <2>1, <2>3, <2>6
<1>6. ASSUME NEW l \in Lpns, NEW s \in Sectors
      PROVE  l * S + s \in from .. from + part.subReqSect - 1 <=> l = part.lpn /\ s \in PartSectors(part)
  <2>1. l \in Nat /\ s \in 0 .. S - 1
    BY <1>2, DieOfPage
  <2>2. CASE l = part.lpn
    <3>1. l * S + s = a + s
      BY <2>2 DEF a
    <3>2. a + s \in from .. from + part.subReqSect - 1
             <=> s \in part.offset .. part.offset + part.subReqSect - 1
      BY <1>2, <1>3, <1>4, <2>1
    <3> QED BY <1>3, <2>2, <3>1, <3>2
  <2>3. CASE l # part.lpn
    <3> SUFFICES ASSUME l * S + s \in from .. from + part.subReqSect - 1 PROVE FALSE
      BY <2>3
    <3> DEFINE u == l * S + s - a
    <3>1. l * S \in Nat
      BY <1>2, <2>1
    <3>2. u \in 0 .. S - 1 /\ l * S + s = a + u
      <4> DEFINE z == l * S
      <4>1. z \in Nat /\ z + s \in from .. from + part.subReqSect - 1 /\ u = z + s - a
        BY <3>1
      <4> HIDE DEF z, u
      <4>2. u \in 0 .. S - 1 /\ z + s = a + u
        BY <1>2, <1>3, <1>4, <2>1, <4>1
      <4> QED BY <4>2 DEF z
    <3> HIDE DEF u
    <3>3. l * S + s = part.lpn * S + u
      BY <3>2 DEF a
    <3>4. l = part.lpn
      BY <1>2, <1>3, <2>1, <3>2, <3>3, UniqueBy
    <3> QED BY <2>3, <3>4
  <2> QED BY <2>2, <2>3
<1> QED BY <1>5, <1>6 DEF part, S

\* what a write of value leaves when n sectors of it, from curSect on, are written
LatestAfter(lt, value, curSect, n) ==
    [l \in Lpns |-> [s \in Sectors |->
        IF l * SECTOR_NUM_PER_PAGE + s \in curSect .. curSect + n - 1 THEN value ELSE lt[l][s]]]

\* Each part of a write adds its sectors.
LEMMA LatestGrows ==
    ASSUME NEW curSect, NEW reqSect, OnDevice(curSect, reqSect),
           NEW k \in 0 .. LastPart(curSect, reqSect), NEW value \in Data,
           NEW lt \in [Lpns -> PageData], NEW sl, NEW t,
           \A i \in 0 .. reqSect - 1 : sl[t].value[i] = value
    PROVE  LET part == Part(curSect, reqSect, k)
           IN  Rewritten(LatestAfter(lt, value, curSect, part.dmaIndex),
                         LatestAfter(lt, value, curSect, part.dmaIndex + part.subReqSect), sl, t, part)
<1> DEFINE part == Part(curSect, reqSect, k)
           n == part.dmaIndex
           m == part.dmaIndex + part.subReqSect
           a == LatestAfter(lt, value, curSect, n)
           z == LatestAfter(lt, value, curSect, m)
<1>1. curSect \in Nat /\ n \in Nat /\ part.subReqSect \in Nat /\ part.lpn \in Lpns
  <2>1. PartOK(part) /\ curSect \in Nat
    BY PartFacts DEF OnDevice
  <2> HIDE DEF part
  <2>2. part.offset \in 0 .. SECTOR_NUM_PER_PAGE - 1 /\ SECTOR_NUM_PER_PAGE \in Nat
    BY <2>1, Sizes DEF PartOK, Sectors
  <2> QED BY <2>1, <2>2 DEF PartOK
<1>2. /\ \A s \in PartSectors(part) : s \in Sectors /\ At(part, s) \in 0 .. reqSect - 1
      /\ \A l \in Lpns, s \in Sectors :
            l * SECTOR_NUM_PER_PAGE + s \in curSect + n .. curSect + n + part.subReqSect - 1
               <=> l = part.lpn /\ s \in PartSectors(part)
  BY PartSectorFacts
<1> HIDE DEF part
<1>3. \A l \in Lpns, s \in Sectors :
         l * SECTOR_NUM_PER_PAGE + s \in curSect .. curSect + m - 1
            <=> \/ l * SECTOR_NUM_PER_PAGE + s \in curSect .. curSect + n - 1
                \/ l = part.lpn /\ s \in PartSectors(part)
  <2> SUFFICES ASSUME NEW l \in Lpns, NEW s \in Sectors
               PROVE  l * SECTOR_NUM_PER_PAGE + s \in curSect .. curSect + m - 1
                         <=> \/ l * SECTOR_NUM_PER_PAGE + s \in curSect .. curSect + n - 1
                             \/ l = part.lpn /\ s \in PartSectors(part)
    OBVIOUS
  <2> DEFINE i == l * SECTOR_NUM_PER_PAGE + s
  <2>1. l * SECTOR_NUM_PER_PAGE \in Nat
    BY Sizes, DieOfPage
  <2>2. i \in Nat
    BY <2>1, Sizes DEF Sectors
  <2> HIDE DEF i
  <2>3. i \in curSect + n .. curSect + n + part.subReqSect - 1
           <=> l = part.lpn /\ s \in PartSectors(part)
    BY <1>2 DEF i
  <2>4. i \in curSect .. curSect + m - 1
           <=> \/ i \in curSect .. curSect + n - 1
               \/ i \in curSect + n .. curSect + n + part.subReqSect - 1
    BY <1>1, <2>2
  <2> QED BY <2>3, <2>4 DEF i
<1> HIDE DEF m, n
<1>4. \A l \in Lpns, s \in Sectors :
         z[l][s] = IF l = part.lpn /\ s \in PartSectors(part) THEN value ELSE a[l][s]
  BY <1>3 DEF LatestAfter
<1>5. z \in [Lpns -> PageData]
  <2>1. ASSUME NEW l \in Lpns, NEW s \in Sectors
        PROVE  (IF l * SECTOR_NUM_PER_PAGE + s \in curSect .. curSect + m - 1
                THEN value ELSE lt[l][s]) \in Data \cup {None}
    <3>1. lt[l] \in PageData
      OBVIOUS
    <3> QED BY <3>1 DEF PageData
  <2> QED BY <2>1 DEF LatestAfter, PageData
<1>6. \A l \in Lpns \ {part.lpn} : z[l] = a[l]
  <2> SUFFICES ASSUME NEW l \in Lpns \ {part.lpn} PROVE z[l] = a[l]
    OBVIOUS
  <2>1. z[l] = [s \in Sectors |-> z[l][s]] /\ a[l] = [s \in Sectors |-> a[l][s]]
    BY DEF LatestAfter
  <2>2. \A s \in Sectors : z[l][s] = a[l][s]
    BY <1>4
  <2> HIDE DEF z, a
  <2> QED BY <2>1, <2>2
<1> HIDE DEF a, z
<1>7. \A s \in Sectors : z[part.lpn][s] = IF s \in PartSectors(part)
                                          THEN sl[t].value[At(part, s)] ELSE a[part.lpn][s]
  BY <1>1, <1>2, <1>4
<1> QED BY <1>5, <1>6, <1>7 DEF Rewritten, a, z, n, m, part

\* slot t of sl, which was free, is taken by the command in s2
Taken(sl, t, command, s2) ==
    /\ sl[t].op = "none" /\ s2 = [sl EXCEPT ![t] = command]
    /\ command \in Commands /\ command.left # {}
    /\ \A i \in command.left : command.value[i] \in Contents

\* Nobody moves sectors for a slot that is free: a command may take it.
LEMMA NewCommand ==
    ASSUME NEW b, NEW st, NEW fl, NEW sl, NEW lt, Sound(b, st, fl, sl, lt),
           NEW t \in Slots, NEW command, NEW s2, Taken(sl, t, command, s2)
    PROVE  /\ Sound(b, st, fl, s2, lt) /\ Below(b.queue, fl, t, 0) /\ s2[t] = command
           /\ \A e \in Entries : fl[e].left # {} => s2[fl[e].slot] = sl[fl[e].slot]
<1>1. /\ BufferOK(b) /\ st \in [Lpns -> PageData] /\ lt \in [Lpns -> PageData]
      /\ SlotsOK(sl) /\ FlyingOK(fl) /\ Transfers(b.queue, fl, sl)
      /\ \A d \in Dies : DieKeeps(d, b, st, fl, sl, lt)
  BY DEF Sound
<1>2. sl \in [Slots -> Commands]
  BY <1>1 DEF SlotsOK
<1>3. /\ s2 \in [Slots -> Commands] /\ s2[t] = command
      /\ \A u \in Slots \ {t} : s2[u] = sl[u]
  BY <1>2 DEF Taken
<1>4. SlotsOK(s2)
  BY <1>1, <1>3 DEF SlotsOK, Taken
<1>5. ASSUME NEW x, NEW kind, NEW ss, Owed(sl, x, kind, ss), ss # {}, x.slot \in Slots
      PROVE  x.slot # t /\ s2[x.slot] = sl[x.slot] /\ Owed(s2, x, kind, ss) /\ Same(sl, s2, x, ss)
  <2>1. x.slot # t
    BY <1>5 DEF Owed, Taken
  <2>2. s2[x.slot] = sl[x.slot]
    BY <1>3, <1>5, <2>1
  <2> QED BY <1>5, <2>1, <2>2 DEF Owed, Same
<1>6. ASSUME NEW d \in Dies, NEW i \in 1 .. Len(b.queue[d])
      PROVE  LET r == b.queue[d][i]
             IN  /\ RequestOK(r, d) /\ Owed(s2, r, r.request, SectorsOf(r))
                 /\ Same(sl, s2, r, SectorsOf(r)) /\ (SectorsOf(r) # {} => r.slot # t)
  <2> DEFINE r == b.queue[d][i]
  <2>1. RequestOK(r, d) /\ Owed(sl, r, r.request, SectorsOf(r))
    BY <1>1 DEF BufferOK, Transfers
  <2> HIDE DEF r
  <2>2. CASE SectorsOf(r) = {}
    <3>1. Owed(s2, r, r.request, SectorsOf(r)) /\ Same(sl, s2, r, SectorsOf(r))
      BY <2>2 DEF Owed, Same
    <3> QED BY <2>1, <2>2, <3>1 DEF r
  <2>3. CASE SectorsOf(r) # {}
    <3>1. r.slot \in Slots
      BY <2>1, <2>3 DEF RequestOK, SectorsOf
    <3>2. r.slot # t /\ Owed(s2, r, r.request, SectorsOf(r)) /\ Same(sl, s2, r, SectorsOf(r))
      BY <1>5, <2>1, <2>3, <3>1
    <3> QED BY <2>1, <3>2 DEF r
  <2> QED BY <2>2, <2>3
<1>7. ASSUME NEW e \in Entries
      PROVE  /\ Owed(s2, fl[e], fl[e].kind, fl[e].left) /\ Same(sl, s2, fl[e], fl[e].left)
             /\ fl[e].left # {} => fl[e].slot # t /\ s2[fl[e].slot] = sl[fl[e].slot]
  <2>1. Owed(sl, fl[e], fl[e].kind, fl[e].left)
    BY <1>1 DEF Transfers
  <2>2. CASE fl[e].left = {}
    BY <2>2 DEF Owed, Same
  <2>3. CASE fl[e].left # {}
    <3>1. fl[e].slot \in Slots
      BY <1>1, <2>3 DEF FlyingOK
    <3> QED BY <1>5, <2>1, <2>3, <3>1
  <2> QED BY <2>2, <2>3
<1>8. Transfers(b.queue, fl, s2)
  BY <1>1, <1>6, <1>7 DEF Transfers
<1>9. ASSUME NEW d \in Dies PROVE DieKeeps(d, b, st, fl, s2, lt)
  <2>1. \A e \in EntriesOf(d) : Same(sl, s2, fl[e], fl[e].left)
    BY <1>7, EntriesOfDie
  <2>2. DieKeeps(d, b, st, fl, sl, lt)
    BY <1>1
  <2> QED BY <1>6, <2>1, <2>2, OtherDie
<1>10. Sound(b, st, fl, s2, lt)
  BY <1>1, <1>4, <1>8, <1>9 DEF Sound
<1>11. Below(b.queue, fl, t, 0)
  BY <1>6, <1>7 DEF Below
<1> QED BY <1>3, <1>7, <1>10, <1>11

\* LRUBufRead handles one part after the other.
LEMMA ReadSteps ==
    ASSUME NEW b, NEW t, NEW curSect, NEW reqSect, LastPart(curSect, reqSect) \in Nat
    PROVE  \E after :
              /\ LRUBufRead(b, t, curSect, reqSect) = after[LastPart(curSect, reqSect)]
              /\ after[0] = ReadPart(b, t, Part(curSect, reqSect, 0))
              /\ \A k \in 1 .. LastPart(curSect, reqSect) :
                    after[k] = ReadPart(after[k - 1], t, Part(curSect, reqSect, k))
<1> DEFINE last == LastPart(curSect, reqSect)
           After(n, g) == g = [k \in 0 .. n |-> ReadPart(IF k = 0 THEN b ELSE g[k - 1], t,
                                                         Part(curSect, reqSect, k))]
           none == {n \in 0 .. last : ~ \E g : After(n, g)}
<1> HIDE DEF last
<1>1. last \in Nat
  BY DEF last
<1>2. none = {}
  <2> SUFFICES ASSUME none # {} PROVE FALSE
    OBVIOUS
  <2>1. none \in SUBSET Nat
    BY <1>1
  <2>2. PICK n \in none : \A m \in none : n <= m
    <3> HIDE DEF none
    <3> QED BY <2>1, LeastNumber
  <2>3. n \in Nat /\ n <= last /\ ~ \E g : After(n, g)
    BY <1>1, <2>2
  <2>4. CASE n = 0
    <3> DEFINE g == [k \in 0 .. 0 |-> ReadPart(b, t, Part(curSect, reqSect, k))]
    <3>1. g = [k \in 0 .. 0 |-> ReadPart(IF k = 0 THEN b ELSE g[k - 1], t, Part(curSect, reqSect, k))]
      <4>1. \A k \in 0 .. 0 : k = 0
        OBVIOUS
      <4> QED BY <4>1
    <3> QED BY <2>3, <2>4, <3>1
  <2>5. CASE n # 0
    <3>1. n - 1 \in 0 .. last /\ ~ (n <= n - 1) /\ n - 1 \in Nat
      BY <1>1, <2>3, <2>5
    <3>2. n - 1 \notin none
      BY <2>2, <3>1
    <3>3. PICK g : After(n - 1, g)
      BY <3>1, <3>2
    <3> DEFINE h == [k \in 0 .. n |-> IF k = n THEN ReadPart(g[n - 1], t, Part(curSect, reqSect, n))
                                      ELSE g[k]]
    <3>4. ASSUME NEW k \in 0 .. n
          PROVE  h[k] = ReadPart(IF k = 0 THEN b ELSE h[k - 1], t, Part(curSect, reqSect, k))
      <4>1. CASE k = n
        <5>1. n - 1 \in 0 .. n /\ n - 1 # n /\ n \in 0 .. n
          BY <2>3, <3>1
        <5>2. h[n - 1] = g[n - 1] /\ h[n] = ReadPart(g[n - 1], t, Part(curSect, reqSect, n))
          BY <5>1
        <5> HIDE DEF h
        <5> QED BY <2>5, <4>1, <5>2
      <4>2. CASE k # n
        <5>1. k \in 0 .. n - 1 /\ (k # 0 => k - 1 \in 0 .. n /\ k - 1 # n)
          BY <2>3, <4>2
        <5>2. h[k] = g[k] /\ (k # 0 => h[k - 1] = g[k - 1])
          BY <4>2, <5>1
        <5>3. g[k] = ReadPart(IF k = 0 THEN b ELSE g[k - 1], t, Part(curSect, reqSect, k))
          BY <3>3, <5>1
        <5> HIDE DEF h
        <5> QED BY <5>2, <5>3
      <4> QED BY <4>1, <4>2
    <3>5. h = [k \in 0 .. n |-> h[k]]
      OBVIOUS
    <3>6. After(n, h)
      <4> HIDE DEF h
      <4> QED BY <3>4, <3>5
    <3> QED BY <2>3, <3>6
  <2> QED BY <2>4, <2>5
<1>3. last \in 0 .. last /\ \E g : After(last, g)
  <2>1. last \in 0 .. last
    BY <1>1
  <2> QED BY <1>2, <2>1
<1> DEFINE after == CHOOSE g : After(last, g)
<1>4. After(last, after)
  BY <1>3
<1>5. LRUBufRead(b, t, curSect, reqSect) = after[last]
  BY DEF LRUBufRead, last
<1> HIDE DEF after
<1>6. 0 \in 0 .. last /\ after[0] = ReadPart(b, t, Part(curSect, reqSect, 0))
  <2>1. 0 \in 0 .. last
    BY <1>1
  <2> QED BY <1>4, <2>1
<1>7. ASSUME NEW k \in 1 .. last
      PROVE  after[k] = ReadPart(after[k - 1], t, Part(curSect, reqSect, k))
  <2>1. k \in 0 .. last /\ k # 0
    BY <1>1
  <2> QED BY <1>4, <2>1
<1> QED BY <1>5, <1>6, <1>7 DEF last
\* So does LRUBufWrite.
LEMMA WriteSteps ==
    ASSUME NEW b, NEW t, NEW curSect, NEW reqSect, LastPart(curSect, reqSect) \in Nat
    PROVE  \E after :
              /\ LRUBufWrite(b, t, curSect, reqSect) = after[LastPart(curSect, reqSect)]
              /\ after[0] = WritePart(b, t, Part(curSect, reqSect, 0))
              /\ \A k \in 1 .. LastPart(curSect, reqSect) :
                    after[k] = WritePart(after[k - 1], t, Part(curSect, reqSect, k))
<1> DEFINE last == LastPart(curSect, reqSect)
           After(n, g) == g = [k \in 0 .. n |-> WritePart(IF k = 0 THEN b ELSE g[k - 1], t,
                                                          Part(curSect, reqSect, k))]
           none == {n \in 0 .. last : ~ \E g : After(n, g)}
<1> HIDE DEF last
<1>1. last \in Nat
  BY DEF last
<1>2. none = {}
  <2> SUFFICES ASSUME none # {} PROVE FALSE
    OBVIOUS
  <2>1. none \in SUBSET Nat
    BY <1>1
  <2>2. PICK n \in none : \A m \in none : n <= m
    <3> HIDE DEF none
    <3> QED BY <2>1, LeastNumber
  <2>3. n \in Nat /\ n <= last /\ ~ \E g : After(n, g)
    BY <1>1, <2>2
  <2>4. CASE n = 0
    <3> DEFINE g == [k \in 0 .. 0 |-> WritePart(b, t, Part(curSect, reqSect, k))]
    <3>1. g = [k \in 0 .. 0 |-> WritePart(IF k = 0 THEN b ELSE g[k - 1], t, Part(curSect, reqSect, k))]
      <4>1. \A k \in 0 .. 0 : k = 0
        OBVIOUS
      <4> QED BY <4>1
    <3> QED BY <2>3, <2>4, <3>1
  <2>5. CASE n # 0
    <3>1. n - 1 \in 0 .. last /\ ~ (n <= n - 1) /\ n - 1 \in Nat
      BY <1>1, <2>3, <2>5
    <3>2. n - 1 \notin none
      BY <2>2, <3>1
    <3>3. PICK g : After(n - 1, g)
      BY <3>1, <3>2
    <3> DEFINE h == [k \in 0 .. n |-> IF k = n THEN WritePart(g[n - 1], t, Part(curSect, reqSect, n))
                                      ELSE g[k]]
    <3>4. ASSUME NEW k \in 0 .. n
          PROVE  h[k] = WritePart(IF k = 0 THEN b ELSE h[k - 1], t, Part(curSect, reqSect, k))
      <4>1. CASE k = n
        <5>1. n - 1 \in 0 .. n /\ n - 1 # n /\ n \in 0 .. n
          BY <2>3, <3>1
        <5>2. h[n - 1] = g[n - 1] /\ h[n] = WritePart(g[n - 1], t, Part(curSect, reqSect, n))
          BY <5>1
        <5> HIDE DEF h
        <5> QED BY <2>5, <4>1, <5>2
      <4>2. CASE k # n
        <5>1. k \in 0 .. n - 1 /\ (k # 0 => k - 1 \in 0 .. n /\ k - 1 # n)
          BY <2>3, <4>2
        <5>2. h[k] = g[k] /\ (k # 0 => h[k - 1] = g[k - 1])
          BY <4>2, <5>1
        <5>3. g[k] = WritePart(IF k = 0 THEN b ELSE g[k - 1], t, Part(curSect, reqSect, k))
          BY <3>3, <5>1
        <5> HIDE DEF h
        <5> QED BY <5>2, <5>3
      <4> QED BY <4>1, <4>2
    <3>5. h = [k \in 0 .. n |-> h[k]]
      OBVIOUS
    <3>6. After(n, h)
      <4> HIDE DEF h
      <4> QED BY <3>4, <3>5
    <3> QED BY <2>3, <3>6
  <2> QED BY <2>4, <2>5
<1>3. last \in 0 .. last /\ \E g : After(last, g)
  <2>1. last \in 0 .. last
    BY <1>1
  <2> QED BY <1>2, <2>1
<1> DEFINE after == CHOOSE g : After(last, g)
<1>4. After(last, after)
  BY <1>3
<1>5. LRUBufWrite(b, t, curSect, reqSect) = after[last]
  BY DEF LRUBufWrite, last
<1> HIDE DEF after
<1>6. 0 \in 0 .. last /\ after[0] = WritePart(b, t, Part(curSect, reqSect, 0))
  <2>1. 0 \in 0 .. last
    BY <1>1
  <2> QED BY <1>4, <2>1
<1>7. ASSUME NEW k \in 1 .. last
      PROVE  after[k] = WritePart(after[k - 1], t, Part(curSect, reqSect, k))
  <2>1. k \in 0 .. last /\ k # 0
    BY <1>1
  <2> QED BY <1>4, <2>1
<1> QED BY <1>5, <1>6, <1>7 DEF last


\* A read asks for what was written last, sector by sector.
LEMMA ReadFacts ==
    ASSUME NEW b, NEW st, NEW fl, NEW sl, NEW lt, Sound(b, st, fl, sl, lt), NEW t \in Slots,
           NEW curSect, NEW reqSect, OnDevice(curSect, reqSect), Below(b.queue, fl, t, 0),
           sl[t].op = "read",
           \A i \in 0 .. reqSect - 1 :
              i \in sl[t].left /\ sl[t].value[i] = lt[LpnOf(curSect + i)][OffsetOf(curSect + i)]
    PROVE  LET c == LRUBufRead(b, t, curSect, reqSect)
           IN  /\ Sound(c, st, fl, sl, lt)
               /\ \A f \in Entries : c.entry[f].data = b.entry[f].data
<1> DEFINE last == LastPart(curSect, reqSect)
           P(k) == Part(curSect, reqSect, k)
<1>1. last \in Nat
  <2>1. Loop(curSect, reqSect) \in Nat
    BY Cut DEF OnDevice
  <2> QED BY <2>1 DEF LastPart
<1>2. PICK after : /\ LRUBufRead(b, t, curSect, reqSect) = after[last]
                   /\ after[0] = ReadPart(b, t, P(0))
                   /\ \A k \in 1 .. last : after[k] = ReadPart(after[k - 1], t, P(k))
  BY <1>1, ReadSteps
<1> HIDE DEF last
<1>3. ASSUME NEW k \in 0 .. last, NEW x, Sound(x, st, fl, sl, lt),
             Below(x.queue, fl, t, P(k).dmaIndex)
      PROVE  LET c == ReadPart(x, t, P(k))
             IN  /\ Sound(c, st, fl, sl, lt) /\ Below(c.queue, fl, t, P(k).dmaIndex + P(k).subReqSect)
                 /\ \A f \in Entries : c.entry[f].data = x.entry[f].data
  <2>1. PartOK(P(k))
    BY PartFacts DEF last
  <2>2. \A s \in PartSectors(P(k)) :
           /\ At(P(k), s) \in 0 .. reqSect - 1
           /\ LpnOf(curSect + At(P(k), s)) = P(k).lpn /\ OffsetOf(curSect + At(P(k), s)) = s
    BY PartSectorFacts DEF last
  <2> HIDE DEF P
  <2>3. \A s \in PartSectors(P(k)) : /\ At(P(k), s) \in sl[t].left
                                     /\ sl[t].value[At(P(k), s)] = lt[P(k).lpn][s]
    BY <2>2
  <2> QED BY <1>3, <2>1, <2>3, ReadPartFacts
<1>4. /\ P(0).dmaIndex = 0
      /\ \A k \in 1 .. last : P(k).dmaIndex = P(k - 1).dmaIndex + P(k - 1).subReqSect
  <2>1. 0 \in 0 .. last
    BY <1>1
  <2>2. P(0).dmaIndex = 0
    BY <2>1, PartFacts DEF last
  <2>3. ASSUME NEW k \in 1 .. last
        PROVE  P(k).dmaIndex = P(k - 1).dmaIndex + P(k - 1).subReqSect
    <3>1. k - 1 \in 0 .. last /\ k - 1 # last /\ (k - 1) + 1 = k
      BY <1>1
    <3>2. Part(curSect, reqSect, (k - 1) + 1).dmaIndex = P(k - 1).dmaIndex + P(k - 1).subReqSect
      BY <3>1, PartFacts DEF last
    <3> QED BY <3>1, <3>2
  <2> QED BY <2>2, <2>3
<1> HIDE DEF P
<1> DEFINE Fine(k) == /\ Sound(after[k], st, fl, sl, lt)
                      /\ Below(after[k].queue, fl, t, P(k).dmaIndex + P(k).subReqSect)
                      /\ \A f \in Entries : after[k].entry[f].data = b.entry[f].data
           wrong == {k \in 0 .. last : ~ Fine(k)}
<1>5. Fine(0)
  <2>1. 0 \in 0 .. last
    BY <1>1
  <2>2. Below(b.queue, fl, t, P(0).dmaIndex)
    BY <1>4
  <2> QED BY <1>2, <1>3, <2>1, <2>2
<1>6. ASSUME NEW k \in 1 .. last, Fine(k - 1)
      PROVE  Fine(k)
  <2>1. k \in 0 .. last
    BY <1>1
  <2>2. Below(after[k - 1].queue, fl, t, P(k).dmaIndex)
    BY <1>4, <1>6
  <2>3. after[k] = ReadPart(after[k - 1], t, P(k))
    BY <1>2
  <2>4. LET c == ReadPart(after[k - 1], t, P(k))
        IN  /\ Sound(c, st, fl, sl, lt) /\ Below(c.queue, fl, t, P(k).dmaIndex + P(k).subReqSect)
            /\ \A f \in Entries : c.entry[f].data = after[k - 1].entry[f].data
    BY <1>3, <1>6, <2>1, <2>2
  <2> QED BY <1>6, <2>3, <2>4
<1>7. wrong = {}
  <2> SUFFICES ASSUME wrong # {} PROVE FALSE
    OBVIOUS
  <2>1. wrong \in SUBSET Nat
    BY <1>1
  <2>2. PICK k \in wrong : \A m \in wrong : k <= m
    <3> HIDE DEF wrong
    <3> QED BY <2>1, LeastNumber
  <2>3. k \in 0 .. last /\ ~ Fine(k)
    BY <2>2
  <2> HIDE DEF Fine
  <2>4. k \in 1 .. last /\ k - 1 \in 0 .. last /\ ~ (k <= k - 1)
    BY <1>1, <1>5, <2>3
  <2>5. Fine(k - 1)
    BY <2>2, <2>4
  <2> QED BY <1>6, <2>3, <2>4, <2>5
<1>8. Fine(last)
  <2>1. last \in 0 .. last
    BY <1>1
  <2> HIDE DEF Fine
  <2> QED BY <1>7, <2>1
<1> QED BY <1>2, <1>8

\* A write leaves its value in its sectors.
LEMMA WriteFacts ==
    ASSUME NEW b, NEW st, NEW fl, NEW sl, NEW lt, Sound(b, st, fl, sl, lt), NEW t \in Slots,
           NEW curSect, NEW reqSect, OnDevice(curSect, reqSect), Below(b.queue, fl, t, 0),
           sl[t].op = "write", NEW value \in Data,
           \A i \in 0 .. reqSect - 1 : i \in sl[t].left /\ sl[t].value[i] = value
    PROVE  LET c == LRUBufWrite(b, t, curSect, reqSect)
           IN  /\ Sound(c, st, fl, sl, LatestAfter(lt, value, curSect, reqSect))
               /\ \A f \in Entries : c.entry[f].data = b.entry[f].data
<1> DEFINE last == LastPart(curSect, reqSect)
           P(k) == Part(curSect, reqSect, k)
           L(n) == LatestAfter(lt, value, curSect, n)
<1>1. last \in Nat /\ lt \in [Lpns -> PageData]
  <2>1. Loop(curSect, reqSect) \in Nat
    BY Cut DEF OnDevice
  <2> QED BY <2>1 DEF LastPart, Sound
<1>2. PICK after : /\ LRUBufWrite(b, t, curSect, reqSect) = after[last]
                   /\ after[0] = WritePart(b, t, P(0))
                   /\ \A k \in 1 .. last : after[k] = WritePart(after[k - 1], t, P(k))
  BY <1>1, WriteSteps
<1> HIDE DEF last
<1>3. ASSUME NEW k \in 0 .. last, NEW x, Sound(x, st, fl, sl, L(P(k).dmaIndex)),
             Below(x.queue, fl, t, P(k).dmaIndex)
      PROVE  LET c == WritePart(x, t, P(k))
             IN  /\ Sound(c, st, fl, sl, L(P(k).dmaIndex + P(k).subReqSect)) /\ Past(c, fl, t, P(k))
                 /\ \A f \in Entries : c.entry[f].data = x.entry[f].data
  <2>1. PartOK(P(k))
    BY PartFacts DEF last
  <2>2. \A s \in PartSectors(P(k)) : At(P(k), s) \in 0 .. reqSect - 1
    BY PartSectorFacts DEF last
  <2>3. Rewritten(L(P(k).dmaIndex), L(P(k).dmaIndex + P(k).subReqSect), sl, t, P(k))
    BY <1>1, LatestGrows DEF last
  <2> HIDE DEF P, L
  <2>4. Ordered(sl, t, P(k))
    BY <2>2 DEF Ordered
  <2> QED BY <1>3, <2>1, <2>3, <2>4, WritePartFacts
<1>4. /\ P(0).dmaIndex = 0 /\ P(last).dmaIndex + P(last).subReqSect = reqSect
      /\ \A k \in 1 .. last : P(k).dmaIndex = P(k - 1).dmaIndex + P(k - 1).subReqSect
  <2>1. 0 \in 0 .. last /\ last \in 0 .. last
    BY <1>1
  <2>2. P(0).dmaIndex = 0 /\ P(last).dmaIndex + P(last).subReqSect = reqSect
    BY <2>1, PartFacts DEF last
  <2>3. ASSUME NEW k \in 1 .. last
        PROVE  P(k).dmaIndex = P(k - 1).dmaIndex + P(k - 1).subReqSect
    <3>1. k - 1 \in 0 .. last /\ k - 1 # last /\ (k - 1) + 1 = k
      BY <1>1
    <3>2. Part(curSect, reqSect, (k - 1) + 1).dmaIndex = P(k - 1).dmaIndex + P(k - 1).subReqSect
      BY <3>1, PartFacts DEF last
    <3> QED BY <3>1, <3>2
  <2> QED BY <2>2, <2>3
<1>5. L(0) = lt
  <2>1. curSect \in Nat
    BY DEF OnDevice
  <2>2. curSect .. curSect + 0 - 1 = {}
    BY <2>1
  <2>3. L(0) = [l \in Lpns |-> [s \in Sectors |-> lt[l][s]]]
    BY <2>2 DEF LatestAfter
  <2>4. \A l \in Lpns : lt[l] = [s \in Sectors |-> lt[l][s]]
    BY <1>1 DEF PageData
  <2> HIDE DEF L
  <2> QED BY <1>1, <2>3, <2>4
<1> HIDE DEF P, L
<1> DEFINE Fine(k) == /\ Sound(after[k], st, fl, sl, L(P(k).dmaIndex + P(k).subReqSect))
                      /\ Past(after[k], fl, t, P(k))
                      /\ \A f \in Entries : after[k].entry[f].data = b.entry[f].data
           wrong == {k \in 0 .. last : ~ Fine(k)}
<1>6. Fine(0)
  <2>1. 0 \in 0 .. last
    BY <1>1
  <2>2. Below(b.queue, fl, t, P(0).dmaIndex) /\ Sound(b, st, fl, sl, L(P(0).dmaIndex))
    BY <1>4, <1>5
  <2> QED BY <1>2, <1>3, <2>1, <2>2
<1>7. ASSUME NEW k \in 1 .. last, Fine(k - 1)
      PROVE  Fine(k)
  <2>1. k \in 0 .. last
    BY <1>1
  <2>2. /\ Below(after[k - 1].queue, fl, t, P(k).dmaIndex)
        /\ Sound(after[k - 1], st, fl, sl, L(P(k).dmaIndex))
    BY <1>4, <1>7 DEF Past
  <2>3. after[k] = WritePart(after[k - 1], t, P(k))
    BY <1>2
  <2>4. LET c == WritePart(after[k - 1], t, P(k))
        IN  /\ Sound(c, st, fl, sl, L(P(k).dmaIndex + P(k).subReqSect)) /\ Past(c, fl, t, P(k))
            /\ \A f \in Entries : c.entry[f].data = after[k - 1].entry[f].data
    BY <1>3, <2>1, <2>2
  <2> QED BY <1>7, <2>3, <2>4
<1>8. wrong = {}
  <2> SUFFICES ASSUME wrong # {} PROVE FALSE
    OBVIOUS
  <2>1. wrong \in SUBSET Nat
    BY <1>1
  <2>2. PICK k \in wrong : \A m \in wrong : k <= m
    <3> HIDE DEF wrong
    <3> QED BY <2>1, LeastNumber
  <2>3. k \in 0 .. last /\ ~ Fine(k)
    BY <2>2
  <2> HIDE DEF Fine
  <2>4. k \in 1 .. last /\ k - 1 \in 0 .. last /\ ~ (k <= k - 1)
    BY <1>1, <1>6, <2>3
  <2>5. Fine(k - 1)
    BY <2>2, <2>4
  <2> QED BY <1>7, <2>3, <2>4, <2>5
<1>9. Fine(last)
  <2>1. last \in 0 .. last
    BY <1>1
  <2> HIDE DEF Fine
  <2> QED BY <1>8, <2>1
<1>10. Sound(after[last], st, fl, sl, L(reqSect))
  BY <1>4, <1>9
<1> QED BY <1>2, <1>9, <1>10 DEF L

(***************************************************************************)
(* Commands.                                                               *)
(***************************************************************************)

\* The record of the four variables is the buffer that they become.
LEMMA BecomeFacts ==
    ASSUME NEW b, b \in Buffers, Become(b)
    PROVE  Ftl' = b /\ bufEntry' = b.entry
<1>1. b = [entry |-> b.entry, lru |-> b.lru, mapped |-> b.mapped, queue |-> b.queue]
  BY DEF Buffers
<1>2. Ftl' = [entry |-> b.entry, lru |-> b.lru, mapped |-> b.mapped, queue |-> b.queue]
  BY DEF Ftl, Become
<1> QED BY <1>1, <1>2 DEF Become

\* A sector of the device is a sector of a page.
LEMMA SectorPlace ==
    ASSUME NEW n \in Nat, n < Pages * SECTOR_NUM_PER_PAGE
    PROVE  LpnOf(n) \in Lpns /\ OffsetOf(n) \in Sectors
<1>1. S \in Nat \ {0} /\ Pages \in Nat
  BY Sizes DEF S
<1> DEFINE q == n \div S
           r == n % S
<1>2. q \in Nat /\ r \in 0 .. S - 1 /\ n = q * S + r
  BY Division
<1> HIDE DEF q, r
<1>3. q < Pages
  <2> SUFFICES ASSUME Pages <= q PROVE FALSE
    BY <1>1, <1>2
  <2>1. Pages * S \in Nat /\ q * S \in Nat
    BY <1>1, <1>2
  <2> DEFINE a == Pages * S
             z == q * S
  <2>2. a <= z
    <3>1. CASE Pages = q
      BY <2>1, <3>1
    <3>2. CASE Pages < q
      <4>1. a + S <= z
        BY <1>1, <1>2, <3>2, SpreadBy
      <4> HIDE DEF a, z
      <4> QED BY <1>1, <2>1, <4>1 DEF a, z
    <3> QED BY <1>1, <1>2, <3>1, <3>2
  <2>3. n < a /\ n = z + r
    BY <1>2 DEF S
  <2>4. a \in Nat /\ z \in Nat
    BY <2>1
  <2> HIDE DEF a, z
  <2> QED BY <1>2, <2>2, <2>3, <2>4
<1> QED BY <1>1, <1>2, <1>3 DEF LpnOf, OffsetOf, Lpns, Sectors, S, q, r

\* what the host is still owed by the reads under way, as the state has it
Reading(entry, fl, sl) ==
    \A e \in Entries : fl[e].kind = "TxDMA" =>
        \A s \in fl[e].left : Agrees(entry[e].data[s], sl[fl[e].slot].value[At(fl[e], s)])

\* ReadsLatest, of the state.
LEMMA ReadingFacts == ReadsLatest <=> Reading(bufEntry, flying, slots)
BY DEF ReadsLatest, Reading, At

\* Handlers do not disturb the reads under way.
LEMMA ReadingSame ==
    ASSUME NEW entry, NEW entry2, NEW fl, NEW sl, NEW s2, Reading(entry, fl, sl),
           \A e \in Entries : entry2[e].data = entry[e].data,
           \A e \in Entries : fl[e].left # {} => s2[fl[e].slot] = sl[fl[e].slot]
    PROVE  Reading(entry2, fl, s2)
BY DEF Reading

\* A read command.
LEMMA HostReadStep ==
    ASSUME LruInv, NEW t \in Slots, NEW curSect \in 0 .. Pages * SECTOR_NUM_PER_PAGE - 1,
           NEW reqSect \in 1 .. MaxReq, HostRead(t, curSect, reqSect)
    PROVE  LruInv'
<1> DEFINE value == [i \in 0 .. reqSect - 1 |-> latest[LpnOf(curSect + i)][OffsetOf(curSect + i)]]
           command == [op |-> "read", left |-> 0 .. reqSect - 1, value |-> value]
           s2 == [slots EXCEPT ![t] = command]
           b == LRUBufRead(Ftl, t, curSect, reqSect)
<1>1. /\ join = {} /\ slots[t].op = "none" /\ curSect + reqSect <= Pages * SECTOR_NUM_PER_PAGE
      /\ Become(b) /\ slots' = s2
      /\ stored' = stored /\ flying' = flying /\ join' = join /\ latest' = latest
  BY DEF HostRead, Requestable, Arrives
<1>2. Sound(Ftl, stored, flying, slots, latest) /\ Reading(bufEntry, flying, slots)
  BY ReadingFacts DEF LruInv
<1>3. OnDevice(curSect, reqSect) /\ curSect \in Nat /\ reqSect \in Nat \ {0}
  <2>1. Pages * SECTOR_NUM_PER_PAGE \in Nat /\ MaxReq \in Nat
    BY Sizes
  <2> QED BY <1>1, <2>1 DEF OnDevice
<1>4. \A i \in 0 .. reqSect - 1 : value[i] = latest[LpnOf(curSect + i)][OffsetOf(curSect + i)]
                                  /\ value[i] \in Contents
  <2> SUFFICES ASSUME NEW i \in 0 .. reqSect - 1
               PROVE  latest[LpnOf(curSect + i)][OffsetOf(curSect + i)] \in Contents
    OBVIOUS
  <2>1. curSect + i \in Nat /\ curSect + i < Pages * SECTOR_NUM_PER_PAGE
    <3>1. Pages * SECTOR_NUM_PER_PAGE \in Nat
      BY Sizes
    <3> QED BY <1>1, <1>3, <3>1
  <2>2. LpnOf(curSect + i) \in Lpns /\ OffsetOf(curSect + i) \in Sectors
    BY <2>1, SectorPlace
  <2>3. latest \in [Lpns -> PageData]
    BY <1>2 DEF Sound
  <2>4. latest[LpnOf(curSect + i)] \in PageData
    BY <2>2, <2>3
  <2> QED BY <2>2, <2>4 DEF PageData, Contents
<1>5. value \in [0 .. reqSect - 1 -> Contents]
  BY <1>4
<1> HIDE DEF value
<1>6. command \in Commands /\ command.left = 0 .. reqSect - 1 /\ command.left # {}
      /\ command.op = "read" /\ command.value = value
  <2>1. value \in UNION {[0 .. n - 1 -> Contents] : n \in Nat \ {0}}
    BY <1>3, <1>5
  <2>2. 0 .. reqSect - 1 \in SUBSET Nat /\ 0 \in 0 .. reqSect - 1
    BY <1>3
  <2> QED BY <2>1, <2>2 DEF Commands
<1> HIDE DEF command, s2, b
<1>7. \A i \in command.left : command.value[i] \in Contents
  BY <1>4, <1>6
<1>8. /\ Sound(Ftl, stored, flying, s2, latest) /\ Below(Ftl.queue, flying, t, 0) /\ s2[t] = command
      /\ \A e \in Entries : flying[e].left # {} => s2[flying[e].slot] = slots[flying[e].slot]
  <2>1. Taken(slots, t, command, s2)
    BY <1>1, <1>6, <1>7 DEF s2, Taken
  <2> QED BY <1>2, <2>1, NewCommand
<1>9. /\ Sound(b, stored, flying, s2, latest)
      /\ \A f \in Entries : b.entry[f].data = Ftl.entry[f].data
  <2>1. s2[t].op = "read"
    BY <1>6, <1>8
  <2>2. \A i \in 0 .. reqSect - 1 :
           i \in s2[t].left /\ s2[t].value[i] = latest[LpnOf(curSect + i)][OffsetOf(curSect + i)]
    BY <1>4, <1>6, <1>8
  <2> QED BY <1>3, <1>8, <2>1, <2>2, ReadFacts DEF b
<1>10. Ftl' = b /\ bufEntry' = b.entry
  BY <1>1, <1>9, BecomeFacts DEF Sound, BufferOK
<1>11. Sound(Ftl', stored', flying', slots', latest')
  BY <1>1, <1>9, <1>10
<1>12. Reading(bufEntry', flying', slots')
  <2>1. \A e \in Entries : b.entry[e].data = bufEntry[e].data
    BY <1>9 DEF Ftl
  <2>2. Reading(b.entry, flying, s2)
    BY <1>2, <1>8, <2>1, ReadingSame
  <2> QED BY <1>1, <1>10, <2>2
<1>13. ReadsLatest'
  BY <1>12 DEF ReadsLatest, Reading, At
<1>14. JoinOK'
  BY <1>1 DEF JoinOK
<1> QED BY <1>11, <1>13, <1>14 DEF LruInv

\* A write command.
LEMMA HostWriteStep ==
    ASSUME LruInv, NEW t \in Slots, NEW curSect \in 0 .. Pages * SECTOR_NUM_PER_PAGE - 1,
           NEW reqSect \in 1 .. MaxReq, NEW value \in Data, HostWrite(t, curSect, reqSect, value)
    PROVE  LruInv'
<1> DEFINE values == [i \in 0 .. reqSect - 1 |-> value]
           command == [op |-> "write", left |-> 0 .. reqSect - 1, value |-> values]
           s2 == [slots EXCEPT ![t] = command]
           b == LRUBufWrite(Ftl, t, curSect, reqSect)
           lt2 == LatestAfter(latest, value, curSect, reqSect)
<1>1. /\ join = {} /\ slots[t].op = "none" /\ curSect + reqSect <= Pages * SECTOR_NUM_PER_PAGE
      /\ Become(b) /\ slots' = s2
      /\ stored' = stored /\ flying' = flying /\ join' = join /\ latest' = lt2
  BY DEF HostWrite, Requestable, Arrives, LatestAfter
<1>2. Sound(Ftl, stored, flying, slots, latest) /\ Reading(bufEntry, flying, slots)
  BY ReadingFacts DEF LruInv
<1>3. OnDevice(curSect, reqSect) /\ curSect \in Nat /\ reqSect \in Nat \ {0}
  <2>1. Pages * SECTOR_NUM_PER_PAGE \in Nat /\ MaxReq \in Nat
    BY Sizes
  <2> QED BY <1>1, <2>1 DEF OnDevice
<1>4. /\ \A i \in 0 .. reqSect - 1 : values[i] = value /\ values[i] \in Contents
      /\ values \in [0 .. reqSect - 1 -> Contents]
  BY DEF Contents
<1> HIDE DEF values
<1>5. command \in Commands /\ command.left = 0 .. reqSect - 1 /\ command.left # {}
      /\ command.op = "write" /\ command.value = values
  <2>1. values \in UNION {[0 .. n - 1 -> Contents] : n \in Nat \ {0}}
    BY <1>3, <1>4
  <2>2. 0 .. reqSect - 1 \in SUBSET Nat /\ 0 \in 0 .. reqSect - 1
    BY <1>3
  <2> QED BY <2>1, <2>2 DEF Commands
<1> HIDE DEF command, s2, b, lt2
<1>6. \A i \in command.left : command.value[i] \in Contents
  BY <1>4, <1>5
<1>7. /\ Sound(Ftl, stored, flying, s2, latest) /\ Below(Ftl.queue, flying, t, 0) /\ s2[t] = command
      /\ \A e \in Entries : flying[e].left # {} => s2[flying[e].slot] = slots[flying[e].slot]
  <2>1. Taken(slots, t, command, s2)
    BY <1>1, <1>5, <1>6 DEF s2, Taken
  <2> QED BY <1>2, <2>1, NewCommand
<1>8. /\ Sound(b, stored, flying, s2, lt2)
      /\ \A f \in Entries : b.entry[f].data = Ftl.entry[f].data
  <2>1. s2[t].op = "write"
    BY <1>5, <1>7
  <2>2. \A i \in 0 .. reqSect - 1 : i \in s2[t].left /\ s2[t].value[i] = value
    BY <1>4, <1>5, <1>7
  <2> QED BY <1>3, <1>7, <2>1, <2>2, WriteFacts DEF b, lt2
<1>9. Ftl' = b /\ bufEntry' = b.entry
  BY <1>1, <1>8, BecomeFacts DEF Sound, BufferOK
<1>10. Sound(Ftl', stored', flying', slots', latest')
  BY <1>1, <1>8, <1>9
<1>11. Reading(bufEntry', flying', slots')
  <2>1. \A e \in Entries : b.entry[e].data = bufEntry[e].data
    BY <1>8 DEF Ftl
  <2>2. Reading(b.entry, flying, s2)
    BY <1>2, <1>7, <2>1, ReadingSame
  <2> QED BY <1>1, <1>9, <2>2
<1>12. ReadsLatest'
  BY <1>11 DEF ReadsLatest, Reading, At
<1>13. JoinOK'
  BY <1>1 DEF JoinOK
<1> QED BY <1>10, <1>12, <1>13 DEF LruInv

\* A join brings its pages into the buffer, and the second does not take the
\* entry of the first.
LEMMA HostJoinStep ==
    ASSUME LruInv, NEW l1 \in Lpns, NEW l2 \in Lpns, l1 # l2, HostJoin(l1, l2)
    PROVE  LruInv'
<1> DEFINE b1 == PageToBuffer(Ftl, l1)
           b2 == PageToBuffer(b1, l2)
           e1 == Chosen(Ftl, l1)
           e2 == Chosen(b1, l2)
           f1 == CHOOSE e \in Hits(b1, l1) : TRUE
           f2 == CHOOSE e \in Hits(b2, l2) : TRUE
<1>1. /\ \A t \in Slots : slots[t].op # "write"
      /\ Become(b2) /\ join' = {<<f1, l1>>, <<f2, l2>>}
      /\ stored' = stored /\ flying' = flying /\ slots' = slots /\ latest' = latest
  BY DEF HostJoin
<1>2. Sound(Ftl, stored, flying, slots, latest) /\ Reading(bufEntry, flying, slots)
  BY ReadingFacts DEF LruInv
<1>3. /\ Sound(b1, stored, flying, slots, latest) /\ Kin(Ftl, b1, flying)
      /\ e1 \in EntriesOf(Die(l1)) /\ b1.entry[e1].lpn = l1 /\ b1.lru[Die(l1)][1] = e1
  BY <1>2, PageToBufferFacts
<1> HIDE DEF b1, e1
<1>4. /\ Sound(b2, stored, flying, slots, latest) /\ Kin(b1, b2, flying)
      /\ e2 \in EntriesOf(Die(l2)) /\ b2.entry[e2].lpn = l2
      /\ e2 = b1.lru[Die(l2)][1] => b1.entry[e2].lpn = l2
      /\ \A f \in Entries \ {e2} : b2.entry[f] = b1.entry[f]
  BY <1>3, PageToBufferFacts
<1> HIDE DEF b2, e2
<1>5. BufferOK(b1) /\ BufferOK(b2) /\ Die(l1) \in Dies /\ Die(l2) \in Dies
      /\ e1 \in Entries /\ e2 \in Entries
  BY <1>3, <1>4, DieOfPage, EntriesOfDie DEF Sound
<1>6. f1 = e1
  <2>1. e1 \in Hits(b1, l1)
    BY <1>3, <1>5, HitsFacts
  <2>2. f1 \in Hits(b1, l1)
    BY <2>1
  <2> HIDE DEF f1
  <2> QED BY <1>5, <2>1, <2>2, HitsFacts
<1>7. f2 = e2
  <2>1. e2 \in Hits(b2, l2)
    BY <1>4, <1>5, HitsFacts
  <2>2. f2 \in Hits(b2, l2)
    BY <2>1
  <2> HIDE DEF f2
  <2> QED BY <1>5, <2>1, <2>2, HitsFacts
<1> HIDE DEF f1, f2
<1>8. e1 # e2
  <2> SUFFICES ASSUME e1 = e2 PROVE FALSE
    OBVIOUS
  <2>1. Die(l1) = Die(l2)
    BY <1>3, <1>4, <1>5, EntriesApart
  <2>2. b1.entry[e2].lpn = l2
    BY <1>3, <1>4, <2>1
  <2> QED BY <1>3, <2>2
<1>9. b2.entry[e1].lpn = l1
  BY <1>3, <1>4, <1>5, <1>8
<1>10. Ftl' = b2 /\ bufEntry' = b2.entry
  BY <1>1, <1>5, BecomeFacts DEF BufferOK
<1>11. Sound(Ftl', stored', flying', slots', latest')
  BY <1>1, <1>4, <1>10
<1>12. Reading(bufEntry', flying', slots')
  <2>1. \A e \in Entries : b2.entry[e].data = bufEntry[e].data
    BY <1>3, <1>4 DEF Ftl, Kin
  <2>2. Reading(b2.entry, flying, slots)
    BY <1>2, <2>1, ReadingSame
  <2> QED BY <1>1, <1>10, <2>2
<1>13. ReadsLatest'
  BY <1>12 DEF ReadsLatest, Reading, At
<1>14. JoinOK'
  <2>1. join' = {<<e1, l1>>, <<e2, l2>>}
    BY <1>1, <1>6, <1>7
  <2>2. join' \subseteq Entries \X Lpns
    BY <1>5, <2>1
  <2>3. \A p \in join' : bufEntry'[p[1]].lpn = p[2]
    BY <1>4, <1>9, <1>10, <2>1
  <2> QED BY <1>1, <2>2, <2>3 DEF JoinOK
<1> QED BY <1>11, <1>13, <1>14 DEF LruInv

\* The join looks at its rows, and the next command may come.
LEMMA JoinReadStep ==
    ASSUME LruInv, JoinRead
    PROVE  LruInv'
<1>1. /\ join' = {} /\ bufEntry' = bufEntry /\ bufLru' = bufLru /\ mapped' = mapped
      /\ reqQueue' = reqQueue /\ stored' = stored /\ flying' = flying
      /\ slots' = slots /\ latest' = latest
  BY DEF JoinRead, ftl
<1>2. Ftl' = Ftl
  BY <1>1 DEF Ftl
<1>3. Sound(Ftl', stored', flying', slots', latest')
  BY <1>1, <1>2 DEF LruInv
<1>4. ReadsLatest'
  BY <1>1 DEF LruInv, ReadsLatest
<1>5. JoinOK'
  BY <1>1 DEF JoinOK
<1> QED BY <1>3, <1>4, <1>5 DEF LruInv

(***************************************************************************)
(* The device.                                                             *)
(***************************************************************************)
EntryRecords == [lpn : Lpns \cup {None}, dirty : BOOLEAN, data : PageData]

\* b with the first request of die d taken away, and entries as in entry
Popped(b, d, entry) == [entry |-> entry, lru |-> b.lru, mapped |-> b.mapped,
                        queue |-> [b.queue EXCEPT ![d] = Tail(b.queue[d])]]

\* the place in b of the request that is request i of die k when die d is popped
Was(d, k, i) == IF k = d THEN i + 1 ELSE i

\* entries that differ in their data only
Alike(entry, entry2) ==
    /\ entry2 \in [Entries -> EntryRecords]
    /\ \A e \in Entries : entry2[e].lpn = entry[e].lpn /\ entry2[e].dirty = entry[e].dirty

\* The other requests stay, in their order.
LEMMA PoppedFacts ==
    ASSUME NEW b, BufferOK(b), NEW d \in Dies, b.queue[d] # <<>>,
           NEW entry, Alike(b.entry, entry)
    PROVE  LET c == Popped(b, d, entry)
           IN  /\ BufferOK(c) /\ c.entry = entry /\ c.mapped = b.mapped
               /\ b.queue[d] \in Seq(Requests) /\ c.queue[d] = Tail(b.queue[d])
               /\ \A k \in Dies \ {d} : c.queue[k] = b.queue[k]
               /\ 1 \in 1 .. Len(b.queue[d]) /\ Head(b.queue[d]) = b.queue[d][1]
               /\ RequestOK(Head(b.queue[d]), d)
               /\ \A k \in Dies : \A i \in 1 .. Len(c.queue[k]) :
                     /\ Was(d, k, i) \in 1 .. Len(b.queue[k]) /\ (k = d => Was(d, k, i) # 1)
                     /\ c.queue[k][i] = b.queue[k][Was(d, k, i)]
<1> DEFINE q == b.queue[d]
           c == Popped(b, d, entry)
<1>1. b \in Buffers /\ b.queue \in [Dies -> Seq(Requests)] /\ q \in Seq(Requests)
  BY DEF BufferOK, Buffers
<1>2. /\ Tail(q) \in Seq(Requests) /\ Len(q) \in Nat \ {0} /\ Len(Tail(q)) = Len(q) - 1 /\ Head(q) = q[1]
      /\ \A i \in 1 .. Len(q) - 1 : Tail(q)[i] = q[i + 1]
  BY <1>1, EmptySeq, HeadTailProperties
<1> HIDE DEF q
<1>3. c = [entry |-> entry, lru |-> b.lru, mapped |-> b.mapped, queue |-> [b.queue EXCEPT ![d] = Tail(q)]]
  BY DEF Popped, q
<1> HIDE DEF c
<1>4. /\ c.entry = entry /\ c.lru = b.lru /\ c.mapped = b.mapped /\ c.queue[d] = Tail(q)
      /\ \A k \in Dies \ {d} : c.queue[k] = b.queue[k]
  BY <1>1, <1>3
<1>5. c \in Buffers
  <2>1. [b.queue EXCEPT ![d] = Tail(q)] \in [Dies -> Seq(Requests)]
    BY <1>1, <1>2
  <2>2. entry \in [Entries -> EntryRecords]
    BY DEF Alike
  <2> QED BY <1>1, <1>3, <2>1, <2>2 DEF Buffers, EntryRecords
<1>6. 1 \in 1 .. Len(q) /\ RequestOK(Head(q), d)
  <2>1. 1 \in 1 .. Len(q)
    BY <1>2
  <2>2. RequestOK(q[1], d)
    BY <2>1 DEF BufferOK, q
  <2> QED BY <1>2, <2>1, <2>2
<1>7. ASSUME NEW k \in Dies, NEW i \in 1 .. Len(c.queue[k])
      PROVE  /\ Was(d, k, i) \in 1 .. Len(b.queue[k]) /\ (k = d => Was(d, k, i) # 1)
             /\ c.queue[k][i] = b.queue[k][Was(d, k, i)]
  <2>1. CASE k # d
    BY <1>4, <2>1 DEF Was
  <2>2. CASE k = d
    <3>1. i \in 1 .. Len(q) - 1
      BY <1>2, <1>4, <2>2
    <3>2. i + 1 \in 1 .. Len(q) /\ i + 1 # 1 /\ c.queue[k][i] = q[i + 1]
      BY <1>2, <1>4, <2>2, <3>1
    <3> QED BY <2>2, <3>2 DEF Was, q
  <2> QED BY <2>1, <2>2
<1>8. ASSUME NEW k \in Dies, NEW i \in 1 .. Len(c.queue[k])
      PROVE  RequestOK(c.queue[k][i], k)
  BY <1>7 DEF BufferOK
<1>9. \A k \in Dies : ListOK(c.lru[k], k) /\ PagesOK(c.entry, k)
  <2> SUFFICES ASSUME NEW k \in Dies PROVE ListOK(c.lru[k], k) /\ PagesOK(c.entry, k)
    OBVIOUS
  <2>1. \A e \in EntriesOf(k) : entry[e].lpn = b.entry[e].lpn /\ entry[e].dirty = b.entry[e].dirty
    BY EntriesOfDie DEF Alike
  <2>2. ListOK(b.lru[k], k) /\ PagesOK(b.entry, k)
    BY DEF BufferOK
  <2> QED BY <1>4, <2>1, <2>2 DEF PagesOK
<1>10. BufferOK(c)
  BY <1>5, <1>8, <1>9 DEF BufferOK
<1> QED BY <1>1, <1>2, <1>4, <1>6, <1>7, <1>10 DEF c, q

\* fl2 is fl with the transfer of request r begun
Begun(fl, fl2, r) ==
    /\ FlyingOK(fl2) /\ fl[r.entry].left = {}
    /\ \A e \in Entries \ {r.entry} : fl2[e] = fl[e]
    /\ fl2[r.entry].kind = r.request /\ fl2[r.entry].slot = r.slot
    /\ \A s : At(fl2[r.entry], s) = At(r, s)
    /\ fl2[r.entry].left = SectorsOf(r)

\* The transfers are apart when one is done, or begun by the engine.
LEMMA PoppedTransfers ==
    ASSUME NEW b, BufferOK(b), NEW d \in Dies, b.queue[d] # <<>>,
           NEW entry, Alike(b.entry, entry), NEW fl, NEW sl, Transfers(b.queue, fl, sl)
    PROVE  LET c == Popped(b, d, entry)
           IN  /\ Transfers(c.queue, fl, sl)
               /\ \A fl2 : Begun(fl, fl2, Head(b.queue[d])) => Transfers(c.queue, fl2, sl)
<1> DEFINE q == b.queue
           p == Popped(b, d, entry).queue
           r == Head(b.queue[d])
<1>1. /\ \A k \in Dies : \A i \in 1 .. Len(p[k]) :
            /\ Was(d, k, i) \in 1 .. Len(q[k]) /\ (k = d => Was(d, k, i) # 1)
            /\ p[k][i] = q[k][Was(d, k, i)]
      /\ 1 \in 1 .. Len(q[d]) /\ r = q[d][1] /\ r.entry \in Entries
  <2>1. RequestOK(r, d) /\ 1 \in 1 .. Len(q[d]) /\ r = q[d][1]
    BY PoppedFacts
  <2>2. r.entry \in Entries
    BY <2>1, EntriesOfDie DEF RequestOK
  <2>3. \A k \in Dies : \A i \in 1 .. Len(p[k]) :
            /\ Was(d, k, i) \in 1 .. Len(q[k]) /\ (k = d => Was(d, k, i) # 1)
            /\ p[k][i] = q[k][Was(d, k, i)]
    BY PoppedFacts
  <2> QED BY <2>1, <2>2, <2>3
<1> HIDE DEF p
<1>2. ASSUME NEW k \in Dies, NEW i \in 1 .. Len(p[k])
      PROVE  /\ Owed(sl, p[k][i], p[k][i].request, SectorsOf(p[k][i]))
             /\ \A e \in Entries : Apart(p[k][i], SectorsOf(p[k][i]), fl[e], fl[e].left)
             /\ Apart(r, SectorsOf(r), p[k][i], SectorsOf(p[k][i]))
             /\ Apart(p[k][i], SectorsOf(p[k][i]), r, SectorsOf(r))
  <2> DEFINE j == Was(d, k, i)
  <2>1. j \in 1 .. Len(q[k]) /\ (k = d => j # 1) /\ p[k][i] = q[k][j]
    BY <1>1
  <2> HIDE DEF j
  <2>2. <<d, 1>> # <<k, j>> /\ <<k, j>> # <<d, 1>>
    BY <2>1
  <2>3. /\ Apart(q[d][1], SectorsOf(q[d][1]), q[k][j], SectorsOf(q[k][j]))
        /\ Apart(q[k][j], SectorsOf(q[k][j]), q[d][1], SectorsOf(q[d][1]))
    BY <1>1, <2>1, <2>2 DEF Transfers
  <2>4. /\ Owed(sl, q[k][j], q[k][j].request, SectorsOf(q[k][j]))
        /\ \A e \in Entries : Apart(q[k][j], SectorsOf(q[k][j]), fl[e], fl[e].left)
    BY <2>1 DEF Transfers
  <2> QED BY <1>1, <2>1, <2>3, <2>4
<1>3. ASSUME NEW k \in Dies, NEW h \in Dies, NEW i \in 1 .. Len(p[k]), NEW j \in 1 .. Len(p[h]),
             <<k, i>> # <<h, j>>
      PROVE  Apart(p[k][i], SectorsOf(p[k][i]), p[h][j], SectorsOf(p[h][j]))
  <2>1. <<k, Was(d, k, i)>> # <<h, Was(d, h, j)>>
    <3>1. CASE k # h
      BY <3>1
    <3>2. CASE k = h
      <4>1. i # j /\ i \in Int /\ j \in Int
        BY <1>3, <3>2
      <4>2. Was(d, k, i) # Was(d, h, j)
        BY <3>2, <4>1 DEF Was
      <4> QED BY <4>2
    <3> QED BY <3>1, <3>2
  <2>2. /\ Was(d, k, i) \in 1 .. Len(q[k]) /\ p[k][i] = q[k][Was(d, k, i)]
        /\ Was(d, h, j) \in 1 .. Len(q[h]) /\ p[h][j] = q[h][Was(d, h, j)]
    BY <1>1
  <2>3. Apart(q[k][Was(d, k, i)], SectorsOf(q[k][Was(d, k, i)]),
              q[h][Was(d, h, j)], SectorsOf(q[h][Was(d, h, j)]))
    BY <2>1, <2>2 DEF Transfers
  <2> QED BY <2>2, <2>3
<1>4. /\ \A e \in Entries : Owed(sl, fl[e], fl[e].kind, fl[e].left)
      /\ \A e, f \in Entries : e # f => Apart(fl[e], fl[e].left, fl[f], fl[f].left)
  BY DEF Transfers
<1>5. Transfers(p, fl, sl)
  BY <1>2, <1>3, <1>4 DEF Transfers
<1>6. /\ Owed(sl, r, r.request, SectorsOf(r))
      /\ \A e \in Entries : Apart(r, SectorsOf(r), fl[e], fl[e].left)
  BY <1>1 DEF Transfers
<1> HIDE DEF r, q
<1>7. ASSUME NEW fl2, Begun(fl, fl2, r)
      PROVE  Transfers(p, fl2, sl)
  <2> DEFINE g == r.entry
  <2>1. /\ \A e \in Entries \ {g} : fl2[e] = fl[e]
        /\ fl2[g].kind = r.request /\ fl2[g].slot = r.slot
        /\ \A s : At(fl2[g], s) = At(r, s)
        /\ fl2[g].left = SectorsOf(r) /\ g \in Entries
    BY <1>1, <1>7 DEF Begun
  <2> HIDE DEF g
  <2>2. /\ \A x, xs : Apart(x, xs, r, SectorsOf(r)) => Apart(x, xs, fl2[g], fl2[g].left)
        /\ \A x, xs : Apart(r, SectorsOf(r), x, xs) => Apart(fl2[g], fl2[g].left, x, xs)
        /\ \A x, xs : Apart(r, SectorsOf(r), x, xs) => Apart(x, xs, fl2[g], fl2[g].left)
    BY <2>1 DEF Apart
  <2>3. Owed(sl, fl2[g], fl2[g].kind, fl2[g].left)
    BY <1>6, <2>1 DEF Owed
  <2>4. \A e \in Entries : Owed(sl, fl2[e], fl2[e].kind, fl2[e].left)
    <3> SUFFICES ASSUME NEW e \in Entries PROVE Owed(sl, fl2[e], fl2[e].kind, fl2[e].left)
      OBVIOUS
    <3>1. CASE e = g
      BY <2>3, <3>1
    <3>2. CASE e # g
      <4>1. fl2[e] = fl[e]
        BY <2>1, <3>2
      <4> QED BY <1>4, <4>1
    <3> QED BY <3>1, <3>2
  <2>5. ASSUME NEW k \in Dies, NEW i \in 1 .. Len(p[k]), NEW e \in Entries
        PROVE  Apart(p[k][i], SectorsOf(p[k][i]), fl2[e], fl2[e].left)
    <3>1. CASE e = g
      BY <1>2, <2>2, <3>1
    <3>2. CASE e # g
      <4>1. fl2[e] = fl[e]
        BY <2>1, <3>2
      <4> QED BY <1>2, <4>1
    <3> QED BY <3>1, <3>2
  <2>6. ASSUME NEW e \in Entries, NEW f \in Entries, e # f
        PROVE  Apart(fl2[e], fl2[e].left, fl2[f], fl2[f].left)
    <3>1. CASE e = g
      <4>1. fl2[f] = fl[f] /\ Apart(r, SectorsOf(r), fl[f], fl[f].left)
        BY <1>6, <2>1, <2>6, <3>1
      <4> QED BY <2>2, <3>1, <4>1
    <3>2. CASE f = g
      <4>1. fl2[e] = fl[e] /\ Apart(r, SectorsOf(r), fl[e], fl[e].left)
        BY <1>6, <2>1, <2>6, <3>2
      <4> QED BY <2>2, <3>2, <4>1
    <3>3. CASE e # g /\ f # g
      <4>1. fl2[e] = fl[e] /\ fl2[f] = fl[f]
        BY <2>1, <3>3
      <4> QED BY <1>4, <2>6, <4>1
    <3> QED BY <3>1, <3>2, <3>3
  <2> QED BY <1>2, <1>3, <2>4, <2>5, <2>6 DEF Transfers
<1> QED BY <1>5, <1>7 DEF p, r

\* A view is what its parts are.
LEMMA ViewFacts ==
    ASSUME NEW d, NEW entry, NEW st, NEW fl, NEW sl
    PROVE  /\ \A e \in EntriesOf(d) : View(d, entry, st, fl, sl).data[e] = Landed(sl, fl[e], entry[e].data)
           /\ \A l \in LpnsOf(d) : View(d, entry, st, fl, sl).stored[l] = st[l]
<1>1. /\ View(d, entry, st, fl, sl).data = [e \in EntriesOf(d) |-> Landed(sl, fl[e], entry[e].data)]
      /\ View(d, entry, st, fl, sl).stored = [l \in LpnsOf(d) |-> st[l]]
  BY DEF View
<1> QED BY <1>1

\* ... and the parts make the view.
LEMMA SameViews ==
    ASSUME NEW d, NEW v \in Views(d), NEW w \in Views(d),
           \A e \in EntriesOf(d) : v.data[e] = w.data[e],
           \A l \in LpnsOf(d) : v.stored[l] = w.stored[l]
    PROVE  v = w
<1>1. /\ v.data \in [EntriesOf(d) -> PageData] /\ v.stored \in [LpnsOf(d) -> PageData]
      /\ w.data \in [EntriesOf(d) -> PageData] /\ w.stored \in [LpnsOf(d) -> PageData]
      /\ v = [data |-> v.data, stored |-> v.stored] /\ w = [data |-> w.data, stored |-> w.stored]
  BY DEF Views
<1>2. v.data = w.data
  BY <1>1
<1>3. v.stored = w.stored
  BY <1>1
<1> QED BY <1>1, <1>2, <1>3

\* Without a DMA a page is what the buffer holds.
LEMMA LandedFacts ==
    ASSUME NEW sl, NEW f, NEW data \in PageData, f.kind = "RxDMA" => f.left = {}
    PROVE  Landed(sl, f, data) = data
<1>1. data = [s \in Sectors |-> data[s]]
  BY DEF PageData
<1>2. Landed(sl, f, data) = [s \in Sectors |-> data[s]]
  BY DEF Landed
<1> QED BY <1>1, <1>2

\* A view of a sound state is one, and the first request gets what it is to deliver.
LEMMA HeadFacts ==
    ASSUME NEW b, NEW st, NEW fl, NEW sl, NEW lt, Sound(b, st, fl, sl, lt), NEW d \in Dies
    PROVE  /\ View(d, b.entry, st, fl, sl) \in Views(d)
           /\ b.queue[d] # <<>> => Delivers(sl, Head(b.queue[d]), View(d, b.entry, st, fl, sl))
<1>1. View(d, b.entry, st, fl, sl) \in Views(d)
  BY ViewTyped DEF Sound, BufferOK, Transfers
<1>2. ASSUME b.queue[d] # <<>>
      PROVE  Delivers(sl, Head(b.queue[d]), View(d, b.entry, st, fl, sl))
  <2>1. PICK w \in Views(d) : Leads(d, sl, b.queue[d], View(d, b.entry, st, fl, sl), w)
    BY DEF Sound, DieKeeps
  <2>2. b.queue[d] \in Seq(Requests)
    BY DEF Sound, BufferOK, Buffers
  <2> QED BY <1>2, <2>1, <2>2, LeadsTail
<1> QED BY <1>1, <1>2

\* the other dies are as they were
Untouched(d, entry, entry2, st, st2, fl, fl2) ==
    \A k \in Dies \ {d} : /\ \A e \in EntriesOf(k) : entry2[e] = entry[e] /\ fl2[e] = fl[e]
                          /\ \A l \in LpnsOf(k) : st2[l] = st[l]

\* A request that is carried out leaves what it was to leave.
LEMMA PoppedSound ==
    ASSUME NEW b, NEW st, NEW fl, NEW sl, NEW lt, Sound(b, st, fl, sl, lt), NEW d \in Dies,
           b.queue[d] # <<>>, NEW entry, Alike(b.entry, entry),
           NEW st2 \in [Lpns -> PageData], NEW fl2, FlyingOK(fl2),
           Transfers(Popped(b, d, entry).queue, fl2, sl),
           View(d, entry, st2, fl2, sl) = Effect(sl, Head(b.queue[d]), View(d, b.entry, st, fl, sl)),
           Untouched(d, b.entry, entry, st, st2, fl, fl2)
    PROVE  Sound(Popped(b, d, entry), st2, fl2, sl, lt)
<1> DEFINE c == Popped(b, d, entry)
<1>1. BufferOK(b) /\ lt \in [Lpns -> PageData] /\ SlotsOK(sl)
  BY DEF Sound
<1>2. /\ BufferOK(c) /\ c.entry = entry /\ c.mapped = b.mapped
      /\ b.queue[d] \in Seq(Requests) /\ c.queue[d] = Tail(b.queue[d])
      /\ \A k \in Dies \ {d} : c.queue[k] = b.queue[k]
  BY <1>1, PoppedFacts
<1> HIDE DEF c
<1>3. DieKeeps(d, c, st2, fl2, sl, lt)
  <2>1. PICK w \in Views(d) : /\ Leads(d, sl, b.queue[d], View(d, b.entry, st, fl, sl), w)
                              /\ \A l \in LpnsOf(d) : Kept(d, l, b.entry, b.mapped, lt, w)
    BY DEF Sound, DieKeeps
  <2>2. Leads(d, sl, Tail(b.queue[d]), Effect(sl, Head(b.queue[d]), View(d, b.entry, st, fl, sl)), w)
    BY <1>2, <2>1, LeadsTail
  <2>3. Leads(d, sl, c.queue[d], View(d, c.entry, st2, fl2, sl), w)
    BY <1>2, <2>2
  <2>4. ASSUME NEW l \in LpnsOf(d) PROVE Kept(d, l, c.entry, c.mapped, lt, w)
    <3>1. Kept(d, l, b.entry, b.mapped, lt, w)
      BY <2>1
    <3>2. \A e \in EntriesOf(d) : c.entry[e].lpn = b.entry[e].lpn /\ c.entry[e].dirty = b.entry[e].dirty
      BY <1>2, EntriesOfDie DEF Alike
    <3> QED BY <1>2, <3>1, <3>2, KeptSame
  <2> QED BY <2>3, <2>4 DEF DieKeeps
<1>4. ASSUME NEW k \in Dies \ {d} PROVE DieKeeps(k, c, st2, fl2, sl, lt)
  <2>1. DieKeeps(k, b, st, fl, sl, lt) /\ c.queue[k] = b.queue[k]
    BY <1>2 DEF Sound
  <2>2. \A i \in 1 .. Len(b.queue[k]) :
           RequestOK(b.queue[k][i], k) /\ Same(sl, sl, b.queue[k][i], SectorsOf(b.queue[k][i]))
    BY <1>1 DEF BufferOK, Same
  <2>3. \A f \in EntriesOf(k) : /\ c.entry[f] = b.entry[f] /\ fl2[f] = fl[f]
                                /\ Same(sl, sl, fl[f], fl[f].left)
    BY <1>2 DEF Untouched, Same
  <2>4. \A l \in LpnsOf(k) : st2[l] = st[l] /\ (l \in b.mapped <=> l \in c.mapped)
    BY <1>2 DEF Untouched
  <2> QED BY <2>1, <2>2, <2>3, <2>4, OtherDie
<1> QED BY <1>1, <1>2, <1>3, <1>4 DEF Sound, c

\* What the device does with the first request of a die.
LEMMA ExecuteFacts ==
    ASSUME LruInv, NEW d \in Dies, NEW kind, Execute(d, kind),
           NEW entry, Alike(bufEntry, entry), bufEntry' = entry
    PROVE  LET r == Head(reqQueue[d])
           IN  /\ reqQueue[d] # <<>> /\ r.request = kind /\ flying[r.entry].left = {}
               /\ RequestOK(r, d) /\ r.entry \in Entries /\ r.lpn \in Lpns
               /\ Ftl' = Popped(Ftl, d, entry) /\ slots' = slots /\ latest' = latest
               /\ JoinOK'
<1> DEFINE r == Head(reqQueue[d])
<1>1. /\ reqQueue[d] # <<>> /\ r.request = kind /\ flying[r.entry].left = {}
      /\ reqQueue' = [reqQueue EXCEPT ![d] = Tail(reqQueue[d])]
      /\ bufLru' = bufLru /\ mapped' = mapped
      /\ slots' = slots /\ latest' = latest /\ join' = join
  BY DEF Execute, CheckDMA, Pop
<1>2. BufferOK(Ftl) /\ Ftl.queue = reqQueue /\ Ftl.entry = bufEntry /\ Ftl.lru = bufLru
      /\ Ftl.mapped = mapped
  BY DEF LruInv, Sound, Ftl
<1>3. RequestOK(r, d)
  BY <1>1, <1>2, PoppedFacts
<1>4. r.entry \in Entries /\ r.lpn \in Lpns
  BY <1>3, EntriesOfDie DEF RequestOK, LpnsOf
<1>5. Ftl' = Popped(Ftl, d, entry)
  <2>1. Ftl' = [entry |-> entry, lru |-> bufLru, mapped |-> mapped,
                queue |-> [reqQueue EXCEPT ![d] = Tail(reqQueue[d])]]
    BY <1>1 DEF Ftl
  <2> QED BY <1>2, <2>1 DEF Popped
<1>6. JoinOK'
  <2>1. /\ join \subseteq Entries \X Lpns
        /\ \A p \in join : bufEntry[p[1]].lpn = p[2]
        /\ join # {} => \A t \in Slots : slots[t].op # "write"
    BY DEF LruInv, JoinOK
  <2>2. \A p \in join : p[1] \in Entries
    BY <2>1
  <2>3. \A p \in join : entry[p[1]].lpn = p[2]
    BY <2>1, <2>2 DEF Alike
  <2> QED BY <1>1, <2>1, <2>3 DEF JoinOK
<1> QED BY <1>1, <1>3, <1>4, <1>5, <1>6

\* What die d holds then is a view.
LEMMA PoppedView ==
    ASSUME NEW b, BufferOK(b), NEW d \in Dies, b.queue[d] # <<>>, NEW entry, Alike(b.entry, entry),
           NEW st \in [Lpns -> PageData], NEW fl, FlyingOK(fl), NEW sl, SlotsOK(sl),
           Transfers(Popped(b, d, entry).queue, fl, sl)
    PROVE  View(d, entry, st, fl, sl) \in Views(d)
<1> DEFINE c == Popped(b, d, entry)
<1>1. BufferOK(c) /\ c.entry = entry
  BY PoppedFacts
<1> HIDE DEF c
<1>2. \A e \in Entries : Owed(sl, fl[e], fl[e].kind, fl[e].left)
  BY DEF Transfers
<1>3. View(d, c.entry, st, fl, sl) \in Views(d)
  BY <1>1, <1>2, ViewTyped DEF BufferOK
<1> QED BY <1>1, <1>3

\* The entries and pages of other dies are others.
LEMMA UntouchedFacts ==
    ASSUME NEW d \in Dies, NEW g \in EntriesOf(d), NEW p \in LpnsOf(d),
           NEW entry, NEW entry2, \A e \in Entries \ {g} : entry2[e] = entry[e],
           NEW st, NEW st2, \A l \in Lpns \ {p} : st2[l] = st[l],
           NEW fl, NEW fl2, \A e \in Entries \ {g} : fl2[e] = fl[e]
    PROVE  Untouched(d, entry, entry2, st, st2, fl, fl2)
<1> SUFFICES ASSUME NEW k \in Dies \ {d}
             PROVE  /\ \A e \in EntriesOf(k) : entry2[e] = entry[e] /\ fl2[e] = fl[e]
                    /\ \A l \in LpnsOf(k) : st2[l] = st[l]
  BY DEF Untouched
<1>1. \A e \in EntriesOf(k) : e \in Entries \ {g}
  BY EntriesOfDie, EntriesApart
<1>2. \A l \in LpnsOf(k) : l \in Lpns \ {p}
  BY DEF LpnsOf
<1> QED BY <1>1, <1>2

\* The state, for the device.
LEMMA StateFacts ==
    ASSUME LruInv
    PROVE  /\ Sound(Ftl, stored, flying, slots, latest) /\ BufferOK(Ftl)
           /\ Ftl.entry = bufEntry /\ Ftl.queue = reqQueue /\ Ftl.mapped = mapped /\ Ftl.lru = bufLru
           /\ Alike(bufEntry, bufEntry) /\ bufEntry \in [Entries -> EntryRecords]
           /\ stored \in [Lpns -> PageData] /\ FlyingOK(flying) /\ SlotsOK(slots)
           /\ Transfers(reqQueue, flying, slots) /\ Reading(bufEntry, flying, slots)
<1>1. Sound(Ftl, stored, flying, slots, latest) /\ Reading(bufEntry, flying, slots)
  BY ReadingFacts DEF LruInv
<1>2. Ftl.entry = bufEntry /\ Ftl.queue = reqQueue /\ Ftl.mapped = mapped /\ Ftl.lru = bufLru
  BY DEF Ftl
<1>3. /\ BufferOK(Ftl) /\ stored \in [Lpns -> PageData] /\ FlyingOK(flying) /\ SlotsOK(slots)
      /\ Transfers(reqQueue, flying, slots)
  BY <1>1, <1>2 DEF Sound
<1>4. bufEntry \in [Entries -> EntryRecords]
  BY <1>2, <1>3 DEF BufferOK, Buffers, EntryRecords
<1> QED BY <1>1, <1>2, <1>3, <1>4 DEF Alike

\* A page goes to the NAND as it is when its DMA is done.
LEMMA ProgramPageStep ==
    ASSUME LruInv, NEW d \in Dies, ProgramPage(d)
    PROVE  LruInv'
<1> DEFINE r == Head(reqQueue[d])
           st2 == [stored EXCEPT ![r.lpn] = bufEntry[r.entry].data]
           v == View(d, bufEntry, stored, flying, slots)
           v2 == View(d, bufEntry, st2, flying, slots)
           w == Effect(slots, r, v)
<1>1. Execute(d, "ProgramPage") /\ stored' = st2 /\ bufEntry' = bufEntry /\ flying' = flying
  BY DEF ProgramPage
<1>2. /\ Sound(Ftl, stored, flying, slots, latest) /\ BufferOK(Ftl)
      /\ Ftl.entry = bufEntry /\ Ftl.queue = reqQueue
      /\ Alike(bufEntry, bufEntry) /\ bufEntry \in [Entries -> EntryRecords]
      /\ stored \in [Lpns -> PageData] /\ FlyingOK(flying) /\ SlotsOK(slots)
      /\ Transfers(reqQueue, flying, slots) /\ Reading(bufEntry, flying, slots)
  BY StateFacts
<1>3. /\ reqQueue[d] # <<>> /\ r.request = "ProgramPage" /\ flying[r.entry].left = {}
      /\ RequestOK(r, d) /\ r.entry \in Entries /\ r.lpn \in Lpns
      /\ Ftl' = Popped(Ftl, d, bufEntry) /\ slots' = slots /\ latest' = latest
      /\ JoinOK'
  BY <1>1, <1>2, ExecuteFacts
<1>4. r.entry \in EntriesOf(d) /\ r.lpn \in LpnsOf(d)
  BY <1>3 DEF RequestOK
<1> HIDE DEF r
<1>5. bufEntry[r.entry].data \in PageData
  BY <1>2, <1>3 DEF EntryRecords
<1>6. /\ st2 \in [Lpns -> PageData] /\ st2[r.lpn] = bufEntry[r.entry].data
      /\ \A l \in Lpns \ {r.lpn} : st2[l] = stored[l]
  BY <1>2, <1>3, <1>5
<1> HIDE DEF st2
<1>7. Transfers(Popped(Ftl, d, bufEntry).queue, flying, slots)
  BY <1>2, <1>3, PoppedTransfers
<1>8. v \in Views(d)
  BY <1>2, HeadFacts
<1>9. v2 \in Views(d)
  BY <1>2, <1>3, <1>6, <1>7, PoppedView
<1>10. /\ v.data = v2.data /\ v.data[r.entry] = bufEntry[r.entry].data
       /\ \A l \in LpnsOf(d) : v.stored[l] = stored[l] /\ v2.stored[l] = st2[l]
  <2>1. v.data = v2.data
    BY DEF View
  <2>2. Landed(slots, flying[r.entry], bufEntry[r.entry].data) = bufEntry[r.entry].data
    BY <1>3, <1>5, LandedFacts
  <2> QED BY <1>4, <2>1, <2>2, ViewFacts
<1> HIDE DEF v, v2
<1>11. w \in Views(d) /\ Saved(d, r.entry, r.lpn, v, w)
  BY <1>3, <1>8, EffectFacts
<1> HIDE DEF w
<1>12. v2 = w
  <2>1. \A e \in EntriesOf(d) : v2.data[e] = w.data[e]
    BY <1>10, <1>11 DEF Saved
  <2>2. \A l \in LpnsOf(d) : v2.stored[l] = w.stored[l]
    <3> SUFFICES ASSUME NEW l \in LpnsOf(d) PROVE v2.stored[l] = w.stored[l]
      OBVIOUS
    <3>1. CASE l = r.lpn
      BY <1>6, <1>10, <1>11, <3>1 DEF Saved
    <3>2. CASE l # r.lpn
      BY <1>6, <1>10, <1>11, <3>2 DEF Saved, LpnsOf
    <3> QED BY <3>1, <3>2
  <2> QED BY <1>9, <1>11, <2>1, <2>2, SameViews
<1>13. Untouched(d, bufEntry, bufEntry, stored, st2, flying, flying)
  BY <1>4, <1>6, UntouchedFacts
<1>14. Sound(Popped(Ftl, d, bufEntry), st2, flying, slots, latest)
  BY <1>2, <1>3, <1>6, <1>7, <1>12, <1>13, PoppedSound DEF r, v, v2, w
<1>15. ReadsLatest'
  BY <1>1, <1>2, <1>3 DEF ReadsLatest, Reading, At
<1>16. Sound(Ftl', stored', flying', slots', latest')
  BY <1>1, <1>3, <1>14
<1> QED BY <1>3, <1>15, <1>16 DEF LruInv

\* A page that has been read is in its entry.
LEMMA ReadPageStep ==
    ASSUME LruInv, NEW d \in Dies, ReadPage(d)
    PROVE  LruInv'
<1> DEFINE r == Head(reqQueue[d])
           entry == [bufEntry EXCEPT ![r.entry].data = stored[r.lpn]]
           v == View(d, bufEntry, stored, flying, slots)
           v2 == View(d, entry, stored, flying, slots)
           w == Effect(slots, r, v)
<1>1. Execute(d, "ReadPage") /\ bufEntry' = entry /\ stored' = stored /\ flying' = flying
  BY DEF ReadPage
<1>2. /\ Sound(Ftl, stored, flying, slots, latest) /\ BufferOK(Ftl)
      /\ Ftl.entry = bufEntry /\ Ftl.queue = reqQueue
      /\ Alike(bufEntry, bufEntry) /\ bufEntry \in [Entries -> EntryRecords]
      /\ stored \in [Lpns -> PageData] /\ FlyingOK(flying) /\ SlotsOK(slots)
      /\ Transfers(reqQueue, flying, slots) /\ Reading(bufEntry, flying, slots)
  BY StateFacts
<1>3. r.entry \in EntriesOf(d) /\ r.lpn \in LpnsOf(d) /\ r.entry \in Entries /\ r.lpn \in Lpns
  <2>1. reqQueue[d] # <<>>
    BY <1>1 DEF Execute
  <2>2. RequestOK(r, d)
    BY <1>2, <2>1, PoppedFacts
  <2> QED BY <2>2, EntriesOfDie DEF RequestOK, LpnsOf
<1> HIDE DEF r
<1>4. stored[r.lpn] \in PageData
  BY <1>2, <1>3
<1>5. /\ Alike(bufEntry, entry) /\ entry[r.entry].data = stored[r.lpn]
      /\ \A e \in Entries \ {r.entry} : entry[e] = bufEntry[e]
  <2> DEFINE g == r.entry
             x == bufEntry[g]
             y == [lpn |-> x.lpn, dirty |-> x.dirty, data |-> stored[r.lpn]]
  <2>1. x \in EntryRecords
    BY <1>2, <1>3
  <2>2. x = [lpn |-> x.lpn, dirty |-> x.dirty, data |-> x.data]
    BY <2>1 DEF EntryRecords
  <2>3. [x EXCEPT !.data = stored[r.lpn]] = y /\ y \in EntryRecords
    BY <1>4, <2>1, <2>2 DEF EntryRecords
  <2>4. entry = [bufEntry EXCEPT ![g] = [x EXCEPT !.data = stored[r.lpn]]]
    BY <1>2
  <2>5. entry = [bufEntry EXCEPT ![g] = y]
    BY <2>3, <2>4
  <2> HIDE DEF entry
  <2>6. /\ entry \in [Entries -> EntryRecords] /\ entry[g] = y
        /\ \A e \in Entries \ {g} : entry[e] = bufEntry[e]
    <3> HIDE DEF y
    <3> QED BY <1>2, <1>3, <2>3, <2>5
  <2> QED BY <2>6 DEF Alike
<1> HIDE DEF entry
<1>6. /\ reqQueue[d] # <<>> /\ r.request = "ReadPage" /\ flying[r.entry].left = {}
      /\ RequestOK(r, d)
      /\ Ftl' = Popped(Ftl, d, entry) /\ slots' = slots /\ latest' = latest
      /\ JoinOK'
  BY <1>1, <1>5, ExecuteFacts DEF r
<1>7. Transfers(Popped(Ftl, d, entry).queue, flying, slots)
  BY <1>2, <1>5, <1>6, PoppedTransfers
<1>8. v \in Views(d)
  BY <1>2, HeadFacts
<1>9. v2 \in Views(d)
  BY <1>2, <1>5, <1>6, <1>7, PoppedView
<1>10. /\ v.stored = v2.stored /\ v.stored[r.lpn] = stored[r.lpn] /\ v2.data[r.entry] = stored[r.lpn]
       /\ \A e \in EntriesOf(d) \ {r.entry} : v2.data[e] = v.data[e]
  <2>1. v.stored = v2.stored
    BY DEF View
  <2>2. Landed(slots, flying[r.entry], stored[r.lpn]) = stored[r.lpn]
    BY <1>4, <1>6, LandedFacts
  <2>3. v2.data[r.entry] = stored[r.lpn] /\ v.stored[r.lpn] = stored[r.lpn]
    BY <1>3, <1>5, <2>2, ViewFacts
  <2>4. \A e \in EntriesOf(d) \ {r.entry} : v2.data[e] = v.data[e]
    <3>1. \A e \in EntriesOf(d) : e \in Entries
      BY EntriesOfDie
    <3> QED BY <1>5, <3>1, ViewFacts
  <2> QED BY <2>1, <2>3, <2>4
<1> HIDE DEF v, v2
<1>11. w \in Views(d) /\ Filled(d, r.entry, v.stored[r.lpn], v, w)
  BY <1>6, <1>8, EffectFacts
<1> HIDE DEF w
<1>12. v2 = w
  <2>1. \A e \in EntriesOf(d) : v2.data[e] = w.data[e]
    BY <1>10, <1>11 DEF Filled
  <2>2. \A l \in LpnsOf(d) : v2.stored[l] = w.stored[l]
    BY <1>10, <1>11 DEF Filled
  <2> QED BY <1>9, <1>11, <2>1, <2>2, SameViews
<1>13. Untouched(d, bufEntry, entry, stored, stored, flying, flying)
  BY <1>3, <1>5, UntouchedFacts
<1>14. Sound(Popped(Ftl, d, entry), stored, flying, slots, latest)
  BY <1>2, <1>5, <1>6, <1>7, <1>12, <1>13, PoppedSound DEF r, v, v2, w
<1>15. Reading(entry, flying, slots)
  BY <1>2, <1>5, <1>6 DEF Reading
<1>16. ReadsLatest'
  BY <1>1, <1>6, <1>15 DEF ReadsLatest, Reading, At
<1>17. Sound(Ftl', stored', flying', slots', latest')
  BY <1>1, <1>6, <1>14
<1> QED BY <1>6, <1>16, <1>17 DEF LruInv

\* The engine begins a transfer: the page will be what the request makes of it.
LEMMA StartDmaStep ==
    ASSUME LruInv, NEW d \in Dies, NEW kind \in DmaKinds, StartDma(d, kind)
    PROVE  LruInv'
<1> DEFINE r == Head(reqQueue[d])
           g == [kind |-> kind, slot |-> r.slot, dmaIndex |-> r.dmaIndex,
                 offset |-> r.offset, left |-> r.offset .. r.offset + r.subReqSect - 1]
           fl2 == [flying EXCEPT ![r.entry] = g]
           v == View(d, bufEntry, stored, flying, slots)
           v2 == View(d, bufEntry, stored, fl2, slots)
           w == Effect(slots, r, v)
<1>1. Execute(d, kind) /\ bufEntry' = bufEntry /\ stored' = stored /\ flying' = fl2
  BY DEF StartDma
<1>2. /\ Sound(Ftl, stored, flying, slots, latest) /\ BufferOK(Ftl)
      /\ Ftl.entry = bufEntry /\ Ftl.queue = reqQueue
      /\ Alike(bufEntry, bufEntry) /\ bufEntry \in [Entries -> EntryRecords]
      /\ stored \in [Lpns -> PageData] /\ FlyingOK(flying) /\ SlotsOK(slots)
      /\ Transfers(reqQueue, flying, slots) /\ Reading(bufEntry, flying, slots)
  BY StateFacts
<1>3. /\ reqQueue[d] # <<>> /\ r.request = kind /\ flying[r.entry].left = {}
      /\ RequestOK(r, d) /\ r.entry \in Entries /\ r.lpn \in Lpns
      /\ Ftl' = Popped(Ftl, d, bufEntry) /\ slots' = slots /\ latest' = latest
      /\ JoinOK'
  BY <1>1, <1>2, ExecuteFacts
<1>4. r.entry \in EntriesOf(d) /\ r.lpn \in LpnsOf(d) /\ r \in Requests
  BY <1>3 DEF RequestOK
<1>5. Delivers(slots, r, v)
  BY <1>2, <1>3, HeadFacts
<1> HIDE DEF r
<1>6. /\ g.kind = kind /\ g.slot = r.slot /\ g.left = SectorsOf(r) /\ g.offset = r.offset
      /\ \A s : At(g, s) = At(r, s)
      /\ g \in Flights /\ g.slot \in Slots /\ \A s \in g.left : g.offset <= s
  <2>1. g.left = SectorsOf(r) /\ SectorsOf(r) \subseteq Sectors /\ r.slot \in Slots
    BY <1>3 DEF SectorsOf, RequestOK
  <2>2. /\ r.dmaIndex \in Nat /\ r.offset \in Sectors /\ r.offset \in Nat
        /\ r.subReqSect \in Nat
    <3>1. SECTOR_NUM_PER_PAGE \in Nat
      BY Sizes
    <3> QED BY <1>4, <3>1 DEF Requests, Sectors
  <2>3. \A s \in r.offset .. r.offset + r.subReqSect - 1 : r.offset <= s
    BY <2>2
  <2>4. \A s : At(g, s) = At(r, s)
    BY DEF At
  <2> QED BY <2>1, <2>2, <2>3, <2>4 DEF Flights
<1> HIDE DEF g
<1>7. fl2[r.entry] = g /\ \A e \in Entries \ {r.entry} : fl2[e] = flying[e]
  BY <1>2, <1>3 DEF FlyingOK
<1>8. FlyingOK(fl2)
  <2>1. fl2 \in [Entries -> Flights]
    BY <1>2, <1>3, <1>6 DEF FlyingOK
  <2> HIDE DEF fl2
  <2>2. ASSUME NEW e \in Entries
        PROVE  /\ fl2[e].left # {} => fl2[e].kind # "none" /\ fl2[e].slot \in Slots
               /\ \A s \in fl2[e].left : fl2[e].offset <= s
    <3>1. CASE e = r.entry
      BY <1>6, <1>7, <3>1 DEF DmaKinds
    <3>2. CASE e # r.entry
      BY <1>2, <1>7, <3>2 DEF FlyingOK
    <3> QED BY <3>1, <3>2
  <2> QED BY <2>1, <2>2 DEF FlyingOK
<1> HIDE DEF fl2
<1>9. Begun(flying, fl2, r)
  BY <1>3, <1>6, <1>7, <1>8 DEF Begun
<1>10. Transfers(Popped(Ftl, d, bufEntry).queue, fl2, slots)
  BY <1>2, <1>3, <1>9, PoppedTransfers DEF r
<1>11. v \in Views(d)
  BY <1>2, HeadFacts
<1>12. v2 \in Views(d)
  BY <1>2, <1>3, <1>8, <1>10, PoppedView
<1>13. bufEntry[r.entry].data \in PageData
  BY <1>2, <1>3 DEF EntryRecords
<1>14. /\ v.stored = v2.stored
       /\ v.data[r.entry] = bufEntry[r.entry].data
       /\ v2.data[r.entry] = Landed(slots, g, bufEntry[r.entry].data)
       /\ \A e \in EntriesOf(d) \ {r.entry} : v2.data[e] = v.data[e]
  <2>1. v.stored = v2.stored
    BY DEF View
  <2>2. Landed(slots, flying[r.entry], bufEntry[r.entry].data) = bufEntry[r.entry].data
    BY <1>3, <1>13, LandedFacts
  <2>3. v.data[r.entry] = bufEntry[r.entry].data
    BY <1>4, <2>2, ViewFacts
  <2>4. v2.data[r.entry] = Landed(slots, g, bufEntry[r.entry].data)
    BY <1>4, <1>7, ViewFacts
  <2>5. \A e \in EntriesOf(d) \ {r.entry} : v2.data[e] = v.data[e]
    <3>1. \A e \in EntriesOf(d) : e \in Entries
      BY EntriesOfDie
    <3> QED BY <1>7, <3>1, ViewFacts
  <2> QED BY <2>1, <2>3, <2>4, <2>5
<1> HIDE DEF v, v2
<1>15. /\ w \in Views(d)
       /\ kind = "RxDMA" => Filled(d, r.entry, Received(slots, r, v.data[r.entry]), v, w)
       /\ kind = "TxDMA" => w = v
  <2>1. kind = "RxDMA" => \A s \in SectorsOf(r) : slots[r.slot].value[At(r, s)] \in Contents
    <3>1. r = reqQueue[d][1] /\ 1 \in 1 .. Len(reqQueue[d])
      BY <1>2, <1>3, PoppedFacts DEF r
    <3>2. Owed(slots, r, r.request, SectorsOf(r))
      BY <1>2, <3>1 DEF Transfers
    <3> QED BY <1>2, <1>6, <3>2, OwedContents
  <2> QED BY <1>3, <1>11, <2>1, EffectFacts
<1> HIDE DEF w
<1>16. v2 = w
  <2>1. CASE kind = "RxDMA"
    <3>1. Landed(slots, g, bufEntry[r.entry].data) = Received(slots, r, bufEntry[r.entry].data)
      BY <1>6, <2>1 DEF Landed, Received
    <3>2. \A e \in EntriesOf(d) : v2.data[e] = w.data[e]
      BY <1>14, <1>15, <2>1, <3>1 DEF Filled
    <3>3. \A l \in LpnsOf(d) : v2.stored[l] = w.stored[l]
      BY <1>14, <1>15, <2>1 DEF Filled
    <3> QED BY <1>12, <1>15, <3>2, <3>3, SameViews
  <2>2. CASE kind = "TxDMA"
    <3>1. Landed(slots, g, bufEntry[r.entry].data) = bufEntry[r.entry].data
      BY <1>6, <1>13, <2>2, LandedFacts
    <3>2. \A e \in EntriesOf(d) : v2.data[e] = w.data[e]
      BY <1>14, <1>15, <2>2, <3>1
    <3>3. \A l \in LpnsOf(d) : v2.stored[l] = w.stored[l]
      BY <1>14, <1>15, <2>2
    <3> QED BY <1>12, <1>15, <3>2, <3>3, SameViews
  <2> QED BY <2>1, <2>2 DEF DmaKinds
<1>17. Untouched(d, bufEntry, bufEntry, stored, stored, flying, fl2)
  BY <1>4, <1>7, UntouchedFacts
<1>18. Sound(Popped(Ftl, d, bufEntry), stored, fl2, slots, latest)
  BY <1>2, <1>3, <1>8, <1>10, <1>16, <1>17, PoppedSound DEF r, v, v2, w
<1>19. Reading(bufEntry, fl2, slots)
  <2> SUFFICES ASSUME NEW e \in Entries, fl2[e].kind = "TxDMA", NEW s \in fl2[e].left
               PROVE  Agrees(bufEntry[e].data[s], slots[fl2[e].slot].value[At(fl2[e], s)])
    BY DEF Reading
  <2>1. CASE e = r.entry
    <3>1. r.request = "TxDMA" /\ s \in SectorsOf(r)
      BY <1>3, <1>6, <1>7, <2>1
    <3>2. Agrees(v.data[r.entry][s], slots[r.slot].value[At(r, s)])
      BY <1>5, <3>1 DEF Delivers
    <3> QED BY <1>6, <1>7, <1>14, <2>1, <3>2
  <2>2. CASE e # r.entry
    BY <1>2, <1>7, <2>2 DEF Reading
  <2> QED BY <2>1, <2>2
<1>20. ReadsLatest'
  BY <1>1, <1>3, <1>19 DEF ReadsLatest, Reading, At
<1>21. Sound(Ftl', stored', flying', slots', latest')
  BY <1>1, <1>3, <1>18
<1> QED BY <1>3, <1>20, <1>21 DEF LruInv

(***************************************************************************)
(* A sector is moved.                                                      *)
(***************************************************************************)
\* the command of slot t in s2 is that of sl without sector i, or over
Moved(sl, s2, t, i) ==
    /\ SlotsOK(s2) /\ \A u \in Slots \ {t} : s2[u] = sl[u]
    /\ s2[t].left = sl[t].left \ {i}
    /\ s2[t].left # {} => s2[t].op = sl[t].op /\ s2[t].value = sl[t].value
    /\ s2[t].op # "none" => s2[t].op = sl[t].op

\* the DMA of entry e in fl2 is that of fl without sector s, or over
Lifted(fl, fl2, e, s) ==
    /\ FlyingOK(fl2) /\ \A g \in Entries \ {e} : fl2[g] = fl[g]
    /\ fl2[e].left = fl[e].left \ {s}
    /\ fl2[e].left # {} => /\ fl2[e].kind = fl[e].kind /\ fl2[e].slot = fl[e].slot
                           /\ \A u : At(fl2[e], u) = At(fl[e], u)

\* sector s of entry e has come from the host, if the DMA f is from there
Arrived(entry, entry2, f, e, s, value) ==
    /\ Alike(entry, entry2) /\ \A g \in Entries \ {e} : entry2[g] = entry[g]
    /\ \A u \in Sectors : entry2[e].data[u] = IF f.kind = "RxDMA" /\ u = s THEN value
                                              ELSE entry[e].data[u]

\* entry, fl and sl become entry2, fl2 and s2 when sector s of entry e is moved
Carried(entry, entry2, fl, fl2, sl, s2, e, s) ==
    /\ Arrived(entry, entry2, fl[e], e, s, sl[fl[e].slot].value[At(fl[e], s)])
    /\ Lifted(fl, fl2, e, s) /\ Moved(sl, s2, fl[e].slot, At(fl[e], s))

\* The sectors that DMAs have left come from the host as before,
Stays(sl, s2, fl2) == \A g \in Entries : Same(sl, s2, fl2[g], fl2[g].left)

\* and the pages will be the same when they are done.
LandedAlike(entry, entry2, fl, fl2, sl, s2) ==
    \A g \in Entries : Landed(s2, fl2[g], entry2[g].data) = Landed(sl, fl[g], entry[g].data)

\* Other sectors are waited for as they were.
LEMMA MovedOwed ==
    ASSUME NEW sl, NEW s2, NEW t, NEW i, Moved(sl, s2, t, i), NEW x, NEW kind, NEW ss,
           ss # {} => x.slot \in Slots, Owed(sl, x, kind, ss),
           x.slot = t => \A u \in ss : At(x, u) # i
    PROVE  Owed(s2, x, kind, ss) /\ Same(sl, s2, x, ss)
<1>1. CASE ss = {}
  BY <1>1 DEF Owed, Same
<1>2. CASE ss # {} /\ x.slot # t
  <2>1. s2[x.slot] = sl[x.slot]
    BY <1>2 DEF Moved
  <2> QED BY <1>2, <2>1 DEF Owed, Same
<1>3. CASE ss # {} /\ x.slot = t
  <2>1. \A u \in ss : At(x, u) \in s2[t].left
    BY <1>3 DEF Owed, Moved
  <2>2. s2[t].op = sl[t].op /\ s2[t].value = sl[t].value
    BY <1>3, <2>1 DEF Moved
  <2> QED BY <1>3, <2>1, <2>2 DEF Owed, Same
<1> QED BY <1>1, <1>2, <1>3

\* Two sectors of a DMA have two places in the command.
LEMMA PlacesDiffer ==
    ASSUME NEW f \in Flights, NEW s \in Sectors, NEW u \in Sectors, u # s
    PROVE  At(f, u) # At(f, s)
<1>1. f.dmaIndex \in Int /\ f.offset \in Int /\ s \in Int /\ u \in Int
  <2>1. SECTOR_NUM_PER_PAGE \in Nat
    BY Sizes
  <2> QED BY <2>1 DEF Flights, Sectors
<1> DEFINE a == f.dmaIndex
           o == f.offset
<1> HIDE DEF a, o
<1>2. a \in Int /\ o \in Int /\ At(f, u) = a + u - o /\ At(f, s) = a + s - o
  BY <1>1 DEF At, a, o
<1> QED BY <1>1, <1>2

\* What is still to be moved is owed as it was, and apart.
LEMMA MovedTransfers ==
    ASSUME NEW q, NEW fl, NEW sl, Transfers(q, fl, sl), FlyingOK(fl),
           \A d \in Dies : \A j \in 1 .. Len(q[d]) : RequestOK(q[d][j], d),
           NEW e \in Entries, NEW s \in fl[e].left, NEW fl2, Lifted(fl, fl2, e, s),
           NEW s2, Moved(sl, s2, fl[e].slot, At(fl[e], s))
    PROVE  /\ Transfers(q, fl2, s2)
           /\ \A d \in Dies : \A j \in 1 .. Len(q[d]) : Same(sl, s2, q[d][j], SectorsOf(q[d][j]))
           /\ Stays(sl, s2, fl2)
<1>1. fl[e] \in Flights /\ s \in Sectors /\ fl[e].left \subseteq Sectors
  BY DEF FlyingOK, Flights
<1>2. ASSUME NEW d \in Dies, NEW j \in 1 .. Len(q[d])
      PROVE  /\ Owed(s2, q[d][j], q[d][j].request, SectorsOf(q[d][j]))
             /\ Same(sl, s2, q[d][j], SectorsOf(q[d][j]))
  <2> DEFINE x == q[d][j]
  <2>1. SectorsOf(x) # {} => x.slot \in Slots
    BY DEF RequestOK, SectorsOf
  <2>2. x.slot = fl[e].slot => \A u \in SectorsOf(x) : At(x, u) # At(fl[e], s)
    <3>1. Apart(x, SectorsOf(x), fl[e], fl[e].left)
      BY DEF Transfers
    <3> QED BY <3>1 DEF Apart
  <2>3. Owed(sl, x, x.request, SectorsOf(x))
    BY DEF Transfers
  <2> HIDE DEF x
  <2>4. Owed(s2, x, x.request, SectorsOf(x)) /\ Same(sl, s2, x, SectorsOf(x))
    BY <2>1, <2>2, <2>3, MovedOwed
  <2> QED BY <2>4 DEF x
<1>3. ASSUME NEW g \in Entries
      PROVE  Owed(s2, fl2[g], fl2[g].kind, fl2[g].left) /\ Same(sl, s2, fl2[g], fl2[g].left)
  <2>1. CASE fl2[g].left = {}
    BY <2>1 DEF Owed, Same
  <2>2. CASE g # e /\ fl2[g].left # {}
    <3>1. fl2[g] = fl[g] /\ fl[g].slot \in Slots
      BY <2>2 DEF Lifted, FlyingOK
    <3>2. fl[g].slot = fl[e].slot => \A u \in fl[g].left : At(fl[g], u) # At(fl[e], s)
      <4>1. Apart(fl[g], fl[g].left, fl[e], fl[e].left)
        BY <2>2 DEF Transfers
      <4> QED BY <4>1 DEF Apart
    <3>3. Owed(sl, fl[g], fl[g].kind, fl[g].left)
      BY DEF Transfers
    <3>4. Owed(s2, fl[g], fl[g].kind, fl[g].left) /\ Same(sl, s2, fl[g], fl[g].left)
      BY <3>1, <3>2, <3>3, MovedOwed
    <3> QED BY <3>1, <3>4
  <2>3. CASE g = e /\ fl2[e].left # {}
    <3>1. /\ fl2[e].kind = fl[e].kind /\ fl2[e].slot = fl[e].slot
          /\ \A u : At(fl2[e], u) = At(fl[e], u)
          /\ fl2[e].left = fl[e].left \ {s}
      BY <2>3 DEF Lifted
    <3>2. fl[e].slot \in Slots
      BY DEF FlyingOK
    <3>3. Owed(sl, fl2[e], fl2[e].kind, fl2[e].left)
      <4>1. Owed(sl, fl[e], fl[e].kind, fl[e].left)
        BY DEF Transfers
      <4> QED BY <2>3, <3>1, <4>1 DEF Owed
    <3>4. \A u \in fl2[e].left : At(fl2[e], u) # At(fl[e], s)
      BY <1>1, <3>1, PlacesDiffer
    <3>5. Owed(s2, fl2[e], fl2[e].kind, fl2[e].left) /\ Same(sl, s2, fl2[e], fl2[e].left)
      BY <3>1, <3>2, <3>3, <3>4, MovedOwed
    <3> QED BY <2>3, <3>5
  <2> QED BY <2>1, <2>2, <2>3
<1>4. \A g \in Entries : \A x, xs : Apart(x, xs, fl[g], fl[g].left) => Apart(x, xs, fl2[g], fl2[g].left)
  <2> SUFFICES ASSUME NEW g \in Entries, NEW x, NEW xs, Apart(x, xs, fl[g], fl[g].left)
               PROVE  Apart(x, xs, fl2[g], fl2[g].left)
    OBVIOUS
  <2>1. CASE g # e
    BY <2>1 DEF Lifted
  <2>2. CASE g = e
    BY <2>2 DEF Lifted, Apart
  <2> QED BY <2>1, <2>2
<1>5. \A g \in Entries : \A x, xs : Apart(fl[g], fl[g].left, x, xs) => Apart(fl2[g], fl2[g].left, x, xs)
  <2> SUFFICES ASSUME NEW g \in Entries, NEW x, NEW xs, Apart(fl[g], fl[g].left, x, xs)
               PROVE  Apart(fl2[g], fl2[g].left, x, xs)
    OBVIOUS
  <2>1. CASE g # e
    BY <2>1 DEF Lifted
  <2>2. CASE g = e
    BY <2>2 DEF Lifted, Apart
  <2> QED BY <2>1, <2>2
<1>6. \A d \in Dies, g \in Entries : \A j \in 1 .. Len(q[d]) :
         Apart(q[d][j], SectorsOf(q[d][j]), fl2[g], fl2[g].left)
  BY <1>4 DEF Transfers
<1>7. \A g, h \in Entries : g # h => Apart(fl2[g], fl2[g].left, fl2[h], fl2[h].left)
  BY <1>4, <1>5 DEF Transfers
<1>8. \A c, d \in Dies : \A i \in 1 .. Len(q[c]), j \in 1 .. Len(q[d]) :
         <<c, i>> # <<d, j>> => Apart(q[c][i], SectorsOf(q[c][i]), q[d][j], SectorsOf(q[d][j]))
  BY DEF Transfers
<1> QED BY <1>2, <1>3, <1>6, <1>7, <1>8 DEF Transfers, Stays

\* The page will be the same when its DMA is done.
LEMMA MovedLanded ==
    ASSUME NEW entry, NEW entry2, NEW fl, NEW fl2,
           NEW sl, NEW s2, NEW e \in Entries, NEW s \in fl[e].left,
           Carried(entry, entry2, fl, fl2, sl, s2, e, s), Stays(sl, s2, fl2)
    PROVE  LandedAlike(entry, entry2, fl, fl2, sl, s2)
<1> SUFFICES ASSUME NEW g \in Entries
             PROVE  Landed(s2, fl2[g], entry2[g].data) = Landed(sl, fl[g], entry[g].data)
  BY DEF LandedAlike
<1>1. CASE g # e
  <2>1. fl2[g] = fl[g] /\ entry2[g] = entry[g] /\ Same(sl, s2, fl[g], fl[g].left)
    BY <1>1 DEF Carried, Stays, Lifted, Arrived
  <2> QED BY <2>1 DEF Landed, Same
<1>2. CASE g = e
  <2> DEFINE f == fl[e]
             f2 == fl2[e]
             data == entry[e].data
             data2 == entry2[e].data
  <2>1. /\ f2.left = f.left \ {s} /\ s \in f.left
        /\ f2.left # {} => /\ f2.kind = f.kind /\ f2.slot = f.slot
                           /\ \A u : At(f2, u) = At(f, u)
        /\ Same(sl, s2, f2, f2.left)
    BY DEF Carried, Stays, Lifted
  <2>2. \A u \in Sectors : data2[u] = IF f.kind = "RxDMA" /\ u = s THEN sl[f.slot].value[At(f, s)]
                                      ELSE data[u]
    BY DEF Carried, Arrived
  <2> HIDE DEF f, f2, data, data2
  <2>3. ASSUME NEW u \in Sectors
        PROVE  (IF f2.kind = "RxDMA" /\ u \in f2.left THEN s2[f2.slot].value[At(f2, u)] ELSE data2[u])
                  = (IF f.kind = "RxDMA" /\ u \in f.left THEN sl[f.slot].value[At(f, u)] ELSE data[u])
    <3>1. CASE u \in f2.left
      <4>1. /\ f2.kind = f.kind /\ f2.slot = f.slot /\ At(f2, u) = At(f, u)
            /\ u \in f.left /\ u # s
            /\ s2[f2.slot].value[At(f2, u)] = sl[f2.slot].value[At(f2, u)]
        BY <2>1, <3>1 DEF Same
      <4> QED BY <2>2, <3>1, <4>1
    <3>2. CASE u \notin f2.left
      BY <2>1, <2>2, <3>2
    <3> QED BY <3>1, <3>2
  <2>4. Landed(s2, f2, data2) = Landed(sl, f, data)
    BY <2>3 DEF Landed
  <2> QED BY <1>2, <2>4 DEF f, f2, data, data2
<1> QED BY <1>1, <1>2

\* The reads under way are to get what they were to get.
LEMMA MovedReading ==
    ASSUME NEW entry, NEW entry2, NEW fl, NEW fl2, NEW sl, NEW s2, NEW e \in Entries, NEW s, NEW value,
           FlyingOK(fl), Reading(entry, fl, sl), Arrived(entry, entry2, fl[e], e, s, value),
           Lifted(fl, fl2, e, s), Stays(sl, s2, fl2)
    PROVE  Reading(entry2, fl2, s2)
<1> SUFFICES ASSUME NEW g \in Entries, fl2[g].kind = "TxDMA", NEW u \in fl2[g].left
             PROVE  Agrees(entry2[g].data[u], s2[fl2[g].slot].value[At(fl2[g], u)])
  BY DEF Reading
<1>1. s2[fl2[g].slot].value[At(fl2[g], u)] = sl[fl2[g].slot].value[At(fl2[g], u)]
  BY DEF Same, Stays
<1>2. CASE g # e
  BY <1>1, <1>2 DEF Lifted, Arrived, Reading
<1>3. CASE g = e
  <2>1. /\ fl[e].kind = "TxDMA" /\ fl2[e].slot = fl[e].slot
        /\ At(fl2[e], u) = At(fl[e], u) /\ u \in fl[e].left
    BY <1>3 DEF Lifted
  <2>2. u \in Sectors
    BY <2>1 DEF FlyingOK, Flights
  <2>3. entry2[e].data[u] = entry[e].data[u]
    BY <2>1, <2>2 DEF Arrived
  <2>4. Agrees(entry[e].data[u], sl[fl[e].slot].value[At(fl[e], u)])
    BY <2>1 DEF Reading
  <2> QED BY <1>1, <1>3, <2>1, <2>3, <2>4
<1> QED BY <1>2, <1>3

\* b with other entries
With(b, entry) == [entry |-> entry, lru |-> b.lru, mapped |-> b.mapped, queue |-> b.queue]

\* A sector that is moved is what was to come.
LEMMA MovedSound ==
    ASSUME NEW b, NEW st, NEW fl, NEW sl, NEW lt, Sound(b, st, fl, sl, lt),
           NEW entry2, NEW fl2, NEW s2, NEW e \in Entries, NEW s \in fl[e].left,
           Carried(b.entry, entry2, fl, fl2, sl, s2, e, s)
    PROVE  /\ Sound(With(b, entry2), st, fl2, s2, lt)
           /\ Stays(sl, s2, fl2)
<1> DEFINE c == With(b, entry2)
<1>1. /\ BufferOK(b) /\ st \in [Lpns -> PageData] /\ lt \in [Lpns -> PageData]
      /\ SlotsOK(sl) /\ FlyingOK(fl) /\ Transfers(b.queue, fl, sl)
  BY DEF Sound
<1>2. c.entry = entry2 /\ c.lru = b.lru /\ c.mapped = b.mapped /\ c.queue = b.queue
  BY DEF With
<1>3. entry2 \in [Entries -> EntryRecords]
      /\ \A g \in Entries : entry2[g].lpn = b.entry[g].lpn /\ entry2[g].dirty = b.entry[g].dirty
  BY DEF Carried, Arrived, Alike
<1>4. BufferOK(c)
  <2>1. c \in Buffers
    BY <1>1, <1>3 DEF BufferOK, Buffers, EntryRecords, With
  <2>2. \A k \in Dies : ListOK(c.lru[k], k)
    BY <1>1, <1>2 DEF BufferOK
  <2>3. \A k \in Dies : PagesOK(c.entry, k)
    <3> SUFFICES ASSUME NEW k \in Dies PROVE PagesOK(c.entry, k)
      OBVIOUS
    <3>1. \A g \in EntriesOf(k) : c.entry[g].lpn = b.entry[g].lpn /\ c.entry[g].dirty = b.entry[g].dirty
      BY <1>2, <1>3, EntriesOfDie
    <3>2. PagesOK(b.entry, k)
      BY <1>1 DEF BufferOK
    <3> QED BY <3>1, <3>2 DEF PagesOK
  <2>4. \A k \in Dies : \A i \in 1 .. Len(c.queue[k]) : RequestOK(c.queue[k][i], k)
    BY <1>1, <1>2 DEF BufferOK
  <2> QED BY <2>1, <2>2, <2>3, <2>4 DEF BufferOK
<1>5. \A k \in Dies : \A i \in 1 .. Len(b.queue[k]) : RequestOK(b.queue[k][i], k)
  BY <1>1 DEF BufferOK
<1>6. /\ Transfers(b.queue, fl2, s2)
      /\ \A k \in Dies : \A i \in 1 .. Len(b.queue[k]) :
            Same(sl, s2, b.queue[k][i], SectorsOf(b.queue[k][i]))
      /\ Stays(sl, s2, fl2)
  BY <1>1, <1>5, MovedTransfers DEF Carried
<1>7. b.entry \in [Entries -> EntryRecords]
  BY <1>1 DEF BufferOK, Buffers, EntryRecords
<1>8. LandedAlike(b.entry, entry2, fl, fl2, sl, s2)
  BY <1>6, MovedLanded
<1>9. SlotsOK(s2) /\ FlyingOK(fl2)
  BY DEF Carried, Moved, Lifted
<1> HIDE DEF c
<1>10. ASSUME NEW d \in Dies PROVE DieKeeps(d, c, st, fl2, s2, lt)
  <2>1. \A g \in EntriesOf(d) : Landed(s2, fl2[g], c.entry[g].data) = Landed(sl, fl[g], b.entry[g].data)
    BY <1>2, <1>8, EntriesOfDie DEF LandedAlike
  <2>2. View(d, c.entry, st, fl2, s2) = View(d, b.entry, st, fl, sl)
    BY <2>1 DEF View
  <2>3. DieKeeps(d, b, st, fl, sl, lt)
    BY DEF Sound
  <2>4. \A g \in EntriesOf(d) : /\ c.entry[g].lpn = b.entry[g].lpn
                                /\ c.entry[g].dirty = b.entry[g].dirty
    BY <1>2, <1>3, EntriesOfDie
  <2>5. \A i \in 1 .. Len(b.queue[d]) :
           RequestOK(b.queue[d][i], d) /\ Same(sl, s2, b.queue[d][i], SectorsOf(b.queue[d][i]))
    BY <1>5, <1>6
  <2> QED BY <1>2, <2>2, <2>3, <2>4, <2>5, SameView
<1>11. Transfers(c.queue, fl2, s2)
  BY <1>2, <1>6
<1> QED BY <1>1, <1>4, <1>6, <1>9, <1>10, <1>11 DEF Sound, c

\* The engine moves a sector.
LEMMA MoveSectorStep ==
    ASSUME LruInv, NEW e \in Entries, NEW s \in Sectors, MoveSector(e, s)
    PROVE  LruInv'
<1> DEFINE f == flying[e]
           t == f.slot
           i == f.dmaIndex + s - f.offset
           x == slots[t]
           command == [x EXCEPT !.left = @ \ {i}]
           over == IF f.left = {s} THEN NoDma ELSE [f EXCEPT !.left = @ \ {s}]
           fl2 == [flying EXCEPT ![e] = over]
           after == IF command.left = {} THEN Free ELSE command
           s2 == [slots EXCEPT ![t] = after]
           entry2 == IF f.kind = "RxDMA" THEN [bufEntry EXCEPT ![e].data[s] = command.value[i]]
                     ELSE bufEntry
           c == [entry |-> entry2, lru |-> bufLru, mapped |-> mapped, queue |-> reqQueue]
<1>1. /\ s \in f.left /\ flying' = fl2 /\ bufEntry' = entry2 /\ slots' = s2
      /\ bufLru' = bufLru /\ mapped' = mapped /\ reqQueue' = reqQueue
      /\ stored' = stored /\ join' = join /\ latest' = latest
  BY DEF MoveSector
<1>2. /\ Sound(Ftl, stored, flying, slots, latest) /\ BufferOK(Ftl)
      /\ Ftl.entry = bufEntry /\ Ftl.queue = reqQueue /\ Ftl.mapped = mapped /\ Ftl.lru = bufLru
      /\ Alike(bufEntry, bufEntry) /\ bufEntry \in [Entries -> EntryRecords]
      /\ stored \in [Lpns -> PageData] /\ FlyingOK(flying) /\ SlotsOK(slots)
      /\ Transfers(reqQueue, flying, slots) /\ Reading(bufEntry, flying, slots)
  BY StateFacts
<1>3. /\ f \in Flights /\ t \in Slots /\ f.kind \in DmaKinds /\ \A u \in f.left : f.offset <= u
      /\ f.left \in SUBSET Sectors /\ flying \in [Entries -> Flights]
  <2>1. f \in Flights /\ flying \in [Entries -> Flights]
    BY <1>2 DEF FlyingOK
  <2>2. t \in Slots /\ f.kind # "none" /\ \A u \in f.left : f.offset <= u
    BY <1>1, <1>2 DEF FlyingOK
  <2> QED BY <2>1, <2>2 DEF Flights
<1>4. x \in Commands /\ slots \in [Slots -> Commands] /\ \A u \in x.left : x.value[u] \in Contents
  BY <1>2, <1>3 DEF SlotsOK
<1>5. i = At(f, s) /\ i \in x.left /\ x.op # "none"
  <2>1. Owed(slots, f, f.kind, f.left)
    BY <1>2 DEF Transfers
  <2>2. i = At(f, s)
    BY DEF At
  <2> QED BY <1>1, <2>1, <2>2 DEF Owed
<1> HIDE DEF i
<1>6. /\ command.op = x.op /\ command.value = x.value /\ command.left = x.left \ {i}
      /\ command \in Commands
  <2>1. x = [op |-> x.op, left |-> x.left, value |-> x.value]
    BY <1>4 DEF Commands
  <2> HIDE DEF x
  <2>2. command = [op |-> x.op, left |-> x.left \ {i}, value |-> x.value]
    BY <2>1
  <2> HIDE DEF command
  <2> QED BY <1>4, <2>2 DEF Commands
<1> HIDE DEF command
<1>7. Free \in Commands /\ Free.left = {} /\ Free.op = "none"
  BY DEF Free, Commands
<1>8. /\ after \in Commands /\ after.left = x.left \ {i}
      /\ after.left # {} => after.op = x.op /\ after.value = x.value
      /\ after.op # "none" => after.op = x.op
      /\ after.left = {} => after = Free
  BY <1>6, <1>7
<1> HIDE DEF after
<1>9. s2 \in [Slots -> Commands] /\ s2[t] = after /\ \A u \in Slots \ {t} : s2[u] = slots[u]
  BY <1>3, <1>4, <1>8
<1> HIDE DEF s2
<1>10. SlotsOK(s2)
  <2>1. ASSUME NEW u \in Slots
        PROVE  /\ \A k \in s2[u].left : s2[u].value[k] \in Contents
               /\ s2[u].left = {} => s2[u] = Free
    <3>1. CASE u = t
      BY <1>4, <1>8, <1>9, <3>1
    <3>2. CASE u # t
      BY <1>2, <1>9, <3>2 DEF SlotsOK
    <3> QED BY <3>1, <3>2
  <2> QED BY <1>9, <2>1 DEF SlotsOK
<1>11. Moved(slots, s2, t, i)
  BY <1>8, <1>9, <1>10 DEF Moved
<1>12. /\ over \in Flights /\ over.left = f.left \ {s}
       /\ over.left # {} => /\ over.kind = f.kind /\ over.slot = t
                            /\ over.offset = f.offset /\ over.dmaIndex = f.dmaIndex
  <2>1. CASE f.left = {s}
    <3>1. over = NoDma
      BY <2>1
    <3>2. NoDma.left = {} /\ NoDma \in Flights
      <4>1. 0 \in Sectors
        BY Sizes DEF Sectors
      <4> QED BY <4>1 DEF NoDma, Flights
    <3> HIDE DEF over
    <3> QED BY <2>1, <3>1, <3>2
  <2>2. CASE f.left # {s}
    <3>1. f = [kind |-> f.kind, slot |-> f.slot, dmaIndex |-> f.dmaIndex, offset |-> f.offset,
               left |-> f.left]
      BY <1>3 DEF Flights
    <3>2. over = [f EXCEPT !.left = @ \ {s}]
      BY <2>2
    <3>3. over = [kind |-> f.kind, slot |-> f.slot, dmaIndex |-> f.dmaIndex, offset |-> f.offset,
                  left |-> f.left \ {s}]
      BY <3>1, <3>2
    <3> HIDE DEF over
    <3> QED BY <1>3, <3>3 DEF Flights
  <2> QED BY <2>1, <2>2
<1> HIDE DEF over
<1>13. fl2 \in [Entries -> Flights] /\ fl2[e] = over /\ \A g \in Entries \ {e} : fl2[g] = flying[g]
  BY <1>3, <1>12
<1> HIDE DEF fl2
<1>14. FlyingOK(fl2)
  <2>1. ASSUME NEW g \in Entries
        PROVE  /\ fl2[g].left # {} => fl2[g].kind # "none" /\ fl2[g].slot \in Slots
               /\ \A u \in fl2[g].left : fl2[g].offset <= u
    <3>1. CASE g = e
      BY <1>3, <1>12, <1>13, <3>1 DEF DmaKinds
    <3>2. CASE g # e
      BY <1>2, <1>13, <3>2 DEF FlyingOK
    <3> QED BY <3>1, <3>2
  <2> QED BY <1>13, <2>1 DEF FlyingOK
<1>15. Lifted(flying, fl2, e, s)
  <2>1. over.left # {} => \A u : At(over, u) = At(f, u)
    BY <1>12 DEF At
  <2> QED BY <1>12, <1>13, <1>14, <2>1 DEF Lifted
<1>16. Arrived(bufEntry, entry2, f, e, s, x.value[i])
  <2>1. CASE f.kind = "RxDMA"
    <3> DEFINE z == bufEntry[e]
               page == [z.data EXCEPT ![s] = x.value[i]]
               y == [lpn |-> z.lpn, dirty |-> z.dirty, data |-> page]
    <3>1. z \in EntryRecords /\ z.data \in PageData
      BY <1>2 DEF EntryRecords
    <3>2. z = [lpn |-> z.lpn, dirty |-> z.dirty, data |-> z.data]
      BY <3>1 DEF EntryRecords
    <3>3. page \in PageData /\ page[s] = x.value[i] /\ \A u \in Sectors \ {s} : page[u] = z.data[u]
      BY <1>4, <1>5, <3>1 DEF PageData, Contents
    <3>4. entry2 = [bufEntry EXCEPT ![e].data[s] = x.value[i]]
      BY <1>6, <2>1
    <3>5. entry2 = [bufEntry EXCEPT ![e] = [z EXCEPT !.data = page]]
      BY <1>2, <3>4
    <3>6. [z EXCEPT !.data = page] = y
      BY <3>2
    <3> HIDE DEF page
    <3>7. y \in EntryRecords
      BY <3>1, <3>3 DEF EntryRecords
    <3>8. entry2 = [bufEntry EXCEPT ![e] = y]
      BY <3>5, <3>6
    <3>9. y.lpn = z.lpn /\ y.dirty = z.dirty /\ y.data = page
      OBVIOUS
    <3> HIDE DEF entry2, y
    <3>10. /\ entry2 \in [Entries -> EntryRecords] /\ entry2[e] = y
           /\ \A g \in Entries \ {e} : entry2[g] = bufEntry[g]
      BY <1>2, <3>7, <3>8
    <3> QED BY <2>1, <3>3, <3>9, <3>10 DEF Arrived, Alike
  <2>2. CASE f.kind # "RxDMA"
    <3>1. entry2 = bufEntry
      BY <2>2
    <3> HIDE DEF entry2
    <3> QED BY <1>2, <2>2, <3>1 DEF Arrived
  <2> QED BY <2>1, <2>2
<1> HIDE DEF entry2
<1>17. Sound(c, stored, fl2, s2, latest) /\ Stays(slots, s2, fl2)
  <2>1. Arrived(Ftl.entry, entry2, flying[e], e, s, slots[flying[e].slot].value[At(flying[e], s)])
    BY <1>2, <1>5, <1>16
  <2>2. Moved(slots, s2, flying[e].slot, At(flying[e], s))
    BY <1>5, <1>11
  <2>3. Carried(Ftl.entry, entry2, flying, fl2, slots, s2, e, s)
    BY <1>15, <2>1, <2>2 DEF Carried
  <2>4. s \in flying[e].left
    BY <1>1
  <2>5. c = With(Ftl, entry2)
    BY <1>2 DEF With
  <2> HIDE DEF c, f, t, x
  <2> QED BY <1>2, <2>3, <2>4, <2>5, MovedSound
<1>18. Sound(Ftl', stored', flying', slots', latest')
  <2>1. Ftl' = c
    BY <1>1 DEF Ftl
  <2> QED BY <1>1, <1>17, <2>1
<1>19. Reading(entry2, fl2, s2)
  BY <1>2, <1>15, <1>16, <1>17, MovedReading
<1>20. ReadsLatest'
  BY <1>1, <1>19 DEF ReadsLatest, Reading, At
<1>21. JoinOK'
  <2>1. /\ join \subseteq Entries \X Lpns
        /\ \A p \in join : bufEntry[p[1]].lpn = p[2]
        /\ join # {} => \A u \in Slots : slots[u].op # "write"
    BY DEF LruInv, JoinOK
  <2>2. \A p \in join : p[1] \in Entries
    BY <2>1
  <2>3. \A p \in join : entry2[p[1]].lpn = p[2]
    BY <1>16, <2>1, <2>2 DEF Arrived, Alike
  <2>4. join # {} => \A u \in Slots : s2[u].op # "write"
    BY <1>8, <1>9, <2>1, <1>3
  <2> QED BY <1>1, <2>1, <2>3, <2>4 DEF JoinOK
<1> QED BY <1>18, <1>20, <1>21 DEF LruInv

(***************************************************************************)
(* The invariant.                                                          *)
(***************************************************************************)

\* LRUBufInit links the entries of each die.
LEMMA InitLists ==
    ASSUME Init, NEW d \in Dies
    PROVE  bufLru[d] \in Seq(Entries) /\ ListOK(bufLru[d], d)
<1> DEFINE n == BUF_ENTRY_NUM_PER_DIE
           a == d * n
           list == [i \in 1 .. n |-> a + i - 1]
<1>1. n \in Nat \ {0} /\ a \in Nat
  BY Sizes DEF Dies
<1>2. bufLru[d] = list
  BY DEF Init
<1>3. /\ EntriesOf(d) \subseteq Entries
      /\ \A e \in EntriesOf(d) : \E p \in 0 .. n - 1 : e = a + p
      /\ \A p \in 0 .. n - 1 : a + p \in EntriesOf(d)
  BY EntriesOfDie
<1> HIDE DEF a
<1>4. \A i \in 1 .. n : list[i] = a + (i - 1) /\ i - 1 \in 0 .. n - 1
  BY <1>1
<1>5. \A i \in 1 .. n : list[i] \in EntriesOf(d)
  BY <1>3, <1>4
<1>6. list \in Seq(Entries) /\ Len(list) = n
  <2>1. \A i \in 1 .. n : a + i - 1 \in Entries
    BY <1>3, <1>5
  <2> QED BY <1>1, <2>1
<1> HIDE DEF list
<1>7. \A i, j \in 1 .. n : list[i] = list[j] => i = j
  BY <1>1, <1>4
<1>8. \A e \in EntriesOf(d) : \E i \in 1 .. n : list[i] = e
  <2> SUFFICES ASSUME NEW e \in EntriesOf(d) PROVE \E i \in 1 .. n : list[i] = e
    OBVIOUS
  <2>1. PICK p \in 0 .. n - 1 : e = a + p
    BY <1>3
  <2>2. p + 1 \in 1 .. n /\ (p + 1) - 1 = p
    BY <1>1
  <2>3. list[p + 1] = a + p
    BY <1>4, <2>2
  <2> QED BY <2>1, <2>2, <2>3
<1> QED BY <1>2, <1>5, <1>6, <1>7, <1>8 DEF ListOK

\* At first the buffer is empty and nothing was written.
LEMMA InitInv ==
    ASSUME Init
    PROVE  LruInv
<1> DEFINE blank == [s \in Sectors |-> None]
           unused == [lpn |-> None, dirty |-> FALSE, data |-> blank]
<1>1. /\ bufEntry = [e \in Entries |-> unused] /\ mapped = {}
      /\ stored = [l \in Lpns |-> blank] /\ latest = [l \in Lpns |-> blank]
      /\ reqQueue = [d \in Dies |-> <<>>] /\ flying = [e \in Entries |-> NoDma]
      /\ slots = [t \in Slots |-> Free] /\ join = {}
  BY DEF Init
<1>2. blank \in PageData /\ \A s \in Sectors : blank[s] = None
  BY DEF PageData
<1> HIDE DEF blank
<1>3. /\ unused \in [lpn : Lpns \cup {None}, dirty : BOOLEAN, data : PageData]
      /\ unused.lpn = None /\ ~unused.dirty
  BY <1>2
<1> HIDE DEF unused
<1>4. /\ Ftl.entry = bufEntry /\ Ftl.lru = bufLru /\ Ftl.mapped = mapped /\ Ftl.queue = reqQueue
      /\ Ftl = [entry |-> bufEntry, lru |-> bufLru, mapped |-> mapped, queue |-> reqQueue]
  BY DEF Ftl
<1>5. \A d \in Dies : reqQueue[d] = <<>> /\ Len(reqQueue[d]) = 0 /\ 1 .. Len(reqQueue[d]) = {}
  BY <1>1
<1>6. BufferOK(Ftl)
  <2>1. bufLru \in [Dies -> Seq(Entries)]
    <3>1. bufLru = [d \in Dies |-> bufLru[d]]
      BY DEF Init
    <3>2. \A d \in Dies : bufLru[d] \in Seq(Entries)
      BY InitLists
    <3> HIDE DEF Init
    <3> QED BY <3>1, <3>2
  <2>2. /\ bufEntry \in [Entries -> [lpn : Lpns \cup {None}, dirty : BOOLEAN, data : PageData]]
        /\ mapped \in SUBSET Lpns /\ reqQueue \in [Dies -> Seq(Requests)]
    BY <1>1, <1>3
  <2>3. Ftl \in Buffers
    BY <1>4, <2>1, <2>2 DEF Buffers
  <2>4. \A d \in Dies : PagesOK(Ftl.entry, d)
    <3>1. \A d \in Dies : \A e \in EntriesOf(d) : bufEntry[e].lpn = None /\ ~bufEntry[e].dirty
      BY <1>1, <1>3, EntriesOfDie
    <3> QED BY <1>4, <3>1 DEF PagesOK
  <2>5. \A d \in Dies : ListOK(Ftl.lru[d], d)
    BY <1>4, InitLists
  <2> QED BY <1>4, <1>5, <2>3, <2>4, <2>5 DEF BufferOK
<1>7. stored \in [Lpns -> PageData] /\ latest \in [Lpns -> PageData]
  BY <1>1, <1>2
<1>8. SlotsOK(slots)
  <2>1. Free \in Commands /\ Free.left = {}
    BY DEF Free, Commands
  <2> QED BY <1>1, <2>1 DEF SlotsOK
<1>9. /\ NoDma \in Flights /\ NoDma.left = {} /\ NoDma.kind = "none"
      /\ \A e \in Entries : flying[e] = NoDma
  <2>1. 0 \in Sectors
    BY Sizes DEF Sectors
  <2> QED BY <1>1, <2>1 DEF NoDma, Flights
<1>10. FlyingOK(flying)
  BY <1>1, <1>9 DEF FlyingOK
<1>11. Transfers(reqQueue, flying, slots)
  BY <1>5, <1>9 DEF Transfers, Owed, Apart
<1>12. ASSUME NEW d \in Dies PROVE DieKeeps(d, Ftl, stored, flying, slots, latest)
  <2> DEFINE w == View(d, Ftl.entry, stored, flying, slots)
  <2>1. w \in Views(d)
    BY <1>4, <1>6, <1>7, <1>8, <1>10, <1>11, ViewTyped DEF BufferOK, Transfers
  <2>2. Leads(d, slots, Ftl.queue[d], w, w)
    BY <1>4, <1>5, <2>1, LeadsEmpty
  <2>3. \A l \in LpnsOf(d) : w.stored[l] = stored[l]
    BY ViewFacts
  <2> HIDE DEF w
  <2>4. ASSUME NEW l \in LpnsOf(d) PROVE Kept(d, l, Ftl.entry, Ftl.mapped, latest, w)
    <3>1. l \in Lpns /\ l # None
      BY DieOfPage, BufferAssumption DEF LpnsOf
    <3>2. \A e \in EntriesOf(d) : Ftl.entry[e].lpn # l
      BY <1>1, <1>3, <1>4, <3>1, EntriesOfDie
    <3>3. \A s \in Sectors : latest[l][s] = None
      BY <1>1, <1>2, <3>1
    <3> QED BY <3>2, <3>3 DEF Kept, InStore, Agrees
  <2> QED BY <2>1, <2>2, <2>4 DEF DieKeeps, w
<1>13. Sound(Ftl, stored, flying, slots, latest)
  BY <1>4, <1>6, <1>7, <1>8, <1>10, <1>11, <1>12 DEF Sound
<1>14. ReadsLatest
  BY <1>9 DEF ReadsLatest
<1>15. JoinOK
  BY <1>1 DEF JoinOK
<1> QED BY <1>13, <1>14, <1>15 DEF LruInv

\* Every step preserves the invariant.
LEMMA NextInv ==
    ASSUME LruInv, [Next]_vars
    PROVE  LruInv'
<1>1. CASE UNCHANGED vars
  <2>1. /\ bufEntry' = bufEntry /\ bufLru' = bufLru /\ mapped' = mapped
        /\ reqQueue' = reqQueue /\ stored' = stored /\ flying' = flying
        /\ slots' = slots /\ latest' = latest /\ join' = join
    BY <1>1 DEF vars, ftl
  <2>2. Ftl' = Ftl
    BY <2>1 DEF Ftl
  <2>3. Sound(Ftl', stored', flying', slots', latest')
    BY <2>1, <2>2 DEF LruInv
  <2>4. ReadsLatest'
    BY <2>1 DEF LruInv, ReadsLatest
  <2>5. JoinOK'
    BY <2>1 DEF LruInv, JoinOK
  <2> QED BY <2>3, <2>4, <2>5 DEF LruInv
<1>2. ASSUME NEW t \in Slots, NEW curSect \in 0 .. Pages * SECTOR_NUM_PER_PAGE - 1,
             NEW reqSect \in 1 .. MaxReq, HostRead(t, curSect, reqSect)
      PROVE  LruInv'
  BY <1>2, HostReadStep
<1>3. ASSUME NEW t \in Slots, NEW curSect \in 0 .. Pages * SECTOR_NUM_PER_PAGE - 1,
             NEW reqSect \in 1 .. MaxReq, NEW value \in Data, HostWrite(t, curSect, reqSect, value)
      PROVE  LruInv'
  BY <1>3, HostWriteStep
<1>4. ASSUME NEW l1 \in Lpns, NEW l2 \in Lpns, l1 # l2, HostJoin(l1, l2)
      PROVE  LruInv'
  BY <1>4, HostJoinStep
<1>5. CASE JoinRead
  BY <1>5, JoinReadStep
<1>6. ASSUME NEW d \in Dies, ProgramPage(d) PROVE LruInv'
  BY <1>6, ProgramPageStep
<1>7. ASSUME NEW d \in Dies, ReadPage(d) PROVE LruInv'
  BY <1>7, ReadPageStep
<1>8. ASSUME NEW d \in Dies, NEW kind \in {"RxDMA", "TxDMA"}, StartDma(d, kind) PROVE LruInv'
  BY <1>8, StartDmaStep DEF DmaKinds
<1>9. ASSUME NEW e \in Entries, NEW s \in Sectors, MoveSector(e, s) PROVE LruInv'
  BY <1>9, MoveSectorStep
<1> QED BY <1>1, <1>2, <1>3, <1>4, <1>5, <1>6, <1>7, <1>8, <1>9 DEF Next, Device

\* The entries and queues of the dies are sound, what the queue of each die
\* leads to holds what was written last, and the transfers that are to come
\* are of different sectors of commands that wait for them.
THEOREM LruBufferInvariant == Spec => []LruInv
<1>1. Init => LruInv
  BY InitInv
<1>2. LruInv /\ [Next]_vars => LruInv'
  BY NextInv
<1> QED BY <1>1, <1>2, PTL DEF Spec

\* Entries, lists, queues, DMAs and pages have their types.
THEOREM BufferTyped == Spec => []TypeOK
<1>1. LruInv => TypeOK
  <2> SUFFICES ASSUME LruInv PROVE TypeOK
    OBVIOUS
  <2>1. /\ BufferOK(Ftl) /\ Ftl.entry = bufEntry /\ Ftl.queue = reqQueue
        /\ Ftl.mapped = mapped /\ Ftl.lru = bufLru
        /\ stored \in [Lpns -> PageData] /\ FlyingOK(flying)
    BY StateFacts
  <2>2. latest \in [Lpns -> PageData]
    BY DEF LruInv, Sound
  <2>3. /\ bufEntry \in [Entries -> [lpn : Lpns \cup {None}, dirty : BOOLEAN, data : PageData]]
        /\ bufLru \in [Dies -> Seq(Entries)] /\ mapped \in SUBSET Lpns
        /\ reqQueue \in [Dies -> Seq(Requests)]
    BY <2>1 DEF BufferOK, Buffers
  <2>4. Requests = [request : {"ProgramPage", "ReadPage", "RxDMA", "TxDMA"},
                    entry : Entries, lpn : Lpns, slot : Slots \cup {None},
                    dmaIndex : Nat, offset : Sectors, subReqSect : 0 .. SECTOR_NUM_PER_PAGE]
    <3>1. {"ProgramPage", "ReadPage"} \cup DmaKinds = {"ProgramPage", "ReadPage", "RxDMA", "TxDMA"}
      BY DEF DmaKinds
    <3> QED BY <3>1 DEF Requests
  <2>5. flying \in [Entries -> [kind : {"none", "RxDMA", "TxDMA"}, slot : Slots \cup {None},
                                dmaIndex : Nat, offset : Sectors, left : SUBSET Sectors]]
    <3>1. {"none"} \cup DmaKinds = {"none", "RxDMA", "TxDMA"}
      BY DEF DmaKinds
    <3> QED BY <2>1, <3>1 DEF FlyingOK, Flights
  <2> QED BY <2>1, <2>2, <2>3, <2>4, <2>5 DEF TypeOK
<1> QED BY <1>1, LruBufferInvariant, PTL

\* The entry of a page is of its die.
LEMMA EntryOfPage ==
    ASSUME LruInv, NEW l \in Lpns, NEW e \in Entries, bufEntry[e].lpn = l
    PROVE  e \in EntriesOf(Die(l))
<1>1. PICK d \in Dies : e \in EntriesOf(d)
  BY DieOfEntry
<1>2. PagesOK(bufEntry, d)
  BY StateFacts DEF BufferOK
<1>3. l # None
  BY DieOfPage, BufferAssumption
<1>4. Die(l) = d
  BY <1>1, <1>2, <1>3 DEF PagesOK
<1> QED BY <1>1, <1>4

\* No page is in two entries of the buffer, and each die's list has its
\* entries: CheckBufHit finds the one copy of a page, and AllocateBufEntry
\* never loses an entry, whatever the commands.
THEOREM PagesBufferedOnce == Spec => []BufferedOnce
<1>1. LruInv => BufferedOnce
  <2> SUFFICES ASSUME LruInv, NEW d \in Dies
               PROVE  /\ {bufLru[d][i] : i \in DOMAIN bufLru[d]} = EntriesOf(d)
                      /\ \A e1, e2 \in Entries :
                            e1 # e2 /\ bufEntry[e1].lpn = bufEntry[e2].lpn => bufEntry[e1].lpn = None
    BY DEF BufferedOnce, EntriesOf
  <2>1. /\ BufferOK(Ftl) /\ Ftl.lru = bufLru /\ Ftl.entry = bufEntry
        /\ bufEntry \in [Entries -> EntryRecords]
    BY StateFacts
  <2>2. ListOK(bufLru[d], d) /\ bufLru[d] \in Seq(Entries)
    BY <2>1 DEF BufferOK, Buffers
  <2>3. DOMAIN bufLru[d] = 1 .. Len(bufLru[d])
    BY <2>2
  <2>4. {bufLru[d][i] : i \in DOMAIN bufLru[d]} = EntriesOf(d)
    BY <2>2, <2>3 DEF ListOK
  <2>5. ASSUME NEW e1 \in Entries, NEW e2 \in Entries, e1 # e2,
               bufEntry[e1].lpn = bufEntry[e2].lpn, bufEntry[e1].lpn # None
        PROVE  FALSE
    <3> DEFINE l == bufEntry[e1].lpn
    <3>1. l \in Lpns
      BY <2>1, <2>5 DEF EntryRecords
    <3>2. e1 \in EntriesOf(Die(l)) /\ e2 \in EntriesOf(Die(l)) /\ Die(l) \in Dies
      BY <2>5, <3>1, EntryOfPage, DieOfPage
    <3>3. PagesOK(bufEntry, Die(l))
      BY <2>1, <3>2 DEF BufferOK
    <3> QED BY <2>5, <3>2, <3>3 DEF PagesOK
  <2> QED BY <2>4, <2>5
<1> QED BY <1>1, LruBufferInvariant, PTL

\* While its DMA is under way a read finds in the buffer what the commands
\* handled before it wrote, although later writes, evictions and reads of the
\* entry may be queued already.
THEOREM ReadsGetLatest == Spec => []ReadsLatest
<1>1. LruInv => ReadsLatest
  BY DEF LruInv
<1> QED BY <1>1, LruBufferInvariant, PTL

\* When the queue of its die is empty a page is where it should be.
LEMMA QuietPage ==
    ASSUME LruInv, NEW l \in Lpns, reqQueue[Die(l)] = <<>>
    PROVE  /\ \A e \in Entries : bufEntry[e].lpn = l =>
                 \A s \in Sectors : Agrees(Landed(slots, flying[e], bufEntry[e].data)[s], latest[l][s])
           /\ (\A e \in Entries : bufEntry[e].lpn = l => ~bufEntry[e].dirty) =>
                 \A s \in Sectors : Agrees(stored[l][s], latest[l][s])
<1> DEFINE d == Die(l)
           v == View(d, bufEntry, stored, flying, slots)
<1>1. d \in Dies /\ l \in LpnsOf(d) /\ EntriesOf(d) \subseteq Entries
  BY DieOfPage, EntriesOfDie
<1>2. /\ Sound(Ftl, stored, flying, slots, latest) /\ Ftl.entry = bufEntry
      /\ Ftl.queue = reqQueue /\ Ftl.mapped = mapped
  BY StateFacts
<1> HIDE DEF d
<1>3. v \in Views(d)
  BY <1>1, <1>2, HeadFacts
<1>4. /\ \A e \in EntriesOf(d) : v.data[e] = Landed(slots, flying[e], bufEntry[e].data)
      /\ v.stored[l] = stored[l]
  BY <1>1, ViewFacts
<1>5. PICK w \in Views(d) : /\ Leads(d, slots, Ftl.queue[d], View(d, Ftl.entry, stored, flying, slots), w)
                            /\ \A k \in LpnsOf(d) : Kept(d, k, Ftl.entry, Ftl.mapped, latest, w)
  BY <1>1, <1>2 DEF Sound, DieKeeps
<1>6. Leads(d, slots, <<>>, v, w)
  <2>1. reqQueue[d] = <<>>
    BY DEF d
  <2> QED BY <1>2, <1>5, <2>1
<1> HIDE DEF v
<1>7. w = v
  BY <1>1, <1>3, <1>6, LeadsEmpty
<1>8. Kept(d, l, bufEntry, mapped, latest, v)
  BY <1>1, <1>2, <1>5, <1>7
<1>9. ASSUME NEW e \in Entries, bufEntry[e].lpn = l
      PROVE  \A s \in Sectors : Agrees(Landed(slots, flying[e], bufEntry[e].data)[s], latest[l][s])
  <2>1. e \in EntriesOf(d)
    BY <1>9, EntryOfPage DEF d
  <2>2. \A s \in Sectors : Agrees(v.data[e][s], latest[l][s])
    BY <1>8, <1>9, <2>1 DEF Kept
  <2> QED BY <1>4, <2>1, <2>2
<1>10. ASSUME \A e \in Entries : bufEntry[e].lpn = l => ~bufEntry[e].dirty
       PROVE  \A s \in Sectors : Agrees(stored[l][s], latest[l][s])
  <2>1. \A e \in EntriesOf(d) : bufEntry[e].lpn = l => ~bufEntry[e].dirty
    BY <1>1, <1>10
  <2>2. InStore(l, mapped, latest, v)
    BY <1>8, <2>1 DEF Kept
  <2> QED BY <1>4, <2>2 DEF InStore
<1> QED BY <1>9, <1>10

\* When the queues are empty and no DMA is under way, a buffered page holds
\* what was written last, and a page that is clean or not buffered has it in
\* the NAND: no eviction, read or write of a part has lost a sector.
THEOREM NothingLostWhenQuiet == Spec => []QuietHoldsLatest
<1>1. LruInv => QuietHoldsLatest
  <2> SUFFICES ASSUME LruInv, \A d \in Dies : reqQueue[d] = <<>>, \A e \in Entries : CheckDMA(e),
                      NEW l \in Lpns, NEW s \in Sectors
               PROVE  LET es == {e \in Entries : bufEntry[e].lpn = l}
                      IN  /\ \A e \in es : Agrees(bufEntry[e].data[s], latest[l][s])
                          /\ (\A e \in es : ~bufEntry[e].dirty) => Agrees(stored[l][s], latest[l][s])
    BY DEF QuietHoldsLatest
  <2>1. reqQueue[Die(l)] = <<>>
    BY DieOfPage
  <2>2. ASSUME NEW e \in Entries, bufEntry[e].lpn = l
        PROVE  Agrees(bufEntry[e].data[s], latest[l][s])
    <3>1. bufEntry[e].data \in PageData
      BY StateFacts DEF EntryRecords
    <3>2. Landed(slots, flying[e], bufEntry[e].data) = bufEntry[e].data
      BY <3>1, LandedFacts DEF CheckDMA
    <3> QED BY <2>1, <2>2, <3>2, QuietPage
  <2>3. (\A e \in Entries : bufEntry[e].lpn = l => ~bufEntry[e].dirty) => Agrees(stored[l][s], latest[l][s])
    BY <2>1, QuietPage
  <2> QED BY <2>2, <2>3
<1> QED BY <1>1, LruBufferInvariant, PTL

\* The two entries of a join hold what was written to its two pages when the
\* queues have been emptied, even if DMAs of reads are still under way.
THEOREM JoinFindsRows == Spec => []JoinSeesRows
<1>1. LruInv => JoinSeesRows
  <2> SUFFICES ASSUME LruInv, join # {}, \A d \in Dies : reqQueue[d] = <<>>,
                      NEW p \in join, NEW s \in Sectors
               PROVE  Agrees(bufEntry[p[1]].data[s], latest[p[2]][s])
    BY DEF JoinSeesRows
  <2> DEFINE e == p[1]
             l == p[2]
  <2>1. /\ e \in Entries /\ l \in Lpns /\ bufEntry[e].lpn = l
        /\ \A t \in Slots : slots[t].op # "write"
    BY DEF LruInv, JoinOK
  <2> HIDE DEF e, l
  <2>2. FlyingOK(flying) /\ Transfers(reqQueue, flying, slots) /\ bufEntry \in [Entries -> EntryRecords]
    BY StateFacts
  <2>3. flying[e].kind = "RxDMA" => flying[e].left = {}
    <3> SUFFICES ASSUME flying[e].kind = "RxDMA", flying[e].left # {} PROVE FALSE
      OBVIOUS
    <3>1. flying[e].slot \in Slots
      BY <2>1, <2>2 DEF FlyingOK
    <3>2. slots[flying[e].slot].op = "write"
      BY <2>1, <2>2 DEF Transfers, Owed
    <3> QED BY <2>1, <3>1, <3>2
  <2>4. bufEntry[e].data \in PageData
    BY <2>1, <2>2 DEF EntryRecords
  <2>5. Landed(slots, flying[e], bufEntry[e].data) = bufEntry[e].data
    BY <2>3, <2>4, LandedFacts
  <2>6. reqQueue[Die(l)] = <<>>
    BY <2>1, DieOfPage
  <2> QED BY <2>1, <2>5, <2>6, QuietPage DEF e, l
<1> QED BY <1>1, LruBufferInvariant, PTL

=============================================================================
