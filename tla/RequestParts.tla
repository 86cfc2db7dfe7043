---------------------------- MODULE RequestParts ----------------------------
(***************************************************************************)
(* How LRUBufRead and LRUBufWrite cut the sectors of a host command into   *)
(* page parts: a first part that may start inside a page, whole pages, and *)
(* a last part that may end inside one.  dmaIndex is the place of a part   *)
(* in the buffer of the host.                                              *)
(***************************************************************************)
EXTENDS Naturals

CONSTANT SECTOR_NUM_PER_PAGE
ASSUME SectorAssumption == SECTOR_NUM_PER_PAGE \in Nat \ {0}

\* Loop is the code's loop: the pages that the command reaches the end of.
Loop(curSect, reqSect) == ((curSect % SECTOR_NUM_PER_PAGE) + reqSect) \div SECTOR_NUM_PER_PAGE

Rest(curSect, reqSect) == (curSect + reqSect) % SECTOR_NUM_PER_PAGE

\* the parts are numbered 0 .. LastPart
LastPart(curSect, reqSect) ==
    LET loop == Loop(curSect, reqSect)
    IN  IF loop = 0 THEN 0
        ELSE IF Rest(curSect, reqSect) = 0 THEN loop - 1 ELSE loop

ToPageEnd(curSect) == SECTOR_NUM_PER_PAGE - (curSect % SECTOR_NUM_PER_PAGE)

Part(curSect, reqSect, k) ==
    [lpn |-> (curSect \div SECTOR_NUM_PER_PAGE) + k,
     offset |-> IF k = 0 THEN curSect % SECTOR_NUM_PER_PAGE ELSE 0,
     subReqSect |-> IF k = 0
                    THEN IF Loop(curSect, reqSect) = 0 THEN reqSect ELSE ToPageEnd(curSect)
                    ELSE IF k < Loop(curSect, reqSect) THEN SECTOR_NUM_PER_PAGE
                    ELSE Rest(curSect, reqSect),
     dmaIndex |-> IF k = 0 THEN 0
                  ELSE ToPageEnd(curSect) + (k - 1) * SECTOR_NUM_PER_PAGE]

=============================================================================
