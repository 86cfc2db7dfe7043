------------------------------ MODULE MCPageMap -----------------------------
(* Small instances of PageMap for TLC; the .cfg files give the constants.  *)
EXTENDS PageMapInv

\* What PageMapTwoDies compares states by: all but what invalid pages hold.
\* No routine looks at that again before the erase: CopyPage copies valid
\* pages, and PmRead follows the map, whose pages are valid (MapConsistent).
LiveContents ==
    LET used(s) == [s EXCEPT !.flash = [p \in Rows |-> IF s.valid[p] THEN @[p] ELSE NONE]]
    IN  <<[d \in Dies |-> used(die[d])], pc, req, gc>>

=============================================================================
