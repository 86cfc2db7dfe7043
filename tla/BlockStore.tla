----------------------------- MODULE BlockStore -----------------------------
(***************************************************************************)
(* What the flash translation layer promises to the buffer above it: every *)
(* die is an array of logical pages; a read of a page returns what was     *)
(* last written to it.  A write is served at once, or it is accepted and   *)
(* takes effect as a whole when it is finished; while it is pending no     *)
(* page changes.  Garbage collection, wear and the physical place of a     *)
(* page are invisible.  PageMap is shown to implement this module.         *)
(***************************************************************************)
CONSTANTS StoreDies, StoreLpns, StoreData, Unwritten, NoRequest

VARIABLES
    store,      \* what a read of each logical page of each die returns
    request,    \* the last write that was asked for
    mode        \* ready | busy: that write is pending | stopped

storeVars == <<store, request, mode>>

StoreInit ==
    /\ store = [d \in StoreDies |-> [l \in StoreLpns |-> Unwritten]]
    /\ request = NoRequest
    /\ mode = "ready"

Ask(d, l, v) == mode = "ready" /\ request' = [dieNo |-> d, dieLpn |-> l, data |-> v]

\* a write that is served at once
StoreWrite(d, l, v) ==
    /\ Ask(d, l, v)
    /\ store' = [store EXCEPT ![d][l] = v]
    /\ UNCHANGED mode

\* a write that is accepted, and the end of it
StoreAccept(d, l, v) == Ask(d, l, v) /\ mode' = "busy" /\ UNCHANGED store

StoreFinish ==
    /\ mode = "busy" /\ mode' = "ready"
    /\ store' = [store EXCEPT ![request.dieNo][request.dieLpn] = request.data]
    /\ UNCHANGED request

\* the device gives up, and loses nothing that was written
StoreStop == mode # "stopped" /\ mode' = "stopped" /\ UNCHANGED <<store, request>>

StoreNext ==
    \/ \E d \in StoreDies, l \in StoreLpns, v \in StoreData :
          StoreWrite(d, l, v) \/ StoreAccept(d, l, v)
    \/ StoreFinish
    \/ StoreStop

StoreSpec == StoreInit /\ [][StoreNext]_storeVars

=============================================================================
