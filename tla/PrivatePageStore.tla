-------------------------- MODULE PrivatePageStore --------------------------
(***************************************************************************)
(* What the private pool promises a worker (spec 4.5 and scenario 6): the *)
(* pages of its temporary files behave as a memory only it touches.  It   *)
(* pins a page of a live file it owns, writes the pages it holds, unpins  *)
(* them, and removes a file none of whose pages it holds.  A page keeps   *)
(* its content until its owner writes it; the pages of a removed file     *)
(* read as Zero.  Caching, eviction and flushing are invisible here.      *)
(***************************************************************************)
CONSTANTS
    Workers,
    TmpFiles,
    Owner,      \* TmpFiles -> Workers
    Pages,      \* TmpFiles \X page numbers
    Content,    \* what a page can hold
    Zero        \* the content of a page never written

VARIABLES
    mem,        \* page -> its content
    live,       \* the temporary files not yet removed
    pinned      \* worker -> the pages it holds

Init ==
    /\ mem = [p \in Pages |-> Zero]
    /\ live = TmpFiles
    /\ pinned = [w \in Workers |-> {}]

Pin(w, p) ==
    /\ p[1] \in live /\ Owner[p[1]] = w /\ p \notin pinned[w]
    /\ pinned' = [pinned EXCEPT ![w] = @ \cup {p}]
    /\ UNCHANGED <<mem, live>>

Write(w, p) ==
    /\ p \in pinned[w]
    /\ \E v \in Content : mem' = [mem EXCEPT ![p] = v]
    /\ UNCHANGED <<live, pinned>>

Unpin(w, p) ==
    /\ p \in pinned[w]
    /\ pinned' = [pinned EXCEPT ![w] = @ \ {p}]
    /\ UNCHANGED <<mem, live>>

Remove(w, f) ==
    /\ f \in live /\ Owner[f] = w
    /\ \A p \in pinned[w] : p[1] # f
    /\ live' = live \ {f}
    /\ mem' = [p \in Pages |-> IF p[1] = f THEN Zero ELSE mem[p]]
    /\ UNCHANGED pinned

Next ==
    \E w \in Workers :
        \/ \E p \in Pages : Pin(w, p) \/ Write(w, p) \/ Unpin(w, p)
        \/ \E f \in TmpFiles : Remove(w, f)

Spec == Init /\ [][Next]_<<mem, live, pinned>>
=============================================================================
