------------------------------ MODULE FreeList ------------------------------
(***************************************************************************)
(* What a pool of free nodes promises the threads that share it: a node is *)
(* either in the pool or held by exactly one thread, a thread takes one    *)
(* node or all of them, and gives back nodes it holds.  LockFreeStack      *)
(* implements it; HandleManager is written against it.                     *)
(***************************************************************************)
CONSTANTS Threads, Nodes

VARIABLES free,   \* the nodes in the pool
          held    \* held[t]: the nodes thread t holds

freeVars == <<free, held>>

Init ==
    /\ free = {}
    /\ held \in [Threads -> SUBSET Nodes]
    /\ \A t, u \in Threads : t # u => held[t] \cap held[u] = {}

Take(t) ==
    \E n \in free :
        /\ free' = free \ {n}
        /\ held' = [held EXCEPT ![t] = @ \cup {n}]

Give(t) ==
    \E S \in (SUBSET held[t]) \ {{}} :
        /\ free' = free \cup S
        /\ held' = [held EXCEPT ![t] = @ \ S]

TakeAll(t) ==
    /\ free' = {}
    /\ held' = [held EXCEPT ![t] = @ \cup free]

Next == \E t \in Threads : Take(t) \/ Give(t) \/ TakeAll(t)

Spec == Init /\ [][Next]_freeVars
=============================================================================
