------------------------------ MODULE ReadyList ------------------------------
(***************************************************************************)
(* What the list of one stream promises PerStreamCache, whatever way it is *)
(* searched: a call that removes all ready items hands on ready items only *)
(* and, unless it fails, has then handed on every item that was ready when *)
(* it was called.  StreamOrderedCache implements it.                       *)
(***************************************************************************)
EXTENDS Integers

VARIABLES
    n,        \* the items are 1..n, from the oldest to the newest
    ready,    \* the items the GPU no longer uses
    ordered,  \* items become ready in their order
    call,     \* the call that is going on
    asked     \* what was ready at the call and is still in the list

readyVars == <<n, ready, ordered, call, asked>>

Init ==
    /\ n = 0 /\ ready = {} /\ ordered \in BOOLEAN
    /\ call = "none" /\ asked = {}

Complete ==
    \E i \in (1..n) \ ready:
        /\ ordered => \A j \in 1..(i - 1): j \in ready
        /\ ready' = ready \cup {i}
        /\ UNCHANGED <<n, ordered, call, asked>>

Put == call = "none" /\ n' = n + 1 /\ UNCHANGED <<ready, ordered, call, asked>>

\* The items of S when item i is gone, and when the oldest k are.
Closed(S, i) == {IF j > i THEN j - 1 ELSE j : j \in S \ {i}}
Cut(S, k) == {j - k : j \in {i \in S : i > k}}

Get ==
    /\ call = "none"
    /\ \E i \in 1..n: n' = n - 1 /\ ready' = Closed(ready, i)
    /\ UNCHANGED <<ordered, call, asked>>

Call ==
    /\ call = "none"
    /\ call' = "removeAllReady" /\ asked' = ready
    /\ UNCHANGED <<n, ready, ordered>>

HandOn ==
    /\ call = "removeAllReady"
    /\ \E i \in ready: n' = n - 1 /\ ready' = Closed(ready, i) /\ asked' = Closed(asked, i)
    /\ UNCHANGED <<ordered, call>>

HandOnOldest ==
    /\ call = "removeAllReady"
    /\ \E k \in 0..n:
        /\ 1..k \subseteq ready
        /\ n' = n - k /\ ready' = Cut(ready, k) /\ asked' = Cut(asked, k)
    /\ asked' = {} /\ call' = "none"
    /\ UNCHANGED ordered

Return ==
    /\ call = "removeAllReady" /\ asked = {}
    /\ call' = "none"
    /\ UNCHANGED <<n, ready, ordered, asked>>

Fail == call = "removeAllReady" /\ call' = "failed" /\ UNCHANGED <<n, ready, ordered, asked>>

Unwind == call = "failed" /\ call' = "none" /\ UNCHANGED <<n, ready, ordered, asked>>

Purge ==
    /\ call = "none"
    /\ ordered => 1..n \subseteq ready
    /\ n' = 0 /\ ready' = {}
    /\ UNCHANGED <<ordered, call, asked>>

Next ==
    Complete \/ Put \/ Get \/ Call \/ HandOn \/ HandOnOldest \/ Return \/ Fail \/ Unwind \/ Purge

Spec == Init /\ [][Next]_readyVars
=============================================================================
