---------------------------- MODULE LockFreeStack ----------------------------
(***************************************************************************)
(* priv/LockFreeStack.hpp: an intrusive stack whose head pointer carries a *)
(* lock bit.  push and pushStack are compare-and-swap loops; pop first     *)
(* sets the lock bit and only then reads head->next, so that the node it   *)
(* read from cannot be popped and pushed again in between.                 *)
(*                                                                         *)
(* The atomic accesses to m_head are the steps of the model, and they are  *)
(* sequentially consistent: the source passes memory_order_release as the  *)
(* failure order of every compare_exchange_weak, which gcc compiles as     *)
(* seq_cst for both outcomes.                                              *)
(***************************************************************************)
EXTENDS Naturals, Sequences, FiniteSets, Functions

CONSTANTS Threads,
          Nodes,
          Null        \* the null pointer

ASSUME NodesAssumption == IsFiniteSet(Nodes) /\ Null \notin Nodes

VARIABLES head,     \* m_head: the pointer and its lock bit
          next,     \* next[n]: the link stored in node n
          pc,       \* the statement each thread is at
          old,      \* its local oldHead (head in pop's first loop)
          new,      \* its local newHead in pop
          chain,    \* the nodes it is pushing, first to last
          owned,    \* client side: the nodes a thread holds
          content   \* history: what the stack holds, top first

vars == <<head, next, pc, old, new, chain, owned, content>>

Ptr == Nodes \cup {Null}

\* doGetUnlocked / doGetLocked: the head with its lock bit cleared or set.
Unlocked(p) == [node |-> p, locked |-> FALSE]
Locked(p) == [node |-> p, locked |-> TRUE]

Popping(t) == pc[t] \in {"popLoad", "popLock", "popRead", "popSwap"}
HoldsLock(t) == pc[t] \in {"popRead", "popSwap"}
Pushing(t) == pc[t] \in {"pushLoad", "pushSwap"}
Releasing(t) == pc[t] \in {"releaseLoad", "releaseSwap"}

Init ==
    /\ head = Unlocked(Null)
    /\ next = [n \in Nodes |-> Null]
    /\ pc = [t \in Threads |-> "idle"]
    /\ old = [t \in Threads |-> Unlocked(Null)]
    /\ new = [t \in Threads |-> Null]
    /\ chain = [t \in Threads |-> <<>>]
    /\ owned \in [Threads -> SUBSET Nodes]
    /\ \A t, u \in Threads : t # u => owned[t] \cap owned[u] = {}
    /\ content = <<>>

Goto(t, l) == pc' = [pc EXCEPT ![t] = l]

\* Return to the caller: the locals of the operation go out of scope.
Return(t) ==
    /\ pc' = [pc EXCEPT ![t] = "idle"]
    /\ old' = [old EXCEPT ![t] = Unlocked(Null)]
    /\ new' = [new EXCEPT ![t] = Null]
    /\ chain' = [chain EXCEPT ![t] = <<>>]

-----------------------------------------------------------------------------
(* pop *)

\* The manager never releases a stack another thread may be popping from.
PopCall(t) ==
    /\ pc[t] = "idle"
    /\ ~ \E u \in Threads : Releasing(u)
    /\ Goto(t, "popLoad")
    /\ UNCHANGED <<head, next, old, new, chain, owned, content>>

\* An empty stack: return nullptr.
PopEmpty(t) ==
    /\ pc[t] = "popLoad"
    /\ head.node = Null
    /\ Return(t)
    /\ UNCHANGED <<head, next, owned, content>>

PopLoad(t) ==
    /\ pc[t] = "popLoad"
    /\ head.node # Null
    /\ old' = [old EXCEPT ![t] = Unlocked(head.node)]
    /\ Goto(t, "popLock")
    /\ UNCHANGED <<head, next, new, chain, owned, content>>

PopLock(t) ==
    /\ pc[t] = "popLock"
    /\ head = old[t]
    /\ head' = Locked(old[t].node)
    /\ Goto(t, "popRead")
    /\ UNCHANGED <<next, old, new, chain, owned, content>>

\* A weak compare-and-swap may also fail when the values are equal.
PopLockFail(t) ==
    /\ pc[t] = "popLock"
    /\ old' = [old EXCEPT ![t] = Unlocked(Null)]
    /\ Goto(t, "popLoad")
    /\ UNCHANGED <<head, next, new, chain, owned, content>>

PopRead(t) ==
    /\ pc[t] = "popRead"
    /\ old' = [old EXCEPT ![t] = head]
    /\ new' = [new EXCEPT ![t] = next[head.node]]
    /\ Goto(t, "popSwap")
    /\ UNCHANGED <<head, next, chain, owned, content>>

\* Mutant: the exchange expects the head without its lock bit.
PopSwapExpectsUnlocked(t) ==
    /\ pc[t] = "popSwap"
    /\ head = Unlocked(old[t].node)
    /\ head' = Unlocked(new[t])
    /\ owned' = [owned EXCEPT ![t] = @ \cup {old[t].node}]
    /\ content' = Tail(content)
    /\ Return(t)
    /\ UNCHANGED next

\* Mutant: the node below the old head is returned.
PopSwapReturnsNew(t) ==
    /\ pc[t] = "popSwap"
    /\ head = old[t]
    /\ head' = Unlocked(new[t])
    /\ owned' = [owned EXCEPT ![t] = @ \cup ({new[t]} \ {Null})]
    /\ content' = Tail(content)
    /\ Return(t)
    /\ UNCHANGED next

PopSwap(t) ==
    /\ pc[t] = "popSwap"
    /\ head = old[t]
    /\ head' = Unlocked(new[t])
    /\ owned' = [owned EXCEPT ![t] = @ \cup {old[t].node}]
    /\ content' = Tail(content)
    /\ Return(t)
    /\ UNCHANGED next

PopSwapFail(t) ==
    /\ pc[t] = "popSwap"
    /\ Goto(t, "popRead")
    /\ UNCHANGED <<head, next, old, new, chain, owned, content>>

-----------------------------------------------------------------------------
(* push and pushStack *)

\* The caller links the nodes it is about to push; push(n) is a chain of one.
PushCall(t, c) ==
    /\ pc[t] = "idle"
    /\ c # <<>>
    /\ Range(c) \subseteq owned[t]
    /\ \A i, j \in DOMAIN c : i # j => c[i] # c[j]
    /\ chain' = [chain EXCEPT ![t] = c]
    /\ next' = [n \in Nodes |->
                  IF \E i \in 1..(Len(c) - 1) : c[i] = n
                  THEN c[(CHOOSE i \in 1..(Len(c) - 1) : c[i] = n) + 1]
                  ELSE next[n]]
    /\ Goto(t, "pushLoad")
    /\ UNCHANGED <<head, old, new, owned, content>>

PushLoad(t) ==
    /\ pc[t] = "pushLoad"
    /\ old' = [old EXCEPT ![t] = Unlocked(head.node)]
    /\ next' = [next EXCEPT ![chain[t][Len(chain[t])]] = head.node]
    /\ Goto(t, "pushSwap")
    /\ UNCHANGED <<head, new, chain, owned, content>>

PushSwap(t) ==
    /\ pc[t] = "pushSwap"
    /\ head = old[t]
    /\ head' = Unlocked(chain[t][1])
    /\ owned' = [owned EXCEPT ![t] = @ \ Range(chain[t])]
    /\ content' = chain[t] \o content
    /\ Return(t)
    /\ UNCHANGED next

\* Mutant: the retry uses the head the failed exchange loaded, and does not
\* link the last node to it.
PushSwapFailNoRelink(t) ==
    /\ pc[t] = "pushSwap"
    /\ old' = [old EXCEPT ![t] = Unlocked(head.node)]
    /\ UNCHANGED <<head, next, pc, new, chain, owned, content>>

PushSwapFail(t) ==
    /\ pc[t] = "pushSwap"
    /\ Goto(t, "pushLoad")
    /\ UNCHANGED <<head, next, old, new, chain, owned, content>>

-----------------------------------------------------------------------------
(* release and clear *)

ReleaseCall(t) ==
    /\ pc[t] = "idle"
    /\ ~ \E u \in Threads : Popping(u)
    /\ Goto(t, "releaseLoad")
    /\ UNCHANGED <<head, next, old, new, chain, owned, content>>

ReleaseLoad(t) ==
    /\ pc[t] = "releaseLoad"
    /\ old' = [old EXCEPT ![t] = head]
    /\ Goto(t, "releaseSwap")
    /\ UNCHANGED <<head, next, new, chain, owned, content>>

\* The caller walks the list it got and destroys the nodes: they are its own.
ReleaseSwap(t) ==
    /\ pc[t] = "releaseSwap"
    /\ head = old[t]
    /\ head' = Unlocked(Null)
    /\ owned' = [owned EXCEPT ![t] = @ \cup Range(content)]
    /\ content' = <<>>
    /\ Return(t)
    /\ UNCHANGED next

\* A failed exchange loads the current head into h.
ReleaseSwapFail(t) ==
    /\ pc[t] = "releaseSwap"
    /\ old' = [old EXCEPT ![t] = head]
    /\ UNCHANGED <<head, next, pc, new, chain, owned, content>>

\* clear() stores nullptr whatever the head is: its caller has the stack to
\* itself.  The nodes belong to the pools that the caller destroys next.
Clear(t) ==
    /\ \A u \in Threads : pc[u] = "idle"
    /\ head' = Unlocked(Null)
    /\ owned' = [owned EXCEPT ![t] = @ \cup Range(content)]
    /\ content' = <<>>
    /\ UNCHANGED <<next, pc, old, new, chain>>

-----------------------------------------------------------------------------

Step(t) ==
    \/ PopLoad(t) \/ PopEmpty(t) \/ PopLock(t) \/ PopRead(t) \/ PopSwap(t)
    \/ PushLoad(t) \/ PushSwap(t)
    \/ ReleaseLoad(t) \/ ReleaseSwap(t)

Retry(t) ==
    \/ PopLockFail(t) \/ PopSwapFail(t) \/ PushSwapFail(t) \/ ReleaseSwapFail(t)

Call(t) ==
    \/ PopCall(t) \/ ReleaseCall(t) \/ Clear(t)
    \/ \E k \in 1..Cardinality(Nodes) : \E c \in [1..k -> owned[t]] : PushCall(t, c)

Next == \E t \in Threads : Step(t) \/ Retry(t) \/ Call(t)

Spec == Init /\ [][Next]_vars

\* A thread keeps taking steps, and a weak compare-and-swap whose comparison
\* holds again and again does not fail forever.
Fairness == \A t \in Threads : WF_vars(Step(t)) /\ SF_vars(PopSwap(t))

FairSpec == Spec /\ Fairness

-----------------------------------------------------------------------------
(* Properties *)

TypeOK ==
    /\ head \in [node : Ptr, locked : BOOLEAN]
    /\ next \in [Nodes -> Ptr]
    /\ pc \in [Threads -> {"idle", "popLoad", "popLock", "popRead", "popSwap",
                           "pushLoad", "pushSwap", "releaseLoad", "releaseSwap"}]
    /\ old \in [Threads -> [node : Ptr, locked : BOOLEAN]]
    /\ new \in [Threads -> Ptr]
    /\ chain \in [Threads -> Seq(Nodes)]
    /\ owned \in [Threads -> SUBSET Nodes]
    /\ content \in Seq(Nodes)

\* The links of a list of nodes, first to last, that ends in pointer p.
LinkedTo(s, p) ==
    /\ \A i \in 1..(Len(s) - 1) : next[s[i]] = s[i + 1]
    /\ Len(s) > 0 => next[s[Len(s)]] = p

\* Following the pointers from m_head visits exactly the pushed and not yet
\* popped nodes, most recent first, and ends in nullptr, whatever pushes and
\* pops interleave: no node is lost, repeated or linked into a cycle.
ContentLinked ==
    /\ head.node = IF content = <<>> THEN Null ELSE content[1]
    /\ LinkedTo(content, Null)

\* A node is in the stack once, or held by one thread: no two pops return the
\* same node, and no node that is in the stack is handed out.
OneOwner ==
    /\ \A i, j \in DOMAIN content : i # j => content[i] # content[j]
    /\ \A t \in Threads : Range(content) \cap owned[t] = {}
    /\ \A t, u \in Threads : t # u => owned[t] \cap owned[u] = {}

\* The lock bit of m_head is set exactly while one thread is between the two
\* exchanges of pop, and then the head it read is still the head: the link
\* that it is about to store was read from the node it is about to return.
LockProtectsHead ==
    /\ head.locked <=> \E t \in Threads : HoldsLock(t)
    /\ \A t, u \in Threads : HoldsLock(t) /\ HoldsLock(u) => t = u
    /\ \A t \in Threads :
         pc[t] = "popSwap" => head = old[t] /\ new[t] = next[head.node]

\* What the locals of a running operation say of the shared state: the nodes
\* being pushed are linked and private, and no release overlaps a pop.
LocalsInv ==
    /\ \A t \in Threads : Pushing(t) =>
         /\ chain[t] # <<>>
         /\ Range(chain[t]) \subseteq owned[t]
         /\ \A i, j \in DOMAIN chain[t] : i # j => chain[t][i] # chain[t][j]
         /\ \A i \in 1..(Len(chain[t]) - 1) : next[chain[t][i]] = chain[t][i + 1]
    /\ \A t \in Threads : pc[t] = "pushSwap" =>
         /\ old[t].locked = FALSE
         /\ next[chain[t][Len(chain[t])]] = old[t].node
    /\ \A t \in Threads : pc[t] = "popLock" => old[t].locked = FALSE /\ old[t].node # Null
    /\ \A t, u \in Threads : ~ (Popping(t) /\ Releasing(u))
    /\ head.locked => head.node # Null

\* The inductive invariant.
IInv == TypeOK /\ ContentLinked /\ OneOwner /\ LockProtectsHead /\ LocalsInv

\* The stack implements a pool that gives every node to one thread at a time.
Pool == INSTANCE FreeList WITH free <- Range(content), held <- owned

ImplementsFreeList == Pool!Spec

\* A pop that has locked the head returns, whatever the other threads do, so
\* the pushes and pops that spin on the lock bit can go on.
LockedPopReturns == \A t \in Threads : HoldsLock(t) ~> pc[t] = "idle"
=============================================================================
