-------------------------- MODULE ExHeaderInfoHeap --------------------------
(***************************************************************************)
(* The pool of extended headers of pm (exheader_info_heap.c): a stack of   *)
(* buffers that the threads of pm push and pop with a compare and swap on  *)
(* its head, without a lock.  A free buffer holds the pointer to the next  *)
(* one where a header is kept while it is in use (union Node).             *)
(*                                                                         *)
(* A thread takes buffers one inside the other (a launch has one, and one  *)
(* more for its dependencies) and gives back the last one first.  A load,  *)
(* a read of next and a compare and swap are steps of their own; other     *)
(* threads run in between.                                                 *)
(***************************************************************************)
EXTENDS Naturals, Sequences, Functions

CONSTANTS NbBuffers,     \* buffers of the pool (6)
          Threads,       \* the threads of pm
          Depth,         \* thread -> buffers it uses at once
          NULL

Buffers == 1 .. NbBuffers

(* There is a buffer for every one that a thread may use.                   *)
Uses == UNION {{t} \X (1 .. Depth[t]) : t \in Threads}
ASSUME HeapAssumption ==
    /\ NbBuffers \in Nat \ {0} /\ NULL \notin Nat
    /\ Depth \in [Threads -> Nat] /\ ExistsInjection(Uses, Buffers)

Beyond == NbBuffers + 1        \* the address after the last buffer
Header == NbBuffers + 2        \* what is read as next where a header is
Addresses == Buffers \cup {Beyond, Header, NULL}

VARIABLES
    headNode,      \* g_headNode
    nextNode,      \* buffer -> its first word, read as a pointer
    op,            \* thread -> what it does, with oldHead and newHead
    held,          \* thread -> the buffers it uses, last one last
    reused         \* was a head popped whose next is not what was read (it had
                   \*   been taken and given back in between)?

hpvars == <<headNode, nextNode, op, held, reused>>

Outside == [pc |-> "outside", oldHead |-> NULL, newHead |-> NULL]

(* ExHeaderInfoHeap_Init writes &node[1] into the last buffer as well.      *)
HeapInit ==
    /\ headNode = 1
    /\ nextNode = [b \in Buffers |-> b + 1]
    /\ op = [t \in Threads |-> Outside]
    /\ held = [t \in Threads |-> <<>>]
    /\ reused = FALSE

Step(t, from, to) == op[t].pc = from /\ op' = [op EXCEPT ![t] = to]

(* ExHeaderInfoHeap_New: the load, the read of oldHead->next, the exchange. *)
(* A failed exchange reloads oldHead.                                       *)
NewLoad(t) ==
    /\ Len(held[t]) < Depth[t]
    /\ Step(t, "outside", [pc |-> "new: read", oldHead |-> headNode, newHead |-> NULL])
    /\ UNCHANGED <<headNode, nextNode, held, reused>>

NextOf(b) == IF b \in Buffers THEN nextNode[b] ELSE Header
NewRead(t) ==
    /\ op[t].oldHead # NULL
    /\ Step(t, "new: read", [op[t] EXCEPT !.pc = "new: swap", !.newHead = NextOf(op[t].oldHead)])
    /\ UNCHANGED <<headNode, nextNode, held, reused>>

Swaps(t) == headNode = op[t].oldHead
NewSwap(t) ==
    /\ Swaps(t)
    /\ Step(t, "new: swap", Outside)
    /\ headNode' = op[t].newHead
    /\ nextNode' = [b \in Buffers |-> IF b = op[t].oldHead THEN Header ELSE nextNode[b]]
    /\ held' = [held EXCEPT ![t] = Append(@, op[t].oldHead)]
    /\ reused' = (reused \/ op[t].newHead # NextOf(headNode))
NewRetry(t) ==     \* another head, or the exchange failed by itself
    /\ Step(t, "new: swap", [pc |-> "new: read", oldHead |-> headNode, newHead |-> NULL])
    /\ UNCHANGED <<headNode, nextNode, held, reused>>

(* ExHeaderInfoHeap_Delete.                                                 *)
DeleteLoad(t) ==
    /\ held[t] # <<>>
    /\ Step(t, "outside", [pc |-> "delete: write", oldHead |-> headNode,
                           newHead |-> held[t][Len(held[t])]])
    /\ UNCHANGED <<headNode, nextNode, held, reused>>
DeleteWrite(t) ==
    /\ Step(t, "delete: write", [op[t] EXCEPT !.pc = "delete: swap"])
    /\ nextNode' = [b \in Buffers |-> IF b = op[t].newHead THEN op[t].oldHead ELSE nextNode[b]]
    /\ UNCHANGED <<headNode, held, reused>>
SwapsAlways(t) == TRUE     \* a mutant: a store in place of the exchange
DeleteSwaps(t) == Swaps(t)
DeleteSwap(t) ==
    /\ DeleteSwaps(t)
    /\ Step(t, "delete: swap", Outside)
    /\ headNode' = op[t].newHead
    /\ held' = [held EXCEPT ![t] = SubSeq(@, 1, Len(@) - 1)]
    /\ UNCHANGED <<nextNode, reused>>
DeleteRetry(t) ==
    /\ Step(t, "delete: swap", [op[t] EXCEPT !.pc = "delete: write", !.oldHead = headNode])
    /\ UNCHANGED <<headNode, nextNode, held, reused>>

HeapNext ==
    \E t \in Threads :
        \/ NewLoad(t) \/ NewRead(t) \/ NewSwap(t) \/ NewRetry(t)
        \/ DeleteLoad(t) \/ DeleteWrite(t) \/ DeleteSwap(t) \/ DeleteRetry(t)

HeapSpec == HeapInit /\ [][HeapNext]_hpvars
-----------------------------------------------------------------------------
InUse(t) == {held[t][k] : k \in DOMAIN held[t]}

(* No two calls have the same buffer.                                       *)
NeverShared ==
    /\ \A t, u \in Threads : t # u => InUse(t) \cap InUse(u) = {}
    /\ \A t \in Threads : \A j, k \in DOMAIN held[t] : held[t][j] = held[t][k] => j = k

(* The buffers on the stack: those reached from its head.                   *)
Closed(S) == headNode \in S /\ \A b \in S \cap Buffers : nextNode[b] \in S
Stacked == {b \in Buffers : \A S \in SUBSET Addresses : Closed(S) => b \in S}

(* While no exchange was deceived by a head that came back: no two calls    *)
(* have the same buffer, every buffer is in use or on the stack and none is *)
(* both, and none from beyond the pool is handed out.                       *)
HeapInv ==
    ~reused =>
        /\ NeverShared
        /\ \A t \in Threads : InUse(t) \subseteq Buffers
        /\ Stacked \cap UNION {InUse(t) : t \in Threads} = {}
        /\ Stacked \cup UNION {InUse(t) : t \in Threads} = Buffers
=============================================================================
