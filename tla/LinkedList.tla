----------------------------- MODULE LinkedList -----------------------------
(***************************************************************************)
(* list.c, pointer by pointer: the doubly linked lists sm keeps its        *)
(* sessions and its processes on.  A node knows the list it is on.         *)
(***************************************************************************)
EXTENDS SequencesExt

CONSTANTS NbNodes,    \* nodes 1 .. NbNodes of the pool
          Lists,
          Pool,       \* the list buildList fills
          Null

ASSUME ListAssumption == NbNodes \in Nat \ {0} /\ Pool \in Lists /\ Null \notin 1 .. NbNodes

Nodes == 1 .. NbNodes

VARIABLES prev, next, parent,    \* of the nodes
          first, last,           \* of the lists
          panicked               \* allocateNode on an empty list

lvars == <<prev, next, parent, first, last, panicked>>

(* buildList(&Pool, pool, NbNodes), the other lists empty. *)
ListInit ==
    /\ prev = [n \in Nodes |-> IF n = 1 THEN Null ELSE n - 1]
    /\ next = [n \in Nodes |-> IF n = NbNodes THEN Null ELSE n + 1]
    /\ parent = [n \in Nodes |-> Pool]
    /\ first = [l \in Lists |-> IF l = Pool THEN 1 ELSE Null]
    /\ last = [l \in Lists |-> IF l = Pool THEN NbNodes ELSE Null]
    /\ panicked = FALSE

(* The pointers after the node n is cut out of its list ...                 *)
NextCut(n) == [m \in Nodes |-> IF m = prev[n] THEN next[n] ELSE next[m]]
PrevCut(n) == [m \in Nodes |-> IF m = next[n] THEN prev[n] ELSE prev[m]]
FirstCut(n) == [first EXCEPT ![parent[n]] = IF @ = n THEN next[n] ELSE @]
LastCut(n) == [last EXCEPT ![parent[n]] = IF @ = n THEN prev[n] ELSE @]

(* ... and hooked at one end of dst, before the list is normalised.         *)
HookBack(n, dst) ==
    /\ next' = [m \in Nodes |-> IF m = n THEN Null
                                ELSE IF m = last[dst] THEN n ELSE NextCut(n)[m]]
    /\ prev' = [PrevCut(n) EXCEPT ![n] = last[dst]]
HookFrontOneWay(n, dst) ==   \* a mutant: the old first node keeps no prev
    /\ prev' = [PrevCut(n) EXCEPT ![n] = Null]
    /\ next' = [NextCut(n) EXCEPT ![n] = first[dst]]
HookFront(n, dst) ==
    /\ prev' = [m \in Nodes |-> IF m = n THEN Null
                                ELSE IF m = first[dst] THEN n ELSE PrevCut(n)[m]]
    /\ next' = [NextCut(n) EXCEPT ![n] = first[dst]]

(* The ends of dst: the other end is set when dst was empty.  The mutant    *)
(* leaves out "Normalize the destination list".                             *)
EndsOnly(n, dst, back) ==
    /\ first' = IF back THEN FirstCut(n) ELSE [FirstCut(n) EXCEPT ![dst] = n]
    /\ last' = IF back THEN [LastCut(n) EXCEPT ![dst] = n] ELSE LastCut(n)
Ends(n, dst, back) ==
    /\ first' = [FirstCut(n) EXCEPT ![dst] = IF ~back \/ @ = Null THEN n ELSE @]
    /\ last' = [LastCut(n) EXCEPT ![dst] = IF back \/ @ = Null THEN n ELSE @]

moveNode(n, dst, back) ==
    IF parent[n] = dst
    THEN UNCHANGED lvars
    ELSE /\ IF back THEN HookBack(n, dst) ELSE HookFront(n, dst)
         /\ Ends(n, dst, back)
         /\ parent' = [parent EXCEPT ![n] = dst]
         /\ UNCHANGED panicked

allocateNode(inUse, free, back) ==
    IF first[free] = Null
    THEN panicked' = TRUE /\ UNCHANGED <<prev, next, parent, first, last>>
    ELSE moveNode(first[free], inUse, back)

ListNext == \/ \E n \in Nodes, dst \in Lists, back \in BOOLEAN :
                  ~panicked /\ moveNode(n, dst, back)
            \/ \E dst \in Lists \ {Pool}, back \in BOOLEAN :
                  ~panicked /\ allocateNode(dst, Pool, back)

ListsSpec == ListInit /\ [][ListNext]_lvars
-----------------------------------------------------------------------------
(* The node met k steps from p along the pointers ptr, then the nodes met.   *)
Met(ptr, p) ==
    LET at[k \in 0 .. NbNodes] == IF k = 0 THEN p
                                  ELSE IF at[k - 1] = Null THEN Null ELSE ptr[at[k - 1]]
    IN  at
Walk(ptr, p) ==
    LET at == Met(ptr, p)
    IN  [k \in 1 .. Cardinality({k \in 0 .. NbNodes : at[k] # Null}) |-> at[k - 1]]

Forward(l) == Walk(next, first[l])
Backward(l) == Walk(prev, last[l])

(* Walking a list from either end meets the same nodes in opposite orders,  *)
(* and they are the nodes whose parent it is: the loops of main.c that      *)
(* follow next, and moveNode that goes by parent, speak of the same list.   *)
WalksAgree ==
    \A l \in Lists :
        LET own == {n \in Nodes : parent[n] = l}
        IN  /\ Forward(l) = Reverse(Backward(l))
            /\ ToSet(Forward(l)) = own /\ Len(Forward(l)) = Cardinality(own)

(* The pointers implement sequences: a move takes the node out of one and   *)
(* puts it at the end of another, and no other node moves.                  *)
Sequential == INSTANCE NodeLists WITH contents <- [l \in Lists |-> Forward(l)]
ImplementsLists == Sequential!Spec
=============================================================================
