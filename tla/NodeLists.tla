------------------------------ MODULE NodeLists ------------------------------
(***************************************************************************)
(* What list.c promises: every node of the pool is on one list, each list  *)
(* is a sequence, and moving a node to the front or the back of another    *)
(* list leaves every other node where it is.                               *)
(***************************************************************************)
EXTENDS SequencesExt

CONSTANTS Nodes, Lists, Pool    \* Pool: the list all nodes are first built on

VARIABLE contents               \* list -> its nodes, first to last

Init == /\ \A l \in Lists \ {Pool} : contents[l] = <<>>
        /\ ToSet(contents[Pool]) = Nodes /\ IsInjective(contents[Pool])

(* The k-th node of src moves to one end of dst.                            *)
Move(src, k, dst, back) ==
    /\ src # dst
    /\ contents' = [contents EXCEPT
                      ![src] = RemoveAt(@, k),
                      ![dst] = IF back THEN Append(@, contents[src][k])
                               ELSE <<contents[src][k]>> \o @]

Next == /\ contents' # contents
        /\ \E src, dst \in Lists : \E k \in DOMAIN contents[src], back \in BOOLEAN :
              Move(src, k, dst, back)

Spec == Init /\ [][Next]_contents
=============================================================================
