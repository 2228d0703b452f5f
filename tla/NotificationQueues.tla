------------------------- MODULE NotificationQueues -------------------------
(***************************************************************************)
(* What the notification half of sm promises, whatever way it stores       *)
(* things: every registered process has a bounded FIFO queue of            *)
(* notification ids; a publication appends one id to the queues of a set   *)
(* of processes, a reception removes the oldest id of one queue, and a     *)
(* process that registers starts with an empty queue.                      *)
(***************************************************************************)
EXTENDS Naturals, Sequences

CONSTANTS Pids,      \* process ids
          Notifs,    \* notification ids
          Capacity   \* notifications a queue can hold

VARIABLES registered,  \* the pids that have a queue
          queue        \* pid -> pending notifications, oldest first

vars == <<registered, queue>>

Init == /\ registered = {}
        /\ queue = [p \in Pids |-> <<>>]

Register(p) == /\ p \notin registered
               /\ registered' = registered \cup {p}
               /\ queue' = [queue EXCEPT ![p] = <<>>]

Unregister(p) == /\ p \in registered
                 /\ registered' = registered \ {p}
                 /\ queue' = [queue EXCEPT ![p] = <<>>]

(* One publication reaches every process of S, each of which has room. *)
Publish(id, S) ==
    /\ \A p \in S : Len(queue[p]) < Capacity
    /\ queue' = [p \in Pids |-> IF p \in S THEN Append(queue[p], id)
                                           ELSE queue[p]]
    /\ UNCHANGED registered

Receive(p) == /\ p \in registered
              /\ queue[p] # <<>>
              /\ queue' = [queue EXCEPT ![p] = Tail(@)]
              /\ UNCHANGED registered

Next == \/ \E p \in Pids : Register(p) \/ Unregister(p) \/ Receive(p)
        \/ \E id \in Notifs, S \in SUBSET registered : Publish(id, S)

Spec == Init /\ [][Next]_vars
=============================================================================
