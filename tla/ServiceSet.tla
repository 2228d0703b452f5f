----------------------------- MODULE ServiceSet -----------------------------
(***************************************************************************)
(* What the table of services promises: a set of entries, to which one is  *)
(* added, from which one is removed, or from which every entry of one      *)
(* process is removed at once.                                             *)
(***************************************************************************)
CONSTANT Entries,    \* what a slot of the table holds: name, kind, owner, port
         Pids,
         owner       \* entry -> pid

VARIABLES services,
          request    \* the last one that was carried out

Init == services = {} /\ request = <<>>

Add(e) == /\ e \notin services
          /\ services' = services \cup {e}
          /\ request' = <<"register", e>>
Remove(e) == /\ e \in services
             /\ services' = services \ {e}
             /\ request' = <<"unregister", e>>
RemoveAll(p) == /\ services' = {e \in services : owner[e] # p}
                /\ request' = <<"purge", p>>

Next == \/ \E e \in Entries : Add(e) \/ Remove(e)
        \/ \E p \in Pids : RemoveAll(p)

Spec == Init /\ [][Next]_<<services, request>>
=============================================================================
