---------------------------- MODULE ServiceTable ----------------------------
(***************************************************************************)
(* servicesInfo and nbServices, slot by slot.  A removal moves the last    *)
(* entry into the slot that is freed, so UnregisterProcess examines a slot *)
(* again after it has emptied it.  SMServices sees the table as a set of   *)
(* entries; this module shows that it is one.                              *)
(*                                                                         *)
(* sm has one thread, so no command runs while the loop of                 *)
(* UnregisterProcess does; the loop is stepped here to state what each of  *)
(* its iterations has established.                                         *)
(***************************************************************************)
EXTENDS Naturals

CONSTANTS Entries,      \* the entries of ServiceSet: their names are distinct
          Pids,
          owner,        \* entry -> pid of the session that registered it
          MaxServices,  \* 0xA0
          Empty,        \* contents of a slot never written
          NoPid         \* the loop is not running

ASSUME TableAssumption == /\ MaxServices \in Nat
                          /\ owner \in [Entries -> Pids]
                          /\ Empty \notin Entries
                          /\ NoPid \notin Pids

VARIABLES servicesInfo,  \* slot -> entry
          nbServices,
          purging,       \* the pid UnregisterProcess is running for
          i,             \* its loop variable
          request        \* the last command, for ServiceSet

vars == <<servicesInfo, nbServices, purging, i, request>>

Slots == 0 .. MaxServices - 1
Used == {k \in Slots : k < nbServices}
Table == {servicesInfo[k] : k \in Used}

Init == /\ servicesInfo = [k \in Slots |-> Empty]
        /\ nbServices = 0
        /\ purging = NoPid
        /\ i = 0
        /\ request = <<>>

(* doRegisterServiceOrPort, its name checked and the table not full.        *)
Register(e) ==
    /\ purging = NoPid
    /\ e \notin Table
    /\ nbServices < MaxServices
    /\ servicesInfo' = [servicesInfo EXCEPT ![nbServices] = e]
    /\ nbServices' = nbServices + 1
    /\ request' = <<"register", e>>
    /\ UNCHANGED <<purging, i>>

(* servicesInfo[k] = servicesInfo[--nbServices].  The mutant only shrinks   *)
(* the table.                                                               *)
DropLast(k) == nbServices' = nbServices - 1 /\ UNCHANGED servicesInfo
DropAt(k) == /\ nbServices' = nbServices - 1
             /\ servicesInfo' = [servicesInfo EXCEPT ![k] = servicesInfo[nbServices - 1]]

(* UnregisterServiceOrPort of the entry in slot k.                          *)
Unregister(k) == /\ purging = NoPid
                 /\ k \in Used
                 /\ DropAt(k)
                 /\ request' = <<"unregister", servicesInfo[k]>>
                 /\ UNCHANGED <<purging, i>>

(* UnregisterProcess *)
PurgeStart(p) == /\ purging = NoPid
                 /\ purging' = p
                 /\ i' = 0
                 /\ request' = <<"purge", p>>
                 /\ UNCHANGED <<servicesInfo, nbServices>>

(* The mutant goes on to the next slot and misses the entry moved into i.   *)
PurgeDropAndSkip == /\ purging # NoPid /\ i < nbServices
                    /\ owner[servicesInfo[i]] = purging
                    /\ DropAt(i)
                    /\ i' = i + 1
                    /\ UNCHANGED <<purging, request>>
PurgeDrop == /\ purging # NoPid /\ i < nbServices
             /\ owner[servicesInfo[i]] = purging
             /\ DropAt(i)
             /\ UNCHANGED <<purging, i, request>>

PurgeKeep == /\ purging # NoPid /\ i < nbServices
             /\ owner[servicesInfo[i]] # purging
             /\ i' = i + 1
             /\ UNCHANGED <<servicesInfo, nbServices, purging, request>>

PurgeEnd == /\ purging # NoPid /\ i >= nbServices
            /\ purging' = NoPid
            /\ i' = 0
            /\ UNCHANGED <<servicesInfo, nbServices, request>>

Next == \/ \E e \in Entries : Register(e)
        \/ \E k \in Slots : Unregister(k)
        \/ \E p \in Pids : PurgeStart(p)
        \/ PurgeDrop \/ PurgeKeep \/ PurgeEnd

Spec == Init /\ [][Next]_vars
-----------------------------------------------------------------------------
TableTypeOK == /\ servicesInfo \in [Slots -> Entries \cup {Empty}]
               /\ nbServices \in 0 .. MaxServices
               /\ purging \in Pids \cup {NoPid}
               /\ i \in 0 .. nbServices

(* The slots in use hold entries, each one once.                            *)
SlotsDistinct == /\ \A k \in Used : servicesInfo[k] \in Entries
                 /\ \A j, k \in Used : servicesInfo[j] = servicesInfo[k] => j = k

(* No slot the loop of UnregisterProcess has passed holds an entry of the   *)
(* process it runs for: when it ends, the process has no service left.      *)
PassedSlotsKept ==
    purging # NoPid => \A k \in Used : k < i => owner[servicesInfo[k]] # purging

TableInv == /\ TableTypeOK
            /\ SlotsDistinct
            /\ PassedSlotsKept
            /\ purging = NoPid => i = 0

(* The table is a set from which the loop removes every entry of its        *)
(* process in one step: the entries of a process vanish when the loop       *)
(* starts, and no other entry is lost, duplicated or left behind on the     *)
(* way, whatever the order of registrations before it; a registration adds  *)
(* and an unregistration takes exactly the entry it is asked for.           *)
Shown == {e \in Table : owner[e] # purging}
Set == INSTANCE ServiceSet WITH services <- Shown
ImplementsSet == Set!Spec
=============================================================================
