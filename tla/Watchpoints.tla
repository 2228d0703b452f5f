----------------------------- MODULE Watchpoints -----------------------------
(***************************************************************************)
(* The two watchpoint registers the contexts of the GDB server share       *)
(* (watchpoints.c).  Clients add and remove watchpoints through the socket *)
(* thread; a context whose process ended is detached by the monitor or by  *)
(* the socket thread.  Each function holds watchpointManagerLock, and some *)
(* of its error paths return with it held.                                 *)
(***************************************************************************)
EXTENDS Naturals, Sequences, FiniteSets

CONSTANTS WatchCtxs, Addresses   \* contexts; word addresses watched

VARIABLES
    manager,       \* id -> [address, kind, ctx] of watchpoints[id], or Disabled
    total,         \* manager.total
    registers,     \* id -> what the processor watches, or Disabled
    watched,       \* context -> its watchpoints[0 .. nbWatchpoints - 1]
    lockedBy,      \* times each thread holds watchpointManagerLock
    asMeant        \* nothing was refused with the lock held, removed in place of
                   \*   another, or left behind by a detach

wpvars == <<manager, total, registers, watched, lockedBy, asMeant>>

Ids == {0, 1}
Kinds == {"write", "read"}       \* "read and write" is a kind like them
Disabled == [address |-> 0, kind |-> "disabled", ctx |-> 0]
GdbThreads == {"socket", "monitor"}

ASSUME WatchpointAssumption == 0 \notin WatchCtxs /\ 0 \notin Addresses

WatchpointInit ==
    /\ manager = [id \in Ids |-> Disabled]
    /\ total = 0
    /\ registers = [id \in Ids |-> Disabled]
    /\ watched = [c \in WatchCtxs |-> <<>>]
    /\ lockedBy = [t \in GdbThreads |-> 0]
    /\ asMeant = TRUE

Watches(c) == {watched[c][k] : k \in DOMAIN watched[c]}

MayLock(thread) == \A t \in GdbThreads \ {thread} : lockedBy[t] = 0

GetWatchpointKind(c, address) ==
    LET ids == {id \in Ids : manager[id].address = address /\ manager[id].ctx = c}
    IN  IF ids = {} THEN "disabled" ELSE manager[CHOOSE id \in ids : TRUE].kind

(* The lock is not given back when both are in use, for a size that is not  *)
(* within a word, and for an address the context watches already.           *)
Refuses(c, address, valid) ==
    total = 2 \/ ~valid \/ GetWatchpointKind(c, address) # "disabled"
RefuseWatchpoint(c, address, valid) ==
    /\ MayLock("socket")
    /\ Refuses(c, address, valid)
    /\ lockedBy' = [lockedBy EXCEPT !["socket"] = IF @ < 1 THEN @ + 1 ELSE @]
    /\ asMeant' = FALSE
    /\ UNCHANGED <<manager, total, registers, watched>>

AnyId == 0        \* a mutant: the first register whatever it does
FreeId == IF manager[0] = Disabled THEN 0 ELSE 1
(* A context has room for two addresses, which a free register stands for   *)
(* unless something was removed in place of another.                        *)
AddWatchpoint(c, address, kind) ==
    LET wp == [address |-> address, kind |-> kind, ctx |-> c]
    IN  /\ MayLock("socket")
        /\ ~Refuses(c, address, TRUE)
        /\ Len(watched[c]) < 2
        /\ registers' = [registers EXCEPT ![FreeId] = wp]
        /\ manager' = [manager EXCEPT ![FreeId] = wp]
        /\ total' = total + 1
        /\ watched' = [watched EXCEPT ![c] = Append(@, address)]
        /\ UNCHANGED <<lockedBy, asMeant>>

(* The first id with the address or of the context: both are meant.         *)
Found(c, address, m) == {id \in Ids : m[id].address = address \/ m[id].ctx = c}
IdFor(c, address, m) == IF 0 \in Found(c, address, m) THEN 0 ELSE 1
Meant(c, address, m) == LET id == IdFor(c, address, m) IN m[id].address = address /\ m[id].ctx = c

(* A client removes what it has added.  A kind that is not that of the      *)
(* watchpoint found is an error.                                            *)
RemoveWatchpoint(c, address, kind) ==
    LET id == IdFor(c, address, manager)
    IN  /\ MayLock("socket")
        /\ address \in Watches(c)
        /\ Found(c, address, manager) # {} /\ manager[id].kind = kind
        /\ registers' = [registers EXCEPT ![id] = Disabled]
        /\ manager' = [manager EXCEPT ![id] = Disabled]
        /\ total' = total - 1
        /\ watched' = [watched EXCEPT ![c] = IF Head(@) = address THEN Tail(@)
                                             ELSE SubSeq(@, 1, Len(@) - 1)]
        /\ asMeant' = (asMeant /\ Meant(c, address, manager))
        /\ UNCHANGED lockedBy

(* The loop of GDB_DetachFromProcess: a removal that finds something moves  *)
(* the second address to the front, where the loop clears it, and lowers    *)
(* the count the loop compares with.  The second watchpoint stays.          *)
DetachWatchpoints(c, thread) ==
    LET tried == {k \in DOMAIN watched[c] : Found(c, watched[c][k], manager) # {}}
        gone == {IdFor(c, watched[c][k], manager) : k \in {k \in tried : \A j \in tried : k <= j}}
        Without(m) == [id \in Ids |-> IF id \in gone THEN Disabled ELSE m[id]]
    IN  /\ watched[c] # <<>> /\ MayLock(thread)
        /\ registers' = Without(registers)
        /\ manager' = Without(manager)
        /\ total' = total - Cardinality(gone)
        /\ watched' = [watched EXCEPT ![c] = <<>>]
        /\ asMeant' = (asMeant /\ Len(watched[c]) = 1 /\ Meant(c, Head(watched[c]), manager))
        /\ UNCHANGED lockedBy

WatchpointNext ==
    \E c \in WatchCtxs :
        \/ \E a \in Addresses : \/ \E valid \in BOOLEAN : RefuseWatchpoint(c, a, valid)
                                \/ \E kind \in Kinds : AddWatchpoint(c, a, kind)
                                                       \/ RemoveWatchpoint(c, a, kind)
        \/ \E thread \in GdbThreads : DetachWatchpoints(c, thread)

WatchpointSpec == WatchpointInit /\ [][WatchpointNext]_wpvars
-----------------------------------------------------------------------------
(* As long as all went as meant: the processor watches what the manager has *)
(* and the contexts believe, each address of a context once, and the lock   *)
(* is free between two calls.                                               *)
WatchpointsInv ==
    asMeant =>
        /\ registers = manager
        /\ total = Cardinality({id \in Ids : manager[id] # Disabled})
        /\ \A c \in WatchCtxs :
              LET own == {id \in Ids : manager[id].ctx = c}
              IN  /\ {manager[id].address : id \in own} = Watches(c)
                  /\ Cardinality(own) = Len(watched[c])
                  /\ Cardinality(own) = Cardinality(Watches(c))
        /\ \A t \in GdbThreads : lockedBy[t] = 0

(* As WatchpointsInv, of the lock, whatever a client asks for: a call never *)
(* returns with the lock held (GDB_AddWatchpoint unlocks at its end).       *)
LockIsGivenBack == \A t \in GdbThreads : lockedBy[t] = 0

(* What a context no longer has is no longer watched for it.                *)
NoneLeftBehind ==
    \A id \in Ids : registers[id] # Disabled => registers[id].address \in Watches(registers[id].ctx)
=============================================================================
