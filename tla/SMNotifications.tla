--------------------------- MODULE SMNotifications ---------------------------
(***************************************************************************)
(* The process table and the notifications of sm (processes.c,             *)
(* notifications.c): per-process ring buffers, the semaphore each client   *)
(* waits on, and the subscriptions.                                        *)
(*                                                                         *)
(* sm is one thread and handles one command at a time, so a command is one *)
(* action.  The clients run concurrently with it: a client waits on its    *)
(* semaphore and then sends ReceiveNotification, two separate steps, and   *)
(* anything may happen between them.                                       *)
(***************************************************************************)
EXTENDS Naturals, FiniteSets

CONSTANTS
    Pids,        \* process ids a client or pm may present
    Section0,    \* the pids below nbSection0Modules: registered on demand
    Nodes,       \* processDataPool
    Notifs,      \* notification ids
    RingSize,    \* slots of pendingNotifications (16)
    MaxSubs,     \* slots of subscribedNotifications (17)
    NoPid        \* the pid of a node that was never allocated

ASSUME NotifAssumption ==
    /\ RingSize \in Nat \ {0}
    /\ MaxSubs \in Nat
    /\ Section0 \subseteq Pids
    /\ NoPid \notin Pids
    /\ IsFiniteSet(Nodes) /\ IsFiniteSet(Pids)
    /\ Cardinality(Pids) <= Cardinality(Nodes)

VARIABLES
    inUse,        \* processDataInUseList, as a set
    newer,        \* node -> the nodes that precede it in processDataInUseList
    pid, notificationEnabled, nbPendingNotifications,
    receivedNotificationIndex, pendingNotificationIndex,
    pendingNotifications, subscribedNotifications,
    semaphore,    \* node -> count of notificationSemaphore (kernel object)
    woken,        \* node -> waits a client has completed and not yet answered
                  \*         by a ReceiveNotification (client side)
    res,          \* the result code of the last command
    panicked      \* panic() or a failed assertSuccess stopped the process

ring == <<nbPendingNotifications, receivedNotificationIndex,
          pendingNotificationIndex, pendingNotifications, semaphore>>
nvars == <<inUse, newer, pid, notificationEnabled, subscribedNotifications,
           ring, woken, res, panicked>>

Results == {"ok", "notFound",      \* 0,          0xD8806404
            "exists", "limit",     \* 0xD9006403, 0xD9006405
            "queueFull"}           \* 0xD8606408

Flags == [dedup : BOOLEAN, dropIfFull : BOOLEAN]   \* flags & 1, flags & 2
NoFlags == [dedup |-> FALSE, dropIfFull |-> FALSE]

-----------------------------------------------------------------------------
(* Process table *)

findProcessData(p) == {n \in inUse : pid[n] = p}

(* allocateNode clears what the node held for its previous process.  The    *)
(* first form is a mutant: the node keeps what was pending.                 *)
ClearRingForgotten(n) ==
    UNCHANGED <<nbPendingNotifications, receivedNotificationIndex,
                pendingNotificationIndex, pendingNotifications>>
ClearRing(n) ==
    /\ nbPendingNotifications' = [nbPendingNotifications EXCEPT ![n] = 0]
    /\ receivedNotificationIndex' = [receivedNotificationIndex EXCEPT ![n] = 0]
    /\ pendingNotificationIndex' = [pendingNotificationIndex EXCEPT ![n] = 0]
    /\ pendingNotifications' =
         [pendingNotifications EXCEPT ![n] = [i \in 0 .. RingSize - 1 |-> 0]]

(* Taking a node from the free list: the node is cleared, put in front of   *)
(* the list in use and given a fresh semaphore of count 0.                  *)
doRegisterProcess(n, p, enabled) ==
    /\ n \in Nodes \ inUse
    /\ inUse' = inUse \cup {n}
    /\ newer' = [m \in Nodes |-> IF m = n THEN {}
                                 ELSE IF m \in inUse THEN newer[m] \cup {n}
                                 ELSE newer[m]]
    /\ pid' = [pid EXCEPT ![n] = p]
    /\ notificationEnabled' = [notificationEnabled EXCEPT ![n] = enabled]
    /\ ClearRing(n)
    /\ subscribedNotifications' = [subscribedNotifications EXCEPT ![n] = {}]
    /\ semaphore' = [semaphore EXCEPT ![n] = 0]
    /\ woken' = [woken EXCEPT ![n] = 0]
    /\ res' = "ok"
    /\ UNCHANGED panicked

(* allocateNode on an empty free list. *)
Panic == /\ panicked' = TRUE
         /\ UNCHANGED <<inUse, newer, pid, notificationEnabled,
                        subscribedNotifications, ring, woken, res>>

Reply(r) == /\ res' = r
            /\ UNCHANGED <<inUse, newer, pid, notificationEnabled,
                           subscribedNotifications, ring, woken, panicked>>

AllocateProcess(p, enabled) ==
    IF inUse = Nodes THEN Panic
                     ELSE \E n \in Nodes \ inUse : doRegisterProcess(n, p, enabled)

RegisterProcessUnchecked(p) == ~panicked /\ AllocateProcess(p, FALSE)   \* a mutant
RegisterProcess(p) ==
    /\ ~panicked
    /\ IF findProcessData(p) # {} THEN Reply("exists")
                                  ELSE AllocateProcess(p, FALSE)

(* The part of UnregisterProcess that concerns the process table. *)
UnregisterProcess(p) ==
    /\ ~panicked
    /\ \/ findProcessData(p) = {} /\ Reply("notFound")
       \/ \E n \in findProcessData(p) :
            /\ inUse' = inUse \ {n}
            /\ newer' = [m \in Nodes |-> IF m = n THEN {} ELSE newer[m] \ {n}]
            /\ res' = "ok"
            /\ UNCHANGED <<pid, notificationEnabled, subscribedNotifications,
                           ring, woken, panicked>>

(* Section 0 modules are registered here on their first call. *)
EnableNotification(p) ==
    /\ ~panicked
    /\ \/ /\ findProcessData(p) = {}
          /\ IF p \in Section0 THEN AllocateProcess(p, TRUE) ELSE Reply("notFound")
       \/ \E n \in findProcessData(p) :
            /\ notificationEnabled' = [notificationEnabled EXCEPT ![n] = TRUE]
            /\ res' = "ok"
            /\ UNCHANGED <<inUse, newer, pid, subscribedNotifications, ring,
                           woken, panicked>>

-----------------------------------------------------------------------------
(* Subscriptions *)

Enabled(p) == {n \in findProcessData(p) : notificationEnabled[n]}

SetSubscriptions(n, S) ==
    /\ subscribedNotifications' = [subscribedNotifications EXCEPT ![n] = S]
    /\ res' = "ok"
    /\ UNCHANGED <<inUse, newer, pid, notificationEnabled, ring, woken, panicked>>

Subscribe(p, id) ==
    /\ ~panicked
    /\ \/ Enabled(p) = {} /\ Reply("notFound")
       \/ \E n \in Enabled(p) :
            IF id \in subscribedNotifications[n] THEN Reply("exists")
            ELSE IF Cardinality(subscribedNotifications[n]) < MaxSubs
                 THEN SetSubscriptions(n, subscribedNotifications[n] \cup {id})
                 ELSE Reply("limit")

Unsubscribe(p, id) ==
    /\ ~panicked
    /\ \/ Enabled(p) = {} /\ Reply("notFound")
       \/ \E n \in Enabled(p) :
            IF id \in subscribedNotifications[n]
            THEN SetSubscriptions(n, subscribedNotifications[n] \ {id})
            ELSE Reply("notFound")

-----------------------------------------------------------------------------
(* Publication *)

Slot(n, i) == (receivedNotificationIndex[n] + i) % RingSize

(* "only send if not already pending" *)
AlreadyPending(n, id, f) ==
    /\ f.dedup
    /\ \E i \in 0 .. nbPendingNotifications[n] - 1 :
          pendingNotifications[n][Slot(n, i)] = id

HasRoomOffByOne(n) == nbPendingNotifications[n] <= RingSize   \* a mutant
HasRoom(n) == nbPendingNotifications[n] < RingSize

(* doPublishNotification stores the id, and what it returns. *)
Stores(n, id, f) == ~AlreadyPending(n, id, f) /\ HasRoom(n)
AcceptsIgnored(n, id, f) == TRUE   \* a mutant: the result is not looked at
Accepts(n, id, f) == AlreadyPending(n, id, f) \/ HasRoom(n) \/ f.dropIfFull

(* svcReleaseSemaphore on the nodes of W. *)
SignalForgotten(W) == UNCHANGED semaphore   \* a mutant
Signal(W) == semaphore' = [n \in Nodes |-> IF n \in W THEN semaphore[n] + 1
                                                      ELSE semaphore[n]]

(* doPublishNotification on every node of W. *)
Store(W, id) ==
    /\ pendingNotifications' = [n \in Nodes |->
          IF n \in W
          THEN [pendingNotifications[n] EXCEPT ![pendingNotificationIndex[n]] = id]
          ELSE pendingNotifications[n]]
    /\ pendingNotificationIndex' = [n \in Nodes |->
          IF n \in W THEN (pendingNotificationIndex[n] + 1) % RingSize
                     ELSE pendingNotificationIndex[n]]
    /\ nbPendingNotifications' = [n \in Nodes |->
          IF n \in W THEN nbPendingNotifications[n] + 1
                     ELSE nbPendingNotifications[n]]
    /\ Signal(W)
    /\ UNCHANGED <<receivedNotificationIndex, inUse, newer, pid,
                   notificationEnabled, subscribedNotifications, woken, panicked>>

(* The loop over processDataInUseList, newest process first, stops at the   *)
(* first target that refuses; releasing a semaphore beyond its maximum      *)
(* fails the assertion.                                                     *)
Visited(targets, id, f) ==
    {n \in targets : \A m \in newer[n] \cap targets : Accepts(m, id, f)}

Publish(targets, id, f) ==
    LET W == {n \in Visited(targets, id, f) : Stores(n, id, f)}
    IN  IF \E n \in W : semaphore[n] >= RingSize
        THEN Panic
        ELSE /\ Store(W, id)
             /\ res' = IF \A n \in targets : Accepts(n, id, f)
                       THEN "ok" ELSE "queueFull"

Listening == {n \in inUse : notificationEnabled[n]}
Subscribers(id) == {n \in Listening : id \in subscribedNotifications[n]}

PublishToSubscriber(id, f) == ~panicked /\ Publish(Subscribers(id), id, f)

PublishAndGetSubscriber(id) == ~panicked /\ Publish(Subscribers(id), id, NoFlags)

PublishToAll(id) == ~panicked /\ Publish(Listening, id, NoFlags)

PublishToProcess(p, id) ==
    /\ ~panicked
    /\ \/ Enabled(p) = {} /\ Reply("notFound")
       \/ \E n \in Enabled(p) : Publish({n}, id, NoFlags)

-----------------------------------------------------------------------------
(* Reception.  The clients of this repository wait on the semaphore and     *)
(* call ReceiveNotification once for every wait that succeeded.             *)

WaitSemaphore(n) ==
    /\ ~panicked
    /\ n \in Listening
    /\ semaphore[n] > 0
    /\ semaphore' = [semaphore EXCEPT ![n] = @ - 1]
    /\ woken' = [woken EXCEPT ![n] = @ + 1]
    /\ UNCHANGED <<inUse, newer, pid, notificationEnabled, nbPendingNotifications,
                   subscribedNotifications, receivedNotificationIndex,
                   pendingNotificationIndex, pendingNotifications, res, panicked>>

ReceiveNotification(n) ==
    /\ ~panicked
    /\ n \in Listening
    /\ woken[n] > 0
    /\ woken' = [woken EXCEPT ![n] = @ - 1]
    /\ IF nbPendingNotifications[n] = 0
       THEN /\ res' = "notFound"
            /\ UNCHANGED <<nbPendingNotifications, receivedNotificationIndex>>
       ELSE /\ res' = "ok"
            /\ nbPendingNotifications' = [nbPendingNotifications EXCEPT ![n] = @ - 1]
            /\ receivedNotificationIndex' =
                 [receivedNotificationIndex EXCEPT ![n] = (@ + 1) % RingSize]
    /\ UNCHANGED <<inUse, newer, pid, notificationEnabled, subscribedNotifications,
                   pendingNotificationIndex, pendingNotifications, semaphore, panicked>>

-----------------------------------------------------------------------------
NInit ==
    /\ inUse = {}
    /\ newer = [n \in Nodes |-> {}]
    /\ pid = [n \in Nodes |-> NoPid]
    /\ notificationEnabled = [n \in Nodes |-> FALSE]
    /\ nbPendingNotifications = [n \in Nodes |-> 0]
    /\ receivedNotificationIndex = [n \in Nodes |-> 0]
    /\ pendingNotificationIndex = [n \in Nodes |-> 0]
    /\ pendingNotifications = [n \in Nodes |-> [i \in 0 .. RingSize - 1 |-> 0]]
    /\ subscribedNotifications = [n \in Nodes |-> {}]
    /\ semaphore = [n \in Nodes |-> 0]
    /\ woken = [n \in Nodes |-> 0]
    /\ res = "ok"
    /\ panicked = FALSE

(* The commands that touch nothing but this module's state; UnregisterProcess *)
(* also removes services, so it is separate (see SM).                         *)
NotificationCommand ==
    \/ \E p \in Pids : RegisterProcess(p) \/ EnableNotification(p)
    \/ \E p \in Pids, id \in Notifs :
          Subscribe(p, id) \/ Unsubscribe(p, id) \/ PublishToProcess(p, id)
    \/ \E id \in Notifs : PublishAndGetSubscriber(id) \/ PublishToAll(id)
    \/ \E id \in Notifs, f \in Flags : PublishToSubscriber(id, f)
    \/ \E n \in Nodes : ReceiveNotification(n)

NNext == \/ NotificationCommand
         \/ \E p \in Pids : UnregisterProcess(p)
         \/ \E n \in Nodes : WaitSemaphore(n)

NSpec == NInit /\ [][NNext]_nvars

(* A client that enabled notifications keeps waiting for them: the loop of  *)
(* ServiceManager_Run and of pxi's main.                                    *)
NFairSpec == /\ NSpec
             /\ \A n \in Nodes : /\ WF_nvars(WaitSemaphore(n))
                                 /\ WF_nvars(ReceiveNotification(n))
-----------------------------------------------------------------------------
(* Every variable ranges over what its C type and the table sizes allow. *)
NTypeOK ==
    /\ inUse \in SUBSET Nodes
    /\ newer \in [Nodes -> SUBSET Nodes]
    /\ pid \in [Nodes -> Pids \cup {NoPid}]
    /\ notificationEnabled \in [Nodes -> BOOLEAN]
    /\ nbPendingNotifications \in [Nodes -> 0 .. RingSize]
    /\ receivedNotificationIndex \in [Nodes -> 0 .. RingSize - 1]
    /\ pendingNotificationIndex \in [Nodes -> 0 .. RingSize - 1]
    /\ pendingNotifications \in [Nodes -> [0 .. RingSize - 1 -> Notifs \cup {0}]]
    /\ subscribedNotifications \in [Nodes -> SUBSET Notifs]
    /\ semaphore \in [Nodes -> 0 .. RingSize]
    /\ woken \in [Nodes -> 0 .. RingSize]
    /\ res \in Results
    /\ panicked \in BOOLEAN

(* The count of a client's semaphore, plus the waits it has completed but   *)
(* not yet followed by ReceiveNotification, is the number of notifications  *)
(* pending for it: no wake-up without a notification, none lost.            *)
SemaphoreMatchesPending ==
    \A n \in inUse : semaphore[n] + woken[n] = nbPendingNotifications[n]

(* A pid is in the process table at most once, whether pm registered it or  *)
(* EnableNotification did.                                                  *)
UniquePids == \A m, n \in inUse : pid[m] = pid[n] => m = n

(* The process table is type correct and has no process twice.              *)
ProcessTableInv == NTypeOK /\ UniquePids

(* Neither assertSuccess(svcReleaseSemaphore) in doPublishNotification nor  *)
(* allocateNode's panic on an empty free list is ever reached.              *)
NoNotificationPanic == ~panicked

(* The write cursor is nbPendingNotifications slots ahead of the read one.  *)
RingConsistent ==
    \A n \in Nodes : pendingNotificationIndex[n] = Slot(n, nbPendingNotifications[n])

(* The inductive invariant the theorems rest on. *)
NInv == /\ NTypeOK
        /\ \A n \in inUse : pid[n] \in Pids
        /\ SemaphoreMatchesPending
        /\ UniquePids
        /\ RingConsistent
        /\ NoNotificationPanic

(* A publication that answers "ok" without the drop flag has left the id    *)
(* pending at every subscriber: none is skipped in silence.                 *)
Pending(n) == {pendingNotifications[n][Slot(n, i)] :
                  i \in 0 .. nbPendingNotifications[n] - 1}
NoSilentSkip ==
    [][\A id \in Notifs, f \in Flags :
          PublishToSubscriber(id, f) /\ res' = "ok" /\ ~f.dropIfFull
            => \A n \in Subscribers(id) : id \in Pending(n)']_nvars

(* A pending notification is received by a client that goes on waiting.     *)
PendingIsReceived ==
    \A n \in Nodes, k \in 0 .. RingSize - 1 :
        n \in inUse /\ nbPendingNotifications[n] > 0 /\ receivedNotificationIndex[n] = k
          ~> n \notin inUse \/ receivedNotificationIndex[n] # k

(* The ring buffers implement FIFO queues: freed nodes leave nothing behind *)
(* for the process that gets the node next, nothing is lost or reordered.   *)
QueueOf(p) ==
    LET ns == findProcessData(p)
    IN  IF ns = {} THEN <<>>
        ELSE LET n == CHOOSE n \in ns : TRUE
             IN [i \in 1 .. nbPendingNotifications[n] |->
                    pendingNotifications[n][Slot(n, i - 1)]]
Queues == INSTANCE NotificationQueues
              WITH Capacity <- RingSize,
                   registered <- {pid[n] : n \in inUse},
                   queue <- [p \in Pids |-> QueueOf(p)]
ImplementsQueues == Queues!Spec
=============================================================================
