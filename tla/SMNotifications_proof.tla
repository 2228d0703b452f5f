------------------------- MODULE SMNotifications_proof -------------------------
(***************************************************************************)
(* The ring buffers, the semaphores and the process table of sm are        *)
(* consistent for every number of processes, notifications and slots.      *)
(***************************************************************************)
EXTENDS SMNotifications, FiniteSetTheorems, SequenceTheorems, TLAPS

LEMMA RingSizePos == RingSize \in Nat \ {0}
BY NotifAssumption

(* The slot i places after a cursor r, without the division. *)
LEMMA SlotValue ==
    ASSUME NEW r \in 0 .. RingSize - 1, NEW i \in 0 .. RingSize
    PROVE  (r + i) % RingSize = IF r + i < RingSize THEN r + i ELSE r + i - RingSize
BY RingSizePos

(* The slot after a cursor. *)
LEMMA NextSlot ==
    ASSUME NEW i \in 0 .. RingSize - 1
    PROVE  (i + 1) % RingSize = IF i + 1 < RingSize THEN i + 1 ELSE 0
<1>1. 1 \in 0 .. RingSize BY RingSizePos
<1>2. (i + 1) % RingSize = IF i + 1 < RingSize THEN i + 1 ELSE i + 1 - RingSize
    BY <1>1, SlotValue, Zenon
<1>3. QED BY <1>2, RingSizePos

(* The two cursors differ by the number of pending notifications. *)
Apart(r, w, nb) == w = IF r + nb < RingSize THEN r + nb ELSE r + nb - RingSize

LEMMA Cursors ==
    ASSUME NEW r \in 0 .. RingSize - 1, NEW nb \in 0 .. RingSize, NEW w
    PROVE  w = (r + nb) % RingSize <=> Apart(r, w, nb)
BY SlotValue DEF Apart

(* While some pid is not registered, the free list has a node. *)
LEMMA FreeNode ==
    ASSUME NInv, NEW p \in Pids, findProcessData(p) = {}
    PROVE  inUse # Nodes
<1> SUFFICES ASSUME inUse = Nodes PROVE FALSE
    OBVIOUS
<1>1. pid \in [Nodes -> Pids \ {p}]
    BY DEF NInv, NTypeOK, findProcessData
<1>2. /\ IsFiniteSet(Pids \ {p})
      /\ Cardinality(Pids \ {p}) = Cardinality(Pids) - 1
    BY FS_RemoveElement, NotifAssumption
<1>3. Cardinality(Pids) \in Nat /\ Cardinality(Nodes) \in Nat
    BY FS_CardinalityType, NotifAssumption
<1>4. Cardinality(Pids \ {p}) < Cardinality(Nodes)
    BY <1>2, <1>3, NotifAssumption
<1>5. \E m, n \in Nodes : m # n /\ pid[m] = pid[n]
    BY <1>1, <1>2, <1>4, FS_PigeonHole, NotifAssumption
<1>6. QED BY <1>5 DEF NInv, UniquePids

LEMMA InitStep == NInit => NInv
<1> SUFFICES ASSUME NInit PROVE NInv
    OBVIOUS
<1>1. NTypeOK
    <2>1. 0 \in 0 .. RingSize - 1 /\ 0 \in 0 .. RingSize BY RingSizePos
    <2>2. QED BY <2>1 DEF NInit, NTypeOK, Results
<1>2. RingConsistent
    BY Cursors, RingSizePos DEF NInit, RingConsistent, Slot, Apart
<1>3. QED
    BY <1>1, <1>2 DEF NInit, NInv, SemaphoreMatchesPending, UniquePids,
                      NoNotificationPanic

LEMMA ReplyStep == ASSUME NInv, NEW r \in Results, Reply(r) PROVE NInv'
BY DEF NInv, Reply, ring, NTypeOK, SemaphoreMatchesPending, UniquePids,
       RingConsistent, Slot, NoNotificationPanic

LEMMA AllocateStep ==
    ASSUME NInv, NEW p \in Pids, NEW e \in BOOLEAN, findProcessData(p) = {},
           AllocateProcess(p, e)
    PROVE  NInv'
<1>1. PICK n \in Nodes \ inUse : doRegisterProcess(n, p, e)
    BY FreeNode DEF AllocateProcess
<1> USE <1>1 DEF doRegisterProcess, ClearRing
<1>2. NTypeOK' BY RingSizePos DEF NInv, NTypeOK, Results
<1>3. RingConsistent'
    <2>1. pendingNotificationIndex'[n] = Slot(n, nbPendingNotifications[n])'
        BY Cursors, RingSizePos DEF NInv, NTypeOK, Slot, Apart
    <2>2. QED BY <2>1 DEF NInv, NTypeOK, RingConsistent, Slot
<1>4. SemaphoreMatchesPending' BY DEF NInv, SemaphoreMatchesPending, NTypeOK
<1>5. UniquePids' /\ (\A m \in inUse : pid[m] \in Pids)'
    BY DEF NInv, UniquePids, NTypeOK, findProcessData
<1>6. QED BY <1>2, <1>3, <1>4, <1>5 DEF NInv, NoNotificationPanic

LEMMA UnregisterStep ==
    ASSUME NInv, NEW p \in Pids, UnregisterProcess(p) PROVE NInv'
<1>1. CASE Reply("notFound") BY <1>1, ReplyStep DEF Results
<1>2. CASE \E n \in findProcessData(p) :
             /\ inUse' = inUse \ {n}
             /\ newer' = [m \in Nodes |-> IF m = n THEN {} ELSE newer[m] \ {n}]
             /\ res' = "ok"
             /\ UNCHANGED <<pid, notificationEnabled, subscribedNotifications,
                            ring, woken, panicked>>
    BY <1>2 DEF NInv, NTypeOK, Results, ring, SemaphoreMatchesPending, UniquePids,
                RingConsistent, Slot, NoNotificationPanic
<1>3. QED BY <1>1, <1>2 DEF UnregisterProcess

LEMMA EnableStep ==
    ASSUME NInv, NEW p \in Pids, EnableNotification(p) PROVE NInv'
<1>1. CASE findProcessData(p) = {} /\ Reply("notFound")
    BY <1>1, ReplyStep DEF Results
<1>2. CASE findProcessData(p) = {} /\ AllocateProcess(p, TRUE)
    BY <1>2, AllocateStep
<1>3. ASSUME NEW n \in findProcessData(p),
             notificationEnabled' = [notificationEnabled EXCEPT ![n] = TRUE],
             res' = "ok",
             UNCHANGED <<inUse, newer, pid, subscribedNotifications, ring,
                         woken, panicked>>
      PROVE  NInv'
    BY <1>3 DEF NInv, NTypeOK, Results, ring, SemaphoreMatchesPending, UniquePids,
                RingConsistent, Slot, NoNotificationPanic
<1>4. QED BY <1>1, <1>2, <1>3 DEF EnableNotification

LEMMA SubscriptionStep ==
    ASSUME NInv, NEW n \in Nodes, NEW S \in SUBSET Notifs, SetSubscriptions(n, S)
    PROVE  NInv'
BY DEF SetSubscriptions, NInv, NTypeOK, Results, ring, SemaphoreMatchesPending,
       UniquePids, RingConsistent, Slot, NoNotificationPanic

LEMMA SubscribeStep ==
    ASSUME NInv, NEW p \in Pids, NEW id \in Notifs,
           Subscribe(p, id) \/ Unsubscribe(p, id)
    PROVE  NInv'
<1>1. \A n \in Enabled(p) : n \in Nodes /\ subscribedNotifications[n] \in SUBSET Notifs
    BY DEF NInv, NTypeOK, Enabled, findProcessData
<1>2. \/ \E r \in Results : Reply(r)
      \/ \E n \in Enabled(p) :
            \/ SetSubscriptions(n, subscribedNotifications[n] \cup {id})
            \/ SetSubscriptions(n, subscribedNotifications[n] \ {id})
    BY DEF Subscribe, Unsubscribe, Results
<1>3. QED BY <1>1, <1>2, ReplyStep, SubscriptionStep

(* What a publication does to one ring and its semaphore. *)
LEMMA StoreStep ==
    ASSUME NInv, NEW W \in SUBSET inUse, NEW id \in Notifs,
           \A n \in W : nbPendingNotifications[n] < RingSize,
           Store(W, id), res' \in Results
    PROVE  NInv'
<1> USE DEF Store, Signal
<1>1. \A n \in W : /\ pendingNotificationIndex[n] \in 0 .. RingSize - 1
                    /\ receivedNotificationIndex[n] \in 0 .. RingSize - 1
                    /\ nbPendingNotifications[n] \in 0 .. RingSize - 1
                    /\ nbPendingNotifications[n] + 1 \in 0 .. RingSize
                    /\ semaphore[n] \in 0 .. RingSize /\ woken[n] \in 0 .. RingSize
                    /\ semaphore[n] + woken[n] = nbPendingNotifications[n]
                    /\ semaphore[n] + 1 \in 0 .. RingSize
    BY RingSizePos DEF NInv, NTypeOK, SemaphoreMatchesPending
<1>2. \A n \in W : (pendingNotificationIndex[n] + 1) % RingSize \in 0 .. RingSize - 1
    BY <1>1, NextSlot, RingSizePos
<1>3. NTypeOK' BY <1>1, <1>2 DEF NInv, NTypeOK
<1>4. RingConsistent'
    <2> SUFFICES ASSUME NEW n \in Nodes
                 PROVE  pendingNotificationIndex'[n] = Slot(n, nbPendingNotifications[n])'
        BY DEF RingConsistent
    <2>1. pendingNotificationIndex[n] = Slot(n, nbPendingNotifications[n])
        BY DEF NInv, RingConsistent
    <2>2. CASE n \in W
        <3> DEFINE r == receivedNotificationIndex[n]
                   w == pendingNotificationIndex[n]
                   nb == nbPendingNotifications[n]
        <3>1. /\ r \in 0 .. RingSize - 1 /\ w \in 0 .. RingSize - 1
              /\ nb \in 0 .. RingSize /\ nb + 1 \in 0 .. RingSize
            BY <1>1, <2>2, RingSizePos
        <3>2. w = (r + nb) % RingSize BY <2>1 DEF Slot
        <3>3. /\ pendingNotificationIndex'[n] = (w + 1) % RingSize
              /\ receivedNotificationIndex'[n] = r
              /\ nbPendingNotifications'[n] = nb + 1
            BY <2>2 DEF NInv, NTypeOK
        <3> HIDE DEF r, w, nb
        <3>4. Apart(r, w, nb) BY <3>1, <3>2, Cursors
        <3>5. (w + 1) % RingSize = IF w + 1 < RingSize THEN w + 1 ELSE 0
            BY <3>1, NextSlot
        <3>6. nb < RingSize BY <1>1, <2>2, RingSizePos DEF nb
        <3>7. Apart(r, (w + 1) % RingSize, nb + 1)
            BY <3>1, <3>4, <3>5, <3>6, RingSizePos DEF Apart
        <3>8. (w + 1) % RingSize = (r + (nb + 1)) % RingSize
            BY <3>1, <3>7, Cursors
        <3>9. QED BY <3>3, <3>8 DEF Slot
    <2>3. CASE n \notin W BY <2>1, <2>3 DEF NInv, NTypeOK, Slot
    <2>4. QED BY <2>2, <2>3
<1>5. SemaphoreMatchesPending'
    BY <1>1, RingSizePos DEF NInv, NTypeOK, SemaphoreMatchesPending
<1>6. QED BY <1>3, <1>4, <1>5 DEF NInv, UniquePids, NoNotificationPanic

LEMMA PublishStep ==
    ASSUME NInv, NEW T \in SUBSET inUse, NEW id \in Notifs, NEW f \in Flags,
           Publish(T, id, f)
    PROVE  NInv'
<1> DEFINE W == {n \in Visited(T, id, f) : Stores(n, id, f)}
<1>1. W \in SUBSET inUse /\ \A n \in W : nbPendingNotifications[n] < RingSize
    BY DEF Visited, Stores, HasRoom
<1>2. \A n \in W : semaphore[n] < RingSize
    BY <1>1, RingSizePos DEF NInv, NTypeOK, SemaphoreMatchesPending
<1>3. ~ \E n \in W : semaphore[n] >= RingSize
    BY <1>1, <1>2, RingSizePos DEF NInv, NTypeOK
<1>4. Store(W, id) /\ res' \in Results BY <1>3 DEF Publish, Results
<1>5. QED BY <1>1, <1>4, StoreStep

LEMMA WaitStep ==
    ASSUME NInv, NEW n \in Nodes, WaitSemaphore(n) PROVE NInv'
<1> USE DEF WaitSemaphore, Listening
<1>1. semaphore[n] - 1 \in 0 .. RingSize /\ woken[n] + 1 \in 0 .. RingSize
    BY RingSizePos DEF NInv, NTypeOK, SemaphoreMatchesPending
<1>2. NTypeOK' BY <1>1 DEF NInv, NTypeOK
<1>3. SemaphoreMatchesPending'
    BY RingSizePos DEF NInv, NTypeOK, SemaphoreMatchesPending
<1>4. QED BY <1>2, <1>3 DEF NInv, UniquePids, RingConsistent, Slot, NoNotificationPanic

LEMMA ReceiveStep ==
    ASSUME NInv, NEW n \in Nodes, ReceiveNotification(n) PROVE NInv'
<1> USE DEF ReceiveNotification, Listening
<1> DEFINE r == receivedNotificationIndex[n]
           w == pendingNotificationIndex[n]
           nb == nbPendingNotifications[n]
<1>1. /\ r \in 0 .. RingSize - 1 /\ w \in 0 .. RingSize - 1 /\ nb \in 0 .. RingSize
      /\ woken[n] \in 0 .. RingSize /\ semaphore[n] \in 0 .. RingSize
    BY DEF NInv, NTypeOK
<1>2. nb > 0 /\ woken[n] - 1 \in 0 .. RingSize /\ nb - 1 \in 0 .. RingSize
    BY <1>1, RingSizePos DEF NInv, SemaphoreMatchesPending
<1>3. /\ receivedNotificationIndex'[n] = (r + 1) % RingSize
      /\ nbPendingNotifications'[n] = nb - 1
      /\ pendingNotificationIndex'[n] = w
      /\ woken' = [woken EXCEPT ![n] = @ - 1]
      /\ res' = "ok"
    BY <1>1, <1>2 DEF NInv, NTypeOK
<1>4. (r + 1) % RingSize = IF r + 1 < RingSize THEN r + 1 ELSE 0
    BY <1>1, NextSlot
<1>5. (r + 1) % RingSize \in 0 .. RingSize - 1 BY <1>1, <1>4, RingSizePos
<1>6. NTypeOK'
    <2>0. /\ receivedNotificationIndex \in [Nodes -> 0 .. RingSize - 1]
          /\ nbPendingNotifications \in [Nodes -> 0 .. RingSize]
        BY DEF NInv, NTypeOK
    <2>1. /\ receivedNotificationIndex' \in [Nodes -> 0 .. RingSize - 1]
          /\ nbPendingNotifications' \in [Nodes -> 0 .. RingSize]
        <3>1. /\ receivedNotificationIndex' = [receivedNotificationIndex EXCEPT ![n] = (r + 1) % RingSize]
              /\ nbPendingNotifications' = [nbPendingNotifications EXCEPT ![n] = nb - 1]
            BY <1>1, <1>2
        <3>2. QED BY <1>2, <1>5, <2>0, <3>1, Zenon
    <2>2. woken' \in [Nodes -> 0 .. RingSize] BY <1>2 DEF NInv, NTypeOK
    <2>3. res' \in Results BY DEF Results
    <2>4. QED BY <2>1, <2>2, <2>3 DEF NInv, NTypeOK
<1>7. SemaphoreMatchesPending'
    <2>1. (semaphore[n] + woken[n] = nbPendingNotifications[n])'
        BY <1>1, <1>2, <1>3 DEF NInv, NTypeOK, SemaphoreMatchesPending
    <2>2. ASSUME NEW m \in inUse, m # n
          PROVE  (semaphore[m] + woken[m] = nbPendingNotifications[m])'
        BY <2>2, <1>2, <1>3 DEF NInv, NTypeOK, SemaphoreMatchesPending
    <2>3. QED BY <2>1, <2>2 DEF SemaphoreMatchesPending
<1>8. RingConsistent'
    <2>1. w = (r + nb) % RingSize BY DEF NInv, RingConsistent, Slot
    <2>2. Apart(r, w, nb) BY <1>1, <2>1, Cursors
    <2>3. Apart((r + 1) % RingSize, w, nb - 1)
        <3> DEFINE r2 == (r + 1) % RingSize
        <3>1. r2 = IF r + 1 < RingSize THEN r + 1 ELSE 0 BY <1>4
        <3>2. nb > 0 BY <1>2
        <3>3. /\ r \in 0 .. RingSize - 1 /\ w \in 0 .. RingSize - 1
              /\ nb \in 0 .. RingSize
            BY <1>1
        <3> HIDE DEF r, w, nb, r2
        <3>4. Apart(r2, w, nb - 1)
            BY <3>1, <3>2, <3>3, <2>2, RingSizePos DEF Apart
        <3>5. QED BY <3>4 DEF r2
    <2>4. w = (((r + 1) % RingSize) + (nb - 1)) % RingSize
        BY <1>2, <1>5, <2>3, Cursors
    <2>5. pendingNotificationIndex'[n] = Slot(n, nbPendingNotifications[n])'
        BY <1>3, <2>4 DEF Slot
    <2>6. ASSUME NEW m \in Nodes, m # n
          PROVE  pendingNotificationIndex'[m] = Slot(m, nbPendingNotifications[m])'
        BY <2>6 DEF NInv, NTypeOK, RingConsistent, Slot
    <2>7. QED BY <2>5, <2>6 DEF RingConsistent
<1>9. QED BY <1>6, <1>7, <1>8 DEF NInv, UniquePids, NoNotificationPanic

LEMMA NextStep == NInv /\ [NNext]_nvars => NInv'
<1> SUFFICES ASSUME NInv, [NNext]_nvars PROVE NInv'
    OBVIOUS
<1>1. \A id \in Notifs : Subscribers(id) \in SUBSET inUse /\ Listening \in SUBSET inUse
    BY DEF Subscribers, Listening
<1>2. ASSUME NEW p \in Pids, RegisterProcess(p) PROVE NInv'
    BY <1>2, ReplyStep, AllocateStep DEF RegisterProcess, Results
<1>3. ASSUME NEW p \in Pids, NEW id \in Notifs, PublishToProcess(p, id) PROVE NInv'
    BY <1>3, ReplyStep, PublishStep
       DEF PublishToProcess, Results, Enabled, findProcessData, NoFlags, Flags
<1>4. ASSUME NEW id \in Notifs, NEW f \in Flags, PublishToSubscriber(id, f) PROVE NInv'
    BY <1>1, <1>4, PublishStep DEF PublishToSubscriber
<1>5. ASSUME NEW id \in Notifs, PublishAndGetSubscriber(id) \/ PublishToAll(id) PROVE NInv'
    BY <1>1, <1>5, PublishStep DEF PublishAndGetSubscriber, PublishToAll, NoFlags, Flags
<1>6. CASE UNCHANGED nvars
    BY <1>6 DEF NInv, nvars, ring, NTypeOK, SemaphoreMatchesPending, UniquePids,
                RingConsistent, Slot, NoNotificationPanic
<1>7. QED
    BY <1>2, <1>3, <1>4, <1>5, <1>6, UnregisterStep, EnableStep, SubscribeStep,
       WaitStep, ReceiveStep DEF NNext, NotificationCommand

THEOREM NotificationInvariant == NSpec => []NInv
BY InitStep, NextStep, PTL DEF NSpec

(* The process table is type correct and has no process twice, whoever      *)
(* registers them (processes.c:25-48, notifications.c:51-73).               *)
THEOREM ProcessTableIsRight == NSpec => []ProcessTableInv
<1>1. NInv => ProcessTableInv BY DEF NInv, ProcessTableInv
<1>2. QED BY <1>1, NotificationInvariant, PTL

(* No notification is lost or announced twice. *)
THEOREM SemaphoreCount == NSpec => []SemaphoreMatchesPending
<1>1. NInv => SemaphoreMatchesPending BY DEF NInv
<1>2. QED BY <1>1, NotificationInvariant, PTL

(* No assertion of the notification code fails. *)
THEOREM NeverPanics == NSpec => []NoNotificationPanic
<1>1. NInv => NoNotificationPanic BY DEF NInv
<1>2. QED BY <1>1, NotificationInvariant, PTL
-----------------------------------------------------------------------------
(* The refinement: what is pending at a node, oldest first.                 *)
Ring(n) == [i \in 1 .. nbPendingNotifications[n] |-> pendingNotifications[n][Slot(n, i - 1)]]
Stored == Notifs \cup {0}

(* A sequence with one more at its end, and one less at its front.          *)
LEMMA AppendIs ==
    ASSUME NEW S, NEW s \in Seq(S), NEW e \in S
    PROVE  Append(s, e) = [i \in 1 .. Len(s) + 1 |-> IF i = Len(s) + 1 THEN e ELSE s[i]]
<1> DEFINE t == [i \in 1 .. Len(s) + 1 |-> IF i = Len(s) + 1 THEN e ELSE s[i]]
           a == Append(s, e)
<1>1. t \in Seq(S) /\ Len(t) = Len(s) + 1
  <2>1. Len(s) \in Nat /\ Len(s) + 1 \in Nat  BY LenProperties
  <2>2. \A i \in 1 .. Len(s) + 1 : (IF i = Len(s) + 1 THEN e ELSE s[i]) \in S
    BY <2>1, ElementOfSeq
  <2>3. QED BY <2>1, <2>2
<1>2. /\ a \in Seq(S) /\ Len(a) = Len(s) + 1
      /\ \A i \in 1 .. Len(s) : a[i] = s[i]
      /\ a[Len(s) + 1] = e
  BY AppendProperties
<1>3. \A i \in 1 .. Len(s) + 1 : t[i] = IF i = Len(s) + 1 THEN e ELSE s[i]
  OBVIOUS
<1>4. Len(s) \in Nat  BY LenProperties
<1> HIDE DEF t, a
<1>5. \A i \in 1 .. Len(a) : a[i] = t[i]
  BY <1>2, <1>3, <1>4
<1>6. a = t  BY <1>1, <1>2, <1>5, SeqEqual, Zenon
<1>7. QED BY <1>6 DEF a, t

LEMMA TailIs ==
    ASSUME NEW S, NEW s \in Seq(S), s # <<>>
    PROVE  Tail(s) = [i \in 1 .. Len(s) - 1 |-> s[i + 1]]
<1> DEFINE t == [i \in 1 .. Len(s) - 1 |-> s[i + 1]]
           a == Tail(s)
<1>0. Len(s) \in Nat \ {0}  BY EmptySeq
<1>1. t \in Seq(S) /\ Len(t) = Len(s) - 1
  <2>1. Len(s) - 1 \in Nat  BY <1>0
  <2>2. \A i \in 1 .. Len(s) - 1 : i + 1 \in 1 .. Len(s)  BY <1>0
  <2>3. \A i \in 1 .. Len(s) - 1 : s[i + 1] \in S  BY <2>2, ElementOfSeq
  <2>4. QED BY <2>1, <2>3
<1>2. /\ a \in Seq(S) /\ Len(a) = Len(s) - 1
      /\ \A i \in 1 .. Len(a) : a[i] = s[i + 1]
  BY HeadTailProperties
<1>3. \A i \in 1 .. Len(s) - 1 : t[i] = s[i + 1]
  OBVIOUS
<1> HIDE DEF t, a
<1>5. \A i \in 1 .. Len(a) : a[i] = t[i]
  BY <1>2, <1>3
<1>6. a = t  BY <1>1, <1>2, <1>5, SeqEqual, Zenon
<1>7. QED BY <1>6 DEF a, t

LEMMA RingIsSeq ==
    ASSUME NInv, NEW n \in Nodes
    PROVE  Ring(n) \in Seq(Stored) /\ Len(Ring(n)) = nbPendingNotifications[n]
<1>1. /\ nbPendingNotifications[n] \in Nat
      /\ nbPendingNotifications[n] \in 0 .. RingSize
      /\ receivedNotificationIndex[n] \in 0 .. RingSize - 1
      /\ pendingNotifications[n] \in [0 .. RingSize - 1 -> Stored]
  BY RingSizePos DEF NInv, NTypeOK, Stored
<1>2. ASSUME NEW i \in 1 .. nbPendingNotifications[n]
      PROVE  pendingNotifications[n][Slot(n, i - 1)] \in Stored
  <2>1. i - 1 \in 0 .. RingSize  BY <1>1, RingSizePos
  <2>2. Slot(n, i - 1) = IF receivedNotificationIndex[n] + (i - 1) < RingSize
                         THEN receivedNotificationIndex[n] + (i - 1)
                         ELSE receivedNotificationIndex[n] + (i - 1) - RingSize
    BY <1>1, <2>1, SlotValue, Zenon DEF Slot
  <2>4. Slot(n, i - 1) \in 0 .. RingSize - 1
    BY <1>1, <2>1, <2>2, RingSizePos
  <2>3. QED BY <1>1, <2>4
<1>3. QED BY <1>1, <1>2 DEF Ring

(* The queue of a registered process is the ring of its node, that of any   *)
(* other is empty; before a step and after it.                              *)
Belongs(n, p) == n \in inUse /\ pid[n] = p
LEMMA QueueOfNode == ASSUME UniquePids, NEW p, NEW n, Belongs(n, p) PROVE QueueOf(p) = Ring(n)
<1>1. findProcessData(p) = {n}  BY DEF UniquePids, findProcessData, Belongs
<1>2. QED BY <1>1 DEF QueueOf, Ring
LEMMA QueueOfNodeNext ==
    ASSUME UniquePids', NEW p, NEW n, Belongs(n, p)' PROVE QueueOf(p)' = Ring(n)'
<1>1. findProcessData(p)' = {n}  BY DEF UniquePids, findProcessData, Belongs
<1>2. QED BY <1>1 DEF QueueOf, Ring
LEMMA QueueOfNone ==
    ASSUME NEW p, \A n \in inUse : ~Belongs(n, p) PROVE QueueOf(p) = <<>>
BY DEF QueueOf, findProcessData, Belongs
LEMMA QueueOfNoneNext ==
    ASSUME NEW p, \A n \in inUse' : ~Belongs(n, p)' PROVE QueueOf(p)' = <<>>
BY DEF QueueOf, findProcessData, Belongs

(* A process whose node keeps its ring keeps its queue.                     *)
LEMMA QueueKept ==
    ASSUME UniquePids, UniquePids', NEW p, \A n : Belongs(n, p)' <=> Belongs(n, p),
           \A n : Belongs(n, p) => Ring(n)' = Ring(n)
    PROVE  QueueOf(p)' = QueueOf(p)
<1>1. CASE \E n : Belongs(n, p)
  <2>1. PICK n : Belongs(n, p)  BY <1>1
  <2>2. Belongs(n, p)'  BY <2>1
  <2>3. QED BY <2>1, <2>2, QueueOfNode, QueueOfNodeNext
<1>2. CASE ~ \E n : Belongs(n, p)
  BY <1>2, QueueOfNone, QueueOfNoneNext
<1>3. QED BY <1>1, <1>2

Registered == {pid[n] : n \in inUse}
AllQueues == [p \in Pids |-> QueueOf(p)]

LEMMA QueuesKept ==
    ASSUME UniquePids, UNCHANGED <<inUse, pid>>, \A n \in inUse : Ring(n)' = Ring(n)
    PROVE  UNCHANGED <<Registered, AllQueues>>
<1>1. UniquePids'  BY DEF UniquePids
<1>2. \A n, p : Belongs(n, p)' <=> Belongs(n, p)  BY DEF Belongs
<1>3. ASSUME NEW p \in Pids PROVE QueueOf(p)' = QueueOf(p)
  BY <1>1, <1>2, QueueKept DEF Belongs
<1>4. QED BY <1>3 DEF Registered, AllQueues

(* The rings are kept by what does not touch them.                          *)
LEMMA RingKept == ASSUME UNCHANGED ring, NEW n PROVE Ring(n)' = Ring(n)
BY DEF ring, Ring, Slot

(* A step of the table that registers p at the node n.                      *)
LEMMA RegisterQueue ==
    ASSUME NInv, NInv', NEW p \in Pids, NEW n \in Nodes \ inUse, findProcessData(p) = {},
           NEW e, doRegisterProcess(n, p, e)
    PROVE  Queues!Register(p)
<1>1. /\ inUse' = inUse \cup {n} /\ pid' = [pid EXCEPT ![n] = p]
      /\ nbPendingNotifications' = [nbPendingNotifications EXCEPT ![n] = 0]
      /\ receivedNotificationIndex' = [receivedNotificationIndex EXCEPT ![n] = 0]
      /\ \A m : m # n => pendingNotifications'[m] = pendingNotifications[m]
  BY DEF doRegisterProcess, ClearRing, NInv, NTypeOK
<1>2. inUse \subseteq Nodes /\ pid \in [Nodes -> Pids \cup {NoPid}]
  BY DEF NInv, NTypeOK
<1>3. UniquePids /\ UniquePids'  BY DEF NInv
<1>4. p \notin Registered  BY DEF Registered, findProcessData
<1>5. Registered' = Registered \cup {p}
  BY <1>1, <1>2 DEF Registered
<1>6. QueueOf(p)' = <<>>
  <2>1. Belongs(n, p)'  BY <1>1, <1>2 DEF Belongs
  <2>2. Ring(n)' = <<>>  BY <1>1 DEF Ring, NInv, NTypeOK
  <2>3. QED BY <1>3, <2>1, <2>2, QueueOfNodeNext
<1>7. ASSUME NEW q \in Pids, q # p PROVE QueueOf(q)' = QueueOf(q)
  <2>1. \A m : Belongs(m, q)' <=> Belongs(m, q)
    BY <1>1, <1>2, <1>7 DEF Belongs
  <2>2. ASSUME NEW m, Belongs(m, q) PROVE Ring(m)' = Ring(m)
    <3>1. m \in Nodes /\ m # n  BY <1>2, <2>2 DEF Belongs
    <3>2. /\ nbPendingNotifications'[m] = nbPendingNotifications[m]
          /\ receivedNotificationIndex'[m] = receivedNotificationIndex[m]
          /\ pendingNotifications'[m] = pendingNotifications[m]
      BY <1>1, <3>1 DEF NInv, NTypeOK
    <3>3. QED BY <3>2 DEF Ring, Slot
  <2>3. QED BY <1>3, <2>1, <2>2, QueueKept
<1>8. AllQueues' = [AllQueues EXCEPT ![p] = <<>>]
  BY <1>6, <1>7 DEF AllQueues
<1>9. QED BY <1>4, <1>5, <1>8 DEF Queues!Register, Registered, AllQueues

LEMMA UnregisterQueue ==
    ASSUME NInv, NInv', NEW p \in Pids, NEW n \in findProcessData(p),
           inUse' = inUse \ {n}, UNCHANGED <<pid, ring>>
    PROVE  Queues!Unregister(p)
<1>1. n \in inUse /\ pid[n] = p  BY DEF findProcessData
<1>2. UniquePids /\ UniquePids'  BY DEF NInv
<1>3. p \in Registered  BY <1>1 DEF Registered
<1>4. Registered' = Registered \ {p}
  BY <1>1, <1>2 DEF Registered, UniquePids
<1>5. QueueOf(p)' = <<>>
  <2>1. \A m \in inUse' : ~Belongs(m, p)'
    BY <1>1, <1>2 DEF Belongs, UniquePids
  <2>2. QED BY <2>1, QueueOfNoneNext
<1>6. ASSUME NEW q \in Pids, q # p PROVE QueueOf(q)' = QueueOf(q)
  <2>1. \A m : Belongs(m, q)' <=> Belongs(m, q)
    BY <1>1, <1>6 DEF Belongs
  <2>2. \A m : Belongs(m, q) => Ring(m)' = Ring(m)
    BY RingKept
  <2>3. QED BY <1>2, <2>1, <2>2, QueueKept
<1>7. AllQueues' = [AllQueues EXCEPT ![p] = <<>>]
  BY <1>5, <1>6 DEF AllQueues
<1>8. QED BY <1>3, <1>4, <1>7 DEF Queues!Unregister, Registered, AllQueues

(* A publication appends the id to the queues of the nodes that store it.   *)
LEMMA StoredRing ==
    ASSUME NInv, NEW W \in SUBSET inUse, NEW id \in Notifs,
           \A m \in W : nbPendingNotifications[m] < RingSize, Store(W, id), NEW n \in W
    PROVE  Ring(n)' = Append(Ring(n), id)
<1> DEFINE r == receivedNotificationIndex[n]
           nb == nbPendingNotifications[n]
           w == pendingNotificationIndex[n]
           old == pendingNotifications[n]
<1>1. n \in Nodes  BY DEF NInv, NTypeOK
<1>2. /\ receivedNotificationIndex'[n] = r /\ nbPendingNotifications'[n] = nb + 1
      /\ pendingNotifications'[n] = [old EXCEPT ![w] = id]
  BY <1>1 DEF Store, NInv, NTypeOK
<1>3. /\ r \in 0 .. RingSize - 1 /\ w \in 0 .. RingSize - 1 /\ nb \in 0 .. RingSize - 1
      /\ old \in [0 .. RingSize - 1 -> Stored] /\ nb \in Nat /\ nb \in 0 .. RingSize
  BY <1>1, RingSizePos DEF NInv, NTypeOK, Stored
<1>4. w = (r + nb) % RingSize  BY <1>1 DEF NInv, RingConsistent, Slot
<1>5. Ring(n)' = [i \in 1 .. nb + 1 |-> [old EXCEPT ![w] = id][(r + (i - 1)) % RingSize]]
  BY <1>2 DEF Ring, Slot
<1>6. Ring(n) = [i \in 1 .. nb |-> old[(r + (i - 1)) % RingSize]]
  BY DEF Ring, Slot
<1>7. Ring(n) \in Seq(Stored) /\ Len(Ring(n)) = nb
  BY <1>1, RingIsSeq
<1> HIDE DEF r, nb, w, old
<1>8. ASSUME NEW i \in 1 .. nb
      PROVE  /\ (r + (i - 1)) % RingSize # w
             /\ (r + (i - 1)) % RingSize \in 0 .. RingSize - 1
  <2>1. i - 1 \in 0 .. RingSize /\ i - 1 < nb  BY <1>3, RingSizePos
  <2>2. (r + (i - 1)) % RingSize = IF r + (i - 1) < RingSize THEN r + (i - 1)
                                   ELSE r + (i - 1) - RingSize
    BY <1>3, <2>1, SlotValue, Zenon
  <2>3. w = IF r + nb < RingSize THEN r + nb ELSE r + nb - RingSize
    BY <1>3, <1>4, SlotValue, Zenon
  <2>4. QED BY <1>3, <2>1, <2>2, <2>3, RingSizePos
<1>9. [old EXCEPT ![w] = id][(r + nb) % RingSize] = id
  BY <1>3, <1>4
<1>10. \A i \in 1 .. nb : [old EXCEPT ![w] = id][(r + (i - 1)) % RingSize] = Ring(n)[i]
  BY <1>3, <1>6, <1>8
<1>11. QED
  <2>1. Append(Ring(n), id) = [i \in 1 .. nb + 1 |-> IF i = nb + 1 THEN id ELSE Ring(n)[i]]
    <3>1. id \in Stored  BY DEF Stored
    <3>2. Append(Ring(n), id) = [i \in 1 .. Len(Ring(n)) + 1 |->
                                   IF i = Len(Ring(n)) + 1 THEN id ELSE Ring(n)[i]]
      BY <1>7, <3>1, AppendIs, SMT
    <3>3. QED BY <1>7, <3>2
  <2>2. ASSUME NEW i \in 1 .. nb + 1
        PROVE  [old EXCEPT ![w] = id][(r + (i - 1)) % RingSize]
                  = IF i = nb + 1 THEN id ELSE Ring(n)[i]
    <3>1. CASE i = nb + 1
      <4>1. i - 1 = nb  BY <1>3, <3>1
      <4>2. QED BY <1>9, <3>1, <4>1
    <3>2. CASE i # nb + 1
      <4>1. i \in 1 .. nb  BY <1>3, <3>2
      <4>2. QED BY <1>10, <3>2, <4>1
    <3>3. QED BY <3>1, <3>2
  <2>3. QED BY <1>5, <2>1, <2>2

(* A reception takes the oldest.                                            *)
LEMMA ReceivedRing ==
    ASSUME NInv, NEW n \in Nodes, nbPendingNotifications[n] > 0,
           receivedNotificationIndex'[n] = (receivedNotificationIndex[n] + 1) % RingSize,
           nbPendingNotifications'[n] = nbPendingNotifications[n] - 1,
           UNCHANGED pendingNotifications
    PROVE  Ring(n)' = Tail(Ring(n)) /\ Ring(n) # <<>>
<1> DEFINE r == receivedNotificationIndex[n]
           nb == nbPendingNotifications[n]
           r2 == (r + 1) % RingSize
           old == pendingNotifications[n]
<1>1. /\ r \in 0 .. RingSize - 1 /\ nb \in 1 .. RingSize /\ nb \in Nat
  BY RingSizePos DEF NInv, NTypeOK
<1>2. Ring(n)' = [i \in 1 .. nb - 1 |-> old[(r2 + (i - 1)) % RingSize]]
  BY DEF Ring, Slot
<1>3. Ring(n) = [i \in 1 .. nb |-> old[(r + (i - 1)) % RingSize]]
  BY DEF Ring, Slot
<1>4. Ring(n) \in Seq(Stored) /\ Len(Ring(n)) = nb
  BY RingIsSeq
<1>5. r2 = IF r + 1 < RingSize THEN r + 1 ELSE 0  BY <1>1, NextSlot
<1> HIDE DEF r, nb, r2, old
<1>6. r2 \in 0 .. RingSize - 1  BY <1>1, <1>5, RingSizePos
<1>7. ASSUME NEW i \in 1 .. nb - 1
      PROVE  (r2 + (i - 1)) % RingSize = (r + ((i + 1) - 1)) % RingSize
  <2>1. i - 1 \in 0 .. RingSize /\ i \in 0 .. RingSize /\ (i + 1) - 1 = i /\ i < RingSize
    BY <1>1, RingSizePos
  <2>2. (r2 + (i - 1)) % RingSize = IF r2 + (i - 1) < RingSize THEN r2 + (i - 1)
                                    ELSE r2 + (i - 1) - RingSize
    BY <1>6, <2>1, SlotValue, Zenon
  <2>3. (r + i) % RingSize = IF r + i < RingSize THEN r + i ELSE r + i - RingSize
    BY <1>1, <2>1, SlotValue, Zenon
  <2>4. (r2 + (i - 1)) % RingSize = (r + i) % RingSize
    BY <1>1, <1>5, <1>6, <2>1, <2>2, <2>3, RingSizePos
  <2>5. QED BY <2>1, <2>4
<1>8. Ring(n) # <<>>  BY <1>1, <1>4
<1>9. Tail(Ring(n)) = [i \in 1 .. nb - 1 |-> Ring(n)[i + 1]]
  BY <1>4, <1>8, TailIs, Zenon
<1>10. \A i \in 1 .. nb - 1 : Ring(n)[i + 1] = old[(r + ((i + 1) - 1)) % RingSize]
  BY <1>1, <1>3
<1>11. Tail(Ring(n)) = Ring(n)'
  <2>1. \A i \in 1 .. nb - 1 : Ring(n)[i + 1] = old[(r2 + (i - 1)) % RingSize]
    BY <1>7, <1>10
  <2>2. QED BY <1>2, <1>9, <2>1
<1>12. QED BY <1>8, <1>11

(* A publication that stores: it reaches the processes of W, each of which  *)
(* has room.                                                                *)
LEMMA PublishQueue ==
    ASSUME NInv, NEW W \in SUBSET inUse, NEW id \in Notifs,
           \A m \in W : nbPendingNotifications[m] < RingSize, Store(W, id)
    PROVE  Queues!Publish(id, {pid[n] : n \in W}) /\ {pid[n] : n \in W} \subseteq Registered
<1> DEFINE S == {pid[n] : n \in W}
<1>1. UNCHANGED <<inUse, pid, receivedNotificationIndex>>  BY DEF Store
<1>2. UniquePids /\ UniquePids' /\ inUse \subseteq Nodes
  BY <1>1 DEF NInv, NTypeOK, UniquePids
<1>3. S \subseteq Registered  BY DEF Registered
<1>4. Registered' = Registered  BY <1>1 DEF Registered
<1>5. ASSUME NEW p \in Pids \cap S
      PROVE  /\ Len(QueueOf(p)) < RingSize
             /\ QueueOf(p)' = Append(QueueOf(p), id)
  <2>1. PICK n \in W : pid[n] = p  BY <1>5
  <2>2. Belongs(n, p) /\ Belongs(n, p)'  BY <1>1, <2>1 DEF Belongs
  <2>3. QueueOf(p) = Ring(n) /\ QueueOf(p)' = Ring(n)'
    BY <1>2, <2>2, QueueOfNode, QueueOfNodeNext
  <2>4. Ring(n)' = Append(Ring(n), id)  BY StoredRing
  <2>5. Len(Ring(n)) < RingSize
    BY <1>2, RingIsSeq
  <2>6. QED BY <2>3, <2>4, <2>5
<1>6. ASSUME NEW p \in Pids, p \notin S PROVE QueueOf(p)' = QueueOf(p)
  <2>1. \A n : Belongs(n, p)' <=> Belongs(n, p)  BY <1>1 DEF Belongs
  <2>2. ASSUME NEW n, Belongs(n, p) PROVE Ring(n)' = Ring(n)
    <3>1. n \in Nodes /\ n \notin W  BY <1>2, <1>6, <2>2 DEF Belongs
    <3>2. /\ nbPendingNotifications'[n] = nbPendingNotifications[n]
          /\ receivedNotificationIndex'[n] = receivedNotificationIndex[n]
          /\ pendingNotifications'[n] = pendingNotifications[n]
      BY <3>1 DEF Store
    <3>3. QED BY <3>2 DEF Ring, Slot
  <2>3. QED BY <1>2, <2>1, <2>2, QueueKept
<1>7. S \subseteq Pids  BY DEF NInv
<1>8. \A p \in S : Len(AllQueues[p]) < RingSize  BY <1>5, <1>7 DEF AllQueues
<1>9. AllQueues' = [p \in Pids |-> IF p \in S THEN Append(AllQueues[p], id) ELSE AllQueues[p]]
  <2>1. \A p \in Pids : QueueOf(p)' = IF p \in S THEN Append(QueueOf(p), id) ELSE QueueOf(p)
    BY <1>5, <1>6
  <2> HIDE DEF S
  <2>2. QED BY <2>1 DEF AllQueues
<1> HIDE DEF S
<1>10. Queues!Publish(id, S)
  BY <1>4, <1>8, <1>9 DEF Queues!Publish, Registered, AllQueues
<1>11. QED BY <1>3, <1>10 DEF S

(* A step of the process table or the rings is one of the queues, or none.  *)
QStep == Queues!Next \/ UNCHANGED <<Registered, AllQueues>>

LEMMA RegisterRefines ==
    ASSUME NInv, NInv', NEW p \in Pids, findProcessData(p) = {}, NEW e, AllocateProcess(p, e)
    PROVE  QStep
<1>1. PICK n \in Nodes \ inUse : doRegisterProcess(n, p, e)
  BY FreeNode DEF AllocateProcess
<1>2. Queues!Register(p)  BY <1>1, RegisterQueue
<1>3. QED BY <1>2 DEF QStep, Queues!Next

LEMMA KeepsRefines == ASSUME NInv, UNCHANGED <<inUse, pid, ring>> PROVE QStep
BY RingKept, QueuesKept DEF QStep, NInv

LEMMA PublishRefines ==
    ASSUME NInv, NEW T \in SUBSET inUse, NEW id \in Notifs, NEW f, Publish(T, id, f)
    PROVE  QStep
<1> DEFINE W == {n \in Visited(T, id, f) : Stores(n, id, f)}
<1>1. W \in SUBSET inUse /\ \A n \in W : nbPendingNotifications[n] < RingSize
    BY DEF Visited, Stores, HasRoom
<1>2. CASE Store(W, id)
  <2>1. /\ Queues!Publish(id, {pid[n] : n \in W})
        /\ {pid[n] : n \in W} \subseteq Registered
    BY <1>1, <1>2, PublishQueue
  <2>2. QED BY <2>1 DEF QStep, Queues!Next, Registered
<1>3. CASE Panic
  <2>1. UNCHANGED <<inUse, pid, ring>>  BY <1>3 DEF Panic
  <2>2. QED BY <2>1, KeepsRefines
<1>4. QED BY <1>2, <1>3 DEF Publish

LEMMA WaitRefines == ASSUME NInv, NEW n \in Nodes, WaitSemaphore(n) PROVE QStep
<1>1. UNCHANGED <<inUse, pid, nbPendingNotifications, receivedNotificationIndex,
                  pendingNotifications>>
  BY DEF WaitSemaphore
<1>2. \A m : Ring(m)' = Ring(m)  BY <1>1 DEF Ring, Slot
<1>3. QED BY <1>1, <1>2, QueuesKept DEF QStep, NInv

LEMMA ReceiveRefines == ASSUME NInv, NEW n \in Nodes, ReceiveNotification(n) PROVE QStep
<1>1. /\ UNCHANGED <<inUse, pid, pendingNotifications>> /\ n \in inUse
  BY DEF ReceiveNotification, Listening
<1>2. UniquePids /\ UniquePids' /\ pid[n] \in Pids
  BY <1>1 DEF NInv, UniquePids
<1>3. CASE nbPendingNotifications[n] = 0
  <2>1. UNCHANGED <<nbPendingNotifications, receivedNotificationIndex>>
    BY <1>3 DEF ReceiveNotification
  <2>2. \A m : Ring(m)' = Ring(m)  BY <1>1, <2>1 DEF Ring, Slot
  <2>3. QED BY <1>1, <1>2, <2>2, QueuesKept DEF QStep
<1>4. CASE nbPendingNotifications[n] # 0
  <2>1. /\ nbPendingNotifications[n] > 0
        /\ nbPendingNotifications'[n] = nbPendingNotifications[n] - 1
        /\ receivedNotificationIndex'[n] = (receivedNotificationIndex[n] + 1) % RingSize
        /\ \A m \in Nodes : m # n =>
              /\ nbPendingNotifications'[m] = nbPendingNotifications[m]
              /\ receivedNotificationIndex'[m] = receivedNotificationIndex[m]
    BY <1>4, RingSizePos DEF ReceiveNotification, NInv, NTypeOK
  <2>2. Ring(n)' = Tail(Ring(n)) /\ Ring(n) # <<>>
    BY <1>1, <2>1, ReceivedRing
  <2>3. ASSUME NEW m \in inUse, m # n PROVE Ring(m)' = Ring(m)
    <3>1. m \in Nodes  BY DEF NInv, NTypeOK
    <3>2. QED BY <1>1, <2>1, <2>3, <3>1 DEF Ring, Slot
  <2>4. PICK p \in Pids : p = pid[n]  BY <1>2
  <2>5. Registered' = Registered /\ p \in Registered
    BY <1>1, <2>4 DEF Registered
  <2>6. QueueOf(p) # <<>> /\ QueueOf(p)' = Tail(QueueOf(p))
    <3>1. Belongs(n, p) /\ Belongs(n, p)'  BY <1>1, <2>4 DEF Belongs
    <3>2. QueueOf(p) = Ring(n) /\ QueueOf(p)' = Ring(n)'
      BY <1>2, <3>1, QueueOfNode, QueueOfNodeNext
    <3>3. QED BY <2>2, <3>2
  <2>7. ASSUME NEW q \in Pids, q # p PROVE QueueOf(q)' = QueueOf(q)
    <3>1. \A m : Belongs(m, q)' <=> Belongs(m, q)  BY <1>1 DEF Belongs
    <3>2. \A m : Belongs(m, q) => Ring(m)' = Ring(m)
      BY <2>3, <2>4, <2>7 DEF Belongs
    <3>3. QED BY <1>2, <3>1, <3>2, QueueKept
  <2>8. AllQueues' = [AllQueues EXCEPT ![p] = Tail(@)] /\ AllQueues[p] # <<>>
    BY <2>6, <2>7 DEF AllQueues
  <2>9. Queues!Receive(p)
    BY <2>5, <2>8 DEF Queues!Receive, Registered, AllQueues
  <2>10. QED BY <2>9 DEF QStep, Queues!Next
<1>5. QED BY <1>3, <1>4

LEMMA QueuesNext == NInv /\ NInv' /\ NNext => QStep
<1> SUFFICES ASSUME NInv, NInv', NNext PROVE QStep
  OBVIOUS
<1>1. ASSUME NEW r, Reply(r) PROVE QStep
  BY <1>1, KeepsRefines DEF Reply
<1>2. \A id : Subscribers(id) \in SUBSET inUse /\ Listening \in SUBSET inUse
  BY DEF Subscribers, Listening
<1>3. ASSUME NEW p \in Pids, RegisterProcess(p) PROVE QStep
  BY <1>1, <1>3, RegisterRefines DEF RegisterProcess
<1>4. ASSUME NEW p \in Pids, EnableNotification(p) PROVE QStep
  <2>1. CASE \E n \in findProcessData(p) :
                /\ notificationEnabled' = [notificationEnabled EXCEPT ![n] = TRUE]
                /\ res' = "ok"
                /\ UNCHANGED <<inUse, newer, pid, subscribedNotifications, ring, woken, panicked>>
    BY <2>1, KeepsRefines
  <2>2. QED BY <1>1, <1>4, <2>1, RegisterRefines DEF EnableNotification
<1>5. ASSUME NEW p \in Pids, UnregisterProcess(p) PROVE QStep
  <2>1. CASE \E n \in findProcessData(p) : inUse' = inUse \ {n} /\ UNCHANGED <<pid, ring>>
    BY <2>1, UnregisterQueue DEF QStep, Queues!Next
  <2>2. CASE Reply("notFound")  BY <1>1, <2>2
  <2>3. QED BY <1>5, <2>1, <2>2 DEF UnregisterProcess
<1>6. ASSUME NEW p \in Pids, NEW id \in Notifs, Subscribe(p, id) \/ Unsubscribe(p, id)
      PROVE  QStep
  <2>1. \/ \E r : Reply(r)
        \/ \E n, S : SetSubscriptions(n, S)
    BY <1>6 DEF Subscribe, Unsubscribe
  <2>2. ASSUME NEW n, NEW S, SetSubscriptions(n, S) PROVE QStep
    BY <2>2, KeepsRefines DEF SetSubscriptions
  <2>3. QED BY <1>1, <2>1, <2>2
<1>7. ASSUME NEW p \in Pids, NEW id \in Notifs, PublishToProcess(p, id) PROVE QStep
  <2>1. CASE \E n \in Enabled(p) : Publish({n}, id, NoFlags)
    <3>1. PICK n \in Enabled(p) : Publish({n}, id, NoFlags)  BY <2>1
    <3>2. {n} \in SUBSET inUse  BY <3>1 DEF Enabled, findProcessData
    <3>3. QED BY <3>1, <3>2, PublishRefines
  <2>2. QED BY <1>1, <1>7, <2>1 DEF PublishToProcess
<1>8. ASSUME NEW id \in Notifs, NEW f \in Flags,
             PublishToSubscriber(id, f) \/ PublishAndGetSubscriber(id) \/ PublishToAll(id)
      PROVE  QStep
  BY <1>2, <1>8, PublishRefines
     DEF PublishToSubscriber, PublishAndGetSubscriber, PublishToAll
<1>9. NoFlags \in Flags  BY DEF Flags, NoFlags
<1>10. QED
  BY <1>3, <1>4, <1>5, <1>6, <1>7, <1>8, <1>9, WaitRefines, ReceiveRefines
     DEF NNext, NotificationCommand

LEMMA QueuesInit == NInit => Queues!Init
<1> SUFFICES ASSUME NInit PROVE Queues!Init
  OBVIOUS
<1>1. Registered = {} /\ AllQueues = [p \in Pids |-> <<>>]
  BY QueueOfNone DEF NInit, Registered, AllQueues
<1>2. QED BY <1>1 DEF Queues!Init, Registered, AllQueues

(* The ring buffers, cursors and nodes that processes.c and notifications.c *)
(* keep behave as one bounded queue per registered process: what is         *)
(* published is received once and in order, and a node that was freed       *)
(* leaves nothing behind for the process that gets it next.                 *)
THEOREM RingsImplementQueues == NSpec => ImplementsQueues
<1>1. NInit => Queues!Init  BY QueuesInit
<1>2. NInv /\ NInv' /\ [NNext]_nvars => [Queues!Next]_(Queues!vars)
  <2> SUFFICES ASSUME NInv, NInv', [NNext]_nvars PROVE [Queues!Next]_(Queues!vars)
    OBVIOUS
  <2>1. QStep
    <3>1. CASE NNext  BY <3>1, QueuesNext
    <3>2. CASE UNCHANGED nvars
      <4>1. UNCHANGED <<inUse, pid, ring>>  BY <3>2 DEF nvars
      <4>2. QED BY <4>1, KeepsRefines
    <3>3. QED BY <3>1, <3>2
  <2>2. QED BY <2>1 DEF QStep, Queues!vars, Registered, AllQueues
<1>3. QED BY <1>1, <1>2, NotificationInvariant, PTL DEF NSpec, ImplementsQueues, Queues!Spec

-----------------------------------------------------------------------------
(* A publication that answers "ok" and may not drop: every target has the   *)
(* id pending, because it had already or because it is stored now.          *)
LEMMA NoneSkipped ==
    ASSUME NInv, NInv', NEW id \in Notifs, NEW f \in Flags, PublishToSubscriber(id, f),
           res' = "ok", ~f.dropIfFull, NEW n \in Subscribers(id)
    PROVE  id \in Pending(n)'
<1> DEFINE T == Subscribers(id)
           W == {m \in Visited(T, id, f) : Stores(m, id, f)}
<1>1. n \in inUse /\ n \in Nodes  BY DEF Subscribers, Listening, NInv, NTypeOK
<1>2. W \in SUBSET inUse /\ \A m \in W : nbPendingNotifications[m] < RingSize
  BY DEF Visited, Stores, HasRoom, Subscribers, Listening
<1>3. ~ \E m \in W : semaphore[m] >= RingSize
  <2>1. \A m \in W : semaphore[m] < RingSize /\ semaphore[m] \in 0 .. RingSize
    BY <1>2, RingSizePos DEF NInv, NTypeOK, SemaphoreMatchesPending
  <2>2. QED BY <2>1, RingSizePos
<1>4. Store(W, id) /\ \A m \in T : Accepts(m, id, f)
  BY <1>3 DEF PublishToSubscriber, Publish
<1>5. n \in Visited(T, id, f)  BY <1>4 DEF Visited
<1>6. AlreadyPending(n, id, f) \/ HasRoom(n)  BY <1>4 DEF Accepts
<1>7. CASE AlreadyPending(n, id, f)
  <2>1. n \notin W  BY <1>7 DEF Stores
  <2>2. /\ nbPendingNotifications'[n] = nbPendingNotifications[n]
        /\ receivedNotificationIndex'[n] = receivedNotificationIndex[n]
        /\ pendingNotifications'[n] = pendingNotifications[n]
    BY <1>1, <1>4, <2>1 DEF Store
  <2>3. id \in Pending(n)  BY <1>7 DEF AlreadyPending, Pending
  <2>4. Pending(n)' = Pending(n)  BY <2>2 DEF Pending, Slot
  <2>5. QED BY <2>3, <2>4
<1>8. CASE ~AlreadyPending(n, id, f)
  <2>1. n \in W  BY <1>5, <1>6, <1>8 DEF Stores
  <2>2. Ring(n)' = Append(Ring(n), id)  BY <1>2, <1>4, <2>1, StoredRing
  <2>3. /\ nbPendingNotifications'[n] = nbPendingNotifications[n] + 1
        /\ nbPendingNotifications[n] \in Nat
    BY <1>1, <1>4, <2>1, RingSizePos DEF Store, NInv, NTypeOK
  <2>4. Append(Ring(n), id)[nbPendingNotifications[n] + 1] = id
    <3>1. Ring(n) \in Seq(Stored) /\ Len(Ring(n)) = nbPendingNotifications[n] /\ id \in Stored
      BY <1>1, RingIsSeq DEF Stored
    <3>2. Append(Ring(n), id)[Len(Ring(n)) + 1] = id
      BY <3>1, AppendProperties
    <3>3. QED BY <3>1, <3>2
  <2>5. Ring(n)'[nbPendingNotifications[n] + 1] = id  BY <2>2, <2>4
  <2>6. \E i \in 0 .. nbPendingNotifications'[n] - 1 :
            pendingNotifications'[n][Slot(n, i)'] = id
    <3>1. PICK k \in Nat : k = nbPendingNotifications[n]  BY <2>3
    <3>2. k + 1 \in 1 .. nbPendingNotifications'[n] /\ (k + 1) - 1 = k  BY <2>3, <3>1
    <3>3. Ring(n)'[k + 1] = pendingNotifications'[n][Slot(n, k)']
      BY <3>2 DEF Ring, Slot
    <3>4. k \in 0 .. nbPendingNotifications'[n] - 1  BY <2>3, <3>1
    <3>5. QED BY <2>5, <3>1, <3>3, <3>4
  <2>7. QED BY <2>6 DEF Pending
<1>9. QED BY <1>7, <1>8

(* PublishToSubscriber never skips a subscriber in silence                  *)
(* (notifications.c:144-186): after "ok" without the drop flag each has the *)
(* id pending.                                                              *)
THEOREM NobodyIsSkipped == NSpec => NoSilentSkip
<1> DEFINE Told == \A id \in Notifs, f \in Flags :
                     PublishToSubscriber(id, f) /\ res' = "ok" /\ ~f.dropIfFull
                        => \A n \in Subscribers(id) : id \in Pending(n)'
<1>1. NInv /\ NInv' /\ [NNext]_nvars => [Told]_nvars
  BY NoneSkipped
<1>2. QED BY <1>1, NotificationInvariant, PTL DEF NSpec, NoSilentSkip
=============================================================================
