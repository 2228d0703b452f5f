--------------------------------- MODULE SM ---------------------------------
(***************************************************************************)
(* sm as a whole: the command handlers of notifications.c and processes.c  *)
(* called from the sessions of main.c.  A srv: command acts for the pid    *)
(* its session gave to RegisterClient; a srv:pm command names a process.   *)
(* UnregisterProcess acts on both halves: it frees the node of the process *)
(* table and purges the service table, unless the process has no node.     *)
(***************************************************************************)
EXTENDS Naturals, FiniteSets

CONSTANTS Pids, Section0, Nodes, Notifs, RingSize, MaxSubs, NoPid,
          Sessions, Names, Garbled, Ports, NoPort, NoSession, MaxSessions,
          MaxServices, SrvMax, SrvPmMax, SemMax

VARIABLES inUse, newer, pid, notificationEnabled, nbPendingNotifications,
          receivedNotificationIndex, pendingNotificationIndex,
          pendingNotifications, subscribedNotifications, semaphore, woken, res,
          notifPanic,
          list, before, sessionPid, isSrvPm, replay, busyPort, services, word4,
          wakeCount, replyTarget, answer, servicePanic, closed, asked, port, alive

N == INSTANCE SMNotifications WITH panicked <- notifPanic
S == INSTANCE SMServices WITH panicked <- servicePanic

ASSUME SMAssumption == N!NotifAssumption /\ S!ServicesAssumption

notifVars == <<inUse, newer, pid, notificationEnabled, nbPendingNotifications,
               receivedNotificationIndex, pendingNotificationIndex,
               pendingNotifications, subscribedNotifications, semaphore, woken, res,
               notifPanic>>
serviceVars == <<list, before, sessionPid, isSrvPm, replay, busyPort, services, word4,
                 wakeCount, replyTarget, answer, servicePanic, closed, asked, port, alive>>
vars == <<notifVars, serviceVars>>

Init == N!NInit /\ S!SInit

(* RegisterClient is the first command of every client library: a session   *)
(* without a pid sends nothing else.                                        *)
SrvCommand(s) ==
    LET p == sessionPid[s]
    IN  /\ S!OtherCommand(s)
        /\ ~isSrvPm[s] /\ p \in Pids
        /\ \/ N!EnableNotification(p)
           \/ \E id \in Notifs : \/ N!Subscribe(p, id) \/ N!Unsubscribe(p, id)
                                 \/ N!PublishAndGetSubscriber(id)
           \/ \E id \in Notifs, f \in N!Flags : N!PublishToSubscriber(id, f)
           \/ \E n \in Nodes : pid[n] = p /\ N!ReceiveNotification(n)

SrvPmCommand(s) ==
    /\ S!OtherCommand(s)
    /\ isSrvPm[s]
    /\ \/ \E p \in Pids : alive[p] = "alive" /\ N!RegisterProcess(p)
       \/ \E p \in Pids, id \in Notifs : N!PublishToProcess(p, id)
       \/ \E id \in Notifs : N!PublishToAll(id)

(* The mutant purges the service table only.                                *)
UnregisterServicesOnly(s, p) == S!PurgeServices(s, p) /\ UNCHANGED notifVars
UnregisterProcess(s, p) ==
    /\ N!UnregisterProcess(p)
    /\ IF N!findProcessData(p) # {}
       THEN S!PurgeServices(s, p)
       ELSE isSrvPm[s] /\ alive[p] = "dead" /\ S!OtherCommand(s)

Next ==
    \/ \E s \in Sessions : SrvCommand(s) \/ SrvPmCommand(s)
    \/ \E s \in Sessions, p \in Pids : UnregisterProcess(s, p)
    \/ /\ ~notifPanic
       /\ \/ \E s \in Sessions : S!ServiceCommand(s)
          \/ S!LoopEvent
          \/ S!Environment
       /\ UNCHANGED notifVars
    \/ /\ ~servicePanic
       /\ \E n \in Nodes : pid[n] \in Pids /\ alive[pid[n]] = "alive" /\ N!WaitSemaphore(n)
       /\ UNCHANGED serviceVars

Spec == Init /\ [][Next]_vars
-----------------------------------------------------------------------------
(* Once pm's UnregisterProcess has been answered with success nothing of    *)
(* the process is left: no service or port, no node, so no subscription and *)
(* no pending notification.                                                 *)
NothingOfUnregistered ==
    \A p \in Pids : alive[p] = "unregistered" =>
        /\ \A e \in services : e.pid # p
        /\ N!findProcessData(p) = {}
=============================================================================
