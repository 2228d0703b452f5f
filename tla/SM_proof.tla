------------------------------ MODULE SM_proof ------------------------------
(***************************************************************************)
(* sm as a whole is each of its halves: every step of SM is a step of      *)
(* SMNotifications or leaves it alone, and the same of SMServices. What is *)
(* proved of a half is so true of the whole; and of a process that pm      *)
(* unregistered with success nothing is left in either.                    *)
(***************************************************************************)
EXTENDS SM, TLAPS

NP == INSTANCE SMNotifications_proof WITH panicked <- notifPanic
SP == INSTANCE SMServices_proof WITH panicked <- servicePanic

-----------------------------------------------------------------------------
(* The theorems about the halves come with names of their own for what they *)
(* are about; these are the same formulas.                                  *)
LEMMA NotifAssumed == NP!NotifAssumption
BY SMAssumption DEF N!NotifAssumption, NP!NotifAssumption, N!IsFiniteSet, NP!IsFiniteSet,
                    N!Cardinality, NP!Cardinality

LEMMA ServicesAssumed == SP!ServicesAssumption
BY SMAssumption DEF S!ServicesAssumption, SP!ServicesAssumption, S!IsFiniteSet, SP!IsFiniteSet

LEMMA SameNotifInit == N!NInit <=> NP!NInit
BY DEF N!NInit, NP!NInit

LEMMA SameServicesInit == S!SInit <=> SP!SInit
BY DEF S!SInit, SP!SInit, S!NoObject, SP!NoObject, S!NoCommand, SP!NoCommand,
       S!NoRequest, SP!NoRequest

LEMMA SameNotifNext == [N!NNext]_(N!nvars) <=> [NP!NNext]_(NP!nvars)
BY DEF N!ring, NP!ring, N!nvars, NP!nvars, N!Flags, NP!Flags, N!NoFlags, NP!NoFlags,
       N!findProcessData, NP!findProcessData, N!ClearRing, NP!ClearRing,
       N!doRegisterProcess, NP!doRegisterProcess, N!Panic, NP!Panic, N!Reply,
       NP!Reply, N!AllocateProcess, NP!AllocateProcess, N!RegisterProcess,
       NP!RegisterProcess, N!UnregisterProcess, NP!UnregisterProcess,
       N!EnableNotification, NP!EnableNotification, N!Enabled, NP!Enabled,
       N!SetSubscriptions, NP!SetSubscriptions, N!Subscribe, NP!Subscribe,
       N!Unsubscribe, NP!Unsubscribe, N!Slot, NP!Slot, N!AlreadyPending,
       NP!AlreadyPending, N!HasRoom, NP!HasRoom, N!Stores, NP!Stores, N!Accepts,
       NP!Accepts, N!Signal, NP!Signal, N!Store, NP!Store, N!Visited, NP!Visited,
       N!Publish, NP!Publish, N!Listening, NP!Listening, N!Subscribers,
       NP!Subscribers, N!PublishToSubscriber, NP!PublishToSubscriber,
       N!PublishAndGetSubscriber, NP!PublishAndGetSubscriber, N!PublishToAll,
       NP!PublishToAll, N!PublishToProcess, NP!PublishToProcess, N!WaitSemaphore,
       NP!WaitSemaphore, N!ReceiveNotification, NP!ReceiveNotification,
       N!NotificationCommand, NP!NotificationCommand, N!NNext, NP!NNext,
       N!Cardinality, NP!Cardinality

LEMMA SameServicesNext == [S!SNext]_(S!svars) <=> [SP!SNext]_(SP!svars)
BY DEF S!lists, SP!lists, S!env, SP!env, S!svars, SP!svars, S!Waiting, SP!Waiting,
       S!Words, SP!Words, S!Commands, SP!Commands, S!NoCommand, SP!NoCommand,
       S!Requests, SP!Requests, S!NoRequest, SP!NoRequest, S!NoObject, SP!NoObject,
       S!On, SP!On, S!MoveToBack, SP!MoveToBack, S!Detach, SP!Detach, S!IsFirst,
       SP!IsFirst, S!Find, SP!Find, S!Full, SP!Full, S!Answer, SP!Answer,
       S!NoAnswer, SP!NoAnswer, S!Panic, SP!Panic, S!HandlesValid, SP!HandlesValid,
       S!ReplyFails, SP!ReplyFails, S!Turn, SP!Turn, S!Matching, SP!Matching,
       S!Units, SP!Units, S!AddEntry, SP!AddEntry, S!Idle, SP!Idle,
       S!RegisterClient, SP!RegisterClient, S!Refuse, SP!Refuse, S!NameTaken,
       SP!NameTaken, S!TableFull, SP!TableFull, S!MayRegister, SP!MayRegister,
       S!Fresh, SP!Fresh, S!RegisterService, SP!RegisterService, S!RegisterPort,
       SP!RegisterPort, S!IsOwner, SP!IsOwner, S!UnregisterServiceOrPort,
       SP!UnregisterServiceOrPort, S!Outcome, SP!Outcome, S!PortOf, SP!PortOf,
       S!PutOff, SP!PutOff, S!Complete, SP!Complete, S!Serve, SP!Serve, S!Get,
       SP!Get, S!IsServiceRegistered, SP!IsServiceRegistered, S!OtherCommand,
       SP!OtherCommand, S!Remaining, SP!Remaining, S!PurgeServices,
       SP!PurgeServices, S!Accept, SP!Accept, S!SessionClosed, SP!SessionClosed,
       S!PortClosed, SP!PortClosed, S!WakeUp, SP!WakeUp, S!PortReady, SP!PortReady,
       S!InvalidHandle, SP!InvalidHandle, S!EnvUnchanged, SP!EnvUnchanged,
       S!ClientCloses, SP!ClientCloses, S!ServerClosesPort, SP!ServerClosesPort,
       S!ServiceSessionEnds, SP!ServiceSessionEnds, S!ProcessDies, SP!ProcessDies,
       S!ServiceCommand, SP!ServiceCommand, S!LoopEvent, SP!LoopEvent,
       S!Environment, SP!Environment, S!SNext, SP!SNext, S!Cardinality,
       SP!Cardinality

-----------------------------------------------------------------------------
(* A step of sm is a step of the process table and the notifications, or    *)
(* they stay as they are.                                                   *)
LEMMA NotifStep == [Next]_vars => [N!NNext]_(N!nvars)
<1> SUFFICES ASSUME [Next]_vars, ~UNCHANGED N!nvars PROVE N!NNext
  OBVIOUS
<1>1. ~UNCHANGED notifVars
  BY DEF notifVars, N!nvars, N!ring
<1>2. ASSUME NEW s \in Sessions, SrvCommand(s) PROVE N!NNext
  BY <1>2 DEF SrvCommand, N!NNext, N!NotificationCommand
<1>3. ASSUME NEW s \in Sessions, SrvPmCommand(s) PROVE N!NNext
  BY <1>3 DEF SrvPmCommand, N!NNext, N!NotificationCommand
<1>4. ASSUME NEW s \in Sessions, NEW p \in Pids, UnregisterProcess(s, p) PROVE N!NNext
  BY <1>4 DEF UnregisterProcess, N!NNext
<1>5. ASSUME NEW n \in Nodes, N!WaitSemaphore(n) PROVE N!NNext
  BY <1>5 DEF N!NNext
<1>6. QED
  BY <1>1, <1>2, <1>3, <1>4, <1>5 DEF Next, vars

(* A step of sm is a step of the sessions and services, or they stay as     *)
(* they are: a command of the other half is answered in a session.          *)
LEMMA ServicesStep == [Next]_vars => [S!SNext]_(S!svars)
<1> SUFFICES ASSUME [Next]_vars, ~UNCHANGED S!svars PROVE S!SNext
  OBVIOUS
<1>1. ~UNCHANGED serviceVars
  BY DEF serviceVars, S!svars, S!lists, S!env
<1>2. ASSUME NEW s \in Sessions, SrvCommand(s) \/ SrvPmCommand(s) PROVE S!SNext
  BY <1>2 DEF SrvCommand, SrvPmCommand, S!SNext
<1>3. ASSUME NEW s \in Sessions, NEW p \in Pids, UnregisterProcess(s, p) PROVE S!SNext
  BY <1>3 DEF UnregisterProcess, S!SNext
<1>4. ASSUME (\E s \in Sessions : S!ServiceCommand(s)) \/ S!LoopEvent \/ S!Environment PROVE S!SNext
  BY <1>4 DEF S!SNext
<1>5. QED
  BY <1>1, <1>2, <1>3, <1>4 DEF Next, vars

(* The commands of notifications.c and processes.c, called from main.c, are *)
(* those of the process table alone.                                        *)
THEOREM ImplementsNotifications == Spec => N!NSpec
<1>1. Init => N!NInit
  BY DEF Init
<1> QED BY <1>1, NotifStep, PTL DEF Spec, N!NSpec

(* The main loop of sm is that of the sessions and services alone.          *)
THEOREM ImplementsServices == Spec => S!SSpec
<1>1. Init => S!SInit
  BY DEF Init
<1> QED BY <1>1, ServicesStep, PTL DEF Spec, S!SSpec

(* Both halves keep their inductive invariants in the whole.                *)
LEMMA HalvesHold == Spec => [](NP!NInv /\ SP!SInv)
<1>1. Init => NP!NInit /\ SP!SInit
  BY SameNotifInit, SameServicesInit DEF Init
<1>2. [Next]_vars => [NP!NNext]_(NP!nvars) /\ [SP!SNext]_(SP!svars)
  BY NotifStep, ServicesStep, SameNotifNext, SameServicesNext
<1>3. NP!NSpec => []NP!NInv
  BY NP!NotificationInvariant, NotifAssumed
<1>4. SP!SSpec => []SP!SInv
  BY SP!ServicesCorrect, ServicesAssumed
<1> QED BY <1>1, <1>2, <1>3, <1>4, PTL DEF Spec, NP!NSpec, SP!SSpec
-----------------------------------------------------------------------------
(* A session that is open and gave its pid belongs to a living process.     *)
OpenMeansAlive ==
    \A s \in Sessions : list[s] # "free" /\ ~closed[s] /\ sessionPid[s] \in Pids
        => alive[sessionPid[s]] = "alive"
LinkInv == NothingOfUnregistered /\ OpenMeansAlive

(* A command registers the process it names and no other; all but           *)
(* RegisterProcess and EnableNotification register none.                    *)
LEMMA Registers ==
    ASSUME NP!NInv, NEW p \in Pids, N!RegisterProcess(p) \/ N!EnableNotification(p), NEW q \in Pids, q # p,
           N!findProcessData(q) = {}
    PROVE  N!findProcessData(q)' = {}
<1>1. ASSUME NEW enabled, N!AllocateProcess(p, enabled) PROVE N!findProcessData(q)' = {}
  <2>1. CASE N!Panic
    BY <2>1 DEF N!Panic, N!findProcessData
  <2>2. ASSUME NEW n \in Nodes \ inUse, N!doRegisterProcess(n, p, enabled)
        PROVE  N!findProcessData(q)' = {}
    <3>1. inUse' = inUse \cup {n} /\ pid' = [pid EXCEPT ![n] = p]
      BY <2>2 DEF N!doRegisterProcess
    <3>2. ASSUME NEW m \in inUse', pid'[m] = q PROVE m \in N!findProcessData(q)
      BY <3>1, <3>2 DEF N!findProcessData, NP!NInv, NP!NTypeOK
    <3> QED BY <3>2 DEF N!findProcessData
  <2> QED BY <1>1, <2>1, <2>2 DEF N!AllocateProcess
<1>2. ASSUME UNCHANGED <<inUse, pid>> PROVE N!findProcessData(q)' = {}
  BY <1>2 DEF N!findProcessData
<1> QED BY <1>1, <1>2 DEF N!RegisterProcess, N!EnableNotification, N!Reply

LEMMA OthersRegisterNone ==
    ASSUME \/ \E p \in Pids, id \in Notifs :
                 N!Subscribe(p, id) \/ N!Unsubscribe(p, id) \/ N!PublishToProcess(p, id)
           \/ \E id \in Notifs : N!PublishAndGetSubscriber(id) \/ N!PublishToAll(id)
           \/ \E id \in Notifs, f \in N!Flags : N!PublishToSubscriber(id, f)
           \/ \E n \in Nodes : N!ReceiveNotification(n) \/ N!WaitSemaphore(n)
    PROVE  UNCHANGED <<inUse, pid>>
<1>1. ASSUME NEW targets, NEW id, NEW f, N!Publish(targets, id, f) PROVE UNCHANGED <<inUse, pid>>
  BY <1>1 DEF N!Publish, N!Panic, N!Store
<1> QED BY <1>1 DEF N!Subscribe, N!Unsubscribe, N!Reply, N!SetSubscriptions, N!PublishAndGetSubscriber,
       N!PublishToSubscriber, N!ReceiveNotification, N!PublishToProcess, N!PublishToAll, N!WaitSemaphore

(* UnregisterProcess takes the one node of the process.                     *)
LEMMA Unregisters ==
    ASSUME NP!NInv, NEW p \in Pids, N!UnregisterProcess(p)
    PROVE  /\ N!findProcessData(p)' = {}
           /\ \A q \in Pids : N!findProcessData(q) = {} => N!findProcessData(q)' = {}
<1>1. CASE UNCHANGED <<inUse, pid>> /\ N!findProcessData(p) = {}
  BY <1>1 DEF N!findProcessData
<1>2. ASSUME NEW n \in N!findProcessData(p), inUse' = inUse \ {n}, pid' = pid
      PROVE  N!findProcessData(p)' = {} /\ \A q \in Pids : N!findProcessData(q) = {} => N!findProcessData(q)' = {}
  <2>1. \A m \in inUse : pid[m] = pid[n] => m = n
    BY <1>2 DEF NP!NInv, NP!UniquePids, N!findProcessData
  <2> QED BY <1>2, <2>1 DEF N!findProcessData
<1> QED BY <1>1, <1>2 DEF N!UnregisterProcess, N!Reply

-----------------------------------------------------------------------------
(* What a step of the sessions and services does to the services and to the *)
(* processes: it adds a service for an open session only, and unregisters   *)
(* nobody.                                                                  *)
Adds == /\ \A e \in services' \ services :
              \E s \in Sessions : list[s] # "free" /\ ~closed[s] /\ e.pid = sessionPid[s]
        /\ \A p \in Pids : alive'[p] = "unregistered" => alive[p] = "unregistered"

(* A session comes off the free list with no pid, and is open only if it    *)
(* was open, with the pid it had, of a process that still lives.            *)
StaysOpen ==
    \A s \in Sessions : list'[s] # "free" /\ ~closed'[s] /\ sessionPid'[s] \in Pids =>
        \/ /\ list[s] # "free" /\ ~closed[s] /\ sessionPid[s] = sessionPid'[s]
           /\ alive[sessionPid[s]] = "alive" => alive'[sessionPid[s]] = "alive"
        \/ alive'[sessionPid'[s]] = "alive"

LEMMA AddEntryAdds ==
    ASSUME SP!SInv, NEW s \in Sessions, list[s] = "inUse", ~closed[s], NEW named, NEW name, NEW p,
           S!AddEntry(s, named, name, p)
    PROVE  Adds /\ StaysOpen
<1>1. CASE S!Panic
  BY <1>1 DEF S!Panic, S!lists, Adds, StaysOpen
<1>2. CASE ~S!Panic
  <2>1. /\ services' = services \cup
             {[named |-> named, name |-> name, pid |-> sessionPid[s], port |-> p]}
        /\ S!MoveToBack(S!Matching(named, name), "toWake")
        /\ UNCHANGED <<sessionPid, closed, alive>>
    BY <1>2 DEF S!AddEntry
  <2>2. \A t \in Sessions : list'[t] # "free" => list[t] # "free"
    BY <2>1 DEF S!MoveToBack, S!Matching, S!On
  <2> QED BY <2>1, <2>2 DEF Adds, StaysOpen
<1> QED BY <1>1, <1>2

LEMMA ServeAdds ==
    ASSUME SP!SInv, NEW s \in Sessions, list[s] # "free", NEW named, NEW name, NEW flags,
           S!Serve(s, named, name, flags)
    PROVE  Adds /\ StaysOpen
<1>1. /\ UNCHANGED <<sessionPid, services, closed, alive>>
      /\ S!Detach(s, "inUse") \/ \E dst : S!MoveToBack({s}, dst)
  <2>1. UNCHANGED <<sessionPid, services, closed, alive>>
    BY DEF S!Serve
  <2>2. ASSUME NEW dst, S!PutOff(s, dst, named, name) PROVE S!MoveToBack({s}, dst)
    BY <2>2 DEF S!PutOff
  <2>3. ASSUME NEW r, S!Complete(s, named, name, r) PROVE S!Detach(s, "inUse")
    BY <2>3, Zenon DEF S!Complete
  <2>4. \E r : S!PutOff(s, r, named, name) \/ S!Complete(s, named, name, r)
    BY Zenon DEF S!Serve
  <2> QED BY <2>1, <2>2, <2>3, <2>4
<1>2. \A t \in Sessions : list'[t] # "free" => list[t] # "free"
  BY <1>1 DEF S!MoveToBack, S!Detach, SP!SInv, SP!Core, SP!CoreTypes
<1> QED BY <1>1, <1>2 DEF Adds, StaysOpen

LEMMA CommandAdds ==
    ASSUME SP!SInv, NEW s \in Sessions, S!ServiceCommand(s) PROVE Adds /\ StaysOpen
<1>1. list[s] = "inUse" /\ ~closed[s]
  BY DEF S!ServiceCommand, S!RegisterClient, S!RegisterService, S!RegisterPort,
         S!IsServiceRegistered, S!UnregisterServiceOrPort, S!Get, S!Idle
<1>2. ASSUME NEW p \in Pids, S!RegisterClient(s, p) PROVE Adds /\ StaysOpen
  <2>1. sessionPid' = [sessionPid EXCEPT ![s] = p] /\ alive[p] = "alive"
        /\ UNCHANGED <<list, services, closed, alive>>
    BY <1>2 DEF S!RegisterClient, S!lists, S!env
  <2>2. sessionPid \in [Sessions -> Pids \cup {NoPid}]
    BY DEF SP!SInv, SP!Rest
  <2> QED BY <2>1, <2>2 DEF Adds, StaysOpen
<1>3. ASSUME UNCHANGED <<list, sessionPid, closed, alive>>, services' \in SUBSET services
      PROVE  Adds /\ StaysOpen
  BY <1>3 DEF Adds, StaysOpen
<1>4. ASSUME NEW r, NEW w, S!Refuse(s, r, w) PROVE Adds /\ StaysOpen
  BY <1>3, <1>4 DEF S!Refuse, S!lists, S!env
<1>5. ASSUME NEW name \in Names, NEW max \in MaxSessions, S!RegisterService(s, name, max)
      PROVE  Adds /\ StaysOpen
  BY <1>1, <1>4, <1>5, AddEntryAdds DEF S!RegisterService, S!NameTaken, S!TableFull
<1>6. ASSUME NEW name \in Names, S!RegisterPort(s, name) \/ S!IsServiceRegistered(s, name)
      PROVE  Adds /\ StaysOpen
  BY <1>1, <1>4, <1>6, AddEntryAdds DEF S!RegisterPort, S!IsServiceRegistered, S!NameTaken, S!TableFull
<1>7. ASSUME NEW named, NEW name, S!UnregisterServiceOrPort(s, named, name) PROVE Adds /\ StaysOpen
  BY <1>3, <1>4, <1>7 DEF S!UnregisterServiceOrPort, S!lists, S!env
<1>8. ASSUME NEW named, NEW name, NEW flags, S!Get(s, named, name, flags) PROVE Adds /\ StaysOpen
  BY <1>1, <1>8, ServeAdds DEF S!Get
<1> QED BY <1>2, <1>5, <1>6, <1>7, <1>8 DEF S!ServiceCommand

LEMMA LoopAdds == ASSUME SP!SInv, S!LoopEvent PROVE Adds /\ StaysOpen
<1>1. ASSUME S!Panic PROVE Adds /\ StaysOpen
  BY <1>1 DEF S!Panic, S!lists, Adds, StaysOpen
<1>2. ASSUME NEW pm \in BOOLEAN, S!Accept(pm) PROVE Adds /\ StaysOpen
  <2>1. ASSUME NEW s \in Sessions, list' = [list EXCEPT ![s] = "inUse"],
               sessionPid' = [sessionPid EXCEPT ![s] = NoPid], UNCHANGED <<services, closed, alive>>
        PROVE  Adds /\ StaysOpen
    <3>1. /\ sessionPid \in [Sessions -> Pids \cup {NoPid}] /\ NoPid \notin Pids
          /\ list \in [Sessions -> S!ListNames]
      BY ServicesAssumed DEF SP!SInv, SP!Rest, SP!ServicesAssumption, SP!Core, SP!CoreTypes,
                             S!ListNames, SP!ListNames
    <3> QED BY <2>1, <3>1 DEF Adds, StaysOpen
  <2> QED BY <1>1, <1>2, <2>1 DEF S!Accept, S!On
<1>3. ASSUME NEW s \in Sessions, S!SessionClosed(s) PROVE Adds /\ StaysOpen
  <2>1. /\ list' = [list EXCEPT ![s] = "free"] /\ closed' = [closed EXCEPT ![s] = FALSE]
        /\ sessionPid' = [sessionPid EXCEPT ![s] = NoPid] /\ UNCHANGED <<services, alive>>
    BY <1>3 DEF S!SessionClosed, S!Detach
  <2>2. list \in [Sessions -> S!ListNames]
    BY DEF SP!SInv, SP!Core, SP!CoreTypes, S!ListNames, SP!ListNames
  <2> QED BY <2>1, <2>2 DEF Adds, StaysOpen
<1>4. ASSUME NEW p \in Ports, S!PortClosed(p) PROVE Adds /\ StaysOpen
  <2>1. /\ S!MoveToBack({s \in S!On("waitPort") : busyPort[s] = p}, "waitRegister")
        /\ UNCHANGED <<sessionPid, services, closed, alive>>
    BY <1>4 DEF S!PortClosed, S!env
  <2>2. \A t \in Sessions : list'[t] # "free" => list[t] # "free"
    BY <2>1 DEF S!MoveToBack, S!On
  <2> QED BY <2>1, <2>2 DEF Adds, StaysOpen
<1>5. ASSUME NEW p \in Ports, S!PortReady(p) PROVE Adds /\ StaysOpen
  BY <1>5, ServeAdds DEF S!PortReady, S!IsFirst, S!On
<1>6. ASSUME S!WakeUp PROVE Adds /\ StaysOpen
  BY <1>1, <1>6, ServeAdds DEF S!WakeUp, S!IsFirst, S!On
<1> QED BY <1>1, <1>2, <1>3, <1>4, <1>5, <1>6 DEF S!LoopEvent, S!InvalidHandle

LEMMA EnvironmentAdds == ASSUME SP!SInv, S!Environment PROVE Adds /\ StaysOpen
<1>1. UNCHANGED <<list, sessionPid, services>>
  BY DEF S!Environment, S!ClientCloses, S!ServerClosesPort, S!ServiceSessionEnds, S!ProcessDies,
         S!EnvUnchanged, S!lists
<1>2. ASSUME NEW s \in Sessions, S!ClientCloses(s) PROVE Adds /\ StaysOpen
  <2>1. closed' = [closed EXCEPT ![s] = TRUE] /\ alive' = alive
    BY <1>2 DEF S!ClientCloses
  <2>2. closed \in [Sessions -> BOOLEAN]
    BY DEF SP!SInv, SP!Rest, SP!EnvTypes
  <2> QED BY <1>1, <2>1, <2>2 DEF Adds, StaysOpen
<1>3. ASSUME UNCHANGED <<closed, alive>> PROVE Adds /\ StaysOpen
  BY <1>1, <1>3 DEF Adds, StaysOpen
<1>4. ASSUME NEW p \in Pids, S!ProcessDies(p) PROVE Adds /\ StaysOpen
  <2>1. /\ alive' = [alive EXCEPT ![p] = "dead"]
        /\ \A s \in Sessions : closed'[s] <=> closed[s] \/ (list[s] # "free" /\ sessionPid[s] = p)
    BY <1>4 DEF S!ProcessDies
  <2>2. alive \in [Pids -> {"alive", "dead", "unregistered"}]
    BY DEF SP!SInv, SP!Rest, SP!EnvTypes
  <2> QED BY <1>1, <2>1, <2>2 DEF Adds, StaysOpen
<1> QED BY <1>2, <1>3, <1>4 DEF S!Environment, S!ServerClosesPort, S!ServiceSessionEnds

-----------------------------------------------------------------------------
(* The services and sessions move on and the process table does not change. *)
LEMMA LinkKept ==
    ASSUME LinkInv, Adds, StaysOpen, UNCHANGED <<inUse, pid>> PROVE LinkInv'
<1>1. \A p \in Pids : N!findProcessData(p)' = N!findProcessData(p)
  BY DEF N!findProcessData
<1>2. ASSUME NEW p \in Pids, alive'[p] = "unregistered", NEW e \in services' PROVE e.pid # p
  BY <1>2 DEF LinkInv, NothingOfUnregistered, OpenMeansAlive, Adds
<1>3. NothingOfUnregistered'
  BY <1>1, <1>2 DEF LinkInv, NothingOfUnregistered, Adds
<1>4. OpenMeansAlive'
  BY DEF LinkInv, OpenMeansAlive, StaysOpen
<1> QED BY <1>3, <1>4 DEF LinkInv

(* A command for the process table: it registers only a process that lives. *)
LEMMA NotifLink ==
    ASSUME LinkInv, UNCHANGED <<services, alive, list, closed, sessionPid>>,
           \A q \in Pids : alive[q] = "unregistered" /\ N!findProcessData(q) = {}
                             => N!findProcessData(q)' = {}
    PROVE  LinkInv'
BY DEF LinkInv, NothingOfUnregistered, OpenMeansAlive

LEMMA LinkInit == Init => LinkInv
BY DEF Init, S!SInit, LinkInv, NothingOfUnregistered, OpenMeansAlive

LEMMA LinkNext == NP!NInv /\ SP!SInv /\ LinkInv /\ [Next]_vars => LinkInv'
<1> SUFFICES ASSUME NP!NInv, SP!SInv, LinkInv, [Next]_vars PROVE LinkInv'
  OBVIOUS
<1>1. ASSUME NEW s \in Sessions, S!OtherCommand(s)
      PROVE  /\ UNCHANGED <<services, alive, list, closed, sessionPid>>
             /\ list[s] = "inUse" /\ ~closed[s]
  BY <1>1 DEF S!OtherCommand, S!Refuse, S!lists, S!env
<1>2. ASSUME UNCHANGED <<inUse, pid>>, NEW q PROVE N!findProcessData(q)' = N!findProcessData(q)
  BY <1>2 DEF N!findProcessData
<1>3. ASSUME NEW s \in Sessions, SrvCommand(s) PROVE LinkInv'
  <2>1. /\ S!OtherCommand(s) /\ sessionPid[s] \in Pids
    BY <1>3 DEF SrvCommand
  <2>2. alive[sessionPid[s]] = "alive"
    BY <2>1, <1>1 DEF LinkInv, OpenMeansAlive
  <2>3. N!EnableNotification(sessionPid[s]) \/ UNCHANGED <<inUse, pid>>
    <3>1. N!NoFlags \in N!Flags
      BY DEF N!NoFlags, N!Flags
    <3> QED BY <1>3, <2>1, <3>1, OthersRegisterNone DEF SrvCommand
  <2>4. \A q \in Pids : alive[q] = "unregistered" /\ N!findProcessData(q) = {}
                             => N!findProcessData(q)' = {}
    BY <2>1, <2>2, <2>3, <1>2, Registers
  <2> QED BY <2>1, <2>4, <1>1, NotifLink
<1>4. ASSUME NEW s \in Sessions, SrvPmCommand(s) PROVE LinkInv'
  <2>1. S!OtherCommand(s)
    BY <1>4 DEF SrvPmCommand
  <2>2. (\E p \in Pids : alive[p] = "alive" /\ N!RegisterProcess(p)) \/ UNCHANGED <<inUse, pid>>
    BY <1>4, OthersRegisterNone DEF SrvPmCommand
  <2>4. \A q \in Pids : alive[q] = "unregistered" /\ N!findProcessData(q) = {}
                             => N!findProcessData(q)' = {}
    BY <2>2, <1>2, Registers
  <2> QED BY <2>1, <2>4, <1>1, NotifLink
<1>5. ASSUME NEW s \in Sessions, NEW p \in Pids, UnregisterProcess(s, p) PROVE LinkInv'
  <2>1. N!UnregisterProcess(p)
    BY <1>5 DEF UnregisterProcess
  <2>2. /\ N!findProcessData(p)' = {}
        /\ \A q \in Pids : N!findProcessData(q) = {} => N!findProcessData(q)' = {}
    BY <2>1, Unregisters
  <2>3. CASE N!findProcessData(p) = {}
    BY <1>1, <1>5, <2>2, <2>3, NotifLink DEF UnregisterProcess
  <2>4. CASE N!findProcessData(p) # {}
    <3>1. /\ services' = {e \in services : e.pid # p}
          /\ alive' = [alive EXCEPT ![p] = "unregistered"] /\ alive[p] = "dead"
          /\ UNCHANGED <<list, closed, sessionPid>>
      BY <1>5, <2>4 DEF UnregisterProcess, S!PurgeServices, S!Remaining, S!lists
    <3>2. \A q \in Pids : q # p => alive'[q] = alive[q]
      BY <3>1 DEF SP!SInv, SP!Rest, SP!EnvTypes
    <3>3. NothingOfUnregistered'
      BY <2>2, <3>1, <3>2 DEF LinkInv, NothingOfUnregistered
    <3>4. OpenMeansAlive'
      BY <3>1, <3>2 DEF LinkInv, OpenMeansAlive
    <3> QED BY <3>3, <3>4 DEF LinkInv
  <2> QED BY <2>3, <2>4
<1>6. ASSUME (\E s \in Sessions : S!ServiceCommand(s)) \/ S!LoopEvent \/ S!Environment,
             UNCHANGED notifVars
      PROVE  LinkInv'
  BY <1>6, CommandAdds, LoopAdds, EnvironmentAdds, LinkKept DEF notifVars
<1>7. ASSUME NEW n \in Nodes, N!WaitSemaphore(n), UNCHANGED serviceVars PROVE LinkInv'
  <2>1. UNCHANGED <<inUse, pid>>
    BY <1>7 DEF N!WaitSemaphore
  <2> QED BY <1>2, <1>7, <2>1, NotifLink DEF serviceVars
<1>8. CASE UNCHANGED vars
  BY <1>2, <1>8, NotifLink DEF vars, notifVars, serviceVars
<1> QED BY <1>3, <1>4, <1>5, <1>6, <1>7, <1>8 DEF Next

(* UnregisterProcess (processes.c, services.c), and nothing that runs after *)
(* it, leaves anything of the process in the tables.                        *)
THEOREM NothingIsLeft == Spec => []NothingOfUnregistered
<1>1. LinkInv => NothingOfUnregistered
  BY DEF LinkInv
<1> QED BY <1>1, HalvesHold, LinkInit, LinkNext, PTL DEF Spec

(* What is proved of each half is true of sm as a whole: it panics only     *)
(* over a port closed under its waiters, no notification and no wake-up is  *)
(* lost, whatever the commands of the two halves and their order.           *)
THEOREM HalvesStayCorrect ==
    Spec => [](/\ N!SemaphoreMatchesPending /\ N!NoNotificationPanic /\ N!UniquePids
               /\ S!NoLostWakeUp /\ S!OnlyInvalidHandlePanics)
<1>1. NP!NInv => N!SemaphoreMatchesPending /\ N!NoNotificationPanic /\ N!UniquePids
  BY DEF NP!NInv, NP!SemaphoreMatchesPending, NP!NoNotificationPanic, NP!UniquePids,
         N!SemaphoreMatchesPending, N!NoNotificationPanic, N!UniquePids
<1>2. SP!NoLostWakeUp => S!NoLostWakeUp
  BY DEF SP!NoLostWakeUp, S!NoLostWakeUp, SP!On, S!On, SP!Find, S!Find
<1>3. SP!OnlyInvalidHandlePanics => S!OnlyInvalidHandlePanics
  BY DEF SP!OnlyInvalidHandlePanics, S!OnlyInvalidHandlePanics, SP!HandlesValid, S!HandlesValid,
         SP!PoolSuffices, S!PoolSuffices, SP!Cardinality, S!Cardinality, SP!On, S!On
<1>4. SP!SInv => SP!NoLostWakeUp /\ SP!OnlyInvalidHandlePanics
  BY SP!Parts, ServicesAssumed
<1> QED BY <1>1, <1>2, <1>3, <1>4, HalvesHold, PTL
=============================================================================
