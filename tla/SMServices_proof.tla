--------------------------- MODULE SMServices_proof ---------------------------
(***************************************************************************)
(* The sessions and services of sm, for any number of sessions, names and  *)
(* ports: the lists of sessions, the semaphore and what clients wait for   *)
(* agree, no wake-up is lost, and sm panics only over a closed port.       *)
(***************************************************************************)
EXTENDS SMServices, FiniteSetTheorems, TLAPS

(* The types of what the lists, the services and the semaphore are made of, *)
(* and of the rest.                                                         *)
CoreTypes ==
    /\ list \in [Sessions -> ListNames] /\ before \in [Sessions -> SUBSET Sessions]
    /\ isSrvPm \in [Sessions -> BOOLEAN]
    /\ replay \in [Sessions -> Commands] /\ busyPort \in [Sessions -> Ports \cup {NoPort}]
    /\ services \in SUBSET Entries /\ wakeCount \in Nat
    /\ panicked \in BOOLEAN /\ asked \in [Sessions -> Requests]
Objects == [open : BOOLEAN, max : MaxSessions \cup {1}, used : Nat]
EnvTypes ==
    /\ closed \in [Sessions -> BOOLEAN]
    /\ port \in [Ports -> Objects] /\ \A p \in Ports : port[p].used <= port[p].max
    /\ alive \in [Pids -> {"alive", "dead", "unregistered"}]
Rest ==
    /\ sessionPid \in [Sessions -> Pids \cup {NoPid}]
    /\ word4 \in Words
    /\ replyTarget \in Sessions \cup {NoSession} /\ answer \in Answers
    /\ EnvTypes
AskedIffWaiting == \A s \in Sessions : asked[s] # NoRequest <=> list[s] \in Waiting
TargetInUse == replyTarget \in Sessions => list[replyTarget] = "inUse"

(* A service has a port object, and the table is finite.                    *)
TableOK == IsFiniteSet(services) /\ \A e \in services : ~e.named => e.port \in Ports

(* The sessions held are as many as the two ports allow, and only a session *)
(* of srv: ever waits: the pool and the semaphore suffice.                  *)
Held(pm) == {s \in Sessions : list[s] # "free" /\ isSrvPm[s] = pm}
Population == Cardinality(Held(FALSE)) <= SrvMax /\ Cardinality(Held(TRUE)) <= SrvPmMax
WaitersAreClients == \A s \in Sessions : list[s] \in Waiting => ~isSrvPm[s]

(* The inductive invariant, by what it depends on.                          *)
Core == /\ CoreTypes /\ WaitingListsOrdered /\ UniqueNames /\ TableOK
        /\ WakeCountMatches /\ AskedIffWaiting /\ NoLostWakeUp
        /\ Population /\ WaitersAreClients /\ OnlyInvalidHandlePanics
SInv == Core /\ Rest /\ TargetInUse

coreVars == <<list, before, isSrvPm, replay, busyPort, services, wakeCount, asked, panicked>>

LEMMA Parts == SInv => ServicesInv /\ NoLostWakeUp /\ OnlyInvalidHandlePanics
BY DEF SInv, Core, CoreTypes, Rest, EnvTypes, Objects, AskedIffWaiting, TargetInUse, ServicesInv,
       STypeOK, BlockedIffWaiting

(* Nothing of the core changes. *)
LEMMA CoreKept == ASSUME Core, UNCHANGED coreVars PROVE Core'
<1>1. /\ list' = list /\ before' = before /\ isSrvPm' = isSrvPm /\ replay' = replay
      /\ busyPort' = busyPort /\ services' = services /\ wakeCount' = wakeCount /\ asked' = asked
      /\ panicked' = panicked
  BY DEF coreVars
<1>2. CoreTypes' /\ WaitingListsOrdered' /\ UniqueNames' /\ TableOK'
  BY <1>1 DEF Core, CoreTypes, WaitingListsOrdered, UniqueNames, TableOK
<1>3. WakeCountMatches' /\ AskedIffWaiting' /\ NoLostWakeUp'
  BY <1>1 DEF Core, WakeCountMatches, AskedIffWaiting, NoLostWakeUp, On, Find
<1>4. Population' /\ WaitersAreClients' /\ OnlyInvalidHandlePanics'
  BY <1>1 DEF Core, Population, Held, WaitersAreClients, OnlyInvalidHandlePanics, HandlesValid, On
<1> QED BY <1>2, <1>3, <1>4 DEF Core

-----------------------------------------------------------------------------
(* The lists                                                                *)

LEMMA FiniteParts == ASSUME NEW S \in SUBSET Sessions
                     PROVE  IsFiniteSet(S) /\ Cardinality(S) \in Nat
BY ServicesAssumption, FS_Subset, FS_CardinalityType

LEMMA MoveOrdered ==
    ASSUME list \in [Sessions -> ListNames], before \in [Sessions -> SUBSET Sessions],
           WaitingListsOrdered, NEW S \in SUBSET Sessions, NEW dst \in Waiting,
           \A s, t \in S : s # t => list[s] = list[t] /\ list[s] \in Waiting,
           MoveToBack(S, dst)
    PROVE  /\ list' \in [Sessions -> ListNames] /\ before' \in [Sessions -> SUBSET Sessions]
           /\ WaitingListsOrdered'
<1>1. list' \in [Sessions -> ListNames]
  BY DEF MoveToBack, Waiting, ListNames
<1>2. before' \in [Sessions -> SUBSET Sessions]
  BY DEF MoveToBack, On
<1>3. \A s \in Sessions : /\ list'[s] = IF s \in S THEN dst ELSE list[s]
                          /\ before'[s] = IF s \in S THEN (On(dst) \ S) \cup (before[s] \cap S)
                                                     ELSE before[s] \ S
  BY DEF MoveToBack
<1>4. ASSUME NEW s \in Sessions, NEW t \in Sessions, t \in before'[s]
      PROVE  list'[t] = list'[s] /\ list'[s] \in Waiting
  <2>1. CASE s \in S
    BY <1>3, <1>4, <2>1 DEF On
  <2>2. CASE s \notin S
    <3>1. t \in before[s] /\ t \notin S
      BY <1>3, <1>4, <2>2
    <3>2. list[t] = list[s] /\ list[s] \in Waiting
      BY <3>1, Zenon DEF WaitingListsOrdered
    <3> QED BY <1>3, <2>2, <3>1, <3>2
  <2> QED BY <2>1, <2>2
<1>5. ASSUME NEW s \in Sessions, NEW t \in Sessions, s # t, list'[s] = list'[t],
             list'[s] \in Waiting
      PROVE  s \in before'[t] <=> t \notin before'[s]
  <2>1. CASE s \in S /\ t \in S
    <3>1. s \in before[t] <=> t \notin before[s]
      BY <1>5, <2>1 DEF WaitingListsOrdered
    <3> QED BY <1>3, <2>1, <3>1
  <2>2. CASE s \in S /\ t \notin S
    <3>1. t \in On(dst)
      BY <1>3, <1>5, <2>2 DEF On
    <3> QED BY <1>3, <2>2, <3>1
  <2>3. CASE s \notin S /\ t \in S
    <3>1. s \in On(dst)
      BY <1>3, <1>5, <2>3 DEF On
    <3> QED BY <1>3, <2>3, <3>1
  <2>4. CASE s \notin S /\ t \notin S
    <3>1. list[s] = list[t] /\ list[s] \in Waiting
      BY <1>3, <1>5, <2>4
    <3>2. s \in before[t] <=> t \notin before[s]
      BY <1>5, <3>1, Zenon DEF WaitingListsOrdered
    <3> QED BY <1>3, <2>4, <3>2
  <2> QED BY <2>1, <2>2, <2>3, <2>4
<1>6. WaitingListsOrdered'
  BY <1>4, <1>5 DEF WaitingListsOrdered
<1> QED BY <1>1, <1>2, <1>6

LEMMA DetachOrdered ==
    ASSUME list \in [Sessions -> ListNames], before \in [Sessions -> SUBSET Sessions],
           WaitingListsOrdered, NEW s \in Sessions, NEW dst \in {"inUse", "free"}, Detach(s, dst)
    PROVE  /\ list' \in [Sessions -> ListNames] /\ before' \in [Sessions -> SUBSET Sessions]
           /\ WaitingListsOrdered'
<1>1. list' \in [Sessions -> ListNames] /\ before' \in [Sessions -> SUBSET Sessions]
  BY DEF Detach, ListNames
<1>2. \A t \in Sessions : /\ list'[t] = IF t = s THEN dst ELSE list[t]
                          /\ before'[t] = IF t = s THEN {} ELSE before[t] \ {s}
  BY DEF Detach
<1>3. dst \notin Waiting
  BY DEF Waiting
<1>4. ASSUME NEW u \in Sessions, NEW t \in Sessions, t \in before'[u]
      PROVE  list'[t] = list'[u] /\ list'[u] \in Waiting
  <2>1. u # s /\ t # s /\ t \in before[u]
    BY <1>2, <1>4
  <2>2. list[t] = list[u] /\ list[u] \in Waiting
    BY <2>1, Zenon DEF WaitingListsOrdered
  <2> QED BY <1>2, <2>1, <2>2
<1>5. ASSUME NEW u \in Sessions, NEW t \in Sessions, u # t, list'[u] = list'[t],
             list'[u] \in Waiting
      PROVE  u \in before'[t] <=> t \notin before'[u]
  <2>1. u # s /\ t # s /\ list[u] = list[t] /\ list[u] \in Waiting
    BY <1>2, <1>3, <1>5
  <2>2. u \in before[t] <=> t \notin before[u]
    BY <1>5, <2>1, Zenon DEF WaitingListsOrdered
  <2> QED BY <1>2, <2>1, <2>2
<1>6. WaitingListsOrdered'
  BY <1>4, <1>5 DEF WaitingListsOrdered
<1> QED BY <1>1, <1>6
-----------------------------------------------------------------------------
(* Counting                                                                 *)

LEMMA Limits == /\ SrvMax \in Nat /\ SrvPmMax \in Nat /\ SemMax \in Nat /\ MaxServices \in Nat
                /\ SrvMax <= SemMax
                /\ MaxSessions \cup {1} \subseteq Nat
BY ServicesAssumption

(* The sessions held are the same as long as none is taken or freed. *)
LEMMA HeldKept ==
    ASSUME Population, WaitersAreClients, UNCHANGED isSrvPm,
           \A s \in Sessions : list'[s] = "free" <=> list[s] = "free"
    PROVE  Population'
<1>1. \A pm \in BOOLEAN : Held(pm)' = Held(pm)
  BY DEF Held
<1> QED BY <1>1 DEF Population

(* The sessions that wait are not more than "srv:" may have. *)
LEMMA WaitersFit ==
    ASSUME Core, NEW M \in SUBSET On("waitRegister")
    PROVE  /\ Cardinality(On("toWake") \cup M) = Cardinality(On("toWake")) + Cardinality(M)
           /\ Cardinality(On("toWake") \cup M) <= SemMax
<1>1. On("toWake") \in SUBSET Sessions /\ M \in SUBSET Sessions
  BY DEF On
<1>2. IsFiniteSet(On("toWake")) /\ IsFiniteSet(M) /\ IsFiniteSet(Held(FALSE))
  BY <1>1, FiniteParts DEF Held
<1>3. On("toWake") \cap M = {}
  BY DEF On
<1>4. On("toWake") \cup M \in SUBSET Held(FALSE)
  BY DEF On, Held, Core, CoreTypes, WaitersAreClients, Waiting
<1>5. Cardinality(On("toWake") \cup M) = Cardinality(On("toWake")) + Cardinality(M)
  <2>1. Cardinality(On("toWake") \cap M) = 0
    BY <1>3, FS_EmptySet
  <2>2. Cardinality(On("toWake")) \in Nat /\ Cardinality(M) \in Nat
    BY <1>2, FS_CardinalityType
  <2>3. Cardinality(On("toWake") \cup M)
          = Cardinality(On("toWake")) + Cardinality(M) - Cardinality(On("toWake") \cap M)
    BY <1>2, FS_Union, Zenon
  <2> QED BY <2>1, <2>2, <2>3
<1>6. Cardinality(On("toWake") \cup M) <= Cardinality(Held(FALSE))
  BY <1>2, <1>4, FS_Subset
<1>7. Cardinality(Held(FALSE)) <= SrvMax
  BY DEF Core, Population
<1>8. Cardinality(Held(FALSE)) \in Nat /\ Cardinality(On("toWake") \cup M) \in Nat
  <2>1. On("toWake") \cup M \in SUBSET Sessions
    BY <1>1
  <2> QED BY <1>2, <2>1, FiniteParts, FS_CardinalityType, Zenon
<1>9. Cardinality(On("toWake") \cup M) <= SemMax
  <2>1. \A a, b \in Nat : a <= b /\ b <= SrvMax => a <= SemMax
    BY Limits
  <2> QED BY <1>6, <1>7, <1>8, <2>1, Zenon
<1> QED BY <1>5, <1>9

-----------------------------------------------------------------------------
(* The service table                                                        *)

LEMMA FoundHasPort ==
    ASSUME services \in SUBSET Entries, TableOK, NEW named, NEW name, Find(named, name) # {}
    PROVE  /\ PortOf(named, name) \in Ports \cup {NoPort}
           /\ ~named => PortOf(named, name) \in Ports
<1>1. (CHOOSE e \in Find(named, name) : TRUE) \in Find(named, name)
  OBVIOUS
<1> QED BY <1>1 DEF PortOf, Find, TableOK, Entries

(* What GetServiceHandle and GetPort come to. *)
LEMMA Outcomes ==
    ASSUME services \in SUBSET Entries, TableOK, NEW named \in BOOLEAN, NEW name, NEW flags
    PROVE  LET r == Outcome(named, name, flags)
           IN  /\ r \in {"waitRegister", "waitPort"} \cup (Answers \ {"none"})
               /\ r = "waitRegister" => Find(named, name) = {}
               /\ r = "waitPort" => Find(named, name) # {}
               /\ r = "ok" /\ ~named => /\ PortOf(named, name) \in Ports
                                        /\ ~Full(PortOf(named, name))
<1> DEFINE r == Outcome(named, name, flags)
<1>1. CASE Find(named, name) = {}
  <2>1. r \in {"notRegistered", "waitRegister"}
    BY <1>1 DEF Outcome
  <2> QED BY <1>1, <2>1 DEF Answers
<1>2. CASE Find(named, name) # {} /\ named
  <2>1. r \in {"ok", "okNoHandle"}
    BY <1>2 DEF Outcome
  <2> QED BY <1>2, <2>1 DEF Answers
<1>3. CASE Find(named, name) # {} /\ ~named
  <2>1. /\ r \in {"ok", "portClosed", "waitPort", "full"}
        /\ r = "ok" => ~Full(PortOf(named, name))
    BY <1>3 DEF Outcome, PortOf
  <2> QED BY <1>3, <2>1, FoundHasPort DEF Answers
<1> QED BY <1>1, <1>2, <1>3

-----------------------------------------------------------------------------
(* What the steps of main's loop do to the core.                            *)

LEMMA PanicCore ==
    ASSUME Core, Panic, ~PoolSuffices \/ ~HandlesValid
    PROVE  Core'
<1>1. /\ list' = list /\ before' = before /\ isSrvPm' = isSrvPm /\ replay' = replay
      /\ busyPort' = busyPort /\ services' = services /\ wakeCount' = wakeCount /\ asked' = asked
      /\ panicked' = TRUE
  BY DEF Panic, lists
<1>2. CoreTypes' /\ WaitingListsOrdered' /\ UniqueNames' /\ TableOK'
  BY <1>1 DEF Core, CoreTypes, WaitingListsOrdered, UniqueNames, TableOK
<1>3. WakeCountMatches' /\ AskedIffWaiting' /\ NoLostWakeUp'
  BY <1>1 DEF Core, WakeCountMatches, AskedIffWaiting, NoLostWakeUp, On, Find
<1>4. Population' /\ WaitersAreClients'
  BY <1>1 DEF Core, Population, Held, WaitersAreClients
<1>5. HandlesValid' <=> HandlesValid
  BY <1>1 DEF HandlesValid, On
<1>6. OnlyInvalidHandlePanics'
  BY <1>5 DEF OnlyInvalidHandlePanics, PoolSuffices
<1> QED BY <1>2, <1>3, <1>4, <1>6 DEF Core

(* A registration that finds the name free and the table not full. *)
LEMMA AddCore ==
    ASSUME Core, NEW s \in Sessions, list[s] = "inUse", ~panicked,
           sessionPid \in [Sessions -> Pids \cup {NoPid}],
           NEW named \in BOOLEAN, NEW name \in Names, NEW p \in Ports \cup {NoPort},
           ~named => p \in Ports, MayRegister(named, name), AddEntry(s, named, name, p)
    PROVE  /\ Core' /\ Answer(s, "ok") /\ list'[s] = "inUse"
           /\ UNCHANGED <<sessionPid, closed, alive>>
<1> DEFINE M == Matching(named, name)
           e == [named |-> named, name |-> name, pid |-> sessionPid[s], port |-> p]
<1>1. M \in SUBSET On("waitRegister") /\ On("waitRegister") \in SUBSET Sessions
  BY DEF Matching, On
<1>2. /\ Cardinality(On("toWake") \cup M) = wakeCount + Cardinality(M)
      /\ Cardinality(On("toWake") \cup M) <= SemMax
  BY <1>1, WaitersFit DEF Core, WakeCountMatches
<1>3. /\ services' = services \cup {e} /\ MoveToBack(M, "toWake")
      /\ wakeCount' = Cardinality(On("toWake") \cup M)
      /\ Answer(s, "ok")
      /\ UNCHANGED <<sessionPid, isSrvPm, replay, busyPort, panicked, asked, closed, alive>>
  <2>1. Cardinality(M) \in Nat /\ wakeCount \in Nat
    BY <1>1, FiniteParts DEF Core, CoreTypes
  <2>2. ~(wakeCount + Units(M) > SemMax)
    BY <1>2, <2>1, Limits DEF Units
  <2>3. wakeCount + Units(M) = Cardinality(On("toWake") \cup M)
    BY <1>2 DEF Units
  <2> HIDE DEF M
  <2> QED BY <2>2, <2>3 DEF AddEntry, M
<1>4. \A t \in Sessions : list'[t] = IF t \in M THEN "toWake" ELSE list[t]
  BY <1>3 DEF MoveToBack
<1>5. /\ list' \in [Sessions -> ListNames] /\ before' \in [Sessions -> SUBSET Sessions]
      /\ WaitingListsOrdered'
  <2>1. \A u, t \in M : u # t => list[u] = list[t] /\ list[u] \in Waiting
    BY <1>1 DEF On, Waiting
  <2> HIDE DEF M
  <2> QED BY <1>1, <1>3, <2>1, MoveOrdered DEF Core, CoreTypes, Waiting
<1>6. e \in Entries
  BY DEF Entries
<1> HIDE DEF M
<1>7. CoreTypes'
  <2>1. wakeCount' \in Nat
    BY <1>1, <1>3, FiniteParts DEF On
  <2> QED BY <1>3, <1>5, <1>6, <2>1 DEF Core, CoreTypes
<1>8. UniqueNames' /\ TableOK'
  <2>1. \A f \in services : ~(f.named = named /\ f.name = name)
    BY DEF MayRegister, Find
  <2>2. e.named = named /\ e.name = name /\ e.port = p
    OBVIOUS
  <2>3. Cardinality(services) < MaxServices /\ IsFiniteSet(services)
    BY DEF MayRegister, Core, TableOK
  <2>4. e \notin services
    BY <2>1, <2>2
  <2> HIDE DEF e
  <2>5. Cardinality(services') = Cardinality(services) + 1 /\ IsFiniteSet(services')
    BY <1>3, <2>3, <2>4, FS_AddElement
  <2>6. Cardinality(services') <= MaxServices
    BY <2>3, <2>5, FS_CardinalityType, Limits
  <2>7. \A f, g \in services' : f.named = g.named /\ f.name = g.name => f = g
    BY <1>3, <2>1, <2>2 DEF Core, UniqueNames
  <2>8. \A f \in services' : ~f.named => f.port \in Ports
    BY <1>3, <2>2 DEF Core, TableOK
  <2> QED BY <2>5, <2>6, <2>7, <2>8 DEF UniqueNames, TableOK
<1>9. WakeCountMatches'
  <2>1. On("toWake")' = On("toWake") \cup M
    BY <1>1, <1>4 DEF On
  <2> QED BY <1>3, <2>1 DEF WakeCountMatches
<1>10. AskedIffWaiting'
  BY <1>1, <1>3, <1>4 DEF Core, AskedIffWaiting, On, Waiting
<1>11. NoLostWakeUp'
  <2>1. SUFFICES ASSUME NEW t \in On("waitRegister")'
                 PROVE  Find(replay[t].named, replay[t].name)' = {}
    BY <1>3 DEF NoLostWakeUp
  <2>2. t \in On("waitRegister") /\ t \notin M
    BY <1>4, <2>1 DEF On
  <2>3. Find(replay[t].named, replay[t].name) = {}
    BY <2>2 DEF Core, NoLostWakeUp
  <2>4. ~(replay[t].named = named /\ replay[t].name = name)
    BY <2>2 DEF M, Matching
  <2> QED BY <1>3, <2>3, <2>4 DEF Find
<1>12. Population' /\ WaitersAreClients'
  <2>1. \A t \in Sessions : list'[t] = "free" <=> list[t] = "free"
    BY <1>1, <1>4 DEF On
  <2> QED BY <1>1, <1>3, <1>4, <2>1, HeldKept DEF Core, WaitersAreClients, On, Waiting
<1>13. OnlyInvalidHandlePanics'
  BY <1>3 DEF OnlyInvalidHandlePanics
<1>14. list'[s] = "inUse"
  BY <1>1, <1>4 DEF On
<1> QED BY <1>3, <1>5, <1>7, <1>8, <1>9, <1>10, <1>11, <1>12, <1>13, <1>14 DEF Core
(* One session goes from a list to another: what there is to show of it. *)
LEMMA MovedCore ==
    ASSUME Core, ~panicked, NEW s \in Sessions, UNCHANGED <<services, panicked>>,
           list' \in [Sessions -> ListNames], before' \in [Sessions -> SUBSET Sessions],
           isSrvPm' \in [Sessions -> BOOLEAN], replay' \in [Sessions -> Commands],
           busyPort' \in [Sessions -> Ports \cup {NoPort}], asked' \in [Sessions -> Requests],
           \A t \in Sessions \ {s} : /\ list'[t] = list[t] /\ isSrvPm'[t] = isSrvPm[t]
                                     /\ replay'[t] = replay[t] /\ asked'[t] = asked[t],
           WaitingListsOrdered', Population',
           list'[s] # "toWake",
           wakeCount' = IF list[s] = "toWake" THEN wakeCount - 1 ELSE wakeCount,
           asked'[s] # NoRequest <=> list'[s] \in Waiting,
           list'[s] \in Waiting => ~isSrvPm'[s],
           list'[s] = "waitRegister" => Find(replay'[s].named, replay'[s].name) = {}
    PROVE  Core'
<1>1. wakeCount' = Cardinality(On("toWake")')
  <2>1. IsFiniteSet(On("toWake")) /\ On("toWake")' = On("toWake") \ {s}
    BY FiniteParts DEF On
  <2>2. Cardinality(On("toWake") \ {s}) = IF s \in On("toWake") THEN Cardinality(On("toWake")) - 1
                                                                ELSE Cardinality(On("toWake"))
    BY <2>1, FS_RemoveElement, Zenon
  <2>3. s \in On("toWake") <=> list[s] = "toWake"
    BY DEF On
  <2>4. wakeCount = Cardinality(On("toWake"))
    BY DEF Core, WakeCountMatches
  <2> QED BY <2>1, <2>2, <2>3, <2>4
<1>2. WakeCountMatches' /\ wakeCount' \in Nat
  BY <1>1, FiniteParts DEF WakeCountMatches, On
<1>3. CoreTypes'
  BY <1>2 DEF Core, CoreTypes
<1>4. UniqueNames' /\ TableOK'
  BY DEF Core, UniqueNames, TableOK
<1>5. AskedIffWaiting'
  <2>1. ASSUME NEW t \in Sessions PROVE asked'[t] # NoRequest <=> list'[t] \in Waiting
    <3>1. CASE t = s
      BY <3>1
    <3>2. CASE t # s
      BY <3>2 DEF Core, AskedIffWaiting
    <3> QED BY <3>1, <3>2
  <2> QED BY <2>1 DEF AskedIffWaiting
<1>6. NoLostWakeUp'
  <2>1. ASSUME NEW t \in Sessions, list'[t] = "waitRegister"
        PROVE  Find(replay'[t].named, replay'[t].name) = {}
    <3>1. CASE t = s
      BY <2>1, <3>1
    <3>2. CASE t # s
      BY <2>1, <3>2 DEF Core, NoLostWakeUp, On
    <3> QED BY <3>1, <3>2
  <2> QED BY <2>1 DEF NoLostWakeUp, On, Find
<1>7. WaitersAreClients'
  BY DEF Core, WaitersAreClients
<1>8. OnlyInvalidHandlePanics'
  BY DEF OnlyInvalidHandlePanics
<1> QED BY <1>2, <1>3, <1>4, <1>5, <1>6, <1>7, <1>8 DEF Core

(* GetServiceHandle or GetPort, of a session in use or of one put off. *)
LEMMA ServeCore ==
    ASSUME Core, Rest, ~panicked, NEW s \in Sessions, list[s] \in {"inUse", "toWake", "waitPort"},
           ~isSrvPm[s],
           NEW named \in BOOLEAN, NEW name \in Names \cup {Garbled}, NEW flags,
           Serve(s, named, name, flags), word4' \in Words,
           wakeCount' = IF list[s] = "toWake" THEN wakeCount - 1 ELSE wakeCount,
           Outcome(named, name, flags) \in Waiting =>
             \E R \in Requests \ {NoRequest} : asked' = [asked EXCEPT ![s] = R]
    PROVE  SInv'
<1> DEFINE r == Outcome(named, name, flags)
<1>1. /\ r \in {"waitRegister", "waitPort"} \cup (Answers \ {"none"})
      /\ r = "waitRegister" => Find(named, name) = {}
      /\ r = "waitPort" => Find(named, name) # {}
      /\ r = "ok" /\ ~named => PortOf(named, name) \in Ports /\ ~Full(PortOf(named, name))
  BY Outcomes DEF Core, CoreTypes
<1>2. r \in Waiting <=> r \in {"waitRegister", "waitPort"}
  BY <1>1 DEF Waiting, Answers
<1>3. /\ UNCHANGED <<sessionPid, isSrvPm, services, panicked, closed, alive>>
      /\ r \in Waiting => PutOff(s, r, named, name)
      /\ r \notin Waiting => Complete(s, named, name, r)
  BY DEF Serve
<1>4. /\ list[s] # "free"
      /\ CoreTypes /\ WaitingListsOrdered /\ Population /\ WaitersAreClients
  BY DEF Core
<1> HIDE DEF r
<1>5. CASE r \in {"waitRegister", "waitPort"}
  <2>1. /\ MoveToBack({s}, r) /\ NoAnswer /\ UNCHANGED port
        /\ replay' = [replay EXCEPT ![s] = [named |-> named, name |-> name]]
        /\ busyPort' = [busyPort EXCEPT ![s] = IF r = "waitPort" THEN PortOf(named, name) ELSE NoPort]
    BY <1>2, <1>3, <1>5 DEF PutOff
  <2>2. /\ list' \in [Sessions -> ListNames] /\ before' \in [Sessions -> SUBSET Sessions]
        /\ WaitingListsOrdered'
    <3>1. {s} \in SUBSET Sessions /\ \A u, t \in {s} : u # t => list[u] = list[t] /\ list[u] \in Waiting
      OBVIOUS
    <3> QED BY <1>2, <1>4, <1>5, <2>1, <3>1, MoveOrdered DEF CoreTypes
  <2>3. \A t \in Sessions : list'[t] = IF t = s THEN r ELSE list[t]
    BY <2>1 DEF MoveToBack
  <2>4. /\ replay' \in [Sessions -> Commands] /\ replay'[s].named = named /\ replay'[s].name = name
        /\ \A t \in Sessions \ {s} : replay'[t] = replay[t]
    <3>1. [named |-> named, name |-> name] \in Commands
      BY DEF Commands
    <3> QED BY <1>4, <2>1, <3>1 DEF CoreTypes
  <2>5. busyPort' \in [Sessions -> Ports \cup {NoPort}]
    <3>1. (IF r = "waitPort" THEN PortOf(named, name) ELSE NoPort) \in Ports \cup {NoPort}
      BY <1>1, FoundHasPort DEF Core, CoreTypes
    <3> QED BY <1>4, <2>1, <3>1 DEF CoreTypes
  <2>6. PICK R \in Requests \ {NoRequest} : asked' = [asked EXCEPT ![s] = R]
    BY <1>2, <1>5 DEF r
  <2>7. /\ asked' \in [Sessions -> Requests] /\ asked'[s] # NoRequest
        /\ \A t \in Sessions \ {s} : asked'[t] = asked[t]
    BY <1>4, <2>6 DEF CoreTypes
  <2>8. Population'
    BY <1>3, <1>4, <1>5, <2>3, HeldKept
  <2>9. list'[s] = r /\ list'[s] \in Waiting /\ list'[s] # "toWake"
    BY <1>5, <2>3 DEF Waiting
  <2>10. Core'
    BY <1>1, <1>3, <1>4, <2>2, <2>3, <2>4, <2>5, <2>7, <2>8, <2>9, MovedCore DEF CoreTypes
  <2>11. Rest' /\ TargetInUse'
    BY <1>3, <2>1, ServicesAssumption DEF Rest, EnvTypes, TargetInUse, NoAnswer, Answers
  <2> QED BY <2>10, <2>11 DEF SInv
<1>6. CASE r \in Answers \ {"none"}
  <2>0. r \notin Waiting
    BY <1>6 DEF Answers, Waiting
  <2>1. /\ Detach(s, "inUse") /\ Answer(s, r)
        /\ busyPort' = [busyPort EXCEPT ![s] = NoPort]
        /\ asked' = [asked EXCEPT ![s] = NoRequest]
        /\ replay' = [replay EXCEPT ![s] = NoCommand]
        /\ port' = IF r = "ok" /\ ~named THEN [port EXCEPT ![PortOf(named, name)].used = @ + 1]
                                         ELSE port
    BY <1>3, <2>0 DEF Complete
  <2>2. /\ list' \in [Sessions -> ListNames] /\ before' \in [Sessions -> SUBSET Sessions]
        /\ WaitingListsOrdered'
    BY <1>4, <2>1, DetachOrdered DEF CoreTypes
  <2>3. \A t \in Sessions : list'[t] = IF t = s THEN "inUse" ELSE list[t]
    BY <1>4, <2>1 DEF Detach, CoreTypes
  <2>4. /\ replay' \in [Sessions -> Commands]
        /\ \A t \in Sessions \ {s} : replay'[t] = replay[t]
    <3>1. NoCommand \in Commands
      BY DEF Commands, NoCommand
    <3> QED BY <1>4, <2>1, <3>1 DEF CoreTypes
  <2>5. busyPort' \in [Sessions -> Ports \cup {NoPort}]
    BY <1>4, <2>1 DEF CoreTypes
  <2>6. /\ asked' \in [Sessions -> Requests] /\ asked'[s] = NoRequest
        /\ \A t \in Sessions \ {s} : asked'[t] = asked[t]
    <3>1. NoRequest \in Requests
      BY DEF Requests, NoRequest
    <3> QED BY <1>4, <2>1, <3>1 DEF CoreTypes
  <2>7. list'[s] = "inUse" /\ list'[s] \notin Waiting
    BY <2>3 DEF Waiting
  <2>8. Population'
    BY <1>3, <1>4, <2>3, HeldKept
  <2>9. Core'
    BY <1>3, <1>4, <2>2, <2>3, <2>4, <2>5, <2>6, <2>7, <2>8, MovedCore DEF CoreTypes
  <2>10. /\ port' \in [Ports -> Objects]
         /\ \A p \in Ports : port'[p].used <= port'[p].max
    <3>1. CASE ~(r = "ok" /\ ~named)
      BY <2>1, <3>1 DEF Rest, EnvTypes
    <3>2. CASE r = "ok" /\ ~named
      <4> DEFINE q == PortOf(named, name)
      <4>0. q \in Ports /\ ~Full(q)
        BY <1>1, <3>2
      <4>2. port' = [port EXCEPT ![q].used = @ + 1]
        BY <2>1, <3>2
      <4> HIDE DEF q
      <4>3. port[q] \in Objects
        BY <4>0 DEF Rest, EnvTypes
      <4>4. port[q].used \in Nat /\ port[q].max \in Nat
        BY <4>3, Limits DEF Objects
      <4>5. port[q].used + 1 <= port[q].max
        BY <4>0, <4>4 DEF Full
      <4>6. [port[q] EXCEPT !.used = @ + 1]
              \in Objects
        BY <4>3, <4>4 DEF Objects
      <4>7. \A p \in Ports : port'[p] = IF p = q THEN [port[q] EXCEPT !.used = @ + 1] ELSE port[p]
        BY <4>2 DEF Rest, EnvTypes
      <4> QED BY <4>0, <4>2, <4>3, <4>5, <4>6, <4>7 DEF Rest, EnvTypes
    <3> QED BY <3>1, <3>2
  <2>11. Rest'
    BY <1>3, <1>6, <2>1, <2>10 DEF Rest, EnvTypes, Answer
  <2>12. TargetInUse'
    BY <2>1, <2>3 DEF TargetInUse, Answer
  <2> QED BY <2>9, <2>11, <2>12 DEF SInv
<1> QED BY <1>1, <1>5, <1>6
(* Entries of the table are removed. *)
LEMMA ShrunkCore ==
    ASSUME Core, services' \in SUBSET services,
           UNCHANGED <<list, before, isSrvPm, replay, busyPort, wakeCount, asked, panicked>>,
           ~panicked
    PROVE  Core'
<1>1. IsFiniteSet(services') /\ Cardinality(services') <= MaxServices
  <2>1. /\ IsFiniteSet(services) /\ IsFiniteSet(services')
        /\ Cardinality(services') <= Cardinality(services)
    BY FS_Subset DEF Core, TableOK
  <2>2. Cardinality(services') \in Nat /\ Cardinality(services) \in Nat
    BY <2>1, FS_CardinalityType
  <2>3. Cardinality(services) <= MaxServices
    BY DEF Core, UniqueNames
  <2> QED BY <2>1, <2>2, <2>3, Limits
<1>2. CoreTypes' /\ WaitingListsOrdered'
  BY DEF Core, CoreTypes, WaitingListsOrdered
<1>3. UniqueNames' /\ TableOK'
  BY <1>1 DEF Core, UniqueNames, TableOK
<1>4. WakeCountMatches' /\ AskedIffWaiting'
  BY DEF Core, WakeCountMatches, AskedIffWaiting, On
<1>5. NoLostWakeUp'
  <2>1. \A t \in Sessions : list[t] = "waitRegister" => Find(replay[t].named, replay[t].name) = {}
    BY DEF Core, NoLostWakeUp, On
  <2>2. \A named, name : Find(named, name)' \subseteq Find(named, name)
    BY DEF Find
  <2> QED BY <2>1, <2>2 DEF NoLostWakeUp, On, Find
<1>6. Population' /\ WaitersAreClients'
  BY DEF Core, Population, Held, WaitersAreClients
<1>7. OnlyInvalidHandlePanics'
  BY DEF OnlyInvalidHandlePanics
<1> QED BY <1>2, <1>3, <1>4, <1>5, <1>6, <1>7 DEF Core

-----------------------------------------------------------------------------
(* The actions                                                              *)

LEMMA RefuseStep ==
    ASSUME SInv, NEW s \in Sessions, list[s] = "inUse", NEW r \in Answers, NEW w \in Words,
           Refuse(s, r, w)
    PROVE  SInv'
<1>1. UNCHANGED coreVars
  BY DEF Refuse, coreVars, lists
<1>2. Core'
  BY <1>1, CoreKept DEF SInv
<1>3. Rest' /\ TargetInUse'
  BY DEF SInv, Rest, EnvTypes, TargetInUse, Refuse, Answer, env, lists
<1> QED BY <1>2, <1>3 DEF SInv

LEMMA RegisterClientStep ==
    ASSUME SInv, NEW s \in Sessions, NEW p \in Pids, RegisterClient(s, p) PROVE SInv'
<1>1. UNCHANGED coreVars
  BY DEF RegisterClient, coreVars, lists
<1>2. Core'
  BY <1>1, CoreKept DEF SInv
<1>3. Rest' /\ TargetInUse'
  BY DEF SInv, Rest, EnvTypes, TargetInUse, RegisterClient, Idle, Answer, Answers, env, lists
<1> QED BY <1>2, <1>3 DEF SInv

LEMMA RegisterServiceStep ==
    ASSUME SInv, NEW s \in Sessions, NEW name \in Names, NEW max \in MaxSessions,
           RegisterService(s, name, max)
    PROVE  SInv'
<1>1. list[s] = "inUse" /\ ~panicked /\ max \in Words
  BY DEF RegisterService, Idle, Turn, Words
<1>2. ASSUME Refuse(s, "exists", max) \/ Refuse(s, "tableFull", max) PROVE SInv'
  BY <1>1, <1>2, RefuseStep DEF Answers
<1>3. ASSUME NEW p \in Fresh, MayRegister(FALSE, name), AddEntry(s, FALSE, name, p), word4' = max,
             port' = [port EXCEPT ![p] = [open |-> TRUE, max |-> max, used |-> 0]]
      PROVE  SInv'
  <2>1. p \in Ports
    BY DEF Fresh
  <2>2. /\ Core' /\ Answer(s, "ok") /\ list'[s] = "inUse"
        /\ UNCHANGED <<sessionPid, closed, alive>>
    BY <1>1, <1>3, <2>1, AddCore DEF SInv, Rest, EnvTypes
  <2>3. [open |-> TRUE, max |-> max, used |-> 0] \in Objects
    BY DEF Objects
  <2>4. /\ port' \in [Ports -> Objects]
        /\ \A q \in Ports : port'[q].used <= port'[q].max
    BY <1>3, <2>1, <2>3, Limits DEF SInv, Rest, EnvTypes
  <2>5. Rest' /\ TargetInUse'
    BY <1>1, <1>3, <2>2, <2>4 DEF SInv, Rest, EnvTypes, TargetInUse, Answer, Answers
  <2> QED BY <2>2, <2>5 DEF SInv
<1> QED BY <1>2, <1>3 DEF RegisterService, NameTaken, TableFull

LEMMA RegisterPortStep ==
    ASSUME SInv, NEW s \in Sessions, NEW name \in Names, RegisterPort(s, name) PROVE SInv'
<1>1. list[s] = "inUse" /\ ~panicked /\ 0 \in Words
  BY DEF RegisterPort, Idle, Turn, Words
<1>2. ASSUME Refuse(s, "exists", 0) \/ Refuse(s, "tableFull", 0) PROVE SInv'
  BY <1>1, <1>2, RefuseStep DEF Answers
<1>3. ASSUME MayRegister(TRUE, name), AddEntry(s, TRUE, name, NoPort), word4' = 0, UNCHANGED port
      PROVE  SInv'
  <2>2. /\ Core' /\ Answer(s, "ok") /\ list'[s] = "inUse"
        /\ UNCHANGED <<sessionPid, closed, alive>>
    BY <1>1, <1>3, AddCore DEF SInv, Rest, EnvTypes
  <2>5. Rest' /\ TargetInUse'
    BY <1>1, <1>3, <2>2 DEF SInv, Rest, EnvTypes, TargetInUse, Answer, Answers
  <2> QED BY <2>2, <2>5 DEF SInv
<1> QED BY <1>2, <1>3 DEF RegisterPort, NameTaken, TableFull

LEMMA UnregisterStep ==
    ASSUME SInv, NEW s \in Sessions, NEW named \in BOOLEAN, NEW name \in Names,
           UnregisterServiceOrPort(s, named, name)
    PROVE  SInv'
<1>1. list[s] = "inUse" /\ ~panicked /\ word4 \in Words
  BY DEF UnregisterServiceOrPort, Idle, Turn, SInv, Rest, EnvTypes
<1>2. ASSUME Refuse(s, "notRegistered", word4) \/ Refuse(s, "notOwner", word4) PROVE SInv'
  BY <1>1, <1>2, RefuseStep DEF Answers
<1>3. ASSUME NEW e, services' = services \ {e}, Answer(s, "ok"),
             UNCHANGED <<lists, sessionPid, isSrvPm, replay, busyPort, word4, wakeCount, panicked,
                         asked, env>>
      PROVE  SInv'
  <2>1. Core'
    BY <1>1, <1>3, ShrunkCore DEF SInv, lists
  <2>2. Rest' /\ TargetInUse'
    BY <1>1, <1>3 DEF SInv, Rest, EnvTypes, TargetInUse, Answer, Answers, env, lists
  <2> QED BY <2>1, <2>2 DEF SInv
<1> QED BY <1>2, <1>3 DEF UnregisterServiceOrPort

LEMMA PurgeStep ==
    ASSUME SInv, NEW s \in Sessions, NEW p \in Pids, PurgeServices(s, p) PROVE SInv'
<1>1. services' \in SUBSET services /\ ~panicked /\ list[s] = "inUse"
  BY DEF PurgeServices, Remaining, Turn
<1>2. Core'
  BY <1>1, ShrunkCore DEF PurgeServices, SInv, lists
<1>3. Rest' /\ TargetInUse'
  BY <1>1 DEF PurgeServices, SInv, Rest, EnvTypes, TargetInUse, Answer, Answers, lists
<1> QED BY <1>2, <1>3 DEF SInv

LEMMA GetStep ==
    ASSUME SInv, NEW s \in Sessions, NEW named \in BOOLEAN, NEW name \in Names, NEW flags \in {0, 1},
           Get(s, named, name, flags)
    PROVE  SInv'
<1>1. /\ list[s] = "inUse" /\ ~panicked /\ ~isSrvPm[s] /\ word4' = flags /\ word4' \in Words
      /\ Serve(s, named, name, flags) /\ wakeCount' = wakeCount
  BY DEF Get, Idle, Turn, Words
<1>2. [named |-> named, name |-> name, flags |-> flags] \in Requests \ {NoRequest}
  BY ServicesAssumption DEF Requests, NoRequest
<1>3. Outcome(named, name, flags) \in Waiting =>
        asked' = [asked EXCEPT ![s] = [named |-> named, name |-> name, flags |-> flags]]
  BY DEF Get
<1> QED BY <1>1, <1>2, <1>3, ServeCore DEF SInv

(* A request put off that is served again. *)
LEMMA ResumeStep ==
    ASSUME SInv, ~panicked, NEW s \in Sessions, list[s] \in {"toWake", "waitPort"},
           Serve(s, replay[s].named, replay[s].name, word4), UNCHANGED word4,
           wakeCount' = IF list[s] = "toWake" THEN wakeCount - 1 ELSE wakeCount,
           Outcome(replay[s].named, replay[s].name, word4) \in Waiting => UNCHANGED asked
    PROVE  SInv'
<1>1. replay[s].named \in BOOLEAN /\ replay[s].name \in Names \cup {Garbled}
  BY DEF SInv, Core, CoreTypes, Commands
<1>2. list[s] \in Waiting /\ ~isSrvPm[s]
  BY DEF SInv, Core, WaitersAreClients, Waiting
<1>3. asked[s] \in Requests \ {NoRequest} /\ asked = [asked EXCEPT ![s] = asked[s]]
  BY <1>2 DEF SInv, Core, CoreTypes, AskedIffWaiting
<1>4. word4' \in Words
  BY DEF SInv, Rest, EnvTypes
<1> QED BY <1>1, <1>2, <1>3, <1>4, ServeCore DEF SInv

LEMMA WakeUpStep == ASSUME SInv, WakeUp PROVE SInv'
<1>1. ~panicked /\ wakeCount > 0 /\ UNCHANGED word4
  BY DEF WakeUp, Turn
<1>2. On("toWake") # {}
  BY <1>1, FS_EmptySet DEF SInv, Core, WakeCountMatches
<1>3. PICK s \in Sessions :
        /\ IsFirst(s, On("toWake"))
        /\ wakeCount' = wakeCount - 1
        /\ Serve(s, replay[s].named, replay[s].name, word4)
        /\ Outcome(replay[s].named, replay[s].name, word4) \in Waiting => UNCHANGED asked
  BY <1>2 DEF WakeUp
<1>4. list[s] = "toWake"
  BY <1>3 DEF IsFirst, On
<1> QED BY <1>1, <1>3, <1>4, ResumeStep

LEMMA PortReadyStep == ASSUME SInv, NEW p \in Ports, PortReady(p) PROVE SInv'
<1>1. ~panicked /\ UNCHANGED <<word4, wakeCount>>
  BY DEF PortReady, Turn
<1>2. PICK s \in Sessions :
        /\ IsFirst(s, {t \in On("waitPort") : busyPort[t] = p})
        /\ Serve(s, replay[s].named, replay[s].name, word4)
        /\ Outcome(replay[s].named, replay[s].name, word4) \in Waiting => UNCHANGED asked
  BY DEF PortReady
<1>3. list[s] = "waitPort"
  BY <1>2 DEF IsFirst, On
<1> QED BY <1>1, <1>2, <1>3, ResumeStep
(* With a pool as large as the two ports allow, Accept finds a free session. *)
LEMMA PoolNeverEmpty ==
    ASSUME Core, NEW pm \in BOOLEAN, On("free") = {},
           Cardinality(Held(pm)) < (IF pm THEN SrvPmMax ELSE SrvMax)
    PROVE  ~PoolSuffices
<1> DEFINE a == Held(TRUE)
           b == Held(FALSE)
<1>1. a \cup b = Sessions /\ a \cap b = {}
  <2>1. \A t \in Sessions : list[t] # "free" /\ isSrvPm[t] \in BOOLEAN
    BY DEF On, Core, CoreTypes
  <2> QED BY <2>1 DEF Held
<1>2. IsFiniteSet(a) /\ IsFiniteSet(b) /\ Cardinality(a) \in Nat /\ Cardinality(b) \in Nat
  BY FiniteParts DEF Held
<1>3. Cardinality(a) <= SrvPmMax /\ Cardinality(b) <= SrvMax
  BY DEF Core, Population
<1>4. Cardinality(a) < SrvPmMax \/ Cardinality(b) < SrvMax
  <2>1. CASE pm
    BY <2>1
  <2>2. CASE ~pm
    BY <2>2
  <2> QED BY <2>1, <2>2
<1> HIDE DEF a, b
<1>5. Cardinality(Sessions) = Cardinality(a) + Cardinality(b)
  <2>1. Cardinality(a \cup b) = Cardinality(a) + Cardinality(b) - Cardinality(a \cap b)
    BY <1>2, FS_Union, Zenon
  <2>2. Cardinality(a \cap b) = 0
    BY <1>1, FS_EmptySet
  <2>3. Cardinality(a \cup b) = Cardinality(Sessions)
    BY <1>1, Zenon
  <2> QED BY <1>2, <2>1, <2>2, <2>3
<1>6. \A x, y \in Nat : x <= SrvPmMax /\ y <= SrvMax /\ (x < SrvPmMax \/ y < SrvMax)
                          => ~(SrvMax + SrvPmMax <= x + y)
  BY Limits
<1>7. ~(SrvMax + SrvPmMax <= Cardinality(a) + Cardinality(b))
  BY <1>2, <1>3, <1>4, <1>6, Zenon
<1> QED BY <1>5, <1>7, Zenon DEF PoolSuffices

LEMMA AcceptStep == ASSUME SInv, NEW pm \in BOOLEAN, Accept(pm) PROVE SInv'
<1>1. /\ ~panicked /\ UNCHANGED <<word4, port>>
      /\ Cardinality(Held(pm)) < (IF pm THEN SrvPmMax ELSE SrvMax)
  BY DEF Accept, Turn, Held
<1>2. CASE On("free") = {} /\ Panic
  <2>1. Core'
    BY <1>1, <1>2, PoolNeverEmpty, PanicCore DEF SInv
  <2>2. Rest' /\ TargetInUse'
    BY <1>1, <1>2 DEF Panic, SInv, Rest, EnvTypes, TargetInUse, lists
  <2> QED BY <2>1, <2>2 DEF SInv
<1>3. ASSUME NEW s \in On("free"), list' = [list EXCEPT ![s] = "inUse"],
             sessionPid' = [sessionPid EXCEPT ![s] = NoPid],
             isSrvPm' = [isSrvPm EXCEPT ![s] = pm], NoAnswer,
             UNCHANGED <<before, replay, busyPort, services, wakeCount, panicked, asked, closed,
                         alive>>
      PROVE  SInv'
  <2>1. s \in Sessions /\ list[s] = "free" /\ Core /\ Rest
    BY <1>3 DEF On, SInv
  <2>2. /\ \A t \in Sessions : list'[t] = IF t = s THEN "inUse" ELSE list[t]
        /\ \A t \in Sessions : isSrvPm'[t] = IF t = s THEN pm ELSE isSrvPm[t]
        /\ list' \in [Sessions -> ListNames] /\ isSrvPm' \in [Sessions -> BOOLEAN]
    BY <1>3, <2>1 DEF Core, CoreTypes, ListNames
  <2>3. WaitingListsOrdered'
    <3>1. \A u, t \in Sessions : t \in before[u] => u # s /\ t # s
      BY <2>1 DEF Core, WaitingListsOrdered, Waiting
    <3>2. \A u, t \in Sessions : t \in before[u] => list'[t] = list'[u] /\ list'[u] \in Waiting
      BY <2>1, <2>2, <3>1 DEF Core, WaitingListsOrdered
    <3>3. \A u, t \in Sessions : u # t /\ list'[u] = list'[t] /\ list'[u] \in Waiting
             => u # s /\ t # s
      BY <2>2 DEF Waiting
    <3>4. \A u, t \in Sessions : u # t /\ list'[u] = list'[t] /\ list'[u] \in Waiting
             => (u \in before[t] <=> t \notin before[u])
      BY <2>1, <2>2, <3>3 DEF Core, WaitingListsOrdered
    <3> QED BY <1>3, <3>2, <3>4 DEF WaitingListsOrdered
  <2>4. Population'
    <3>1. Held(pm)' = Held(pm) \cup {s} /\ s \notin Held(pm)
      BY <2>1, <2>2 DEF Held
    <3>2. Held(~pm)' = Held(~pm)
      BY <2>1, <2>2 DEF Held
    <3>3. IsFiniteSet(Held(pm)) /\ Cardinality(Held(pm)) \in Nat
      BY FiniteParts DEF Held
    <3>4. Cardinality(Held(pm)') = Cardinality(Held(pm)) + 1
      BY <3>1, <3>3, FS_AddElement
    <3>5. CASE pm = TRUE
      <4>0. Cardinality(Held(TRUE)) < SrvPmMax /\ Cardinality(Held(TRUE)) \in Nat
            /\ Cardinality(Held(TRUE)') = Cardinality(Held(TRUE)) + 1
        BY <1>1, <3>3, <3>4, <3>5
      <4>a. \A x \in Nat : x < SrvPmMax => x + 1 <= SrvPmMax
        BY Limits
      <4>1. Cardinality(Held(TRUE)') <= SrvPmMax
        BY <4>0, <4>a, Zenon
      <4>2. Cardinality(Held(FALSE)') <= SrvMax
        BY <2>1, <3>2, <3>5 DEF Core, Population
      <4> QED BY <4>1, <4>2 DEF Population
    <3>6. CASE pm = FALSE
      <4>0. Cardinality(Held(FALSE)) < SrvMax /\ Cardinality(Held(FALSE)) \in Nat
            /\ Cardinality(Held(FALSE)') = Cardinality(Held(FALSE)) + 1
        BY <1>1, <3>3, <3>4, <3>6
      <4>a. \A x \in Nat : x < SrvMax => x + 1 <= SrvMax
        BY Limits
      <4>1. Cardinality(Held(FALSE)') <= SrvMax
        BY <4>0, <4>a, Zenon
      <4>2. Cardinality(Held(TRUE)') <= SrvPmMax
        BY <2>1, <3>2, <3>6 DEF Core, Population
      <4> QED BY <4>1, <4>2 DEF Population
    <3> QED BY <3>5, <3>6
  <2>5. asked[s] = NoRequest
    BY <2>1 DEF Core, AskedIffWaiting, Waiting
  <2>6. list'[s] = "inUse" /\ list'[s] \notin Waiting
    BY <2>1, <2>2 DEF Waiting
  <2>7. Core'
    BY <1>1, <1>3, <2>1, <2>2, <2>3, <2>4, <2>5, <2>6, MovedCore DEF Core, CoreTypes
  <2>8. Rest' /\ TargetInUse'
    BY <1>1, <1>3, <2>1, ServicesAssumption DEF Rest, EnvTypes, TargetInUse, NoAnswer, Answers
  <2> QED BY <2>7, <2>8 DEF SInv
<1> QED BY <1>2, <1>3 DEF Accept

LEMMA SessionClosedStep == ASSUME SInv, NEW s \in Sessions, SessionClosed(s) PROVE SInv'
<1>1. /\ ~panicked /\ list[s] = "inUse" /\ Detach(s, "free") /\ NoAnswer
      /\ closed' = [closed EXCEPT ![s] = FALSE]
      /\ sessionPid' = [sessionPid EXCEPT ![s] = NoPid]
      /\ isSrvPm' = [isSrvPm EXCEPT ![s] = FALSE]
      /\ UNCHANGED <<replay, busyPort, services, word4, wakeCount, panicked, asked, port, alive>>
  BY DEF SessionClosed
<1>2. Core /\ Rest
  BY DEF SInv
<1>3. /\ list' \in [Sessions -> ListNames] /\ before' \in [Sessions -> SUBSET Sessions]
      /\ WaitingListsOrdered'
  BY <1>1, <1>2, DetachOrdered DEF Core, CoreTypes
<1>4. /\ \A t \in Sessions : list'[t] = IF t = s THEN "free" ELSE list[t]
      /\ \A t \in Sessions : isSrvPm'[t] = IF t = s THEN FALSE ELSE isSrvPm[t]
      /\ isSrvPm' \in [Sessions -> BOOLEAN]
  BY <1>1, <1>2 DEF Detach, Core, CoreTypes
<1>5. Population'
  <2>1. ASSUME NEW pm \in BOOLEAN
        PROVE  /\ Cardinality(Held(pm)') <= Cardinality(Held(pm))
               /\ Cardinality(Held(pm)') \in Nat /\ Cardinality(Held(pm)) \in Nat
    <3>1. Held(pm)' \in SUBSET Held(pm) /\ Held(pm) \in SUBSET Sessions
      BY <1>4 DEF Held
    <3>2. IsFiniteSet(Held(pm)) /\ IsFiniteSet(Held(pm)')
      BY <3>1, FiniteParts, FS_Subset, Zenon
    <3> QED BY <3>1, <3>2, FS_Subset, FS_CardinalityType, Zenon
  <2>2. Cardinality(Held(FALSE)) <= SrvMax /\ Cardinality(Held(TRUE)) <= SrvPmMax
    BY <1>2 DEF Core, Population
  <2>3. \A a, b, c \in Nat : a <= b /\ b <= c => a <= c
    OBVIOUS
  <2> QED BY <2>1, <2>2, <2>3, Limits, Zenon DEF Population
<1>6. asked[s] = NoRequest
  BY <1>1, <1>2 DEF Core, AskedIffWaiting, Waiting
<1>7. list'[s] = "free" /\ list'[s] \notin Waiting
  BY <1>4 DEF Waiting
<1>8. Core'
  BY <1>1, <1>2, <1>3, <1>4, <1>5, <1>6, <1>7, MovedCore DEF Core, CoreTypes
<1>9. Rest' /\ TargetInUse'
  BY <1>1, <1>2, ServicesAssumption DEF Rest, EnvTypes, TargetInUse, NoAnswer, Answers
<1> QED BY <1>8, <1>9 DEF SInv

LEMMA PortClosedStep == ASSUME SInv, NEW p \in Ports, PortClosed(p) PROVE SInv'
<1> DEFINE S == {s \in On("waitPort") : busyPort[s] = p}
<1>1. /\ ~panicked /\ MoveToBack(S, "waitRegister") /\ NoAnswer
      /\ replay' = [s \in Sessions |-> IF s \in S THEN [replay[s] EXCEPT !.name = Garbled]
                                                  ELSE replay[s]]
      /\ busyPort' = [s \in Sessions |-> IF s \in S THEN NoPort ELSE busyPort[s]]
      /\ UNCHANGED <<sessionPid, isSrvPm, services, word4, wakeCount, panicked, asked, env>>
  BY DEF PortClosed, Turn
<1>2. Core /\ Rest
  BY DEF SInv
<1>3. S \in SUBSET Sessions /\ \A s \in S : list[s] = "waitPort"
  BY DEF On
<1> HIDE DEF S
<1>4. /\ list' \in [Sessions -> ListNames] /\ before' \in [Sessions -> SUBSET Sessions]
      /\ WaitingListsOrdered'
  BY <1>1, <1>2, <1>3, MoveOrdered DEF Core, CoreTypes, Waiting
<1>5. \A t \in Sessions : list'[t] = IF t \in S THEN "waitRegister" ELSE list[t]
  BY <1>1 DEF MoveToBack
<1>6. replay' \in [Sessions -> Commands]
  <2>1. \A t \in Sessions : [replay[t] EXCEPT !.name = Garbled] \in Commands
    BY <1>2 DEF Core, CoreTypes, Commands
  <2> QED BY <1>1, <1>2, <2>1 DEF Core, CoreTypes
<1>7. busyPort' \in [Sessions -> Ports \cup {NoPort}]
  BY <1>1, <1>2 DEF Core, CoreTypes
<1>8. CoreTypes' /\ UniqueNames' /\ TableOK'
  BY <1>1, <1>2, <1>4, <1>6, <1>7 DEF Core, CoreTypes, UniqueNames, TableOK
<1>9. WakeCountMatches'
  <2>1. On("toWake")' = On("toWake")
    BY <1>3, <1>5 DEF On
  <2> QED BY <1>1, <1>2, <2>1 DEF Core, WakeCountMatches
<1>10. AskedIffWaiting'
  BY <1>1, <1>2, <1>3, <1>5 DEF Core, AskedIffWaiting, Waiting
<1>11. NoLostWakeUp'
  <2>1. ASSUME NEW t \in Sessions, list'[t] = "waitRegister"
        PROVE  Find(replay'[t].named, replay'[t].name) = {}
    <3>1. CASE t \in S
      <4>1. replay'[t].name = Garbled
        BY <1>1, <1>2, <3>1 DEF Core, CoreTypes, Commands
      <4>2. \A e \in services : e.name # Garbled
        BY <1>2, ServicesAssumption DEF Core, CoreTypes, Entries
      <4> QED BY <4>1, <4>2 DEF Find
    <3>2. CASE t \notin S
      BY <1>1, <1>2, <1>5, <2>1, <3>2 DEF Core, NoLostWakeUp, On
    <3> QED BY <3>1, <3>2
  <2> QED BY <1>1, <2>1 DEF NoLostWakeUp, On, Find
<1>12. Population' /\ WaitersAreClients'
  <2>1. \A t \in Sessions : list'[t] = "free" <=> list[t] = "free"
    BY <1>3, <1>5
  <2> QED BY <1>1, <1>2, <1>3, <1>5, <2>1, HeldKept DEF Core, WaitersAreClients, Waiting
<1>13. OnlyInvalidHandlePanics'
  BY <1>1 DEF OnlyInvalidHandlePanics
<1>14. Core'
  BY <1>4, <1>8, <1>9, <1>10, <1>11, <1>12, <1>13 DEF Core
<1>15. Rest' /\ TargetInUse'
  BY <1>1, <1>2, ServicesAssumption DEF Rest, EnvTypes, TargetInUse, NoAnswer, Answers, env
<1> QED BY <1>14, <1>15 DEF SInv

LEMMA InvalidHandleStep == ASSUME SInv, InvalidHandle PROVE SInv'
<1>1. Core'
  BY PanicCore DEF InvalidHandle, SInv
<1>2. Rest' /\ TargetInUse'
  BY DEF InvalidHandle, Panic, SInv, Rest, EnvTypes, TargetInUse, lists
<1> QED BY <1>1, <1>2 DEF SInv

LEMMA EnvironmentStep == ASSUME SInv, Environment PROVE SInv'
<1>1. UNCHANGED coreVars /\ UNCHANGED <<sessionPid, word4, replyTarget, answer>>
  BY DEF Environment, ClientCloses, ServerClosesPort, ServiceSessionEnds, ProcessDies,
         EnvUnchanged, coreVars, lists
<1>2. Core'
  BY <1>1, CoreKept DEF SInv
<1>3. TargetInUse'
  BY <1>1 DEF SInv, TargetInUse, coreVars
<1>4. EnvTypes
  BY DEF SInv, Rest
<1>5. NoObject \in Objects /\ NoObject.used <= NoObject.max
  BY DEF NoObject, Objects
<1>6. ASSUME NEW s \in Sessions, ClientCloses(s) PROVE EnvTypes'
  BY <1>4, <1>6 DEF ClientCloses, EnvTypes
<1>7. ASSUME NEW p \in Ports, ServerClosesPort(p) PROVE EnvTypes'
  BY <1>4, <1>5, <1>7 DEF ServerClosesPort, EnvTypes
<1>8. ASSUME NEW p \in Ports, ServiceSessionEnds(p) PROVE EnvTypes'
  <2>1. /\ port[p].used > 0 /\ port' = [port EXCEPT ![p].used = @ - 1]
        /\ UNCHANGED <<closed, alive>>
    BY <1>8 DEF ServiceSessionEnds
  <2>2. port[p] \in Objects /\ port[p].used <= port[p].max
    BY <1>4 DEF EnvTypes
  <2>3. port[p].used \in Nat /\ port[p].max \in Nat
    BY <2>2, Limits DEF Objects
  <2>4. [port[p] EXCEPT !.used = @ - 1] \in Objects /\ port[p].used - 1 <= port[p].max
    BY <2>1, <2>2, <2>3 DEF Objects
  <2>5. \A q \in Ports : port'[q] = IF q = p THEN [port[p] EXCEPT !.used = @ - 1] ELSE port[q]
    BY <1>4, <2>1 DEF EnvTypes
  <2>6. port' \in [Ports -> Objects]
    BY <1>4, <2>1, <2>4 DEF EnvTypes
  <2>7. \A q \in Ports : port'[q].used <= port'[q].max
    BY <1>4, <2>2, <2>4, <2>5 DEF EnvTypes, Objects
  <2> QED BY <1>4, <2>1, <2>6, <2>7 DEF EnvTypes
<1>9. ASSUME NEW p \in Pids, ProcessDies(p) PROVE EnvTypes'
  <2>1. /\ alive' = [alive EXCEPT ![p] = "dead"]
        /\ closed' = [s \in Sessions |-> closed[s] \/ (list[s] # "free" /\ sessionPid[s] = p)]
        /\ port' = [q \in Ports |-> IF \E e \in services : e.pid = p /\ e.port = q
                                    THEN NoObject ELSE port[q]]
    BY <1>9 DEF ProcessDies
  <2>2. closed' \in [Sessions -> BOOLEAN] /\ alive' \in [Pids -> {"alive", "dead", "unregistered"}]
    BY <1>4, <2>1 DEF EnvTypes
  <2>3. \A q \in Ports : port'[q] \in Objects /\ port'[q].used <= port'[q].max
    BY <1>4, <1>5, <2>1 DEF EnvTypes
  <2>4. port' \in [Ports -> Objects]
    BY <2>1, <2>3
  <2> QED BY <2>2, <2>3, <2>4 DEF EnvTypes
<1>10. EnvTypes'
  BY <1>6, <1>7, <1>8, <1>9 DEF Environment
<1> QED BY <1>1, <1>2, <1>3, <1>10 DEF SInv, Rest

LEMMA ServicesInit == SInit => SInv
<1> SUFFICES ASSUME SInit PROVE SInv
  OBVIOUS
<1>1. CoreTypes
  BY DEF SInit, CoreTypes, ListNames, Commands, NoCommand, Requests, NoRequest
<1>2. WaitingListsOrdered
  BY DEF SInit, WaitingListsOrdered, Waiting
<1>3. UniqueNames /\ TableOK
  BY FS_EmptySet, Limits DEF SInit, UniqueNames, TableOK
<1>4. WakeCountMatches
  <2>1. On("toWake") = {}
    BY DEF On, SInit
  <2> QED BY <2>1, FS_EmptySet DEF WakeCountMatches, SInit
<1>5. AskedIffWaiting /\ NoLostWakeUp /\ WaitersAreClients /\ OnlyInvalidHandlePanics
  BY DEF SInit, AskedIffWaiting, NoLostWakeUp, WaitersAreClients, OnlyInvalidHandlePanics, On,
         Waiting
<1>6. Population
  <2>1. Held(FALSE) = {} /\ Held(TRUE) = {}
    BY DEF Held, SInit
  <2>2. Cardinality(Held(FALSE)) = 0 /\ Cardinality(Held(TRUE)) = 0
    BY <2>1, FS_EmptySet
  <2>3. 0 <= SrvMax /\ 0 <= SrvPmMax
    BY Limits
  <2> QED BY <2>2, <2>3, Zenon DEF Population
<1>7. Rest
  BY DEF SInit, Rest, EnvTypes, Objects, NoObject, Words, Answers
<1>8. TargetInUse
  BY ServicesAssumption DEF SInit, TargetInUse
<1> QED BY <1>1, <1>2, <1>3, <1>4, <1>5, <1>6, <1>7, <1>8 DEF SInv, Core

LEMMA ServicesNext == SInv /\ [SNext]_svars => SInv'
<1> SUFFICES ASSUME SInv, [SNext]_svars PROVE SInv'
  OBVIOUS
<1>1. ASSUME NEW s \in Sessions, ServiceCommand(s) PROVE SInv'
  <2>1. ASSUME NEW name \in Names, IsServiceRegistered(s, name) PROVE SInv'
    BY <2>1, RefuseStep DEF IsServiceRegistered, Idle, Answers, SInv, Rest
  <2> QED BY <1>1, <2>1, RegisterClientStep, RegisterServiceStep, RegisterPortStep,
             UnregisterStep, GetStep DEF ServiceCommand
<1>2. ASSUME NEW s \in Sessions, OtherCommand(s) PROVE SInv'
  BY <1>2, RefuseStep DEF OtherCommand, Answers
<1>3. ASSUME NEW s \in Sessions, NEW p \in Pids, PurgeServices(s, p) PROVE SInv'
  BY <1>3, PurgeStep
<1>4. CASE LoopEvent
  BY <1>4, AcceptStep, SessionClosedStep, PortClosedStep, PortReadyStep, WakeUpStep,
     InvalidHandleStep DEF LoopEvent
<1>5. CASE Environment
  BY <1>5, EnvironmentStep
<1>6. CASE UNCHANGED svars
  <2>1. Core'
    BY <1>6, CoreKept DEF svars, coreVars, lists, SInv
  <2>2. Rest' /\ TargetInUse'
    BY <1>6 DEF svars, env, lists, SInv, Rest, EnvTypes, TargetInUse
  <2> QED BY <2>1, <2>2 DEF SInv
<1> QED BY <1>1, <1>2, <1>3, <1>4, <1>5, <1>6 DEF SNext

(* The lists of main.c, the service table and the semaphore keep SInv.      *)
THEOREM ServicesCorrect == SSpec => []SInv
BY ServicesInit, ServicesNext, PTL DEF SSpec

-----------------------------------------------------------------------------
(* main.c and services.c: what the lists of sessions, the semaphore and the *)
(* clients that wait say agrees, whatever the number of sessions, names and *)
(* ports.                                                                   *)
THEOREM ServicesAgree == SSpec => []ServicesInv
BY ServicesCorrect, Parts, PTL

(* doRegisterServiceOrPort finds every session that waits for the name: the *)
(* request of none is left behind on the list.                              *)
THEOREM NothingLost == SSpec => []NoLostWakeUp
BY ServicesCorrect, Parts, PTL

(* The panics of main's loop: the pool of sessions and the semaphore are    *)
(* large enough, and every unit of the semaphore finds a session.  Only a   *)
(* port that is closed under the sessions waiting on it stops sm.           *)
THEOREM PoolAndSemaphoreSuffice == SSpec => []OnlyInvalidHandlePanics
BY ServicesCorrect, Parts, PTL

(* A step of sm takes a service out of the table only for a session of its  *)
(* owner, or when its owner is dead.                                        *)
LEMMA RemovalStep ==
    ASSUME SNext, NEW e \in services \ services'
    PROVE  \/ e.pid \in Pids /\ alive[e.pid] = "dead"
           \/ replyTarget' \in Sessions /\ sessionPid[replyTarget'] = e.pid
<1>1. ASSUME NEW s \in Sessions, NEW p \in Pids, PurgeServices(s, p)
      PROVE  e.pid \in Pids /\ alive[e.pid] = "dead"
  BY <1>1 DEF PurgeServices, Remaining
<1>2. ASSUME NEW s \in Sessions, NEW named \in BOOLEAN, NEW name \in Names,
             UnregisterServiceOrPort(s, named, name)
      PROVE  replyTarget' \in Sessions /\ sessionPid[replyTarget'] = e.pid
  BY <1>2 DEF UnregisterServiceOrPort, Refuse, IsOwner, Answer
<1>3. ASSUME NEW s \in Sessions, NEW named, NEW name, NEW p, AddEntry(s, named, name, p)
      PROVE  FALSE
  BY <1>3 DEF AddEntry, Panic
<1>4. ASSUME NEW s \in Sessions, ServiceCommand(s)
      PROVE  \E named \in BOOLEAN, name \in Names : UnregisterServiceOrPort(s, named, name)
  BY <1>3, <1>4 DEF ServiceCommand, RegisterClient, RegisterService, RegisterPort, NameTaken,
                    TableFull, IsServiceRegistered, Refuse, Get, Serve
<1>5. ASSUME NEW s \in Sessions, OtherCommand(s) PROVE FALSE
  BY <1>5 DEF OtherCommand, Refuse
<1>6. ~LoopEvent
  BY DEF LoopEvent, Accept, Panic, SessionClosed, PortClosed, PortReady, WakeUp, Serve,
         InvalidHandle
<1>7. ~Environment
  BY DEF Environment, ClientCloses, ServerClosesPort, ServiceSessionEnds, ProcessDies, EnvUnchanged
<1> QED BY <1>1, <1>2, <1>4, <1>5, <1>6, <1>7 DEF SNext

(* UnregisterServiceOrPort and UnregisterProcess: no process takes away the *)
(* service of another that is alive.                                        *)
THEOREM OwnersRemove == SSpec => RemovedByOwner
<1>1. [SNext]_svars => [\A e \in services \ services' :
          \/ e.pid \in Pids /\ alive[e.pid] = "dead"
          \/ replyTarget' \in Sessions /\ sessionPid[replyTarget'] = e.pid]_svars
  BY RemovalStep DEF svars
<1> QED BY <1>1, PTL DEF SSpec, RemovedByOwner
=============================================================================
