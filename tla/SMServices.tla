----------------------------- MODULE SMServices -----------------------------
(***************************************************************************)
(* The sessions and the service table of sm (main.c, services.c, srv.c):   *)
(* which list each session is on, the services and named ports that are    *)
(* registered, and the clients whose GetServiceHandle or GetPort is put    *)
(* off until the name is registered or the service has room.               *)
(*                                                                         *)
(* One action is one turn of main's loop: it delivers the reply of the     *)
(* turn before, receives one event and handles it to the end.  Clients,    *)
(* servers and the kernel act between two turns.                           *)
(*                                                                         *)
(* Fields no code reads before it writes them again are reset when they    *)
(* stop being read (replay and busyPort of a session in use, everything of *)
(* a free one): fewer states, the same behaviour.                          *)
(***************************************************************************)
EXTENDS Naturals, FiniteSets

CONSTANTS
    Sessions,    \* sessionDataPool
    Pids,        \* the processes
    NoPid,       \* (u32)-1, the pid of a session before RegisterClient
    Names,       \* names of services and ports
    Garbled,     \* a name overwritten with a result code
    Ports,       \* kernel port objects: bounds the ports that exist at once
    NoPort,
    NoSession,   \* replyTarget = 0
    MaxSessions, \* values a server passes as maxSessions
    MaxServices, \* slots of servicesInfo (0xA0)
    SrvMax,      \* sessions the kernel allows on "srv:" (64)
    SrvPmMax,    \* sessions the kernel allows on "srv:pm" (64)
    SemMax       \* maximum of the semaphore (64)

ASSUME ServicesAssumption ==
    /\ IsFiniteSet(Sessions)
    /\ NoPid \notin Pids /\ Garbled \notin Names
    /\ NoPort \notin Ports /\ NoSession \notin Sessions
    /\ MaxSessions \subseteq Nat \ {0}
    /\ MaxServices \in Nat /\ SrvMax \in Nat /\ SrvPmMax \in Nat
    /\ SemMax \in Nat /\ SrvMax <= SemMax

VARIABLES
    list,         \* session -> the list it is on (parent)
    before,       \* session -> the sessions ahead of it on a waiting list
    sessionPid,   \* session -> pid given by RegisterClient
    isSrvPm,      \* session -> accepted on srv:pm
    replay,       \* session -> words 0..3 of the command put off (replayCmdbuf)
    busyPort,     \* session -> busyClientPortHandle
    services,     \* servicesInfo[0 .. nbServices - 1]
    word4,        \* cmdbuf[4] of sm's thread
    wakeCount,    \* resumeGetServiceHandleOrPortRegisteredSemaphore
    replyTarget,  \* the session to answer at the next turn
    answer,       \* the result code of that answer
    panicked,     \* panic() or a failed assertSuccess stopped the process
    (* the environment *)
    closed,       \* session -> the client has closed its end
    asked,        \* session -> the command its client is blocked on
    port,         \* port -> [open: server end exists, max, used]
    alive         \* pid -> "alive", "dead", "unregistered" (by pm)

lists == <<list, before>>
env == <<closed, port, alive>>
svars == <<lists, sessionPid, isSrvPm, replay, busyPort, services, word4, wakeCount,
           replyTarget, answer, panicked, asked, env>>

ListNames == {"free", "inUse", "waitRegister", "toWake", "waitPort"}
Waiting == {"waitRegister", "toWake", "waitPort"}
Words == {0, 1} \cup MaxSessions
Commands == [named : BOOLEAN, name : Names \cup {Garbled}]
NoCommand == [named |-> FALSE, name |-> Garbled]
Requests == [named : BOOLEAN, name : Names \cup {Garbled}, flags : {0, 1}]
NoRequest == [named |-> FALSE, name |-> Garbled, flags |-> 0]
Entries == [named : BOOLEAN, name : Names, pid : Pids \cup {NoPid},
            port : Ports \cup {NoPort}]

NoObject == [open |-> FALSE, max |-> 1, used |-> 0]

On(l) == {s \in Sessions : list[s] = l}

-----------------------------------------------------------------------------
(* Lists.  The nodes of S, in their order, go to the end of the waiting     *)
(* list dst; on the free list and the list in use the order is not used.    *)

MoveToBackStillLinked(S, dst) ==   \* a mutant: the old neighbours keep their links
    /\ list' = [s \in Sessions |-> IF s \in S THEN dst ELSE list[s]]
    /\ before' = [s \in Sessions |->
                    IF s \in S THEN (On(dst) \ S) \cup (before[s] \cap S) ELSE before[s]]
MoveToBack(S, dst) ==
    /\ list' = [s \in Sessions |-> IF s \in S THEN dst ELSE list[s]]
    /\ before' = [s \in Sessions |->
                    IF s \in S THEN (On(dst) \ S) \cup (before[s] \cap S)
                               ELSE before[s] \ S]

Detach(s, dst) ==
    /\ list' = [list EXCEPT ![s] = dst]
    /\ before' = [t \in Sessions |-> IF t = s THEN {} ELSE before[t] \ {s}]

(* The first node of list l that satisfies P. *)
IsFirst(s, S) == s \in S /\ before[s] \cap S = {}

-----------------------------------------------------------------------------
(* The service table *)

Find(named, name) == {e \in services : e.named = named /\ e.name = name}

Full(p) == port[p].used >= port[p].max

Answer(s, r) == replyTarget' = s /\ answer' = r
NoAnswer == replyTarget' = NoSession /\ answer' = "none"

(* panic: the process stops. *)
Panic == /\ panicked' = TRUE
         /\ UNCHANGED <<lists, sessionPid, isSrvPm, replay, busyPort, services,
                        wakeCount, replyTarget, answer, asked, closed, alive>>

(* svcReplyAndReceive: a handle on the list that has been closed fails the  *)
(* call, and a reply to a client that is gone is reported before any other  *)
(* event.                                                                   *)
HandlesValid == \A s \in On("waitPort") : \E e \in services : e.port = busyPort[s]
ReplyFails == replyTarget \in Sessions /\ closed[replyTarget]
Turn == ~panicked /\ HandlesValid /\ ~ReplyFails

(* The sessions doRegisterServiceOrPort finds waiting for the name it adds, *)
(* and the units of the semaphore it releases for them.  The mutants wake   *)
(* those that wait for a service only; release none; or one too many.       *)
MatchingServices(named, name) ==
    {s \in On("waitRegister") : ~replay[s].named /\ replay[s].name = name}
Matching(named, name) ==
    {s \in On("waitRegister") : replay[s].named = named /\ replay[s].name = name}

UnitsNone(M) == 0
UnitsOneMore(M) == Cardinality(M) + 1
Units(M) == Cardinality(M)

(* doRegisterServiceOrPort, once the name is known to be free.              *)
AddEntry(s, named, name, p) ==
    LET M == Matching(named, name)
    IN  IF wakeCount + Units(M) > SemMax      \* svcReleaseSemaphore fails
        THEN Panic
        ELSE /\ services' = services \cup
                   {[named |-> named, name |-> name, pid |-> sessionPid[s], port |-> p]}
             /\ MoveToBack(M, "toWake")
             /\ wakeCount' = wakeCount + Units(M)
             /\ Answer(s, "ok")
             /\ UNCHANGED <<sessionPid, isSrvPm, replay, busyPort, panicked, asked,
                            closed, alive>>

-----------------------------------------------------------------------------
(* Commands of a srv: session.  Receiving a request also sets the words of  *)
(* the command buffer it carries.                                           *)

Idle(s) == list[s] = "inUse" /\ ~closed[s] /\ ~isSrvPm[s]

RegisterClient(s, p) ==
    /\ Turn /\ Idle(s)
    /\ alive[p] = "alive"
    /\ sessionPid' = [sessionPid EXCEPT ![s] = p]
    /\ Answer(s, "ok")
    /\ UNCHANGED <<lists, isSrvPm, replay, busyPort, services, word4, wakeCount,
                   panicked, asked, env>>

Refuse(s, r, w) ==
    /\ Answer(s, r)
    /\ word4' = w
    /\ UNCHANGED <<lists, sessionPid, isSrvPm, replay, busyPort, services, wakeCount,
                   panicked, asked, env>>

(* The checks a registration starts with.                                   *)
NameTaken(s, named, name, w) == Find(named, name) # {} /\ Refuse(s, "exists", w)
TableFull(s, named, name, w) == /\ Find(named, name) = {}
                                /\ Cardinality(services) >= MaxServices
                                /\ Refuse(s, "tableFull", w)
MayRegister(named, name) == Find(named, name) = {} /\ Cardinality(services) < MaxServices

(* Port objects svcCreatePort can still create: Ports bounds them.          *)
Fresh == {p \in Ports : ~port[p].open /\ \A e \in services : e.port # p}

RegisterService(s, name, max) ==
    /\ Turn /\ Idle(s)
    /\ \/ NameTaken(s, FALSE, name, max)
       \/ TableFull(s, FALSE, name, max)
       \/ MayRegister(FALSE, name) /\ Fresh = {} /\ Refuse(s, "exists", max)
       \/ \E p \in Fresh :
            /\ MayRegister(FALSE, name)
            /\ AddEntry(s, FALSE, name, p)
            /\ word4' = max
            /\ port' = [port EXCEPT ![p] = [open |-> TRUE, max |-> max, used |-> 0]]

RegisterPort(s, name) ==
    /\ Turn /\ Idle(s)
    /\ \/ NameTaken(s, TRUE, name, 0)
       \/ TableFull(s, TRUE, name, 0)
       \/ /\ MayRegister(TRUE, name)
          /\ AddEntry(s, TRUE, name, NoPort)
          /\ word4' = 0
          /\ UNCHANGED port

IsAnyOwner(s, e) == TRUE   \* a mutant
IsOwner(s, e) == e.pid = sessionPid[s]

(* Also closes the client end of the port, which sessions may be waiting on. *)
UnregisterServiceOrPort(s, named, name) ==
    /\ Turn /\ Idle(s)
    /\ \/ Find(named, name) = {} /\ Refuse(s, "notRegistered", word4)
       \/ \E e \in Find(named, name) :
            IF ~IsOwner(s, e) THEN Refuse(s, "notOwner", word4)
            ELSE /\ services' = services \ {e}
                 /\ Answer(s, "ok")
                 /\ UNCHANGED <<lists, sessionPid, isSrvPm, replay, busyPort,
                                word4, wakeCount, panicked, asked, env>>

-----------------------------------------------------------------------------
(* GetServiceHandle and GetPort, for a new request and for one put off.     *)

Outcome(named, name, flags) ==
    LET E == Find(named, name)
    IN  IF E = {} THEN IF named /\ flags = 0 THEN "notRegistered" ELSE "waitRegister"
        ELSE IF named THEN IF flags = 0 THEN "ok" ELSE "okNoHandle"
        ELSE LET p == (CHOOSE e \in E : TRUE).port
             IN  IF ~port[p].open THEN "portClosed"
                 ELSE IF ~Full(p) THEN "ok"
                 ELSE IF flags % 2 = 0 THEN "waitPort" ELSE "full"

PortOf(named, name) == (CHOOSE e \in Find(named, name) : TRUE).port

(* The session goes to the end of a waiting list and gets no answer ...     *)
(* (the mutant answers all the same)                                        *)
PutOffAnswered(s, dst, named, name) ==
    /\ MoveToBack({s}, dst)
    /\ replay' = [replay EXCEPT ![s] = [named |-> named, name |-> name]]
    /\ busyPort' = [busyPort EXCEPT ![s] =
                      IF dst = "waitPort" THEN PortOf(named, name) ELSE NoPort]
    /\ Answer(s, "notRegistered")
    /\ UNCHANGED port
PutOff(s, dst, named, name) ==
    /\ MoveToBack({s}, dst)
    /\ replay' = [replay EXCEPT ![s] = [named |-> named, name |-> name]]
    /\ busyPort' = [busyPort EXCEPT ![s] =
                      IF dst = "waitPort" THEN PortOf(named, name) ELSE NoPort]
    /\ NoAnswer
    /\ UNCHANGED port

(* ... or it is in use, with its answer.                                    *)
Complete(s, named, name, r) ==
    /\ Detach(s, "inUse")
    /\ busyPort' = [busyPort EXCEPT ![s] = NoPort]
    /\ Answer(s, r)
    /\ asked' = [asked EXCEPT ![s] = NoRequest]
    /\ replay' = [replay EXCEPT ![s] = NoCommand]
    /\ IF r = "ok" /\ ~named
       THEN port' = [port EXCEPT ![PortOf(named, name)].used = @ + 1]
       ELSE UNCHANGED port

Serve(s, named, name, flags) ==
    LET r == Outcome(named, name, flags)
    IN  /\ \/ r \in Waiting /\ PutOff(s, r, named, name)
           \/ r \notin Waiting /\ Complete(s, named, name, r)
        /\ UNCHANGED <<sessionPid, isSrvPm, services, panicked, closed, alive>>

Get(s, named, name, flags) ==
    /\ Turn /\ Idle(s)
    /\ word4' = flags
    /\ Serve(s, named, name, flags)
    /\ Outcome(named, name, flags) \in Waiting =>
         asked' = [asked EXCEPT ![s] = [named |-> named, name |-> name, flags |-> flags]]
    /\ UNCHANGED wakeCount

IsServiceRegistered(s, name) ==
    /\ Turn /\ Idle(s)
    /\ Refuse(s, IF Find(FALSE, name) = {} THEN "notRegistered" ELSE "ok", word4)

(* The commands of notifications.c and srv_pm.c and those that are refused  *)
(* because they are malformed leave the lists and the services alone; some  *)
(* carry or write a fifth word.                                             *)
OtherCommand(s) ==
    /\ Turn
    /\ list[s] = "inUse" /\ ~closed[s]
    /\ \E w \in Words, r \in {"ok", "invalidCommand"} : Refuse(s, r, w)

(* srv:pm command 4, which pm sends once a process has ended: the loop over *)
(* servicesInfo in UnregisterProcess.                                       *)
Remaining(p) == {e \in services : e.pid # p}

PurgeServices(s, p) ==
    /\ Turn
    /\ list[s] = "inUse" /\ ~closed[s] /\ isSrvPm[s]
    /\ alive[p] = "dead"
    /\ services' = Remaining(p)
    /\ alive' = [alive EXCEPT ![p] = "unregistered"]
    /\ Answer(s, "ok")
    /\ UNCHANGED <<lists, sessionPid, isSrvPm, replay, busyPort, word4, wakeCount,
                   panicked, asked, closed, port>>

-----------------------------------------------------------------------------
(* The other events of main's loop.                                         *)

Accept(pm) ==
    /\ Turn
    /\ Cardinality({s \in Sessions : list[s] # "free" /\ isSrvPm[s] = pm})
         < (IF pm THEN SrvPmMax ELSE SrvMax)
    /\ UNCHANGED <<word4, port>>
    /\ \/ On("free") = {} /\ Panic
       \/ \E s \in On("free") :
            /\ list' = [list EXCEPT ![s] = "inUse"]
            /\ sessionPid' = [sessionPid EXCEPT ![s] = NoPid]
            /\ isSrvPm' = [isSrvPm EXCEPT ![s] = pm]
            /\ NoAnswer
            /\ UNCHANGED <<before, replay, busyPort, services, wakeCount, panicked,
                           asked, closed, alive>>

(* A session in use whose client has closed its end.                        *)
SessionClosed(s) ==
    /\ ~panicked /\ HandlesValid
    /\ list[s] = "inUse" /\ closed[s]
    /\ ReplyFails => s = replyTarget
    /\ Detach(s, "free")
    /\ closed' = [closed EXCEPT ![s] = FALSE]
    /\ sessionPid' = [sessionPid EXCEPT ![s] = NoPid]
    /\ isSrvPm' = [isSrvPm EXCEPT ![s] = FALSE]
    /\ NoAnswer
    /\ UNCHANGED <<replay, busyPort, services, word4, wakeCount, panicked, asked,
                   port, alive>>

(* A port sessions wait on whose server end is gone.  The code overwrites   *)
(* the first word of the name, not a result code.                           *)
PortClosed(p) ==
    LET S == {s \in On("waitPort") : busyPort[s] = p}
    IN  /\ Turn
        /\ S # {} /\ ~port[p].open
        /\ MoveToBack(S, "waitRegister")
        /\ replay' = [s \in Sessions |-> IF s \in S THEN [replay[s] EXCEPT !.name = Garbled]
                                                    ELSE replay[s]]
        /\ busyPort' = [s \in Sessions |-> IF s \in S THEN NoPort ELSE busyPort[s]]
        /\ NoAnswer
        /\ UNCHANGED <<sessionPid, isSrvPm, services, word4, wakeCount, panicked, asked,
                       env>>

(* The semaphore: resume the first session whose name is now registered.    *)
(* The fifth word of the command is not restored.                           *)
WakeUp ==
    /\ Turn
    /\ wakeCount > 0
    /\ UNCHANGED word4
    /\ \/ On("toWake") = {} /\ Panic /\ UNCHANGED port
       \/ \E s \in Sessions :
            /\ IsFirst(s, On("toWake"))
            /\ wakeCount' = wakeCount - 1
            /\ Serve(s, replay[s].named, replay[s].name, word4)
            /\ Outcome(replay[s].named, replay[s].name, word4) \in Waiting => UNCHANGED asked

(* A full service has room again: resume the first session waiting on it.   *)
PortReady(p) ==
    /\ Turn
    /\ port[p].open /\ ~Full(p)
    /\ \E s \in Sessions :
         /\ IsFirst(s, {t \in On("waitPort") : busyPort[t] = p})
         /\ Serve(s, replay[s].named, replay[s].name, word4)
         /\ Outcome(replay[s].named, replay[s].name, word4) \in Waiting => UNCHANGED asked
    /\ UNCHANGED <<word4, wakeCount>>

(* One of the handles waited on has been closed: the call fails.            *)
InvalidHandle == ~panicked /\ ~HandlesValid /\ Panic /\ UNCHANGED <<word4, port>>

-----------------------------------------------------------------------------
(* The environment.                                                         *)

EnvUnchanged == UNCHANGED <<lists, sessionPid, isSrvPm, replay, busyPort, services, word4,
                            wakeCount, replyTarget, answer, panicked, asked>>

ClientCloses(s) ==
    /\ ~panicked /\ list[s] # "free" /\ ~closed[s]
    /\ closed' = [closed EXCEPT ![s] = TRUE]
    /\ EnvUnchanged /\ UNCHANGED <<port, alive>>

ServerClosesPort(p) ==
    /\ ~panicked /\ port[p].open
    /\ port' = [port EXCEPT ![p] = NoObject]
    /\ EnvUnchanged /\ UNCHANGED <<closed, alive>>

ServiceSessionEnds(p) ==
    /\ ~panicked /\ port[p].used > 0
    /\ port' = [port EXCEPT ![p].used = @ - 1]
    /\ EnvUnchanged /\ UNCHANGED <<closed, alive>>

(* The kernel closes a dead process's sessions and the ports it serves.     *)
ProcessDies(p) ==
    /\ ~panicked /\ alive[p] = "alive"
    /\ alive' = [alive EXCEPT ![p] = "dead"]
    /\ closed' = [s \in Sessions |-> closed[s] \/ (list[s] # "free" /\ sessionPid[s] = p)]
    /\ port' = [q \in Ports |->
                  IF \E e \in services : e.pid = p /\ e.port = q
                  THEN NoObject ELSE port[q]]
    /\ EnvUnchanged

-----------------------------------------------------------------------------
SInit ==
    /\ list = [s \in Sessions |-> "free"]
    /\ before = [s \in Sessions |-> {}]
    /\ sessionPid = [s \in Sessions |-> NoPid]
    /\ isSrvPm = [s \in Sessions |-> FALSE]
    /\ replay = [s \in Sessions |-> NoCommand]
    /\ busyPort = [s \in Sessions |-> NoPort]
    /\ services = {}
    /\ word4 = 0
    /\ wakeCount = 0
    /\ replyTarget = NoSession
    /\ answer = "none"
    /\ panicked = FALSE
    /\ closed = [s \in Sessions |-> FALSE]
    /\ asked = [s \in Sessions |-> NoRequest]
    /\ port = [p \in Ports |-> NoObject]
    /\ alive = [p \in Pids |-> "alive"]

ServiceCommand(s) ==
    \/ \E p \in Pids : RegisterClient(s, p)
    \/ \E name \in Names, max \in MaxSessions : RegisterService(s, name, max)
    \/ \E name \in Names : RegisterPort(s, name) \/ IsServiceRegistered(s, name)
    \/ \E named \in BOOLEAN, name \in Names : UnregisterServiceOrPort(s, named, name)
    \/ \E named \in BOOLEAN, name \in Names, flags \in {0, 1} : Get(s, named, name, flags)

LoopEvent ==
    \/ \E pm \in BOOLEAN : Accept(pm)
    \/ \E s \in Sessions : SessionClosed(s)
    \/ \E p \in Ports : PortClosed(p) \/ PortReady(p)
    \/ WakeUp
    \/ InvalidHandle

Environment ==
    \/ \E s \in Sessions : ClientCloses(s)
    \/ \E p \in Ports : ServerClosesPort(p) \/ ServiceSessionEnds(p)
    \/ \E p \in Pids : ProcessDies(p)

SNext == \/ \E s \in Sessions : ServiceCommand(s) \/ OtherCommand(s)
         \/ \E s \in Sessions, p \in Pids : PurgeServices(s, p)
         \/ LoopEvent
         \/ Environment

SSpec == SInit /\ [][SNext]_svars

(* svcReplyAndReceive returns the first handle that is signalled, and the   *)
(* semaphore is handles[0]: it is not passed over for ever.  A reply that   *)
(* failed is returned before anything else.                                 *)
SFairSpec == /\ SSpec
             /\ SF_svars(WakeUp)
             /\ \A s \in Sessions : WF_svars(ReplyFails /\ SessionClosed(s))
             /\ WF_svars(InvalidHandle)
-----------------------------------------------------------------------------
Answers == {"none", "ok", "okNoHandle", "exists", "tableFull", "notRegistered",
            "notOwner", "portClosed", "full", "invalidCommand"}

(* Each waiting list is a list: any two sessions on it are in one order,    *)
(* and a session is ahead of none that is not on its own list.              *)
WaitingListsOrdered ==
    \A s, t \in Sessions :
        /\ t \in before[s] => list[t] = list[s] /\ list[s] \in Waiting
        /\ s # t /\ list[s] = list[t] /\ list[s] \in Waiting
             => (s \in before[t] <=> t \notin before[s])

(* A name stands for at most one service and one port; the table does not   *)
(* overflow.                                                                *)
UniqueNames == /\ \A e, f \in services : e.named = f.named /\ e.name = f.name => e = f
               /\ Cardinality(services) <= MaxServices

(* Types, with the shape of the lists and of the table.                     *)
STypeOK ==
    /\ list \in [Sessions -> ListNames]
    /\ before \in [Sessions -> SUBSET Sessions]
    /\ sessionPid \in [Sessions -> Pids \cup {NoPid}]
    /\ isSrvPm \in [Sessions -> BOOLEAN]
    /\ replay \in [Sessions -> Commands]
    /\ busyPort \in [Sessions -> Ports \cup {NoPort}]
    /\ services \in SUBSET Entries
    /\ word4 \in Words
    /\ wakeCount \in Nat
    /\ replyTarget \in Sessions \cup {NoSession}
    /\ answer \in Answers
    /\ panicked \in BOOLEAN
    /\ closed \in [Sessions -> BOOLEAN]
    /\ asked \in [Sessions -> Requests]
    /\ port \in [Ports -> [open : BOOLEAN, max : MaxSessions \cup {1}, used : Nat]]
    /\ \A p \in Ports : port[p].used <= port[p].max
    /\ alive \in [Pids -> {"alive", "dead", "unregistered"}]
    /\ WaitingListsOrdered /\ UniqueNames

(* Every unit of the semaphore has a session to wake up and every session   *)
(* to wake up has its unit, so that the panic of main.c:186 is unreachable. *)
WakeCountMatches == wakeCount = Cardinality(On("toWake"))

(* A client that waits for an answer is on a waiting list, and the answer   *)
(* main is about to give goes to a session that is on none.                 *)
BlockedIffWaiting ==
    /\ \A s \in Sessions : asked[s] # NoRequest <=> list[s] \in Waiting
    /\ replyTarget \in Sessions => list[replyTarget] = "inUse"

(* The three together: lists, semaphore and what clients wait for agree.    *)
ServicesInv == STypeOK /\ WakeCountMatches /\ BlockedIffWaiting

(* No lost wake-up: the name of a session put off is not registered, unless *)
(* the wake-up is on its way.                                               *)
NoLostWakeUp == \A s \in On("waitRegister") : Find(replay[s].named, replay[s].name) = {}

(* A service disappears only at the hands of a session of its own process,  *)
(* or when that process is dead.                                            *)
RemovedByOwner ==
    [][\A e \in services \ services' :
          \/ e.pid \in Pids /\ alive[e.pid] = "dead"
          \/ replyTarget' \in Sessions /\ sessionPid[replyTarget'] = e.pid]_svars

(* The only way into panic() is a port handle closed under the sessions     *)
(* that wait on it; the pool and the semaphore suffice.                     *)
PoolSuffices == SrvMax + SrvPmMax <= Cardinality(Sessions)
OnlyInvalidHandlePanics == PoolSuffices /\ panicked => ~HandlesValid

(* "Update the command postponing reason accordingly": a session put off    *)
(* because its port closed is resumed like any other once the service is    *)
(* registered again.                                                        *)
ClosedPortSessionsResume ==
    \A s \in On("waitRegister"), e \in services :
        e.named = asked[s].named /\ e.name = asked[s].name => ~e.named /\ ~port[e.port].open

(* "Resume SRV:GetServiceHandle or GetPort": a command resumed is the       *)
(* command the client sent, so it is answered as that command would be.     *)
ResumedAsAsked ==
    [][\A s \in Sessions : list[s] \in Waiting /\ replyTarget' = s
          => answer' = Outcome(asked[s].named, asked[s].name, asked[s].flags)]_svars

(* panic(res): svcReplyAndReceive never fails but for a closed remote end.  *)
HandlesAlwaysValid == HandlesValid

(* A session woken up is resumed.                                           *)
WokenIsResumed ==
    \A s \in Sessions : list[s] = "toWake" ~> (list[s] # "toWake" \/ panicked)
=============================================================================
