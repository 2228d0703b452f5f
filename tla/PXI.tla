--------------------------------- MODULE PXI ---------------------------------
(***************************************************************************)
(* The pxi module: it passes the commands of ARM11 processes on to         *)
(* Process9 and the replies back.  Four threads: main accepts sessions,    *)
(* the sender talks to the clients and sends to Process9, the receiver     *)
(* takes what comes from Process9, and one handles the only commands that  *)
(* go the other way (pxi:srv11).                                           *)
(*                                                                         *)
(* The words of a command are sent under PXITransferMutex and read in one  *)
(* go, so that the FIFOs are seen as carrying whole commands.  senderLock  *)
(* is only released in svcReplyAndReceive.                                 *)
(***************************************************************************)
EXTENDS Integers, Sequences, FiniteSets, FiniteSetsExt

CONSTANTS
    Services,       \* 0 (pxi:mc) and others below Srv11
    Srv11,          \* the number of pxi:srv11
    Needs,          \* nbStaticBuffersByService
    NbBuffers,      \* NB_STATIC_BUFFERS
    Slots,          \* static buffers a thread can receive, 4
    Considerate,    \* pxi:mc's command 5 is sent when nothing else is being done,
                    \* and Process9 sends nothing after it was told that pxi ends
    MaxCommands     \* bounds the commands clients send

ASSUME PXIAssumption ==
    /\ 0 \in Services /\ Services \subseteq Nat /\ IsFiniteSet(Services)
    /\ Srv11 \in Nat \ Services
    /\ Needs \in [Services -> 0 .. Slots] /\ NbBuffers \in Nat /\ Slots \in Nat
    /\ Considerate \in BOOLEAN /\ MaxCommands \in Nat

VARIABLES
    state,          \* of sessionData[i]: "idle", "from arm11", "to arm9", "from arm9"
    open,           \* the sessions with a handle
    used,           \* their usedStaticBuffers
    currentlyProvidedStaticBuffers, freeStaticBuffers,
    scarce,         \* history: the services whose command came when fewer than
                    \* Slots static buffers were provided
    latest_PXI_MC5_val, pendingArm9Commands, sendingDisabled,
    sendAllBuffersToArm9Event, replySemaphore,
    PXISRV11CommandReceivedEvent, PXISRV11ReplySentEvent,
    terminationRequestedEvent, shouldTerminate,
    sender,         \* pc and replyTarget
    receiver, srv11Handler, mainThread,     \* where the other threads are
    panicked,
    client,         \* service -> what its client does
    kind,           \* service -> its command: "other", "stop" or "go on" (pxi:mc 5)
    commands,       \* how many the clients have sent
    arm9,           \* service -> commands Process9 has not replied to
    fromArm9        \* what Process9 has sent, by service

sessionVars == <<state, open, used>>
buffers == <<currentlyProvidedStaticBuffers, freeStaticBuffers, scarce>>
mc5 == <<latest_PXI_MC5_val, pendingArm9Commands, sendingDisabled>>
srv11Events == <<PXISRV11CommandReceivedEvent, PXISRV11ReplySentEvent>>
ending == <<terminationRequestedEvent, shouldTerminate>>
threads == <<receiver, srv11Handler, mainThread>>
clients == <<client, kind, commands>>
vars == <<sessionVars, buffers, mc5, sendAllBuffersToArm9Event, replySemaphore, srv11Events,
          ending, sender, threads, panicked, clients, arm9, fromArm9>>

None == -1
All == Services \cup {Srv11}
At(pc) == sender.pc = pc /\ ~panicked
Panic == panicked' = TRUE
Panicking == Panic /\ UNCHANGED <<sessionVars, buffers, mc5, sendAllBuffersToArm9Event,
                                  replySemaphore, srv11Events, ending, sender, threads, clients,
                                  arm9, fromArm9>>

(* clearMSBs: what is left of a set of buffers without its n highest.       *)
clearMSBs(S, n) == {x \in S : Cardinality({y \in S : y > x}) >= n}

(* acquireStaticBuffers, from the buffers `free'.                           *)
Acquire(free) ==
    /\ freeStaticBuffers' = clearMSBs(free, Slots)
    /\ currentlyProvidedStaticBuffers' = free \ clearMSBs(free, Slots)

-----------------------------------------------------------------------------
(* The sender                                                               *)

(* Sends what was received, unless sending is disabled; pxi:mc's command 5  *)
(* goes when it was the last to come and nothing else is pending.           *)
MaySend == sendingDisabled => pendingArm9Commands = 0 /\ latest_PXI_MC5_val # 0
Ready == {i \in open : state[i] = "from arm11"}
PendingAfterAll(sent) == pendingArm9Commands + Cardinality(sent)   \* a mutant
PendingAfter(sent) == IF sendingDisabled THEN pendingArm9Commands
                      ELSE pendingArm9Commands + Cardinality(sent)
SenderSends ==
    LET sent == IF MaySend THEN Ready ELSE {}
    IN  /\ At("send")
        /\ IF sender.replyTarget # None
           THEN UNCHANGED <<state, pendingArm9Commands, arm9>>
           ELSE /\ state' = [i \in All |-> IF i \in sent THEN "to arm9" ELSE state[i]]
                /\ arm9' = [i \in All |-> IF i \in sent THEN arm9[i] + 1 ELSE arm9[i]]
                /\ pendingArm9Commands' = PendingAfter(sent)
        /\ sender' = [sender EXCEPT !.pc = "reply"]
        /\ UNCHANGED <<open, used, buffers, latest_PXI_MC5_val, sendingDisabled,
                       sendAllBuffersToArm9Event, replySemaphore, srv11Events, ending, threads,
                       panicked, clients, fromArm9>>

(* svcReplyAndReceive replies, if there is someone to reply to.             *)
CloseSessionKeeping(i) ==   \* a mutant: the handle is kept
    /\ client' = [client EXCEPT ![i] = "absent"]
    /\ sender' = [pc |-> "send", replyTarget |-> None]
    /\ UNCHANGED open
CloseSession(i) ==
    /\ open' = open \ {i}
    /\ client' = [client EXCEPT ![i] = "absent"]
    /\ sender' = [pc |-> "send", replyTarget |-> None]
SenderReplies ==
    LET i == sender.replyTarget
    IN  /\ At("reply")
        /\ IF i # None /\ client[i] = "gone"
           THEN CloseSession(i)
           ELSE /\ client' = IF i = None THEN client ELSE [client EXCEPT ![i] = "quiet"]
                /\ sender' = [sender EXCEPT !.pc = "wait"]
                /\ UNCHANGED open
        /\ UNCHANGED <<state, used, buffers, mc5, sendAllBuffersToArm9Event, replySemaphore,
                       srv11Events, ending, threads, panicked, kind, commands, arm9, fromArm9>>

(* Then it waits: for the end, the main thread, the receiver and the idle   *)
(* sessions.                                                                *)
Idle(i) == i \in open /\ state[i] = "idle"
SenderTerminates ==
    /\ At("wait") /\ terminationRequestedEvent
    /\ sender' = [pc |-> "ended", replyTarget |-> None]
    /\ client' = [i \in Services |-> IF i \in open THEN "absent" ELSE client[i]]
    /\ open' = {}
    /\ UNCHANGED <<state, used, buffers, mc5, sendAllBuffersToArm9Event, replySemaphore,
                   srv11Events, ending, threads, panicked, kind, commands, arm9, fromArm9>>
SenderIsAwoken ==
    /\ At("wait") /\ sendAllBuffersToArm9Event
    /\ sendAllBuffersToArm9Event' = FALSE
    /\ sender' = [pc |-> "send", replyTarget |-> None]
    /\ UNCHANGED <<sessionVars, buffers, mc5, replySemaphore, srv11Events, ending, threads,
                   panicked, clients, arm9, fromArm9>>
SenderSeesClosed(i) ==
    /\ At("wait") /\ Idle(i) /\ client[i] = "gone"
    /\ CloseSession(i)
    /\ UNCHANGED <<state, used, buffers, mc5, sendAllBuffersToArm9Event, replySemaphore,
                   srv11Events, ending, threads, panicked, kind, commands, arm9, fromArm9>>

(* A reply: the first session that has one.                                 *)
Replied == {i \in Services : state[i] = "from arm9"}
PendingAfterReplyLess == pendingArm9Commands - 1   \* a mutant: that to command 5 counts
PendingAfterReply == IF latest_PXI_MC5_val = 0 THEN pendingArm9Commands - 1
                     ELSE pendingArm9Commands
SenderTakesReply ==
    LET i == Min(Replied)
        resumed == latest_PXI_MC5_val = 2
    IN  /\ At("wait") /\ replySemaphore > 0
        /\ IF Replied = {} \/ (resumed /\ pendingArm9Commands # 0) THEN Panicking
           ELSE /\ replySemaphore' = replySemaphore - 1
                /\ sendingDisabled' = (sendingDisabled /\ ~resumed)
                /\ pendingArm9Commands' = PendingAfterReply
                /\ freeStaticBuffers' = freeStaticBuffers \cup used[i]
                /\ used' = [used EXCEPT ![i] = {}]
                /\ state' = [state EXCEPT ![i] = "idle"]
                /\ sender' = [pc |-> "send", replyTarget |-> i]
                /\ UNCHANGED <<open, currentlyProvidedStaticBuffers, scarce, latest_PXI_MC5_val,
                               sendAllBuffersToArm9Event, srv11Events, ending, threads, panicked,
                               clients, arm9, fromArm9>>

(* A command: of the static buffers provided, those the service has no use  *)
(* for are given back, and new ones are provided.                           *)
KeptTooMany(i) == currentlyProvidedStaticBuffers   \* a mutant: none is given back
Kept(i) == clearMSBs(currentlyProvidedStaticBuffers, Slots - Needs[i])
SenderReceives(i) ==
    LET kept == Kept(i)
        wrong == \/ kind[i] = "stop" /\ sendingDisabled
                 \/ kind[i] = "go on" /\ ~sendingDisabled
    IN  /\ At("wait") /\ Idle(i) /\ client[i] = "sent"
        /\ IF wrong THEN Panicking
           ELSE /\ latest_PXI_MC5_val' = CASE kind[i] = "other" -> 0
                                           [] kind[i] = "stop" -> 1
                                           [] kind[i] = "go on" -> 2
                /\ sendingDisabled' = (sendingDisabled \/ kind[i] = "stop")
                /\ used' = [used EXCEPT ![i] = kept]
                /\ scarce' = IF Cardinality(currentlyProvidedStaticBuffers) < Slots
                             THEN scarce \cup {i} ELSE scarce \ {i}
                /\ Acquire(freeStaticBuffers \cup (currentlyProvidedStaticBuffers \ kept))
                /\ state' = [state EXCEPT ![i] = "from arm11"]
                /\ client' = [client EXCEPT ![i] = "waiting"]
                /\ sender' = [pc |-> "send", replyTarget |-> None]
                /\ UNCHANGED <<open, pendingArm9Commands, sendAllBuffersToArm9Event,
                               replySemaphore, srv11Events, ending, threads, panicked, kind,
                               commands, arm9, fromArm9>>

Sender == \/ SenderSends \/ SenderReplies \/ SenderTerminates \/ SenderIsAwoken \/ SenderTakesReply
          \/ \E i \in Services : SenderSeesClosed(i) \/ SenderReceives(i)

-----------------------------------------------------------------------------
(* The receiver                                                             *)

(* receiveFromArm9.  The reply to the command that ends pxi is not passed   *)
(* on; after a command for pxi:srv11 the receiver waits for its reply.      *)
EndsNever(i) == FALSE   \* a mutant
Ends(i) == i = 0 /\ shouldTerminate
ReceiverGets ==
    LET i == Head(fromArm9)
    IN  /\ receiver = "wait" /\ fromArm9 # <<>> /\ ~panicked
        /\ IF state[i] # "to arm9" THEN Panicking
           ELSE /\ fromArm9' = Tail(fromArm9)
                /\ state' = [state EXCEPT ![i] = "from arm9"]
                /\ \/ /\ Ends(i)
                      /\ terminationRequestedEvent' = TRUE
                      /\ UNCHANGED <<replySemaphore, PXISRV11CommandReceivedEvent, receiver>>
                   \/ /\ i # Srv11 /\ ~Ends(i)
                      /\ replySemaphore' = replySemaphore + 1
                      /\ UNCHANGED <<terminationRequestedEvent, PXISRV11CommandReceivedEvent,
                                     receiver>>
                   \/ /\ i = Srv11
                      /\ PXISRV11CommandReceivedEvent' = TRUE
                      /\ receiver' = "srv11"
                      /\ UNCHANGED <<terminationRequestedEvent, replySemaphore>>
                /\ UNCHANGED <<open, used, buffers, mc5, sendAllBuffersToArm9Event,
                               PXISRV11ReplySentEvent, shouldTerminate, sender, srv11Handler,
                               mainThread, panicked, clients, arm9>>
ReceiverGoesOn ==
    /\ receiver \in {"start", "srv11"} /\ PXISRV11ReplySentEvent /\ ~panicked
    /\ PXISRV11ReplySentEvent' = FALSE
    /\ panicked' = (state[Srv11] # "to arm9")
    /\ receiver' = "wait"
    /\ UNCHANGED <<sessionVars, buffers, mc5, sendAllBuffersToArm9Event, replySemaphore,
                   PXISRV11CommandReceivedEvent, ending, sender, srv11Handler, mainThread,
                   clients, arm9, fromArm9>>
ReceiverTerminates ==
    /\ receiver = "wait" /\ terminationRequestedEvent /\ ~panicked
    /\ receiver' = "ended"
    /\ UNCHANGED <<sessionVars, buffers, mc5, sendAllBuffersToArm9Event, replySemaphore,
                   srv11Events, ending, sender, srv11Handler, mainThread, panicked, clients,
                   arm9, fromArm9>>
Receiver == ReceiverGets \/ ReceiverGoesOn \/ ReceiverTerminates

(* PXISRV11Handler: what Process9 asks for is published to sm, and answered. *)
Srv11Starts ==
    /\ srv11Handler = "start" /\ ~panicked
    /\ state' = [state EXCEPT ![Srv11] = "to arm9"]
    /\ PXISRV11ReplySentEvent' = TRUE
    /\ srv11Handler' = "wait"
    /\ UNCHANGED <<open, used, buffers, mc5, sendAllBuffersToArm9Event, replySemaphore,
                   PXISRV11CommandReceivedEvent, ending, sender, receiver, mainThread, panicked,
                   clients, arm9, fromArm9>>
Srv11Answers ==
    /\ srv11Handler = "wait" /\ PXISRV11CommandReceivedEvent /\ ~panicked
    /\ IF state[Srv11] # "from arm9" THEN Panicking
       ELSE /\ PXISRV11CommandReceivedEvent' = FALSE
            /\ PXISRV11ReplySentEvent' = TRUE
            /\ state' = [state EXCEPT ![Srv11] = "to arm9"]
            /\ arm9' = [arm9 EXCEPT ![Srv11] = @ + 1]
            /\ UNCHANGED <<open, used, buffers, mc5, sendAllBuffersToArm9Event, replySemaphore,
                           ending, sender, threads, panicked, clients, fromArm9>>
Srv11Terminates ==
    /\ srv11Handler = "wait" /\ terminationRequestedEvent /\ ~panicked
    /\ ~PXISRV11CommandReceivedEvent       \* it comes first among the handles
    /\ srv11Handler' = "ended"
    /\ UNCHANGED <<sessionVars, buffers, mc5, sendAllBuffersToArm9Event, replySemaphore,
                   srv11Events, ending, sender, receiver, mainThread, panicked, clients, arm9,
                   fromArm9>>
Srv11Thread == Srv11Starts \/ Srv11Answers \/ Srv11Terminates

-----------------------------------------------------------------------------
(* The main thread                                                          *)

(* It takes senderLock, which the sender lets go of only while it waits.    *)
Accept(i) ==
    /\ mainThread = "serve" /\ client[i] = "connecting" /\ ~panicked
    /\ sender.pc \in {"wait", "ended"}
    /\ IF i \in open THEN Panicking
       ELSE /\ open' = open \cup {i}
            /\ client' = [client EXCEPT ![i] = "quiet"]
            /\ sendAllBuffersToArm9Event' = TRUE
            /\ UNCHANGED <<state, used, buffers, mc5, replySemaphore, srv11Events, ending, sender,
                           threads, panicked, kind, commands, arm9, fromArm9>>
(* Notification 0x100, which pm sends after everybody else has ended.       *)
Terminate ==
    /\ mainThread = "serve" /\ ~panicked
    /\ \A i \in Services : client[i] \in {"absent", "quiet"}
    /\ shouldTerminate' = TRUE
    /\ mainThread' = "join"
    /\ state' = [state EXCEPT ![0] = "to arm9"]
    /\ arm9' = [arm9 EXCEPT ![0] = @ + 1]
    /\ UNCHANGED <<open, used, buffers, mc5, sendAllBuffersToArm9Event, replySemaphore,
                   srv11Events, terminationRequestedEvent, sender, receiver, srv11Handler,
                   panicked, clients, fromArm9>>
Joined ==
    /\ mainThread = "join"
    /\ sender.pc = "ended" /\ receiver = "ended" /\ srv11Handler = "ended"
    /\ mainThread' = "ended"
    /\ UNCHANGED <<sessionVars, buffers, mc5, sendAllBuffersToArm9Event, replySemaphore,
                   srv11Events, ending, sender, receiver, srv11Handler, panicked, clients, arm9,
                   fromArm9>>
Main == Terminate \/ Joined \/ \E i \in Services : Accept(i)

-----------------------------------------------------------------------------
(* Clients and Process9                                                     *)

Does(i, what) == client' = [client EXCEPT ![i] = what]
ClientStep ==
    /\ UNCHANGED <<sessionVars, buffers, mc5, sendAllBuffersToArm9Event, replySemaphore,
                   srv11Events, ending, sender, threads, panicked, arm9, fromArm9>>
    /\ ~shouldTerminate /\ ~panicked
Connect(i) == client[i] = "absent" /\ Does(i, "connecting") /\ ClientStep
              /\ UNCHANGED <<kind, commands>>
Quiet(S) == \A i \in S : client[i] \in {"absent", "quiet", "connecting"}
Send(i, k) ==
    /\ ClientStep /\ client[i] = "quiet" /\ commands < MaxCommands
    /\ k # "other" => i = 0
    /\ Considerate => /\ k # "other" => Quiet(Services)
                      /\ k = "stop" => ~sendingDisabled
                      /\ k = "go on" => sendingDisabled
                      /\ k = "other" => ~sendingDisabled
                                        /\ (kind[0] = "other" \/ client[0] \in {"absent", "quiet"})
    /\ kind' = [kind EXCEPT ![i] = k]
    /\ commands' = commands + 1
    /\ Does(i, "sent")
Leave(i) == client[i] \in {"quiet", "waiting"} /\ Does(i, "gone") /\ ClientStep
            /\ UNCHANGED <<kind, commands>>

Arm9Step == UNCHANGED <<sessionVars, buffers, mc5, sendAllBuffersToArm9Event, replySemaphore,
                        srv11Events, ending, sender, threads, panicked, clients>>
Arm9Replies(i) ==
    /\ arm9[i] > 0 /\ i # Srv11 /\ Arm9Step
    /\ arm9' = [arm9 EXCEPT ![i] = @ - 1]
    /\ fromArm9' = Append(fromArm9, i)
(* It sends pxi:srv11 one command at a time; when it is considerate, none   *)
(* after it was told that pxi ends: nobody would answer.                    *)
Arm9Commands ==
    /\ Arm9Step /\ arm9[Srv11] > 0
    /\ Considerate => ~shouldTerminate
    /\ arm9' = [arm9 EXCEPT ![Srv11] = @ - 1]
    /\ fromArm9' = Append(fromArm9, Srv11)

Environment == \/ \E i \in Services : \/ Connect(i) \/ Leave(i)
                                      \/ \E k \in {"other", "stop", "go on"} : Send(i, k)
               \/ Arm9Commands
Arm9 == \E i \in Services : Arm9Replies(i)

PXIInit ==
    /\ state = [i \in All |-> "idle"] /\ open = {} /\ used = [i \in Services |-> {}]
    /\ freeStaticBuffers = clearMSBs(1 .. NbBuffers, Slots)
    /\ currentlyProvidedStaticBuffers = (1 .. NbBuffers) \ clearMSBs(1 .. NbBuffers, Slots)
    /\ scarce = {}
    /\ latest_PXI_MC5_val = 0 /\ pendingArm9Commands = 0 /\ sendingDisabled = FALSE
    /\ sendAllBuffersToArm9Event = FALSE /\ replySemaphore = 0
    /\ PXISRV11CommandReceivedEvent = FALSE /\ PXISRV11ReplySentEvent = FALSE
    /\ terminationRequestedEvent = FALSE /\ shouldTerminate = FALSE
    /\ sender = [pc |-> "send", replyTarget |-> None]
    /\ receiver = "start" /\ srv11Handler = "start" /\ mainThread = "serve"
    /\ panicked = FALSE
    /\ client = [i \in Services |-> "absent"] /\ kind = [i \in Services |-> "other"]
    /\ commands = 0
    /\ arm9 = [i \in All |-> IF i = Srv11 THEN 1 ELSE 0]
    /\ fromArm9 = <<>>

Next == \/ Sender \/ Receiver \/ Srv11Thread \/ Main \/ Environment \/ Arm9

(* The threads are scheduled and Process9 replies; the reply semaphore      *)
(* comes before the sessions among the handles the sender waits for.        *)
Fairness == /\ WF_vars(Sender) /\ SF_vars(SenderTakesReply) /\ WF_vars(Receiver)
            /\ WF_vars(Srv11Thread) /\ WF_vars(Joined)
            /\ \A i \in Services : WF_vars(Arm9Replies(i))
PXISpec == PXIInit /\ [][Next]_vars
FairPXI == PXISpec /\ Fairness

-----------------------------------------------------------------------------
(* Types; the replies counted and the commands counted are not more than    *)
(* the services.                                                            *)
PXITypeOK ==
    /\ state \in [All -> {"idle", "from arm11", "to arm9", "from arm9"}]
    /\ open \subseteq Services /\ used \in [Services -> SUBSET (1 .. NbBuffers)]
    /\ latest_PXI_MC5_val \in 0 .. 2
    /\ {replySemaphore, pendingArm9Commands} \subseteq 0 .. Cardinality(Services)
    /\ sender.replyTarget \in Services \cup {None}

(* pendingArm9Commands, on which command 5 of pxi:mc depends, is the number *)
(* of commands Process9 has or has replied to, unless sending is disabled.  *)
PendingCounted ==
    ~sendingDisabled /\ ~shouldTerminate =>
        pendingArm9Commands = Cardinality({i \in Services : state[i] \in {"to arm9", "from arm9"}})

(* A command that came when as many static buffers were provided as a       *)
(* command can use has those its service needs while it is being processed. *)
(* No buffer of a command is free, provided for the next or another's.      *)
BuffersOwned ==
    /\ \A i \in Services \ scarce :
            state[i] \in {"from arm11", "to arm9"} /\ ~shouldTerminate =>
                Cardinality(used[i]) = Needs[i]
    /\ \A i \in Services : used[i] \cap (freeStaticBuffers \cup currentlyProvidedStaticBuffers
                                         \cup UNION {used[j] : j \in Services \ {i}}) = {}
    /\ freeStaticBuffers \cap currentlyProvidedStaticBuffers = {}

(* The types, the count that command 5 goes by, and the buffers.            *)
PXIInv == PXITypeOK /\ PendingCounted /\ BuffersOwned

(* Every command that is being processed has the buffers its service needs. *)
(* The code does not see to it: of fewer than Slots provided it gives back  *)
(* as many as of Slots.                                                     *)
EveryCommandHasBuffers ==
    \A i \in Services : state[i] \in {"from arm11", "to arm9"} /\ ~shouldTerminate =>
        Cardinality(used[i]) = Needs[i]

(* No svcBreak is reached: a reply comes only for a session that waits for  *)
(* one, a session is accepted only when there is none.                      *)
NoPanic == ~panicked

(* A client that sent a command gets its reply, or is the one to go away.   *)
CommandsAnswered == \A i \in Services : client[i] = "waiting" ~> client[i] # "waiting"
(* When it is asked to, pxi ends: no thread is left waiting for another.    *)
Terminates == shouldTerminate ~> mainThread = "ended"
=============================================================================
