----------------------------- MODULE GDBServer ------------------------------
(***************************************************************************)
(* The GDB server of rosalina: who holds which context, and the hand-shake *)
(* between the thread of the sockets, the thread that waits for debug      *)
(* events (the monitor), the menu and the task that fetches the next       *)
(* application.  A handler that takes a context's lock is one action; what *)
(* waits with or without the lock has steps of its own.  A context stands  *)
(* for the process it debugs too: which process that is is left out, and   *)
(* so are packets that only read or write registers and memory.            *)
(***************************************************************************)
EXTENDS Naturals, FiniteSets

CONSTANTS NbCtxs,      \* MAX_DEBUG
          MaxInputs    \* bound: packets, connections, debug events and choices in the menu

ASSUME GDBAssumption == NbCtxs \in Nat \ {0} /\ MaxInputs \in Nat

VARIABLES ctxs,         \* the contexts
          locks,        \* who keeps a context's lock over a wait
          clients,      \* per port: no client, one in the backlog, or its context
          server,       \* referenceCount, super.running, shall_terminate_event,
                        \* statusUpdated, statusUpdateReceived
          socket, monitor,   \* the two threads
          menu, task,        \* menu thread and task runner
          nextApplicationGdbCtx,
          inputs,       \* counter for the bound
          undisturbed        \* history: see Disturbed

gdbvars == <<ctxs, locks, clients, server, socket, monitor, menu, task,
             nextApplicationGdbCtx, inputs, undisturbed>>

Ctxs == 1 .. NbCtxs
NextPort == NbCtxs + 1
Ports == 1 .. NextPort
NoCtx == 0
Queued == NbCtxs + 1
Flags == {"selected", "used", "extended", "continuing", "terminate", "atStart", "created"}
RestartMask == {"used", "extended"}
Events == {"none", "stop", "auto", "last", "exit"}

Least(S) == CHOOSE x \in S : \A y \in S : x <= y

(* The fields of a context that count here.  told: the client knows that    *)
(* its process does not run.  proc: the process, and event what the kernel  *)
(* has to say about it.                                                     *)
Blank == [flags |-> {}, state |-> "disconnected", port |-> 0, debug |-> FALSE,
          eventToWaitFor |-> "attached", attached |-> FALSE, continued |-> FALSE,
          told |-> FALSE, proc |-> "free", event |-> "none", should_close |-> FALSE]

Free(c) == locks[c] = "none"
AllFree == \A c \in Ctxs : Free(c)
Allocated(c) == ctxs[c].flags \cap {"selected", "used"} # {}
HasClient(c) == \E p \in Ports : clients[p] = c
PortOf(c) == CHOOSE p \in Ports : clients[p] = c

(* GDB_AttachToProcess when it succeeds; the process is stopped.            *)
Attached(r) == [r EXCEPT !.state = "attached", !.attached = TRUE, !.debug = TRUE,
                         !.proc = "stopped", !.event = "none", !.told = TRUE]

(* GDB_DetachFromProcess: what is pending is continued, the handle closed.  *)
Detached(r) == [r EXCEPT !.debug = FALSE, !.eventToWaitFor = "attached",
                         !.proc = "free", !.event = "none", !.told = FALSE]

(* The rest of GDB_CloseClient; server_close_ctx clears should_close.       *)
Closed(r) == [(IF r.state \in {"attached", "detaching"} \/ r.debug THEN Detached(r) ELSE r)
              EXCEPT !.port = 0, !.flags = {}, !.state = "disconnected", !.should_close = FALSE]

(* What the two ends of the hand-shake do to the context first.             *)
Withdrawn(r) == [r EXCEPT !.attached = FALSE, !.eventToWaitFor = "attached"]
AskMonitorTooLate == [server EXCEPT !.updated = TRUE]   \* a mutant: an old answer is not cleared
AskMonitor == [server EXCEPT !.received = FALSE, !.updated = TRUE]

(* Both hand-shakes count on a monitor that has not been told to end.       *)
MonitorEnds == server.terminate \/ monitor.pc \in {"leave", "finalize", "ended"}

MonitorWokenFor(c) == monitor.pc = "woken" /\ monitor.ctx = c

(* undisturbed: none of the races below, named where they happen, has been  *)
(* met so far.                                                              *)
Disturbed(condition) == undisturbed' = (undisturbed /\ ~condition)
-----------------------------------------------------------------------------
(* The thread of the sockets.                                               *)
SocketStarts ==
    /\ socket.pc = "start"
    /\ server' = [server EXCEPT !.refs = @ + 1]
    /\ socket' = [socket EXCEPT !.pc = "bind"]
    /\ UNCHANGED <<ctxs, locks, clients, monitor, menu, task, nextApplicationGdbCtx,
                   inputs, undisturbed>>

(* server_bind fails when the socket services are broken.                   *)
BindPorts ==
    /\ socket.pc = "bind"
    /\ \/ /\ server' = [server EXCEPT !.running = TRUE]
          /\ socket' = [socket EXCEPT !.pc = "poll"]
          /\ UNCHANGED undisturbed
       \/ /\ server' = [server EXCEPT !.terminate = TRUE]
          /\ socket' = [socket EXCEPT !.pc = "leave"]
          /\ Disturbed(monitor.pc = "start")
    /\ UNCHANGED <<ctxs, locks, clients, monitor, menu, task, nextApplicationGdbCtx,
                   inputs>>

LeaveLoop ==
    /\ socket.pc = "poll" /\ server.terminate
    /\ server' = [server EXCEPT !.running = FALSE]
    /\ socket' = [socket EXCEPT !.pc = "leave"]
    /\ UNCHANGED <<ctxs, locks, clients, monitor, menu, task, nextApplicationGdbCtx,
                   inputs, undisturbed>>

Polling == socket.pc = "poll"
Others == UNCHANGED <<monitor, menu, task, nextApplicationGdbCtx>>
Untouched == Others /\ UNCHANGED inputs
Input == inputs < MaxInputs /\ inputs' = inputs + 1

(* First half of GDB_CloseClient, up to its wait for the monitor.  The wait *)
(* does not end when the monitor ends; and a monitor that has been woken    *)
(* for this context already will act on it after the wait.                  *)
Close(c, r) ==
    /\ IF server.refs >= 2
       THEN /\ ctxs' = [ctxs EXCEPT ![c] = Withdrawn(r)]
            /\ socket' = [pc |-> "closing", ctx |-> c, restart |-> FALSE]
            /\ clients' = clients
       ELSE /\ ctxs' = [ctxs EXCEPT ![c] = Closed(Withdrawn(r))]
            /\ socket' = [pc |-> "poll", ctx |-> NoCtx, restart |-> FALSE]
            /\ clients' = [p \in Ports |-> IF clients[p] = c THEN NoCtx ELSE clients[p]]
    /\ server' = AskMonitor
    /\ UNCHANGED locks
    /\ Disturbed(server.refs >= 2 /\ (MonitorEnds \/ MonitorWokenFor(c)))

(* Its second half, and the end of server_close_ctx.                        *)
CloseEnds ==
    LET c == socket.ctx
    IN  /\ socket.pc = "closing" /\ server.received /\ Free(c)
        /\ ctxs' = [ctxs EXCEPT ![c] = Closed(@)]
        /\ clients' = [clients EXCEPT ![PortOf(c)] = NoCtx]
        /\ socket' = [pc |-> "poll", ctx |-> NoCtx, restart |-> FALSE]
        /\ Untouched /\ UNCHANGED <<locks, server, undisturbed>>

(* GDB_AcceptClient: a context selected in the menu is attached at once.  A *)
(* context that cannot be attached is closed again.                         *)
AcceptClient(c, p, r) ==
    LET connected == [r EXCEPT !.state = "connected"]
    IN  \/ /\ ctxs' = [ctxs EXCEPT ![c] = IF "selected" \in r.flags
                                          THEN Attached(connected) ELSE connected]
           /\ clients' = [clients EXCEPT ![p] = c]
           /\ socket' = [pc |-> "poll", ctx |-> NoCtx, restart |-> FALSE]
           /\ UNCHANGED <<locks, server, undisturbed>>
        \/ /\ "selected" \in r.flags /\ server.refs >= 2
           /\ ctxs' = [ctxs EXCEPT ![c] = Withdrawn(connected)]
           /\ clients' = [clients EXCEPT ![p] = c]
           /\ socket' = [pc |-> "closing", ctx |-> c, restart |-> FALSE]
           /\ server' = AskMonitor
           /\ UNCHANGED locks
           /\ Disturbed(MonitorEnds \/ MonitorWokenFor(c))

(* GDB_GetClient: the context tied to the port, else a free one; and the    *)
(* wait for the next application's debug handle.                            *)
Owners(p) == {c \in Ctxs : ctxs[c].port = p}
Available == {c \in Ctxs : ~Allocated(c)}
Refuse(p) == /\ clients' = [clients EXCEPT ![p] = NoCtx]
             /\ UNCHANGED <<ctxs, locks, server, socket, undisturbed>>
GetClient(p) ==
    LET tied == Owners(p) # {}
        c    == Least(IF tied THEN Owners(p) ELSE Available)
        r    == [ctxs[c] EXCEPT !.flags = @ \cup {"used"}, !.state = "connected", !.port = p]
    IN  IF tied
        THEN IF "used" \in ctxs[c].flags
             THEN Refuse(p)
             ELSE IF p = NextPort
                  THEN /\ ctxs' = [ctxs EXCEPT ![c] = r]
                       /\ socket' = [pc |-> "spinning", ctx |-> c, restart |-> FALSE]
                       /\ UNCHANGED <<locks, clients, server>>
                       /\ Disturbed(server.terminate)
                  ELSE AcceptClient(c, p, r)
        ELSE IF p = NextPort \/ Available = {} THEN Refuse(p) ELSE AcceptClient(c, p, r)

Accept(p) ==
    /\ Polling /\ clients[p] = Queued /\ AllFree
    /\ GetClient(p)
    /\ Untouched

NextApplicationComes ==
    LET c == socket.ctx
    IN  /\ socket.pc = "spinning" /\ Free(c) /\ ctxs[c].debug
        /\ AcceptClient(c, NextPort, ctxs[c])
        /\ Untouched
-----------------------------------------------------------------------------
(* Packets: GDB_DoPacket and its handlers.                                  *)
Packet(c) == Polling /\ HasClient(c) /\ Free(c) /\ Input

Answered(c, r) ==
    /\ ctxs' = [ctxs EXCEPT ![c] = r]
    /\ Others /\ UNCHANGED <<locks, clients, server, socket, undisturbed>>

EnableExtendedMode(c) ==
    /\ Packet(c) /\ ctxs[c].port # NextPort /\ "extended" \notin ctxs[c].flags
    /\ Answered(c, [ctxs[c] EXCEPT !.flags = @ \cup {"extended"}])

Debugs(c) == ctxs[c].told /\ ctxs[c].state = "attached" /\ ctxs[c].proc # "ended"

(* With another thread selected the client is left to believe that its      *)
(* process runs.                                                            *)
Continue(c) ==
    /\ Packet(c) /\ Debugs(c)
    /\ \/ Answered(c, [ctxs[c] EXCEPT
                !.flags = @ \cup {"continuing"}, !.told = FALSE,
                !.proc = IF @ = "stopped" THEN "running" ELSE @,
                !.continued = @ \/ "continuing" \notin ctxs[c].flags])
       \/ Answered(c, [ctxs[c] EXCEPT !.told = FALSE])

(* The client interrupts what it believes to run.  svcBreakDebugProcess     *)
(* fails for a process that an event has stopped already.                   *)
Break(c) ==
    /\ Packet(c) /\ ~ctxs[c].told /\ ctxs[c].state = "attached" /\ ctxs[c].proc # "ended"
    /\ IF "continuing" \notin ctxs[c].flags
       THEN Answered(c, [ctxs[c] EXCEPT !.told = TRUE])
       ELSE /\ ctxs[c].proc = "running" /\ ctxs[c].event = "none"
            /\ Answered(c, [ctxs[c] EXCEPT !.flags = @ \ {"continuing"}, !.event = "stop"])

(* GDB_DetachImmediatelyExtended, called by a handler that holds the lock:  *)
(* it still holds it while it waits for the monitor, which must not be      *)
(* about to take a lock.                                                    *)
DetachImmediately(c, r, restart) ==
    /\ ctxs' = [ctxs EXCEPT ![c] = [Withdrawn(r) EXCEPT !.state = "detaching"]]
    /\ locks' = [locks EXCEPT ![c] = "socket"]
    /\ socket' = [pc |-> "detaching", ctx |-> c, restart |-> restart]
    /\ server' = AskMonitor
    /\ UNCHANGED clients
    /\ Disturbed(MonitorEnds \/ monitor.pc \in {"start", "snapshot", "woken"})

(* Detach, Kill: outside extended-remote the connection is closed instead.  *)
LetGo(c, r) ==
    /\ IF "extended" \in r.flags THEN DetachImmediately(c, r, FALSE)
       ELSE Close(c, [r EXCEPT !.state = "detaching"])
    /\ Others
Detach(c) == Packet(c) /\ Debugs(c) /\ LetGo(c, ctxs[c])
Kill(c) == /\ Packet(c) /\ Debugs(c)
           /\ LetGo(c, [ctxs[c] EXCEPT !.flags = @ \cup {"terminate"}])

Restart(c) ==
    /\ Packet(c) /\ Debugs(c) /\ {"extended", "created"} \subseteq ctxs[c].flags
    /\ DetachImmediately(c, ctxs[c], TRUE)
    /\ Others

(* GDB_CreateProcess.                                                       *)
Created(r) == [Attached(r) EXCEPT !.flags = @ \cup {"created", "atStart"}]

(* The monitor has answered: the process is let go, and for a restart       *)
(* another one is launched, if that succeeds.                               *)
DetachEnds ==
    LET c == socket.ctx
        r == [Detached(ctxs[c]) EXCEPT !.flags = @ \cap RestartMask]
    IN  /\ socket.pc = "detaching" /\ server.received
        /\ \/ ctxs' = [ctxs EXCEPT ![c] = [r EXCEPT !.state = "connected"]]
           \/ socket.restart /\ ctxs' = [ctxs EXCEPT ![c] = Created(r)]
        /\ locks' = [locks EXCEPT ![c] = "none"]
        /\ socket' = [pc |-> "poll", ctx |-> NoCtx, restart |-> FALSE]
        /\ Untouched /\ UNCHANGED <<clients, server, undisturbed>>

(* vAttach and vRun, from a client without a process.                       *)
Attach(c) ==
    /\ Packet(c) /\ "extended" \in ctxs[c].flags /\ ~ctxs[c].debug
    /\ \/ \E r \in {Attached(ctxs[c]), Created(ctxs[c])} : Answered(c, r)
       \/ /\ DetachImmediately(c, ctxs[c], FALSE)
          /\ Others

(* Any other packet brings a context whose process has ended back.          *)
OtherPacket(c) ==
    /\ Packet(c) /\ ctxs[c].state = "detaching"
    /\ Answered(c, [ctxs[c] EXCEPT !.state = "connected"])

(* The client closes its socket, or the connection is lost.                 *)
Disconnect(c) == Packet(c) /\ Close(c, ctxs[c]) /\ Others
-----------------------------------------------------------------------------
(* The monitor.  It takes the handles to wait for under all the locks, and  *)
(* waits for them without.                                                  *)
MonitorOnly == UNCHANGED <<locks, clients, socket, menu, task, nextApplicationGdbCtx,
                           inputs, undisturbed>>

MonitorStarts ==
    /\ monitor.pc = "start"
    /\ server' = [server EXCEPT !.refs = @ + 1]
    /\ monitor' = [monitor EXCEPT !.pc = "snapshot"]
    /\ MonitorOnly /\ UNCHANGED ctxs

Snapshot ==
    /\ monitor.pc = "snapshot" /\ AllFree
    /\ monitor' = [monitor EXCEPT !.pc = "call",
                                  !.handles = [c \in Ctxs |-> ctxs[c].eventToWaitFor]]
    /\ MonitorOnly /\ UNCHANGED <<ctxs, server>>

(* The system call refuses a closed handle, and the monitor ends.           *)
CallWait ==
    /\ monitor.pc = "call"
    /\ IF \A c \in Ctxs : monitor.handles[c] = "debug" => ctxs[c].debug
       THEN monitor' = [monitor EXCEPT !.pc = "wait"]
       ELSE monitor' = [monitor EXCEPT !.pc = "leave", !.failed = TRUE]
    /\ MonitorOnly /\ UNCHANGED <<ctxs, server>>

ToldToEnd ==
    /\ monitor.pc = "wait" /\ server.terminate
    /\ monitor' = [monitor EXCEPT !.pc = "leave"]
    /\ MonitorOnly /\ UNCHANGED <<ctxs, server>>

(* The end of the loop's body.                                              *)
NextTurn == monitor' = [monitor EXCEPT !.pc = IF server.running THEN "snapshot" ELSE "leave"]

StatusUpdatedUnanswered ==   \* a mutant: whoever asked is not told
    /\ monitor.pc = "wait" /\ ~server.terminate /\ server.updated
    /\ server' = [server EXCEPT !.updated = FALSE]
    /\ NextTurn
    /\ MonitorOnly /\ UNCHANGED ctxs
StatusUpdated ==
    /\ monitor.pc = "wait" /\ ~server.terminate /\ server.updated
    /\ server' = [server EXCEPT !.updated = FALSE, !.received = TRUE]
    /\ NextTurn
    /\ MonitorOnly /\ UNCHANGED ctxs

SignalledLess(c) ==   \* a mutant: a client that continues does not wake the monitor
    \/ monitor.handles[c] = "attached" /\ ctxs[c].attached
    \/ monitor.handles[c] = "debug" /\ ctxs[c].event # "none"
Signalled(c) == \/ monitor.handles[c] = "attached" /\ ctxs[c].attached
                \/ monitor.handles[c] = "continued" /\ ctxs[c].continued
                \/ monitor.handles[c] = "debug" /\ ctxs[c].event # "none"

(* The first handle that is signalled; continuedEvent is one-shot.          *)
WaitReturns(c) ==
    /\ monitor.pc = "wait" /\ ~server.terminate /\ ~server.updated
    /\ Signalled(c) /\ \A d \in 1 .. c - 1 : ~Signalled(d)
    /\ monitor' = [monitor EXCEPT !.pc = "woken", !.ctx = c]
    /\ ctxs' = [ctxs EXCEPT ![c].continued = @ /\ monitor.handles[c] # "continued"]
    /\ MonitorOnly /\ UNCHANGED server

(* GDB_HandleDebugEvents for one event: what the client is told stops, the  *)
(* rest is continued.  "last" is continued in vain: the process is ending,  *)
(* and what is left of its events is read.                                  *)
Handled(r) ==
    CASE r.event = "stop" -> [r EXCEPT !.event = "none", !.proc = "stopped", !.told = TRUE,
                                       !.flags = @ \ {"continuing"}, !.eventToWaitFor = "continued"]
      [] r.event = "exit" -> [r EXCEPT !.event = "none", !.proc = "ended", !.told = TRUE]
      [] r.event = "last" ->
            LET gone == [r EXCEPT !.event = "none", !.proc = "ended", !.told = TRUE]
            IN  IF "extended" \in r.flags
                THEN [Withdrawn(Detached(gone)) EXCEPT !.state = "detaching",
                            !.flags = @ \cap RestartMask, !.told = TRUE]
                ELSE Withdrawn(gone)
      [] OTHER -> [r EXCEPT !.event = "none"]

Woken ==
    LET c == monitor.ctx
        r == ctxs[c]
    IN  /\ monitor.pc = "woken" /\ Free(c)
        /\ ctxs' = [ctxs EXCEPT ![c] =
             IF r.state \in {"disconnected", "detaching"} THEN Withdrawn(r)
             ELSE IF r.eventToWaitFor = "attached" THEN [r EXCEPT !.eventToWaitFor = "continued"]
             ELSE IF r.eventToWaitFor = "continued" THEN [r EXCEPT !.eventToWaitFor = "debug"]
             ELSE Handled(r)]
        /\ NextTurn
        /\ MonitorOnly /\ UNCHANGED server
-----------------------------------------------------------------------------
(* Whoever lowers referenceCount to zero finalizes the server: the clients  *)
(* left are closed, and contexts that hold a process.                       *)
AfterLeaving == IF server.refs = 1 THEN "finalize" ELSE "ended"

SocketLeaves ==
    /\ socket.pc = "leave"
    /\ server' = [server EXCEPT !.refs = @ - 1]
    /\ socket' = [socket EXCEPT !.pc = AfterLeaving]
    /\ UNCHANGED <<ctxs, locks, clients, undisturbed>> /\ Untouched

MonitorLeaves ==
    /\ monitor.pc = "leave"
    /\ server' = [server EXCEPT !.refs = @ - 1]
    /\ monitor' = [monitor EXCEPT !.pc = AfterLeaving]
    /\ MonitorOnly /\ UNCHANGED ctxs

FinalizeServer ==
    /\ AllFree
    /\ \/ /\ socket.pc = "finalize" /\ socket' = [socket EXCEPT !.pc = "ended"]
          /\ UNCHANGED monitor
       \/ /\ monitor.pc = "finalize" /\ monitor' = [monitor EXCEPT !.pc = "ended"]
          /\ UNCHANGED socket
    /\ ctxs' = [c \in Ctxs |-> IF HasClient(c) \/ ctxs[c].debug
                               THEN Closed(Withdrawn(ctxs[c])) ELSE ctxs[c]]
    /\ clients' = [p \in Ports |-> NoCtx]
    /\ server' = [server EXCEPT !.finalized = @ + 1]
    /\ UNCHANGED <<locks, menu, task, nextApplicationGdbCtx, inputs, undisturbed>>
-----------------------------------------------------------------------------
(* The menu thread: the process list and the debugger's options.            *)
MenuOnly == UNCHANGED <<clients, socket, monitor, task>>

(* DebuggerMenu_EnableDebugger has started both threads and waits for the    *)
(* first of two events; that its wait runs out is left out.                 *)
EnableEnds ==
    /\ menu = "enabling" /\ (server.running \/ server.terminate)
    /\ menu' = "idle"
    /\ MenuOnly /\ UNCHANGED <<inputs, ctxs, locks, server, nextApplicationGdbCtx, undisturbed>>

(* GDB_SelectAvailableContext between two ports: a free context and a port  *)
(* no allocated context has.  Without a port the flags are set to all but   *)
(* the one meant.                                                           *)
PortTakenByClient(p) ==   \* a mutant: contexts without a client do not count
    \E c \in Ctxs : "used" \in ctxs[c].flags /\ ctxs[c].port = p
PortTaken(p) == \E c \in Ctxs : Allocated(c) /\ ctxs[c].port = p
SelectAvailableContext(ports) ==
    LET c == Least(Available)
        free == {p \in ports : ~PortTaken(p)}
        r    == ctxs[c]
    IN  ctxs' = [ctxs EXCEPT ![c] =
                   IF free = {} THEN [r EXCEPT !.flags = Flags \ {"selected"}]
                   ELSE [r EXCEPT !.flags = @ \cup {"selected"}, !.port = Least(free)]]

(* A process is chosen in the list that no context is for.                  *)
SelectProcess ==
    /\ Input
    /\ menu = "idle" /\ server.running /\ AllFree
    /\ Available # {} /\ SelectAvailableContext(Ctxs)
    /\ MenuOnly /\ UNCHANGED <<locks, server, menu, nextApplicationGdbCtx, undisturbed>>

UnselectProcess(c) ==
    /\ Input
    /\ menu = "idle" /\ server.running /\ AllFree
    /\ "selected" \in ctxs[c].flags /\ "used" \notin ctxs[c].flags /\ ctxs[c].port \in Ctxs
    /\ ctxs' = [ctxs EXCEPT ![c].flags = @ \ {"selected"}, ![c].port = 0]
    /\ MenuOnly /\ UNCHANGED <<locks, server, menu, nextApplicationGdbCtx, undisturbed>>

(* A process with a client: the menu waits for its connection to be closed, *)
(* holding all the locks.  What would end the wait, server_close_ctx, comes *)
(* after GDB_CloseClient, which needs one of them.                          *)
CloseFromList(c) ==
    /\ Input
    /\ menu = "idle" /\ server.running /\ AllFree
    /\ {"selected", "used"} \subseteq ctxs[c].flags
    /\ ctxs' = [ctxs EXCEPT ![c].should_close = TRUE]
    /\ locks' = [d \in Ctxs |-> "menu"]
    /\ menu' = "closing"
    /\ Disturbed(TRUE)
    /\ MenuOnly /\ UNCHANGED <<server, nextApplicationGdbCtx>>

DebugNextApplicationByForce ==
    /\ Input
    /\ menu = "idle" /\ server.refs # 0 /\ AllFree
    /\ nextApplicationGdbCtx = NoCtx /\ Available # {}
    /\ SelectAvailableContext({NextPort})
    /\ IF PortTaken(NextPort)
       THEN UNCHANGED nextApplicationGdbCtx
       ELSE nextApplicationGdbCtx' = Least(Available)
    /\ Disturbed(PortTaken(NextPort))
    /\ MenuOnly /\ UNCHANGED <<locks, server, menu>>

(* debuggerDisable: shall_terminate_event, and two joins that run out.      *)
DisableDebugger ==
    /\ menu = "idle" /\ server.refs # 0
    /\ server' = [server EXCEPT !.terminate = TRUE]
    /\ menu' = "joining"
    /\ Disturbed(socket.pc \in {"closing", "detaching", "spinning"} \/ monitor.pc = "start")
    /\ MenuOnly /\ UNCHANGED <<inputs, ctxs, locks, nextApplicationGdbCtx>>

DisableEnds ==
    /\ menu = "joining" /\ menu' = "disabled"
    /\ nextApplicationGdbCtx' = NoCtx
    /\ MenuOnly /\ UNCHANGED <<inputs, ctxs, locks, server, undisturbed>>

(* The task that fetches the next application's debug handle: which context *)
(* it is for is tested before, and read after, the call to pm.              *)
TaskOnly == UNCHANGED <<locks, clients, server, socket, monitor, menu, inputs>>

FetchStarts ==
    /\ task = "idle" /\ nextApplicationGdbCtx # NoCtx
    /\ task' = "fetching"
    /\ TaskOnly /\ UNCHANGED <<ctxs, nextApplicationGdbCtx, undisturbed>>

FetchEnds ==
    LET c == nextApplicationGdbCtx
    IN  /\ task = "fetching" /\ AllFree
        /\ IF c = NoCtx
           THEN task' = "crashed" /\ Disturbed(TRUE) /\ UNCHANGED ctxs
           ELSE /\ task' = "idle"
                /\ \/ /\ ctxs' = [ctxs EXCEPT ![c].debug = TRUE, ![c].proc = "stopped",
                                              ![c].flags = @ \cup {"atStart"}]
                      /\ UNCHANGED undisturbed
                   \/ /\ ctxs' = [ctxs EXCEPT ![c].debug = FALSE, ![c].flags = {}]
                      /\ Disturbed(TRUE)
        /\ nextApplicationGdbCtx' = NoCtx
        /\ TaskOnly
-----------------------------------------------------------------------------
(* Clients connect; processes run into something and end.  One blocking     *)
(* event at a time: it stops the process.                                   *)
Connect(p) ==
    /\ clients[p] = NoCtx /\ server.running /\ Input
    /\ clients' = [clients EXCEPT ![p] = Queued]
    /\ UNCHANGED <<ctxs, locks, server, socket, monitor, menu, task, nextApplicationGdbCtx,
                   undisturbed>>

Happens(c, event) ==
    /\ ctxs[c].debug /\ ctxs[c].proc = "running" /\ ctxs[c].event = "none"
    /\ Input
    /\ ctxs' = [ctxs EXCEPT ![c].event = event]
    /\ UNCHANGED <<locks, clients, server, socket, monitor, menu, task,
                   nextApplicationGdbCtx, undisturbed>>

Init ==
    /\ ctxs = [c \in Ctxs |-> Blank]
    /\ locks = [c \in Ctxs |-> "none"]
    /\ clients = [p \in Ports |-> NoCtx]
    /\ server = [refs |-> 0, running |-> FALSE, terminate |-> FALSE, updated |-> FALSE,
                 received |-> FALSE, finalized |-> 0]
    /\ socket = [pc |-> "start", ctx |-> NoCtx, restart |-> FALSE]
    /\ monitor = [pc |-> "start", ctx |-> NoCtx, failed |-> FALSE,
                  handles |-> [c \in Ctxs |-> "attached"]]
    /\ menu = "enabling" /\ task = "idle" /\ nextApplicationGdbCtx = NoCtx
    /\ inputs = 0 /\ undisturbed = TRUE

SocketThread == \/ SocketStarts \/ BindPorts \/ LeaveLoop \/ CloseEnds \/ DetachEnds
                \/ NextApplicationComes \/ SocketLeaves
                \/ \E p \in Ports : Accept(p)
Packets == \E c \in Ctxs : \/ EnableExtendedMode(c) \/ Continue(c) \/ Break(c) \/ Detach(c)
                           \/ Kill(c) \/ Restart(c) \/ Attach(c) \/ OtherPacket(c) \/ Disconnect(c)
Monitor == \/ MonitorStarts \/ Snapshot \/ CallWait \/ ToldToEnd \/ StatusUpdated \/ Woken
           \/ MonitorLeaves \/ \E c \in Ctxs : WaitReturns(c)
Menu == \/ EnableEnds \/ SelectProcess \/ DebugNextApplicationByForce \/ DisableDebugger \/ DisableEnds
        \/ \E c \in Ctxs : UnselectProcess(c) \/ CloseFromList(c)
Task == FetchStarts \/ FetchEnds
Environment == \/ \E p \in Ports : Connect(p)
               \/ \E c \in Ctxs, event \in Events \ {"none"} : Happens(c, event)

Next == SocketThread \/ Packets \/ Monitor \/ FinalizeServer \/ Menu \/ Task \/ Environment
Spec == Init /\ [][Next]_gdbvars

(* Both threads go on when nothing they wait for is missing.                *)
FairSpec == Spec /\ WF_gdbvars(SocketThread) /\ WF_gdbvars(Monitor) /\ WF_gdbvars(FinalizeServer)
-----------------------------------------------------------------------------
Contexts == [flags : SUBSET Flags, state : {"disconnected", "connected", "attached", "detaching"},
             port : Ports \cup {NoCtx}, debug : BOOLEAN,
             eventToWaitFor : {"attached", "continued", "debug"}, attached : BOOLEAN,
             continued : BOOLEAN, told : BOOLEAN,
             proc : {"free", "running", "stopped", "ended"}, event : Events,
             should_close : BOOLEAN]
GDBTypeOK ==
    /\ ctxs \in [Ctxs -> Contexts] /\ locks \in [Ctxs -> {"none", "socket", "menu"}]
    /\ clients \in [Ports -> Ctxs \cup {NoCtx, Queued}]
    /\ server \in [refs : 0 .. 2, running : BOOLEAN, terminate : BOOLEAN, updated : BOOLEAN,
                   received : BOOLEAN, finalized : 0 .. 2]
    /\ socket \in [pc : {"start", "bind", "poll", "closing", "detaching", "spinning", "leave",
                         "finalize", "ended"}, ctx : Ctxs \cup {NoCtx}, restart : BOOLEAN]
    /\ monitor \in [pc : {"start", "snapshot", "call", "wait", "woken", "leave", "finalize", "ended"},
                    ctx : Ctxs \cup {NoCtx}, failed : BOOLEAN,
                    handles : [Ctxs -> {"attached", "continued", "debug"}]]
    /\ menu \in {"enabling", "idle", "closing", "joining", "disabled"}
    /\ task \in {"idle", "fetching", "crashed"}
    /\ nextApplicationGdbCtx \in Ctxs \cup {NoCtx}
    /\ inputs \in 0 .. MaxInputs /\ undisturbed \in BOOLEAN

(* Every client has the context of its port, no two contexts have the same  *)
(* port, a process is held only for a client or for the next application,   *)
(* and a client that was told its process has stopped is not deceived.      *)
ContextsBelong ==
    undisturbed =>
        /\ \A p \in Ports : clients[p] \in Ctxs =>
              "used" \in ctxs[clients[p]].flags /\ ctxs[clients[p]].port = p
        /\ \A c, d \in Ctxs : c # d /\ ctxs[c].port # 0 => ctxs[c].port # ctxs[d].port
        /\ \A c \in Ctxs : ctxs[c].debug =>
              HasClient(c) \/ socket.ctx = c \/ "atStart" \in ctxs[c].flags
        /\ \A c \in Ctxs : ctxs[c].told /\ ctxs[c].state = "attached" =>
              ctxs[c].proc # "running" \/ ctxs[c].event = "stop"

(* The types, and who has which context.                                    *)
GDBInv == GDBTypeOK /\ ContextsBelong

(* The monitor never hands the kernel a handle that was closed meanwhile,   *)
(* the server is finalized once, and no NULL context is written to.         *)
NoStaleUse == ~monitor.failed /\ server.finalized <= 1 /\ task # "crashed"
HandshakesAreSafe == undisturbed => NoStaleUse

(* What stops a process is reported to its client (or the client is gone).  *)
StopsAreReported ==
    \A c \in Ctxs : ctxs[c].event = "stop" ~> ctxs[c].event # "stop" \/ ~undisturbed

(* The thread of the sockets comes back from its waits for the monitor.     *)
WaitsEnd == socket.pc \in {"closing", "detaching"} ~>
                socket.pc \notin {"closing", "detaching"} \/ ~undisturbed
=============================================================================
