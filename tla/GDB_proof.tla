----------------------------- MODULE GDB_proof ------------------------------
(***************************************************************************)
(* Proofs about rosalina's GDB server, for any number of contexts, ports   *)
(* and addresses: who has which context and the hand-shake of its threads  *)
(* (GDBServer), the two watchpoint registers (Watchpoints), and the table  *)
(* of breakpoints with its search by halving (Breakpoints).                *)
(***************************************************************************)
EXTENDS GDBServer, Watchpoints, Breakpoints, FiniteSetTheorems, SequenceTheorems,
        WellFoundedInduction, TLAPS

-----------------------------------------------------------------------------
(* A thread that referenceCount counts; the count, whatever happens.        *)
Serves(t) == t.pc \notin {"start", "finalize", "ended"}
One(b) == IF b THEN 1 ELSE 0
Counted ==
    /\ server.refs = One(Serves(socket)) + One(Serves(monitor))
    /\ server.finalized <= One(socket.pc = "ended") + One(monitor.pc = "ended")

(* A context, by itself.  With no one to use it, it has no port; what the   *)
(* monitor waits for, and what wakes it, belongs to a process that is held; *)
(* and a process that runs was continued by its client or is about to stop. *)
Fits(r) ==
    /\ r.attached \/ r.eventToWaitFor # "attached" => r.debug /\ "used" \in r.flags
    /\ r.flags \cap {"selected", "used"} = {} => r.port = 0
    /\ r.told /\ r.state = "attached" => r.proc # "running" \/ r.event = "stop"
    /\ r.state = "attached" /\ r.proc = "running" => "continuing" \in r.flags \/ r.event = "stop"

(* The contexts among each other, and with their clients.                   *)
PortsDiffer == \A c, d \in Ctxs : c # d /\ ctxs[c].port # 0 => ctxs[c].port # ctxs[d].port
ClientsOwn == \A p \in Ports : clients[p] \in Ctxs =>
                 "used" \in ctxs[clients[p]].flags /\ ctxs[clients[p]].port = p
HeldFor(c) == HasClient(c) \/ socket.ctx = c \/ "atStart" \in ctxs[c].flags
DebugFor == \A c \in Ctxs : ctxs[c].debug => HeldFor(c)
Belong == (\A c \in Ctxs : Fits(ctxs[c])) /\ PortsDiffer /\ ClientsOwn /\ DebugFor

(* How far the two threads are: before the ports are bound nothing else has *)
(* happened, and nobody ends before being told to.                          *)
Waits == socket.pc \in {"closing", "detaching"}
Starting ==
    socket.pc \in {"start", "bind"} =>
        /\ \A c \in Ctxs : ~Signalled(c) /\ ~ctxs[c].debug
        /\ ~server.updated /\ ~server.running /\ ~server.terminate
        /\ menu = "enabling" /\ monitor.pc \in {"start", "snapshot", "call", "wait"}
        /\ nextApplicationGdbCtx = NoCtx
Leaving ==
    /\ monitor.pc = "start" => ~server.terminate
    /\ socket.pc \in {"leave", "finalize", "ended"} => server.terminate
    /\ monitor.pc \in {"leave", "finalize", "ended"} => server.terminate
    /\ socket.pc \in {"poll", "closing", "detaching", "spinning"} => server.running
    /\ socket.pc \in {"closing", "detaching", "spinning"} <=> socket.ctx # NoCtx

(* The server is finalized by the thread that ends last.                    *)
Finals ==
    /\ socket.pc \notin {"finalize", "ended"} \/ monitor.pc \notin {"finalize", "ended"} =>
          socket.pc # "finalize" /\ monitor.pc # "finalize" /\ server.finalized = 0
    /\ server.finalized + One(socket.pc = "finalize") + One(monitor.pc = "finalize") <= 1

(* The hand-shake.  While it waits nothing of its context can wake the      *)
(* monitor, which is still to be woken for the hand-shake or has been, and  *)
(* has not got hold of the context since.                                   *)
WaitsFor(c) ==
    /\ c \in Ctxs /\ HasClient(c)
    /\ ~ctxs[c].attached /\ ctxs[c].eventToWaitFor = "attached"
    /\ monitor.pc # "start" /\ (monitor.pc = "woken" => monitor.ctx # c)
    /\ ~server.received => server.updated
    /\ server.received /\ monitor.pc \in {"call", "wait"} => monitor.handles[c] = "attached"
Handshake == Waits => WaitsFor(socket.ctx)

(* What the monitor waits for is what the contexts say, but for the context *)
(* that is being given up; and what has woken it is still there.            *)
Fresh(c) == monitor.handles[c] = ctxs[c].eventToWaitFor
GivenUp(c) == /\ Waits /\ socket.ctx = c /\ ~server.received
              /\ monitor.handles[c] = "debug" => ctxs[c].debug
Handles ==
    /\ monitor.pc \in {"call", "wait"} => \A c \in Ctxs : Fresh(c) \/ GivenUp(c)
    /\ monitor.pc = "woken" =>
          /\ monitor.ctx \in Ctxs
          /\ ctxs[monitor.ctx].eventToWaitFor = "attached" => ctxs[monitor.ctx].attached

Spinning(c) == c \in Ctxs /\ "used" \in ctxs[c].flags /\ ctxs[c].port = NextPort
Spins == socket.pc = "spinning" => Spinning(socket.ctx)

LocksInv == /\ menu # "closing"
            /\ \A c \in Ctxs : locks[c] = IF socket.pc = "detaching" /\ socket.ctx = c
                                          THEN "socket" ELSE "none"

Threads == Starting /\ Leaving /\ Finals
Meeting == Handshake /\ Handles /\ Spins /\ LocksInv
Quiet == Belong /\ Threads /\ Meeting /\ ~monitor.failed /\ task # "crashed"

(* The inductive invariant.                                                 *)
ServerInv == GDBTypeOK /\ Counted /\ (undisturbed => Quiet)

ServerType == server \in [refs : 0 .. 2, running : BOOLEAN, terminate : BOOLEAN, updated : BOOLEAN,
                          received : BOOLEAN, finalized : 0 .. 2]
SocketType == socket \in [pc : {"start", "bind", "poll", "closing", "detaching", "spinning",
                                "leave", "finalize", "ended"},
                          ctx : Ctxs \cup {NoCtx}, restart : BOOLEAN]
MonitorType == monitor \in [pc : {"start", "snapshot", "call", "wait", "woken", "leave",
                                  "finalize", "ended"},
                            ctx : Ctxs \cup {NoCtx}, failed : BOOLEAN,
                            handles : [Ctxs -> {"attached", "continued", "debug"}]]
ContextType == ctxs \in [Ctxs -> Contexts]
MenuStates == {"enabling", "idle", "closing", "joining", "disabled"}
TaskStates == {"idle", "fetching", "crashed"}
OtherTypes ==
    /\ locks \in [Ctxs -> {"none", "socket", "menu"}]
    /\ clients \in [Ports -> Ctxs \cup {NoCtx, Queued}]
    /\ menu \in MenuStates /\ task \in TaskStates
    /\ nextApplicationGdbCtx \in Ctxs \cup {NoCtx}
    /\ inputs \in 0 .. MaxInputs /\ undisturbed \in BOOLEAN
TypesApart == ServerType /\ SocketType /\ MonitorType /\ ContextType /\ OtherTypes
-----------------------------------------------------------------------------
(* What the operators on contexts give.                                     *)

LEMMA AttachedGives ==
    ASSUME NEW r \in Contexts, NEW s, s = Attached(r)
    PROVE  /\ s \in Contexts
           /\ s.flags = r.flags /\ s.port = r.port /\ s.eventToWaitFor = r.eventToWaitFor
           /\ s.attached /\ s.debug /\ s.proc = "stopped" /\ s.state = "attached"
BY DEF Attached, Contexts, Events

LEMMA DetachedGives ==
    ASSUME NEW r \in Contexts, NEW s, s = Detached(r)
    PROVE  /\ s \in Contexts
           /\ s.flags = r.flags /\ s.port = r.port /\ s.state = r.state /\ s.attached = r.attached
           /\ ~s.debug /\ s.eventToWaitFor = "attached" /\ s.proc = "free" /\ ~s.told
BY DEF Detached, Contexts, Events

LEMMA WithdrawnGives ==
    ASSUME NEW r \in Contexts, NEW s, s = Withdrawn(r)
    PROVE  /\ s \in Contexts
           /\ s.flags = r.flags /\ s.port = r.port /\ s.state = r.state /\ s.debug = r.debug
           /\ s.told = r.told /\ s.proc = r.proc /\ s.event = r.event
           /\ ~s.attached /\ s.eventToWaitFor = "attached"
BY DEF Withdrawn, Contexts, Events

LEMMA ClosedGives ==
    ASSUME NEW r \in Contexts, NEW s, s = Closed(r)
    PROVE  /\ s \in Contexts
           /\ s.flags = {} /\ s.port = 0 /\ s.state = "disconnected" /\ ~s.debug
           /\ s.attached = r.attached
           /\ r.eventToWaitFor = "attached" => s.eventToWaitFor = "attached"
<1> DEFINE d == IF r.state \in {"attached", "detaching"} \/ r.debug THEN Detached(r) ELSE r
<1>1. d \in Contexts /\ ~d.debug /\ d.attached = r.attached
      /\ (r.eventToWaitFor = "attached" => d.eventToWaitFor = "attached")
  BY DetachedGives DEF Contexts
<1>2. s = [d EXCEPT !.port = 0, !.flags = {}, !.state = "disconnected", !.should_close = FALSE]
  BY DEF Closed
<1> HIDE DEF d
<1> DEFINE e == [d EXCEPT !.port = 0, !.flags = {}]
<1>3. 0 \in Ports \cup {NoCtx} /\ {} \in SUBSET Flags  BY DEF NoCtx
<1>4. /\ e \in Contexts /\ e.flags = {} /\ e.port = 0 /\ e.debug = d.debug
      /\ e.attached = d.attached /\ e.eventToWaitFor = d.eventToWaitFor
  BY <1>1, <1>3 DEF Contexts
<1>5. s = [e EXCEPT !.state = "disconnected", !.should_close = FALSE]
  BY <1>1, <1>2 DEF Contexts
<1> HIDE DEF e
<1>6. /\ s \in Contexts /\ s.flags = e.flags /\ s.port = e.port /\ s.state = "disconnected"
      /\ s.debug = e.debug /\ s.attached = e.attached /\ s.eventToWaitFor = e.eventToWaitFor
  BY <1>4, <1>5 DEF Contexts
<1> QED BY <1>1, <1>4, <1>6
-----------------------------------------------------------------------------
LEMMA Constants == /\ NbCtxs \in Nat \ {0} /\ MaxInputs \in Nat
                   /\ NoCtx \notin Ctxs /\ Queued \notin Ctxs /\ Ctxs \subseteq Ports
                   /\ Ctxs \subseteq Nat /\ Ports \subseteq Nat /\ NextPort \in Ports /\ NextPort \notin Ctxs
                   /\ 0 \notin Ports
BY GDBAssumption DEF NoCtx, Queued, Ctxs, Ports, NextPort

LEMMA Types == GDBTypeOK <=> TypesApart
BY Zenon DEF GDBTypeOK, TypesApart, ServerType, SocketType, MonitorType, ContextType, OtherTypes,
             MenuStates, TaskStates

LEMMA TypesNext == GDBTypeOK' <=> TypesApart'
BY Zenon DEF GDBTypeOK, TypesApart, ServerType, SocketType, MonitorType, ContextType, OtherTypes,
             MenuStates, TaskStates

LEMMA TypesKept ==
    /\ ServerType /\ server' = server => ServerType'
    /\ SocketType /\ socket' = socket => SocketType'
    /\ MonitorType /\ monitor' = monitor => MonitorType'
    /\ ContextType /\ ctxs' = ctxs => ContextType'
BY Zenon DEF ServerType, SocketType, MonitorType, ContextType

LEMMA OneChanges ==
    ASSUME NEW S, NEW T, NEW f \in [S -> T], NEW c, NEW s \in T, NEW g, g = [f EXCEPT ![c] = s]
    PROVE  /\ g \in [S -> T]
           /\ c \in S => g[c] = s
           /\ \A d \in S \ {c} : g[d] = f[d]
OBVIOUS

LEMMA EditType ==
    ASSUME ContextType, NEW c, NEW s \in Contexts, ctxs' = [ctxs EXCEPT ![c] = s]
    PROVE  /\ ContextType'
           /\ c \in Ctxs => ctxs'[c] = s
           /\ \A d \in Ctxs \ {c} : ctxs'[d] = ctxs[d]
BY OneChanges, Zenon DEF ContextType

(* One context changes, and perhaps who its client is.                      *)
LEMMA BelongEdit ==
    ASSUME ContextType, Belong, NEW c \in Ctxs, NEW s \in Contexts,
           ctxs' = [ctxs EXCEPT ![c] = s], Fits(s),
           \/ s.port \in {0, ctxs[c].port}
           \/ \A d \in Ctxs : ctxs[d].port # s.port,
           \A p \in Ports : clients'[p] \in Ctxs =>
               IF clients'[p] = c THEN "used" \in s.flags /\ s.port = p
               ELSE clients'[p] = clients[p],
           \A d \in Ctxs \ {c} : HasClient(d) \/ socket.ctx = d => (HasClient(d) \/ socket.ctx = d)',
           s.debug => HasClient(c)' \/ socket'.ctx = c \/ "atStart" \in s.flags
    PROVE  Belong'
<1>1. ctxs'[c] = s /\ \A d \in Ctxs \ {c} : ctxs'[d] = ctxs[d]
  BY DEF ContextType
<1>2. \A d \in Ctxs : Fits(ctxs'[d])
  <2> TAKE d \in Ctxs
  <2>1. ctxs'[d] \in {s, ctxs[d]}  BY <1>1
  <2> QED BY <2>1, Zenon DEF Belong
<1>3. PortsDiffer'
  <2>1. ASSUME NEW d \in Ctxs, NEW e \in Ctxs, d # e, ctxs'[d].port # 0
        PROVE ctxs'[d].port # ctxs'[e].port
    <3> HIDE DEF Contexts
    <3> QED BY <1>1, <2>1 DEF Belong, PortsDiffer
  <2> QED BY <2>1, Zenon DEF PortsDiffer
<1>4. ClientsOwn'
  <2>1. ASSUME NEW p \in Ports, clients'[p] \in Ctxs
        PROVE  "used" \in ctxs'[clients'[p]].flags /\ ctxs'[clients'[p]].port = p
    <3>1. CASE clients'[p] = c  BY <1>1, <2>1, <3>1
    <3>2. CASE clients'[p] # c  BY <1>1, <2>1, <3>2 DEF Belong, ClientsOwn
    <3> QED BY <3>1, <3>2
  <2> QED BY <2>1, Zenon DEF ClientsOwn
<1>5. DebugFor'
  <2>1. ASSUME NEW d \in Ctxs, ctxs'[d].debug PROVE HeldFor(d)'
    <3>1. CASE d = c  BY <1>1, <2>1, <3>1 DEF HeldFor
    <3>2. CASE d # c  BY <1>1, <2>1, <3>2 DEF Belong, DebugFor, HeldFor
    <3> QED BY <3>1, <3>2
  <2> QED BY <2>1, Zenon DEF DebugFor
<1> QED BY <1>2, <1>3, <1>4, <1>5 DEF Belong

LEMMA BelongStays ==
    ASSUME Belong, UNCHANGED <<ctxs, clients>>, socket'.ctx = socket.ctx
    PROVE  Belong'
BY Zenon DEF Belong, Fits, PortsDiffer, ClientsOwn, DebugFor, HeldFor, HasClient

(* A change to one context that is no concern of the two threads.           *)
Edit(c, s) == ctxs' = [ctxs EXCEPT ![c] = s]
              /\ UNCHANGED <<locks, clients, server, socket, monitor, menu>>
Harmless(c, s) ==
    /\ Fits(s)
    /\ s.eventToWaitFor = ctxs[c].eventToWaitFor
    /\ s.attached = ctxs[c].attached \/ (s.attached /\ ~Waits)
    /\ ctxs[c].debug => s.debug
    /\ s.debug => HasClient(c) \/ socket.ctx = c \/ "atStart" \in s.flags
    /\ "used" \in ctxs[c].flags => "used" \in s.flags /\ s.port = ctxs[c].port
    /\ s.port \in {0, ctxs[c].port} \/ \A d \in Ctxs : ctxs[d].port # s.port
    /\ socket.pc \notin {"start", "bind"}

LEMMA EditKeeps ==
    ASSUME GDBTypeOK, Counted, Quiet, NEW c \in Ctxs, NEW s \in Contexts, Edit(c, s), Harmless(c, s),
           task' # "crashed"
    PROVE  Counted' /\ Quiet'
<1>1. TypesApart  BY Types
<1>2. Counted'  BY Zenon DEF Counted, Edit, Serves
<1>3. ctxs'[c] = s /\ \A d \in Ctxs \ {c} : ctxs'[d] = ctxs[d]
  BY <1>1 DEF TypesApart, ContextType, Edit
<1>4. UNCHANGED <<locks, clients, server, socket, monitor, menu>>  BY Zenon DEF Edit
<1>5. Belong'
  <2>1. \A p \in Ports : clients'[p] \in Ctxs =>
            IF clients'[p] = c THEN "used" \in s.flags /\ s.port = p ELSE clients'[p] = clients[p]
    BY <1>4 DEF Quiet, Belong, ClientsOwn, Harmless
  <2>2. /\ \A d \in Ctxs \ {c} : HasClient(d) \/ socket.ctx = d => (HasClient(d) \/ socket.ctx = d)'
        /\ s.debug => HasClient(c)' \/ socket'.ctx = c \/ "atStart" \in s.flags
    BY <1>4, Zenon DEF HasClient, Harmless
  <2>3. ctxs' = [ctxs EXCEPT ![c] = s]  BY Zenon DEF Edit
  <2>4. \/ s.port \in {0, ctxs[c].port}
        \/ \A d \in Ctxs : ctxs[d].port # s.port
    BY Zenon DEF Harmless
  <2>5. Fits(s) BY Zenon DEF Harmless
  <2> QED BY <1>1, <2>1, <2>2, <2>3, <2>4, <2>5, BelongEdit, Zenon DEF Quiet, TypesApart
<1>6. Threads'
  <2>1. Starting'  BY <1>4 DEF Starting, Harmless
  <2>2. Leaving' /\ Finals'
    BY <1>4, Zenon DEF Quiet, Threads, Leaving, Finals, Serves, One
  <2> QED BY <2>1, <2>2 DEF Threads
<1>7. Meeting'
  <2>1. Handshake'
    <3> SUFFICES ASSUME Waits' PROVE WaitsFor(socket.ctx)'
      BY Zenon DEF Handshake
    <3>1. Waits /\ WaitsFor(socket.ctx)
      BY <1>4, Zenon DEF Waits, Quiet, Meeting, Handshake
    <3>2. ctxs'[socket.ctx].attached = ctxs[socket.ctx].attached
          /\ ctxs'[socket.ctx].eventToWaitFor = ctxs[socket.ctx].eventToWaitFor
      BY <1>3, <3>1 DEF Harmless, WaitsFor
    <3> QED BY <1>4, <3>1, <3>2, Zenon DEF WaitsFor, HasClient
  <2>2. Handles'
    <3>1. \A d \in Ctxs : /\ ctxs'[d].eventToWaitFor = ctxs[d].eventToWaitFor
                          /\ ctxs[d].attached => ctxs'[d].attached
                          /\ ctxs[d].debug => ctxs'[d].debug
      BY <1>3 DEF Harmless
    <3> QED BY <1>4, <3>1 DEF Quiet, Meeting, Handles, Fresh, GivenUp, Waits
  <2>3. Spins'  BY <1>3, <1>4 DEF Quiet, Meeting, Spins, Spinning, Harmless
  <2>4. LocksInv'  BY <1>4, Zenon DEF Quiet, Meeting, LocksInv
  <2> QED BY <2>1, <2>2, <2>3, <2>4 DEF Meeting
<1> QED BY <1>2, <1>4, <1>5, <1>6, <1>7, Zenon DEF Quiet
-----------------------------------------------------------------------------
(* The steps of the two threads that change no context.                     *)

LEMMA SocketStartsKeeps == ASSUME ServerInv, SocketStarts PROVE ServerInv'
<1>1. TypesApart  BY Types DEF ServerInv
<1>2. /\ socket.pc = "start" /\ socket'.pc = "bind" /\ socket'.ctx = socket.ctx
      /\ server'.refs = server.refs + 1
      /\ server'.running = server.running /\ server'.terminate = server.terminate
      /\ server'.updated = server.updated /\ server'.received = server.received
      /\ server'.finalized = server.finalized
  BY <1>1 DEF SocketStarts, TypesApart, ServerType, SocketType
<1>3. UNCHANGED <<ctxs, locks, clients, monitor, menu, task, nextApplicationGdbCtx, inputs, undisturbed>>
  BY DEF SocketStarts
<1>4. Counted'
  BY <1>1, <1>2, <1>3 DEF ServerInv, Counted, Serves, One, TypesApart, ServerType
<1>5. TypesApart'
  <2>1. server.refs + 1 \in 0 .. 2
    BY <1>1, <1>2 DEF ServerInv, Counted, Serves, One, TypesApart, ServerType
  <2>2. ServerType' /\ SocketType'
    BY <1>1, <2>1 DEF SocketStarts, TypesApart, ServerType, SocketType
  <2> QED BY <1>1, <1>3, <2>2, Zenon DEF TypesApart, MonitorType, ContextType, OtherTypes
<1>6. ASSUME undisturbed' PROVE Quiet'
  <2>1. Quiet  BY <1>3, <1>6 DEF ServerInv
  <2>2. Belong'  BY <1>2, <1>3, <2>1, BelongStays DEF Quiet
  <2>3. Starting'  BY <1>2, <1>3, <2>1 DEF Quiet, Threads, Starting, Signalled
  <2>4. Leaving'  BY <1>2, <1>3, <2>1 DEF Quiet, Threads, Leaving
  <2>5. Finals'  BY <1>2, <1>3, <2>1 DEF Quiet, Threads, Finals, Serves, One
  <2>6. Meeting'
    BY <1>2, <1>3, <2>1 DEF Quiet, Meeting, Handshake, Handles, Fresh, GivenUp, Spins, LocksInv, Waits
  <2> QED BY <1>3, <2>1, <2>2, <2>3, <2>4, <2>5, <2>6, Zenon DEF Quiet, Threads
<1> QED BY <1>4, <1>5, <1>6, TypesNext DEF ServerInv

LEMMA BindPortsKeeps == ASSUME ServerInv, BindPorts PROVE ServerInv'
<1>1. TypesApart  BY Types DEF ServerInv
<1>2. /\ socket.pc = "bind" /\ socket'.pc \in {"poll", "leave"} /\ socket'.ctx = socket.ctx
      /\ server'.refs = server.refs
      /\ server'.running = (server.running \/ socket'.pc = "poll")
      /\ server'.terminate = (server.terminate \/ socket'.pc = "leave")
      /\ server'.updated = server.updated /\ server'.received = server.received
      /\ server'.finalized = server.finalized
  BY <1>1 DEF BindPorts, TypesApart, ServerType, SocketType
<1>3. UNCHANGED <<ctxs, locks, clients, monitor, menu, task, nextApplicationGdbCtx, inputs>>
  BY DEF BindPorts
<1>4. Counted'
  BY <1>1, <1>2, <1>3 DEF ServerInv, Counted, Serves, One, TypesApart, ServerType
<1>5. TypesApart'
  <2>1. ServerType' /\ SocketType'
    BY <1>1 DEF BindPorts, TypesApart, ServerType, SocketType
  <2>2. undisturbed' \in BOOLEAN
    BY <1>1 DEF BindPorts, Disturbed, TypesApart, OtherTypes
  <2> QED BY <1>1, <1>3, <2>1, <2>2, Zenon DEF TypesApart, MonitorType, ContextType, OtherTypes
<1>6. ASSUME undisturbed' PROVE Quiet'
  <2>0. undisturbed /\ (socket'.pc = "leave" => monitor.pc # "start")
    BY <1>1, <1>2, <1>6 DEF BindPorts, Disturbed, TypesApart, SocketType
  <2>1. Quiet  BY <2>0 DEF ServerInv
  <2>2. Belong'  BY <1>2, <1>3, <2>1, BelongStays DEF Quiet
  <2>3. Starting'  BY <1>2 DEF Starting
  <2>4. Leaving'  BY <1>2, <1>3, <2>0, <2>1 DEF Quiet, Threads, Leaving, Starting
  <2>5. Finals'  BY <1>2, <1>3, <2>1 DEF Quiet, Threads, Finals, Serves, One
  <2>6. Meeting'
    BY <1>2, <1>3, <2>1 DEF Quiet, Meeting, Handshake, Handles, Fresh, GivenUp, Spins, LocksInv, Waits
  <2> QED BY <1>3, <2>1, <2>2, <2>3, <2>4, <2>5, <2>6, Zenon DEF Quiet, Threads
<1> QED BY <1>4, <1>5, <1>6, TypesNext DEF ServerInv

LEMMA LeaveLoopKeeps == ASSUME ServerInv, LeaveLoop PROVE ServerInv'
<1>1. TypesApart  BY Types DEF ServerInv
<1>2. /\ socket.pc = "poll" /\ socket'.pc = "leave" /\ socket'.ctx = socket.ctx
      /\ server.terminate /\ server'.refs = server.refs
      /\ ~server'.running /\ server'.terminate
      /\ server'.updated = server.updated /\ server'.received = server.received
      /\ server'.finalized = server.finalized
  BY <1>1 DEF LeaveLoop, TypesApart, ServerType, SocketType
<1>3. UNCHANGED <<ctxs, locks, clients, monitor, menu, task, nextApplicationGdbCtx, inputs, undisturbed>>
  BY DEF LeaveLoop
<1>4. Counted'
  BY <1>1, <1>2, <1>3 DEF ServerInv, Counted, Serves, One, TypesApart, ServerType
<1>5. TypesApart'
  <2>1. ServerType' /\ SocketType'
    BY <1>1 DEF LeaveLoop, TypesApart, ServerType, SocketType
  <2> QED BY <1>1, <1>3, <2>1, Zenon DEF TypesApart, MonitorType, ContextType, OtherTypes
<1>6. ASSUME undisturbed' PROVE Quiet'
  <2>1. Quiet  BY <1>3, <1>6 DEF ServerInv
  <2>2. Belong'  BY <1>2, <1>3, <2>1, BelongStays DEF Quiet
  <2>3. Starting'  BY <1>2 DEF Starting
  <2>4. Leaving'  BY <1>2, <1>3, <2>1 DEF Quiet, Threads, Leaving
  <2>5. Finals'  BY <1>2, <1>3, <2>1 DEF Quiet, Threads, Finals, Serves, One
  <2>6. Meeting'
    BY <1>2, <1>3, <2>1 DEF Quiet, Meeting, Handshake, Handles, Fresh, GivenUp, Spins, LocksInv, Waits
  <2> QED BY <1>3, <2>1, <2>2, <2>3, <2>4, <2>5, <2>6, Zenon DEF Quiet, Threads
<1> QED BY <1>4, <1>5, <1>6, TypesNext DEF ServerInv

LEMMA SocketLeavesKeeps == ASSUME ServerInv, SocketLeaves PROVE ServerInv'
<1>1. TypesApart  BY Types DEF ServerInv
<1>2. /\ socket.pc = "leave" /\ socket'.ctx = socket.ctx
      /\ socket'.pc = IF server.refs = 1 THEN "finalize" ELSE "ended"
      /\ server'.refs = server.refs - 1
      /\ server'.running = server.running /\ server'.terminate = server.terminate
      /\ server'.updated = server.updated /\ server'.received = server.received
      /\ server'.finalized = server.finalized
  BY <1>1 DEF SocketLeaves, TypesApart, ServerType, SocketType, AfterLeaving
<1>3. UNCHANGED <<ctxs, locks, clients, monitor, menu, task, nextApplicationGdbCtx, inputs, undisturbed>>
  BY DEF SocketLeaves, Untouched, Others
<1>4. Counted'
  BY <1>1, <1>2, <1>3 DEF ServerInv, Counted, Serves, One, TypesApart, ServerType
<1>5. TypesApart'
  <2>1. server.refs - 1 \in 0 .. 2
    BY <1>1, <1>2 DEF ServerInv, Counted, Serves, One, TypesApart, ServerType
  <2>2. ServerType' /\ SocketType'
    BY <1>1, <2>1 DEF SocketLeaves, TypesApart, ServerType, SocketType, AfterLeaving
  <2> QED BY <1>1, <1>3, <2>2, Zenon DEF TypesApart, MonitorType, ContextType, OtherTypes
<1>6. ASSUME undisturbed' PROVE Quiet'
  <2>1. Quiet  BY <1>3, <1>6 DEF ServerInv
  <2>2. Belong'  BY <1>2, <1>3, <2>1, BelongStays DEF Quiet
  <2>3. Starting'  BY <1>2 DEF Starting
  <2>4. Leaving'  BY <1>2, <1>3, <2>1 DEF Quiet, Threads, Leaving
  <2>5. Finals'
    <3>1. monitor.pc # "start" /\ monitor.pc # "finalize" /\ server.finalized = 0
      BY <1>2, <2>1 DEF Quiet, Threads, Leaving, Finals, Serves
    <3>2. server.refs = 1 <=> ~Serves(monitor)
      BY <1>2 DEF ServerInv, Counted, Serves, One
    <3> QED BY <1>2, <1>3, <3>1, <3>2 DEF Finals, Serves, One
  <2>6. Meeting'
    BY <1>2, <1>3, <2>1 DEF Quiet, Meeting, Handshake, Handles, Fresh, GivenUp, Spins, LocksInv, Waits
  <2> QED BY <1>3, <2>1, <2>2, <2>3, <2>4, <2>5, <2>6, Zenon DEF Quiet, Threads
<1> QED BY <1>4, <1>5, <1>6, TypesNext DEF ServerInv
-----------------------------------------------------------------------------
(* What all steps of the monitor leave as it is.                            *)
LEMMA ByMonitor ==
    ASSUME MonitorOnly, UNCHANGED ctxs
    PROVE  /\ UNCHANGED <<ctxs, locks, clients, socket, menu, task, nextApplicationGdbCtx, undisturbed>>
           /\ ContextType /\ SocketType /\ OtherTypes => (ContextType /\ SocketType /\ OtherTypes)'
           /\ Belong => Belong'
           /\ Spins => Spins'
           /\ LocksInv => LocksInv'
<1>1. UNCHANGED <<ctxs, locks, clients, socket, menu, task, nextApplicationGdbCtx, inputs, undisturbed>>
  BY Zenon DEF MonitorOnly
<1>2. ContextType /\ SocketType /\ OtherTypes => (ContextType /\ SocketType /\ OtherTypes)'
  BY <1>1, Zenon DEF ContextType, SocketType, OtherTypes
<1>3. Belong => Belong'  BY <1>1, BelongStays
<1>4. (Spins => Spins') /\ (LocksInv => LocksInv')
  BY <1>1, Zenon DEF Spins, Spinning, LocksInv
<1> QED BY <1>1, <1>2, <1>3, <1>4

LEMMA MonitorStartsKeeps == ASSUME ServerInv, MonitorStarts PROVE ServerInv'
<1>1. TypesApart  BY Types DEF ServerInv
<1>2. /\ monitor.pc = "start" /\ monitor'.pc = "snapshot" /\ monitor'.ctx = monitor.ctx
      /\ monitor'.handles = monitor.handles /\ monitor'.failed = monitor.failed
      /\ server'.refs = server.refs + 1
      /\ server'.running = server.running /\ server'.terminate = server.terminate
      /\ server'.updated = server.updated /\ server'.received = server.received
      /\ server'.finalized = server.finalized
  BY <1>1 DEF MonitorStarts, TypesApart, ServerType, MonitorType
<1>3. MonitorOnly /\ UNCHANGED ctxs  BY DEF MonitorStarts
<1>4. UNCHANGED <<ctxs, locks, clients, socket, menu, task, nextApplicationGdbCtx, undisturbed>>
  BY <1>3, ByMonitor
<1>5. Counted'
  BY <1>1, <1>2, <1>4 DEF ServerInv, Counted, Serves, One, TypesApart, ServerType
<1>6. TypesApart'
  <2>1. server.refs + 1 \in 0 .. 2
    BY <1>1, <1>2 DEF ServerInv, Counted, Serves, One, TypesApart, ServerType
  <2>2. ServerType' /\ MonitorType'
    BY <1>1, <2>1 DEF MonitorStarts, TypesApart, ServerType, MonitorType
  <2> QED BY <1>1, <1>3, <2>2, ByMonitor, Zenon DEF TypesApart
<1>7. ASSUME undisturbed' PROVE Quiet'
  <2>1. Quiet  BY <1>4, <1>7 DEF ServerInv
  <2>2. Belong' /\ Spins' /\ LocksInv'  BY <1>3, <2>1, ByMonitor, Zenon DEF Quiet, Meeting
  <2>3. Starting'  BY <1>2, <1>4, <2>1 DEF Quiet, Threads, Starting, Signalled
  <2>4. Leaving' /\ Finals'
    BY <1>2, <1>4, <2>1 DEF Quiet, Threads, Leaving, Finals, One
  <2>5. Handshake' /\ Handles'
    BY <1>2, <1>4, <2>1 DEF Quiet, Meeting, Handshake, WaitsFor, Handles, Waits
  <2>6. ~monitor'.failed /\ task' # "crashed"
    BY <1>2, <1>4, <2>1, Zenon DEF Quiet
  <2> QED BY <2>2, <2>3, <2>4, <2>5, <2>6 DEF Quiet, Threads, Meeting
<1> QED BY <1>5, <1>6, <1>7, TypesNext DEF ServerInv

LEMMA SnapshotKeeps == ASSUME ServerInv, Snapshot PROVE ServerInv'
<1>1. TypesApart  BY Types DEF ServerInv
<1>2. /\ monitor.pc = "snapshot" /\ monitor'.pc = "call" /\ monitor'.ctx = monitor.ctx
      /\ monitor'.handles = [c \in Ctxs |-> ctxs[c].eventToWaitFor] /\ monitor'.failed = monitor.failed
      /\ server' = server
  BY <1>1 DEF Snapshot, TypesApart, MonitorType
<1>3. MonitorOnly /\ UNCHANGED ctxs  BY DEF Snapshot
<1>4. UNCHANGED <<ctxs, locks, clients, socket, menu, task, nextApplicationGdbCtx, undisturbed>>
  BY <1>3, ByMonitor
<1>5. Counted'
  BY <1>1, <1>2, <1>4 DEF ServerInv, Counted, Serves, One
<1>6. TypesApart'
  <2>1. [c \in Ctxs |-> ctxs[c].eventToWaitFor] \in [Ctxs -> {"attached", "continued", "debug"}]
    BY <1>1 DEF TypesApart, ContextType, Contexts
  <2>2. MonitorType'
    BY <1>1, <2>1 DEF Snapshot, TypesApart, MonitorType
  <2> QED BY <1>1, <1>2, <1>3, <2>2, ByMonitor, Zenon DEF TypesApart, ServerType
<1>7. ASSUME undisturbed' PROVE Quiet'
  <2>1. Quiet  BY <1>4, <1>7 DEF ServerInv
  <2>2. Belong' /\ Spins' /\ LocksInv'  BY <1>3, <2>1, ByMonitor, Zenon DEF Quiet, Meeting
  <2>0. \A c \in Ctxs : monitor'.handles[c] = ctxs'[c].eventToWaitFor
    BY <1>2, <1>4
  <2>3. Starting'
    <3> SUFFICES ASSUME socket'.pc \in {"start", "bind"}
                 PROVE  \A c \in Ctxs : ~Signalled(c)'
      BY <1>2, <1>4, <2>1 DEF Quiet, Threads, Starting
    <3>1. \A c \in Ctxs : ctxs[c].eventToWaitFor = "attached" /\ ~ctxs[c].attached
      BY <1>4, <2>1 DEF Quiet, Threads, Starting, Belong, Fits
    <3> QED BY <1>4, <2>0, <3>1 DEF Signalled
  <2>4. Leaving' /\ Finals'
    BY <1>2, <1>4, <2>1 DEF Quiet, Threads, Leaving, Finals, One
  <2>5. Handshake' /\ Handles'
    <3>1. Handles'  BY <1>2, <2>0 DEF Handles, Fresh
    <3>2. Handshake'
      <4> SUFFICES ASSUME Waits' PROVE WaitsFor(socket.ctx)'
        BY Zenon DEF Handshake
      <4>1. WaitsFor(socket.ctx)  BY <1>4, <2>1, Zenon DEF Quiet, Meeting, Handshake, Waits
      <4> QED BY <1>2, <1>4, <2>0, <4>1 DEF WaitsFor, HasClient
    <3> QED BY <3>1, <3>2
  <2>6. ~monitor'.failed /\ task' # "crashed"
    BY <1>2, <1>4, <2>1, Zenon DEF Quiet
  <2> QED BY <2>2, <2>3, <2>4, <2>5, <2>6 DEF Quiet, Threads, Meeting
<1> QED BY <1>5, <1>6, <1>7, TypesNext DEF ServerInv

(* The kernel is handed a closed handle only when the context was given up  *)
(* before the hand-shake's answer.                                          *)
LEMMA CallWaitKeeps == ASSUME ServerInv, CallWait PROVE ServerInv'
<1>1. TypesApart  BY Types DEF ServerInv
<1> DEFINE fine == \A c \in Ctxs : monitor.handles[c] = "debug" => ctxs[c].debug
<1>2. /\ monitor.pc = "call" /\ monitor'.ctx = monitor.ctx /\ monitor'.handles = monitor.handles
      /\ IF fine THEN monitor'.pc = "wait" /\ monitor'.failed = monitor.failed
                 ELSE monitor'.pc = "leave"
      /\ server' = server
  BY <1>1 DEF CallWait, TypesApart, MonitorType
<1>3. MonitorOnly /\ UNCHANGED ctxs  BY DEF CallWait
<1>4. UNCHANGED <<ctxs, locks, clients, socket, menu, task, nextApplicationGdbCtx, undisturbed>>
  BY <1>3, ByMonitor
<1>5. Counted'
  BY <1>1, <1>2, <1>4 DEF ServerInv, Counted, Serves, One
<1>6. TypesApart'
  <2>2. MonitorType'
    BY <1>1 DEF CallWait, TypesApart, MonitorType
  <2> QED BY <1>1, <1>2, <1>3, <2>2, ByMonitor, Zenon DEF TypesApart, ServerType
<1>7. ASSUME undisturbed' PROVE Quiet'
  <2>1. Quiet  BY <1>4, <1>7 DEF ServerInv
  <2>0. fine
    <3> SUFFICES ASSUME NEW c \in Ctxs, monitor.handles[c] = "debug" PROVE ctxs[c].debug
      OBVIOUS
    <3>1. Fits(ctxs[c])  BY <2>1, Zenon DEF Quiet, Belong
    <3>2. CASE Fresh(c)  BY <3>1, <3>2 DEF Fits, Fresh
    <3>3. CASE GivenUp(c)  BY <3>3 DEF GivenUp
    <3> QED BY <1>2, <2>1, <3>2, <3>3 DEF Quiet, Meeting, Handles
  <2> HIDE DEF fine
  <2>2. Belong' /\ Spins' /\ LocksInv'  BY <1>3, <2>1, ByMonitor, Zenon DEF Quiet, Meeting
  <2>3. Starting'  BY <1>2, <1>4, <2>0, <2>1 DEF Quiet, Threads, Starting, Signalled
  <2>4. Leaving' /\ Finals'
    BY <1>2, <1>4, <2>0, <2>1 DEF Quiet, Threads, Leaving, Finals, One
  <2>5. Handshake' /\ Handles'
    BY <1>2, <1>4, <2>0, <2>1 DEF Quiet, Meeting, Handshake, WaitsFor, Handles, Waits, Fresh, GivenUp, HasClient
  <2>6. ~monitor'.failed /\ task' # "crashed"
    BY <1>2, <1>4, <2>0, <2>1, Zenon DEF Quiet
  <2> QED BY <2>2, <2>3, <2>4, <2>5, <2>6 DEF Quiet, Threads, Meeting
<1> QED BY <1>5, <1>6, <1>7, TypesNext DEF ServerInv

LEMMA ToldToEndKeeps == ASSUME ServerInv, ToldToEnd PROVE ServerInv'
<1>1. TypesApart  BY Types DEF ServerInv
<1>2. /\ monitor.pc = "wait" /\ monitor'.pc = "leave" /\ monitor'.ctx = monitor.ctx
      /\ monitor'.handles = monitor.handles /\ monitor'.failed = monitor.failed
      /\ server.terminate /\ server' = server
  BY <1>1 DEF ToldToEnd, TypesApart, MonitorType
<1>3. MonitorOnly /\ UNCHANGED ctxs  BY DEF ToldToEnd
<1>4. UNCHANGED <<ctxs, locks, clients, socket, menu, task, nextApplicationGdbCtx, undisturbed>>
  BY <1>3, ByMonitor
<1>5. Counted'
  BY <1>1, <1>2, <1>4 DEF ServerInv, Counted, Serves, One
<1>6. TypesApart'
  <2>2. MonitorType'
    BY <1>1 DEF ToldToEnd, TypesApart, MonitorType
  <2> QED BY <1>1, <1>2, <1>3, <2>2, ByMonitor, Zenon DEF TypesApart, ServerType
<1>7. ASSUME undisturbed' PROVE Quiet'
  <2>1. Quiet  BY <1>4, <1>7 DEF ServerInv
  <2>2. Belong' /\ Spins' /\ LocksInv'  BY <1>3, <2>1, ByMonitor, Zenon DEF Quiet, Meeting
  <2>3. Starting'  BY <1>2, <1>4, <2>1 DEF Quiet, Threads, Starting, Signalled
  <2>4. Leaving' /\ Finals'
    BY <1>2, <1>4, <2>1 DEF Quiet, Threads, Leaving, Finals, One
  <2>5. Handshake' /\ Handles'
    BY <1>2, <1>4, <2>1 DEF Quiet, Meeting, Handshake, WaitsFor, Handles, Waits, HasClient
  <2>6. ~monitor'.failed /\ task' # "crashed"
    BY <1>2, <1>4, <2>1, Zenon DEF Quiet
  <2> QED BY <2>2, <2>3, <2>4, <2>5, <2>6 DEF Quiet, Threads, Meeting
<1> QED BY <1>5, <1>6, <1>7, TypesNext DEF ServerInv

LEMMA StatusUpdatedKeeps == ASSUME ServerInv, StatusUpdated PROVE ServerInv'
<1>1. TypesApart  BY Types DEF ServerInv
<1>2. /\ monitor.pc = "wait" /\ monitor'.pc = IF server.running THEN "snapshot" ELSE "leave"
      /\ monitor'.ctx = monitor.ctx
      /\ monitor'.handles = monitor.handles /\ monitor'.failed = monitor.failed
      /\ server.updated /\ server'.refs = server.refs
      /\ server'.running = server.running /\ server'.terminate = server.terminate
      /\ ~server'.updated /\ server'.received /\ server'.finalized = server.finalized
  BY <1>1 DEF StatusUpdated, NextTurn, TypesApart, MonitorType, ServerType
<1>3. MonitorOnly /\ UNCHANGED ctxs  BY DEF StatusUpdated
<1>4. UNCHANGED <<ctxs, locks, clients, socket, menu, task, nextApplicationGdbCtx, undisturbed>>
  BY <1>3, ByMonitor
<1>5. Counted'
  BY <1>1, <1>2, <1>4 DEF ServerInv, Counted, Serves, One
<1>6. TypesApart'
  <2>2. MonitorType' /\ ServerType'
    BY <1>1 DEF StatusUpdated, NextTurn, TypesApart, MonitorType, ServerType
  <2> QED BY <1>1, <1>2, <1>3, <2>2, ByMonitor, Zenon DEF TypesApart
<1>7. ASSUME undisturbed' PROVE Quiet'
  <2>1. Quiet  BY <1>4, <1>7 DEF ServerInv
  <2>2. Belong' /\ Spins' /\ LocksInv'  BY <1>3, <2>1, ByMonitor, Zenon DEF Quiet, Meeting
  <2>0. socket.pc \notin {"start", "bind"}  BY <1>2, <2>1 DEF Quiet, Threads, Starting
  <2>3. Starting'  BY <1>4, <2>0 DEF Starting
  <2>4. Leaving' /\ Finals'
    BY <1>1, <1>2, <1>4, <2>0, <2>1 DEF Quiet, Threads, Leaving, Finals, One, TypesApart, SocketType
  <2>5. Handshake' /\ Handles'
    BY <1>2, <1>4, <2>1 DEF Quiet, Meeting, Handshake, WaitsFor, Handles, Waits, HasClient
  <2>6. ~monitor'.failed /\ task' # "crashed"
    BY <1>2, <1>4, <2>1, Zenon DEF Quiet
  <2> QED BY <2>2, <2>3, <2>4, <2>5, <2>6 DEF Quiet, Threads, Meeting
<1> QED BY <1>5, <1>6, <1>7, TypesNext DEF ServerInv

LEMMA MonitorLeavesKeeps == ASSUME ServerInv, MonitorLeaves PROVE ServerInv'
<1>1. TypesApart  BY Types DEF ServerInv
<1>2. /\ monitor.pc = "leave" /\ monitor'.pc = IF server.refs = 1 THEN "finalize" ELSE "ended"
      /\ monitor'.ctx = monitor.ctx
      /\ monitor'.handles = monitor.handles /\ monitor'.failed = monitor.failed
      /\ server'.refs = server.refs - 1
      /\ server'.running = server.running /\ server'.terminate = server.terminate
      /\ server'.updated = server.updated /\ server'.received = server.received
      /\ server'.finalized = server.finalized
  BY <1>1 DEF MonitorLeaves, AfterLeaving, TypesApart, MonitorType, ServerType
<1>3. MonitorOnly /\ UNCHANGED ctxs  BY DEF MonitorLeaves
<1>4. UNCHANGED <<ctxs, locks, clients, socket, menu, task, nextApplicationGdbCtx, undisturbed>>
  BY <1>3, ByMonitor
<1>5. Counted'
  BY <1>1, <1>2, <1>4 DEF ServerInv, Counted, Serves, One, TypesApart, ServerType
<1>6. TypesApart'
  <2>1. server.refs - 1 \in 0 .. 2
    BY <1>1, <1>2 DEF ServerInv, Counted, Serves, One, TypesApart, ServerType
  <2>2. MonitorType' /\ ServerType'
    BY <1>1, <2>1 DEF MonitorLeaves, AfterLeaving, TypesApart, MonitorType, ServerType
  <2> QED BY <1>1, <1>2, <1>3, <2>2, ByMonitor, Zenon DEF TypesApart
<1>7. ASSUME undisturbed' PROVE Quiet'
  <2>1. Quiet  BY <1>4, <1>7 DEF ServerInv
  <2>2. Belong' /\ Spins' /\ LocksInv'  BY <1>3, <2>1, ByMonitor, Zenon DEF Quiet, Meeting
  <2>0. server.terminate /\ socket.pc \notin {"start", "bind"}
    BY <1>2, <2>1 DEF Quiet, Threads, Starting, Leaving
  <2>3. Starting'  BY <1>4, <2>0 DEF Starting
  <2>4. Leaving'  BY <1>2, <1>4, <2>0, <2>1 DEF Quiet, Threads, Leaving
  <2>5. Finals'
    <3>1. socket.pc # "start" /\ socket.pc # "finalize" /\ server.finalized = 0
      BY <1>2, <2>0, <2>1 DEF Quiet, Threads, Finals
    <3>2. server.refs = 1 <=> ~Serves(socket)
      BY <1>2 DEF ServerInv, Counted, Serves, One
    <3> QED BY <1>2, <1>4, <3>1, <3>2 DEF Finals, Serves, One
  <2>6. Handshake' /\ Handles'
    BY <1>2, <1>4, <2>1 DEF Quiet, Meeting, Handshake, WaitsFor, Handles, Waits, HasClient
  <2>7. ~monitor'.failed /\ task' # "crashed"
    BY <1>2, <1>4, <2>1, Zenon DEF Quiet
  <2> QED BY <2>2, <2>3, <2>4, <2>5, <2>6, <2>7 DEF Quiet, Threads, Meeting
<1> QED BY <1>5, <1>6, <1>7, TypesNext DEF ServerInv

(* The monitor wakes for a context that is not being given up.              *)
LEMMA WaitReturnsKeeps == ASSUME ServerInv, NEW c \in Ctxs, WaitReturns(c) PROVE ServerInv'
<1>1. TypesApart  BY Types DEF ServerInv
<1> DEFINE r == ctxs[c]
           s == [r EXCEPT !.continued = @ /\ monitor.handles[c] # "continued"]
<1>2. /\ monitor.pc = "wait" /\ monitor'.pc = "woken" /\ monitor'.ctx = c
      /\ monitor'.handles = monitor.handles /\ monitor'.failed = monitor.failed
      /\ ~server.updated /\ server' = server /\ Signalled(c)
  BY <1>1 DEF WaitReturns, TypesApart, MonitorType
<1>3. UNCHANGED <<locks, clients, socket, menu, task, nextApplicationGdbCtx, inputs, undisturbed>>
  BY Zenon DEF WaitReturns, MonitorOnly
<1>4. r \in Contexts  BY <1>1 DEF TypesApart, ContextType
<1>5. ctxs' = [ctxs EXCEPT ![c] = s]
  BY <1>1, <1>4 DEF WaitReturns, TypesApart, ContextType, Contexts
<1>6. /\ s \in Contexts
      /\ s.flags = r.flags /\ s.port = r.port /\ s.state = r.state /\ s.debug = r.debug
      /\ s.told = r.told /\ s.proc = r.proc /\ s.event = r.event
      /\ s.attached = r.attached /\ s.eventToWaitFor = r.eventToWaitFor
  BY <1>4 DEF Contexts
<1> HIDE DEF s
<1>7. Counted'
  BY <1>1, <1>2, <1>3 DEF ServerInv, Counted, Serves, One
<1>8. TypesApart'
  <2>1. MonitorType'
    BY <1>1 DEF WaitReturns, TypesApart, MonitorType
  <2>2. ContextType'  BY <1>1, <1>5, <1>6, EditType, Zenon DEF TypesApart
  <2>3. SocketType' /\ OtherTypes'
    BY <1>1, <1>3, Zenon DEF TypesApart, SocketType, OtherTypes
  <2>4. ServerType'
    BY <1>1, <1>2, Zenon DEF TypesApart, ServerType
  <2> QED BY <2>1, <2>2, <2>3, <2>4, Zenon DEF TypesApart
<1>9. ASSUME undisturbed' PROVE Quiet'
  <2>1. Quiet  BY <1>3, <1>9 DEF ServerInv
  <2>0. /\ ctxs'[c] = s /\ \A d \in Ctxs \ {c} : ctxs'[d] = ctxs[d]
        /\ \A d \in Ctxs : /\ ctxs'[d].flags = ctxs[d].flags /\ ctxs'[d].port = ctxs[d].port
                           /\ ctxs'[d].attached = ctxs[d].attached
                           /\ ctxs'[d].eventToWaitFor = ctxs[d].eventToWaitFor
    BY <1>1, <1>5, <1>6 DEF TypesApart, ContextType
  <2>2. Belong'
    <3>1. Fits(r)  BY <2>1, Zenon DEF Quiet, Belong
    <3>2. Fits(s)  BY <1>6, <3>1, Zenon DEF Fits
    <3>3. \A p \in Ports : clients'[p] \in Ctxs =>
              IF clients'[p] = c THEN "used" \in s.flags /\ s.port = p ELSE clients'[p] = clients[p]
      BY <1>3, <1>6, <2>1 DEF Quiet, Belong, ClientsOwn
    <3>4. s.debug => HasClient(c)' \/ socket'.ctx = c \/ "atStart" \in s.flags
      BY <1>3, <1>6, <2>1, Zenon DEF Quiet, Belong, DebugFor, HeldFor, HasClient
    <3>5. \A d \in Ctxs \ {c} : HasClient(d) \/ socket.ctx = d => (HasClient(d) \/ socket.ctx = d)'
      BY <1>3, Zenon DEF HasClient
    <3>6. s.port \in {0, ctxs[c].port}  BY <1>6
    <3> QED BY <1>1, <1>5, <1>6, <2>1, <3>2, <3>3, <3>4, <3>5, <3>6, BelongEdit, Zenon
            DEF Quiet, TypesApart
  <2>3. socket.pc \notin {"start", "bind"}
    BY <1>2, <2>1 DEF Quiet, Threads, Starting
  <2>4. Threads'
    BY <1>2, <1>3, <2>1, <2>3 DEF Quiet, Threads, Starting, Leaving, Finals, One
  <2>5. Spins'  BY <1>3, <2>0, <2>1 DEF Quiet, Meeting, Spins, Spinning
  <2>6. LocksInv'  BY <1>3, <2>1, Zenon DEF Quiet, Meeting, LocksInv
  <2>7. ~(Waits /\ socket.ctx = c)
    BY <1>2, <2>1 DEF Quiet, Meeting, Handshake, WaitsFor, Signalled
  <2>8. Handles'
    <3>1. Fresh(c)
      BY <1>2, <2>1, <2>7 DEF Quiet, Meeting, Handles, GivenUp
    <3> QED BY <1>2, <1>6, <2>0, <3>1 DEF Handles, Fresh, Signalled
  <2>9. Handshake'
    <3> SUFFICES ASSUME Waits' PROVE WaitsFor(socket.ctx)'
      BY Zenon DEF Handshake
    <3>1. WaitsFor(socket.ctx) /\ socket.ctx # c
      BY <1>3, <2>1, <2>7, Zenon DEF Quiet, Meeting, Handshake, Waits
    <3> QED BY <1>2, <1>3, <2>0, <3>1 DEF WaitsFor, HasClient
  <2>10. ~monitor'.failed /\ task' # "crashed"
    BY <1>2, <1>3, <2>1, Zenon DEF Quiet
  <2> QED BY <2>2, <2>4, <2>5, <2>6, <2>8, <2>9, <2>10 DEF Quiet, Meeting
<1> QED BY <1>7, <1>8, <1>9, TypesNext DEF ServerInv
-----------------------------------------------------------------------------
(* Menu, task and clients, where no context changes.                        *)

LEMMA MenuTurnsKeep ==
    ASSUME ServerInv, EnableEnds \/ DisableEnds \/ FetchStarts
    PROVE  ServerInv'
<1>1. TypesApart  BY Types DEF ServerInv
<1>2. UNCHANGED <<ctxs, locks, clients, server, socket, monitor, inputs, undisturbed>>
  BY Zenon DEF EnableEnds, DisableEnds, FetchStarts, MenuOnly, TaskOnly
<1>3. /\ menu' \in {menu, "idle", "disabled"} /\ task' \in {task, "fetching"}
      /\ nextApplicationGdbCtx' \in {nextApplicationGdbCtx, NoCtx}
  BY DEF EnableEnds, DisableEnds, FetchStarts, MenuOnly, TaskOnly
<1>4. Counted'  BY <1>2, Zenon DEF ServerInv, Counted, Serves
<1>5. TypesApart'
  <2>1. OtherTypes
    BY <1>1, Zenon DEF TypesApart
  <2>2. menu' \in MenuStates
    BY <1>3, <2>1 DEF OtherTypes, MenuStates
  <2>3. task' \in TaskStates /\ nextApplicationGdbCtx' \in Ctxs \cup {NoCtx}
    BY <1>3, <2>1 DEF OtherTypes, TaskStates
  <2>4. OtherTypes'
    BY <1>2, <2>1, <2>2, <2>3 DEF OtherTypes
  <2> QED BY <1>1, <1>2, <2>4, TypesKept DEF TypesApart
<1>6. ASSUME undisturbed' PROVE Quiet'
  <2>1. Quiet  BY <1>2, <1>6 DEF ServerInv
  <2>2. Belong'  BY <1>2, <2>1, BelongStays DEF Quiet
  <2>3. Leaving' /\ Finals'
    BY <1>2, <2>1, Zenon DEF Quiet, Threads, Leaving, Finals, One
  <2>4. Starting'
    <3> SUFFICES ASSUME socket'.pc \in {"start", "bind"} PROVE menu' = "enabling" /\ nextApplicationGdbCtx' = NoCtx
      BY <1>2, <2>1 DEF Quiet, Threads, Starting, Signalled
    <3>1. /\ ~server.running /\ ~server.terminate
          /\ menu = "enabling" /\ nextApplicationGdbCtx = NoCtx
      BY <1>2, <2>1, Zenon DEF Quiet, Threads, Starting
    <3>2. menu' = "enabling" /\ nextApplicationGdbCtx' = NoCtx
      BY <1>3, <3>1, Zenon DEF EnableEnds, DisableEnds, FetchStarts, MenuOnly, TaskOnly
    <3> QED BY <3>2
  <2>5. Handshake' /\ Handles' /\ Spins'
    BY <1>2, <2>1, Zenon DEF Quiet, Meeting, Handshake, WaitsFor, Handles, Fresh, GivenUp, Waits,
                             HasClient, Spins, Spinning
  <2>6. LocksInv'  BY <1>2, <1>3, <2>1 DEF Quiet, Meeting, LocksInv
  <2> QED BY <1>2, <1>3, <2>1, <2>2, <2>3, <2>4, <2>5, <2>6 DEF Quiet, Threads, Meeting
<1> QED BY <1>4, <1>5, <1>6, TypesNext DEF ServerInv

LEMMA DisableDebuggerKeeps == ASSUME ServerInv, DisableDebugger PROVE ServerInv'
<1>1. TypesApart  BY Types DEF ServerInv
<1>2. UNCHANGED <<ctxs, locks, clients, socket, monitor, task, inputs, nextApplicationGdbCtx>>
  BY Zenon DEF DisableDebugger, MenuOnly
<1>3. /\ menu = "idle" /\ menu' = "joining" /\ server'.refs = server.refs
      /\ server'.running = server.running /\ server'.terminate
      /\ server'.updated = server.updated /\ server'.received = server.received
      /\ server'.finalized = server.finalized
  BY <1>1 DEF DisableDebugger, TypesApart, ServerType
<1>4. Counted'  BY <1>2, <1>3, Zenon DEF ServerInv, Counted, Serves
<1>5. TypesApart'
  <2>1. ServerType'  BY <1>1 DEF DisableDebugger, TypesApart, ServerType
  <2>2. undisturbed' \in BOOLEAN
    BY <1>1 DEF DisableDebugger, Disturbed, TypesApart, OtherTypes
  <2>3. menu' \in MenuStates  BY <1>3 DEF MenuStates
  <2>4. OtherTypes'
    BY <1>1, <1>2, <2>2, <2>3, Zenon DEF TypesApart, OtherTypes
  <2> QED BY <1>1, <1>2, <2>1, <2>4, TypesKept DEF TypesApart
<1>6. ASSUME undisturbed' PROVE Quiet'
  <2>0. undisturbed /\ monitor.pc # "start" /\ socket.pc \notin {"closing", "detaching", "spinning"}
    BY <1>6, Zenon DEF DisableDebugger, Disturbed
  <2>1. Quiet  BY <2>0 DEF ServerInv
  <2>2. Belong'  BY <1>2, <2>1, BelongStays DEF Quiet
  <2>3. Starting'  BY <1>2, <1>3, <2>1 DEF Quiet, Threads, Starting
  <2>4. Leaving' /\ Finals'
    BY <1>2, <1>3, <2>0, <2>1 DEF Quiet, Threads, Leaving, Finals, One
  <2>5. Handshake' /\ Handles' /\ Spins'
    BY <1>2, <1>3, <2>0, <2>1 DEF Quiet, Meeting, Handshake, Handles, Fresh, Waits, GivenUp, Spins
  <2>6. LocksInv'  BY <1>2, <1>3, <2>1 DEF Quiet, Meeting, LocksInv
  <2> QED BY <1>2, <2>1, <2>2, <2>3, <2>4, <2>5, <2>6 DEF Quiet, Threads, Meeting
<1> QED BY <1>4, <1>5, <1>6, TypesNext DEF ServerInv

LEMMA ConnectKeeps == ASSUME ServerInv, NEW p \in Ports, Connect(p) PROVE ServerInv'
<1>1. TypesApart  BY Types DEF ServerInv
<1>2. UNCHANGED <<ctxs, locks, server, socket, monitor, menu, task, nextApplicationGdbCtx, undisturbed>>
  BY Zenon DEF Connect
<1>3. /\ clients[p] = NoCtx /\ clients' = [clients EXCEPT ![p] = Queued] /\ inputs' \in 0 .. MaxInputs
  BY <1>1, Constants DEF Connect, Input, TypesApart, OtherTypes
<1>4. Counted'  BY <1>2, Zenon DEF ServerInv, Counted, Serves
<1>5. TypesApart'
  <2>0. OtherTypes
    BY <1>1, Zenon DEF TypesApart
  <2>2. clients' \in [Ports -> Ctxs \cup {NoCtx, Queued}]
    BY <1>3, <2>0 DEF OtherTypes
  <2>1. OtherTypes'
    BY <1>2, <1>3, <2>0, <2>2 DEF OtherTypes
  <2> QED BY <1>1, <1>2, <2>1, TypesKept DEF TypesApart
<1>6. ASSUME undisturbed' PROVE Quiet'
  <2>1. Quiet  BY <1>2, <1>6 DEF ServerInv
  <2>2. \A q \in Ports : \A c \in Ctxs : clients'[q] = c <=> clients[q] = c
    BY <1>1, <1>3, Constants DEF TypesApart, OtherTypes
  <2>3. \A c \in Ctxs : HasClient(c)' <=> HasClient(c)
    BY <2>2, Zenon DEF HasClient
  <2>4. Belong'
    <3>1. ClientsOwn'
      BY <1>2, <2>1, <2>2 DEF Quiet, Belong, ClientsOwn
    <3>2. DebugFor'  BY <1>2, <2>1, <2>3, Zenon DEF Quiet, Belong, DebugFor, HeldFor
    <3>3. (\A c \in Ctxs : Fits(ctxs'[c])) /\ PortsDiffer'
      BY <1>2, <2>1, Zenon DEF Quiet, Belong, PortsDiffer
    <3> QED BY <3>1, <3>2, <3>3, Zenon DEF Belong
  <2>5. Threads'
    BY <1>2, <2>1, Zenon DEF Quiet, Threads, Starting, Signalled, Leaving, Finals, One
  <2>6. Handshake'
    BY <1>2, <2>1, <2>3, Zenon DEF Quiet, Meeting, Handshake, WaitsFor, Waits
  <2>7. Handles' /\ Spins' /\ LocksInv'
    BY <1>2, <2>1, Zenon DEF Quiet, Meeting, Handles, Fresh, GivenUp, Waits, Spins, Spinning, LocksInv
  <2> QED BY <1>2, <2>1, <2>4, <2>5, <2>6, <2>7, Zenon DEF Quiet, Meeting
<1> QED BY <1>4, <1>5, <1>6, TypesNext DEF ServerInv

(* Whoever finalizes the server leaves no context with a process.           *)
LEMMA FinalizeServerKeeps == ASSUME ServerInv, FinalizeServer PROVE ServerInv'
<1>1. TypesApart  BY Types DEF ServerInv
<1> DEFINE T(c) == Closed(Withdrawn(ctxs[c]))
<1>0. ctxs' = [c \in Ctxs |-> IF HasClient(c) \/ ctxs[c].debug THEN T(c) ELSE ctxs[c]]
  BY DEF FinalizeServer
<1>2. /\ ctxs' = [c \in Ctxs |-> IF HasClient(c) \/ ctxs[c].debug THEN T(c) ELSE ctxs[c]]
      /\ clients' = [p \in Ports |-> NoCtx]
      /\ UNCHANGED <<locks, menu, task, nextApplicationGdbCtx, inputs, undisturbed>>
  BY DEF FinalizeServer
<1>3. /\ server'.refs = server.refs /\ server'.running = server.running
      /\ server'.terminate = server.terminate
      /\ server'.finalized = server.finalized + 1
  BY <1>1 DEF FinalizeServer, TypesApart, ServerType
<1>4. /\ \/ socket.pc = "finalize" /\ socket'.pc = "ended" /\ monitor'.pc = monitor.pc
         \/ monitor.pc = "finalize" /\ monitor'.pc = "ended" /\ socket'.pc = socket.pc
      /\ socket'.ctx = socket.ctx /\ monitor'.failed = monitor.failed
  BY <1>1 DEF FinalizeServer, TypesApart, SocketType, MonitorType
<1>5. Counted'
  BY <1>1, <1>3, <1>4 DEF ServerInv, Counted, Serves, One, TypesApart, ServerType
<1>6. \A c \in Ctxs :
         /\ T(c) \in Contexts /\ T(c).flags = {} /\ T(c).port = 0 /\ T(c).state = "disconnected"
         /\ ~T(c).debug /\ ~T(c).attached /\ T(c).eventToWaitFor = "attached"
  <2> SUFFICES ASSUME NEW c \in Ctxs
               PROVE  /\ T(c) \in Contexts /\ T(c).flags = {} /\ T(c).port = 0
                      /\ T(c).state = "disconnected"
                      /\ ~T(c).debug /\ ~T(c).attached /\ T(c).eventToWaitFor = "attached"
    BY Zenon
  <2>1. ctxs[c] \in Contexts  BY <1>1 DEF TypesApart, ContextType
  <2>2. PICK w : w = Withdrawn(ctxs[c])  OBVIOUS
  <2>3. w \in Contexts /\ ~w.attached /\ w.eventToWaitFor = "attached"
    BY <2>1, <2>2, WithdrawnGives
  <2>4. T(c) = Closed(w)  BY <2>2
  <2> HIDE DEF T
  <2> QED BY <2>3, <2>4, ClosedGives
<1> HIDE DEF T
<1>7. TypesApart'
  <2>1. server.finalized + 1 \in 0 .. 2
    BY <1>1, <1>3, <1>4 DEF ServerInv, Counted, Serves, One, TypesApart, ServerType
  <2>2. ServerType' /\ SocketType' /\ MonitorType'
    BY <1>1, <2>1 DEF FinalizeServer, TypesApart, ServerType, SocketType, MonitorType
  <2>3. ContextType'
    BY <1>1, <1>2, <1>6 DEF TypesApart, ContextType
  <2>4. clients' \in [Ports -> Ctxs \cup {NoCtx, Queued}]
    BY <1>2
  <2>5. OtherTypes'
    BY <1>1, <1>2, <2>4 DEF TypesApart, OtherTypes
  <2> QED BY <2>2, <2>3, <2>5 DEF TypesApart
<1>8. ASSUME undisturbed' PROVE Quiet'
  <2>1. Quiet  BY <1>2, <1>8 DEF ServerInv
  <2>2. socket.pc \in {"finalize", "ended"} /\ monitor.pc \in {"finalize", "ended"}
    BY <1>4, <2>1 DEF Quiet, Threads, Finals
  <2>3. Threads'
    <3>1. Finals'
      BY <1>1, <1>3, <1>4, <2>1, <2>2 DEF Quiet, Threads, Finals, One, TypesApart, ServerType
    <3>2. Leaving' /\ Starting'
      BY <1>3, <1>4, <2>1, <2>2 DEF Quiet, Threads, Leaving, Starting
    <3> QED BY <3>1, <3>2 DEF Threads
  <2>4. Handshake' /\ Handles' /\ Spins'
    BY <1>4, <2>2 DEF Handshake, Handles, Spins, Waits
  <2>5. LocksInv'
    BY <1>2, <1>4, <2>1, <2>2 DEF Quiet, Meeting, LocksInv
  <2>6. \A c \in Ctxs : ctxs'[c] = T(c) \/ (ctxs'[c] = ctxs[c] /\ ~ctxs[c].debug)
    <3> TAKE c \in Ctxs
    <3>1. ctxs'[c] = IF HasClient(c) \/ ctxs[c].debug THEN T(c) ELSE ctxs[c]
      BY <1>0, Zenon
    <3>2. CASE HasClient(c) \/ ctxs[c].debug  BY <3>1, <3>2
    <3>3. CASE ~(HasClient(c) \/ ctxs[c].debug)  BY <3>1, <3>3
    <3> QED BY <3>2, <3>3
  <2>7. \A c \in Ctxs : Fits(ctxs'[c]) /\ ~ctxs'[c].debug
    <3> TAKE c \in Ctxs
    <3>1. Fits(ctxs[c])  BY <2>1, Zenon DEF Quiet, Belong
    <3>2. CASE ctxs'[c] = ctxs[c] /\ ~ctxs[c].debug  BY <3>1, <3>2
    <3>3. CASE ctxs'[c] = T(c)  BY <1>6, <3>3 DEF Fits
    <3> QED BY <2>6, <3>2, <3>3
  <2>8. PortsDiffer'
    <3>1. \A c \in Ctxs : ctxs'[c].port \in {0, ctxs[c].port}
      BY <1>6, <2>6
    <3>2. PortsDiffer  BY <2>1, Zenon DEF Quiet, Belong
    <3> QED BY <3>1, <3>2 DEF PortsDiffer
  <2>9. ClientsOwn'
    BY <1>2, Constants DEF ClientsOwn
  <2>10. DebugFor'  BY <2>7 DEF DebugFor
  <2> QED BY <1>2, <1>4, <2>1, <2>3, <2>4, <2>5, <2>7, <2>8, <2>9, <2>10 DEF Quiet, Meeting, Belong
<1> QED BY <1>5, <1>7, <1>8, TypesNext DEF ServerInv
-----------------------------------------------------------------------------
(* Steps that change one context and leave the threads where they are.      *)

LEMMA EditStep ==
    ASSUME ServerInv, NEW c \in Ctxs, NEW s \in Contexts, Edit(c, s), OtherTypes',
           undisturbed' => undisturbed /\ task' # "crashed" /\ (Quiet => Harmless(c, s))
    PROVE  ServerInv'
<1>1. GDBTypeOK /\ TypesApart /\ Counted  BY Types, Zenon DEF ServerInv
<1>2. Counted'  BY <1>1, Zenon DEF Counted, Edit, Serves
<1>3. TypesApart'
  <2>1. ContextType'  BY <1>1, EditType, Zenon DEF Edit, TypesApart
  <2> QED BY <1>1, <2>1, TypesKept DEF TypesApart, Edit
<1>4. ASSUME undisturbed' PROVE Quiet'
  BY <1>1, <1>4, EditKeeps, Zenon DEF ServerInv
<1> QED BY <1>2, <1>3, <1>4, TypesNext, Zenon DEF ServerInv

(* A handler that answers at once.                                          *)
LEMMA AnsweredKeeps ==
    ASSUME ServerInv, NEW c \in Ctxs, Packet(c), NEW s \in Contexts, Answered(c, s),
           Fits(ctxs[c]) /\ "used" \in ctxs[c].flags => Fits(s),
           "used" \in ctxs[c].flags => "used" \in s.flags,
           s.port = ctxs[c].port, s.eventToWaitFor = ctxs[c].eventToWaitFor,
           ctxs[c].debug => s.debug, s.attached = ctxs[c].attached \/ s.attached
    PROVE  ServerInv'
<1>1. TypesApart  BY Types DEF ServerInv
<1>2. /\ socket.pc = "poll" /\ HasClient(c)
      /\ ctxs' = [ctxs EXCEPT ![c] = s]
      /\ UNCHANGED <<locks, clients, server, socket, monitor, menu, task, nextApplicationGdbCtx, undisturbed>>
  BY DEF Packet, Polling, Answered, Others
<1>3. Edit(c, s)  BY <1>2, Zenon DEF Edit
<1>4. OtherTypes'
  <2>1. inputs' \in 0 .. MaxInputs
    BY <1>1, Constants DEF Packet, Input, TypesApart, OtherTypes
  <2> QED BY <1>1, <1>2, <2>1 DEF TypesApart, OtherTypes
<1>5. ASSUME Quiet PROVE Harmless(c, s)
  <2>1. Fits(ctxs[c]) /\ "used" \in ctxs[c].flags
    BY <1>2, <1>5 DEF Quiet, Belong, ClientsOwn, HasClient
  <2>2. ~Waits  BY <1>2 DEF Waits
  <2> QED BY <1>2, <2>1, <2>2 DEF Harmless
<1>6. undisturbed' => undisturbed /\ task' # "crashed" /\ (Quiet => Harmless(c, s))
  BY <1>2, <1>5, Zenon DEF ServerInv, Quiet
<1> QED BY <1>3, <1>4, <1>6, EditStep

LEMMA EnableExtendedModeKeeps ==
    ASSUME ServerInv, NEW c \in Ctxs, EnableExtendedMode(c) PROVE ServerInv'
<1>1. ctxs[c] \in Contexts  BY Types DEF ServerInv, TypesApart, ContextType
<1> DEFINE s == [ctxs[c] EXCEPT !.flags = @ \cup {"extended"}]
<1>2. /\ s \in Contexts
      /\ "used" \in ctxs[c].flags => "used" \in s.flags
      /\ Fits(ctxs[c]) => Fits(s)
      /\ s.port = ctxs[c].port /\ s.eventToWaitFor = ctxs[c].eventToWaitFor
      /\ s.attached = ctxs[c].attached /\ s.debug = ctxs[c].debug
  BY <1>1 DEF Contexts, Flags, Fits
<1>3. Packet(c) /\ Answered(c, s)  BY Zenon DEF EnableExtendedMode
<1> HIDE DEF s
<1> QED BY <1>2, <1>3, AnsweredKeeps

LEMMA ContinueKeeps == ASSUME ServerInv, NEW c \in Ctxs, Continue(c) PROVE ServerInv'
<1> DEFINE r == ctxs[c]
           s == [r EXCEPT !.flags = @ \cup {"continuing"}, !.told = FALSE,
                          !.proc = IF @ = "stopped" THEN "running" ELSE @,
                          !.continued = @ \/ "continuing" \notin r.flags]
           t == [r EXCEPT !.told = FALSE]
<1>1. r \in Contexts  BY Types DEF ServerInv, TypesApart, ContextType
<1> HIDE DEF r
<1>2. /\ s \in Contexts
      /\ "used" \in r.flags => "used" \in s.flags
      /\ Fits(r) => Fits(s)
      /\ s.port = r.port /\ s.eventToWaitFor = r.eventToWaitFor
      /\ s.attached = r.attached /\ s.debug = r.debug
  <2>1. s \in Contexts  BY <1>1 DEF Contexts, Flags
  <2>2. /\ s.flags = r.flags \cup {"continuing"} /\ ~s.told /\ s.state = r.state
        /\ s.port = r.port /\ s.eventToWaitFor = r.eventToWaitFor
        /\ s.attached = r.attached /\ s.debug = r.debug
    BY <1>1 DEF Contexts
  <2> HIDE DEF s
  <2> QED BY <2>1, <2>2 DEF Fits
<1>3. /\ t \in Contexts
      /\ t.flags = r.flags
      /\ Fits(r) => Fits(t)
      /\ t.port = r.port /\ t.eventToWaitFor = r.eventToWaitFor
      /\ t.attached = r.attached /\ t.debug = r.debug
  BY <1>1 DEF Contexts, Fits
<1>4. Packet(c) /\ (Answered(c, s) \/ Answered(c, t))  BY Zenon DEF Continue, r
<1> HIDE DEF s, t
<1>5. CASE Answered(c, s)  BY <1>2, <1>4, <1>5, AnsweredKeeps DEF r
<1>6. CASE Answered(c, t)  BY <1>3, <1>4, <1>6, AnsweredKeeps DEF r
<1> QED BY <1>4, <1>5, <1>6

LEMMA BreakKeeps == ASSUME ServerInv, NEW c \in Ctxs, Break(c) PROVE ServerInv'
<1> DEFINE r == ctxs[c]
           s == [r EXCEPT !.told = TRUE]
           t == [r EXCEPT !.flags = @ \ {"continuing"}, !.event = "stop"]
<1>1. r \in Contexts  BY Types DEF ServerInv, TypesApart, ContextType
<1>2. /\ Packet(c)
      /\ \/ "continuing" \notin r.flags /\ r.state = "attached" /\ Answered(c, s)
         \/ r.proc = "running" /\ Answered(c, t)
  BY Zenon DEF Break
<1> HIDE DEF r
<1>3. /\ s \in Contexts
      /\ s.flags = r.flags
      /\ "continuing" \notin r.flags /\ r.state = "attached" /\ Fits(r) => Fits(s)
      /\ s.port = r.port /\ s.eventToWaitFor = r.eventToWaitFor
      /\ s.attached = r.attached /\ s.debug = r.debug
  BY <1>1 DEF Contexts, Fits
<1>4. /\ t \in Contexts
      /\ "used" \in r.flags => "used" \in t.flags
      /\ Fits(r) => Fits(t)
      /\ t.port = r.port /\ t.eventToWaitFor = r.eventToWaitFor
      /\ t.attached = r.attached /\ t.debug = r.debug
  <2>1. t \in Contexts  BY <1>1 DEF Contexts, Flags, Events
  <2>2. /\ t.flags = r.flags \ {"continuing"} /\ t.event = "stop" /\ t.state = r.state
        /\ t.port = r.port /\ t.eventToWaitFor = r.eventToWaitFor
        /\ t.attached = r.attached /\ t.debug = r.debug /\ t.proc = r.proc /\ t.told = r.told
    BY <1>1 DEF Contexts
  <2> HIDE DEF t
  <2> QED BY <2>1, <2>2 DEF Fits
<1> HIDE DEF s, t
<1>5. CASE "continuing" \notin r.flags /\ r.state = "attached" /\ Answered(c, s)
  BY <1>2, <1>3, <1>5, AnsweredKeeps DEF r
<1>6. CASE r.proc = "running" /\ Answered(c, t)
  BY <1>2, <1>4, <1>6, AnsweredKeeps DEF r
<1> QED BY <1>2, <1>5, <1>6

LEMMA OtherPacketKeeps == ASSUME ServerInv, NEW c \in Ctxs, OtherPacket(c) PROVE ServerInv'
<1> DEFINE r == ctxs[c]
           s == [r EXCEPT !.state = "connected"]
<1>1. r \in Contexts  BY Types DEF ServerInv, TypesApart, ContextType
<1>2. Packet(c) /\ Answered(c, s)
  BY Zenon DEF OtherPacket
<1> HIDE DEF r
<1>3. /\ s \in Contexts
      /\ s.flags = r.flags
      /\ Fits(r) => Fits(s)
      /\ s.port = r.port /\ s.eventToWaitFor = r.eventToWaitFor
      /\ s.attached = r.attached /\ s.debug = r.debug
  BY <1>1 DEF Contexts, Fits
<1> HIDE DEF s
<1> QED BY <1>2, <1>3, AnsweredKeeps DEF r

(* vAttach and vRun that succeed.                                           *)
LEMMA AttachAnsweredKeeps ==
    ASSUME ServerInv, NEW c \in Ctxs, Packet(c),
           NEW s \in {Attached(ctxs[c]), Created(ctxs[c])}, Answered(c, s)
    PROVE  ServerInv'
<1>1. ctxs[c] \in Contexts  BY Types DEF ServerInv, TypesApart, ContextType
<1>2. /\ s \in Contexts
      /\ s.flags = ctxs[c].flags \/ s.flags = ctxs[c].flags \cup {"created", "atStart"}
      /\ s.port = ctxs[c].port /\ s.eventToWaitFor = ctxs[c].eventToWaitFor
      /\ s.attached /\ s.debug /\ s.proc = "stopped" /\ s.state = "attached"
  <2>1. PICK a : a = Attached(ctxs[c])  OBVIOUS
  <2>2. /\ a \in Contexts
        /\ a.flags = ctxs[c].flags /\ a.port = ctxs[c].port
        /\ a.eventToWaitFor = ctxs[c].eventToWaitFor
        /\ a.attached /\ a.debug /\ a.proc = "stopped" /\ a.state = "attached"
    BY <1>1, <2>1, AttachedGives
  <2>3. s \in {a, [a EXCEPT !.flags = @ \cup {"created", "atStart"}]}
    BY <2>1 DEF Created
  <2> QED BY <2>2, <2>3 DEF Contexts, Flags
<1>3. Fits(ctxs[c]) /\ "used" \in ctxs[c].flags => Fits(s)
  BY <1>2 DEF Fits
<1> QED BY <1>2, <1>3, AnsweredKeeps

(* The least of a set of numbers, from the well-foundedness of inclusion.   *)
LEMMA LeastIsThere == ASSUME NEW S \in SUBSET Nat, S # {} PROVE Least(S) \in S
<1> DEFINE below(n) == 0 .. n - 1
           R == StrictSubsetOrdering(Nat)
           T == {below(n) : n \in S}
<1>1. IsWellFoundedOn(R, FiniteSubsetsOf(Nat))
  BY FS_StrictSubsetOrderingWellFounded
<1>2. T \subseteq FiniteSubsetsOf(Nat) /\ T # {}
  <2>1. ASSUME NEW n \in S PROVE below(n) \in FiniteSubsetsOf(Nat)
    <3>1. IsFiniteSet(below(n))
      BY FS_Interval
    <3>2. below(n) \in SUBSET Nat
      OBVIOUS
    <3> HIDE DEF below
    <3> QED BY <3>1, <3>2 DEF FiniteSubsetsOf
  <2> QED BY <2>1
<1>3. PICK t \in T : \A u \in T : <<u, t>> \notin R
  <2> HIDE DEF R, T
  <2> QED BY <1>1, <1>2, WFMin
<1>4. PICK m \in S : t = below(m)
  OBVIOUS
<1>5. ASSUME NEW k \in S, k < m PROVE FALSE
  <2>1. below(k) \in T /\ below(m) \in SUBSET Nat /\ below(k) \in SUBSET Nat
    OBVIOUS
  <2>2. below(k) \subseteq below(m) /\ below(k) # below(m)
    <3>1. k \in below(m) /\ k \notin below(k)
      BY <1>5
    <3> QED BY <1>5, <3>1
  <2>3. <<below(k), below(m)>> \in R
    <3> HIDE DEF below
    <3> QED BY <2>1, <2>2 DEF StrictSubsetOrdering
  <2> QED BY <1>3, <1>4, <2>1, <2>3
<1>6. \A k \in S : m <= k
  BY <1>5
<1> QED BY <1>6 DEF Least

(* What a new flag or two, and a port of its own, do to a free context.     *)
LEMMA SelectGives ==
    ASSUME ServerInv, NEW ports \in SUBSET Ports, Available # {}, SelectAvailableContext(ports)
    PROVE  \E c \in Ctxs : \E s \in Contexts :
              /\ c = Least(Available) /\ ctxs' = [ctxs EXCEPT ![c] = s]
              /\ Quiet /\ menu = "idle" => Harmless(c, s)
<1>1. TypesApart  BY Types DEF ServerInv
<1> DEFINE c == Least(Available)
           free == {p \in ports : ~PortTaken(p)}
           r == ctxs[c]
           s == IF free = {} THEN [r EXCEPT !.flags = Flags \ {"selected"}]
                ELSE [r EXCEPT !.flags = @ \cup {"selected"}, !.port = Least(free)]
<1>2. c \in Ctxs /\ ~Allocated(c)
  <2>1. Available \in SUBSET Nat  BY Constants DEF Available
  <2>2. Least(Available) \in Available  BY <2>1, LeastIsThere
  <2> QED BY <2>2 DEF Available
<1>3. r \in Contexts  BY <1>1, <1>2 DEF TypesApart, ContextType
<1>4. free # {} => Least(free) \in Ports /\ ~PortTaken(Least(free))
  <2>1. free \in SUBSET Nat  BY Constants
  <2>2. free # {} => Least(free) \in free  BY <2>1, LeastIsThere
  <2> QED BY <2>2
<1>5. ctxs' = [ctxs EXCEPT ![c] = s]
  BY DEF SelectAvailableContext
<1> DEFINE q == Least(free)
<1> HIDE DEF c, free, r, q
<1>6. s \in Contexts
  BY <1>3, <1>4 DEF Contexts, Flags, q
<1>7. /\ s.eventToWaitFor = r.eventToWaitFor /\ s.attached = r.attached /\ s.debug = r.debug
      /\ s.told = r.told /\ s.state = r.state /\ s.proc = r.proc /\ s.event = r.event
      /\ r.flags \subseteq s.flags \cup {"selected"} /\ s.flags \cap {"selected", "used"} # {}
      /\ s.port = IF free = {} THEN r.port ELSE q
  BY <1>3, <1>4 DEF Contexts, Flags, q
<1> HIDE DEF s
<1>8. ASSUME Quiet, menu = "idle" PROVE Harmless(c, s)
  <2>1. socket.pc \notin {"start", "bind"}
    BY <1>8 DEF Quiet, Threads, Starting
  <2>2. /\ Fits(r) /\ "used" \notin r.flags /\ "selected" \notin r.flags /\ r.port = 0
        /\ r.debug => HeldFor(c)
    BY <1>2, <1>8 DEF Quiet, Belong, DebugFor, Allocated, Fits, r
  <2>3. Fits(s)  BY <1>7, <2>2 DEF Fits
  <2>4. s.port \in {0, r.port} \/ \A d \in Ctxs : ctxs[d].port # s.port
    <3>1. CASE free = {}  BY <1>7, <3>1
    <3>2. CASE free # {}
      <4>1. s.port \in Ports /\ ~PortTaken(s.port)  BY <1>4, <1>7, <3>2 DEF q
      <4>2. \A d \in Ctxs : Allocated(d) => ctxs[d].port # s.port
        BY <4>1 DEF PortTaken
      <4>3. \A d \in Ctxs : ~Allocated(d) => ctxs[d].port = 0
        BY <1>8 DEF Quiet, Belong, Fits, Allocated
      <4> QED BY <4>1, <4>2, <4>3, Constants
    <3> QED BY <3>1, <3>2
  <2>5. s.debug => HasClient(c) \/ socket.ctx = c \/ "atStart" \in s.flags
    BY <1>7, <2>2 DEF HeldFor, r
  <2> QED BY <1>7, <2>1, <2>2, <2>3, <2>4, <2>5 DEF Harmless, r
<1> QED BY <1>2, <1>5, <1>6, <1>8 DEF c

LEMMA SelectKeeps ==
    ASSUME ServerInv, SelectProcess \/ DebugNextApplicationByForce PROVE ServerInv'
<1>1. TypesApart  BY Types DEF ServerInv
<1>2. /\ Input /\ menu = "idle" /\ Available # {}
      /\ SelectAvailableContext(Ctxs) \/ SelectAvailableContext({NextPort})
      /\ UNCHANGED <<locks, clients, server, socket, monitor, menu, task>>
      /\ undisturbed' = undisturbed \/ Disturbed(PortTaken(NextPort))
      /\ nextApplicationGdbCtx' = nextApplicationGdbCtx \/ nextApplicationGdbCtx' = Least(Available)
  BY Zenon DEF SelectProcess, DebugNextApplicationByForce, MenuOnly
<1>3. PICK c \in Ctxs, s \in Contexts : /\ c = Least(Available) /\ ctxs' = [ctxs EXCEPT ![c] = s]
                                        /\ Quiet /\ menu = "idle" => Harmless(c, s)
  <2>1. Ctxs \in SUBSET Ports /\ {NextPort} \in SUBSET Ports  BY Constants
  <2> QED BY <1>2, <2>1, SelectGives
<1>4. Edit(c, s)  BY <1>2, <1>3, Zenon DEF Edit
<1>5. OtherTypes'
  <2>1. inputs' \in 0 .. MaxInputs
    BY <1>1, <1>2, Constants DEF Input, TypesApart, OtherTypes
  <2>2. undisturbed' \in BOOLEAN
    BY <1>1, <1>2 DEF Disturbed, TypesApart, OtherTypes
  <2>3. nextApplicationGdbCtx' \in Ctxs \cup {NoCtx}
    BY <1>1, <1>2, <1>3 DEF TypesApart, OtherTypes
  <2> QED BY <1>1, <1>2, <2>1, <2>2, <2>3 DEF TypesApart, OtherTypes
<1>6. undisturbed' => undisturbed /\ task' # "crashed" /\ (Quiet => Harmless(c, s))
  <2>1. undisturbed' => undisturbed  BY <1>2 DEF Disturbed
  <2> QED BY <1>2, <1>3, <2>1, Zenon DEF ServerInv, Quiet
<1> QED BY <1>4, <1>5, <1>6, EditStep

LEMMA UnselectProcessKeeps == ASSUME ServerInv, NEW c \in Ctxs, UnselectProcess(c) PROVE ServerInv'
<1> DEFINE r == ctxs[c]
           s == [r EXCEPT !.flags = @ \ {"selected"}, !.port = 0]
<1>1. TypesApart /\ r \in Contexts  BY Types DEF ServerInv, TypesApart, ContextType
<1>2. /\ Input /\ menu = "idle" /\ "used" \notin r.flags
      /\ UNCHANGED <<locks, clients, server, socket, monitor, menu, task, nextApplicationGdbCtx, undisturbed>>
  BY Zenon DEF UnselectProcess, MenuOnly
<1>3. ctxs' = [ctxs EXCEPT ![c] = s]
  BY <1>1 DEF UnselectProcess, TypesApart, ContextType
<1> HIDE DEF r
<1>4. /\ s \in Contexts
      /\ s.eventToWaitFor = r.eventToWaitFor /\ s.attached = r.attached /\ s.debug = r.debug
      /\ s.told = r.told /\ s.state = r.state /\ s.proc = r.proc /\ s.event = r.event
      /\ s.flags = r.flags \ {"selected"} /\ s.port = 0
  BY <1>1, GDBAssumption DEF Contexts, NoCtx
<1> HIDE DEF s
<1>5. OtherTypes'
  <2>1. inputs' \in 0 .. MaxInputs
    BY <1>1, <1>2, Constants DEF Input, TypesApart, OtherTypes
  <2> QED BY <1>1, <1>2, <2>1 DEF TypesApart, OtherTypes
<1>6. ASSUME Quiet PROVE Harmless(c, s)
  <2>1. Fits(r) /\ (r.debug => HeldFor(c))  BY <1>6 DEF Quiet, Belong, DebugFor, r
  <2>2. Fits(s)  BY <1>4, <2>1 DEF Fits
  <2>3. socket.pc \notin {"start", "bind"}
    BY <1>2, <1>6 DEF Quiet, Threads, Starting
  <2>4. s.debug => HasClient(c) \/ socket.ctx = c \/ "atStart" \in s.flags
    BY <1>4, <2>1 DEF HeldFor, r
  <2> QED BY <1>2, <1>4, <2>2, <2>3, <2>4 DEF Harmless, r
<1>7. Edit(c, s)  BY <1>2, <1>3, Zenon DEF Edit
<1>8. undisturbed' => undisturbed /\ task' # "crashed" /\ (Quiet => Harmless(c, s))
  BY <1>2, <1>6, Zenon DEF ServerInv, Quiet
<1> QED BY <1>4, <1>5, <1>7, <1>8, EditStep

LEMMA HappensKeeps ==
    ASSUME ServerInv, NEW c \in Ctxs, NEW event \in Events, Happens(c, event) PROVE ServerInv'
<1> DEFINE r == ctxs[c]
           s == [r EXCEPT !.event = event]
<1>1. TypesApart /\ r \in Contexts  BY Types DEF ServerInv, TypesApart, ContextType
<1>2. /\ Input /\ r.debug /\ r.proc = "running" /\ r.event = "none"
      /\ UNCHANGED <<locks, clients, server, socket, monitor, menu, task, nextApplicationGdbCtx, undisturbed>>
  BY Zenon DEF Happens
<1>3. ctxs' = [ctxs EXCEPT ![c] = s]
  BY <1>1 DEF Happens, TypesApart, ContextType
<1> HIDE DEF r
<1>4. /\ s \in Contexts
      /\ s.eventToWaitFor = r.eventToWaitFor /\ s.attached = r.attached /\ s.debug = r.debug
      /\ s.told = r.told /\ s.state = r.state /\ s.proc = r.proc
      /\ s.flags = r.flags /\ s.port = r.port
  BY <1>1 DEF Contexts
<1> HIDE DEF s
<1>5. OtherTypes'
  <2>1. inputs' \in 0 .. MaxInputs
    BY <1>1, <1>2, Constants DEF Input, TypesApart, OtherTypes
  <2> QED BY <1>1, <1>2, <2>1 DEF TypesApart, OtherTypes
<1>6. ASSUME Quiet PROVE Harmless(c, s)
  <2>1. Fits(r) /\ (r.debug => HeldFor(c))  BY <1>6 DEF Quiet, Belong, DebugFor, r
  <2>2. Fits(s)  BY <1>2, <1>4, <2>1 DEF Fits
  <2>3. socket.pc \notin {"start", "bind"}
    BY <1>2, <1>6 DEF Quiet, Threads, Starting, r
  <2>4. s.debug => HasClient(c) \/ socket.ctx = c \/ "atStart" \in s.flags
    BY <1>4, <2>1 DEF HeldFor, r
  <2> QED BY <1>2, <1>4, <2>2, <2>3, <2>4 DEF Harmless, r
<1>7. Edit(c, s)  BY <1>2, <1>3, Zenon DEF Edit
<1>8. undisturbed' => undisturbed /\ task' # "crashed" /\ (Quiet => Harmless(c, s))
  BY <1>2, <1>6, Zenon DEF ServerInv, Quiet
<1> QED BY <1>4, <1>5, <1>7, <1>8, EditStep

(* From here on the menu may wait for ever: nothing more is promised.       *)
LEMMA CloseFromListKeeps == ASSUME ServerInv, NEW c \in Ctxs, CloseFromList(c) PROVE ServerInv'
<1> DEFINE s == [ctxs[c] EXCEPT !.should_close = TRUE]
<1>1. TypesApart  BY Types DEF ServerInv
<1>2. /\ Input /\ menu' = "closing" /\ locks' = [d \in Ctxs |-> "menu"]
      /\ UNCHANGED <<clients, server, socket, monitor, task, nextApplicationGdbCtx>>
      /\ undisturbed' = FALSE
  BY DEF CloseFromList, MenuOnly, Disturbed
<1>3. ContextType'
  <2>1. ctxs' = [ctxs EXCEPT ![c] = s]
    BY <1>1 DEF CloseFromList, TypesApart, ContextType
  <2>2. s \in Contexts
    <3>1. PICK r : r = ctxs[c]  OBVIOUS
    <3>2. r \in Contexts  BY <1>1, <3>1 DEF TypesApart, ContextType
    <3>3. s = [r EXCEPT !.should_close = TRUE]  BY <3>1
    <3> HIDE DEF s
    <3> QED BY <3>2, <3>3 DEF Contexts
  <2> QED BY <1>1, <2>1, <2>2, EditType, Zenon DEF TypesApart
<1>4. OtherTypes'
  <2>1. inputs' \in 0 .. MaxInputs
    BY <1>1, <1>2, Constants DEF Input, TypesApart, OtherTypes
  <2>2. menu' \in MenuStates /\ undisturbed' \in BOOLEAN  BY <1>2 DEF MenuStates
  <2>3. locks' \in [Ctxs -> {"none", "socket", "menu"}]  BY <1>2
  <2> QED BY <1>1, <1>2, <2>1, <2>2, <2>3 DEF TypesApart, OtherTypes
<1>5. TypesApart'  BY <1>1, <1>2, <1>3, <1>4, TypesKept DEF TypesApart
<1>6. Counted'  BY <1>2, Zenon DEF ServerInv, Counted, Serves
<1> QED BY <1>2, <1>5, <1>6, TypesNext DEF ServerInv

(* The task writes to the context it reads after its call; there is one, or *)
(* a race has been met.                                                     *)
LEMMA FetchEndsKeeps == ASSUME ServerInv, FetchEnds PROVE ServerInv'
<1> DEFINE c == nextApplicationGdbCtx
           r == ctxs[c]
           s == [r EXCEPT !.debug = TRUE, !.proc = "stopped", !.flags = @ \cup {"atStart"}]
           t == [r EXCEPT !.debug = FALSE, !.flags = {}]
<1>1. TypesApart /\ c \in Ctxs \cup {NoCtx}  BY Types DEF ServerInv, TypesApart, OtherTypes
<1>2. /\ UNCHANGED <<locks, clients, server, socket, monitor, menu, inputs>>
      /\ nextApplicationGdbCtx' = NoCtx
      /\ undisturbed' = undisturbed \/ undisturbed' = FALSE
  BY DEF FetchEnds, TaskOnly, Disturbed
<1>3. task' \in TaskStates /\ undisturbed' \in BOOLEAN
  BY <1>1 DEF FetchEnds, TaskStates, Disturbed, TypesApart, OtherTypes
<1>4. OtherTypes'
  BY <1>1, <1>2, <1>3 DEF TypesApart, OtherTypes
<1>5. Counted'  BY <1>2, Zenon DEF ServerInv, Counted, Serves
<1>6. CASE c = NoCtx
  <2>1. ctxs' = ctxs /\ ~undisturbed'  BY <1>6 DEF FetchEnds, Disturbed
  <2>2. TypesApart'  BY <1>1, <1>2, <1>4, <2>1, TypesKept DEF TypesApart
  <2> QED BY <1>5, <2>1, <2>2, TypesNext DEF ServerInv
<1>7. CASE c # NoCtx
  <2>1. c \in Ctxs /\ r \in Contexts
    BY <1>1, <1>7 DEF TypesApart, ContextType
  <2>2. /\ task' = "idle"
        /\ \/ ctxs' = [ctxs EXCEPT ![c] = s] /\ undisturbed' = undisturbed
           \/ ctxs' = [ctxs EXCEPT ![c] = t] /\ ~undisturbed'
    BY <1>1, <1>7, <2>1 DEF FetchEnds, Disturbed, TypesApart, ContextType
  <2>3. s \in Contexts /\ t \in Contexts
    BY <2>1 DEF Contexts, Flags
  <2>4. CASE ctxs' = [ctxs EXCEPT ![c] = t] /\ ~undisturbed'
    <3>1. ContextType'  BY <1>1, <2>3, <2>4, EditType, Zenon DEF TypesApart
    <3>2. TypesApart'  BY <1>1, <1>2, <1>4, <3>1, TypesKept DEF TypesApart
    <3> QED BY <1>5, <2>4, <3>2, TypesNext DEF ServerInv
  <2>5. CASE ctxs' = [ctxs EXCEPT ![c] = s] /\ undisturbed' = undisturbed
    <3>1. Edit(c, s)  BY <1>2, <2>5, Zenon DEF Edit
    <3>2. /\ s.eventToWaitFor = r.eventToWaitFor /\ s.attached = r.attached /\ s.debug
          /\ s.told = r.told /\ s.state = r.state /\ s.proc = "stopped"
          /\ s.flags = r.flags \cup {"atStart"} /\ s.port = r.port
      BY <2>1 DEF Contexts
    <3> HIDE DEF c, r, s
    <3>3. ASSUME Quiet PROVE Harmless(c, s)
      <4>1. Fits(r)  BY <2>1, <3>3 DEF Quiet, Belong, r
      <4>2. Fits(s)  BY <3>2, <4>1 DEF Fits
      <4>3. socket.pc \notin {"start", "bind"}
        BY <1>7, <3>3 DEF Quiet, Threads, Starting, c
      <4> QED BY <3>2, <4>2, <4>3 DEF Harmless, r
    <3>4. undisturbed' => undisturbed /\ task' # "crashed" /\ (Quiet => Harmless(c, s))
      BY <2>2, <2>5, <3>3
    <3> QED BY <1>4, <2>1, <2>3, <3>1, <3>4, EditStep
  <2> QED BY <2>2, <2>4, <2>5
<1> QED BY <1>6, <1>7
-----------------------------------------------------------------------------
(* The monitor handles what it was woken for.                               *)

LEMMA HandledGives ==
    ASSUME NEW r \in Contexts, NEW s, s = Handled(r)
    PROVE  /\ s \in Contexts /\ s.port = r.port
           /\ Fits(r) /\ r.debug /\ "used" \in r.flags =>
                 /\ Fits(s)
                 /\ "used" \in s.flags
                 /\ s.debug /\ "atStart" \in r.flags => "atStart" \in s.flags
<1>1. CASE r.event = "stop"
  <2>1. s = [r EXCEPT !.event = "none", !.proc = "stopped", !.told = TRUE,
                      !.flags = @ \ {"continuing"}, !.eventToWaitFor = "continued"]
    BY <1>1 DEF Handled
  <2> DEFINE q == [r EXCEPT !.event = "none", !.proc = "stopped", !.told = TRUE]
             fl == r.flags \ {"continuing"}
  <2>4. /\ q \in Contexts /\ fl \in SUBSET Flags
        /\ q.port = r.port /\ q.attached = r.attached /\ q.debug = r.debug /\ q.proc = "stopped"
    BY DEF Contexts, Flags, Events
  <2>5. s = [q EXCEPT !.flags = fl, !.eventToWaitFor = "continued"]
    BY <2>1 DEF Contexts
  <2> HIDE DEF q, fl
  <2>2. s \in Contexts  BY <2>4, <2>5 DEF Contexts
  <2>3. /\ s.port = r.port /\ s.attached = r.attached /\ s.debug = r.debug
        /\ s.proc = "stopped" /\ s.flags = fl
    BY <2>4, <2>5 DEF Contexts
  <2> USE DEF fl
  <2> QED BY <2>2, <2>3 DEF Fits
<1>2. CASE r.event = "exit"
  <2>1. s = [r EXCEPT !.event = "none", !.proc = "ended", !.told = TRUE]
    BY <1>2 DEF Handled
  <2>2. s \in Contexts  BY <2>1 DEF Contexts, Flags, Events
  <2>3. /\ s.port = r.port /\ s.attached = r.attached /\ s.debug = r.debug
        /\ s.proc = "ended" /\ s.flags = r.flags
    BY <2>1 DEF Contexts
  <2> QED BY <2>2, <2>3 DEF Fits
<1>3. CASE r.event = "last"
  <2> DEFINE gone == [r EXCEPT !.event = "none", !.proc = "ended", !.told = TRUE]
  <2>1. s = IF "extended" \in r.flags
            THEN [Withdrawn(Detached(gone)) EXCEPT !.state = "detaching",
                      !.flags = @ \cap RestartMask, !.told = TRUE]
            ELSE Withdrawn(gone)
    BY <1>3 DEF Handled
  <2>2. /\ gone \in Contexts
        /\ gone.port = r.port /\ gone.debug = r.debug /\ gone.proc = "ended" /\ gone.flags = r.flags
    BY DEF Contexts, Events
  <2> HIDE DEF gone
  <2>3. CASE "extended" \in r.flags
    <3>1. PICK d : d = Detached(gone)  OBVIOUS
    <3>2. /\ d \in Contexts /\ d.flags = r.flags /\ d.port = r.port /\ ~d.debug /\ d.proc = "free"
      BY <2>2, <3>1, DetachedGives
    <3>3. PICK w : w = Withdrawn(d)  OBVIOUS
    <3>4. /\ w \in Contexts /\ w.flags = r.flags /\ w.port = r.port /\ ~w.debug /\ w.proc = "free"
          /\ ~w.attached /\ w.eventToWaitFor = "attached"
      BY <3>2, <3>3, WithdrawnGives
    <3>5. s = [w EXCEPT !.state = "detaching", !.flags = @ \cap RestartMask, !.told = TRUE]
      BY <2>1, <2>3, <3>1, <3>3
    <3> DEFINE fl == w.flags \cap RestartMask
    <3>7. fl \in SUBSET Flags  BY <3>4 DEF Contexts
    <3>8. s = [w EXCEPT !.state = "detaching", !.flags = fl, !.told = TRUE]
      BY <3>5
    <3> HIDE DEF fl
    <3>9. s \in Contexts /\ s.flags = fl
      BY <3>4, <3>7, <3>8 DEF Contexts
    <3>6. /\ s \in Contexts /\ s.port = r.port /\ s.flags = r.flags \cap RestartMask
          /\ s.state = "detaching" /\ ~s.attached /\ s.eventToWaitFor = "attached" /\ ~s.debug
      BY <3>4, <3>8, <3>9 DEF Contexts, fl
    <3> QED BY <3>6 DEF Fits, RestartMask
  <2>4. CASE "extended" \notin r.flags
    <3>1. s = Withdrawn(gone)  BY <2>1, <2>4
    <3>2. /\ s \in Contexts /\ s.flags = r.flags /\ s.port = r.port
          /\ s.debug = r.debug /\ s.proc = "ended" /\ ~s.attached /\ s.eventToWaitFor = "attached"
      BY <2>2, <3>1, WithdrawnGives
    <3> QED BY <3>2 DEF Fits
  <2> QED BY <2>3, <2>4
<1>4. CASE r.event \notin {"stop", "exit", "last"}
  <2>1. s = [r EXCEPT !.event = "none"]
    BY <1>4 DEF Handled
  <2>2. s \in Contexts  BY <2>1 DEF Contexts, Flags, Events
  <2>3. /\ s.port = r.port /\ s.attached = r.attached /\ s.debug = r.debug
        /\ s.proc = r.proc /\ s.flags = r.flags /\ s.told = r.told /\ s.state = r.state
    BY <2>1 DEF Contexts
  <2> QED BY <1>4, <2>2, <2>3 DEF Fits
<1> QED BY <1>1, <1>2, <1>3, <1>4

Wakened(r) ==
    IF r.state \in {"disconnected", "detaching"} THEN Withdrawn(r)
    ELSE IF r.eventToWaitFor = "attached" THEN [r EXCEPT !.eventToWaitFor = "continued"]
    ELSE IF r.eventToWaitFor = "continued" THEN [r EXCEPT !.eventToWaitFor = "debug"]
    ELSE Handled(r)

LEMMA WakenedGives ==
    ASSUME NEW r \in Contexts, NEW s, s = Wakened(r)
    PROVE  /\ s \in Contexts /\ s.port = r.port
           /\ Fits(r) /\ (r.eventToWaitFor = "attached" => r.attached) =>
                 /\ Fits(s)
                 /\ "used" \in r.flags => "used" \in s.flags
                 /\ s.debug => r.debug
                 /\ s.debug /\ "atStart" \in r.flags => "atStart" \in s.flags
<1>1. CASE s = Withdrawn(r)
  <2>1. /\ s \in Contexts
        /\ s.flags = r.flags /\ s.port = r.port /\ s.state = r.state /\ s.debug = r.debug
        /\ s.told = r.told /\ s.proc = r.proc /\ s.event = r.event
        /\ ~s.attached /\ s.eventToWaitFor = "attached"
    BY <1>1, WithdrawnGives
  <2> QED BY <2>1 DEF Fits
<1>2. CASE \E e \in {"continued", "debug"} :
              s = [r EXCEPT !.eventToWaitFor = e] /\ (e = "debug" => r.eventToWaitFor # "attached")
  <2>1. PICK e \in {"continued", "debug"} :
              s = [r EXCEPT !.eventToWaitFor = e] /\ (e = "debug" => r.eventToWaitFor # "attached")
    BY <1>2
  <2>2. /\ s \in Contexts
        /\ s.flags = r.flags /\ s.port = r.port /\ s.state = r.state /\ s.debug = r.debug
        /\ s.told = r.told /\ s.proc = r.proc /\ s.event = r.event /\ s.attached = r.attached
    BY <2>1 DEF Contexts
  <2> QED BY <2>2 DEF Fits
<1>3. CASE s = Handled(r) /\ r.eventToWaitFor # "attached"
  <2>1. Fits(r) => r.debug /\ "used" \in r.flags  BY <1>3 DEF Fits
  <2> QED BY <1>3, <2>1, HandledGives
<1> QED BY <1>1, <1>2, <1>3 DEF Wakened

LEMMA WokenKeeps == ASSUME ServerInv, Woken PROVE ServerInv'
<1>0. PICK c : c = monitor.ctx
  OBVIOUS
<1> DEFINE r == ctxs[c]
           s == Wakened(r)
<1>1. TypesApart /\ c \in Ctxs \cup {NoCtx}
  BY <1>0, Types DEF ServerInv, TypesApart, MonitorType
<1>2. /\ monitor.pc = "woken" /\ monitor'.pc = IF server.running THEN "snapshot" ELSE "leave"
      /\ monitor'.failed = monitor.failed /\ MonitorType'
      /\ server' = server /\ ctxs' = [ctxs EXCEPT ![c] = s]
  BY <1>0, <1>1 DEF Woken, NextTurn, TypesApart, MonitorType, Wakened
<1>3. UNCHANGED <<locks, clients, socket, menu, task, nextApplicationGdbCtx, inputs, undisturbed>>
  BY Zenon DEF Woken, MonitorOnly
<1> HIDE DEF s, r
<1>4. Counted'
  BY <1>2, <1>3 DEF ServerInv, Counted, Serves, One
<1>5. c \in Ctxs => r \in Contexts /\ s \in Contexts
  BY <1>1, WakenedGives DEF TypesApart, ContextType, r, s
<1>6. TypesApart'
  <2>1. OtherTypes'
    BY <1>1, <1>3 DEF TypesApart, OtherTypes
  <2>2. CASE c \in Ctxs
    <3>1. ContextType'  BY <1>1, <1>2, <1>5, <2>2, EditType, Zenon DEF TypesApart
    <3> QED BY <1>1, <1>2, <1>3, <2>1, <3>1, TypesKept DEF TypesApart
  <2>3. CASE c \notin Ctxs
    <3>1. ctxs' = ctxs  BY <1>1, <1>2, <2>3 DEF TypesApart, ContextType
    <3> QED BY <1>1, <1>2, <1>3, <2>1, <3>1, TypesKept DEF TypesApart
  <2> QED BY <2>2, <2>3
<1>7. ASSUME undisturbed' PROVE Quiet'
  <2>1. Quiet  BY <1>3, <1>7 DEF ServerInv
  <2>2. c \in Ctxs /\ (r.eventToWaitFor = "attached" => r.attached)
    BY <1>0, <1>2, <2>1 DEF Quiet, Meeting, Handles, r
  <2>3. Fits(r) /\ (r.debug => HeldFor(c))
    BY <2>1, <2>2 DEF Quiet, Belong, DebugFor, r
  <2>4. /\ s \in Contexts /\ s.port = r.port /\ Fits(s)
        /\ "used" \in r.flags => "used" \in s.flags
        /\ s.debug => r.debug
        /\ s.debug /\ "atStart" \in r.flags => "atStart" \in s.flags
    BY <1>5, <2>2, <2>3, WakenedGives DEF s
  <2>5. ctxs'[c] = s /\ \A d \in Ctxs \ {c} : ctxs'[d] = ctxs[d]
    BY <1>1, <1>2, <2>2, <2>4, EditType DEF TypesApart
  <2>6. Belong'
    <3>1. \A p \in Ports : clients'[p] \in Ctxs =>
              IF clients'[p] = c THEN "used" \in s.flags /\ s.port = p ELSE clients'[p] = clients[p]
      BY <1>3, <2>1, <2>4 DEF Quiet, Belong, ClientsOwn, r
    <3>2. s.debug => HasClient(c)' \/ socket'.ctx = c \/ "atStart" \in s.flags
      <4>1. (HasClient(c) => HasClient(c)') /\ socket' = socket
        BY <1>3, Zenon DEF HasClient
      <4> QED BY <2>3, <2>4, <4>1 DEF HeldFor, r
    <3>3. \A d \in Ctxs \ {c} : HasClient(d) \/ socket.ctx = d => (HasClient(d) \/ socket.ctx = d)'
      BY <1>3, Zenon DEF HasClient
    <3>4. s.port \in {0, ctxs[c].port}  BY <2>4 DEF r
    <3>5. ctxs' = [ctxs EXCEPT ![c] = s]  BY <1>2
    <3> QED BY <1>1, <2>1, <2>2, <2>4, <3>1, <3>2, <3>3, <3>4, <3>5, BelongEdit, Zenon
            DEF Quiet, TypesApart
  <2>7. socket.pc \notin {"start", "bind"}
    BY <1>2, <2>1 DEF Quiet, Threads, Starting
  <2>8. Starting' /\ Finals'
    BY <1>2, <1>3, <2>1, <2>7 DEF Quiet, Threads, Starting, Finals, One
  <2>9. Leaving'
    BY <1>1, <1>2, <1>3, <2>1, <2>7 DEF Quiet, Threads, Leaving, TypesApart, SocketType
  <2>10. Spins'
    BY <1>3, <2>1, <2>4, <2>5 DEF Quiet, Meeting, Spins, Spinning, r
  <2>11. LocksInv'  BY <1>3, <2>1, Zenon DEF Quiet, Meeting, LocksInv
  <2>12. Handles'  BY <1>2 DEF Handles
  <2>13. Handshake'
    <3> SUFFICES ASSUME Waits' PROVE WaitsFor(socket.ctx)'
      BY Zenon DEF Handshake
    <3>1. WaitsFor(socket.ctx) /\ socket.ctx # c
      BY <1>0, <1>2, <1>3, <2>1, Zenon DEF Quiet, Meeting, Handshake, WaitsFor, Waits
    <3> QED BY <1>2, <1>3, <2>5, <3>1 DEF WaitsFor, HasClient
  <2>14. ~monitor'.failed /\ task' # "crashed"
    BY <1>2, <1>3, <2>1, Zenon DEF Quiet
  <2> QED BY <2>6, <2>8, <2>9, <2>10, <2>11, <2>12, <2>13, <2>14 DEF Quiet, Threads, Meeting
<1> QED BY <1>4, <1>6, <1>7, TypesNext DEF ServerInv
-----------------------------------------------------------------------------
(* The hand-shake begins ...                                                *)
LEMMA AskBegins ==
    ASSUME TypesApart, Quiet, NEW c \in Ctxs, NEW s \in Contexts,
           ctxs' = [ctxs EXCEPT ![c] = s],
           s.debug = ctxs[c].debug, ~s.attached, s.eventToWaitFor = "attached",
           socket.pc \in {"poll", "spinning"}, socket'.pc \in {"closing", "detaching"}, socket'.ctx = c,
           server' = AskMonitor, HasClient(c)',
           UNCHANGED <<monitor, menu, nextApplicationGdbCtx>>,
           monitor.pc # "start", ~MonitorWokenFor(c)
    PROVE  Threads' /\ Handshake' /\ Handles' /\ Spins'
<1>0. ContextType  BY Zenon DEF TypesApart
<1>1. ctxs'[c] = s /\ \A d \in Ctxs \ {c} : ctxs'[d] = ctxs[d]
  BY <1>0 DEF ContextType
<1>2. /\ server'.running = server.running /\ server'.terminate = server.terminate
      /\ server'.finalized = server.finalized /\ server'.updated /\ ~server'.received
  BY DEF AskMonitor, TypesApart, ServerType
<1>3. Starting'  BY DEF Starting
<1>4. Leaving' /\ Finals'
  BY <1>2, Constants DEF Quiet, Threads, Leaving, Finals, One
<1>5. Handshake'
  <2>1. WaitsFor(c)'  BY <1>1, <1>2 DEF WaitsFor, MonitorWokenFor
  <2> QED BY <2>1 DEF Handshake
<1>6. Handles'
  <2>1. ~Waits  BY DEF Waits
  <2>2. CASE monitor.pc \in {"call", "wait"}
    <3>1. \A d \in Ctxs : Fresh(d)  BY <2>1, <2>2 DEF Quiet, Meeting, Handles, GivenUp
    <3>2. \A d \in Ctxs \ {c} : Fresh(d)'  BY <1>1, <3>1 DEF Fresh
    <3>3. GivenUp(c)'
      <4>1. Fits(ctxs[c])  BY Zenon DEF Quiet, Belong
      <4>2. monitor.handles[c] = "debug" => s.debug  BY <3>1, <4>1 DEF Fresh, Fits
      <4> QED BY <1>1, <1>2, <4>2 DEF GivenUp, Waits
    <3> QED BY <2>2, <3>2, <3>3 DEF Handles
  <2>3. CASE monitor.pc \notin {"call", "wait"}
    <3>1. monitor.pc = "woken" => monitor.ctx \in Ctxs \ {c}
      BY DEF Quiet, Meeting, Handles, MonitorWokenFor
    <3> QED BY <1>1, <2>3, <3>1 DEF Quiet, Meeting, Handles
  <2> QED BY <2>2, <2>3
<1>7. Spins'  BY DEF Spins
<1> QED BY <1>3, <1>4, <1>5, <1>6, <1>7 DEF Threads

(* ... or there is none.                                                    *)
LEMMA NoWait ==
    ASSUME TypesApart, Quiet, NEW c \in Ctxs, NEW s \in Contexts,
           ctxs' = [ctxs EXCEPT ![c] = s],
           s.eventToWaitFor = ctxs[c].eventToWaitFor, ctxs[c].attached => s.attached,
           socket.pc \in {"poll", "spinning"},
           \/ socket'.pc = "poll" /\ socket'.ctx = NoCtx
           \/ socket'.pc = "spinning" /\ socket'.ctx = c /\ "used" \in s.flags /\ s.port = NextPort,
           UNCHANGED <<server, locks, monitor, menu, nextApplicationGdbCtx>>
    PROVE  Threads' /\ Meeting'
<1>0. ContextType  BY Zenon DEF TypesApart
<1>1. ctxs'[c] = s /\ \A d \in Ctxs \ {c} : ctxs'[d] = ctxs[d]
  BY <1>0 DEF ContextType
<1>2. Starting'  BY DEF Starting
<1>3. Leaving' /\ Finals'
  BY Constants DEF Quiet, Threads, Leaving, Finals, One
<1>4. Handshake'  BY DEF Handshake, Waits
<1>5. Handles'
  <2>1. ~Waits  BY DEF Waits
  <2>2. \A d \in Ctxs : /\ ctxs'[d].eventToWaitFor = ctxs[d].eventToWaitFor
                        /\ ctxs[d].attached => ctxs'[d].attached
    BY <1>1
  <2> QED BY <2>1, <2>2 DEF Quiet, Meeting, Handles, Fresh, GivenUp
<1>6. Spins'  BY <1>1 DEF Spins, Spinning
<1>7. LocksInv'  BY DEF Quiet, Meeting, LocksInv
<1> QED BY <1>2, <1>3, <1>4, <1>5, <1>6, <1>7 DEF Threads, Meeting

(* A context given back, and its client gone.                               *)
LEMMA BelongClosed ==
    ASSUME TypesApart, Belong, NEW c \in Ctxs, NEW r \in Contexts, NEW s, s = Closed(r),
           ctxs' = [ctxs EXCEPT ![c] = s], ~r.attached, r.eventToWaitFor = "attached",
           \A p \in Ports : clients'[p] # c
                            /\ (clients[p] \notin {c, NoCtx} => clients'[p] = clients[p])
                            /\ (clients'[p] \in Ctxs => clients'[p] = clients[p]),
           socket.ctx \in {c, NoCtx}, socket'.ctx = NoCtx
    PROVE  Belong'
<1>1. /\ s \in Contexts
      /\ s.flags = {} /\ s.port = 0 /\ s.state = "disconnected" /\ ~s.debug
      /\ ~s.attached /\ s.eventToWaitFor = "attached"
  BY ClosedGives
<1>2. Fits(s)  BY <1>1 DEF Fits
<1>3. \A p \in Ports : clients'[p] \in Ctxs =>
          IF clients'[p] = c THEN "used" \in s.flags /\ s.port = p ELSE clients'[p] = clients[p]
  OBVIOUS
<1>4. \A d \in Ctxs \ {c} : HasClient(d) \/ socket.ctx = d => (HasClient(d) \/ socket.ctx = d)'
  BY Constants DEF HasClient
<1>5. s.port \in {0, ctxs[c].port} /\ (s.debug => HasClient(c)' \/ socket'.ctx = c \/ "atStart" \in s.flags)
  BY <1>1
<1> QED BY <1>1, <1>2, <1>3, <1>4, <1>5, BelongEdit, Zenon DEF TypesApart

(* A client that is let go keeps its context until the wait is over.        *)
LEMMA BelongGivenUp ==
    ASSUME TypesApart, Belong, NEW c \in Ctxs, NEW r \in Contexts, NEW s, s = Withdrawn(r),
           NEW st \in {"connected", "detaching"},
           ctxs' = [ctxs EXCEPT ![c] = s] \/ ctxs' = [ctxs EXCEPT ![c] = [s EXCEPT !.state = st]],
           Fits(r), r.port = ctxs[c].port, "used" \in r.flags, clients' = clients,
           HasClient(c), socket.ctx = NoCtx, socket'.ctx = c
    PROVE  \E t \in Contexts : /\ ctxs' = [ctxs EXCEPT ![c] = t] /\ Belong'
                               /\ t.debug = r.debug /\ ~t.attached /\ t.eventToWaitFor = "attached"
<1>1. /\ s \in Contexts
      /\ s.flags = r.flags /\ s.port = r.port /\ s.state = r.state /\ s.debug = r.debug
      /\ s.told = r.told /\ s.proc = r.proc /\ s.event = r.event
      /\ ~s.attached /\ s.eventToWaitFor = "attached"
  BY WithdrawnGives
<1>2. PICK t \in Contexts : /\ ctxs' = [ctxs EXCEPT ![c] = t]
                            /\ t.flags = r.flags /\ t.port = r.port /\ t.debug = r.debug
                            /\ t.state \in {r.state, "connected", "detaching"}
                            /\ t.told = r.told /\ t.proc = r.proc /\ t.event = r.event
                            /\ ~t.attached /\ t.eventToWaitFor = "attached"
  <2> DEFINE t == [s EXCEPT !.state = st]
  <2>1. t \in Contexts /\ t.flags = r.flags /\ t.port = r.port /\ t.debug = r.debug
        /\ t.state = st /\ t.told = r.told /\ t.proc = r.proc /\ t.event = r.event
        /\ ~t.attached /\ t.eventToWaitFor = "attached"
    BY <1>1 DEF Contexts
  <2> HIDE DEF t
  <2>2. CASE ctxs' = [ctxs EXCEPT ![c] = s]  BY <1>1, <2>2
  <2>3. CASE ctxs' = [ctxs EXCEPT ![c] = t]  BY <2>1, <2>3
  <2> QED BY <2>2, <2>3 DEF t
<1>3. Fits(t)  BY <1>2 DEF Fits
<1>4. \A p \in Ports : clients'[p] \in Ctxs =>
          IF clients'[p] = c THEN "used" \in t.flags /\ t.port = p ELSE clients'[p] = clients[p]
  BY <1>2 DEF Belong, ClientsOwn
<1>5. \A d \in Ctxs \ {c} : HasClient(d) \/ socket.ctx = d => (HasClient(d) \/ socket.ctx = d)'
  BY Constants DEF HasClient
<1>6. t.port \in {0, ctxs[c].port} /\ (t.debug => HasClient(c)' \/ socket'.ctx = c \/ "atStart" \in t.flags)
  BY <1>2
<1>7. Belong'
  BY <1>2, <1>3, <1>4, <1>5, <1>6, BelongEdit, Zenon DEF TypesApart
<1> QED BY <1>2, <1>7
-----------------------------------------------------------------------------
(* The socket thread lets a context go, and comes back.                     *)

LEMMA ContextsEdit ==
    ASSUME TypesApart, NEW c, NEW s, c \in Ctxs => s \in Contexts, ctxs' = [ctxs EXCEPT ![c] = s]
    PROVE  ContextType'
<1>1. CASE c \in Ctxs  BY <1>1, EditType, Zenon DEF TypesApart
<1>2. CASE c \notin Ctxs
  <2>1. ctxs' = ctxs  BY <1>2 DEF TypesApart, ContextType
  <2> QED BY <2>1, TypesKept DEF TypesApart
<1> QED BY <1>1, <1>2

LEMMA AskType == ASSUME ServerType, server' = AskMonitor PROVE ServerType'
BY DEF ServerType, AskMonitor

LEMMA SocketTurns ==
    ASSUME NEW pc \in {"poll", "closing", "detaching", "spinning"}, NEW c \in Ctxs \cup {NoCtx},
           NEW b \in BOOLEAN, socket' = [pc |-> pc, ctx |-> c, restart |-> b]
    PROVE  SocketType'
BY DEF SocketType

LEMMA InputType ==
    ASSUME TypesApart, Input \/ UNCHANGED inputs,
           undisturbed' = undisturbed \/ (\E b \in BOOLEAN : Disturbed(b)),
           clients' \in [Ports -> Ctxs \cup {NoCtx, Queued}],
           locks' \in [Ctxs -> {"none", "socket", "menu"}],
           UNCHANGED <<menu, task, nextApplicationGdbCtx>>
    PROVE  OtherTypes'
<1>1. OtherTypes  BY Zenon DEF TypesApart
<1>2. inputs' \in 0 .. MaxInputs
  BY <1>1, Constants DEF Input, OtherTypes
<1>3. undisturbed' \in BOOLEAN
  BY <1>1 DEF Disturbed, OtherTypes
<1> QED BY <1>1, <1>2, <1>3 DEF OtherTypes

LEMMA BackToPoll ==
    ASSUME Quiet, socket.pc \in {"poll", "closing", "detaching", "spinning"},
           socket'.pc = "poll", socket'.ctx = NoCtx,
           server'.running = server.running, server'.terminate = server.terminate,
           server'.finalized = server.finalized,
           UNCHANGED <<monitor, menu>>, \A c \in Ctxs : locks'[c] = "none", Handles'
    PROVE  Threads' /\ Meeting'
<1>1. Starting'  BY DEF Starting
<1>2. Leaving' /\ Finals'
  BY DEF Quiet, Threads, Leaving, Finals, One
<1>3. Handshake' /\ Spins'  BY DEF Handshake, Waits, Spins
<1>4. LocksInv'  BY DEF Quiet, Meeting, LocksInv
<1> QED BY <1>1, <1>2, <1>3, <1>4 DEF Threads, Meeting

(* The context goes from one that is to be given up to one withdrawn.       *)
LetsGo(c, r) ==
    /\ r \in Contexts /\ r.port = ctxs[c].port /\ r.debug = ctxs[c].debug
    /\ "used" \in ctxs[c].flags => "used" \in r.flags
    /\ Fits(ctxs[c]) => Fits(r)

LEMMA GivingUp ==
    ASSUME ServerInv, undisturbed, NEW c \in Ctxs, Packet(c), NEW r, LetsGo(c, r), Others,
           \/ ctxs' = [ctxs EXCEPT ![c] = Withdrawn(r)]
           \/ ctxs' = [ctxs EXCEPT ![c] = [Withdrawn(r) EXCEPT !.state = "detaching"]],
           clients' = clients, server' = AskMonitor,
           socket'.pc \in {"closing", "detaching"}, socket'.ctx = c,
           monitor.pc # "start", ~MonitorWokenFor(c)
    PROVE  Belong' /\ Threads' /\ Handshake' /\ Handles' /\ Spins'
<1>1. TypesApart /\ Quiet /\ Belong  BY Types DEF ServerInv, Quiet
<1>2. socket.pc = "poll" /\ HasClient(c)  BY DEF Packet, Polling
<1>3. socket.ctx = NoCtx  BY <1>1, <1>2 DEF Quiet, Threads, Leaving
<1>4. "used" \in ctxs[c].flags /\ Fits(ctxs[c])
  BY <1>1, <1>2 DEF Belong, ClientsOwn, HasClient
<1>5. r \in Contexts /\ Fits(r) /\ "used" \in r.flags /\ r.port = ctxs[c].port /\ r.debug = ctxs[c].debug
  BY <1>4, Zenon DEF LetsGo
<1>6. PICK w : w = Withdrawn(r)  OBVIOUS
<1>7. PICK t \in Contexts : /\ ctxs' = [ctxs EXCEPT ![c] = t] /\ Belong'
                            /\ t.debug = r.debug /\ ~t.attached /\ t.eventToWaitFor = "attached"
  <2>1. \/ ctxs' = [ctxs EXCEPT ![c] = w]
        \/ ctxs' = [ctxs EXCEPT ![c] = [w EXCEPT !.state = "detaching"]]
    BY <1>6
  <2> QED BY <1>1, <1>2, <1>3, <1>5, <1>6, <2>1, BelongGivenUp
<1>8. HasClient(c)'  BY <1>2, Zenon DEF HasClient
<1>9. UNCHANGED <<monitor, menu, nextApplicationGdbCtx>>  BY Zenon DEF Others
<1>10. t.debug = ctxs[c].debug  BY <1>5, <1>7
<1> QED BY <1>1, <1>2, <1>7, <1>8, <1>9, <1>10, AskBegins

LEMMA CloseKeeps ==
    ASSUME ServerInv, NEW c \in Ctxs, Packet(c), NEW r, LetsGo(c, r), Close(c, r), Others
    PROVE  ServerInv'
<1>1. TypesApart  BY Types DEF ServerInv
<1>2. /\ socket.pc = "poll" /\ HasClient(c) /\ Input /\ server' = AskMonitor /\ locks' = locks
      /\ UNCHANGED <<monitor, menu, task, nextApplicationGdbCtx>> /\ r \in Contexts
      /\ undisturbed' = (undisturbed /\ ~(server.refs >= 2 /\ (MonitorEnds \/ MonitorWokenFor(c))))
  BY DEF Packet, Polling, Close, Others, LetsGo, Disturbed
<1>3. PICK w : w = Withdrawn(r)  OBVIOUS
<1>4. PICK s : s = Closed(w)  OBVIOUS
<1>5. /\ w \in Contexts /\ ~w.attached /\ w.eventToWaitFor = "attached"
      /\ s \in Contexts /\ ~s.attached /\ s.eventToWaitFor = "attached"
  <2>1. w \in Contexts /\ ~w.attached /\ w.eventToWaitFor = "attached"
    BY <1>2, <1>3, WithdrawnGives
  <2>2. s \in Contexts /\ s.attached = w.attached
        /\ (w.eventToWaitFor = "attached" => s.eventToWaitFor = "attached")
    BY <1>4, <2>1, ClosedGives
  <2> QED BY <2>1, <2>2
<1>6. \/ /\ server.refs >= 2
         /\ ctxs' = [ctxs EXCEPT ![c] = w] /\ clients' = clients
         /\ socket' = [pc |-> "closing", ctx |-> c, restart |-> FALSE]
      \/ /\ ~(server.refs >= 2)
         /\ ctxs' = [ctxs EXCEPT ![c] = s]
         /\ clients' = [p \in Ports |-> IF clients[p] = c THEN NoCtx ELSE clients[p]]
         /\ socket' = [pc |-> "poll", ctx |-> NoCtx, restart |-> FALSE]
  BY <1>3, <1>4, Zenon DEF Close
<1>7. /\ server'.refs = server.refs /\ server'.running = server.running
      /\ server'.terminate = server.terminate /\ server'.finalized = server.finalized
  BY <1>1, <1>2 DEF AskMonitor, TypesApart, ServerType
<1>8. Counted'
  <2>1. Serves(socket) /\ Serves(socket') /\ socket'.pc # "ended" /\ socket.pc # "ended"
    BY <1>2, <1>6 DEF Serves
  <2> QED BY <1>2, <1>7, <2>1 DEF ServerInv, Counted, One
<1>9. TypesApart'
  <2>1. ContextType'  BY <1>1, <1>5, <1>6, ContextsEdit
  <2>2. SocketType'
    <3>1. \E pc \in {"closing", "poll"}, d \in Ctxs \cup {NoCtx} :
              socket' = [pc |-> pc, ctx |-> d, restart |-> FALSE]
      BY <1>6, Zenon
    <3> QED BY <3>1, SocketTurns
  <2>3. clients' \in [Ports -> Ctxs \cup {NoCtx, Queued}]
    BY <1>1, <1>6 DEF TypesApart, OtherTypes
  <2>4. locks' \in [Ctxs -> {"none", "socket", "menu"}]
    BY <1>1, <1>2 DEF TypesApart, OtherTypes
  <2>5. OtherTypes'
    <3>1. \E b \in BOOLEAN : Disturbed(b)
      <4>1. Disturbed(server.refs >= 2 /\ (MonitorEnds \/ MonitorWokenFor(c)))
            /\ (server.refs >= 2 /\ (MonitorEnds \/ MonitorWokenFor(c))) \in BOOLEAN
        BY Zenon DEF Close
      <4> QED BY <4>1, Zenon
    <3> QED BY <1>1, <1>2, <2>3, <2>4, <3>1, InputType
  <2> QED BY <1>1, <1>2, <2>1, <2>2, <2>5, AskType, TypesKept DEF TypesApart
<1>10. ASSUME undisturbed' PROVE Quiet'
  <2>1. undisturbed /\ Quiet /\ Belong  BY <1>2, <1>10 DEF ServerInv, Quiet
  <2>2. ~monitor'.failed /\ task' # "crashed"  BY <1>2, <2>1 DEF Quiet
  <2>3. CASE server.refs >= 2
    <3>1. monitor.pc # "start"
      BY <1>1, <2>3 DEF ServerInv, Counted, Serves, One, TypesApart, ServerType
    <3>2. ~MonitorWokenFor(c)  BY <1>2, <1>10, <2>3
    <3>3. ctxs' = [ctxs EXCEPT ![c] = Withdrawn(r)] /\ clients' = clients
          /\ socket'.pc = "closing" /\ socket'.ctx = c
      BY <1>3, <1>6, <2>3
    <3>4. Belong' /\ Threads' /\ Handshake' /\ Handles' /\ Spins'
      BY <1>2, <2>1, <3>1, <3>2, <3>3, GivingUp
    <3>5. LocksInv'  BY <1>2, <2>1, <3>3 DEF Quiet, Meeting, LocksInv
    <3> QED BY <2>2, <3>4, <3>5 DEF Quiet, Meeting
  <2>4. CASE ~(server.refs >= 2)
    <3>1. monitor.pc \notin {"call", "wait", "woken"}
      BY <1>1, <1>2, <2>4 DEF ServerInv, Counted, Serves, One, TypesApart, ServerType
    <3>2. Handles'  BY <1>2, <3>1 DEF Handles
    <3>3. \A d \in Ctxs : locks'[d] = "none"
      BY <1>2, <2>1 DEF Quiet, Meeting, LocksInv
    <3>4. Threads' /\ Meeting'
      BY <1>2, <1>6, <1>7, <2>1, <2>4, <3>2, <3>3, BackToPoll
    <3>5. \A p \in Ports : clients'[p] # c
                           /\ (clients[p] \notin {c, NoCtx} => clients'[p] = clients[p])
                           /\ (clients'[p] \in Ctxs => clients'[p] = clients[p])
      BY <1>6, <2>4, Constants
    <3>6. socket.ctx = NoCtx /\ socket'.ctx = NoCtx
      BY <1>2, <1>6, <2>1, <2>4 DEF Quiet, Threads, Leaving
    <3>7. ctxs' = [ctxs EXCEPT ![c] = s]  BY <1>6, <2>4
    <3>8. Belong'
      BY <1>1, <1>4, <1>5, <2>1, <3>5, <3>6, <3>7, BelongClosed
    <3> QED BY <2>2, <3>4, <3>8 DEF Quiet
  <2> QED BY <2>3, <2>4
<1> QED BY <1>8, <1>9, <1>10, TypesNext DEF ServerInv

LEMMA DetachImmediatelyKeeps ==
    ASSUME ServerInv, NEW c \in Ctxs, Packet(c), NEW r, LetsGo(c, r), NEW b \in BOOLEAN,
           DetachImmediately(c, r, b), Others
    PROVE  ServerInv'
<1>1. TypesApart  BY Types DEF ServerInv
<1> DEFINE race == MonitorEnds \/ monitor.pc \in {"start", "snapshot", "woken"}
           w == [Withdrawn(r) EXCEPT !.state = "detaching"]
<1>2. /\ socket.pc = "poll" /\ HasClient(c) /\ Input /\ server' = AskMonitor
      /\ locks' = [locks EXCEPT ![c] = "socket"] /\ clients' = clients
      /\ socket' = [pc |-> "detaching", ctx |-> c, restart |-> b]
      /\ ctxs' = [ctxs EXCEPT ![c] = w]
      /\ UNCHANGED <<monitor, menu, task, nextApplicationGdbCtx>> /\ r \in Contexts
      /\ race \in BOOLEAN /\ undisturbed' = (undisturbed /\ ~race) /\ Disturbed(race)
  BY Zenon DEF Packet, Polling, DetachImmediately, Others, LetsGo, Disturbed
<1>3. w \in Contexts
  <2>1. PICK v : v = Withdrawn(r)  OBVIOUS
  <2>2. v \in Contexts  BY <1>2, <2>1, WithdrawnGives
  <2>3. w = [v EXCEPT !.state = "detaching"]  BY <2>1
  <2> QED BY <2>2, <2>3 DEF Contexts
<1>4. /\ server'.refs = server.refs /\ server'.running = server.running
      /\ server'.terminate = server.terminate /\ server'.finalized = server.finalized
  BY <1>1, <1>2 DEF AskMonitor, TypesApart, ServerType
<1>5. socket'.pc = "detaching" /\ socket'.ctx = c  BY <1>2
<1>6. Counted'
  <2>1. Serves(socket) /\ Serves(socket') /\ socket'.pc # "ended" /\ socket.pc # "ended"
    BY <1>2, <1>5 DEF Serves
  <2> QED BY <1>2, <1>4, <2>1 DEF ServerInv, Counted, One
<1>7. TypesApart'
  <2>1. ContextType'
    <3> HIDE DEF w
    <3> QED BY <1>1, <1>2, <1>3, ContextsEdit
  <2>2. SocketType'  BY <1>2, SocketTurns
  <2>3. clients' \in [Ports -> Ctxs \cup {NoCtx, Queued}]
    BY <1>1, <1>2 DEF TypesApart, OtherTypes
  <2>4. locks' \in [Ctxs -> {"none", "socket", "menu"}]
    <3>1. locks \in [Ctxs -> {"none", "socket", "menu"}]
      BY <1>1, Zenon DEF TypesApart, OtherTypes
    <3> QED BY <1>2, <3>1
  <2>5. OtherTypes'
    <3>1. \E d \in BOOLEAN : Disturbed(d)  BY <1>2, Zenon
    <3> QED BY <1>1, <1>2, <2>3, <2>4, <3>1, InputType
  <2> QED BY <1>1, <1>2, <2>1, <2>2, <2>5, AskType, TypesKept DEF TypesApart
<1>8. ASSUME undisturbed' PROVE Quiet'
  <2>1. undisturbed /\ Quiet  BY <1>2, <1>8 DEF ServerInv
  <2>2. monitor.pc # "start" /\ ~MonitorWokenFor(c)
    BY <1>2, <1>8 DEF MonitorWokenFor
  <2>3. Belong' /\ Threads' /\ Handshake' /\ Handles' /\ Spins'
    BY <1>2, <1>5, <2>1, <2>2, GivingUp
  <2>4. LocksInv'
    <3>1. \A d \in Ctxs : locks[d] = "none" /\ locks'[d] = IF d = c THEN "socket" ELSE "none"
      BY <1>1, <1>2, <2>1 DEF Quiet, Meeting, LocksInv, TypesApart, OtherTypes
    <3> QED BY <1>2, <1>5, <2>1, <3>1 DEF Quiet, Meeting, LocksInv
  <2> QED BY <1>2, <2>1, <2>3, <2>4 DEF Quiet, Meeting
<1> QED BY <1>6, <1>7, <1>8, TypesNext DEF ServerInv

LEMMA LetGoKeeps ==
    ASSUME ServerInv, NEW c \in Ctxs, Packet(c), NEW r, LetsGo(c, r), LetGo(c, r)
    PROVE  ServerInv'
<1>1. CASE "extended" \in r.flags
  BY <1>1, DetachImmediatelyKeeps DEF LetGo
<1>2. CASE "extended" \notin r.flags
  <2> DEFINE s == [r EXCEPT !.state = "detaching"]
  <2>1. Close(c, s) /\ Others  BY <1>2, Zenon DEF LetGo
  <2>2. LetsGo(c, s)  BY DEF LetsGo, Contexts, Fits
  <2> HIDE DEF s
  <2> QED BY <2>1, <2>2, CloseKeeps
<1> QED BY <1>1, <1>2

LEMMA LetsGoAsItIs == ASSUME ServerInv, NEW c \in Ctxs PROVE LetsGo(c, ctxs[c])
BY Types DEF ServerInv, TypesApart, ContextType, LetsGo

(* Every packet.                                                            *)
LEMMA PacketsKeep ==
    ASSUME ServerInv, NEW c \in Ctxs,
           \/ Detach(c) \/ Kill(c) \/ Restart(c) \/ Attach(c) \/ Disconnect(c)
    PROVE  ServerInv'
<1>1. LetsGo(c, ctxs[c])  BY LetsGoAsItIs
<1>2. CASE Detach(c)  BY <1>1, <1>2, LetGoKeeps DEF Detach
<1>3. CASE Kill(c)
  <2> DEFINE s == [ctxs[c] EXCEPT !.flags = @ \cup {"terminate"}]
  <2>1. Packet(c) /\ LetGo(c, s)  BY <1>3, Zenon DEF Kill
  <2>2. LetsGo(c, s)
    <3>1. ctxs[c] \in Contexts  BY <1>1 DEF LetsGo
    <3>2. /\ s \in Contexts /\ s.port = ctxs[c].port /\ s.debug = ctxs[c].debug
          /\ s.flags = ctxs[c].flags \cup {"terminate"}
          /\ s.attached = ctxs[c].attached /\ s.eventToWaitFor = ctxs[c].eventToWaitFor
          /\ s.told = ctxs[c].told /\ s.state = ctxs[c].state
          /\ s.proc = ctxs[c].proc /\ s.event = ctxs[c].event
      BY <3>1 DEF Contexts, Flags
    <3> HIDE DEF s
    <3> QED BY <3>2 DEF LetsGo, Fits
  <2> HIDE DEF s
  <2> QED BY <2>1, <2>2, LetGoKeeps
<1>4. CASE Restart(c)  BY <1>1, <1>4, DetachImmediatelyKeeps DEF Restart
<1>5. CASE Attach(c)
  <2>1. Packet(c)  BY <1>5 DEF Attach
  <2>2. CASE \E r \in {Attached(ctxs[c]), Created(ctxs[c])} : Answered(c, r)
    BY <2>1, <2>2, AttachAnsweredKeeps
  <2>3. CASE DetachImmediately(c, ctxs[c], FALSE) /\ Others
    BY <1>1, <2>1, <2>3, DetachImmediatelyKeeps
  <2> QED BY <1>5, <2>2, <2>3 DEF Attach
<1>6. CASE Disconnect(c)  BY <1>1, <1>6, CloseKeeps DEF Disconnect
<1> QED BY <1>2, <1>3, <1>4, <1>5, <1>6

(* The monitor has answered, and waits for nothing of the context.          *)
LEMMA AnsweredHandles ==
    ASSUME TypesApart, Quiet, Waits, server.received, NEW c \in Ctxs, c = socket.ctx, NEW s \in Contexts,
           ctxs' = [ctxs EXCEPT ![c] = s], s.eventToWaitFor = "attached", UNCHANGED monitor
    PROVE  Handles'
<1>0. ContextType  BY Zenon DEF TypesApart
<1>1. ctxs'[c] = s /\ \A d \in Ctxs \ {c} : ctxs'[d] = ctxs[d]
  BY <1>0 DEF ContextType
<1>2. WaitsFor(c)  BY DEF Quiet, Meeting, Handshake
<1>3. CASE monitor.pc \in {"call", "wait"}
  <2>1. \A d \in Ctxs : Fresh(d)  BY <1>3 DEF Quiet, Meeting, Handles, GivenUp
  <2>2. monitor.handles[c] = "attached"  BY <1>2, <1>3 DEF WaitsFor
  <2>3. \A d \in Ctxs : Fresh(d)'  BY <1>1, <2>1, <2>2 DEF Fresh
  <2> QED BY <1>3, <2>3 DEF Handles
<1>4. CASE monitor.pc \notin {"call", "wait"}
  <2>1. monitor.pc = "woken" => monitor.ctx \in Ctxs \ {c}
    BY <1>2 DEF Quiet, Meeting, Handles, WaitsFor
  <2> QED BY <1>1, <1>4, <2>1 DEF Quiet, Meeting, Handles
<1> QED BY <1>3, <1>4

LEMMA CloseEndsKeeps == ASSUME ServerInv, CloseEnds PROVE ServerInv'
<1>0. PICK c : c = socket.ctx  OBVIOUS
<1>1. TypesApart /\ c \in Ctxs \cup {NoCtx}
  BY <1>0, Types DEF ServerInv, TypesApart, SocketType
<1>00. PICK s : s = Closed(ctxs[c])  OBVIOUS
<1>2. PICK p : /\ p = PortOf(c)
               /\ socket.pc = "closing" /\ server.received
               /\ ctxs' = [ctxs EXCEPT ![c] = s]
               /\ clients' = [clients EXCEPT ![p] = NoCtx]
               /\ socket' = [pc |-> "poll", ctx |-> NoCtx, restart |-> FALSE]
               /\ UNCHANGED <<locks, server, monitor, menu, task, nextApplicationGdbCtx, inputs, undisturbed>>
  BY <1>0, <1>00 DEF CloseEnds, Untouched, Others
<1>3. c \in Ctxs => ctxs[c] \in Contexts /\ s \in Contexts
  BY <1>1, <1>00, ClosedGives DEF TypesApart, ContextType
<1>4. socket'.pc = "poll" /\ socket'.ctx = NoCtx  BY <1>2
<1>5. Counted'
  <2>1. Serves(socket) /\ Serves(socket') /\ socket'.pc # "ended" /\ socket.pc # "ended"
    BY <1>2, <1>4 DEF Serves
  <2> QED BY <1>2, <2>1 DEF ServerInv, Counted, One
<1>6. TypesApart'
  <2>1. ContextType'  BY <1>1, <1>2, <1>3, ContextsEdit
  <2>2. SocketType'  BY <1>2, SocketTurns
  <2>3. clients' \in [Ports -> Ctxs \cup {NoCtx, Queued}]
    BY <1>1, <1>2 DEF TypesApart, OtherTypes
  <2>4. locks' \in [Ctxs -> {"none", "socket", "menu"}]
    BY <1>1, <1>2 DEF TypesApart, OtherTypes
  <2>5. OtherTypes'  BY <1>1, <1>2, <2>3, <2>4, InputType
  <2> QED BY <1>1, <1>2, <2>1, <2>2, <2>5, TypesKept DEF TypesApart
<1>7. ASSUME undisturbed' PROVE Quiet'
  <2>1. Quiet /\ Belong  BY <1>2, <1>7 DEF ServerInv, Quiet
  <2>2. c \in Ctxs /\ HasClient(c) /\ ~ctxs[c].attached /\ ctxs[c].eventToWaitFor = "attached"
    BY <1>0, <1>2, <2>1 DEF Quiet, Meeting, Handshake, Waits, WaitsFor
  <2>3. s \in Contexts /\ s.eventToWaitFor = "attached"
    BY <1>00, <1>3, <2>2, ClosedGives
  <2>4. p \in Ports /\ clients[p] = c /\ p = ctxs[c].port
    BY <1>2, <2>1, <2>2 DEF PortOf, HasClient, Belong, ClientsOwn
  <2>5. \A q \in Ports : clients'[q] # c
                         /\ (clients[q] \notin {c, NoCtx} => clients'[q] = clients[q])
                         /\ (clients'[q] \in Ctxs => clients'[q] = clients[q])
    <3> TAKE q \in Ports
    <3>1. clients'[q] = IF q = p THEN NoCtx ELSE clients[q]
      BY <1>1, <1>2 DEF TypesApart, OtherTypes
    <3>2. clients[q] = c => q = p  BY <2>1, <2>2, <2>4 DEF Belong, ClientsOwn
    <3> QED BY <2>2, <2>4, <3>1, <3>2, Constants
  <2>6. Belong'
    BY <1>0, <1>00, <1>1, <1>2, <1>3, <1>4, <2>1, <2>2, <2>5, BelongClosed
  <2>7. Handles'
    BY <1>0, <1>1, <1>2, <2>1, <2>2, <2>3, AnsweredHandles DEF Waits
  <2>8. \A d \in Ctxs : locks'[d] = "none"
    BY <1>2, <2>1 DEF Quiet, Meeting, LocksInv
  <2>9. Threads' /\ Meeting'
    BY <1>2, <1>4, <2>1, <2>7, <2>8, BackToPoll
  <2> QED BY <1>2, <2>1, <2>6, <2>9 DEF Quiet
<1> QED BY <1>5, <1>6, <1>7, TypesNext DEF ServerInv

(* What a context is after the hand-shake of a Detach, a Kill or a Restart. *)
Answers(r, s) == \E d : /\ d = [Detached(r) EXCEPT !.flags = @ \cap RestartMask]
                        /\ s = [d EXCEPT !.state = "connected"] \/ s = Created(d)

LEMMA DetachedFurther ==
    ASSUME NEW r \in Contexts, NEW s, Answers(r, s)
    PROVE  /\ s \in Contexts /\ s.port = r.port /\ s.eventToWaitFor = "attached"
           /\ "used" \in r.flags => "used" \in s.flags
           /\ "used" \in r.flags /\ ~r.attached => Fits(s)
<1>0. PICK d : /\ d = [Detached(r) EXCEPT !.flags = @ \cap RestartMask]
               /\ s = [d EXCEPT !.state = "connected"] \/ s = Created(d)
  BY Zenon DEF Answers
<1>1. PICK e : e = Detached(r)  OBVIOUS
<1>2. /\ e \in Contexts /\ e.flags = r.flags /\ e.port = r.port /\ e.attached = r.attached
      /\ ~e.debug /\ e.eventToWaitFor = "attached" /\ e.proc = "free" /\ ~e.told
  BY <1>1, DetachedGives
<1>3. /\ d \in Contexts /\ d.flags = r.flags \cap RestartMask /\ d.port = r.port
      /\ d.attached = r.attached /\ ~d.debug /\ d.eventToWaitFor = "attached" /\ ~d.told
  <2> DEFINE fl == e.flags \cap RestartMask
  <2>1. d = [e EXCEPT !.flags = fl]  BY <1>0, <1>1
  <2>2. fl \in SUBSET Flags /\ fl = r.flags \cap RestartMask  BY <1>2 DEF Contexts
  <2> HIDE DEF fl
  <2> QED BY <1>2, <2>1, <2>2 DEF Contexts
<1>4. "used" \in r.flags => "used" \in d.flags  BY <1>3 DEF RestartMask
<1>5. CASE s = [d EXCEPT !.state = "connected"]
  <2>1. /\ s \in Contexts /\ s.flags = d.flags /\ s.port = r.port /\ s.attached = r.attached
        /\ s.eventToWaitFor = "attached" /\ s.state = "connected"
    BY <1>3, <1>5 DEF Contexts
  <2> QED BY <1>4, <2>1 DEF Fits
<1>6. CASE s = Created(d)
  <2>1. PICK a : a = Attached(d)  OBVIOUS
  <2>2. /\ a \in Contexts /\ a.flags = d.flags /\ a.port = d.port
        /\ a.eventToWaitFor = "attached"
        /\ a.attached /\ a.debug /\ a.proc = "stopped" /\ a.state = "attached"
    BY <1>3, <2>1, AttachedGives
  <2>3. s = [a EXCEPT !.flags = @ \cup {"created", "atStart"}]
    BY <1>6, <2>1 DEF Created
  <2>4. /\ s \in Contexts /\ s.flags = d.flags \cup {"created", "atStart"} /\ s.port = r.port
        /\ s.attached /\ s.debug /\ s.proc = "stopped" /\ s.eventToWaitFor = "attached"
    BY <1>3, <2>2, <2>3 DEF Contexts, Flags
  <2> QED BY <1>4, <2>4 DEF Fits
<1> QED BY <1>0, <1>5, <1>6

LEMMA DetachEndsKeeps == ASSUME ServerInv, DetachEnds PROVE ServerInv'
<1>0. PICK c : c = socket.ctx  OBVIOUS
<1>1. TypesApart /\ c \in Ctxs \cup {NoCtx}
  BY <1>0, Types DEF ServerInv, TypesApart, SocketType
<1>2. PICK s : /\ Answers(ctxs[c], s)
               /\ socket.pc = "detaching" /\ server.received
               /\ ctxs' = [ctxs EXCEPT ![c] = s]
               /\ locks' = [locks EXCEPT ![c] = "none"]
               /\ socket' = [pc |-> "poll", ctx |-> NoCtx, restart |-> FALSE]
               /\ UNCHANGED <<clients, server, monitor, menu, task, nextApplicationGdbCtx, inputs, undisturbed>>
  <2> DEFINE d == [Detached(ctxs[c]) EXCEPT !.flags = @ \cap RestartMask]
  <2>1. \E s \in {[d EXCEPT !.state = "connected"], Created(d)} : ctxs' = [ctxs EXCEPT ![c] = s]
    BY <1>0, Zenon DEF DetachEnds
  <2>2. \E s : Answers(ctxs[c], s) /\ ctxs' = [ctxs EXCEPT ![c] = s]
    BY <2>1, Zenon DEF Answers
  <2> QED BY <1>0, <2>2, Zenon DEF DetachEnds, Untouched, Others
<1>3. c \in Ctxs => ctxs[c] \in Contexts /\ s \in Contexts
  BY <1>1, <1>2, DetachedFurther DEF TypesApart, ContextType
<1>33. c \in Ctxs =>
           /\ s.port = ctxs[c].port /\ s.eventToWaitFor = "attached"
           /\ "used" \in ctxs[c].flags => "used" \in s.flags
           /\ "used" \in ctxs[c].flags /\ ~ctxs[c].attached => Fits(s)
  BY <1>2, <1>3, DetachedFurther
<1>4. socket'.pc = "poll" /\ socket'.ctx = NoCtx  BY <1>2
<1>5. Counted'
  <2>1. Serves(socket) /\ Serves(socket') /\ socket'.pc # "ended" /\ socket.pc # "ended"
    BY <1>2, <1>4 DEF Serves
  <2> QED BY <1>2, <2>1 DEF ServerInv, Counted, One
<1>6. TypesApart'
  <2>1. ContextType'  BY <1>1, <1>2, <1>3, ContextsEdit
  <2>2. SocketType'  BY <1>2, SocketTurns
  <2>3. clients' \in [Ports -> Ctxs \cup {NoCtx, Queued}]
    BY <1>1, <1>2 DEF TypesApart, OtherTypes
  <2>4. locks' \in [Ctxs -> {"none", "socket", "menu"}]
    <3>1. locks \in [Ctxs -> {"none", "socket", "menu"}]
      BY <1>1, Zenon DEF TypesApart, OtherTypes
    <3> QED BY <1>2, <3>1
  <2>5. OtherTypes'  BY <1>1, <1>2, <2>3, <2>4, InputType
  <2> QED BY <1>1, <1>2, <2>1, <2>2, <2>5, TypesKept DEF TypesApart
<1>7. ASSUME undisturbed' PROVE Quiet'
  <2>1. Quiet /\ Belong  BY <1>2, <1>7 DEF ServerInv, Quiet
  <2>2. c \in Ctxs /\ HasClient(c) /\ ~ctxs[c].attached
    BY <1>0, <1>2, <2>1 DEF Quiet, Meeting, Handshake, Waits, WaitsFor
  <2>3. "used" \in ctxs[c].flags  BY <2>1, <2>2 DEF Belong, ClientsOwn, HasClient
  <2>4. /\ s \in Contexts /\ s.port = ctxs[c].port /\ s.eventToWaitFor = "attached"
        /\ "used" \in s.flags /\ Fits(s)
    BY <1>3, <1>33, <2>2, <2>3
  <2>6. Belong'
    <3>1. \A p \in Ports : clients'[p] \in Ctxs =>
              IF clients'[p] = c THEN "used" \in s.flags /\ s.port = p ELSE clients'[p] = clients[p]
      BY <1>2, <2>1, <2>4 DEF Belong, ClientsOwn
    <3>2. \A e \in Ctxs \ {c} : HasClient(e) \/ socket.ctx = e => (HasClient(e) \/ socket.ctx = e)'
      BY <1>0, <1>2, Zenon DEF HasClient
    <3>3. HasClient(c)'  BY <1>2, <2>2, Zenon DEF HasClient
    <3>4. s.port \in {0, ctxs[c].port}  BY <2>4
    <3> QED BY <1>1, <1>2, <2>1, <2>2, <2>4, <3>1, <3>2, <3>3, <3>4, BelongEdit, Zenon DEF TypesApart
  <2>7. Handles'
    BY <1>0, <1>1, <1>2, <2>1, <2>2, <2>4, AnsweredHandles DEF Waits
  <2>8. \A e \in Ctxs : locks'[e] = "none"
    <3>1. locks \in [Ctxs -> {"none", "socket", "menu"}]
      BY <1>1, Zenon DEF TypesApart, OtherTypes
    <3> QED BY <1>0, <1>2, <2>1, <3>1 DEF Quiet, Meeting, LocksInv
  <2>9. Threads' /\ Meeting'
    BY <1>2, <1>4, <2>1, <2>7, <2>8, BackToPoll
  <2> QED BY <1>2, <2>1, <2>6, <2>9 DEF Quiet
<1> QED BY <1>5, <1>6, <1>7, TypesNext DEF ServerInv
-----------------------------------------------------------------------------
(* Clients are accepted.                                                    *)

LEMMA AcceptClientKeeps ==
    ASSUME ServerInv, NEW c \in Ctxs \cup {NoCtx}, NEW p \in Ports, NEW r,
           c \in Ctxs => r \in Contexts,
           socket.pc \in {"poll", "spinning"}, AcceptClient(c, p, r), Untouched,
           undisturbed =>
               /\ c \in Ctxs /\ Fits(r) /\ r.port = p /\ "used" \in r.flags
               /\ r.eventToWaitFor = ctxs[c].eventToWaitFor /\ r.attached = ctxs[c].attached
               /\ r.debug = ctxs[c].debug
               /\ \A d \in Ctxs \ {c} : ctxs[d].port # p
               /\ \A q \in Ports : clients[q] = c => q = p
               /\ socket.ctx \in {c, NoCtx}
    PROVE  ServerInv'
<1>1. TypesApart  BY Types DEF ServerInv
<1> DEFINE k == [r EXCEPT !.state = "connected"]
<1>2. PICK w : w = Withdrawn(k)  OBVIOUS
<1>3. PICK a : a = IF "selected" \in r.flags THEN Attached(k) ELSE k  OBVIOUS
<1>4. c \in Ctxs =>
        /\ a \in Contexts /\ a.flags = r.flags /\ a.port = r.port
        /\ a.eventToWaitFor = r.eventToWaitFor /\ (r.attached => a.attached)
        /\ Fits(r) /\ "used" \in r.flags => Fits(a)
        /\ w \in Contexts /\ w.flags = r.flags /\ w.port = r.port
        /\ w.eventToWaitFor = "attached" /\ ~w.attached /\ w.debug = r.debug
        /\ "used" \in r.flags => Fits(w)
  <2> SUFFICES ASSUME c \in Ctxs
               PROVE  /\ a \in Contexts /\ a.flags = r.flags /\ a.port = r.port
                      /\ a.eventToWaitFor = r.eventToWaitFor /\ (r.attached => a.attached)
                      /\ Fits(r) /\ "used" \in r.flags => Fits(a)
                      /\ w \in Contexts /\ w.flags = r.flags /\ w.port = r.port
                      /\ w.eventToWaitFor = "attached" /\ ~w.attached /\ w.debug = r.debug
                      /\ "used" \in r.flags => Fits(w)
    OBVIOUS
  <2>1. /\ k \in Contexts /\ k.flags = r.flags /\ k.port = r.port /\ k.debug = r.debug
        /\ k.eventToWaitFor = r.eventToWaitFor /\ k.attached = r.attached /\ k.state = "connected"
    BY DEF Contexts
  <2> HIDE DEF k
  <2>2. /\ w \in Contexts /\ w.flags = k.flags /\ w.port = k.port /\ w.debug = k.debug
        /\ w.state = k.state /\ w.eventToWaitFor = "attached" /\ ~w.attached
    BY <1>2, <2>1, WithdrawnGives
  <2>3. "used" \in r.flags => Fits(w)  BY <2>1, <2>2 DEF Fits
  <2>4. CASE "selected" \in r.flags
    <3>1. a = Attached(k)  BY <1>3, <2>4
    <3>2. /\ a \in Contexts /\ a.flags = k.flags /\ a.port = k.port
          /\ a.eventToWaitFor = k.eventToWaitFor
          /\ a.attached /\ a.debug /\ a.proc = "stopped" /\ a.state = "attached"
      BY <2>1, <3>1, AttachedGives
    <3>3. "used" \in r.flags => Fits(a)  BY <2>1, <3>2 DEF Fits
    <3> QED BY <2>1, <2>2, <2>3, <3>2, <3>3
  <2>5. CASE "selected" \notin r.flags
    <3>1. a = k  BY <1>3, <2>5
    <3>2. Fits(r) => Fits(a)  BY <2>1, <3>1 DEF Fits
    <3> QED BY <2>1, <2>2, <2>3, <3>1, <3>2
  <2> QED BY <2>4, <2>5
<1>5. /\ clients' = [clients EXCEPT ![p] = c] /\ locks' = locks
      /\ UNCHANGED <<monitor, menu, task, nextApplicationGdbCtx, inputs>>
      /\ \/ /\ ctxs' = [ctxs EXCEPT ![c] = a]
            /\ socket' = [pc |-> "poll", ctx |-> NoCtx, restart |-> FALSE]
            /\ server' = server /\ undisturbed' = undisturbed
         \/ /\ server.refs >= 2 /\ ctxs' = [ctxs EXCEPT ![c] = w]
            /\ socket' = [pc |-> "closing", ctx |-> c, restart |-> FALSE]
            /\ server' = AskMonitor
            /\ (MonitorEnds \/ MonitorWokenFor(c)) \in BOOLEAN
            /\ Disturbed(MonitorEnds \/ MonitorWokenFor(c))
  BY <1>2, <1>3, Zenon DEF AcceptClient, Untouched, Others
<1> HIDE DEF k
<1>6. /\ server'.refs = server.refs /\ server'.running = server.running
      /\ server'.terminate = server.terminate /\ server'.finalized = server.finalized
  BY <1>1, <1>5 DEF AskMonitor, TypesApart, ServerType
<1>7. Counted'
  <2>1. Serves(socket) /\ Serves(socket') /\ socket'.pc # "ended" /\ socket.pc # "ended"
    BY <1>5 DEF Serves
  <2> QED BY <1>5, <1>6, <2>1 DEF ServerInv, Counted, One
<1>8. TypesApart'
  <2>1. ContextType'  BY <1>1, <1>4, <1>5, ContextsEdit
  <2>2. SocketType'
    <3>1. \E pc \in {"closing", "poll"}, d \in Ctxs \cup {NoCtx} :
              socket' = [pc |-> pc, ctx |-> d, restart |-> FALSE]
      BY <1>5, Zenon
    <3> QED BY <3>1, SocketTurns
  <2>3. clients' \in [Ports -> Ctxs \cup {NoCtx, Queued}]
    BY <1>1, <1>5 DEF TypesApart, OtherTypes
  <2>4. locks' \in [Ctxs -> {"none", "socket", "menu"}]
    BY <1>1, <1>5 DEF TypesApart, OtherTypes
  <2>5. OtherTypes'
    <3>1. undisturbed' = undisturbed \/ (\E b \in BOOLEAN : Disturbed(b))
      BY <1>5, Zenon
    <3> QED BY <1>1, <1>5, <2>3, <2>4, <3>1, InputType
  <2>6. ServerType'  BY <1>1, <1>5, AskType, TypesKept DEF TypesApart
  <2> QED BY <1>1, <1>5, <2>1, <2>2, <2>5, <2>6, TypesKept DEF TypesApart
<1>9. ASSUME undisturbed' PROVE Quiet'
  <2>1. undisturbed /\ Quiet /\ Belong  BY <1>5, <1>9 DEF ServerInv, Quiet, Disturbed
  <2>2. /\ c \in Ctxs /\ Fits(r) /\ r.port = p /\ "used" \in r.flags
        /\ r.eventToWaitFor = ctxs[c].eventToWaitFor /\ r.attached = ctxs[c].attached
        /\ r.debug = ctxs[c].debug
        /\ \A d \in Ctxs \ {c} : ctxs[d].port # p
        /\ \A q \in Ports : clients[q] = c => q = p
        /\ socket.ctx \in {c, NoCtx}
    BY <2>1
  <2>3. \A q \in Ports : clients'[q] = IF q = p THEN c ELSE clients[q]
    BY <1>1, <1>5 DEF TypesApart, OtherTypes
  <2>4. \A q \in Ports : clients'[q] \in Ctxs => IF clients'[q] = c THEN q = p ELSE clients'[q] = clients[q]
    BY <2>2, <2>3
  <2>5. HasClient(c)'  BY <2>3 DEF HasClient
  <2>6. \A d \in Ctxs \ {c} : HasClient(d) \/ socket.ctx = d => HasClient(d)'
    <3> SUFFICES ASSUME NEW d \in Ctxs \ {c}, HasClient(d) PROVE HasClient(d)'
      BY <2>2, Constants
    <3>1. PICK q \in Ports : clients[q] = d  BY DEF HasClient
    <3>2. q # p  BY <2>1, <2>2, <3>1 DEF Belong, ClientsOwn
    <3> QED BY <2>3, <3>1, <3>2 DEF HasClient
  <2>7. ASSUME NEW s \in Contexts, s.flags = r.flags, s.port = r.port, Fits(s),
               ctxs' = [ctxs EXCEPT ![c] = s]
        PROVE  Belong'
    <3>1. \A q \in Ports : clients'[q] \in Ctxs =>
              IF clients'[q] = c THEN "used" \in s.flags /\ s.port = q ELSE clients'[q] = clients[q]
      BY <2>2, <2>4, <2>7
    <3>2. s.port = ctxs[c].port \/ \A d \in Ctxs : ctxs[d].port # s.port
      BY <2>2, <2>7
    <3> QED BY <1>1, <2>1, <2>2, <2>5, <2>6, <2>7, <3>1, <3>2, BelongEdit DEF TypesApart
  <2>8. ~monitor'.failed /\ task' # "crashed"  BY <1>5, <2>1 DEF Quiet
  <2>9. CASE /\ ctxs' = [ctxs EXCEPT ![c] = a]
             /\ socket' = [pc |-> "poll", ctx |-> NoCtx, restart |-> FALSE]
             /\ server' = server
    <3>1. Belong'  BY <1>4, <2>2, <2>7, <2>9
    <3>2. Threads' /\ Meeting'
      BY <1>1, <1>4, <1>5, <2>1, <2>2, <2>9, NoWait
    <3> QED BY <2>8, <3>1, <3>2 DEF Quiet
  <2>10. CASE /\ server.refs >= 2 /\ ctxs' = [ctxs EXCEPT ![c] = w]
              /\ socket' = [pc |-> "closing", ctx |-> c, restart |-> FALSE]
              /\ server' = AskMonitor /\ Disturbed(MonitorEnds \/ MonitorWokenFor(c))
    <3>1. Belong'  BY <1>4, <2>2, <2>7, <2>10
    <3>2. monitor.pc # "start"
      BY <1>1, <2>10 DEF ServerInv, Counted, Serves, One, TypesApart, ServerType
    <3>3. ~MonitorWokenFor(c)  BY <1>9, <2>10 DEF Disturbed
    <3>4. socket'.pc = "closing" /\ socket'.ctx = c  BY <2>10
    <3>5. Threads' /\ Handshake' /\ Handles' /\ Spins'
      BY <1>1, <1>4, <1>5, <2>1, <2>2, <2>5, <2>10, <3>2, <3>3, <3>4, AskBegins
    <3>6. LocksInv'  BY <1>5, <2>1, <3>4 DEF Quiet, Meeting, LocksInv
    <3> QED BY <2>8, <3>1, <3>5, <3>6 DEF Quiet, Meeting
  <2> QED BY <1>5, <2>9, <2>10
<1> QED BY <1>7, <1>8, <1>9, TypesNext DEF ServerInv

LEMMA NextApplicationComesKeeps == ASSUME ServerInv, NextApplicationComes PROVE ServerInv'
<1>0. PICK c : c = socket.ctx  OBVIOUS
<1>1. TypesApart /\ c \in Ctxs \cup {NoCtx}
  BY <1>0, Types DEF ServerInv, TypesApart, SocketType
<1>2. PICK r : r = ctxs[c]  OBVIOUS
<1>3. socket.pc = "spinning" /\ AcceptClient(c, NextPort, r) /\ Untouched
  BY <1>0, <1>2, Zenon DEF NextApplicationComes
<1>4. c \in Ctxs => r \in Contexts  BY <1>1, <1>2 DEF TypesApart, ContextType
<1>5. ASSUME undisturbed
      PROVE  /\ c \in Ctxs /\ Fits(r) /\ r.port = NextPort /\ "used" \in r.flags
             /\ \A d \in Ctxs \ {c} : ctxs[d].port # NextPort
             /\ \A q \in Ports : clients[q] = c => q = NextPort
  <2>1. Belong /\ Spinning(c)  BY <1>0, <1>3, <1>5 DEF ServerInv, Quiet, Meeting, Spins
  <2>2. NextPort # 0  BY Constants
  <2>3. c \in Ctxs /\ r.port = NextPort /\ "used" \in r.flags
    BY <1>2, <2>1 DEF Spinning
  <2>4. Fits(r)  BY <1>2, <2>1, <2>3 DEF Belong
  <2> QED BY <1>2, <2>1, <2>2, <2>3, <2>4 DEF Belong, PortsDiffer, ClientsOwn
<1>6. NextPort \in Ports  BY Constants
<1> QED BY <1>0, <1>1, <1>2, <1>3, <1>4, <1>5, <1>6, AcceptClientKeeps

(* A connection that is refused, or waits for the next application.         *)
LEMMA RefuseKeeps ==
    ASSUME ServerInv, NEW p \in Ports, clients[p] = Queued, Refuse(p), Untouched
    PROVE  ServerInv'
<1>1. TypesApart  BY Types DEF ServerInv
<1>2. /\ UNCHANGED <<ctxs, locks, server, socket, monitor, menu, task, nextApplicationGdbCtx, inputs, undisturbed>>
      /\ clients' = [clients EXCEPT ![p] = NoCtx]
  BY Zenon DEF Refuse, Untouched, Others
<1>4. Counted'  BY <1>2, Zenon DEF ServerInv, Counted, Serves
<1>5. TypesApart'
  <2>1. clients' \in [Ports -> Ctxs \cup {NoCtx, Queued}]
    BY <1>1, <1>2 DEF TypesApart, OtherTypes
  <2>2. OtherTypes'
    BY <1>1, <1>2, <2>1 DEF TypesApart, OtherTypes
  <2> QED BY <1>1, <1>2, <2>2, TypesKept DEF TypesApart
<1>6. ASSUME undisturbed' PROVE Quiet'
  <2>1. Quiet  BY <1>2, <1>6 DEF ServerInv
  <2>2. \A q \in Ports : \A c \in Ctxs : clients'[q] = c <=> clients[q] = c
    BY <1>1, <1>2, Constants DEF TypesApart, OtherTypes
  <2>3. \A c \in Ctxs : HasClient(c)' <=> HasClient(c)
    BY <2>2, Zenon DEF HasClient
  <2>4. Belong'
    <3>1. ClientsOwn'
      BY <1>2, <2>1, <2>2 DEF Quiet, Belong, ClientsOwn
    <3>2. DebugFor'  BY <1>2, <2>1, <2>3, Zenon DEF Quiet, Belong, DebugFor, HeldFor
    <3>3. (\A c \in Ctxs : Fits(ctxs'[c])) /\ PortsDiffer'
      BY <1>2, <2>1, Zenon DEF Quiet, Belong, PortsDiffer
    <3> QED BY <3>1, <3>2, <3>3, Zenon DEF Belong
  <2>5. Threads'
    BY <1>2, <2>1, Zenon DEF Quiet, Threads, Starting, Signalled, Leaving, Finals, One
  <2>6. Handshake'
    BY <1>2, <2>1, <2>3, Zenon DEF Quiet, Meeting, Handshake, WaitsFor, Waits
  <2>7. Handles' /\ Spins' /\ LocksInv'
    BY <1>2, <2>1, Zenon DEF Quiet, Meeting, Handles, Fresh, GivenUp, Waits, Spins, Spinning, LocksInv
  <2> QED BY <1>2, <2>1, <2>4, <2>5, <2>6, <2>7, Zenon DEF Quiet, Meeting
<1> QED BY <1>4, <1>5, <1>6, TypesNext DEF ServerInv

LEMMA SpinningKeeps ==
    ASSUME ServerInv, NEW c \in Ctxs, NEW r,
           r = [ctxs[c] EXCEPT !.flags = @ \cup {"used"}, !.state = "connected", !.port = NextPort],
           Polling, ctxs[c].port = NextPort, ctxs' = [ctxs EXCEPT ![c] = r],
           socket' = [pc |-> "spinning", ctx |-> c, restart |-> FALSE],
           UNCHANGED <<locks, clients, server>>, Disturbed(server.terminate), Untouched
    PROVE  ServerInv'
<1>1. TypesApart  BY Types DEF ServerInv
<1>2. /\ UNCHANGED <<locks, clients, server, monitor, menu, task, nextApplicationGdbCtx, inputs>>
      /\ socket.pc = "poll" /\ socket'.pc = "spinning" /\ socket'.ctx = c
  BY DEF Untouched, Others, Polling
<1>3. ctxs[c] \in Contexts  BY <1>1 DEF TypesApart, ContextType
<1>4. /\ r \in Contexts /\ r.flags = ctxs[c].flags \cup {"used"} /\ r.port = NextPort
      /\ r.eventToWaitFor = ctxs[c].eventToWaitFor /\ r.attached = ctxs[c].attached
      /\ r.debug = ctxs[c].debug /\ r.state = "connected"
  BY <1>3, Constants DEF Contexts, Flags
<1>5. Counted'
  <2>1. Serves(socket) /\ Serves(socket') /\ socket'.pc # "ended" /\ socket.pc # "ended"
    BY <1>2 DEF Serves
  <2> QED BY <1>2, <2>1 DEF ServerInv, Counted, One
<1>6. TypesApart'
  <2>1. ContextType'  BY <1>1, <1>4, ContextsEdit
  <2>2. SocketType'  BY SocketTurns
  <2>3. clients' \in [Ports -> Ctxs \cup {NoCtx, Queued}] /\ locks' \in [Ctxs -> {"none", "socket", "menu"}]
    BY <1>1, <1>2 DEF TypesApart, OtherTypes
  <2>4. server.terminate \in BOOLEAN  BY <1>1 DEF TypesApart, ServerType
  <2>5. OtherTypes'  BY <1>1, <1>2, <2>3, <2>4, InputType
  <2> QED BY <1>1, <1>2, <2>1, <2>2, <2>5, TypesKept DEF TypesApart
<1>7. ASSUME undisturbed' PROVE Quiet'
  <2>1. Quiet /\ Belong  BY <1>7 DEF ServerInv, Quiet, Disturbed
  <2>2. Fits(ctxs[c])  BY <2>1, Zenon DEF Belong
  <2>3. Fits(r)  BY <1>4, <2>2 DEF Fits
  <2>4. \A p \in Ports : clients'[p] \in Ctxs =>
            IF clients'[p] = c THEN "used" \in r.flags /\ r.port = p ELSE clients'[p] = clients[p]
    BY <1>2, <1>4, <2>1 DEF Belong, ClientsOwn
  <2>5. socket.ctx = NoCtx  BY <1>2, <2>1 DEF Quiet, Threads, Leaving
  <2>6. \A d \in Ctxs \ {c} : HasClient(d) \/ socket.ctx = d => (HasClient(d) \/ socket.ctx = d)'
    BY <1>2, <2>5, Constants DEF HasClient
  <2>7. Belong'
    BY <1>1, <1>2, <1>4, <2>1, <2>3, <2>4, <2>6, BelongEdit DEF TypesApart
  <2>8. Threads' /\ Meeting'
    BY <1>1, <1>2, <1>4, <2>1, NoWait
  <2> QED BY <1>2, <2>1, <2>7, <2>8 DEF Quiet
<1> QED BY <1>5, <1>6, <1>7, TypesNext DEF ServerInv

LEMMA AcceptKeeps == ASSUME ServerInv, NEW p \in Ports, Accept(p) PROVE ServerInv'
<1>1. TypesApart  BY Types DEF ServerInv
<1> DEFINE tied == Owners(p) # {}
           S == IF tied THEN Owners(p) ELSE Available
           r(c) == [ctxs[c] EXCEPT !.flags = @ \cup {"used"}, !.state = "connected", !.port = p]
<1>2. Polling /\ clients[p] = Queued /\ Untouched  BY Zenon DEF Accept
<1>3. CASE Refuse(p)  BY <1>2, <1>3, RefuseKeeps
<1>4. CASE ~Refuse(p)
  <2>1. S # {} /\ S \in SUBSET Ctxs
    BY <1>4 DEF Accept, GetClient, Owners, Available
  <2>2. PICK c : c = Least(S)  OBVIOUS
  <2>3. c \in S /\ c \in Ctxs
    BY <2>1, <2>2, LeastIsThere, Constants
  <2>4. /\ tied => "used" \notin ctxs[c].flags
        /\ \/ /\ tied /\ p = NextPort /\ ctxs' = [ctxs EXCEPT ![c] = r(c)]
              /\ socket' = [pc |-> "spinning", ctx |-> c, restart |-> FALSE]
              /\ UNCHANGED <<locks, clients, server>> /\ Disturbed(server.terminate)
           \/ AcceptClient(c, p, r(c))
    BY <1>4, <2>2, Zenon DEF Accept, GetClient
  <2>5. ctxs[c] \in Contexts  BY <1>1, <2>3 DEF TypesApart, ContextType
  <2>6. PICK s : s = r(c)  OBVIOUS
  <2>7. /\ s \in Contexts /\ s.flags = ctxs[c].flags \cup {"used"} /\ s.port = p
        /\ s.eventToWaitFor = ctxs[c].eventToWaitFor /\ s.attached = ctxs[c].attached
        /\ s.debug = ctxs[c].debug /\ s.state = "connected"
    BY <2>5, <2>6 DEF Contexts, Flags
  <2>8. tied => ctxs[c].port = p  BY <2>3 DEF Owners
  <2>9. ~tied => ~Allocated(c) /\ \A d \in Ctxs : ctxs[d].port # p
    BY <2>3 DEF Owners, Available
  <2> HIDE DEF tied, S
  <2>10. CASE /\ tied /\ p = NextPort /\ ctxs' = [ctxs EXCEPT ![c] = r(c)]
              /\ socket' = [pc |-> "spinning", ctx |-> c, restart |-> FALSE]
              /\ UNCHANGED <<locks, clients, server>> /\ Disturbed(server.terminate)
    <3>1. s = [ctxs[c] EXCEPT !.flags = @ \cup {"used"}, !.state = "connected", !.port = NextPort]
      BY <2>6, <2>10
    <3>2. ctxs' = [ctxs EXCEPT ![c] = s]  BY <2>6, <2>10
    <3> HIDE DEF r
    <3> QED BY <1>2, <2>3, <2>8, <2>10, <3>1, <3>2, SpinningKeeps
  <2>11. CASE AcceptClient(c, p, r(c))
    <3>1. AcceptClient(c, p, s)  BY <2>6, <2>11
    <3>2. ASSUME undisturbed
          PROVE  /\ Fits(s) /\ "used" \in s.flags /\ socket.ctx \in {c, NoCtx}
                 /\ \A d \in Ctxs \ {c} : ctxs[d].port # p
                 /\ \A q \in Ports : clients[q] = c => q = p
      <4>1. Quiet /\ Belong  BY <3>2 DEF ServerInv, Quiet
      <4>2. Fits(ctxs[c])  BY <2>3, <4>1, Zenon DEF Belong
      <4>3. Fits(s)  BY <2>7, <4>2 DEF Fits
      <4>4. socket.ctx = NoCtx  BY <1>2, <4>1 DEF Polling, Quiet, Threads, Leaving
      <4>5. \A d \in Ctxs \ {c} : ctxs[d].port # p
        BY <2>3, <2>8, <2>9, <4>1, Constants DEF Belong, PortsDiffer
      <4>6. "used" \notin ctxs[c].flags  BY <2>4, <2>9 DEF Allocated
      <4>7. \A q \in Ports : clients[q] # c  BY <2>3, <4>1, <4>6 DEF Belong, ClientsOwn
      <4> QED BY <2>7, <4>3, <4>4, <4>5, <4>7
    <3>3. socket.pc \in {"poll", "spinning"}  BY <1>2 DEF Polling
    <3> QED BY <1>2, <2>3, <2>7, <3>1, <3>2, <3>3, AcceptClientKeeps
  <2> QED BY <2>4, <2>10, <2>11
<1> QED BY <1>3, <1>4
-----------------------------------------------------------------------------
LEMMA ServerStarts == ASSUME Init PROVE ServerInv
<1>1. /\ server = [refs |-> 0, running |-> FALSE, terminate |-> FALSE, updated |-> FALSE,
                   received |-> FALSE, finalized |-> 0]
      /\ socket = [pc |-> "start", ctx |-> NoCtx, restart |-> FALSE]
      /\ monitor = [pc |-> "start", ctx |-> NoCtx, failed |-> FALSE,
                    handles |-> [c \in Ctxs |-> "attached"]]
      /\ menu = "enabling" /\ task = "idle" /\ nextApplicationGdbCtx = NoCtx
      /\ inputs = 0 /\ undisturbed = TRUE
      /\ locks = [c \in Ctxs |-> "none"] /\ clients = [p \in Ports |-> NoCtx]
  BY DEF Init
<1>2. Blank \in Contexts
  BY DEF Blank, Contexts, Flags, Events, NoCtx
<1>3. ContextType /\ \A c \in Ctxs : ctxs[c] = Blank
  BY <1>2 DEF Init, ContextType
<1>4. /\ Blank.flags = {} /\ Blank.port = 0 /\ ~Blank.debug /\ ~Blank.attached /\ ~Blank.told
      /\ Blank.state = "disconnected" /\ Blank.eventToWaitFor = "attached" /\ ~Blank.continued
  BY DEF Blank
<1>5. TypesApart
  <2>1. ServerType /\ SocketType  BY <1>1 DEF ServerType, SocketType
  <2>2. [c \in Ctxs |-> "attached"] \in [Ctxs -> {"attached", "continued", "debug"}]
    OBVIOUS
  <2>3. MonitorType  BY <1>1, <2>2 DEF MonitorType
  <2>4. OtherTypes  BY <1>1, Constants DEF OtherTypes, MenuStates, TaskStates
  <2> QED BY <1>3, <2>1, <2>3, <2>4 DEF TypesApart
<1>6. Counted  BY <1>1 DEF Counted, Serves, One
<1>7. Belong
  <2>1. Fits(Blank)  BY <1>4 DEF Fits
  <2>2. \A p \in Ports : clients[p] \notin Ctxs  BY <1>1, Constants
  <2> QED BY <1>3, <1>4, <2>1, <2>2 DEF Belong, PortsDiffer, ClientsOwn, DebugFor
<1>8. Threads  BY <1>1, <1>3, <1>4 DEF Threads, Starting, Signalled, Leaving, Finals, One
<1>9. Meeting  BY <1>1 DEF Meeting, Handshake, Handles, Spins, LocksInv, Waits
<1> QED BY <1>1, <1>5, <1>6, <1>7, <1>8, <1>9, Types DEF ServerInv, Quiet

LEMMA StutterKeeps == ASSUME ServerInv, UNCHANGED gdbvars PROVE ServerInv'
<1>1. UNCHANGED <<ctxs, locks, clients, server, socket, monitor, menu, task,
                  nextApplicationGdbCtx, inputs, undisturbed>>
  BY Zenon DEF gdbvars
<1>2. GDBTypeOK'
  <2>1. TypesApart  BY Types DEF ServerInv
  <2>2. OtherTypes'  BY <1>1, <2>1 DEF TypesApart, OtherTypes
  <2>3. TypesApart'  BY <1>1, <2>1, <2>2, TypesKept DEF TypesApart
  <2> QED BY <2>3, TypesNext
<1>3. Counted'  BY <1>1, Zenon DEF ServerInv, Counted, Serves
<1>4. Quiet => Quiet'
  <2> SUFFICES ASSUME Quiet PROVE Quiet'  OBVIOUS
  <2>1. Belong'  BY <1>1, BelongStays DEF Quiet
  <2>2. Threads'
    BY <1>1, Zenon DEF Quiet, Threads, Starting, Signalled, Leaving, Finals, One
  <2>3. Meeting'
    BY <1>1, Zenon DEF Quiet, Meeting, Handshake, WaitsFor, HasClient, Handles, Fresh, GivenUp, Waits,
                       Spins, Spinning, LocksInv
  <2> QED BY <1>1, <2>1, <2>2, <2>3, Zenon DEF Quiet
<1> QED BY <1>1, <1>2, <1>3, <1>4, Zenon DEF ServerInv

LEMMA ServerStep == ASSUME ServerInv, [Next]_gdbvars PROVE ServerInv'
<1>1. CASE SocketThread
  BY <1>1, SocketStartsKeeps, BindPortsKeeps, LeaveLoopKeeps, CloseEndsKeeps, DetachEndsKeeps,
     NextApplicationComesKeeps, SocketLeavesKeeps, AcceptKeeps, Zenon DEF SocketThread
<1>2. CASE Packets
  BY <1>2, EnableExtendedModeKeeps, ContinueKeeps, BreakKeeps, OtherPacketKeeps, PacketsKeep, Zenon
     DEF Packets
<1>3. CASE Monitor
  BY <1>3, MonitorStartsKeeps, SnapshotKeeps, CallWaitKeeps, ToldToEndKeeps, StatusUpdatedKeeps,
     WokenKeeps, MonitorLeavesKeeps, WaitReturnsKeeps, Zenon DEF Monitor
<1>4. CASE FinalizeServer  BY <1>4, FinalizeServerKeeps
<1>5. CASE Menu
  BY <1>5, MenuTurnsKeep, SelectKeeps, DisableDebuggerKeeps, UnselectProcessKeeps,
     CloseFromListKeeps, Zenon DEF Menu
<1>6. CASE Task  BY <1>6, MenuTurnsKeep, FetchEndsKeeps DEF Task
<1>7. CASE Environment  BY <1>7, ConnectKeeps, HappensKeeps DEF Environment
<1>8. CASE UNCHANGED gdbvars  BY <1>8, StutterKeeps
<1> QED BY <1>1, <1>2, <1>3, <1>4, <1>5, <1>6, <1>7, <1>8, Zenon DEF Next

LEMMA ServerInvGives == ServerInv => GDBInv /\ HandshakesAreSafe
<1> SUFFICES ASSUME ServerInv PROVE GDBInv /\ HandshakesAreSafe  OBVIOUS
<1>1. TypesApart  BY Types DEF ServerInv
<1>2. ASSUME undisturbed PROVE NoStaleUse
  <2>1. Quiet  BY <1>2 DEF ServerInv
  <2>2. server.finalized <= 1
    BY <1>1, <2>1 DEF Quiet, Threads, Finals, One, TypesApart, ServerType
  <2> QED BY <2>1, <2>2 DEF NoStaleUse, Quiet
<1>3. ContextsBelong
  BY Zenon DEF ServerInv, Quiet, Belong, ContextsBelong, Fits, PortsDiffer, ClientsOwn, DebugFor, HeldFor
<1> QED BY <1>2, <1>3, Zenon DEF ServerInv, GDBInv, HandshakesAreSafe

LEMMA ServerAlways == Spec => []ServerInv
BY ServerStarts, ServerStep, PTL DEF Spec

(* Every client has the context of its port, no two contexts have the same  *)
(* port, a process is held for a client or for the next application only,   *)
(* and a client that was told so has a process that does not run -- with    *)
(* any number of contexts, in every order of the threads, the packets, the  *)
(* events and the menu, as long as none of the races the model names is met.*)
THEOREM ContextsAreRight == Spec => []GDBInv
BY ServerAlways, ServerInvGives, PTL

(* As long as none of these races is met, the monitor never hands the       *)
(* kernel a handle that was closed in the meantime, the server is finalized *)
(* once by whichever thread is last, and the task that fetches the next     *)
(* application has a context to write to.                                   *)
THEOREM HandshakesHold == Spec => []HandshakesAreSafe
BY ServerAlways, ServerInvGives, PTL
-----------------------------------------------------------------------------
(***************************************************************************)
(* The watchpoints: as long as all goes as meant, the two registers, the   *)
(* manager and what each context believes agree.                           *)
(***************************************************************************)
Entries == [address : Addresses, kind : Kinds, ctx : WatchCtxs]

WatchTypeOK ==
    /\ manager \in [Ids -> Entries \cup {Disabled}]
    /\ registers \in [Ids -> Entries \cup {Disabled}]
    /\ total \in Int
    /\ watched \in [WatchCtxs -> Seq(Addresses)]
    /\ lockedBy \in [GdbThreads -> Nat]
    /\ asMeant \in BOOLEAN

(* A context's addresses and its entries of the manager, one to one.        *)
Owns(id, c) == manager[id].ctx = c
OneToOne(c) ==
    /\ \A id \in Ids : Owns(id, c) => \E k \in DOMAIN watched[c] : watched[c][k] = manager[id].address
    /\ \A k \in DOMAIN watched[c] : \E id \in Ids : Owns(id, c) /\ manager[id].address = watched[c][k]
    /\ \A j, k \in DOMAIN watched[c] : watched[c][j] = watched[c][k] => j = k
    /\ Owns(0, c) /\ Owns(1, c) => manager[0].address # manager[1].address

Used(id) == IF manager[id] = Disabled THEN 0 ELSE 1

WatchInv ==
    /\ WatchTypeOK
    /\ asMeant => /\ registers = manager
                  /\ total = Used(0) + Used(1)
                  /\ \A c \in WatchCtxs : OneToOne(c)
                  /\ \A t \in GdbThreads : lockedBy[t] = 0

LEMMA PairCardinality ==
    ASSUME NEW S, S \subseteq Ids
    PROVE  Cardinality(S) = (IF 0 \in S THEN 1 ELSE 0) + (IF 1 \in S THEN 1 ELSE 0)
<1>1. CASE 0 \notin S /\ 1 \notin S
  <2>1. S = {}
    BY <1>1 DEF Ids
  <2> QED BY <1>1, <2>1, FS_EmptySet
<1>2. CASE 0 \in S /\ 1 \notin S
  <2>1. S = {0}
    BY <1>2 DEF Ids
  <2> QED BY <1>2, <2>1, FS_Singleton
<1>3. CASE 0 \notin S /\ 1 \in S
  <2>1. S = {1}
    BY <1>3 DEF Ids
  <2> QED BY <1>3, <2>1, FS_Singleton
<1>4. CASE 0 \in S /\ 1 \in S
  <2>0. \A n : n \in S <=> n \in {0} \cup {1}
    BY <1>4 DEF Ids
  <2>1. S = {0} \cup {1} /\ 1 \notin {0}
    BY <2>0
  <2>2. IsFiniteSet({0}) /\ Cardinality({0}) = 1
    BY FS_Singleton
  <2>3. Cardinality({0} \cup {1}) = 2
    BY <2>1, <2>2, FS_AddElement
  <2> QED BY <1>4, <2>1, <2>3
<1> QED BY <1>1, <1>2, <1>3, <1>4

LEMMA WatchInit == WatchpointInit => WatchInv
<1> SUFFICES ASSUME WatchpointInit PROVE WatchInv
  OBVIOUS
<1>1. manager \in [Ids -> Entries \cup {Disabled}] /\ registers \in [Ids -> Entries \cup {Disabled}]
  BY DEF WatchpointInit
<1>2. watched \in [WatchCtxs -> Seq(Addresses)] /\ lockedBy \in [GdbThreads -> Nat]
  BY DEF WatchpointInit
<1>3. WatchTypeOK
  BY <1>1, <1>2 DEF WatchpointInit, WatchTypeOK
<1>4. \A c \in WatchCtxs : OneToOne(c)
  BY WatchpointAssumption DEF WatchpointInit, OneToOne, Owns, Ids, Disabled
<1>5. registers = manager /\ total = Used(0) + Used(1) /\ \A t \in GdbThreads : lockedBy[t] = 0
  BY DEF WatchpointInit, Used, Ids
<1> QED BY <1>3, <1>4, <1>5 DEF WatchInv

LEMMA DisabledOwnsNothing ==
    /\ \A c \in WatchCtxs : Disabled.ctx # c
    /\ \A a \in Addresses : Disabled.address # a
    /\ \A wp \in Entries : wp # Disabled
BY WatchpointAssumption DEF Disabled, Entries

LEMMA RefuseStep ==
    ASSUME WatchInv, NEW c \in WatchCtxs, NEW a \in Addresses, NEW valid \in BOOLEAN,
           RefuseWatchpoint(c, a, valid)
    PROVE  WatchInv'
<1>1. lockedBy' \in [GdbThreads -> Nat]
  BY DEF WatchInv, WatchTypeOK, RefuseWatchpoint, GdbThreads
<1>2. asMeant' = FALSE
  BY DEF RefuseWatchpoint
<1>3. WatchTypeOK'
  BY <1>1, <1>2 DEF WatchInv, WatchTypeOK, RefuseWatchpoint
<1> QED BY <1>2, <1>3 DEF WatchInv

LEMMA AddStep ==
    ASSUME WatchInv, NEW c \in WatchCtxs, NEW a \in Addresses, NEW kind \in Kinds,
           AddWatchpoint(c, a, kind)
    PROVE  WatchInv'
<1> DEFINE wp == [address |-> a, kind |-> kind, ctx |-> c]
<1>1. wp \in Entries /\ wp.address = a /\ wp.ctx = c
  BY DEF Entries
<1>2. /\ manager' = [manager EXCEPT ![FreeId] = wp] /\ registers' = [registers EXCEPT ![FreeId] = wp]
      /\ total' = total + 1 /\ watched' = [watched EXCEPT ![c] = Append(@, a)]
      /\ UNCHANGED <<lockedBy, asMeant>>
      /\ total # 2 /\ GetWatchpointKind(c, a) = "disabled"
  BY DEF AddWatchpoint, Refuses
<1>3. FreeId \in Ids
  BY DEF FreeId, Ids
<1>4. GetWatchpointKind(c, a) = "disabled" =>
        \A id \in Ids : ~(manager[id].address = a /\ manager[id].ctx = c)
  <2>1. SUFFICES ASSUME NEW id \in Ids, manager[id].address = a, manager[id].ctx = c
                 PROVE  GetWatchpointKind(c, a) # "disabled"
    OBVIOUS
  <2>2. PICK jd \in Ids : /\ manager[jd].address = a /\ manager[jd].ctx = c
                          /\ GetWatchpointKind(c, a) = manager[jd].kind
    BY <2>1 DEF GetWatchpointKind
  <2>3. manager[jd] \in Entries
    BY <2>2, DisabledOwnsNothing DEF WatchInv, WatchTypeOK
  <2> QED BY <2>2, <2>3 DEF Entries, Kinds
<1> HIDE DEF wp
<1>5. WatchTypeOK'
  BY <1>1, <1>2, <1>3 DEF WatchInv, WatchTypeOK
<1>6. ASSUME asMeant PROVE /\ registers' = manager' /\ total' = Used(0)' + Used(1)'
                           /\ \A d \in WatchCtxs : OneToOne(d)'
                           /\ \A t \in GdbThreads : lockedBy'[t] = 0
  <2>1. manager[FreeId] = Disabled
    BY <1>2, <1>6 DEF WatchInv, Used, FreeId
  <2>2. registers' = manager' /\ \A t \in GdbThreads : lockedBy'[t] = 0
    BY <1>2, <1>6 DEF WatchInv
  <2>3. total' = Used(0)' + Used(1)'
    BY <1>1, <1>2, <1>3, <1>6, <2>1, DisabledOwnsNothing DEF WatchInv, WatchTypeOK, Used, Ids, FreeId
  <2>4. ASSUME NEW d \in WatchCtxs PROVE OneToOne(d)'
    <3>1. OneToOne(d) /\ watched[d] \in Seq(Addresses)
      BY <1>6 DEF WatchInv, WatchTypeOK
    <3>2. CASE d # c
      <4>1. watched'[d] = watched[d]
        BY <1>2, <3>2 DEF WatchInv, WatchTypeOK
      <4>2. \A id \in Ids : (manager'[id].ctx = d <=> manager[id].ctx = d)
                            /\ (manager[id].ctx = d => manager'[id] = manager[id])
        BY <1>1, <1>2, <1>3, <2>1, <3>2, DisabledOwnsNothing DEF WatchInv, WatchTypeOK
      <4> QED BY <3>1, <4>1, <4>2 DEF OneToOne, Owns, Ids
    <3>3. CASE d = c
      <4>1. watched'[c] = Append(watched[c], a)
        BY <1>2 DEF WatchInv, WatchTypeOK
      <4>2. /\ Len(watched'[c]) = Len(watched[c]) + 1 /\ watched'[c][Len(watched[c]) + 1] = a
            /\ \A k \in 1 .. Len(watched[c]) : watched'[c][k] = watched[c][k]
            /\ DOMAIN watched'[c] = 1 .. Len(watched[c]) + 1 /\ DOMAIN watched[c] = 1 .. Len(watched[c])
            /\ Len(watched[c]) \in Nat
        BY <3>1, <3>3, <4>1
      <4>3. /\ manager'[FreeId] = wp /\ manager[FreeId].ctx # c
            /\ \A id \in Ids \ {FreeId} : manager'[id] = manager[id]
        BY <1>2, <1>3, <2>1, DisabledOwnsNothing DEF WatchInv, WatchTypeOK
      <4>4. \A k \in 1 .. Len(watched[c]) : watched[c][k] # a
        BY <1>2, <1>4, <3>1, <3>3, <4>2 DEF OneToOne, Owns
      <4>5. \A id \in Ids : manager[id].ctx = c => manager[id].address # a
        BY <1>2, <1>4
      <4>6. ASSUME NEW id \in Ids, Owns(id, c)'
            PROVE  \E k \in DOMAIN watched'[c] : watched'[c][k] = manager'[id].address
        <5>1. CASE id = FreeId
          BY <1>1, <4>2, <4>3, <5>1
        <5>2. CASE id # FreeId
          <6>1. manager'[id] = manager[id] /\ Owns(id, c)
            BY <4>3, <4>6, <5>2 DEF Owns
          <6>2. \E k \in DOMAIN watched[c] : watched[c][k] = manager[id].address
            BY <3>1, <3>3, <6>1 DEF OneToOne
          <6> QED BY <4>2, <6>1, <6>2
        <5> QED BY <5>1, <5>2
      <4>7. \A k \in DOMAIN watched'[c] : \E id \in Ids : Owns(id, c)' /\ manager'[id].address = watched'[c][k]
        <5>1. SUFFICES ASSUME NEW k \in DOMAIN watched'[c]
                       PROVE  \E id \in Ids : Owns(id, c)' /\ manager'[id].address = watched'[c][k]
          OBVIOUS
        <5>2. CASE k = Len(watched[c]) + 1
          BY <1>1, <1>3, <4>2, <4>3, <5>2 DEF Owns
        <5>3. CASE k \in 1 .. Len(watched[c])
          <6>1. PICK id \in Ids : Owns(id, c) /\ manager[id].address = watched[c][k]
            BY <3>1, <3>3, <4>2, <5>3 DEF OneToOne
          <6>2. id # FreeId /\ manager'[id] = manager[id]
            BY <4>3, <6>1 DEF Owns
          <6> QED BY <4>2, <5>3, <6>1, <6>2 DEF Owns
        <5> QED BY <4>2, <5>1, <5>2, <5>3
      <4>8. \A j, k \in DOMAIN watched'[c] : watched'[c][j] = watched'[c][k] => j = k
        <5>1. SUFFICES ASSUME NEW j \in DOMAIN watched'[c], NEW k \in DOMAIN watched'[c], j # k
                       PROVE  watched'[c][j] # watched'[c][k]
          OBVIOUS
        <5>2. \A i, n \in 1 .. Len(watched[c]) : watched[c][i] = watched[c][n] => i = n
          BY <3>1, <3>3, <4>2 DEF OneToOne
        <5>3. \A i \in 1 .. Len(watched[c]) + 1 : i = Len(watched[c]) + 1 \/ i \in 1 .. Len(watched[c])
          BY <4>2
        <5> QED BY <4>2, <4>4, <5>1, <5>2, <5>3
      <4>9. Owns(0, c)' /\ Owns(1, c)' => manager'[0].address # manager'[1].address
        BY <1>1, <1>3, <3>1, <3>3, <4>3, <4>5 DEF OneToOne, Owns, Ids
      <4> QED BY <3>3, <4>6, <4>7, <4>8, <4>9 DEF OneToOne
    <3> QED BY <3>2, <3>3
  <2> QED BY <2>2, <2>3, <2>4
<1> QED BY <1>2, <1>5, <1>6 DEF WatchInv

(* What a removal does when it takes the entry meant: id, whose address is  *)
(* the k-th of the context.                                                 *)
LEMMA RemovedOneToOne ==
    ASSUME WatchTypeOK, NEW c \in WatchCtxs, OneToOne(c), NEW id \in Ids, NEW k \in DOMAIN watched[c],
           Owns(id, c), manager[id].address = watched[c][k],
           manager' = [manager EXCEPT ![id] = Disabled],
           watched' = [watched EXCEPT ![c] = IF k = 1 THEN Tail(@) ELSE SubSeq(@, 1, Len(@) - 1)]
    PROVE  OneToOne(c)'
<1> DEFINE w == watched[c]
           v == watched'[c]
<1>1. w \in Seq(Addresses) /\ Len(w) \in Nat /\ DOMAIN w = 1 .. Len(w)
  BY DEF WatchTypeOK
<1>2. \A j \in Ids : Owns(j, c) => j = id \/ j # id
  OBVIOUS
<1>3. Len(w) <= 2
  <2>1. \A j \in 1 .. Len(w) : \E i \in Ids : Owns(i, c) /\ manager[i].address = w[j]
    BY <1>1 DEF OneToOne
  <2>2. \A i, j \in 1 .. Len(w) : w[i] = w[j] => i = j
    BY <1>1 DEF OneToOne
  <2>3. SUFFICES ASSUME Len(w) >= 3 PROVE FALSE
    BY <1>1
  <2>4. 1 \in 1 .. Len(w) /\ 2 \in 1 .. Len(w) /\ 3 \in 1 .. Len(w)
    BY <1>1, <2>3
  <2>5. w[1] # w[2] /\ w[1] # w[3] /\ w[2] # w[3]
    BY <2>2, <2>4
  <2> HIDE DEF w
  <2> QED BY <2>1, <2>4, <2>5 DEF Ids
<1>4. /\ \A j \in Ids : Owns(j, c)' <=> Owns(j, c) /\ j # id
      /\ \A j \in Ids : j # id => manager'[j] = manager[j]
  BY DisabledOwnsNothing DEF WatchTypeOK, Owns
<1>5. v = IF k = 1 THEN Tail(w) ELSE SubSeq(w, 1, Len(w) - 1)
  BY DEF WatchTypeOK
<1>6. /\ \A j \in Ids : Owns(j, c) => \E n \in 1 .. Len(w) : w[n] = manager[j].address
      /\ \A n \in 1 .. Len(w) : \E j \in Ids : Owns(j, c) /\ manager[j].address = w[n]
      /\ \A i, j \in 1 .. Len(w) : w[i] = w[j] => i = j
      /\ Owns(0, c) /\ Owns(1, c) => manager[0].address # manager[1].address
      /\ k \in 1 .. Len(w) /\ manager[id].address = w[k]
  BY <1>1 DEF OneToOne
<1>7. SUFFICES /\ \A j \in Ids : Owns(j, c)' => \E n \in DOMAIN v : v[n] = manager'[j].address
               /\ \A n \in DOMAIN v : \E j \in Ids : Owns(j, c)' /\ manager'[j].address = v[n]
               /\ \A i, j \in DOMAIN v : v[i] = v[j] => i = j
               /\ Owns(0, c)' /\ Owns(1, c)' => manager'[0].address # manager'[1].address
  BY DEF OneToOne
<1> HIDE DEF w, v
<1>8. Len(w) = 1 \/ Len(w) = 2
  <2>1. Len(w) # 0
    BY <1>6
  <2> QED BY <1>1, <1>3, <2>1
<1>9. CASE Len(w) = 1
  <2>1. k = 1 /\ v = Tail(w)
    BY <1>5, <1>6, <1>9
  <2>2. Len(v) = 0 /\ DOMAIN v = 1 .. Len(v)
    BY <1>1, <1>9, <2>1
  <2>3. DOMAIN v = {}
    BY <2>2
  <2>4. \A j \in Ids : ~Owns(j, c)'
    BY <1>4, <1>6, <1>9, <2>1 DEF Ids
  <2> QED BY <2>3, <2>4 DEF Ids
<1>10. CASE Len(w) = 2
  <2>1. PICK o \in {1, 2} : o # k /\ DOMAIN v = {1} /\ v[1] = w[o]
    <3>1. CASE k = 1
      <4>0. v = Tail(w)
        BY <1>5, <3>1
      <4> HIDE DEF v
      <4>5. w # <<>>
        <5>1. Len(w) = 2
          BY <1>10
        <5>2. Len(<<>>) = 0 /\ 0 # 2
          BY EmptySeq
        <5> QED BY <5>1, <5>2, Zenon
      <4>6. /\ Tail(w) \in Seq(Addresses) /\ Len(Tail(w)) = 1
            /\ \A i \in 1 .. Len(Tail(w)) : Tail(w)[i] = w[i + 1]
        BY <1>1, <1>10, <4>5, HeadTailProperties
      <4>1. Len(v) = 1 /\ DOMAIN v = 1 .. Len(v)
        BY <4>0, <4>6
      <4>7. Tail(w)[1] = w[2]
        <5>1. 1 \in 1 .. Len(Tail(w)) /\ 1 + 1 = 2
          BY <4>6
        <5>2. Tail(w)[1] = w[1 + 1]
          BY <4>6, <5>1, Zenon
        <5> QED BY <5>1, <5>2, Zenon
      <4>2. v[1] = w[2]
        BY <4>0, <4>7, Zenon
      <4>3. DOMAIN v = {1}
        BY <4>1
      <4> QED BY <3>1, <4>2, <4>3
    <3>2. CASE k = 2
      <4>1. v = SubSeq(w, 1, 1)
        BY <1>5, <1>10, <3>2
      <4>2. Len(v) = 1 /\ DOMAIN v = 1 .. Len(v) /\ v[1] = w[1]
        BY <1>1, <1>10, <4>1
      <4> QED BY <3>2, <4>2
    <3> QED BY <1>6, <1>10, <3>1, <3>2
  <2>2. PICK j \in Ids : Owns(j, c) /\ manager[j].address = w[o]
    BY <1>6, <1>10
  <2>3. w[o] # w[k]
    BY <1>6, <1>10, <2>1
  <2>4. j # id /\ Owns(j, c)' /\ manager'[j].address = v[1]
    BY <1>4, <1>6, <2>1, <2>2, <2>3
  <2>5. \A i \in Ids : Owns(i, c)' => i = j
    BY <1>4, <2>4 DEF Ids
  <2> QED BY <2>1, <2>4, <2>5 DEF Ids
<1> QED BY <1>8, <1>9, <1>10

LEMMA RemovedOthers ==
    ASSUME WatchTypeOK, NEW c \in WatchCtxs, NEW d \in WatchCtxs, d # c, OneToOne(d),
           NEW id \in Ids, Owns(id, c),
           manager' = [manager EXCEPT ![id] = Disabled], watched'[d] = watched[d]
    PROVE  OneToOne(d)'
<1>1. \A j \in Ids : /\ Owns(j, d)' <=> Owns(j, d)
                     /\ Owns(j, d) => manager'[j] = manager[j]
  BY DisabledOwnsNothing DEF WatchTypeOK, Owns
<1> QED BY <1>1 DEF OneToOne, Ids

(* The manager's side of a removal that takes an entry in use.              *)
LEMMA RemovedEntry ==
    ASSUME WatchInv, NEW id \in Ids, manager[id] # Disabled, total' = total - 1,
           manager' = [manager EXCEPT ![id] = Disabled],
           registers' = [registers EXCEPT ![id] = Disabled]
    PROVE  /\ manager' \in [Ids -> Entries \cup {Disabled}]
           /\ registers' \in [Ids -> Entries \cup {Disabled}]
           /\ total' \in Int
           /\ asMeant => registers' = manager' /\ total' = Used(0)' + Used(1)'
<1>1. /\ manager' \in [Ids -> Entries \cup {Disabled}]
      /\ registers' \in [Ids -> Entries \cup {Disabled}] /\ total' \in Int
  BY DEF WatchInv, WatchTypeOK
<1>2. asMeant => registers' = manager'
  BY DEF WatchInv
<1>3. asMeant => total' = Used(0)' + Used(1)'
  BY DEF WatchInv, WatchTypeOK, Used, Ids
<1> QED BY <1>1, <1>2, <1>3

LEMMA RemoveStep ==
    ASSUME WatchInv, NEW c \in WatchCtxs, NEW a \in Addresses, NEW kind \in Kinds,
           RemoveWatchpoint(c, a, kind)
    PROVE  WatchInv'
<1> DEFINE id == IdFor(c, a, manager)
<1>1. /\ a \in Watches(c) /\ Found(c, a, manager) # {} /\ manager[id].kind = kind
      /\ registers' = [registers EXCEPT ![id] = Disabled]
      /\ manager' = [manager EXCEPT ![id] = Disabled]
      /\ total' = total - 1
      /\ watched' = [watched EXCEPT ![c] = IF Head(@) = a THEN Tail(@) ELSE SubSeq(@, 1, Len(@) - 1)]
      /\ asMeant' = (asMeant /\ Meant(c, a, manager)) /\ UNCHANGED lockedBy
  BY DEF RemoveWatchpoint
<1>2. id \in Ids /\ manager[id] # Disabled
  BY <1>1 DEF IdFor, Ids, Kinds, Disabled
<1>3. Meant(c, a, manager) => Owns(id, c) /\ manager[id].address = a
  BY DEF Meant, Owns
<1> HIDE DEF id
<1>4. watched[c] \in Seq(Addresses) /\ DOMAIN watched[c] = 1 .. Len(watched[c]) /\ Len(watched[c]) \in Nat
  BY DEF WatchInv, WatchTypeOK
<1>5. PICK k \in DOMAIN watched[c] : watched[c][k] = a
  BY <1>1 DEF Watches
<1>6. watched' \in [WatchCtxs -> Seq(Addresses)]
  <2>1. Tail(watched[c]) \in Seq(Addresses) /\ SubSeq(watched[c], 1, Len(watched[c]) - 1) \in Seq(Addresses)
    BY <1>4, <1>5
  <2> QED BY <1>1, <2>1 DEF WatchInv, WatchTypeOK
<1>7. WatchTypeOK'
  BY <1>1, <1>2, <1>6, RemovedEntry DEF WatchInv, WatchTypeOK
<1>8. ASSUME asMeant' PROVE \A d \in WatchCtxs : OneToOne(d)'
  <2>1. asMeant /\ Owns(id, c) /\ manager[id].address = a /\ \A d \in WatchCtxs : OneToOne(d)
    BY <1>1, <1>3, <1>8 DEF WatchInv
  <2>2. watched' = [watched EXCEPT ![c] = IF k = 1 THEN Tail(@) ELSE SubSeq(@, 1, Len(@) - 1)]
    <3>1. Head(watched[c]) = watched[c][1] /\ 1 \in DOMAIN watched[c]
      BY <1>4, <1>5
    <3>2. Head(watched[c]) = a <=> k = 1
      BY <1>5, <2>1, <3>1 DEF OneToOne
    <3> QED BY <1>1, <3>2
  <2>3. OneToOne(c)'
    BY <1>1, <1>2, <1>5, <2>1, <2>2, RemovedOneToOne DEF WatchInv
  <2>4. ASSUME NEW d \in WatchCtxs, d # c PROVE OneToOne(d)'
    <3>1. watched'[d] = watched[d]
      BY <1>1, <2>4 DEF WatchInv, WatchTypeOK
    <3> QED BY <1>1, <1>2, <2>1, <2>4, <3>1, RemovedOthers DEF WatchInv
  <2> QED BY <2>3, <2>4
<1> QED BY <1>1, <1>2, <1>7, <1>8, RemovedEntry DEF WatchInv

LEMMA DetachStep ==
    ASSUME WatchInv, NEW c \in WatchCtxs, NEW thread \in GdbThreads, DetachWatchpoints(c, thread)
    PROVE  WatchInv'
<1> DEFINE tried == {k \in DOMAIN watched[c] : Found(c, watched[c][k], manager) # {}}
           gone == {IdFor(c, watched[c][k], manager) : k \in {k \in tried : \A j \in tried : k <= j}}
           id == IdFor(c, Head(watched[c]), manager)
<1>1. /\ watched[c] # <<>>
      /\ registers' = [i \in Ids |-> IF i \in gone THEN Disabled ELSE registers[i]]
      /\ manager' = [i \in Ids |-> IF i \in gone THEN Disabled ELSE manager[i]]
      /\ total' = total - Cardinality(gone)
      /\ watched' = [watched EXCEPT ![c] = <<>>]
      /\ asMeant' = (asMeant /\ Len(watched[c]) = 1 /\ Meant(c, Head(watched[c]), manager))
      /\ UNCHANGED lockedBy
  BY DEF DetachWatchpoints
<1>2. gone \subseteq Ids
  BY DEF IdFor, Ids
<1>3. /\ manager' \in [Ids -> Entries \cup {Disabled}] /\ registers' \in [Ids -> Entries \cup {Disabled}]
      /\ watched' \in [WatchCtxs -> Seq(Addresses)] /\ asMeant' \in BOOLEAN
  BY <1>1 DEF WatchInv, WatchTypeOK
<1>4. Cardinality(gone) \in Int
  <2> HIDE DEF gone
  <2>1. Cardinality(gone) = (IF 0 \in gone THEN 1 ELSE 0) + (IF 1 \in gone THEN 1 ELSE 0)
    BY <1>2, PairCardinality
  <2> QED BY <2>1
<1>5. WatchTypeOK'
  BY <1>1, <1>3, <1>4 DEF WatchInv, WatchTypeOK
<1>6. ASSUME asMeant'
      PROVE  /\ registers' = manager' /\ total' = Used(0)' + Used(1)'
             /\ \A d \in WatchCtxs : OneToOne(d)'
  <2>1. /\ asMeant /\ Len(watched[c]) = 1 /\ Owns(id, c)
        /\ manager[id].address = Head(watched[c]) /\ id \in Ids
    BY <1>1, <1>6 DEF Meant, Owns, IdFor, Ids
  <2>2. watched[c] \in Seq(Addresses) /\ DOMAIN watched[c] = {1} /\ Head(watched[c]) = watched[c][1]
    BY <2>1 DEF WatchInv, WatchTypeOK
  <2>3. tried = {1}
    BY <2>1, <2>2 DEF Found, Owns
  <2>4. gone = {id}
    BY <2>2, <2>3
  <2> HIDE DEF gone, id
  <2>5. manager' = [manager EXCEPT ![id] = Disabled] /\ registers' = [registers EXCEPT ![id] = Disabled]
    BY <1>1, <2>1, <2>4 DEF WatchInv, WatchTypeOK
  <2>6. total' = total - 1
    BY <1>1, <2>4, FS_Singleton
  <2>7. manager[id] # Disabled
    BY <2>1, DisabledOwnsNothing DEF Owns
  <2>8. \A d \in WatchCtxs : OneToOne(d)
    BY <2>1 DEF WatchInv
  <2>9. watched' = [watched EXCEPT ![c] = IF 1 = 1 THEN Tail(@) ELSE SubSeq(@, 1, Len(@) - 1)]
    <3> DEFINE w == watched[c]
    <3>1. w \in Seq(Addresses) /\ Len(w) = 1
      BY <2>1, <2>2
    <3> HIDE DEF w
    <3>2. w # <<>>
      <4>1. Len(<<>>) = 0 /\ 0 # 1
        BY EmptySeq
      <4> QED BY <3>1, <4>1, Zenon
    <3>3. Tail(w) \in Seq(Addresses) /\ Len(Tail(w)) = Len(w) - 1
      BY <3>1, <3>2, HeadTailProperties, Zenon
    <3>4. Len(Tail(w)) = 0
      BY <3>1, <3>3
    <3>5. Tail(w) = <<>>
      BY <3>3, <3>4, EmptySeq
    <3>6. watched' = [watched EXCEPT ![c] = Tail(w)]
      BY <1>1, <3>5
    <3> QED BY <3>6 DEF w
  <2>10. OneToOne(c)'
    BY <2>1, <2>2, <2>5, <2>8, <2>9, RemovedOneToOne DEF WatchInv
  <2>11. ASSUME NEW d \in WatchCtxs, d # c PROVE OneToOne(d)'
    <3>1. watched'[d] = watched[d]
      BY <1>1, <2>11 DEF WatchInv, WatchTypeOK
    <3> QED BY <2>1, <2>5, <2>8, <2>11, <3>1, RemovedOthers DEF WatchInv
  <2> QED BY <2>1, <2>5, <2>6, <2>7, <2>10, <2>11, RemovedEntry
<1> QED BY <1>1, <1>5, <1>6 DEF WatchInv

LEMMA WatchStep == WatchInv /\ [WatchpointNext]_wpvars => WatchInv'
<1> SUFFICES ASSUME WatchInv, [WatchpointNext]_wpvars PROVE WatchInv'
  OBVIOUS
<1>1. CASE WatchpointNext
  BY <1>1, RefuseStep, AddStep, RemoveStep, DetachStep DEF WatchpointNext
<1>2. CASE UNCHANGED wpvars
  BY <1>2 DEF wpvars, WatchInv, WatchTypeOK, Used, OneToOne, Owns
<1> QED BY <1>1, <1>2

(* The statement of WatchpointsInv, with its cardinalities.                 *)
LEMMA OneToOneCounts ==
    ASSUME WatchTypeOK, NEW c \in WatchCtxs, OneToOne(c)
    PROVE  LET own == {id \in Ids : manager[id].ctx = c}
           IN  /\ {manager[id].address : id \in own} = Watches(c)
               /\ Cardinality(own) = Len(watched[c])
               /\ Cardinality(own) = Cardinality(Watches(c))
<1> DEFINE own == {id \in Ids : manager[id].ctx = c}
           w == watched[c]
<1>1. w \in Seq(Addresses) /\ Len(w) \in Nat /\ DOMAIN w = 1 .. Len(w)
  BY DEF WatchTypeOK
<1>2. {manager[id].address : id \in own} = Watches(c)
  BY DEF OneToOne, Owns, Watches
<1>3. /\ \A j \in 1 .. Len(w) : \E i \in own : manager[i].address = w[j]
      /\ \A i \in own : \E j \in 1 .. Len(w) : manager[i].address = w[j]
      /\ \A i, j \in 1 .. Len(w) : w[i] = w[j] => i = j
      /\ 0 \in own /\ 1 \in own => manager[0].address # manager[1].address
  BY <1>1 DEF OneToOne, Owns, Ids
<1>4. own \subseteq Ids /\ Watches(c) = {w[k] : k \in 1 .. Len(w)}
  BY <1>1 DEF Watches
<1> HIDE DEF w, own
<1>5. CASE own = {}
  <2>1. Len(w) = 0
    BY <1>1, <1>3, <1>5
  <2>2. Watches(c) = {}
    BY <1>4, <2>1
  <2> QED BY <1>2, <1>5, <2>1, <2>2, FS_EmptySet DEF w, own
<1>6. ASSUME NEW i \in Ids, own = {i} PROVE Len(w) = 1
  <2>1. Len(w) >= 1
    BY <1>1, <1>3, <1>6
  <2>2. Len(w) >= 2 => 1 \in 1 .. Len(w) /\ 2 \in 1 .. Len(w)
    BY <1>1
  <2> QED BY <1>1, <1>3, <1>6, <2>1, <2>2
<1>7. ASSUME NEW i \in Ids, own = {i}
      PROVE  Cardinality(own) = 1 /\ Cardinality(Watches(c)) = 1
  <2>1. Watches(c) = {w[1]}
    BY <1>4, <1>6, <1>7
  <2> QED BY <1>7, <2>1, FS_Singleton
<1>8. ASSUME own = {0, 1} PROVE Len(w) = 2
  <2>1. PICK j \in 1 .. Len(w) : manager[0].address = w[j]
    BY <1>3, <1>8
  <2>2. PICK k \in 1 .. Len(w) : manager[1].address = w[k]
    BY <1>3, <1>8
  <2>3. j # k
    BY <1>3, <1>8, <2>1, <2>2
  <2>4. Len(w) >= 2
    BY <1>1, <2>3
  <2>5. Len(w) >= 3 => 1 \in 1 .. Len(w) /\ 2 \in 1 .. Len(w) /\ 3 \in 1 .. Len(w)
    BY <1>1
  <2>6. \A n \in 1 .. Len(w) : w[n] = manager[0].address \/ w[n] = manager[1].address
    <3>1. SUFFICES ASSUME NEW n \in 1 .. Len(w)
                   PROVE  w[n] = manager[0].address \/ w[n] = manager[1].address
      OBVIOUS
    <3>2. PICK i \in own : manager[i].address = w[n]
      BY <1>3
    <3>3. i = 0 \/ i = 1
      BY <1>8, <3>2
    <3> QED BY <3>2, <3>3
  <2>7. ASSUME Len(w) >= 3 PROVE FALSE
    <3>1. w[1] # w[2] /\ w[1] # w[3] /\ w[2] # w[3]
      BY <1>3, <2>5, <2>7
    <3> QED BY <2>5, <2>6, <2>7, <3>1
  <2> QED BY <1>1, <2>4, <2>7
<1>9. ASSUME own = {0, 1} PROVE Cardinality(own) = 2 /\ Cardinality(Watches(c)) = 2
  <2>1. w[1] # w[2] /\ Watches(c) = {w[1]} \cup {w[2]}
    <3>1. 1 \in 1 .. Len(w) /\ 2 \in 1 .. Len(w)
      BY <1>8, <1>9
    <3>2. w[1] # w[2]
      BY <1>3, <3>1
    <3>3. \A x : x \in Watches(c) <=> x = w[1] \/ x = w[2]
      <4>1. \A n : n \in 1 .. Len(w) <=> n = 1 \/ n = 2
        <5>1. Len(w) = 2
          BY <1>8, <1>9
        <5> QED BY <5>1
      <4> QED BY <1>4, <4>1
    <3> QED BY <3>2, <3>3
  <2>2. IsFiniteSet({w[1]}) /\ Cardinality({w[1]}) = 1
    BY FS_Singleton
  <2>3. Cardinality({w[1]} \cup {w[2]}) = 2
    BY <2>1, <2>2, FS_AddElement
  <2>4. Cardinality(own) = 2
    BY <1>4, <1>9, PairCardinality
  <2> QED BY <2>1, <2>3, <2>4
<1>10. own = {} \/ (\E i \in Ids : own = {i}) \/ own = {0, 1}
  BY <1>4 DEF Ids
<1> QED BY <1>2, <1>5, <1>6, <1>7, <1>8, <1>9, <1>10 DEF w, own

(* WatchpointsInv: the processor watches what the manager has and the       *)
(* contexts believe, each address once, and the lock is free.               *)
THEOREM WatchpointsAgree == WatchpointSpec => []WatchpointsInv
<1>1. WatchInv => WatchpointsInv
  <2> SUFFICES ASSUME WatchInv, asMeant PROVE WatchpointsInv
    BY DEF WatchpointsInv
  <2>1. total = Cardinality({id \in Ids : manager[id] # Disabled})
    <3>1. Cardinality({id \in Ids : manager[id] # Disabled}) = Used(0) + Used(1)
      BY PairCardinality DEF Used, Ids
    <3> QED BY <3>1 DEF WatchInv
  <2> QED BY <2>1, OneToOneCounts DEF WatchInv, WatchpointsInv
<1> QED BY <1>1, WatchInit, WatchStep, PTL DEF WatchpointSpec

-----------------------------------------------------------------------------
(* Induction, for a set of numbers.                                         *)
LEMMA EveryNumber ==
    ASSUME NEW S \in SUBSET Nat, 0 \in S, \A n \in S : n + 1 \in S
    PROVE  \A n \in Nat : n \in S
<1> DEFINE T == Nat \ S
           R == OpToRel(<, Nat)
<1> SUFFICES ASSUME T # {} PROVE FALSE
  OBVIOUS
<1>1. PICK x \in T : \A y \in T : <<y, x>> \notin R
  <2>1. IsWellFoundedOn(R, Nat)  BY NatLessThanWellFounded
  <2>2. T \subseteq Nat  OBVIOUS
  <2> HIDE DEF R, T
  <2>3. QED BY <2>1, <2>2, WFMin
<1>2. x \in Nat /\ x # 0  OBVIOUS
<1>3. x - 1 \in Nat  BY <1>2
<1>4. x - 1 \in S
  <2>1. <<x - 1, x>> \in R  BY <1>2, <1>3 DEF OpToRel
  <2>2. QED BY <1>1, <1>3, <2>1
<1>5. x \in S  BY <1>2, <1>3, <1>4
<1>6. QED BY <1>5

-----------------------------------------------------------------------------
(***************************************************************************)
(* Breakpoints: the search by halving.  Its recursion goes from an         *)
(* interval to a shorter one, so there is a function that solves it, and   *)
(* what is at the ends of the interval stays on both sides of the address. *)
(***************************************************************************)
Slots == 1 .. nbBreakpoints
Pairs == Slots \X Slots
Width(s) == s[2] - s[1]
Half(half, s, address) ==
    IF breakpoints[Middle(s)].address = address THEN Middle(s)
    ELSE IF Narrow(HalfOf(s, address)) THEN HalfOf(s, address)[2]
    ELSE half[HalfOf(s, address)]
Halving(half, address) == half = [s \in Pairs |-> Half(half, s, address)]

(* The middle of an interval, and its half, which is shorter or ends the    *)
(* search.                                                                  *)
LEMMA MiddleIs ==
    ASSUME nbBreakpoints \in Nat, NEW s \in Pairs
    PROVE  /\ s[1] \in Slots /\ s[2] \in Slots /\ Middle(s) \in Slots
           /\ s[1] < s[2] => s[1] <= Middle(s) /\ Middle(s) < s[2]
           /\ 1 < Width(s) => s[1] < Middle(s)
           /\ Width(s) <= 1 => Middle(s) - s[1] <= 1 /\ s[2] - Middle(s) <= 1
<1>1. s[1] \in Slots /\ s[2] \in Slots  BY DEF Pairs
<1>2. ASSUME NEW a \in Nat, NEW b \in Nat
      PROVE  /\ (a + b) \div 2 \in Nat
             /\ 2 * ((a + b) \div 2) <= a + b /\ a + b <= 2 * ((a + b) \div 2) + 1
  OBVIOUS
<1> DEFINE m == Middle(s)
<1>3. m \in Nat /\ 2 * m <= s[1] + s[2] /\ s[1] + s[2] <= 2 * m + 1
  BY <1>1, <1>2 DEF Middle, Slots
<1> HIDE DEF m
<1>4. m \in Slots  BY <1>1, <1>3 DEF Slots
<1>5. QED BY <1>1, <1>3, <1>4 DEF Slots, Width, m

LEMMA HalfIsShorter ==
    ASSUME nbBreakpoints \in Nat, NEW s \in Pairs, NEW address
    PROVE  /\ HalfOf(s, address) \in Pairs
           /\ Narrow(HalfOf(s, address)) \/ Width(HalfOf(s, address)) < Width(s)
           /\ Width(s) \in Int /\ Width(HalfOf(s, address)) \in Int
<1> DEFINE m == Middle(s)
<1>1. /\ s[1] \in Slots /\ s[2] \in Slots /\ m \in Slots
      /\ s[1] < s[2] => s[1] <= m /\ m < s[2]
      /\ 1 < Width(s) => s[1] < m
      /\ Width(s) <= 1 => m - s[1] <= 1 /\ s[2] - m <= 1
  BY MiddleIs
<1>2. HalfOf(s, address) = <<m, s[2]>> \/ HalfOf(s, address) = <<s[1], m>>  BY DEF HalfOf
<1> HIDE DEF m
<1>3. \A a, b \in Slots : a \in Int /\ b \in Int /\ <<a, b>> \in Pairs
                          /\ Width(<<a, b>>) = b - a /\ (Narrow(<<a, b>>) <=> b - a <= 1)
  BY DEF Pairs, Slots, Width, Narrow
<1>4. Width(s) = s[2] - s[1] /\ s[1] \in Int /\ s[2] \in Int /\ m \in Int
  BY <1>1 DEF Width, Slots
<1>5. \A a, b \in Slots : HalfOf(s, address) = <<a, b>> =>
          /\ HalfOf(s, address) \in Pairs /\ Width(HalfOf(s, address)) = b - a
          /\ Narrow(HalfOf(s, address)) <=> b - a <= 1
  BY <1>3
<1>6. CASE HalfOf(s, address) = <<m, s[2]>>
  <2>1. s[2] - m <= 1 \/ s[2] - m < Width(s)
    BY <1>1, <1>4
  <2>2. /\ HalfOf(s, address) \in Pairs /\ Width(HalfOf(s, address)) = s[2] - m
        /\ Narrow(HalfOf(s, address)) <=> s[2] - m <= 1
    BY <1>1, <1>5, <1>6
  <2>3. QED BY <1>4, <2>1, <2>2
<1>7. CASE HalfOf(s, address) = <<s[1], m>>
  <2>1. m - s[1] <= 1 \/ m - s[1] < Width(s)
    BY <1>1, <1>4
  <2>2. /\ HalfOf(s, address) \in Pairs /\ Width(HalfOf(s, address)) = m - s[1]
        /\ Narrow(HalfOf(s, address)) <=> m - s[1] <= 1
    BY <1>1, <1>5, <1>7
  <2>3. QED BY <1>4, <2>1, <2>2
<1>8. QED BY <1>2, <1>6, <1>7

(* There is a function that solves the recursion, first for intervals of at *)
(* most some width, then for all.                                           *)
SolvesUpTo(half, w, address) ==
    \A s \in Pairs : Width(s) <= w => half[s] = Half(half, s, address)

LEMMA HalvingExists ==
    ASSUME nbBreakpoints \in Nat, NEW address
    PROVE  \E half : Halving(half, address)
<1> DEFINE S == {w \in Nat : \E half : SolvesUpTo(half, w, address)}
<1>1. 0 \in S
  <2> DEFINE half == [s \in Pairs |-> IF breakpoints[Middle(s)].address = address
                                      THEN Middle(s) ELSE HalfOf(s, address)[2]]
  <2>1. ASSUME NEW s \in Pairs, Width(s) <= 0 PROVE half[s] = Half(half, s, address)
    <3>1. Narrow(HalfOf(s, address))
      BY <2>1, HalfIsShorter DEF Narrow, Width
    <3>2. QED BY <3>1 DEF Half
  <2> HIDE DEF half
  <2>2. SolvesUpTo(half, 0, address)  BY <2>1 DEF SolvesUpTo
  <2>3. QED BY <2>2
<1>2. ASSUME NEW w \in S PROVE w + 1 \in S
  <2>1. PICK g : SolvesUpTo(g, w, address)  BY <1>2
  <2>2. w \in Nat  BY <1>2
  <2> DEFINE half == [s \in Pairs |-> IF Width(s) <= w THEN g[s] ELSE Half(g, s, address)]
  <2>3. ASSUME NEW s \in Pairs PROVE Width(s) <= w + 1 => half[s] = Half(half, s, address)
    <3> SUFFICES ASSUME Width(s) <= w + 1 PROVE half[s] = Half(half, s, address)
      OBVIOUS
    <3> DEFINE h == HalfOf(s, address)
    <3>1. h \in Pairs /\ (Narrow(h) \/ Width(h) < Width(s)) /\ Width(s) \in Int /\ Width(h) \in Int
      BY HalfIsShorter
    <3>2. Narrow(h) \/ Width(h) <= w  BY <2>2, <3>1
    <3>3. Width(h) <= w => half[h] = g[h]  BY <3>1
    <3>4. half[s] = Half(g, s, address)
      <4>1. CASE Width(s) <= w
        <5>1. half[s] = g[s]  BY <4>1
        <5>2. g[s] = Half(g, s, address)  BY <2>1, <4>1 DEF SolvesUpTo
        <5> HIDE DEF half
        <5>3. QED BY <5>1, <5>2
      <4>2. CASE ~(Width(s) <= w)  BY <4>2
      <4>3. QED BY <4>1, <4>2
    <3> HIDE DEF half
    <3>5. Half(g, s, address) = Half(half, s, address)  BY <3>2, <3>3 DEF Half
    <3>6. QED BY <3>4, <3>5
  <2> HIDE DEF half
  <2>4. SolvesUpTo(half, w + 1, address)  BY <2>3 DEF SolvesUpTo
  <2>5. QED BY <2>2, <2>4
<1>3. nbBreakpoints \in S
  <2>1. S \in SUBSET Nat  OBVIOUS
  <2> HIDE DEF S
  <2>2. \A n \in Nat : n \in S  BY <1>1, <1>2, <2>1, EveryNumber
  <2>3. QED BY <2>2
<1>4. PICK g : SolvesUpTo(g, nbBreakpoints, address)  BY <1>3
<1> DEFINE half == [s \in Pairs |-> g[s]]
<1>5. ASSUME NEW s \in Pairs PROVE half[s] = Half(half, s, address)
  <2>1. Width(s) <= nbBreakpoints
    <3>1. s[1] \in 1 .. nbBreakpoints /\ s[2] \in 1 .. nbBreakpoints  BY DEF Pairs, Slots
    <3>2. QED BY <3>1 DEF Width
  <2>2. g[s] = Half(g, s, address)  BY <1>4, <2>1 DEF SolvesUpTo
  <2>3. HalfOf(s, address) \in Pairs  BY HalfIsShorter
  <2>4. half[HalfOf(s, address)] = g[HalfOf(s, address)] /\ half[s] = g[s]  BY <2>3
  <2> HIDE DEF half
  <2>5. QED BY <2>2, <2>4 DEF Half
<1>6. half = [s \in Pairs |-> half[s]]  OBVIOUS
<1> HIDE DEF half
<1>7. half = [s \in Pairs |-> Half(half, s, address)]  BY <1>5, <1>6
<1>8. QED BY <1>7 DEF Halving

-----------------------------------------------------------------------------
BkEntries == [address : Halves, instructionSize : {1, 2}, persistent : BOOLEAN,
              savedInstruction : Seq(Nat)]
TableOK == breakpoints \in Seq(BkEntries)
Address(k) == breakpoints[k].address
Sorted == \A j, k \in Slots : j < k => Address(j) < Address(k)

LEMMA TableFacts ==
    ASSUME TableOK
    PROVE  /\ nbBreakpoints \in Nat /\ DOMAIN breakpoints = Slots
           /\ \A k \in Slots : breakpoints[k] \in BkEntries /\ Address(k) \in Nat
<1>1. nbBreakpoints \in Nat /\ DOMAIN breakpoints = Slots
  BY LenProperties DEF TableOK, nbBreakpoints, Slots
<1>2. \A k \in Slots : breakpoints[k] \in BkEntries
  BY ElementOfSeq DEF TableOK, nbBreakpoints, Slots
<1>3. \A b \in BkEntries : b.address \in Nat  BY BreakpointAssumption DEF BkEntries, Halves, BreakpointAssumption
<1>4. QED BY <1>1, <1>2, <1>3 DEF Address

(* From an interval that begins before the address and does not end before  *)
(* it, the search comes to the first entry that is not before it.           *)
First(k, address) == k \in Slots /\ k - 1 \in Slots /\ Address(k - 1) < address /\ address <= Address(k)
Encloses(s, address) == Address(s[1]) < address /\ address <= Address(s[2])

LEMMA HalvingFinds ==
    ASSUME TableOK, Sorted, NEW address \in Nat, NEW half, Halving(half, address),
           NEW r \in Pairs, Encloses(r, address)
    PROVE  First(half[r], address)
<1> DEFINE S == {w \in Nat : \A s \in Pairs : Encloses(s, address) /\ Width(s) <= w
                                               => First(half[s], address)}
<1>1. /\ nbBreakpoints \in Nat
      /\ \A k \in Slots : k \in Nat /\ Address(k) \in Nat
  BY TableFacts DEF Slots
<1>2. ASSUME NEW s \in Pairs, Encloses(s, address)
      PROVE  /\ s[1] \in Slots /\ s[2] \in Slots /\ s[1] < s[2] /\ Middle(s) \in Slots
             /\ s[1] <= Middle(s) /\ Middle(s) < s[2] /\ (Middle(s) = s[1] => Width(s) <= 1)
             /\ Width(s) \in Nat /\ Width(s) = s[2] - s[1] /\ 0 < Width(s)
  <2>1. s[1] \in Slots /\ s[2] \in Slots /\ Middle(s) \in Slots  BY <1>1, MiddleIs
  <2>2. s[1] < s[2]
    <3>1. s[1] = s[2] \/ s[1] < s[2] \/ s[2] < s[1]  BY <1>1, <2>1
    <3>2. QED BY <1>1, <1>2, <2>1, <3>1 DEF Encloses, Sorted
  <2>3. Width(s) = s[2] - s[1] /\ Width(s) \in Nat /\ 0 < Width(s)  BY <1>1, <2>1, <2>2 DEF Width
  <2>4. Middle(s) = s[1] => Width(s) <= 1
    <3>1. 1 < Width(s) => s[1] < Middle(s)  BY <1>1, MiddleIs
    <3>2. QED BY <1>1, <2>1, <2>3, <3>1
  <2>5. s[1] <= Middle(s) /\ Middle(s) < s[2]  BY <1>1, <2>2, MiddleIs
  <2>6. QED BY <2>1, <2>2, <2>3, <2>4, <2>5
<1>3. ASSUME NEW s \in Pairs, Encloses(s, address), NEW w \in Nat, Width(s) <= w + 1,
             w = 0 \/ w \in S
      PROVE  First(half[s], address)
  <2> DEFINE m == Middle(s)
             h == HalfOf(s, address)
  <2>1. /\ s[1] \in Slots /\ s[2] \in Slots /\ s[1] < s[2] /\ m \in Slots
        /\ s[1] <= m /\ m < s[2] /\ m \in Nat /\ s[1] \in Nat /\ s[2] \in Nat
        /\ Width(s) \in Nat /\ Width(s) = s[2] - s[1]
    BY <1>1, <1>2, <1>3
  <2>2. half[s] = Half(half, s, address)  BY DEF Halving
  <2>3. CASE Address(m) = address
    <3>1. half[s] = m  BY <2>2, <2>3 DEF Half, Address
    <3>2. s[1] # m  BY <1>1, <1>3, <2>1, <2>3 DEF Encloses
    <3>3. m - 1 \in Slots /\ m - 1 < m  BY <1>1, <2>1, <3>2 DEF Slots
    <3>4. Address(m - 1) < address  BY <2>1, <2>3, <3>3 DEF Sorted
    <3>5. address <= Address(m)  BY <1>1, <2>1, <2>3
    <3>6. QED BY <2>1, <3>1, <3>3, <3>4, <3>5 DEF First
  <2>4. CASE Address(m) # address
    <3>1. half[s] = IF Narrow(h) THEN h[2] ELSE half[h]  BY <2>2, <2>4 DEF Half, Address
    <3>2. h \in Pairs /\ (Narrow(h) \/ Width(h) < Width(s)) /\ Width(h) \in Int
      BY <1>1, HalfIsShorter
    <3>3. h = IF Address(m) < address THEN <<m, s[2]>> ELSE <<s[1], m>>
      BY DEF HalfOf, Address
    <3>4. Encloses(h, address)
      <4>1. CASE Address(m) < address  BY <1>3, <3>3, <4>1 DEF Encloses
      <4>2. CASE ~(Address(m) < address)
        <5>1. address <= Address(m)  BY <1>1, <2>1, <4>2
        <5>2. QED BY <1>3, <3>3, <4>2, <5>1 DEF Encloses
      <4>3. QED BY <4>1, <4>2
    <3>5. CASE Narrow(h)
      <4>1. h[1] \in Slots /\ h[2] \in Slots /\ h[1] < h[2] /\ h[2] - h[1] <= 1
        BY <1>2, <3>2, <3>4, <3>5 DEF Narrow
      <4>2. h[2] - 1 = h[1]  BY <1>1, <4>1
      <4>3. QED BY <3>1, <3>4, <3>5, <4>1, <4>2 DEF First, Encloses
    <3>6. CASE ~Narrow(h)
      <4>1. Width(h) < Width(s) /\ 0 < Width(h) /\ Width(h) \in Nat  BY <1>2, <3>2, <3>4, <3>6
      <4>2. w # 0 /\ Width(h) <= w  BY <1>3, <2>1, <4>1
      <4>3. First(half[h], address)  BY <1>3, <3>2, <3>4, <4>2
      <4>4. QED BY <3>1, <3>6, <4>3
    <3>7. QED BY <3>5, <3>6
  <2>5. QED BY <2>3, <2>4
<1>4. 0 \in S
  <2>1. \A s \in Pairs : Encloses(s, address) /\ Width(s) <= 0 + 1 => First(half[s], address)
    BY <1>3
  <2>2. \A s \in Pairs : Encloses(s, address) => ~(Width(s) <= 0)  BY <1>2
  <2>3. QED BY <2>2
<1>5. ASSUME NEW w \in S PROVE w + 1 \in S
  <2>1. w \in Nat /\ w + 1 \in Nat  BY <1>5
  <2>2. \A s \in Pairs : Encloses(s, address) /\ Width(s) <= w + 1 => First(half[s], address)
    BY <1>3, <1>5, <2>1
  <2>3. QED BY <2>1, <2>2
<1>6. Width(r) \in S
  <2>1. S \in SUBSET Nat  OBVIOUS
  <2>2. Width(r) \in Nat  BY <1>2
  <2> HIDE DEF S
  <2>3. \A n \in Nat : n \in S  BY <1>4, <1>5, <2>1, EveryNumber
  <2>4. QED BY <2>2, <2>3
<1>7. Width(r) <= Width(r)  BY <1>2
<1>8. QED BY <1>6, <1>7

(* The slot of an address: what is before it has a smaller one.             *)
LEMMA ClosestIs ==
    ASSUME TableOK, Sorted, NEW address \in Nat
    PROVE  LET slot == FindClosestBreakpointSlot(address)
           IN  /\ slot \in 1 .. nbBreakpoints + 1
               /\ \A k \in Slots : Address(k) < address <=> k < slot
<1> DEFINE half == CHOOSE half : Halving(half, address)
           slot == FindClosestBreakpointSlot(address)
<1>1. /\ nbBreakpoints \in Nat
      /\ \A k \in Slots : k \in Nat /\ Address(k) \in Nat
  BY TableFacts DEF Slots
<1>2. Halving(half, address)  BY <1>1, HalvingExists
<1>3. slot = IF nbBreakpoints = 0 \/ address <= Address(1) THEN 1
             ELSE IF address > Address(nbBreakpoints) THEN nbBreakpoints + 1
             ELSE half[<<1, nbBreakpoints>>]
  BY DEF FindClosestBreakpointSlot, Halving, Half, Pairs, Slots, Address
<1> HIDE DEF half, slot
<1>4. CASE nbBreakpoints = 0
  BY <1>3, <1>4 DEF Slots, slot
<1>5. CASE nbBreakpoints # 0 /\ address <= Address(1)
  <2>1. 1 \in Slots /\ slot = 1  BY <1>1, <1>3, <1>5 DEF Slots
  <2>2. ASSUME NEW k \in Slots PROVE ~(Address(k) < address) /\ ~(k < 1)
    <3>1. k = 1 \/ 1 < k  BY <1>1 DEF Slots
    <3>2. 1 < k => Address(1) < Address(k)  BY <2>1 DEF Sorted
    <3>3. Address(k) \in Nat /\ Address(1) \in Nat /\ k \in Nat  BY <1>1, <2>1
    <3>4. QED BY <1>5, <3>1, <3>2, <3>3
  <2>3. QED BY <1>1, <2>1, <2>2 DEF slot
<1>6. CASE nbBreakpoints # 0 /\ ~(address <= Address(1)) /\ address > Address(nbBreakpoints)
  <2>1. nbBreakpoints \in Slots /\ slot = nbBreakpoints + 1  BY <1>1, <1>3, <1>6 DEF Slots
  <2>2. ASSUME NEW k \in Slots PROVE Address(k) < address /\ k < nbBreakpoints + 1
    <3>1. k = nbBreakpoints \/ k < nbBreakpoints  BY <1>1 DEF Slots
    <3>2. k < nbBreakpoints => Address(k) < Address(nbBreakpoints)  BY <2>1 DEF Sorted
    <3>3. Address(k) \in Nat /\ Address(nbBreakpoints) \in Nat /\ k \in Nat  BY <1>1, <2>1
    <3>4. QED BY <1>1, <1>6, <3>1, <3>2, <3>3
  <2>3. QED BY <1>1, <2>1, <2>2 DEF slot
<1>7. CASE nbBreakpoints # 0 /\ ~(address <= Address(1)) /\ ~(address > Address(nbBreakpoints))
  <2> DEFINE whole == <<1, nbBreakpoints>>
  <2>1. 1 \in Slots /\ nbBreakpoints \in Slots  BY <1>1, <1>7 DEF Slots
  <2>2. whole \in Pairs  BY <2>1 DEF Pairs
  <2>3. Address(1) < address /\ address <= Address(nbBreakpoints)  BY <1>1, <1>7, <2>1
  <2>4. Encloses(whole, address)  BY <2>3 DEF Encloses
  <2>5. slot = half[whole]  BY <1>3, <1>7
  <2> HIDE DEF whole
  <2>6. First(slot, address)  BY <1>2, <2>2, <2>4, <2>5, HalvingFinds
  <2>7. slot \in Slots /\ slot - 1 \in Slots /\ Address(slot - 1) < address /\ address <= Address(slot)
    BY <2>6 DEF First
  <2>8. ASSUME NEW k \in Slots PROVE Address(k) < address <=> k < slot
    <3>1. k = slot \/ k = slot - 1 \/ slot < k \/ k < slot - 1  BY <1>1, <2>7 DEF Slots
    <3>2. slot < k => Address(slot) < Address(k)  BY <2>7 DEF Sorted
    <3>3. k < slot - 1 => Address(k) < Address(slot - 1)  BY <2>7 DEF Sorted
    <3>4. /\ Address(k) \in Nat /\ Address(slot) \in Nat /\ Address(slot - 1) \in Nat
          /\ k \in Nat /\ slot \in Nat
      BY <1>1, <2>7
    <3>5. QED BY <2>7, <3>1, <3>2, <3>3, <3>4
  <2>9. slot \in 1 .. nbBreakpoints + 1  BY <1>1, <2>7 DEF Slots
  <2>10. QED BY <2>8, <2>9 DEF slot
<1>8. QED BY <1>4, <1>5, <1>6, <1>7

LEMMA HasIs ==
    ASSUME TableOK, Sorted, NEW address \in Nat
    PROVE  Has(address) <=> \E k \in Slots : Address(k) = address
<1> DEFINE slot == FindClosestBreakpointSlot(address)
<1>1. slot \in 1 .. nbBreakpoints + 1 /\ \A k \in Slots : Address(k) < address <=> k < slot
  BY ClosestIs
<1>2. Has(address) <=> slot <= nbBreakpoints /\ Address(slot) = address
  BY DEF Has, Address
<1>3. nbBreakpoints \in Nat /\ \A k \in Slots : k \in Nat /\ Address(k) \in Nat
  BY TableFacts DEF Slots
<1> HIDE DEF slot
<1>4. Has(address) => \E k \in Slots : Address(k) = address  BY <1>1, <1>2, <1>3 DEF Slots
<1>5. ASSUME NEW k \in Slots, Address(k) = address PROVE Has(address)
  <2>1. slot \in Nat /\ slot <= k  BY <1>1, <1>3, <1>5
  <2>2. slot \in Slots  BY <1>1, <1>3, <2>1 DEF Slots
  <2>3. ~(Address(slot) < address)  BY <1>1, <2>1, <2>2
  <2>4. slot < k => Address(slot) < Address(k)  BY <2>2 DEF Sorted
  <2>5. slot = k  BY <1>3, <1>5, <2>1, <2>3, <2>4
  <2>6. QED BY <1>2, <1>3, <1>5, <2>5 DEF Slots
<1>6. QED BY <1>4, <1>5

-----------------------------------------------------------------------------
(* A sequence with an element inserted, and one removed.                    *)
IsInserted(t, s, i, e) ==
    /\ Len(t) = Len(s) + 1
    /\ \A j \in 1 .. Len(s) + 1 : t[j] = IF j < i THEN s[j] ELSE IF j = i THEN e ELSE s[j - 1]
IsRemoved(t, s, i) ==
    /\ Len(t) = Len(s) - 1
    /\ \A j \in 1 .. Len(s) - 1 : t[j] = IF j < i THEN s[j] ELSE s[j + 1]

LEMMA InsertIs ==
    ASSUME NEW S, NEW s \in Seq(S), NEW e \in S, NEW i \in 1 .. Len(s) + 1
    PROVE  InsertAt(s, i, e) \in Seq(S) /\ IsInserted(InsertAt(s, i, e), s, i, e)
<1> DEFINE n == Len(s)
           a == SubSeq(s, 1, i - 1)
           b == SubSeq(s, i, n)
           c == a \o <<e>>
<1>1. n \in Nat /\ i \in Nat /\ \A k \in 1 .. n : s[k] \in S  BY LenProperties, ElementOfSeq
<1> HIDE DEF n
<1>2. a \in Seq(S) /\ Len(a) = i - 1 /\ \A j \in 1 .. i - 1 : a[j] = s[j]
  <2>1. \A k \in 1 .. i - 1 : s[k] \in S  BY <1>1 DEF n
  <2>2. /\ a \in Seq(S) /\ Len(a) = IF 1 <= i - 1 THEN (i - 1) - 1 + 1 ELSE 0
        /\ \A j \in 1 .. (i - 1) - 1 + 1 : a[j] = s[1 + j - 1]
    BY <1>1, <2>1, SubSeqProperties
  <2> HIDE DEF a
  <2>3. (i - 1) - 1 + 1 = i - 1 /\ \A j \in 1 .. i - 1 : 1 + j - 1 = j  BY <1>1
  <2>4. QED BY <1>1, <2>2, <2>3
<1>3. b \in Seq(S) /\ Len(b) = n - i + 1 /\ \A j \in 1 .. n - i + 1 : b[j] = s[i + j - 1]
  <2>1. \A k \in i .. n : s[k] \in S  BY <1>1
  <2>2. /\ b \in Seq(S) /\ Len(b) = IF i <= n THEN n - i + 1 ELSE 0
        /\ \A j \in 1 .. n - i + 1 : b[j] = s[i + j - 1]
    BY <1>1, <2>1, SubSeqProperties
  <2>3. i <= n + 1  BY <1>1 DEF n
  <2> HIDE DEF b
  <2>4. QED BY <1>1, <2>2, <2>3
<1> HIDE DEF a, b
<1>4. <<e>> \in Seq(S) /\ Len(<<e>>) = 1 /\ <<e>>[1] = e  OBVIOUS
<1>5. c \in Seq(S) /\ Len(c) = i /\ \A j \in 1 .. i : c[j] = IF j < i THEN s[j] ELSE e
  <2>1. /\ c \in Seq(S) /\ Len(c) = Len(a) + Len(<<e>>)
        /\ \A j \in 1 .. Len(a) + Len(<<e>>) : c[j] = IF j <= Len(a) THEN a[j] ELSE <<e>>[j - Len(a)]
    BY <1>2, <1>4, ConcatProperties
  <2> HIDE DEF c
  <2>2. Len(a) + Len(<<e>>) = i  BY <1>1, <1>2, <1>4
  <2>3. ASSUME NEW j \in 1 .. i PROVE c[j] = IF j < i THEN s[j] ELSE e
    <3>1. c[j] = IF j <= i - 1 THEN a[j] ELSE <<e>>[j - (i - 1)]  BY <1>2, <2>1, <2>2
    <3>2. CASE j < i
      <4>1. j <= i - 1 /\ j \in 1 .. i - 1  BY <1>1, <3>2
      <4>2. QED BY <1>2, <3>1, <3>2, <4>1
    <3>3. CASE ~(j < i)
      <4>1. ~(j <= i - 1) /\ j - (i - 1) = 1  BY <1>1, <3>3
      <4>2. QED BY <1>4, <3>1, <3>3, <4>1
    <3>4. QED BY <3>2, <3>3
  <2>4. QED BY <2>1, <2>2, <2>3
<1>6. InsertAt(s, i, e) = c \o b  BY DEF InsertAt, a, b, n
<1> HIDE DEF c
<1> DEFINE t == c \o b
<1>7. /\ t \in Seq(S) /\ Len(t) = Len(c) + Len(b)
      /\ \A j \in 1 .. Len(c) + Len(b) : t[j] = IF j <= Len(c) THEN c[j] ELSE b[j - Len(c)]
  BY <1>3, <1>5, ConcatProperties
<1> HIDE DEF t
<1>8. Len(c) + Len(b) = n + 1  BY <1>1, <1>3, <1>5
<1>9. ASSUME NEW j \in 1 .. n + 1
      PROVE  t[j] = IF j < i THEN s[j] ELSE IF j = i THEN e ELSE s[j - 1]
  <2>1. t[j] = IF j <= i THEN c[j] ELSE b[j - i]  BY <1>5, <1>7, <1>8
  <2>2. CASE j <= i
    <3>1. j \in 1 .. i  BY <1>1, <2>2
    <3>2. c[j] = IF j < i THEN s[j] ELSE e  BY <1>5, <3>1
    <3>3. QED BY <1>1, <2>1, <2>2, <3>1, <3>2
  <2>3. CASE ~(j <= i)
    <3>1. j - i \in 1 .. n - i + 1 /\ i + (j - i) - 1 = j - 1 /\ ~(j < i) /\ j # i  BY <1>1, <2>3
    <3>2. b[j - i] = s[i + (j - i) - 1]  BY <1>3, <3>1
    <3>3. QED BY <2>1, <2>3, <3>1, <3>2
  <2>4. QED BY <2>2, <2>3
<1>10. QED BY <1>6, <1>7, <1>8, <1>9 DEF n, t, IsInserted

LEMMA RemoveIs ==
    ASSUME NEW S, NEW s \in Seq(S), NEW i \in 1 .. Len(s)
    PROVE  RemoveAt(s, i) \in Seq(S) /\ IsRemoved(RemoveAt(s, i), s, i)
<1> DEFINE n == Len(s)
           a == SubSeq(s, 1, i - 1)
           b == SubSeq(s, i + 1, n)
<1>1. n \in Nat /\ i \in Nat /\ i <= n /\ \A k \in 1 .. n : s[k] \in S  BY LenProperties, ElementOfSeq
<1>2. a \in Seq(S) /\ Len(a) = i - 1 /\ \A j \in 1 .. i - 1 : a[j] = s[j]
  <2>1. \A k \in 1 .. i - 1 : s[k] \in S  BY <1>1
  <2>2. /\ a \in Seq(S) /\ Len(a) = IF 1 <= i - 1 THEN (i - 1) - 1 + 1 ELSE 0
        /\ \A j \in 1 .. (i - 1) - 1 + 1 : a[j] = s[1 + j - 1]
    BY <1>1, <2>1, SubSeqProperties
  <2> HIDE DEF a, n
  <2>3. (i - 1) - 1 + 1 = i - 1 /\ \A j \in 1 .. i - 1 : 1 + j - 1 = j  BY <1>1
  <2>4. QED BY <1>1, <2>2, <2>3
<1>3. b \in Seq(S) /\ Len(b) = n - i /\ \A j \in 1 .. n - i : b[j] = s[i + j]
  <2>1. \A k \in i + 1 .. n : s[k] \in S  BY <1>1
  <2>2. /\ b \in Seq(S) /\ Len(b) = IF i + 1 <= n THEN n - (i + 1) + 1 ELSE 0
        /\ \A j \in 1 .. n - (i + 1) + 1 : b[j] = s[(i + 1) + j - 1]
    BY <1>1, <2>1, SubSeqProperties
  <2> HIDE DEF b, n
  <2>3. n - (i + 1) + 1 = n - i  BY <1>1
  <2>4. (IF i + 1 <= n THEN n - i ELSE 0) = n - i  BY <1>1
  <2>5. ASSUME NEW j \in 1 .. n - i PROVE b[j] = s[i + j]
    <3>1. (i + 1) + j - 1 = i + j  BY <1>1
    <3>2. QED BY <2>2, <2>3, <3>1
  <2>6. QED BY <2>2, <2>3, <2>4, <2>5
<1>4. RemoveAt(s, i) = a \o b  BY DEF RemoveAt
<1> HIDE DEF a, b, n
<1> DEFINE t == a \o b
<1>5. /\ t \in Seq(S) /\ Len(t) = Len(a) + Len(b)
      /\ \A j \in 1 .. Len(a) + Len(b) : t[j] = IF j <= Len(a) THEN a[j] ELSE b[j - Len(a)]
  BY <1>2, <1>3, ConcatProperties
<1> HIDE DEF t
<1>6. Len(a) + Len(b) = n - 1  BY <1>1, <1>2, <1>3
<1>7. ASSUME NEW j \in 1 .. n - 1 PROVE t[j] = IF j < i THEN s[j] ELSE s[j + 1]
  <2>1. t[j] = IF j <= i - 1 THEN a[j] ELSE b[j - (i - 1)]  BY <1>2, <1>5, <1>6
  <2>2. CASE j < i
    <3>1. j <= i - 1 /\ j \in 1 .. i - 1  BY <1>1, <2>2
    <3>2. QED BY <1>2, <2>1, <2>2, <3>1
  <2>3. CASE ~(j < i)
    <3>1. ~(j <= i - 1) /\ j - (i - 1) \in 1 .. n - i /\ i + (j - (i - 1)) = j + 1  BY <1>1, <2>3
    <3>2. b[j - (i - 1)] = s[i + (j - (i - 1))]  BY <1>3, <3>1
    <3>3. QED BY <2>1, <2>3, <3>1, <3>2
  <2>4. QED BY <2>2, <2>3
<1>8. QED BY <1>4, <1>5, <1>6, <1>7 DEF n, t, IsRemoved

-----------------------------------------------------------------------------
(***************************************************************************)
(* The invariant: no two breakpoints have an instruction in common, each   *)
(* keeps the code it stands for, and what the memory shows is the code     *)
(* wherever there is none.                                                 *)
(***************************************************************************)
CodeOf(b, h) == b.savedInstruction[h - b.address + 1]
Fitting(b) == SpanOf(b) \subseteq Halves /\ Len(b.savedInstruction) = b.instructionSize
CoveredBy(t) == UNION {SpanOf(t[k]) : k \in 1 .. Len(t)}
Apart(t) == \A j, k \in 1 .. Len(t) : j # k => SpanOf(t[j]) \cap SpanOf(t[k]) = {}
Keeps(b, left) == \A h \in SpanOf(b) : h \in left <=> CodeOf(b, h) # h
AllKeep(t, left) == \A k \in 1 .. Len(t) : Fitting(t[k]) /\ Keeps(t[k], left)
Shows(t, mem, left) == \A h \in Halves : h \in CoveredBy(t) \cup left <=> mem[h] # h

TableInv == /\ TableOK /\ Sorted /\ Apart(breakpoints) /\ AllKeep(breakpoints, kept)
            /\ memory \in [Halves -> Nat] /\ Shows(breakpoints, memory, kept)

LEMMA EntryFacts ==
    ASSUME NEW b \in BkEntries
    PROVE  /\ b.address \in Nat /\ b.address \in Halves /\ b.instructionSize \in {1, 2}
           /\ b.savedInstruction \in Seq(Nat)
           /\ \A h : h \in SpanOf(b) <=> /\ h \in Int /\ b.address <= h
                                         /\ h <= b.address + b.instructionSize - 1
           /\ b.address \in SpanOf(b)
<1>1. /\ b.address \in Nat /\ b.address \in Halves /\ b.instructionSize \in {1, 2}
      /\ b.savedInstruction \in Seq(Nat)
  BY BreakpointAssumption DEF BkEntries, Halves, BreakpointAssumption
<1>2. QED BY <1>1 DEF SpanOf, Span

(* What Written leaves in the memory.                                       *)
LEMMA WrittenIs ==
    ASSUME NEW b \in BkEntries, NEW code \in Seq(Nat), Len(code) = b.instructionSize,
           memory \in [Halves -> Nat]
    PROVE  /\ Written(b.address, code) \in [Halves -> Nat]
           /\ \A h \in Halves : Written(b.address, code)[h] =
                 IF h \in SpanOf(b) THEN code[h - b.address + 1] ELSE memory[h]
<1>1. Span(b.address, Len(code)) = SpanOf(b)  BY DEF SpanOf
<1>2. ASSUME NEW h \in SpanOf(b) PROVE code[h - b.address + 1] \in Nat
  <2>1. h - b.address + 1 \in 1 .. Len(code)  BY <1>2, EntryFacts
  <2>2. QED BY <2>1, ElementOfSeq
<1>3. QED BY <1>1, <1>2 DEF Written

(* A breakpoint that is apart from the others joins them.                   *)
LEMMA JoinKeeps ==
    ASSUME NEW s \in Seq(BkEntries), NEW b \in BkEntries, NEW i \in 1 .. Len(s) + 1, NEW left,
           Apart(s), AllKeep(s, left), Fitting(b), Keeps(b, left),
           \A k \in 1 .. Len(s) : SpanOf(s[k]) \cap SpanOf(b) = {}
    PROVE  LET t == InsertAt(s, i, b)
           IN  /\ t \in Seq(BkEntries) /\ Apart(t) /\ AllKeep(t, left)
               /\ CoveredBy(t) = CoveredBy(s) \cup SpanOf(b)
<1> DEFINE t == InsertAt(s, i, b)
           from(j) == IF j < i THEN j ELSE j - 1
<1>1. Len(s) \in Nat /\ i \in Nat  BY LenProperties
<1>2. /\ t \in Seq(BkEntries) /\ Len(t) = Len(s) + 1
      /\ \A j \in 1 .. Len(s) + 1 : t[j] = IF j < i THEN s[j] ELSE IF j = i THEN b ELSE s[j - 1]
  <2>1. t \in Seq(BkEntries) /\ IsInserted(t, s, i, b)  BY InsertIs
  <2> HIDE DEF t
  <2>2. QED BY <2>1 DEF IsInserted
<1> HIDE DEF t
<1>3. ASSUME NEW j \in 1 .. Len(t), j # i
      PROVE  from(j) \in 1 .. Len(s) /\ t[j] = s[from(j)]
  BY <1>1, <1>2, <1>3
<1>4. i \in 1 .. Len(t) /\ t[i] = b  BY <1>1, <1>2
<1>5. ASSUME NEW j \in 1 .. Len(t), NEW k \in 1 .. Len(t), j # i, k # i, j # k
      PROVE  from(j) # from(k)
  BY <1>1, <1>2, <1>5
<1>6. \A j \in 1 .. Len(s) : \E k \in 1 .. Len(t) : t[k] = s[j]
  <2>1. TAKE j \in 1 .. Len(s)
  <2>2. CASE j < i  BY <1>1, <1>2, <2>2
  <2>3. CASE ~(j < i)
    <3>1. j + 1 \in 1 .. Len(s) + 1 /\ ~(j + 1 < i) /\ j + 1 # i /\ (j + 1) - 1 = j
      BY <1>1, <2>3
    <3>2. QED BY <1>2, <3>1
  <2>4. QED BY <2>2, <2>3
<1> HIDE DEF from
<1>7. Apart(t)
  <2>1. ASSUME NEW j \in 1 .. Len(t), NEW k \in 1 .. Len(t), j # k
        PROVE  SpanOf(t[j]) \cap SpanOf(t[k]) = {}
    <3>1. CASE j = i  BY <1>3, <1>4, <2>1, <3>1
    <3>2. CASE k = i  BY <1>3, <1>4, <2>1, <3>2
    <3>3. CASE j # i /\ k # i  BY <1>3, <1>5, <2>1, <3>3 DEF Apart
    <3>4. QED BY <3>1, <3>2, <3>3
  <2>2. QED BY <2>1 DEF Apart
<1>8. AllKeep(t, left)
  <2>1. ASSUME NEW j \in 1 .. Len(t) PROVE Fitting(t[j]) /\ Keeps(t[j], left)
    BY <1>3, <1>4 DEF AllKeep
  <2>2. QED BY <2>1 DEF AllKeep
<1>9. CoveredBy(t) = CoveredBy(s) \cup SpanOf(b)
  <2>1. ASSUME NEW h \in CoveredBy(t) PROVE h \in CoveredBy(s) \cup SpanOf(b)
    <3>1. PICK j \in 1 .. Len(t) : h \in SpanOf(t[j])  BY <2>1 DEF CoveredBy
    <3>2. QED BY <1>3, <1>4, <3>1 DEF CoveredBy
  <2>2. ASSUME NEW h \in CoveredBy(s) PROVE h \in CoveredBy(t)
    <3>1. PICK j \in 1 .. Len(s) : h \in SpanOf(s[j])  BY <2>2 DEF CoveredBy
    <3>2. QED BY <1>6, <3>1 DEF CoveredBy
  <2>3. SpanOf(b) \subseteq CoveredBy(t)  BY <1>4 DEF CoveredBy
  <2>4. QED BY <2>1, <2>2, <2>3
<1>10. QED BY <1>2, <1>7, <1>8, <1>9 DEF t

(* And one of them leaves.                                                  *)
LEMMA LeaveKeeps ==
    ASSUME NEW s \in Seq(BkEntries), NEW i \in 1 .. Len(s), NEW left, Apart(s), AllKeep(s, left)
    PROVE  LET t == RemoveAt(s, i)
           IN  /\ t \in Seq(BkEntries) /\ Apart(t) /\ AllKeep(t, left)
               /\ CoveredBy(t) = CoveredBy(s) \ SpanOf(s[i])
<1> DEFINE t == RemoveAt(s, i)
           from(j) == IF j < i THEN j ELSE j + 1
<1>1. Len(s) \in Nat /\ i \in Nat  BY LenProperties
<1>2. /\ t \in Seq(BkEntries) /\ Len(t) = Len(s) - 1
      /\ \A j \in 1 .. Len(s) - 1 : t[j] = IF j < i THEN s[j] ELSE s[j + 1]
  <2>1. t \in Seq(BkEntries) /\ IsRemoved(t, s, i)  BY RemoveIs
  <2> HIDE DEF t
  <2>2. QED BY <2>1 DEF IsRemoved
<1> HIDE DEF t
<1>3. ASSUME NEW j \in 1 .. Len(t)
      PROVE  from(j) \in 1 .. Len(s) /\ t[j] = s[from(j)] /\ from(j) # i
  BY <1>1, <1>2
<1>4. ASSUME NEW j \in 1 .. Len(t), NEW k \in 1 .. Len(t), j # k PROVE from(j) # from(k)
  BY <1>1, <1>2, <1>4
<1>5. ASSUME NEW j \in 1 .. Len(s), j # i PROVE \E k \in 1 .. Len(t) : t[k] = s[j]
  <2>1. CASE j < i
    <3>1. j \in 1 .. Len(s) - 1  BY <1>1, <2>1
    <3>2. QED BY <1>2, <2>1, <3>1
  <2>2. CASE ~(j < i)
    <3>1. j - 1 \in 1 .. Len(s) - 1 /\ ~(j - 1 < i) /\ (j - 1) + 1 = j  BY <1>1, <1>5, <2>2
    <3>2. QED BY <1>2, <3>1
  <2>3. QED BY <2>1, <2>2
<1> HIDE DEF from
<1>6. Apart(t)
  <2>1. ASSUME NEW j \in 1 .. Len(t), NEW k \in 1 .. Len(t), j # k
        PROVE  SpanOf(t[j]) \cap SpanOf(t[k]) = {}
    BY <1>3, <1>4, <2>1 DEF Apart
  <2>2. QED BY <2>1 DEF Apart
<1>7. AllKeep(t, left)
  <2>1. ASSUME NEW j \in 1 .. Len(t) PROVE Fitting(t[j]) /\ Keeps(t[j], left)
    BY <1>3 DEF AllKeep
  <2>2. QED BY <2>1 DEF AllKeep
<1>8. CoveredBy(t) = CoveredBy(s) \ SpanOf(s[i])
  <2>1. ASSUME NEW h \in CoveredBy(t) PROVE h \in CoveredBy(s) \ SpanOf(s[i])
    <3>1. PICK j \in 1 .. Len(t) : h \in SpanOf(t[j])  BY <2>1 DEF CoveredBy
    <3>2. QED BY <1>3, <3>1 DEF CoveredBy, Apart
  <2>2. ASSUME NEW h \in CoveredBy(s) \ SpanOf(s[i]) PROVE h \in CoveredBy(t)
    <3>1. PICK j \in 1 .. Len(s) : h \in SpanOf(s[j])  BY <2>2 DEF CoveredBy
    <3>2. QED BY <1>5, <2>2, <3>1 DEF CoveredBy
  <2>3. QED BY <2>1, <2>2
<1>9. QED BY <1>2, <1>6, <1>7, <1>8 DEF t

-----------------------------------------------------------------------------
LEMMA InitTable == BreakpointInit => TableInv
<1> SUFFICES ASSUME BreakpointInit PROVE TableInv
  OBVIOUS
<1>1. breakpoints = <<>> /\ memory = [h \in Halves |-> h] /\ kept = {}  BY DEF BreakpointInit
<1>2. breakpoints \in Seq(BkEntries) /\ Len(breakpoints) = 0  BY <1>1
<1>3. \A k \in 1 .. 0 : FALSE  OBVIOUS
<1>4. \A h \in Halves : h \in Nat  BY BreakpointAssumption DEF Halves, BreakpointAssumption
<1>5. memory \in [Halves -> Nat] /\ \A h \in Halves : memory[h] = h  BY <1>1, <1>4
<1>6. CoveredBy(breakpoints) = {}  BY <1>2, <1>3 DEF CoveredBy
<1>7. QED
  BY <1>1, <1>2, <1>3, <1>5, <1>6
     DEF TableInv, TableOK, Sorted, Slots, nbBreakpoints, Apart, AllKeep, Shows

LEMMA AddKeeps ==
    ASSUME TableInv, NEW address \in Halves, NEW size \in {1, 2}, NEW persist \in BOOLEAN,
           AddBreakpoint(address, size, persist)
    PROVE  TableInv'
<1> DEFINE code == [k \in 1 .. size |-> memory[address + k - 1]]
           b == [address |-> address, instructionSize |-> size, persistent |-> persist,
                 savedInstruction |-> code]
           slot == FindClosestBreakpointSlot(address)
<1>1. /\ TableOK /\ Sorted /\ Apart(breakpoints) /\ AllKeep(breakpoints, kept)
      /\ memory \in [Halves -> Nat] /\ Shows(breakpoints, memory, kept)
      /\ NbHalves \in Nat /\ address \in Nat /\ address < NbHalves
  BY BreakpointAssumption DEF TableInv, Halves, BreakpointAssumption
<1>2. \A k \in 1 .. size : address + k - 1 \in Halves
  <2>1. size = 2 => address + 1 \in Halves  BY DEF AddBreakpoint
  <2>2. \A k \in 1 .. size : k = 1 \/ (k = 2 /\ size = 2)  OBVIOUS
  <2>3. address + 1 - 1 = address /\ address + 2 - 1 = address + 1  BY <1>1
  <2>4. QED BY <2>1, <2>2, <2>3
<1>3. code \in Seq(Nat) /\ Len(code) = size /\ \A k \in 1 .. size : code[k] = memory[address + k - 1]
  <2>1. \A k \in 1 .. size : memory[address + k - 1] \in Nat  BY <1>1, <1>2
  <2>2. code \in [1 .. size -> Nat]  BY <2>1
  <2>3. size \in Nat  OBVIOUS
  <2> HIDE DEF code
  <2>4. code \in Seq(Nat)  BY <2>2, <2>3
  <2>5. Len(code) = size  BY <2>2, <2>3, <2>4
  <2>6. QED BY <2>4, <2>5 DEF code
<1> HIDE DEF code
<1>4. /\ b \in BkEntries /\ b.address = address /\ b.instructionSize = size
      /\ b.savedInstruction = code
  BY <1>3 DEF BkEntries
<1>5. breakpoints' = InsertAt(breakpoints, slot, b) /\ memory' = Written(address, Trap(size))
      /\ kept' = kept /\ ~Overlaps(address, size) /\ ~Has(address)
  BY DEF AddBreakpoint, code
<1>6. nbBreakpoints \in Nat /\ DOMAIN breakpoints = Slots /\ nbBreakpoints = Len(breakpoints)
      /\ breakpoints \in Seq(BkEntries)
      /\ \A k \in Slots : k \in Nat /\ breakpoints[k] \in BkEntries /\ Address(k) \in Nat
  BY <1>1, TableFacts DEF Slots, nbBreakpoints, TableOK
<1>7. slot \in 1 .. nbBreakpoints + 1 /\ \A k \in Slots : Address(k) < address <=> k < slot
  BY <1>1, ClosestIs
<1> HIDE DEF b, slot
<1>8. \A k \in Slots : Address(k) # address  BY <1>1, <1>5, HasIs
<1>9. \A k \in Slots : SpanOf(breakpoints[k]) \cap SpanOf(b) = {}
  BY <1>4, <1>5, <1>6, <1>8 DEF Overlaps, SpanOf, Address
<1>10. \A h : h \in SpanOf(b) <=> h \in Int /\ address <= h /\ h <= address + size - 1
  BY <1>4, EntryFacts
<1>11. ASSUME NEW h \in SpanOf(b)
       PROVE  h \in Halves /\ h - address + 1 \in 1 .. size /\ address + (h - address + 1) - 1 = h
  <2>1. h - address + 1 \in 1 .. size /\ address + (h - address + 1) - 1 = h
    BY <1>1, <1>10
  <2>2. QED BY <1>2, <2>1
<1>12. Fitting(b)  BY <1>3, <1>4, <1>11 DEF Fitting
<1>13. ASSUME NEW h \in SpanOf(b) PROVE h \notin CoveredBy(breakpoints)
  BY <1>6, <1>9 DEF CoveredBy, Slots
<1>14. Keeps(b, kept)
  <2>1. ASSUME NEW h \in SpanOf(b) PROVE h \in kept <=> CodeOf(b, h) # h
    <3>1. CodeOf(b, h) = memory[h]  BY <1>3, <1>4, <1>11 DEF CodeOf
    <3>2. h \in kept <=> memory[h] # h  BY <1>1, <1>11, <1>13 DEF Shows
    <3>3. QED BY <3>1, <3>2
  <2>2. QED BY <2>1 DEF Keeps
<1>15. /\ breakpoints' \in Seq(BkEntries) /\ Apart(breakpoints') /\ AllKeep(breakpoints', kept)
       /\ CoveredBy(breakpoints') = CoveredBy(breakpoints) \cup SpanOf(b)
  BY <1>1, <1>4, <1>5, <1>6, <1>7, <1>9, <1>12, <1>14, JoinKeeps DEF Slots
<1>16. Sorted'
  <2>1. /\ Len(breakpoints') = nbBreakpoints + 1
        /\ \A j \in 1 .. nbBreakpoints + 1 :
              breakpoints'[j] = IF j < slot THEN breakpoints[j]
                                ELSE IF j = slot THEN b ELSE breakpoints[j - 1]
    <3>1. IsInserted(breakpoints', breakpoints, slot, b)  BY <1>4, <1>5, <1>6, <1>7, InsertIs
    <3>2. QED BY <1>6, <3>1 DEF IsInserted
  <2> DEFINE new(j) == breakpoints'[j].address
  <2>2. ASSUME NEW j \in 1 .. nbBreakpoints + 1
        PROVE  /\ j < slot => j \in Slots /\ new(j) = Address(j)
               /\ j = slot => new(j) = address
               /\ slot < j => j - 1 \in Slots /\ new(j) = Address(j - 1)
    <3>1. j < slot => j \in Slots  BY <1>6, <1>7 DEF Slots
    <3>2. slot < j => j - 1 \in Slots /\ ~(j < slot) /\ j # slot  BY <1>6, <1>7 DEF Slots
    <3>3. QED BY <1>4, <1>6, <1>7, <2>1, <3>1, <3>2 DEF Address
  <2>3. ASSUME NEW j \in 1 .. nbBreakpoints + 1, NEW k \in 1 .. nbBreakpoints + 1, j < k
        PROVE  new(j) < new(k)
    <3>0. j \in Nat /\ k \in Nat /\ slot \in Nat  BY <1>6, <1>7
    <3>1. CASE k < slot
      <4>1. j < slot  BY <2>3, <3>0, <3>1
      <4>2. QED BY <1>1, <2>2, <2>3, <3>1, <4>1 DEF Sorted
    <3>2. CASE k = slot
      <4>1. j < slot  BY <2>3, <3>2
      <4>2. QED BY <1>7, <2>2, <3>2, <4>1
    <3>3. CASE slot < k
      <4>1. k - 1 \in Slots /\ new(k) = Address(k - 1) /\ ~(k - 1 < slot)  BY <2>2, <3>0, <3>3
      <4>2. address < Address(k - 1)
        <5>1. ~(Address(k - 1) < address) /\ Address(k - 1) # address /\ Address(k - 1) \in Nat
          BY <1>6, <1>7, <1>8, <4>1
        <5>2. QED BY <1>1, <5>1
      <4>3. CASE j < slot
        <5>1. j \in Slots /\ new(j) = Address(j) /\ Address(j) < address /\ Address(j) \in Nat
          BY <1>6, <1>7, <2>2, <4>3
        <5>2. QED BY <1>1, <1>6, <4>1, <4>2, <5>1
      <4>4. CASE j = slot  BY <2>2, <4>1, <4>2, <4>4
      <4>5. CASE slot < j
        <5>1. j - 1 \in Slots /\ new(j) = Address(j - 1) /\ j - 1 < k - 1  BY <2>2, <2>3, <3>0, <4>5
        <5>2. QED BY <1>1, <4>1, <5>1 DEF Sorted
      <4>6. QED BY <1>6, <1>7, <4>3, <4>4, <4>5
    <3>4. QED BY <1>6, <1>7, <3>1, <3>2, <3>3
  <2>4. QED BY <2>1, <2>3 DEF Sorted, Slots, nbBreakpoints, Address
<1>17. memory' \in [Halves -> Nat] /\ Shows(breakpoints', memory', kept')
  <2>1. Trap(size) \in Seq(Nat) /\ Len(Trap(size)) = size
        /\ \A k \in 1 .. size : NbHalves <= Trap(size)[k]
    <3>1. CASE size = 1
      <4>1. Trap(size) = <<NbHalves>>  BY <3>1 DEF Trap
      <4>2. <<NbHalves>> \in Seq(Nat) /\ Len(<<NbHalves>>) = 1 /\ <<NbHalves>>[1] = NbHalves
        BY <1>1
      <4>3. \A k \in 1 .. 1 : k = 1  OBVIOUS
      <4>4. \A k \in 1 .. 1 : NbHalves <= <<NbHalves>>[k]  BY <1>1, <4>2, <4>3
      <4>5. QED BY <3>1, <4>1, <4>2, <4>4
    <3>2. CASE size = 2
      <4>1. Trap(size) = <<NbHalves + 1, NbHalves + 2>>  BY <3>2 DEF Trap
      <4> DEFINE v == <<NbHalves + 1, NbHalves + 2>>
      <4>2. v \in Seq(Nat) /\ Len(v) = 2 /\ v[1] = NbHalves + 1 /\ v[2] = NbHalves + 2
        BY <1>1
      <4>3. \A k \in 1 .. 2 : k = 1 \/ k = 2  OBVIOUS
      <4> HIDE DEF v
      <4>4. \A k \in 1 .. 2 : NbHalves <= v[k]  BY <1>1, <4>2, <4>3
      <4>5. QED BY <3>2, <4>1, <4>2, <4>4 DEF v
    <3>3. QED BY <3>1, <3>2
  <2>2. /\ memory' \in [Halves -> Nat]
        /\ \A h \in Halves : memory'[h] = IF h \in SpanOf(b) THEN Trap(size)[h - address + 1]
                                          ELSE memory[h]
    BY <1>1, <1>4, <1>5, <2>1, WrittenIs
  <2>3. ASSUME NEW h \in Halves PROVE h \in CoveredBy(breakpoints') \cup kept' <=> memory'[h] # h
    <3>1. CASE h \in SpanOf(b)
      <4>1. NbHalves <= memory'[h] /\ memory'[h] \in Nat  BY <1>11, <2>1, <2>2, <3>1
      <4>2. h \in Nat /\ h < NbHalves  BY <1>1 DEF Halves
      <4>3. QED BY <1>1, <1>15, <3>1, <4>1, <4>2
    <3>2. CASE h \notin SpanOf(b)  BY <1>1, <1>5, <1>15, <2>2, <3>2 DEF Shows
    <3>3. QED BY <3>1, <3>2
  <2>4. QED BY <2>2, <2>3 DEF Shows
<1>18. QED BY <1>5, <1>15, <1>16, <1>17 DEF TableInv, TableOK

LEMMA RemoveKeeps ==
    ASSUME TableInv, NEW address \in Halves, RemoveBreakpoint(address)
    PROVE  TableInv'
<1> DEFINE slot == FindClosestBreakpointSlot(address)
           b == breakpoints[slot]
<1>1. /\ TableOK /\ Sorted /\ Apart(breakpoints) /\ AllKeep(breakpoints, kept)
      /\ memory \in [Halves -> Nat] /\ Shows(breakpoints, memory, kept)
      /\ NbHalves \in Nat /\ address \in Nat
  BY BreakpointAssumption DEF TableInv, Halves, BreakpointAssumption
<1>2. nbBreakpoints \in Nat /\ DOMAIN breakpoints = Slots /\ nbBreakpoints = Len(breakpoints)
      /\ breakpoints \in Seq(BkEntries)
      /\ \A k \in Slots : k \in Nat /\ breakpoints[k] \in BkEntries /\ Address(k) \in Nat
  BY <1>1, TableFacts DEF Slots, nbBreakpoints, TableOK
<1>3. slot \in 1 .. nbBreakpoints + 1  BY <1>1, ClosestIs
<1>4. /\ slot <= nbBreakpoints /\ b.address = address
      /\ memory' = Written(address, b.savedInstruction)
      /\ breakpoints' = RemoveAt(breakpoints, slot) /\ kept' = kept
  BY DEF RemoveBreakpoint, Has
<1> HIDE DEF slot
<1>5. slot \in Slots /\ b \in BkEntries  BY <1>2, <1>3, <1>4 DEF Slots
<1>6. Fitting(b) /\ Keeps(b, kept)  BY <1>1, <1>2, <1>5 DEF AllKeep, Slots
<1>7. /\ breakpoints' \in Seq(BkEntries) /\ Apart(breakpoints') /\ AllKeep(breakpoints', kept)
      /\ CoveredBy(breakpoints') = CoveredBy(breakpoints) \ SpanOf(b)
  BY <1>1, <1>2, <1>4, <1>5, LeaveKeeps DEF Slots
<1>8. Sorted'
  <2>1. /\ Len(breakpoints') = nbBreakpoints - 1
        /\ \A j \in 1 .. nbBreakpoints - 1 :
              breakpoints'[j] = IF j < slot THEN breakpoints[j] ELSE breakpoints[j + 1]
    <3>1. IsRemoved(breakpoints', breakpoints, slot)  BY <1>2, <1>4, <1>5, RemoveIs DEF Slots
    <3>2. QED BY <1>2, <3>1 DEF IsRemoved
  <2> DEFINE from(j) == IF j < slot THEN j ELSE j + 1
  <2>2. ASSUME NEW j \in 1 .. nbBreakpoints - 1
        PROVE  from(j) \in Slots /\ breakpoints'[j].address = Address(from(j))
    <3>1. from(j) \in Slots  BY <1>2, <1>5 DEF Slots
    <3>2. QED BY <2>1, <3>1 DEF Address
  <2>3. ASSUME NEW j \in 1 .. nbBreakpoints - 1, NEW k \in 1 .. nbBreakpoints - 1, j < k
        PROVE  from(j) < from(k)
    BY <1>2, <1>5, <2>3
  <2> HIDE DEF from
  <2>4. ASSUME NEW j \in 1 .. nbBreakpoints - 1, NEW k \in 1 .. nbBreakpoints - 1, j < k
        PROVE  breakpoints'[j].address < breakpoints'[k].address
    <3>1. from(j) \in Slots /\ from(k) \in Slots /\ from(j) < from(k)  BY <2>2, <2>3, <2>4
    <3>2. Address(from(j)) < Address(from(k))  BY <1>1, <3>1 DEF Sorted
    <3>3. QED BY <2>2, <3>2
  <2>5. QED BY <2>1, <2>4 DEF Sorted, Slots, nbBreakpoints, Address
<1> HIDE DEF b
<1>9. memory' \in [Halves -> Nat] /\ Shows(breakpoints', memory', kept')
  <2>1. b.savedInstruction \in Seq(Nat) /\ Len(b.savedInstruction) = b.instructionSize
    BY <1>5, <1>6, EntryFacts DEF Fitting
  <2>2. /\ memory' \in [Halves -> Nat]
        /\ \A h \in Halves : memory'[h] = IF h \in SpanOf(b) THEN CodeOf(b, h) ELSE memory[h]
    BY <1>1, <1>4, <1>5, <2>1, WrittenIs DEF CodeOf
  <2>3. ASSUME NEW h \in Halves PROVE h \in CoveredBy(breakpoints') \cup kept' <=> memory'[h] # h
    <3>1. CASE h \in SpanOf(b)  BY <1>4, <1>6, <1>7, <2>2, <3>1 DEF Keeps
    <3>2. CASE h \notin SpanOf(b)  BY <1>1, <1>4, <1>7, <2>2, <3>2 DEF Shows
    <3>3. QED BY <3>1, <3>2
  <2>4. QED BY <2>2, <2>3 DEF Shows
<1>10. QED BY <1>4, <1>7, <1>8, <1>9 DEF TableInv, TableOK

LEMMA DetachKeeps == ASSUME TableInv, DetachBreakpoints PROVE TableInv'
<1> DEFINE stay == {k \in Slots : breakpoints[k].persistent}
           of(h) == {k \in Slots \ stay : h \in SpanOf(breakpoints[k])}
<1>1. /\ TableOK /\ Apart(breakpoints) /\ AllKeep(breakpoints, kept)
      /\ memory \in [Halves -> Nat] /\ Shows(breakpoints, memory, kept)
  BY DEF TableInv
<1>2. DOMAIN breakpoints = Slots /\ Slots = 1 .. Len(breakpoints)
      /\ \A k \in Slots : breakpoints[k] \in BkEntries
  BY <1>1, TableFacts DEF Slots, nbBreakpoints
<1>3. /\ breakpoints' = <<>>
      /\ memory' = [h \in Halves |-> IF of(h) = {} THEN memory[h]
                                     ELSE CodeOf(breakpoints[CHOOSE k \in of(h) : TRUE], h)]
      /\ kept' = kept \cup UNION {SpanOf(breakpoints[k]) : k \in stay}
  BY <1>2 DEF DetachBreakpoints, CodeOf
<1>4. breakpoints' \in Seq(BkEntries) /\ Len(breakpoints') = 0  BY <1>3
<1>5. \A k \in 1 .. 0 : FALSE  OBVIOUS
<1>6. CoveredBy(breakpoints') = {}  BY <1>4, <1>5 DEF CoveredBy
<1>7. ASSUME NEW h \in Halves
      PROVE  /\ memory'[h] \in Nat
             /\ of(h) = {} => memory'[h] = memory[h]
             /\ \A k \in of(h) : memory'[h] = CodeOf(breakpoints[k], h)
  <2>1. of(h) = {} => memory'[h] = memory[h]  BY <1>3
  <2>2. ASSUME NEW k \in of(h) PROVE memory'[h] = CodeOf(breakpoints[k], h)
    <3>1. \A m \in of(h) : m = k  BY <1>1, <1>2, <2>2 DEF Apart
    <3>2. (CHOOSE m \in of(h) : TRUE) \in of(h)  BY <2>2
    <3>3. (CHOOSE m \in of(h) : TRUE) = k /\ of(h) # {}  BY <2>2, <3>1, <3>2
    <3>4. memory'[h] = IF of(h) = {} THEN memory[h]
                       ELSE CodeOf(breakpoints[CHOOSE m \in of(h) : TRUE], h)
      BY <1>3
    <3> HIDE DEF of
    <3>5. QED BY <3>3, <3>4
  <2>3. ASSUME NEW k \in of(h) PROVE CodeOf(breakpoints[k], h) \in Nat
    <3>1. k \in Slots /\ h \in SpanOf(breakpoints[k]) /\ breakpoints[k] \in BkEntries
          /\ Fitting(breakpoints[k])
      BY <1>1, <1>2, <2>3 DEF AllKeep
    <3>2. h - breakpoints[k].address + 1 \in 1 .. Len(breakpoints[k].savedInstruction)
          /\ breakpoints[k].savedInstruction \in Seq(Nat)
      BY <3>1, EntryFacts DEF Fitting
    <3>3. QED BY <3>2, ElementOfSeq DEF CodeOf
  <2> HIDE DEF of
  <2>4. QED BY <1>1, <2>1, <2>2, <2>3
<1>8. ASSUME NEW h \in Halves PROVE h \in kept' <=> memory'[h] # h
  <2>1. CASE of(h) # {}
    <3>1. PICK k \in of(h) : TRUE  BY <2>1
    <3>2. k \in Slots \ stay /\ h \in SpanOf(breakpoints[k]) /\ memory'[h] = CodeOf(breakpoints[k], h)
      BY <1>7, <3>1
    <3>3. \A m \in stay : h \notin SpanOf(breakpoints[m])
      <4>1. ASSUME NEW m \in stay PROVE h \notin SpanOf(breakpoints[m])
        <5>1. m \in Slots /\ m # k  BY <3>2
        <5>2. QED BY <1>1, <1>2, <3>2, <5>1 DEF Apart
      <4>2. QED BY <4>1
    <3>4. h \in kept' <=> h \in kept  BY <1>3, <3>3
    <3>5. h \in kept <=> CodeOf(breakpoints[k], h) # h  BY <1>1, <1>2, <3>2 DEF AllKeep, Keeps
    <3>6. QED BY <3>2, <3>4, <3>5
  <2>2. CASE of(h) = {}
    <3>1. memory'[h] = memory[h]  BY <1>7, <2>2
    <3>2. h \in kept \cup CoveredBy(breakpoints) <=> memory[h] # h  BY <1>1 DEF Shows
    <3>3. h \in CoveredBy(breakpoints) <=> \E k \in stay : h \in SpanOf(breakpoints[k])
      BY <1>2, <2>2 DEF CoveredBy
    <3>4. h \in kept' <=> h \in kept \/ \E k \in stay : h \in SpanOf(breakpoints[k])  BY <1>3
    <3>5. QED BY <3>1, <3>2, <3>3, <3>4
  <2>3. QED BY <2>1, <2>2
<1>9. memory' \in [Halves -> Nat]
  <2>1. memory' = [h \in Halves |-> memory'[h]]  BY <1>3
  <2>2. QED BY <1>7, <2>1
<1>10. QED
  BY <1>4, <1>5, <1>6, <1>8, <1>9
     DEF TableInv, TableOK, Sorted, Slots, nbBreakpoints, Apart, AllKeep, Shows

(* The table stays as it should be.                                         *)
THEOREM TableStays == BreakpointSpec => []TableInv
<1>1. BreakpointInit => TableInv  BY InitTable
<1>2. TableInv /\ [BreakpointNext]_bkvars => TableInv'
  <2> SUFFICES ASSUME TableInv, [BreakpointNext]_bkvars PROVE TableInv'
    OBVIOUS
  <2>1. CASE \E h \in Halves, size \in {1, 2}, persist \in BOOLEAN : AddBreakpoint(h, size, persist)
    BY <2>1, AddKeeps
  <2>2. CASE \E h \in Halves : RemoveBreakpoint(h)  BY <2>2, RemoveKeeps
  <2>3. CASE DetachBreakpoints  BY <2>3, DetachKeeps
  <2>4. CASE UNCHANGED bkvars
    BY <2>4 DEF bkvars, TableInv, TableOK, Sorted, Slots, nbBreakpoints, Address
  <2>5. QED BY <2>1, <2>2, <2>3, <2>4 DEF BreakpointNext
<1>3. QED BY <1>1, <1>2, PTL DEF BreakpointSpec

(* The table of breakpoints is sorted, the search by halving finds every    *)
(* one and nothing else, and the process runs its own code wherever there   *)
(* is none.                                                                 *)
THEOREM BreakpointsAreRight == BreakpointSpec => []BreakpointsInv
<1>1. ASSUME TableInv PROVE BreakpointsInv
  <2>1. /\ TableOK /\ Sorted /\ AllKeep(breakpoints, kept) /\ Shows(breakpoints, memory, kept)
    BY <1>1 DEF TableInv
  <2>2. DOMAIN breakpoints = Slots /\ Slots = 1 .. Len(breakpoints)
    BY <2>1, TableFacts DEF Slots, nbBreakpoints
  <2>3. \A h \in Halves : h \in Nat  BY BreakpointAssumption DEF Halves, BreakpointAssumption
  <2>4. \A h \in Halves : Has(h) <=> \E k \in DOMAIN breakpoints : breakpoints[k].address = h
    BY <2>1, <2>2, <2>3, HasIs DEF Address
  <2>5. \A j, k \in DOMAIN breakpoints : j < k => breakpoints[j].address < breakpoints[k].address
    BY <2>1, <2>2 DEF Sorted, Address
  <2>6. \A k \in DOMAIN breakpoints : \A h \in SpanOf(breakpoints[k]) : h \notin kept =>
            breakpoints[k].savedInstruction[h - breakpoints[k].address + 1] = h
    BY <2>1, <2>2 DEF AllKeep, Keeps, CodeOf
  <2>7. Covered = CoveredBy(breakpoints)  BY <2>2 DEF Covered, CoveredBy
  <2>8. QED BY <2>1, <2>4, <2>5, <2>6, <2>7 DEF BreakpointsInv, Shows
<1>2. QED BY <1>1, TableStays, PTL
=============================================================================
