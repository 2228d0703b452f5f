------------------------------- MODULE MCGDB --------------------------------
(***************************************************************************)
(* Rosalina's GDB server in one run: the hand-shakes of its threads, and   *)
(* the tables of breakpoints and of watchpoints, which share no state with *)
(* them in the model and move only while the others are as they began.     *)
(*                                                                         *)
(* The properties say nothing once the hand-shake has been disturbed, or   *)
(* a watchpoint was not treated as meant, and neither becomes right again: *)
(* a behaviour may end there.                                              *)
(***************************************************************************)
EXTENDS GDBServer, Breakpoints, Watchpoints

Quietly(A) == BreakpointInit /\ WatchpointInit /\ undisturbed /\ A /\ UNCHANGED <<bkvars, wpvars>>
Breaking(A) == Init /\ WatchpointInit /\ A /\ UNCHANGED <<gdbvars, wpvars>>
Watching(A) == Init /\ BreakpointInit /\ asMeant /\ A /\ UNCHANGED <<gdbvars, bkvars>>

debuggerVars == <<gdbvars, bkvars, wpvars>>
DebuggerInit == Init /\ BreakpointInit /\ WatchpointInit
DebuggerNext == Quietly(Next) \/ Breaking(BreakpointNext) \/ Watching(WatchpointNext)

QuietSpec == /\ DebuggerInit /\ [][DebuggerNext]_debuggerVars
             /\ WF_debuggerVars(Quietly(SocketThread)) /\ WF_debuggerVars(Quietly(Monitor))
             /\ WF_debuggerVars(Quietly(FinalizeServer))

(* The same without an end, for the properties that hold only while all is  *)
(* quiet: the server's, and the watchpoints'.                               *)
Serving(A) == BreakpointInit /\ WatchpointInit /\ A /\ UNCHANGED <<bkvars, wpvars>>
ServerSpec == /\ DebuggerInit /\ [][Serving(Next)]_debuggerVars
              /\ WF_debuggerVars(Serving(SocketThread)) /\ WF_debuggerVars(Serving(Monitor))
              /\ WF_debuggerVars(Serving(FinalizeServer))
RacesSpec ==
    /\ DebuggerInit
    /\ [][ \/ Serving(Next)
           \/ Init /\ BreakpointInit /\ WatchpointNext /\ UNCHANGED <<gdbvars, bkvars>>]_debuggerVars

(* As WaitsEnd, with the races: detaching while the monitor is about to     *)
(* take a lock, and closing when it has been told to end.                   *)
EveryWaitEnds == socket.pc \in {"closing", "detaching"} ~> socket.pc \notin {"closing", "detaching"}

(* "note: monitor will be waiting for lock" (server.c:186): what the monitor *)
(* was woken for before is not in its way.                                  *)
NothingStale == task # "crashed" /\ server.finalized <= 1 => ~monitor.failed
=============================================================================
