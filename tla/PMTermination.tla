---------------------------- MODULE PMTermination ----------------------------
(***************************************************************************)
(* How pm ends processes: process_monitor.c, termination.c and the end of  *)
(* firmlaunch.c.  A program is asked to end by notification 0x100, sent    *)
(* under the lock of the process list; the thread that asked waits for     *)
(* allNotifiedTerminationEvent, which the monitor thread signals when no   *)
(* notified process is left, and after a timeout ends those that remain.   *)
(***************************************************************************)
EXTENDS ProcessManager

CONSTANTS
    Stubborn,   \* titles that do not end when asked to
    Commands    \* commands the clients of pm:app send, by name

Offered(name) == Command /\ name \in Commands

-----------------------------------------------------------------------------
(* processMonitor                                                           *)

MonitorRebuild ==
    LET live == {n \in Listed : procs[n].status # "terminated"}
    IN  /\ monitor.pc = "rebuild"
        /\ Section("monitor")
        /\ monitor' = [monitor EXCEPT
                         !.pc = "signal",
                         !.handles = PidsOf(live),
                         !.terminating = \E n \in live : procs[n].status = "notified"]
        /\ UNCHANGED <<shared, flags, events, panicked, thread, launch, environment>>

MonitorSignalNothing ==   \* a mutant: the event is left as it is
    /\ monitor.pc = "signal"
    /\ monitor' = [monitor EXCEPT !.pc = "wait", !.terminating = FALSE]
    /\ UNCHANGED <<shared, flags, events, lock, panicked, thread, launch, environment>>
MonitorSignal ==
    /\ monitor.pc = "signal"
    /\ monitor' = [monitor EXCEPT !.pc = "wait", !.terminating = FALSE]
    /\ allNotifiedTerminationEvent' =
          (allNotifiedTerminationEvent \/ (waitingForTermination /\ ~monitor.terminating))
    /\ UNCHANGED <<shared, flags, newProcessEvent, lock, panicked, thread, launch, environment>>

(* svcWaitSynchronizationN returns the first object that is signalled:      *)
(* newProcessEvent, or a process that has ended.                            *)
MonitorNewProcess ==
    /\ monitor.pc = "wait" /\ newProcessEvent
    /\ newProcessEvent' = FALSE
    /\ monitor' = [monitor EXCEPT !.pc = "rebuild", !.handles = {}]
    /\ UNCHANGED <<shared, flags, allNotifiedTerminationEvent, lock, panicked, thread, launch,
                   environment>>
MonitorProcessEnded(pid) ==
    /\ monitor.pc = "wait" /\ ~newProcessEvent
    /\ pid \in monitor.handles /\ life[pid] = "dead"
    /\ monitor' = [monitor EXCEPT !.pc = "retire", !.handles = {},
                                  !.process = [Blank EXCEPT !.pid = pid]]
    /\ UNCHANGED <<shared, flags, events, lock, panicked, thread, launch, environment>>

(* The process is marked, and its node freed unless NS is to acknowledge    *)
(* its end.                                                                 *)
Ended(p) == [p EXCEPT !.status = "terminated",
                      !.flags = IF "notify" \in @ THEN @ \cup {"notify ended"} ELSE @]
MonitorRetire ==
    LET found == {n \in Listed : procs[n].pid = monitor.process.pid}
    IN  /\ monitor.pc = "retire"
        /\ Section("monitor")
        /\ \/ /\ found = {}
              /\ monitor' = [monitor EXCEPT !.pc = "rebuild", !.process = Blank]
              /\ UNCHANGED <<procs, list, freeList>>
           \/ \E n \in found :
                LET p == Ended(procs[n])
                    keep == "notify ended" \in p.flags
                IN  /\ procs' = [procs EXCEPT ![n] = p]
                    /\ monitor' = [monitor EXCEPT !.pc = "dependencies", !.process = p]
                    /\ list' = IF keep THEN list ELSE Unlinked(n)
                    /\ freeList' = IF keep THEN freeList ELSE Freed(n)
        /\ UNCHANGED <<runningApplicationData, debugData, flags, events, panicked, thread,
                       launch, environment>>

(* cleanupProcess, on the copy of the process data                          *)
MonitorDependencies ==
    /\ monitor.pc = "dependencies"
    /\ monitor' = [monitor EXCEPT !.pc = "clean up"]
    /\ IF "dependencies loaded" \in monitor.process.flags
       THEN /\ Section("monitor")
            /\ procs' = Released(procs, Deps[monitor.process.title])
       ELSE UNCHANGED <<lock, procs>>
    /\ UNCHANGED <<list, freeList, runningApplicationData, debugData, flags, events, panicked,
                   thread, launch, environment>>

IsMonitored(n) == n # Null /\ procs[n].pid = monitor.process.pid
MonitorCleanUpKeepingApp ==   \* a mutant: the running application is not cleared
    /\ monitor.pc = "clean up"
    /\ Section("monitor")
    /\ registered' = registered \ {monitor.process.pid}
    /\ debugData' = IF IsMonitored(debugData) THEN Null ELSE debugData
    /\ announced' = IF "notify" \in monitor.process.flags
                    THEN announced \cup {monitor.process.title} ELSE announced
    /\ monitor' = [monitor EXCEPT !.pc = "rebuild", !.process = Blank]
    /\ UNCHANGED <<procs, list, freeList, runningApplicationData, flags, events, panicked,
                   thread, launch, life>>
MonitorCleanUp ==
    /\ monitor.pc = "clean up"
    /\ Section("monitor")
    /\ registered' = IF "kip" \in monitor.process.flags THEN registered
                     ELSE registered \ {monitor.process.pid}
    /\ runningApplicationData' = IF IsMonitored(runningApplicationData) THEN Null
                                 ELSE runningApplicationData
    /\ debugData' = IF IsMonitored(debugData) THEN Null ELSE debugData
    /\ announced' = IF "notify" \in monitor.process.flags
                    THEN announced \cup {monitor.process.title} ELSE announced
    /\ monitor' = [monitor EXCEPT !.pc = "rebuild", !.process = Blank]
    /\ UNCHANGED <<procs, list, freeList, flags, events, panicked, thread, launch, life>>

Monitor == \/ MonitorRebuild \/ MonitorSignal \/ MonitorNewProcess
           \/ \E pid \in Pids : MonitorProcessEnded(pid)
           \/ MonitorRetire \/ MonitorDependencies \/ MonitorCleanUp

-----------------------------------------------------------------------------
(* Terminations, in five forms: a title, the application, all for a reboot  *)
(* of the caller's choice, all for a firmlaunch, the application to start   *)
(* it again.  The last three and the first run in the task thread.          *)

At(t, pc) == thread[t].pc = pc /\ ~panicked
Op(t) == thread[t].job.op

TerminateTitle(title, finite) ==
    /\ Offered("TerminateTitle") /\ ~preparingForReboot
    /\ Submit([NoJob EXCEPT !.op = "title", !.title = title, !.finite = finite])
    /\ UNCHANGED <<shared, flags, events, lock, panicked, launch, monitor, environment>>

(* While a reboot is prepared, processes are ended at once and only when no *)
(* time is to be given to them.                                             *)
TerminateTitleInReboot(title) ==
    /\ Offered("TerminateTitle") /\ preparingForReboot
    /\ Section("service")
    /\ life' = Killed(PidsOf(With({title})))
    /\ UNCHANGED <<shared, flags, events, panicked, thread, launch, monitor, registered,
                   announced>>

TerminateApplication(finite) ==
    /\ Offered("TerminateApplication") /\ ~preparingForReboot
    /\ thread' = [thread EXCEPT !["service"] =
                    [pc |-> "begin", job |-> [NoJob EXCEPT !.op = "application", !.finite = finite]]]
    /\ UNCHANGED <<shared, flags, events, lock, panicked, launch, monitor, environment>>

PrepareForReboot(caller) ==
    /\ Offered("PrepareForReboot") /\ ~preparingForReboot
    /\ preparingForReboot' = TRUE
    /\ Submit([NoJob EXCEPT !.op = "reboot", !.title = caller])
    /\ UNCHANGED <<shared, waitingForTermination, events, lock, panicked, launch, monitor,
                   environment>>

LaunchFirm ==
    /\ Offered("LaunchFirm")
    /\ Submit([NoJob EXCEPT !.op = "firm"])
    /\ UNCHANGED <<shared, flags, events, lock, panicked, launch, monitor, environment>>

ChainloadHomebrewDirty ==
    /\ Offered("ChainloadHomebrewDirty") /\ ~preparingForReboot
    /\ Section("service")
    /\ IF runningApplicationData = Null THEN UNCHANGED thread
       ELSE Submit([NoJob EXCEPT !.op = "chainload"])
    /\ UNCHANGED <<shared, flags, events, panicked, launch, monitor, environment>>

(* What the thread that ends processes does first.                          *)
Begin(t) ==
    /\ At(t, "begin")
    /\ Goto(t, "notify")
    /\ IF Op(t) = "title" /\ ~thread[t].job.finite
       THEN UNCHANGED <<allNotifiedTerminationEvent, waitingForTermination>>
       ELSE allNotifiedTerminationEvent' = FALSE /\ waitingForTermination' = TRUE
    /\ UNCHANGED <<shared, preparingForReboot, newProcessEvent, lock, panicked, launch,
                   monitor, environment>>

(* Then it notifies.  TerminateProcessOrTitleAsync waits for the processes  *)
(* only when it was given a timeout.                                        *)
TakeOver(ps, n) ==      \* it is this thread that will tell NS
    IF "notify" \in ps[n].flags
    THEN [ps EXCEPT ![n].flags = (@ \ {"notify"}) \cup {"notify ended"}] ELSE ps
AllTerminated(title) ==     \* the processes of the title, in the order of the list
    LET after[k \in 0 .. Len(list)] ==
            IF k = 0 THEN procs
            ELSE IF procs[list[k]].title = title
                 THEN Terminated(TakeOver(after[k - 1], list[k]), list[k])
                 ELSE after[k - 1]
    IN  after[Len(list)]
NotifyTitle(t) ==
    LET job == thread[t].job
        notify == \E n \in With({job.title}) : "notify" \in procs[n].flags
    IN  /\ At(t, "notify") /\ job.op = "title"
        /\ Section(t)
        /\ procs' = AllTerminated(job.title)
        /\ thread' = [thread EXCEPT ![t] =
                        IF job.finite THEN [pc |-> "commit", job |-> [job EXCEPT !.notify = notify]]
                        ELSE Idle]
        /\ UNCHANGED <<list, freeList, runningApplicationData, debugData, flags, events,
                       panicked, launch, monitor, environment>>

NotifyApplication(t) ==
    LET n == runningApplicationData
    IN  /\ At(t, "notify") /\ Op(t) = "application"
        /\ Section(t)
        /\ procs' = IF n = Null THEN procs ELSE Terminated(procs, n)
        /\ Goto(t, "commit")
        /\ UNCHANGED <<list, freeList, runningApplicationData, debugData, flags, events,
                       panicked, launch, monitor, environment>>

(* ChainloadHomebrewDirtyAsync remembers the title, and has it ended        *)
(* without its dependencies and without NS being told.                      *)
NotifyToChainload(t) ==
    LET n == runningApplicationData
        title == IF n = Null THEN "none" ELSE procs[n].title
    IN  /\ At(t, "notify") /\ Op(t) = "chainload"
        /\ Section(t)
        /\ procs' = IF n = Null THEN procs
                    ELSE Terminated(WithoutFlags(procs, n, {"dependencies loaded", "notify"}), n)
        /\ thread' = [thread EXCEPT
                         ![t] = [pc |-> "commit", job |-> [thread[t].job EXCEPT !.title = title]]]
        /\ UNCHANGED <<list, freeList, runningApplicationData, debugData, flags, events,
                       panicked, launch, monitor, environment>>

(* terminateAllProcesses: everything but built-in modules, the caller when  *)
(* it is autoloaded, and what the caller depends on.  In the second round   *)
(* the built-in modules that can end.                                       *)
NotifyAll(t) ==
    LET job == thread[t].job
        caller == Find(job.title)
        app == runningApplicationData
        deps == IF caller = Null THEN {} ELSE Deps[job.title]
        spared == {n \in Listed : /\ "autoloaded" \in procs[n].flags
                                  /\ n = caller \/ procs[n].title \in deps}
        ps == IF app = Null THEN procs
              ELSE Notified(WithoutFlags(procs, app, {"dependencies loaded"}), {app})
        asked == {n \in Listed : /\ "kip" \notin procs[n].flags
                                 /\ n \notin spared
                                 /\ procs[n].title \notin deps}
    IN  /\ At(t, "notify") /\ job.op \in {"reboot", "firm"} /\ job.round = 1
        /\ Section(t)
        /\ procs' = Notified(Incref(ps, spared, 1), asked)
        /\ panicked' = Overflows(ps, spared, 1)
        /\ Goto(t, "commit")
        /\ UNCHANGED <<list, freeList, runningApplicationData, debugData, flags, events,
                       launch, monitor, environment>>
NotifyBuiltIn(t) ==
    /\ At(t, "notify") /\ Op(t) \in {"reboot", "firm"} /\ thread[t].job.round = 2
    /\ Section(t)
    /\ IF \E k \in Kips : Find(k) = Null THEN panicked' = TRUE /\ UNCHANGED <<procs, thread>>
       ELSE procs' = Notified(procs, With(Kips)) /\ Goto(t, "commit") /\ UNCHANGED panicked
    /\ UNCHANGED <<list, freeList, runningApplicationData, debugData, flags, events,
                   launch, monitor, environment>>

(* commitPendingTerminations                                                *)
Commit(t) ==
    LET deaf == {n \in Listed : procs[n].status = "failed"}
        listening == \E n \in Listed : procs[n].status = "notified"
    IN  /\ At(t, "commit")
        /\ Section(t)
        /\ life' = Killed(PidsOf(deaf))
        /\ Goto(t, IF listening THEN "wait" ELSE "end")
        /\ UNCHANGED <<shared, flags, events, panicked, launch, monitor, registered, announced>>

WaitEnds(t) ==
    /\ thread[t].pc \in {"wait", "wait on"}
    /\ allNotifiedTerminationEvent
    /\ allNotifiedTerminationEvent' = FALSE
    /\ Goto(t, "end")
    /\ UNCHANGED <<shared, flags, newProcessEvent, lock, panicked, launch, monitor, environment>>

Timeout(t) ==
    /\ At(t, "wait") /\ thread[t].job.finite
    /\ ~allNotifiedTerminationEvent
    /\ Goto(t, "kill")
    /\ UNCHANGED <<shared, flags, events, lock, panicked, launch, monitor, environment>>

Kill(t) ==
    /\ At(t, "kill")
    /\ Section(t)
    /\ life' = Killed(PidsOf({n \in Listed : procs[n].status = "notified"}))
    /\ Goto(t, "wait on")
    /\ UNCHANGED <<shared, flags, events, panicked, launch, monitor, registered, announced>>

(* What each form does after commitPendingTerminations.  A reboot prepared  *)
(* for nobody and a firmlaunch have no caller to notify (0x179).            *)
NextPc(job) ==
    CASE job.op \in {"reboot", "firm"} /\ job.round = 1 -> "begin"
      [] job.op = "firm" -> "firmlaunch"
      [] job.op = "chainload" /\ job.title # "none" -> "reap"
      [] OTHER -> "idle"
End(t) ==
    LET job == thread[t].job
        pc == NextPc(job)
    IN  /\ At(t, "end")
        /\ waitingForTermination' = FALSE
        /\ announced' = IF job.notify THEN announced \cup {job.title} ELSE announced
        /\ thread' = [thread EXCEPT ![t] =
                        IF pc = "idle" THEN Idle
                        ELSE [pc |-> pc, job |-> [job EXCEPT !.round = 2]]]
        /\ UNCHANGED <<shared, preparingForReboot, events, lock, panicked, launch, monitor,
                       life, registered>>

Terminating(t) == \/ Begin(t) \/ NotifyTitle(t) \/ NotifyApplication(t)
                  \/ NotifyToChainload(t) \/ NotifyAll(t) \/ NotifyBuiltIn(t)
                  \/ Commit(t) \/ WaitEnds(t) \/ Timeout(t) \/ Kill(t) \/ End(t)

-----------------------------------------------------------------------------
(* UnregisterProcess: NS acknowledges the end of a title.                   *)
UnregisterProcess(title) ==
    LET n == Find(title)
    IN  /\ Command /\ title \in announced
        /\ Section("service")
        /\ announced' = announced \ {title}
        /\ IF n = Null THEN UNCHANGED shared
           ELSE /\ runningApplicationData' = IF runningApplicationData = n THEN Null
                                             ELSE runningApplicationData
                /\ debugData' = IF debugData = n THEN Null ELSE debugData
                /\ list' = Unlinked(n)
                /\ freeList' = Freed(n)
                /\ UNCHANGED procs
        /\ UNCHANGED <<flags, events, panicked, thread, launch, monitor, life, registered>>

(* The application ends when its user or a fault makes it; any other        *)
(* program when it was asked to.                                            *)
Asked(p) == \E n \in Listed : procs[n].pid = p /\ procs[n].status = "notified"
TitleOf(p) == {procs[n].title : n \in {m \in Listed : procs[m].pid = p}}
Exit(p) ==
    /\ life[p] = "running"
    /\ Asked(p) \/ TitleOf(p) \subseteq Apps
    /\ life' = [life EXCEPT ![p] = "dead"]
    /\ UNCHANGED <<shared, flags, events, lock, panicked, thread, launch, monitor, registered,
                   announced>>
ExitWhenAsked(p) == Asked(p) /\ TitleOf(p) \cap Stubborn = {} /\ Exit(p)

TerminationCommand ==
    \/ \E title \in Titles : \/ \E finite \in BOOLEAN : TerminateTitle(title, finite)
                             \/ TerminateTitleInReboot(title)
                             \/ PrepareForReboot(title)
    \/ \E finite \in BOOLEAN : TerminateApplication(finite)
    \/ LaunchFirm
    \/ ChainloadHomebrewDirty

Termination ==
    \/ HandOver
    \/ \E title \in Titles : UnregisterProcess(title)
    \/ \E t \in Workers : Terminating(t)
    \/ Monitor
    \/ \E p \in Pids : Exit(p)
=============================================================================
