------------------------------ MODULE PMLaunch ------------------------------
(***************************************************************************)
(* How pm starts processes (launch.c, with info.c's list of dependencies), *)
(* together with how it ends them: all of pm's process management.  The    *)
(* application is launched by the task thread, everything else by the      *)
(* service thread; the list is unlocked while the loader, fs and sm are    *)
(* called.                                                                 *)
(***************************************************************************)
EXTENDS PMTermination

CONSTANTS
    Failures,   \* the calls to other programs that may fail: "register", "load", "set up"
    MaxRequests \* bounds the commands clients send

ASSUME RequestsAssumption == MaxRequests \in Nat

VARIABLES
    debugNext,  \* g_debugNextApplication
    requests    \* commands received

pmvars == <<vars, debugNext, requests>>

(* A dependency is loaded by launchTitleImpl too: `loading' is the title of *)
(* the innermost one, and `held' the node it has for it.                    *)
L(t) == launch[t]
ForDependency(t) == L(t).dep # "none"
loading(t) == IF ForDependency(t) THEN L(t).dep ELSE thread[t].job.title
held(t) == IF ForDependency(t) THEN L(t).depNode ELSE L(t).node
Hold(t, n) == launch' = [launch EXCEPT ![t] = IF ForDependency(t) THEN [@ EXCEPT !.depNode = n]
                                              ELSE [@ EXCEPT !.node = n]]

Finish(t) ==
    /\ Return(t)
    /\ launch' = [launch EXCEPT ![t] = NoLaunch]
(* LaunchAppDebug puts g_debugNextApplication back.                         *)
Fail(t) ==
    /\ Finish(t)
    /\ debugNext' = (debugNext \/ thread[t].job.prevdbg)

IsApp(t) == ~ForDependency(t) /\ thread[t].job.title \in Apps
LoadsDependencies(t) == IsApp(t)
NotifiesTermination(t) == IsApp(t)      \* NS launches applications with this flag

-----------------------------------------------------------------------------
(* The commands.  LaunchJob is what launchTitleImplWrapper is called with.  *)

Refused(title) == preparingForReboot \/ (runningApplicationData # Null /\ title \in Apps)
LaunchJob(title) == [NoJob EXCEPT !.op = "launch", !.title = title]
Begins(t, job) == thread' = [thread EXCEPT ![t] = [pc |-> "check", job |-> job]]

(* LaunchTitle.  A title that is in the list is not launched again, and is  *)
(* no longer ended when nothing depends on it.  The flag is cleared after   *)
(* the list is unlocked.                                                    *)
LaunchTitle(title) ==
    LET found == Find(title)
        debugged == debugNext /\ title \in Apps
        job == [LaunchJob(title) EXCEPT !.debugged = debugged]
    IN  /\ Offered("LaunchTitle") /\ ~Refused(title)
        /\ Section("service")
        /\ IF found # Null
           THEN /\ thread' = [thread EXCEPT !["service"].pc = "found"]
                /\ launch' = [launch EXCEPT !["service"].node = found]
           ELSE /\ IF title \in Apps /\ ~debugged THEN Submit(job) ELSE Begins("service", job)
                /\ UNCHANGED launch
        /\ UNCHANGED <<shared, flags, events, panicked, monitor, environment, debugNext>>
LaunchFound(t) ==
    /\ At(t, "found")
    /\ procs' = WithoutFlags(procs, L(t).node, {"autoloaded"})
    /\ Finish(t)
    /\ UNCHANGED <<list, freeList, runningApplicationData, debugData, flags, events, lock,
                   panicked, monitor, environment, debugNext>>

(* LaunchTitleUpdate does not look whether the title is in the list.        *)
LaunchTitleUpdate(title) ==
    LET job == [LaunchJob(title) EXCEPT !.debugged = debugNext]
    IN  /\ Offered("LaunchTitleUpdate") /\ title \in Apps
        /\ ~preparingForReboot /\ runningApplicationData = Null
        /\ Section("service")
        /\ IF debugNext THEN Begins("service", job) ELSE Submit(job)
        /\ UNCHANGED <<shared, flags, events, panicked, launch, monitor, environment, debugNext>>

(* LaunchAppDebug: the application is run in the service thread, paused for *)
(* the debugger; a queued process is run instead when there is one.         *)
LaunchAppDebug(title) ==
    /\ Offered("LaunchAppDebug") /\ title \in Apps
    /\ debugData = Null /\ runningApplicationData = Null
    /\ Section("service")
    /\ debugNext' = FALSE
    /\ Begins("service", [LaunchJob(title) EXCEPT !.prevdbg = debugNext])
    /\ UNCHANGED <<shared, flags, events, panicked, launch, monitor, environment>>

DebugNextApplicationByForce ==
    /\ Offered("DebugNextApplicationByForce") /\ ~debugNext
    /\ debugNext' = TRUE
    /\ UNCHANGED <<vars, requests>>

(* RunQueuedProcess *)
RunQueuedProcess ==
    LET n == debugData
        app == "application" \in procs[n].flags
        runs == life[procs[n].pid] = "created"
    IN  /\ Offered("RunQueuedProcess") /\ n # Null
        /\ ~(app /\ runningApplicationData # Null)
        /\ Section("service")
        /\ debugData' = Null
        /\ life' = IF runs THEN [life EXCEPT ![procs[n].pid] = "running"] ELSE Killed(PidsOf({n}))
        /\ procs' = IF runs THEN procs ELSE WithoutFlags(procs, n, {"notify"})
        /\ runningApplicationData' = IF runs /\ app THEN n ELSE runningApplicationData
        /\ UNCHANGED <<list, freeList, flags, events, panicked, thread, launch, monitor,
                       registered, announced, debugNext>>

(* The end of ChainloadHomebrewDirtyAsync: once the monitor has cleaned the *)
(* application up, LaunchTitle again, in the task thread, pretending to     *)
(* load dependencies.                                                       *)
Relaunch(t) ==
    LET title == thread[t].job.title
        job == [LaunchJob(title) EXCEPT !.fake = TRUE, !.debugged = debugNext]
        found == Find(title)
    IN  /\ At(t, "reap") /\ runningApplicationData = Null
        /\ Section(t)
        /\ \/ /\ preparingForReboot
              /\ Return(t) /\ UNCHANGED launch
           \/ /\ ~preparingForReboot /\ found # Null
              /\ thread' = [thread EXCEPT ![t].pc = "found"]
              /\ launch' = [launch EXCEPT ![t].node = found]
           \/ /\ ~preparingForReboot /\ found = Null
              /\ Begins(t, job) /\ UNCHANGED launch
        /\ UNCHANGED <<shared, flags, events, panicked, monitor, environment, debugNext>>

-----------------------------------------------------------------------------
(* launchTitleImplWrapper, launchTitleImpl and loadWithoutDependencies      *)

Check(t) ==
    /\ At(t, "check")
    /\ Section(t)
    /\ IF runningApplicationData # Null /\ thread[t].job.title \in Apps THEN Fail(t)
       ELSE Goto(t, "load") /\ UNCHANGED <<launch, debugNext>>
    /\ UNCHANGED <<shared, flags, events, panicked, monitor, environment>>

(* What follows a failed launch: the caller gets the error; a failed        *)
(* dependency without a process is passed over.                             *)
GiveUp(t) == IF ForDependency(t)
             THEN /\ Goto(t, "dependencies")
                  /\ launch' = [launch EXCEPT ![t].dep = "none", ![t].failed = TRUE]
                  /\ UNCHANGED debugNext
             ELSE Fail(t)

(* The program is not registered, or has no header.                         *)
RegisterFails(t) ==
    /\ At(t, "load") /\ "register" \in Failures
    /\ GiveUp(t)
    /\ UNCHANGED <<shared, flags, events, lock, panicked, monitor, environment>>

(* LOADER_LoadProcess fails: launchTitleImpl goes to its cleanup label,     *)
(* which unlocks the list.                                                  *)
LoadFails(t) ==
    /\ At(t, "load") /\ "load" \in Failures
    /\ UnlockOnly(1)
    /\ GiveUp(t)
    /\ UNCHANGED <<shared, flags, events, panicked, monitor, environment>>

NextPid == Cardinality({p \in Pids : life[p] # "none"}) + 1
Load(t) ==
    LET process == [pid |-> NextPid, title |-> loading(t), flags |-> {}, status |-> "running",
                    refcount |-> 1]
    IN  /\ At(t, "load") /\ NextPid <= MaxPid
        /\ Section(t)
        /\ IF freeList = <<>>
           THEN panicked' = TRUE /\ UNCHANGED <<procs, list, freeList, launch, thread, life,
                                                newProcessEvent>>
           ELSE /\ procs' = [procs EXCEPT ![NewNode] = process]
                /\ list' = Append(list, NewNode)
                /\ freeList' = Tail(freeList)
                /\ life' = [life EXCEPT ![NextPid] = "created"]
                /\ newProcessEvent' = TRUE
                /\ Hold(t, NewNode)
                /\ Goto(t, "set up")
                /\ UNCHANGED panicked
        /\ UNCHANGED <<runningApplicationData, debugData, flags, allNotifiedTerminationEvent,
                       monitor, registered, announced, debugNext>>

(* fs:REG, srv:pm and the kernel are told of the process.                   *)
SetUp(t) ==
    /\ At(t, "set up")
    /\ registered' = registered \cup {procs[held(t)].pid}
    /\ procs' = IF IsApp(t) THEN [procs EXCEPT ![held(t)].flags = @ \cup {"application"}] ELSE procs
    /\ Goto(t, IF LoadsDependencies(t) THEN "merge" ELSE "run")
    /\ UNCHANGED <<list, freeList, runningApplicationData, debugData, flags, events, lock,
                   panicked, launch, monitor, life, announced, debugNext>>
(* One of these calls fails: the process is ended, and for a dependency     *)
(* the one it was loaded for too, each on its way through `cleanup'.        *)
SetUpFails(t) ==
    /\ At(t, "set up") /\ "set up" \in Failures
    /\ UnlockOnly(IF ForDependency(t) THEN 2 ELSE 1)
    /\ life' = Killed(PidsOf({held(t), L(t).node}))
    /\ Fail(t)
    /\ UNCHANGED <<shared, flags, events, panicked, monitor, registered, announced>>

-----------------------------------------------------------------------------
(* loadWithDependencies                                                     *)

(* listMergeUniqueDependencies: titles not met before are looked for in the *)
(* list; one more reference to each that is there, and one to be added      *)
(* later to each that is not.                                               *)
MetAfter(l, deps) == [d \in Titles |-> IF d \in deps /\ l.met[d] = NotMet THEN Find(d)
                                       ELSE l.met[d]]
Merged(l, deps) ==
    LET met == MetAfter(l, deps)
    IN  [l EXCEPT !.met = met,
                  !.rem = [d \in Titles |-> IF d \in deps /\ met[d] = Null THEN @[d] + 1 ELSE @[d]]]
MetAmong(l, deps) == {MetAfter(l, deps)[d] : d \in deps}
Referenced(ps, l, deps) == Incref(ps, MetAmong(l, deps), 1)

MergeOwn(t) ==
    LET deps == Deps[thread[t].job.title]
    IN  /\ At(t, "merge")
        /\ Section(t)
        /\ procs' = IF deps = {} THEN procs
                    ELSE [Referenced(procs, L(t), deps) EXCEPT
                             ![L(t).node].flags = @ \cup {"dependencies loaded"}]
        /\ panicked' = Overflows(procs, MetAmong(L(t), deps), 1)
        /\ launch' = [launch EXCEPT ![t] = Merged(L(t), deps)]
        /\ Goto(t, IF thread[t].job.fake THEN "run" ELSE "dependencies")
        /\ UNCHANGED <<list, freeList, runningApplicationData, debugData, flags, events,
                       monitor, environment, debugNext>>

Missing(t) == {d \in Titles : L(t).met[d] = Null /\ d \notin L(t).tried}
NextDependency(t) ==
    /\ At(t, "dependencies")
    /\ \/ /\ Missing(t) = {} /\ ~L(t).failed
          /\ Goto(t, "run") /\ UNCHANGED launch
       \/ \E d \in Missing(t) :
            /\ Goto(t, "load")
            /\ launch' = [launch EXCEPT ![t].dep = d, ![t].tried = @ \cup {d}, ![t].failed = FALSE]
    /\ UNCHANGED <<shared, flags, events, lock, panicked, monitor, environment, debugNext>>
(* When the last dependency was passed over, its error ends the launch.     *)
LastDependencyFailed(t) ==
    /\ At(t, "dependencies") /\ Missing(t) = {} /\ L(t).failed
    /\ UnlockOnly(1)
    /\ life' = Killed(PidsOf({L(t).node}))
    /\ Fail(t)
    /\ UNCHANGED <<shared, flags, events, panicked, monitor, registered, announced>>

(* The dependency runs; only then is it marked, and its own dependencies    *)
(* merged.                                                                  *)
MergeDependency(t) ==
    LET d == L(t).dep
        n == L(t).depNode
        marked == [procs EXCEPT ![n].flags = @ \cup {"autoloaded", "dependencies loaded"}]
        counted == Incref(marked, {n}, L(t).rem[d] - 1)
        l == [L(t) EXCEPT !.met[d] = n, !.rem[d] = 0, !.dep = "none", !.depNode = Null]
    IN  /\ At(t, "merge dependency")
        /\ Section(t)
        /\ procs' = Referenced(counted, l, Deps[d])
        /\ panicked' = \/ Overflows(marked, {n}, L(t).rem[d] - 1)
                       \/ Overflows(counted, MetAmong(l, Deps[d]), 1)
        /\ launch' = [launch EXCEPT ![t] = Merged(l, Deps[d])]
        /\ Goto(t, "dependencies")
        /\ UNCHANGED <<list, freeList, runningApplicationData, debugData, flags, events,
                       monitor, environment, debugNext>>

(* The end of launchTitleImpl: the process runs, or waits for a debugger.   *)
(* One that was ended meanwhile does not.                                   *)
RunningAfterIgnored(t, n) == runningApplicationData   \* a mutant: it is not remembered
RunningAfter(t, n) == IF IsApp(t) THEN n ELSE runningApplicationData
Run(t) ==
    LET n == held(t)
        p == procs[n].pid
        queued == thread[t].job.debugged /\ ~ForDependency(t)
        fails == IF queued THEN debugData # Null ELSE life[p] # "created"
    IN  /\ At(t, "run")
        /\ lock.tag \in {"none", t}
        /\ lock' = IF ForDependency(t) /\ fails THEN [Unlocked(t) EXCEPT !.counter = @ - 1]
                   ELSE Unlocked(t)
        /\ debugData' = IF queued /\ ~fails THEN n ELSE debugData
        /\ life' = IF fails THEN Killed({p} \cup PidsOf({L(t).node}))
                   ELSE IF queued THEN life ELSE [life EXCEPT ![p] = "running"]
        /\ runningApplicationData' = IF ~queued /\ ~fails THEN RunningAfter(t, n)
                                     ELSE runningApplicationData
        /\ procs' = IF NotifiesTermination(t) /\ ~fails
                    THEN [procs EXCEPT ![n].flags = @ \cup {"notify"}] ELSE procs
        /\ \/ /\ ForDependency(t) /\ ~fails
              /\ Goto(t, "merge dependency") /\ UNCHANGED <<launch, debugNext>>
           \/ /\ ~ForDependency(t) /\ ~fails
              /\ Finish(t) /\ debugNext' = (debugNext /\ ~queued /\ ~thread[t].job.fake)
           \/ fails /\ Fail(t)
        /\ UNCHANGED <<list, freeList, flags, events, panicked, monitor, registered, announced>>

Launching(t) == \/ LaunchFound(t) \/ Relaunch(t) \/ Check(t)
                \/ RegisterFails(t) \/ LoadFails(t) \/ Load(t)
                \/ SetUp(t) \/ SetUpFails(t)
                \/ MergeOwn(t) \/ NextDependency(t) \/ LastDependencyFailed(t)
                \/ MergeDependency(t) \/ Run(t)

LaunchCommand == \/ \E title \in Titles : \/ LaunchTitle(title) \/ LaunchTitleUpdate(title)
                                         \/ LaunchAppDebug(title)
                 \/ RunQueuedProcess

-----------------------------------------------------------------------------
Init == PMInit /\ debugNext = FALSE /\ requests = 0

Request ==
    /\ requests < MaxRequests
    /\ requests' = requests + 1
    /\ \/ TerminationCommand /\ UNCHANGED debugNext
       \/ LaunchCommand

Next ==
    \/ Request
    \/ DebugNextApplicationByForce
    \/ Termination /\ UNCHANGED <<debugNext, requests>>
    \/ \E t \in Workers : Launching(t) /\ UNCHANGED requests

Spec == Init /\ [][Next]_pmvars

(* The threads are scheduled, timeouts pass, and a program that is not      *)
(* stubborn ends when it is asked to.                                       *)
Internal == UNCHANGED <<debugNext, requests>>
Fairness ==
    /\ WF_pmvars(Monitor /\ Internal)
    /\ WF_pmvars(HandOver /\ Internal)
    /\ \A t \in Workers : /\ WF_pmvars(Terminating(t) /\ Internal)
                          /\ WF_pmvars(Launching(t) /\ UNCHANGED requests)
    /\ \A p \in Pids : WF_pmvars(ExitWhenAsked(p) /\ Internal)
FairSpec == Spec /\ Fairness
-----------------------------------------------------------------------------
Launchers == {t \in Workers : thread[t].job.op = "launch"}
Alive(n) == life[procs[n].pid] \in {"created", "running"}

(* Types.  Every node is on one of the two lists, once; a process marked as *)
(* ended has ended.                                                         *)
PMTypeOK ==
    /\ \A n \in Nodes : /\ procs[n].pid \in Pids \cup {0}
                        /\ procs[n].title \in Titles \cup {"none"}
                        /\ procs[n].status \in {"running", "notified", "failed", "terminated"}
                        /\ procs[n].refcount \in 0 .. 255
    /\ IsInjective(list \o freeList) /\ ToSet(list \o freeList) = Nodes
    /\ runningApplicationData \in Nodes \cup {Null} /\ debugData \in Nodes \cup {Null}
    /\ \A n \in Listed : procs[n].status = "terminated" => ~Alive(n)

(* The pointers to the running and to the queued application never outlive  *)
(* the node: it is in the list, or the monitor is cleaning up after it and  *)
(* will clear them.                                                         *)
Cleaning(n) == /\ monitor.pc \in {"dependencies", "clean up"}
               /\ monitor.process.pid = procs[n].pid
PointersListed ==
    \A n \in {runningApplicationData, debugData} \ {Null} : n \in Listed \/ Cleaning(n)

(* The types, the reference counts among them, and the pointers.            *)
PMInv == PMTypeOK /\ PointersListed

(* Two applications never run at once.  It is so when the clients wait for  *)
(* pm; the checks in launchTitleImplWrapper and its callers come before the *)
(* launch, with the list unlocked in between, and two launches may pass     *)
(* them together.                                                           *)
OneApplication ==
    Cardinality({n \in Listed : /\ "application" \in procs[n].flags
                                /\ life[procs[n].pid] = "running"}) <= 1

(* A thread that ends processes within a given time comes back, whatever    *)
(* ends, is launched or goes away meanwhile, as long as nobody unlocked the *)
(* list without having locked it.                                           *)
LockIsFree == lock = [tag |-> "none", counter |-> 0]
TerminationReturns ==
    []LockIsFree =>
        \A t \in Workers :
            (thread[t].pc = "commit" /\ thread[t].job.finite) ~>
            (panicked \/ thread[t].pc \in {"idle", "begin", "reap", "firmlaunch"})

(* The monitor knows of every process that is alive: NS gives a process     *)
(* back only after it has ended.  The event that commitPendingTerminations  *)
(* waits for may come from an iteration of the monitor that began before    *)
(* the processes were notified, and then NS is told too early.              *)
AliveAreListed ==
    \A p \in Pids : life[p] \in {"created", "running"} => p \in PidsOf(Listed)

(* A module's count is never below the number of programs that need it: it  *)
(* is not ended under them.  An application that ended by itself may give   *)
(* its modules back twice, once by TerminateApplication and once from the   *)
(* monitor's copy.                                                          *)
Users(title) == {n \in Listed : /\ procs[n].status # "terminated"
                                /\ "dependencies loaded" \in procs[n].flags
                                /\ title \in Deps[procs[n].title]}
Leaving(title) == /\ monitor.pc = "dependencies"
                  /\ "dependencies loaded" \in monitor.process.flags
                  /\ title \in Deps[monitor.process.title]
References(title) == Cardinality(Users(title)) + (IF Leaving(title) THEN 1 ELSE 0)
Autoloaded == {n \in Listed : "autoloaded" \in procs[n].flags /\ procs[n].status = "running"}
RefcountsCover ==
    Launchers = {} => \A n \in Autoloaded : procs[n].refcount >= References(procs[n].title)
=============================================================================
