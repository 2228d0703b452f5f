--------------------------- MODULE ProcessManager ---------------------------
(***************************************************************************)
(* What the three threads of pm share: the list of processes with its      *)
(* lock, the running application, the event terminations wait for, and the *)
(* kernel's and sm's view of the processes.  The operators are the         *)
(* functions of process_data.c, and those of termination.c and info.c that *)
(* work on the list while it is locked.                                    *)
(*                                                                         *)
(* A node of processDataBuffer is a number; a process is known by its pid, *)
(* which also stands for its handle.  A title is a program's title id with *)
(* the bits pm ignores masked off.                                         *)
(***************************************************************************)
EXTENDS Integers, Sequences, FiniteSets, SequencesExt

CONSTANTS
    Titles,     \* programs
    Apps,       \* those launched as the (normal) application
    Kips,       \* built-in modules, there from the start
    Deps,       \* title -> the titles in its dependency list
    NbNodes,    \* processDataBuffer
    MaxPid,     \* bounds the processes created
    Patient     \* whether the clients wait for pm

ASSUME ProcessesAssumption ==
    /\ Apps \subseteq Titles /\ Kips \subseteq Titles
    /\ "none" \notin Titles
    /\ Deps \in [Titles -> SUBSET Titles]
    /\ NbNodes \in Nat /\ MaxPid \in Nat /\ Patient \in BOOLEAN
    /\ IsFiniteSet(Kips) /\ Cardinality(Kips) <= NbNodes /\ Cardinality(Kips) <= MaxPid

VARIABLES
    procs,                  \* node -> ProcessData
    list, freeList,         \* g_manager.processList, first to last
    runningApplicationData, debugData,
    waitingForTermination, preparingForReboot,
    allNotifiedTerminationEvent, newProcessEvent,    \* RESET_ONESHOT
    lock,                   \* the RecursiveLock of the list: thread_tag and counter
    panicked,
    thread,     \* "service" and "task": where the thread is and what it does
    launch,     \* the same two: the locals of launchTitleImpl and loadWithDependencies
    monitor,    \* the locals of processMonitor
    life,       \* pid -> what the kernel knows of the process
    registered, \* pids registered with sm, which can be notified
    announced   \* titles whose end NS was told of and has not acknowledged

shared == <<procs, list, freeList, runningApplicationData, debugData>>
flags == <<waitingForTermination, preparingForReboot>>
events == <<allNotifiedTerminationEvent, newProcessEvent>>
environment == <<life, registered, announced>>
vars == <<shared, flags, events, lock, panicked, thread, launch, monitor, environment>>

Nodes == 1 .. NbNodes
Null == 0
Pids == 1 .. MaxPid
Workers == {"service", "task"}

Blank == [pid |-> 0, title |-> "none", flags |-> {}, status |-> "running", refcount |-> 0]

Listed == ToSet(list)
With(S) == {n \in Listed : procs[n].title \in S}
Find(title) == IF \E n \in Listed : procs[n].title = title
               THEN list[CHOOSE i \in DOMAIN list :
                           /\ procs[list[i]].title = title
                           /\ \A j \in 1 .. i - 1 : procs[list[j]].title # title]
               ELSE Null

(* One or more statements between ProcessList_Lock and ProcessList_Unlock,  *)
(* by thread t.  Unlocking decrements the counter and only lets go when it  *)
(* is then zero.                                                            *)
Unlocked(t) == IF lock.counter = 0 THEN lock ELSE [lock EXCEPT !.tag = t]
Section(t) == lock.tag \in {"none", t} /\ lock' = Unlocked(t)

(* ProcessList_Unlock by a thread that has not locked.                      *)
UnlockOnly(times) == lock' = [lock EXCEPT !.counter = @ - times]

(* ProcessList_New (when there is a node) and ProcessList_Delete.           *)
NewNode == Head(freeList)
FreedNot(n) == freeList   \* a mutant: the node is lost
Unlinked(n) == RemoveAt(list, CHOOSE i \in DOMAIN list : list[i] = n)
Freed(n) == IF freeList = <<>> THEN <<n>> ELSE <<Head(freeList), n>> \o Tail(freeList)

(* ProcessData_SendTerminationNotification: sm refuses only those it does   *)
(* not know.                                                                *)
NotifiedIf(p) == [p EXCEPT !.status = IF p.pid \in registered THEN "notified" ELSE "failed"]
Notified(ps, S) == [n \in Nodes |-> IF n \in S THEN NotifiedIf(ps[n]) ELSE ps[n]]

(* ProcessData_Incref, on the nodes in S.  The count is a byte, and pm      *)
(* panics rather than let it overflow.                                      *)
Counted(p) == "autoloaded" \in p.flags
Fits(p, amount) == p.refcount + amount <= 255
Overflows(ps, S, amount) == \E n \in S \cap Nodes : Counted(ps[n]) /\ ~Fits(ps[n], amount)
Incref(ps, S, amount) ==
    [n \in Nodes |-> IF n \in S /\ Counted(ps[n]) /\ Fits(ps[n], amount)
                     THEN [ps[n] EXCEPT !.refcount = @ + amount] ELSE ps[n]]

(* terminateUnusedDependencies; the count is a byte.                        *)
UsedBy(ps, deps) == {n \in Listed : /\ ps[n].status = "running"
                                    /\ "autoloaded" \in ps[n].flags
                                    /\ ps[n].title \in deps}
Released(ps, deps) ==
    LET used == UsedBy(ps, deps)
        less == [n \in Nodes |-> IF n \in used
                                 THEN [ps[n] EXCEPT !.refcount = (@ + 255) % 256] ELSE ps[n]]
    IN  Notified(less, {n \in used : less[n].refcount = 0})

(* terminateProcessImpl                                                     *)
WithoutFlags(ps, n, fs) == [ps EXCEPT ![n].flags = @ \ fs]
Terminated(ps, n) ==
    IF "dependencies loaded" \in ps[n].flags
    THEN Released(Notified(WithoutFlags(ps, n, {"dependencies loaded"}), {n}),
                  Deps[ps[n].title])
    ELSE Notified(ps, {n})

(* svcTerminateProcess                                                      *)
Killed(pids) == [p \in Pids |-> IF p \in pids /\ life[p] \in {"created", "running"}
                                THEN "dead" ELSE life[p]]
PidsOf(S) == {procs[n].pid : n \in S}

NoJob == [op |-> "none", title |-> "none", finite |-> TRUE, round |-> 1, notify |-> FALSE,
          debugged |-> FALSE, prevdbg |-> FALSE, fake |-> FALSE]
NotMet == -1
NoLaunch == [node |-> Null,                     \* outProcessData
             met |-> [d \in Titles |-> NotMet],  \* dependencies, depProcs
             rem |-> [d \in Titles |-> 0],       \* remrefcounts
             tried |-> {},                      \* dependencies already tried to load
             failed |-> FALSE,                  \* the last of them was not
             dep |-> "none", depNode |-> Null]  \* the one being loaded
Idle == [pc |-> "idle", job |-> NoJob]

Goto(t, pc) == thread' = [thread EXCEPT ![t].pc = pc]
Return(t) == thread' = [thread EXCEPT ![t] = Idle]

(* TaskRunner_RunTask: the service thread waits until the task thread is    *)
(* back in its loop, and hands over the job.                                *)
Submit(job) == thread' = [thread EXCEPT !["service"] = [pc |-> "submit", job |-> job]]
FirstPc(job) == IF job.op = "launch" THEN "check" ELSE "begin"
HandOver ==
    /\ thread["service"].pc = "submit"
    /\ thread["task"].pc = "idle"
    /\ thread' = [service |-> Idle,
                  task |-> [pc |-> FirstPc(thread["service"].job), job |-> thread["service"].job]]
    /\ UNCHANGED <<shared, flags, events, lock, panicked, launch, monitor, environment>>

(* The service thread is at the top of its loop.  Patient clients ask for   *)
(* something only when what was asked before has been done.                 *)
Command == /\ thread["service"].pc = "idle" /\ panicked = FALSE
           /\ Patient => thread["task"].pc = "idle"

(* Manager_Init and Manager_RegisterKips.                                   *)
Starting == SetToSeq(Kips)
PMInit ==
    /\ procs = [n \in Nodes |->
                  IF n > Len(Starting) THEN Blank
                  ELSE [pid |-> n, title |-> Starting[n],
                        flags |-> {"kip"},
                        status |-> "running", refcount |-> 1]]
    /\ list = [i \in 1 .. Len(Starting) |-> i]
    /\ freeList = [i \in 1 .. NbNodes - Len(Starting) |-> Len(Starting) + i]
    /\ runningApplicationData = Null /\ debugData = Null
    /\ waitingForTermination = FALSE /\ preparingForReboot = FALSE
    /\ allNotifiedTerminationEvent = FALSE /\ newProcessEvent = FALSE
    /\ lock = [tag |-> "none", counter |-> 0]
    /\ panicked = FALSE
    /\ thread = [t \in Workers |-> Idle]
    /\ launch = [t \in Workers |-> NoLaunch]
    /\ monitor = [pc |-> "rebuild", handles |-> {}, terminating |-> FALSE, process |-> Blank]
    /\ life = [p \in Pids |-> IF p <= Len(Starting) THEN "running" ELSE "none"]
    /\ registered = 1 .. Len(Starting)
    /\ announced = {}
=============================================================================
