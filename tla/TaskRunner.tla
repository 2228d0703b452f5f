----------------------------- MODULE TaskRunner -----------------------------
(***************************************************************************)
(* pm's task runner (task_runner.c): the service thread hands one task at  *)
(* a time to a second thread, through one argument buffer and two one-shot *)
(* events.  The task works on the buffer itself, not on a copy, for as     *)
(* long as it runs.                                                        *)
(*                                                                         *)
(* Every statement that touches shared state is a step of its own.         *)
(***************************************************************************)
EXTENDS Naturals

CONSTANT NbTasks    \* bounds the tasks the service thread submits

ASSUME TasksAssumption == NbTasks \in Nat

VARIABLES
    readyEvent, parametersSetEvent,    \* LightEvents, RESET_ONESHOT
    task, argStorage,                  \* 0, or the number of the task they are for
    shouldTerminate,
    callerPc,      \* the service thread, in TaskRunner_RunTask
    submitting,    \* the task it is submitting, or the last one
    runnerPc,      \* TaskRunner_HandleTasks
    running        \* the task whose function was called last

trvars == <<readyEvent, parametersSetEvent, task, argStorage, shouldTerminate,
            callerPc, submitting, runnerPc, running>>

TaskInit ==
    /\ readyEvent = FALSE /\ parametersSetEvent = FALSE
    /\ task = 0 /\ argStorage = 0
    /\ shouldTerminate = FALSE
    /\ callerPc = "idle" /\ submitting = 0
    /\ runnerPc = "loop" /\ running = 0

runnerVars == <<runnerPc, running>>

(* The service thread.  TaskRunner_Terminate submits a last, empty task.    *)
RunTask ==
    /\ callerPc = "idle" /\ submitting < NbTasks /\ ~shouldTerminate
    /\ submitting' = submitting + 1
    /\ callerPc' = "waitReady"
    /\ UNCHANGED <<readyEvent, parametersSetEvent, task, argStorage, shouldTerminate,
                   runnerVars>>

Terminate ==
    /\ callerPc = "idle" /\ submitting < NbTasks /\ ~shouldTerminate
    /\ shouldTerminate' = TRUE
    /\ submitting' = submitting + 1
    /\ callerPc' = "waitReady"
    /\ UNCHANGED <<readyEvent, parametersSetEvent, task, argStorage, runnerVars>>

WaitNothing ==   \* a mutant of WaitReady: the event is not waited for
    /\ callerPc = "waitReady"
    /\ callerPc' = "setTask"
    /\ UNCHANGED <<readyEvent, parametersSetEvent, task, argStorage, shouldTerminate,
                   submitting, runnerVars>>
WaitReady ==
    /\ callerPc = "waitReady" /\ readyEvent
    /\ readyEvent' = FALSE
    /\ callerPc' = "setTask"
    /\ UNCHANGED <<parametersSetEvent, task, argStorage, shouldTerminate, submitting,
                   runnerVars>>

SetTask ==
    /\ callerPc = "setTask"
    /\ task' = submitting
    /\ callerPc' = "copyArgs"
    /\ UNCHANGED <<readyEvent, parametersSetEvent, argStorage, shouldTerminate, submitting,
                   runnerVars>>

CopyArgs ==
    /\ callerPc = "copyArgs"
    /\ argStorage' = submitting
    /\ callerPc' = "signal"
    /\ UNCHANGED <<readyEvent, parametersSetEvent, task, shouldTerminate, submitting,
                   runnerVars>>

SignalNothing ==   \* a mutant of SignalParameters
    /\ callerPc = "signal"
    /\ callerPc' = "idle"
    /\ UNCHANGED <<readyEvent, parametersSetEvent, task, argStorage, shouldTerminate,
                   submitting, runnerVars>>
SignalParameters ==
    /\ callerPc = "signal"
    /\ parametersSetEvent' = TRUE
    /\ callerPc' = "idle"
    /\ UNCHANGED <<readyEvent, task, argStorage, shouldTerminate, submitting, runnerVars>>

(* The runner thread.                                                       *)
LoopTest ==
    /\ runnerPc = "loop"
    /\ runnerPc' = IF shouldTerminate THEN "done" ELSE "signalReady"
    /\ UNCHANGED <<readyEvent, parametersSetEvent, task, argStorage, shouldTerminate,
                   callerPc, submitting, running>>

SignalReady ==
    /\ runnerPc = "signalReady"
    /\ readyEvent' = TRUE
    /\ runnerPc' = "waitParameters"
    /\ UNCHANGED <<parametersSetEvent, task, argStorage, shouldTerminate, callerPc,
                   submitting, running>>

WaitParameters ==
    /\ runnerPc = "waitParameters" /\ parametersSetEvent
    /\ parametersSetEvent' = FALSE
    /\ runnerPc' = "call"
    /\ UNCHANGED <<readyEvent, task, argStorage, shouldTerminate, callerPc, submitting,
                   running>>

CallTask ==
    /\ runnerPc = "call"
    /\ running' = task
    /\ runnerPc' = "inTask"
    /\ UNCHANGED <<readyEvent, parametersSetEvent, task, argStorage, shouldTerminate,
                   callerPc, submitting>>

TaskReturns ==
    /\ runnerPc = "inTask"
    /\ runnerPc' = "loop"
    /\ UNCHANGED <<readyEvent, parametersSetEvent, task, argStorage, shouldTerminate,
                   callerPc, submitting, running>>

Caller == RunTask \/ Terminate \/ WaitReady \/ SetTask \/ CopyArgs \/ SignalParameters
Runner == LoopTest \/ SignalReady \/ WaitParameters \/ CallTask \/ TaskReturns

TaskNext == Caller \/ Runner

TaskSpec == TaskInit /\ [][TaskNext]_trvars

(* Both threads go on as long as they can, and a task returns.              *)
CallerGoesOn == WaitReady \/ SetTask \/ CopyArgs \/ SignalParameters
TaskFairSpec == TaskSpec /\ WF_trvars(CallerGoesOn) /\ WF_trvars(Runner)
-----------------------------------------------------------------------------
CallerPcs == {"idle", "waitReady", "setTask", "copyArgs", "signal"}
RunnerPcs == {"loop", "signalReady", "waitParameters", "call", "inTask", "done"}

RunnerTypeOK ==
    /\ readyEvent \in BOOLEAN /\ parametersSetEvent \in BOOLEAN
    /\ task \in 0 .. NbTasks /\ argStorage \in 0 .. NbTasks
    /\ shouldTerminate \in BOOLEAN
    /\ callerPc \in CallerPcs /\ submitting \in 0 .. NbTasks
    /\ runnerPc \in RunnerPcs /\ running \in 0 .. NbTasks

(* While a task runs, the argument buffer it works on is its own: the       *)
(* service thread may be submitting the next one, but has not begun to      *)
(* write the buffer.                                                        *)
ArgsStable == runnerPc = "inTask" => task = running /\ argStorage = running

(* Tasks are run in the order they were submitted, each one once.           *)
InOrder == [][running' # running => running' = running + 1]_trvars

(* A task is run in its turn, and on its own arguments (a step at a time).  *)
TasksInTurn == [][ArgsStable' /\ (running' # running => running' = running + 1)]_trvars

(* Whose turn it is: the service thread writes the buffer only while the    *)
(* runner waits for it, after it took the ready event and before it sets    *)
(* the other one.                                                           *)
Writing == callerPc \in {"setTask", "copyArgs", "signal"}
Handoff ==
    /\ Writing \/ readyEvent => runnerPc = "waitParameters" /\ ~parametersSetEvent
    /\ readyEvent => ~Writing
    /\ parametersSetEvent => runnerPc = "waitParameters"

(* What the buffer holds, and which task was called last.                   *)
Delivered == IF callerPc = "idle" THEN submitting ELSE submitting - 1
Contents ==
    /\ callerPc # "idle" => submitting > 0
    /\ task = (IF callerPc \in {"copyArgs", "signal"} THEN submitting ELSE Delivered)
    /\ argStorage = (IF callerPc = "signal" THEN submitting ELSE Delivered)
    /\ running = (IF parametersSetEvent \/ runnerPc = "call" THEN Delivered - 1 ELSE Delivered)

(* The handshake: the types, whose turn it is, and what it makes of the     *)
(* buffer.  It is inductive.                                                *)
RunnerInv == RunnerTypeOK /\ Handoff /\ Contents

(* Every task submitted is run, the one that follows TaskRunner_Terminate   *)
(* excepted.                                                                *)
SubmittedIsRun ==
    \A k \in 1 .. NbTasks :
        submitting = k ~> running = k \/ shouldTerminate
=============================================================================
