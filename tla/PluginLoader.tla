---------------------------- MODULE PluginLoader ----------------------------
(***************************************************************************)
(* Rosalina's plugin loader (rosalina/source/plugin): it puts a plugin's   *)
(* memory into an application as this is launched, swaps it out while the  *)
(* HOME Menu is shown, and takes it back when the application ends.        *)
(*                                                                         *)
(* Five threads meet: the application's, which the kernel extension stops  *)
(* inside a system call until the plugin loader has done its work;         *)
(* rosalina's main thread, which handles commands and notification 0x1001; *)
(* rosalina's task runner; the plugin's own thread in the application; and *)
(* the loader, which asks for the plugin while it creates the process.     *)
(* They share the word at 0x1FF800F0 (cfg), the context of rosalina (ctx)  *)
(* and two words the plugin answers through (plgEvent and plgReply).       *)
(***************************************************************************)
EXTENDS Naturals

CONSTANTS MaxProcs,  \* applications launched, one after the other
          MaxHomes,  \* parameters the applications receive from APT
          MaxSleeps  \* times the console is shut or opened

ASSUME PluginAssumption == MaxProcs \in Nat /\ MaxHomes \in Nat /\ MaxSleeps \in Nat

VARIABLES isN3DS,     \* a New 3DS: nothing is swapped
          cfg,        \* status and events of the word at 0x1FF800F0
          ctx,        \* PluginLoaderCtx
          swapFile,   \* whose memory the swap file holds
          app,        \* the application launched last and its threads
          plg,        \* the plugin's thread: where it is, the event it handles
          pending,    \* notifications 0x1001 rosalina has not taken
          signalled,  \* signalPluginEvent, a one-shot event of the kernel
          main,       \* rosalina's main thread: where it is, the event it asks about
          task,       \* rosalina's task runner
          answer,     \* history: who ended the last wait for a swap
          orderly,    \* history: nothing the loader is not told of has happened
          homes, sleeps

plvars == <<isN3DS, cfg, ctx, swapFile, app, plg, pending, signalled, main, task,
            answer, orderly, homes, sleeps>>

Procs == 1 .. MaxProcs
None == 0
Strategies == {"swap", "mode3", "none"}
Requests == {"swap", "exit", "homeEnter", "homeExit"}

Idle == [pc |-> "idle", ask |-> "ok"]
At(pc, ask) == [pc |-> pc, ask |-> ask]
Up == main.pc \notin {"rebooted", "crashed"}

(* Mounting, locking and unmounting act on the process ctx.target names. *)
TargetAlive == ctx.target # None /\ app.alive

-----------------------------------------------------------------------------
(* What the code's helpers do. *)

(* PLG__SetConfigMemoryStatus writes the whole word: events go. *)
SetStatus(status) == cfg' = [status |-> status, events |-> {}]

(* PLG__NotifyEvent; a plugin may have asked not to be told. *)
Notified(c, event) == IF c.eventsSelfManaged THEN c ELSE [c EXCEPT !.plgEvent = event]

(* Mutant: the hook of SendSyncRequest forgets the application. *)
PublishNothing == signalled' = signalled /\ main' = Idle
(* Publishing 0x1002: the hook of SendSyncRequest signals the kernel event. *)
Publish == signalled' = TRUE /\ main' = Idle

(* Notify and WaitForReply: both do nothing for a self-managed plugin. *)
Ask(event) == /\ ctx' = Notified(ctx, event)
              /\ main' = At(IF ctx.eventsSelfManaged THEN "after" ELSE "clear", event)

(* Mutant: the memory stays with rosalina. *)
KeptMemory(c) == c.memblock
(* A block that is swapped out is free already. *)
FreedMemory(c) == IF c.pluginIsSwapped THEN c.memblock ELSE None
AtEnd(c) ==
    [c EXCEPT !.target = None, !.strategy = "swap", !.eventsSelfManaged = FALSE,
              !.isSwapFunctionset = FALSE, !.pluginIsSwapped = FALSE,
              !.pluginIsHome = FALSE, !.memblock = FreedMemory(c)]
(* Mutant: the word still says that a plugin runs. *)
StatusUnchanged == "running"
StatusAfterEnd == "none"

(* An application that is no more: the kernel drops its mappings and its threads. *)
Ended == [app EXCEPT !.alive = FALSE, !.mounted = FALSE, !.locked = FALSE, !.waiting = {}]

-----------------------------------------------------------------------------
(* The loader asks for the plugin of a process it has just created: command 1.
   The process does not run before the answer. *)
Launched(hooked) == [proc |-> app.proc + 1, alive |-> TRUE, hooked |-> hooked,
                     mounted |-> hooked, locked |-> FALSE, waiting |-> {}]
Launch == /\ main.pc = "idle" /\ ~app.alive /\ app.proc < MaxProcs
          /\ orderly' = (orderly /\ task = "ready" /\ pending = 0)
          /\ UNCHANGED <<isN3DS, swapFile, pending, signalled, task, answer, homes, sleeps>>

(* The loader is off, or there is no file: with parameters the strategy is theirs. *)
LoadNothing ==
    /\ Launch
    /\ \E s \in Strategies : ctx' = [ctx EXCEPT !.plgEvent = "ok", !.target = None, !.strategy = s]
    /\ app' = Launched(FALSE)
    /\ plg' = At("none", "ok")
    /\ UNCHANGED <<cfg, main>>

(* The file is not good, or not for this title, or memory is still in use:
   what was read before the failure stays in the context, the memory goes. *)
LoadFails ==
    /\ Launch
    /\ \E s \in Strategies, self \in BOOLEAN, set \in {ctx.isSwapFunctionset, TRUE} :
          ctx' = [ctx EXCEPT !.plgEvent = "ok", !.target = None, !.strategy = s,
                             !.eventsSelfManaged = self, !.isSwapFunctionset = set,
                             !.memblock = None]
    /\ app' = Launched(FALSE)
    /\ plg' = At("none", "ok")
    /\ UNCHANGED <<cfg, main>>

(* No memory for the block: the console is rebooted. *)
LoadReboots ==
    /\ Launch /\ ctx.memblock = None
    /\ app' = Launched(FALSE)
    /\ main' = At("rebooted", "ok")
    /\ UNCHANGED <<cfg, ctx, plg>>

LoadPlugin ==
    /\ Launch /\ ctx.memblock = None
    /\ \E s \in Strategies, self \in BOOLEAN, set \in {ctx.isSwapFunctionset, TRUE} :
          ctx' = [ctx EXCEPT !.plgEvent = "ok", !.target = app.proc + 1, !.strategy = s,
                             !.eventsSelfManaged = self, !.isSwapFunctionset = set,
                             !.memblock = app.proc + 1]
    /\ SetStatus("running")
    /\ app' = Launched(TRUE)
    /\ plg' = At("loop", "ok")
    /\ UNCHANGED main

-----------------------------------------------------------------------------
(* The application, in the kernel extension. *)

(* PLG_SignalEvent: the event into the word, notification 0x1001, and a wait. *)
Signal(event) ==
    /\ cfg' = [cfg EXCEPT !.events = @ \cup {event}]
    /\ pending' = pending + 1
    /\ app' = [app EXCEPT !.waiting = @ \cup {event}]
    /\ orderly' = (orderly /\ app.waiting = {})

(* The hook of APT:ReceiveParameter. COMMAND_RESPONSE counts while the plugin
   runs; in HOME every command does, for the condition on it is always true. *)
ReceiveParameter ==
    /\ app.alive /\ "home" \notin app.waiting /\ homes < MaxHomes
    /\ cfg.status \in {"running", "inhome"}
    /\ Signal("home")
    /\ homes' = homes + 1
    /\ UNCHANGED <<isN3DS, ctx, swapFile, plg, signalled, main, task, answer, sleeps>>

(* ExitProcessHook: rosalina is told, if the plugin runs. *)
ExitSignals ==
    /\ app.alive /\ "exit" \notin app.waiting
    /\ app.hooked /\ cfg.status = "running"
    /\ Signal("exit")
    /\ UNCHANGED <<isN3DS, ctx, swapFile, plg, signalled, main, task, answer, homes, sleeps>>

(* Any other end: ExitProcess in HOME, or a process terminated from outside. *)
Ends ==
    /\ app.alive
    /\ app' = Ended
    /\ plg' = At("none", "ok")
    /\ orderly' = (orderly /\ ~app.hooked)
    /\ UNCHANGED <<isN3DS, cfg, ctx, swapFile, pending, signalled, main, task, answer, homes, sleeps>>

(* The one-shot event lets one thread go on; the one that exits ends the process. *)
AppGoesOn(event) ==
    /\ event \in app.waiting /\ signalled
    /\ signalled' = FALSE
    /\ app' = IF event = "exit" THEN Ended ELSE [app EXCEPT !.waiting = @ \ {event}]
    /\ plg' = IF event = "exit" THEN At("none", "ok") ELSE plg
    /\ UNCHANGED <<isN3DS, cfg, ctx, swapFile, pending, main, task, answer, orderly, homes, sleeps>>

-----------------------------------------------------------------------------
(* Rosalina's main thread: PluginLoader__HandleKernelEvent. *)
unhandled == <<isN3DS, plg, orderly, homes, sleeps>>

(* Mutant: it is not waited for. *)
TakeAnyTime == main.pc = "idle" /\ pending' = pending - 1
TakeNotification == main.pc = "idle" /\ pending > 0 /\ pending' = pending - 1

HandleOther ==
    /\ TakeNotification
    /\ cfg.status = "exiting" \/ cfg.events \notin {{"exit"}, {"home"}}
    /\ Publish
    /\ UNCHANGED <<unhandled, cfg, ctx, swapFile, app, task, answer>>

HandleExit ==
    /\ TakeNotification
    /\ cfg.status # "exiting" /\ cfg.events = {"exit"}
    /\ SetStatus("exiting")
    /\ IF ctx.pluginIsSwapped THEN main' = At("after", "exit") /\ UNCHANGED ctx ELSE Ask("exit")
    /\ UNCHANGED <<unhandled, swapFile, app, signalled, task, answer>>

Home == TakeNotification /\ cfg.status # "exiting" /\ cfg.events = {"home"}
Swaps == ctx.strategy = "swap" /\ ~isN3DS

HandleSwapOut ==
    /\ Home /\ Swaps /\ ~ctx.pluginIsSwapped
    /\ Ask("swap")
    /\ answer' = "none"
    /\ UNCHANGED <<unhandled, cfg, swapFile, app, signalled, task>>

(* The memory is allocated again, read from the file and mounted, or the console reboots. *)
HandleSwapIn ==
    /\ Home /\ Swaps /\ ctx.pluginIsSwapped
    /\ \/ /\ ctx' = [ctx EXCEPT !.memblock = swapFile]
          /\ app' = [app EXCEPT !.mounted = @ \/ TargetAlive]
          /\ main' = At("unlock", "swap")
       \/ main' = At("rebooted", "swap") /\ UNCHANGED <<ctx, app>>
    /\ UNCHANGED <<unhandled, cfg, swapFile, signalled, task, answer>>

(* Without swapping the plugin is told only if its header says so. *)
HandleHome ==
    /\ Home /\ ~Swaps
    /\ LET request == IF ctx.pluginIsHome THEN "homeExit" ELSE "homeEnter" IN
       \/ ctx.memblock # None /\ Ask(request)
       \/ main' = At("after", request) /\ UNCHANGED ctx
    /\ UNCHANGED <<unhandled, cfg, swapFile, app, signalled, task, answer>>

(* PLG__WaitForReply, an instruction at a time. *)
ClearReply ==
    /\ main.pc = "clear"
    /\ ctx' = [ctx EXCEPT !.plgReply = "wait"]
    /\ main' = [main EXCEPT !.pc = "arbitrate"]
    /\ UNCHANGED <<unhandled, cfg, swapFile, app, pending, signalled, task, answer>>

(* The timeout is read from the plugin's header: there must be one. *)
Arbitrate ==
    /\ main.pc = "arbitrate"
    /\ main' = [main EXCEPT !.pc = IF ctx.memblock = None THEN "crashed"
                                   ELSE IF ctx.plgReply = "ok" THEN "after" ELSE "blocked"]
    /\ UNCHANGED <<unhandled, cfg, ctx, swapFile, app, pending, signalled, task, answer>>

(* Ten seconds without an answer. *)
TimesOut ==
    /\ main.pc = "blocked"
    /\ main' = [main EXCEPT !.pc = "after"]
    /\ answer' = "timeout"
    /\ UNCHANGED <<unhandled, cfg, ctx, swapFile, app, pending, signalled, task>>

(* TaskRunner_RunTask waits until the runner is ready. *)
Submit ==
    /\ main = At("after", "exit") /\ task = "ready"
    /\ task' = "waiting"
    /\ Publish
    /\ UNCHANGED <<unhandled, cfg, ctx, swapFile, app, pending, answer>>

ToggleHome ==
    /\ main.pc = "after" /\ main.ask \in {"homeEnter", "homeExit"}
    /\ SetStatus(IF ctx.pluginIsHome THEN "running" ELSE "inhome")
    /\ ctx' = [ctx EXCEPT !.pluginIsHome = ~@]
    /\ Publish
    /\ UNCHANGED <<unhandled, swapFile, app, pending, task, answer>>

(* Mutant: the threads go on while their memory is put away. *)
LocksNothing == FALSE
(* SCHEDULE_THREADS picks the threads that have the plugin's mark. *)
LocksThreads == TargetAlive /\ app.hooked
Lock ==
    /\ main = At("after", "swap")
    /\ app' = [app EXCEPT !.locked = @ \/ LocksThreads]
    /\ main' = At("save", "swap")
    /\ UNCHANGED <<unhandled, cfg, ctx, swapFile, pending, signalled, task, answer>>

Save ==
    /\ main.pc = "save"
    /\ ctx.memblock # None /\ ctx.isSwapFunctionset
    /\ app' = [app EXCEPT !.mounted = @ /\ ~TargetAlive]
    /\ swapFile' = ctx.memblock
    /\ ctx' = [ctx EXCEPT !.memblock = None, !.pluginIsSwapped = TRUE]
    /\ SetStatus("inhome")
    /\ Publish
    /\ UNCHANGED <<unhandled, pending, task, answer>>

(* The card fails, or the plugin gave no function to save with. *)
SaveFails ==
    /\ main.pc = "save"
    /\ main' = At("rebooted", "swap")
    /\ UNCHANGED <<unhandled, cfg, ctx, swapFile, app, pending, signalled, task, answer>>

Unlock ==
    /\ main.pc = "unlock"
    /\ app' = [app EXCEPT !.locked = @ /\ ~TargetAlive]
    /\ ctx' = [Notified(ctx, "ok") EXCEPT !.pluginIsSwapped = FALSE]
    /\ plg' = IF plg.pc = "parked" /\ ~ctx.eventsSelfManaged THEN At("loop", "ok") ELSE plg
    /\ SetStatus("running")
    /\ Publish
    /\ UNCHANGED <<isN3DS, swapFile, pending, task, answer, orderly, homes, sleeps>>

(* Command 12, from the plugin: its functions to swap with, or none of them. *)
SetSwapSettings ==
    /\ main.pc = "idle" /\ app.alive /\ app.hooked /\ ~app.locked
    /\ \E set \in BOOLEAN : ctx' = [ctx EXCEPT !.isSwapFunctionset = set]
    /\ UNCHANGED <<unhandled, cfg, swapFile, app, pending, signalled, main, task, answer>>

(* Sleep__HandleNotification: the same word tells the plugin of this too. *)
HandleSleep ==
    /\ main.pc = "idle" /\ cfg.status = "running" /\ sleeps < MaxSleeps
    /\ ctx' = Notified(ctx, "sleep")
    /\ sleeps' = sleeps + 1
    /\ UNCHANGED <<isN3DS, cfg, swapFile, app, plg, pending, signalled, main, task, answer, orderly, homes>>

-----------------------------------------------------------------------------
(* WaitForProcessTerminated, on the task runner. Fifty polls outlast a process
   that is ending; one whose thread was never awoken outlasts them. *)
WaitForProcessTerminated ==
    /\ task = "waiting"
    /\ ~app.alive \/ ctx.target = None \/ ~signalled
    /\ app' = [app EXCEPT !.mounted = @ /\ (ctx.pluginIsSwapped \/ ~TargetAlive)]
    /\ ctx' = AtEnd(ctx)
    /\ SetStatus(StatusAfterEnd)
    /\ task' = "ready"
    /\ UNCHANGED <<isN3DS, swapFile, plg, pending, signalled, main, answer, orderly, homes, sleeps>>

-----------------------------------------------------------------------------
(* The plugin's thread: PLGLDR__Status of the library it is built with. *)
PluginRuns == app.alive /\ app.hooked /\ ~app.locked
unplugged == <<isN3DS, cfg, swapFile, app, pending, signalled, task, orderly, homes, sleeps>>

PluginReads ==
    /\ PluginRuns /\ plg.pc = "loop" /\ ctx.plgEvent \notin {"ok", "wait"}
    /\ plg' = At("handling", ctx.plgEvent)
    /\ UNCHANGED <<unplugged, ctx, main, answer>>

PluginReplies ==
    /\ PluginRuns /\ plg.pc = "handling"
    /\ ctx' = [ctx EXCEPT !.plgReply = "ok"]
    /\ plg' = [plg EXCEPT !.pc = "replied"]
    /\ answer' = IF plg.ask = "swap" THEN "plugin" ELSE answer
    /\ UNCHANGED <<unplugged, main>>

PluginClears ==
    /\ PluginRuns /\ plg.pc = "replied"
    /\ ctx' = [ctx EXCEPT !.plgEvent = "wait"]
    /\ plg' = IF plg.ask = "sleep" THEN At("loop", "ok") ELSE [plg EXCEPT !.pc = "cleared"]
    /\ UNCHANGED <<unplugged, main, answer>>

(* The signal, and after a swap the wait for the word to change. *)
PluginSignals ==
    /\ PluginRuns /\ plg.pc = "cleared"
    /\ main' = IF main.pc = "blocked" THEN [main EXCEPT !.pc = "after"] ELSE main
    /\ plg' = IF plg.ask = "swap" THEN IF ctx.plgEvent = "wait" THEN At("parked", "swap") ELSE At("loop", "ok")
              ELSE IF plg.ask = "exit" THEN At("none", "ok") ELSE At("loop", "ok")
    /\ UNCHANGED <<unplugged, ctx, answer>>

-----------------------------------------------------------------------------
PluginInit ==
    /\ isN3DS \in BOOLEAN
    /\ cfg = [status |-> "none", events |-> {}]
    /\ ctx = [target |-> None, strategy |-> "swap", eventsSelfManaged |-> FALSE,
              isSwapFunctionset |-> FALSE, pluginIsSwapped |-> FALSE, pluginIsHome |-> FALSE,
              memblock |-> None, plgEvent |-> "ok", plgReply |-> "ok"]
    /\ app = [proc |-> None, alive |-> FALSE, hooked |-> FALSE, mounted |-> FALSE,
              locked |-> FALSE, waiting |-> {}]
    /\ plg = At("none", "ok") /\ main = Idle /\ task = "ready"
    /\ swapFile = None /\ pending = 0 /\ signalled = FALSE
    /\ answer = "none" /\ orderly = TRUE /\ homes = 0 /\ sleeps = 0

(* What rosalina's main thread does of itself, once there is something to handle. *)
MainThread == \/ HandleOther \/ HandleExit \/ HandleSwapOut \/ HandleSwapIn \/ HandleHome
              \/ ClearReply \/ Arbitrate \/ TimesOut \/ Submit \/ ToggleHome
              \/ Lock \/ Save \/ SaveFails \/ Unlock
Application == \/ ReceiveParameter \/ ExitSignals \/ Ends
               \/ \E event \in {"home", "exit"} : AppGoesOn(event)
PluginThread == PluginReads \/ PluginReplies \/ PluginClears \/ PluginSignals
Loader == LoadNothing \/ LoadFails \/ LoadReboots \/ LoadPlugin

PluginNext == Up /\ \/ MainThread \/ Application \/ PluginThread \/ Loader
                    \/ SetSwapSettings \/ HandleSleep \/ WaitForProcessTerminated

PluginSpec == PluginInit /\ [][PluginNext]_plvars

(* Rosalina's threads and an awoken thread of the application are scheduled; a
   plugin need not answer, an application need not do anything. *)
PluginFairSpec == /\ PluginSpec
                  /\ WF_plvars(Up /\ MainThread)
                  /\ WF_plvars(Up /\ WaitForProcessTerminated)
                  /\ \A event \in {"home", "exit"} : WF_plvars(Up /\ AppGoesOn(event))

-----------------------------------------------------------------------------
Contexts ==
    [target : Procs \cup {None}, strategy : Strategies, eventsSelfManaged : BOOLEAN,
     isSwapFunctionset : BOOLEAN, pluginIsSwapped : BOOLEAN, pluginIsHome : BOOLEAN,
     memblock : Procs \cup {None}, plgEvent : Requests \cup {"ok", "wait", "sleep"},
     plgReply : {"ok", "wait"}]
Apps == [proc : Procs \cup {None}, alive : BOOLEAN, hooked : BOOLEAN, mounted : BOOLEAN,
         locked : BOOLEAN, waiting : SUBSET {"home", "exit"}]

(* Every variable has its type. *)
PluginTypeOK ==
    /\ isN3DS \in BOOLEAN
    /\ cfg \in [status : {"none", "running", "inhome", "exiting"}, events : SUBSET {"home", "exit"}]
    /\ ctx \in Contexts /\ app \in Apps
    /\ plg \in [pc : {"none", "loop", "handling", "replied", "cleared", "parked"},
                ask : Requests \cup {"ok", "sleep"}]
    /\ main \in [pc : {"idle", "clear", "arbitrate", "blocked", "after", "save", "unlock",
                       "rebooted", "crashed"}, ask : Requests \cup {"ok"}]
    /\ task \in {"ready", "waiting"} /\ answer \in {"none", "plugin", "timeout"}
    /\ swapFile \in Procs \cup {None} /\ pending \in Nat
    /\ signalled \in BOOLEAN /\ orderly \in BOOLEAN
    /\ homes \in 0 .. MaxHomes /\ sleeps \in 0 .. MaxSleeps

(* A plugin whose threads may run has its memory mounted, and the memory holds
   what is its own, not what another process left in the swap file; and it is
   only left locked while it is swapped out (HandleKernelEvent). *)
PluginRunsInItsMemory ==
    orderly => /\ PluginRuns => app.mounted /\ ctx.memblock = app.proc
               /\ app.locked /\ main.pc = "idle" => ctx.pluginIsSwapped /\ cfg.status = "inhome"

(* Whenever rosalina waits for a plugin's reply there is a plugin's header to
   take the timeout from: WaitForReply reads it without a check. *)
HeaderForReply == orderly => main.pc # "crashed"

(* The types, and what a plugin and rosalina rely on: its memory, its header. *)
PluginInv == PluginTypeOK /\ PluginRunsInItsMemory /\ HeaderForReply

(* A thread of the application stopped in PLG_SignalEvent goes on, whether the
   plugin answers or not. *)
AppThreadsWake == orderly /\ app.waiting # {} ~> app.waiting = {} \/ ~orderly \/ ~Up

(* When an application has ended its plugin's memory is given back and the
   loader's state is as it was before it was launched. *)
Forgotten == /\ ctx.memblock = None /\ ctx.target = None /\ cfg.status = "none"
             /\ ~ctx.pluginIsSwapped /\ ~ctx.pluginIsHome
EndIsCleanedUp == ~app.alive ~> Forgotten \/ ~orderly \/ ~Up

(* As EndIsCleanedUp, however the application ends: the kernel is asked "to
   signal when the process is about to be terminated" (file_loader.c:942). *)
EveryEndIsCleanedUp == ~app.alive ~> Forgotten \/ app.alive \/ ~Up

(* A plugin is locked for a swap when it has answered that it is about to be
   swapped, or has had its ten seconds ("Wait for plugin reply"). *)
LockedWhenAnswered ==
    [][~app.locked /\ app'.locked => answer # "none" \/ ctx.eventsSelfManaged]_plvars
=============================================================================
