----------------------------- MODULE MCRosalina -----------------------------
(***************************************************************************)
(* Three parts of rosalina in one run: the plugin loader, the hooks of the *)
(* input redirection, and Pokebot's controller.  They share no state in    *)
(* the model, so one moves only while the others are as they began.        *)
(***************************************************************************)
EXTENDS PluginLoader, InputHooks, PokebotController

PluginAtRest == PluginInit /\ ~isN3DS
HooksAtRest == HooksInit /\ hooksIr /\ patterns.hid /\ patterns.ir
ControllerAtRest == ControllerInit

Plugin(A) == HooksAtRest /\ ControllerAtRest /\ A /\ UNCHANGED <<hkvars, ctvars>>
Hooks(A) == PluginAtRest /\ ControllerAtRest /\ A /\ UNCHANGED <<plvars, ctvars>>
Controller(A) == PluginAtRest /\ HooksAtRest /\ A /\ UNCHANGED <<plvars, hkvars>>

rosalinaVars == <<plvars, hkvars, ctvars>>
RosalinaInit == PluginInit /\ HooksInit /\ ControllerInit
RosalinaNext == Plugin(PluginNext) \/ Hooks(HooksNext) \/ Controller(ControllerNext)

(* The fairness of PluginFairSpec and of ControllerFairSpec.                *)
RosalinaSpec ==
    /\ RosalinaInit /\ [][RosalinaNext]_rosalinaVars
    /\ WF_rosalinaVars(Plugin(Up /\ MainThread))
    /\ WF_rosalinaVars(Plugin(Up /\ WaitForProcessTerminated))
    /\ \A event \in {"home", "exit"} : WF_rosalinaVars(Plugin(Up /\ AppGoesOn(event)))
    /\ SF_rosalinaVars(Controller(LoopTop))
    /\ WF_rosalinaVars(Controller(DeadlinePasses))
    /\ WF_rosalinaVars(Controller(WakeUp))
=============================================================================
