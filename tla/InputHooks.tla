----------------------------- MODULE InputHooks -----------------------------
(***************************************************************************)
(* The hooks rosalina puts into the hid and ir modules so that buttons and *)
(* sticks come from the network (rosalina/source/input_redirection.c).     *)
(* One function both puts them in and takes them out: it goes by flags of  *)
(* its own, and its two users, the stock redirection of the Miscellaneous  *)
(* menu and Pokebot's input controller, each remember what they asked for. *)
(*                                                                         *)
(* The menu thread is the only one that calls it; the redirection's own    *)
(* thread starts late, or not at all, and may end at any time.             *)
(***************************************************************************)
EXTENDS Naturals

CONSTANT MaxFaults   \* calls of the kernel that fail once, for a reason that passes

ASSUME HooksAssumption == MaxFaults \in Nat

VARIABLES hooks,       \* [hid, ir]: what is in the modules' code
          patched,     \* [hid, ir]: hidPatched and irPatched
          patterns,    \* [hid, ir]: whether the code to replace is found in them
          hooksIr,     \* the kernel is recent enough for the hooks of ir
          redirection, \* inputRedirectionEnabled
          listener,    \* the redirection's thread
          started,     \* inputRedirectionThreadStartedEvent and the result with it
          chooser,     \* where the menu thread is in starting or stopping
          controller,  \* [enabled, installed]: Pokebot's flag and sPatchesInstalled
          faults,      \* calls that have failed so far
          asIntended   \* history: no thread ended by itself, no wait ran out, no undo failed,
                       \* and the two users have been kept apart

hkvars == <<hooks, patched, patterns, hooksIr, redirection, listener, started, chooser,
            controller, faults, asIntended>>

Neither == [hid |-> FALSE, ir |-> FALSE]

-----------------------------------------------------------------------------
(* InputRedirection_DoOrUndoPatches: every outcome of a call. Its steps are
   those of one thread, with hid and ir stopped by the kernel. An outcome is
   clean unless hooks that should go could not be taken out. *)
Outcome(h, p, f, ok, clean) ==
    [hooks |-> h, patched |-> p, faults |-> f, ok |-> ok, clean |-> clean]
WithHid(on) == [hooks EXCEPT !.hid = on]
FlagHid(on) == [patched EXCEPT !.hid = on]

(* A module is not found or not mapped, once, or its code is never recognised. *)
FaultsAfter(module, f) == ({f + 1} \cap (0 .. MaxFaults)) \cup IF patterns[module] THEN {} ELSE {f}

(* Mutant: the hid module keeps its hooks. *)
NotRolledBack(toggled, f) == {Outcome(WithHid(toggled), FlagHid(toggled), f, FALSE, TRUE)}
(* The hooks of ir could not be put in: hid's are taken out, which may fail too. *)
RolledBack(toggled, f) ==
    {Outcome(WithHid(FALSE), FlagHid(FALSE), f, FALSE, TRUE)}
    \cup {Outcome(WithHid(toggled), FlagHid(FALSE), g, FALSE, FALSE) : g \in {f + 1} \cap (0 .. MaxFaults)}

ToggleIr(toggled, f) ==
    LET both == [hid |-> toggled, ir |-> ~patched.ir]
    IN  (IF patterns.ir THEN {Outcome(both, both, f, TRUE, TRUE)} ELSE {})
        \cup UNION {IF patched.ir THEN {Outcome(WithHid(toggled), FlagHid(toggled), g, FALSE, FALSE)}
                    ELSE RolledBack(toggled, g) : g \in FaultsAfter("ir", f)}

DoOrUndoPatches ==
    LET toggled == ~patched.hid
    IN  {Outcome(hooks, patched, g, FALSE, ~patched.hid) : g \in FaultsAfter("hid", faults)}
        \cup IF ~patterns.hid THEN {}
             ELSE IF hooksIr THEN ToggleIr(toggled, faults)
             ELSE {Outcome(WithHid(toggled), FlagHid(toggled), faults, TRUE, TRUE)}

Apply(o) == hooks' = o.hooks /\ patched' = o.patched /\ faults' = o.faults
Untouched == UNCHANGED <<hooks, patched, faults>>

-----------------------------------------------------------------------------
(* MiscellaneousMenu_InputRedirection, started while the redirection is off. *)
StartRedirection ==
    /\ chooser = "idle" /\ ~redirection
    /\ listener = "none"    \* the thread's stack is one static array
    /\ \E o \in DoOrUndoPatches :
          /\ Apply(o)
          /\ chooser' = IF o.ok THEN "waiting" ELSE "idle"
          /\ listener' = IF o.ok THEN "starting" ELSE listener
          /\ asIntended' = (asIntended /\ o.clean /\ ~controller.enabled /\ ~controller.installed)
    /\ started' = "no"
    /\ UNCHANGED <<patterns, hooksIr, redirection, controller>>

(* The thread has said that it runs; or that it does not, or ten seconds are
   over: then the hooks are toggled back and the flag is cleared. *)
StartSucceeds ==
    /\ chooser = "waiting" /\ started = "yes"
    /\ chooser' = "idle"
    /\ Untouched /\ UNCHANGED <<patterns, hooksIr, redirection, listener, started, controller, asIntended>>

StartFails ==
    /\ chooser = "waiting"
    /\ started = "failed" \/ (started = "no" /\ listener = "starting")
    /\ \E o \in DoOrUndoPatches :
          /\ Apply(o)
          /\ asIntended' = (asIntended /\ o.clean /\ started = "failed")
    /\ redirection' = FALSE
    /\ chooser' = "idle"
    /\ UNCHANGED <<patterns, hooksIr, listener, started, controller>>

(* InputRedirection_Disable: patches, flag, and the thread is joined. *)
StopRedirection ==
    /\ chooser = "idle" /\ redirection
    /\ \E o \in DoOrUndoPatches :
          /\ Apply(o)
          /\ redirection' = (redirection /\ ~o.ok)
          /\ chooser' = IF o.ok THEN "joining" ELSE "idle"
          /\ asIntended' = (asIntended /\ o.clean)
    /\ UNCHANGED <<patterns, hooksIr, listener, started, controller>>

Join == /\ chooser = "joining" /\ listener = "none"
        /\ chooser' = "idle"
        /\ Untouched /\ UNCHANGED <<patterns, hooksIr, redirection, listener, started, controller, asIntended>>

-----------------------------------------------------------------------------
(* inputRedirectionThreadMain: the socket is opened and bound, or not. *)
ListenerStarts ==
    /\ listener = "starting"
    /\ \/ listener' = "running" /\ redirection' = TRUE /\ started' = "yes"
       \/ listener' = "none" /\ started' = "failed" /\ UNCHANGED redirection
    /\ Untouched /\ UNCHANGED <<patterns, hooksIr, chooser, controller, asIntended>>

(* It goes on until it is told to stop; an error of the socket ends it too,
   and the flag is cleared though the hooks are in place. *)
ListenerEnds ==
    /\ listener = "running"
    /\ listener' = "none"
    /\ redirection' = FALSE
    /\ asIntended' = (asIntended /\ ~redirection)
    /\ Untouched /\ UNCHANGED <<patterns, hooksIr, started, chooser, controller>>

-----------------------------------------------------------------------------
(* PokebotInputController_SetEnabled, as far as the hooks go. *)
RefusesNothing == FALSE   \* a mutant: the redirection may be on
Refuses == redirection
EnableController ==
    /\ chooser = "idle" /\ ~controller.enabled /\ ~Refuses
    /\ \E o \in DoOrUndoPatches :
          /\ Apply(o)
          /\ controller' = IF o.ok THEN [enabled |-> TRUE, installed |-> TRUE] ELSE controller
          /\ asIntended' = (asIntended /\ o.clean)
    /\ UNCHANGED <<patterns, hooksIr, redirection, listener, started, chooser>>

DisableController ==
    /\ chooser = "idle" /\ (controller.enabled \/ controller.installed)
    /\ \E o \in DoOrUndoPatches :
          /\ Apply(o)
          /\ controller' = [enabled |-> FALSE, installed |-> ~o.ok]
          /\ asIntended' = (asIntended /\ o.clean)
    /\ UNCHANGED <<patterns, hooksIr, redirection, listener, started, chooser>>

-----------------------------------------------------------------------------
HooksInit ==
    /\ hooks = Neither /\ patched = Neither
    /\ patterns \in [hid : BOOLEAN, ir : BOOLEAN] /\ hooksIr \in BOOLEAN
    /\ redirection = FALSE /\ listener = "none" /\ started = "no" /\ chooser = "idle"
    /\ controller = [enabled |-> FALSE, installed |-> FALSE]
    /\ faults = 0 /\ asIntended = TRUE

HooksNext == \/ StartRedirection \/ StartSucceeds \/ StartFails \/ StopRedirection \/ Join
             \/ ListenerStarts \/ ListenerEnds
             \/ EnableController \/ DisableController

HooksSpec == HooksInit /\ [][HooksNext]_hkvars

-----------------------------------------------------------------------------
(* Every variable has its type. *)
HooksTypeOK ==
    /\ hooks \in [hid : BOOLEAN, ir : BOOLEAN] /\ patched \in [hid : BOOLEAN, ir : BOOLEAN]
    /\ patterns \in [hid : BOOLEAN, ir : BOOLEAN] /\ hooksIr \in BOOLEAN
    /\ redirection \in BOOLEAN
    /\ listener \in {"none", "starting", "running"} /\ started \in {"no", "yes", "failed"}
    /\ chooser \in {"idle", "waiting", "joining"}
    /\ controller \in [enabled : BOOLEAN, installed : BOOLEAN]
    /\ faults \in 0 .. MaxFaults /\ asIntended \in BOOLEAN

Wanted == IF redirection \/ controller.installed THEN [hid |-> TRUE, ir |-> hooksIr] ELSE Neither

(* Between two choices in the menu both modules have their hooks exactly while
   one of the two users is on, and the flags the toggle goes by say so. It does
   not depend on which calls failed, as long as no hook was left in by one. *)
HooksMatchUsers ==
    asIntended /\ chooser = "idle" => hooks = Wanted /\ patched = hooks

HooksInv == HooksTypeOK /\ HooksMatchUsers

(* A redirection that says it runs has its hooks in place. *)
RunningIsHooked == redirection /\ chooser = "idle" => hooks.hid
=============================================================================
