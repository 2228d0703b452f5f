-------------------------- MODULE PokebotController --------------------------
(***************************************************************************)
(* The acknowledged input controller of Pokebot-Luma                       *)
(* (apply_ack_controller_v0p5.py writes pokebot_input_controller.c): a PC  *)
(* sends numbered commands over UDP, the console presses a button, the     *)
(* touch screen or the Circle Pad for a while and lets go by itself.       *)
(*                                                                         *)
(* Two threads share the state without a lock, both on CORE_SYSTEM: the    *)
(* bridge (priority 0x20), which runs the commands and the timers, and the *)
(* Rosalina menu (priority 52), which switches the controller on and off.  *)
(* The bridge preempts the menu between any two of its statements; the     *)
(* menu runs while the bridge waits for its socket.  So what the bridge    *)
(* does between two waits is one action, and the menu goes by statements.  *)
(*                                                                         *)
(* Time is what has passed of a deadline: not yet all of it, or all.       *)
(***************************************************************************)
EXTENDS Naturals

CONSTANTS
    MaxSeq,     \* bounds the commands the PC numbers 1, 2, ...
    Overtaking  \* may a datagram be delivered after one sent later?

ASSUME ControllerAssumption == MaxSeq \in Nat \ {0} /\ Overtaking \in BOOLEAN

VARIABLES
    pokebotInputControllerEnabled, sPatchesInstalled,
    sInput,     \* the last command accepted
    remote,     \* hidData[5..7]: channel -> is it away from neutral?
    bridge,     \* the bridge thread: "off", "running", "asleep", "stopping"
    menu,       \* where the menu thread is in SetEnabled or Disable
    legacy,     \* inputRedirectionEnabled: the stock UDP 4950 redirection
    (* the PC and the network *)
    sent,       \* sequence -> the command with that number, once sent
    newest,     \* highest number delivered
    fired,      \* sequence -> times its action was started, up to 2
    reported    \* sequences the PC was told are completed

ctvars == <<pokebotInputControllerEnabled, sPatchesInstalled, sInput, remote, bridge, menu,
          legacy, sent, newest, fired, reported>>

Seqs == 1 .. MaxSeq
Channels == {"hid", "touch", "cpad"}
Kinds == {"hid pulse", "touch pulse", "hid latch", "cpad pulse"}
(* 1: any valid duration.  Only a pulse with a hold has a settle time; of a *)
(* command whose timing is invalid nothing else matters.                    *)
Commands == {r \in [kind : Kinds, hold : {0, 1}, settle : {0, 1}] :
                r.settle = 1 => r.hold = 1 /\ r.kind # "hid latch"}
NotSent == [kind |-> "none", hold |-> 0, settle |-> 0]

ChannelOf(kind) == CASE kind \in {"hid pulse", "hid latch"} -> "hid"
                     [] kind = "touch pulse" -> "touch"
                     [] OTHER -> "cpad"

Neutral == [c \in Channels |-> FALSE]
Cleared == [sequence |-> 0, kind |-> "none", state |-> "idle", phase |-> "none",
            settle |-> 0, expired |-> TRUE]

-----------------------------------------------------------------------------
(* The controller's functions, on its own state: in stands for sInput, out  *)
(* for the injected input.                                                  *)

active(in) == in.state = "in progress"

(* PokebotInputController_Update.                                           *)
Due(in) == /\ pokebotInputControllerEnabled
           /\ active(in) /\ in.kind # "hid latch" /\ in.expired

Settles(in) == Due(in) /\ in.phase = "held" /\ in.settle # 0

UpdatedForever(in) == in   \* a mutant: a deadline that has passed is not seen
Updated(in) ==
    IF Settles(in) THEN [in EXCEPT !.phase = "settle", !.expired = FALSE]
    ELSE IF Due(in) THEN [in EXCEPT !.phase = "none", !.expired = TRUE,
                                    !.state = "completed"]
    ELSE in
LetGoOfButtons(in, out) ==   \* a mutant: the Circle Pad is forgotten
    IF Settles(in) /\ in.kind # "cpad pulse"
    THEN [out EXCEPT ![ChannelOf(in.kind)] = FALSE]
    ELSE IF Due(in) /\ ~Settles(in) THEN Neutral ELSE out
LetGo(in, out) ==
    IF Settles(in) THEN [out EXCEPT ![ChannelOf(in.kind)] = FALSE]
    ELSE IF Due(in) THEN Neutral
    ELSE out

(* PokebotInputController_ReleaseAll *)
Aborted(in) == IF active(in) THEN [in EXCEPT !.state = "aborted"] ELSE in
Released(in) == [Aborted(in) EXCEPT !.phase = "none", !.expired = TRUE]

available == pokebotInputControllerEnabled /\ sPatchesInstalled /\ ~legacy

duplicateWhileActive(in, seq, kind) ==   \* a mutant
    active(in) /\ in.sequence = seq /\ in.kind = kind
duplicate(in, seq, kind) == in.sequence # 0 /\ in.sequence = seq /\ in.kind = kind

validTiming(r) == IF r.kind = "hid latch" THEN r.hold = 0 /\ r.settle = 0 ELSE r.hold # 0

(* startHidPulse, startTouchPulse, startHidLatch and startCpadPulse.        *)
Started(seq, r) ==
    [sequence |-> seq, kind |-> r.kind, state |-> "in progress",
     phase |-> IF r.kind = "hid latch" THEN "latched" ELSE "held",
     settle |-> r.settle, expired |-> FALSE]
Pressed(r) == [c \in Channels |-> c = ChannelOf(r.kind)]

-----------------------------------------------------------------------------
(* The bridge thread.                                                       *)

Quiet == UNCHANGED <<pokebotInputControllerEnabled, sPatchesInstalled, bridge, menu,
                     legacy, sent>>

LoopTop ==
    /\ bridge = "running"
    /\ sInput' = Updated(sInput)
    /\ remote' = LetGo(sInput, remote)
    /\ Quiet /\ UNCHANGED <<newest, fired, reported>>

(* PokebotInputController_Handle for a command with a number.  A datagram   *)
(* may be delivered any number of times.                                    *)
HandlePulse(seq) ==
    LET r == sent[seq]
        in == Updated(sInput)
        out == LetGo(sInput, remote)
        repeated == duplicate(in, seq, r.kind)
        starts == available /\ ~repeated /\ validTiming(r) /\ ~active(in)
    IN  /\ bridge = "running"
        /\ r # NotSent
        /\ Overtaking \/ seq >= newest
        /\ newest' = IF seq > newest THEN seq ELSE newest
        /\ sInput' = IF starts THEN Started(seq, r) ELSE in
        /\ remote' = IF starts THEN Pressed(r) ELSE out
        /\ fired' = IF starts /\ fired[seq] < 2 THEN [fired EXCEPT ![seq] = @ + 1] ELSE fired
        /\ reported' = IF available /\ repeated /\ in.state = "completed"
                       THEN reported \cup {seq} ELSE reported
        /\ Quiet

(* INPUT_STATUS; INPUT_PING also runs Update and answers.                   *)
HandleStatus(seq) ==
    LET in == Updated(sInput)
    IN  /\ bridge = "running"
        /\ sInput' = in
        /\ remote' = LetGo(sInput, remote)
        /\ reported' = IF available /\ in.sequence = seq /\ in.state = "completed"
                       THEN reported \cup {seq} ELSE reported
        /\ Quiet /\ UNCHANGED <<newest, fired>>

(* RELEASE_ALL is obeyed whether the controller is enabled or not.          *)
HandleReleaseAll ==
    /\ bridge = "running"
    /\ sInput' = Released(Updated(sInput))
    /\ remote' = Neutral
    /\ Quiet /\ UNCHANGED <<newest, fired, reported>>

(* The console sleeps and Wi-Fi is off: no turn of the loop until it is on. *)
FallAsleep ==
    /\ bridge = "running"
    /\ bridge' = "asleep"
    /\ UNCHANGED <<pokebotInputControllerEnabled, sPatchesInstalled, sInput, remote, menu,
                   legacy, sent, newest, fired, reported>>
WakeUp ==
    /\ bridge = "asleep"
    /\ bridge' = "running"
    /\ UNCHANGED <<pokebotInputControllerEnabled, sPatchesInstalled, sInput, remote, menu,
                   legacy, sent, newest, fired, reported>>

(* The loop ends: it was told to, or the socket failed.                     *)
BridgeExit ==
    /\ bridge \in {"running", "stopping"}
    /\ sInput' = Released(sInput)
    /\ remote' = Neutral
    /\ bridge' = "off"
    /\ UNCHANGED <<pokebotInputControllerEnabled, sPatchesInstalled, menu, legacy, sent,
                   newest, fired, reported>>

-----------------------------------------------------------------------------
(* The menu thread.  "Enable Both" and "Disable Both" are the toggles one   *)
(* after the other.                                                         *)

KeepBridgeData == UNCHANGED <<sent, newest, reported, fired>>

ToggleRam ==
    /\ menu = "idle"
    /\ \/ /\ bridge = "off"
          /\ bridge' = "running" /\ UNCHANGED menu
       \/ /\ bridge # "off" /\ ~pokebotInputControllerEnabled
          /\ bridge' = "stopping" /\ menu' = "join"
    /\ KeepBridgeData
    /\ UNCHANGED <<pokebotInputControllerEnabled, sPatchesInstalled, sInput, remote, legacy>>

Joined ==
    /\ menu = "join" /\ bridge = "off"
    /\ menu' = "idle"
    /\ KeepBridgeData
    /\ UNCHANGED <<pokebotInputControllerEnabled, sPatchesInstalled, sInput, remote, bridge,
                   legacy>>

(* SetEnabled(true); the bridge is started first when it is off.            *)
EnableReset ==
    /\ menu = "idle" /\ ~pokebotInputControllerEnabled /\ ~legacy
    /\ bridge' = IF bridge = "off" THEN "running" ELSE bridge
    /\ remote' = Neutral
    /\ menu' = "patch"
    /\ KeepBridgeData
    /\ UNCHANGED <<pokebotInputControllerEnabled, sPatchesInstalled, sInput, legacy>>
(* The patches may fail.  Otherwise the command accepted last is forgotten, *)
(* so the number of times a command was started is counted from here.       *)
EnablePatch ==
    /\ menu = "patch"
    /\ menu' = "idle"
    /\ \/ UNCHANGED <<pokebotInputControllerEnabled, sPatchesInstalled, sInput, fired, reported>>
       \/ /\ pokebotInputControllerEnabled' = TRUE
          /\ sPatchesInstalled' = TRUE
          /\ sInput' = Cleared
          /\ fired' = [s \in Seqs |-> 0]
          /\ reported' = {}
    /\ UNCHANGED <<remote, bridge, legacy, sent, newest>>

(* SetEnabled(false): ReleaseAll by statements, then the flag, then the     *)
(* patches.                                                                 *)
MenuStep(from, to) == menu = from /\ menu' = to /\ KeepBridgeData
                      /\ UNCHANGED <<bridge, legacy>>

DisableAbort ==
    /\ MenuStep("idle", "release")
    /\ pokebotInputControllerEnabled
    /\ sInput' = Aborted(sInput)
    /\ UNCHANGED <<pokebotInputControllerEnabled, sPatchesInstalled, remote>>
DisableRelease ==
    /\ MenuStep("release", "neutral")
    /\ sInput' = [sInput EXCEPT !.phase = "none", !.expired = TRUE]
    /\ UNCHANGED <<pokebotInputControllerEnabled, sPatchesInstalled, remote>>
DisableNeutral ==
    /\ MenuStep("neutral", "clear flag")
    /\ remote' = Neutral
    /\ UNCHANGED <<pokebotInputControllerEnabled, sPatchesInstalled, sInput>>
DisableFlag ==
    /\ MenuStep("clear flag", "unpatch")
    /\ pokebotInputControllerEnabled' = FALSE
    /\ UNCHANGED <<sPatchesInstalled, sInput, remote>>
DisableUnpatch ==
    /\ MenuStep("unpatch", "idle")
    /\ sPatchesInstalled' \in {sPatchesInstalled, FALSE}    \* undoing may fail
    /\ UNCHANGED <<pokebotInputControllerEnabled, sInput, remote>>

(* The stock redirection shares hidData; the package's instructions are to  *)
(* keep it off when the controller is on.                                   *)
ToggleLegacy ==
    /\ menu = "idle" /\ ~pokebotInputControllerEnabled /\ ~sPatchesInstalled
    /\ legacy' = ~legacy
    /\ KeepBridgeData
    /\ UNCHANGED <<pokebotInputControllerEnabled, sPatchesInstalled, sInput, remote, bridge,
                   menu>>
LegacyPacket(c) ==
    /\ legacy
    /\ remote' = [remote EXCEPT ![c] = ~@]
    /\ KeepBridgeData
    /\ UNCHANGED <<pokebotInputControllerEnabled, sPatchesInstalled, sInput, bridge, menu,
                   legacy>>

-----------------------------------------------------------------------------
(* The PC numbers its commands in order; the network loses, delays and      *)
(* repeats datagrams, and the PC repeats the ones it gets no answer to.     *)
Send(seq, r) ==
    /\ sent[seq] = NotSent
    /\ \A s \in Seqs : s < seq => sent[s] # NotSent
    /\ sent' = [sent EXCEPT ![seq] = r]
    /\ UNCHANGED <<pokebotInputControllerEnabled, sPatchesInstalled, sInput, remote, bridge,
                   menu, legacy, newest, fired, reported>>

DeadlinePasses ==
    /\ ~sInput.expired
    /\ sInput' = [sInput EXCEPT !.expired = TRUE]
    /\ UNCHANGED <<pokebotInputControllerEnabled, sPatchesInstalled, remote, bridge, menu,
                   legacy, sent, newest, fired, reported>>

ControllerInit ==
    /\ pokebotInputControllerEnabled = FALSE
    /\ sPatchesInstalled = FALSE
    /\ sInput = Cleared
    /\ remote = Neutral
    /\ bridge = "off"
    /\ menu = "idle"
    /\ legacy = FALSE
    /\ sent = [s \in Seqs |-> NotSent]
    /\ newest = 0
    /\ fired = [s \in Seqs |-> 0]
    /\ reported = {}

Bridge == \/ LoopTop \/ HandleReleaseAll \/ FallAsleep \/ WakeUp \/ BridgeExit
          \/ \E s \in Seqs : HandlePulse(s) \/ HandleStatus(s)
Menu == \/ ToggleRam \/ Joined \/ EnableReset \/ EnablePatch
        \/ DisableAbort \/ DisableRelease \/ DisableNeutral \/ DisableFlag \/ DisableUnpatch
        \/ ToggleLegacy
Environment == \/ \E c \in Channels : LegacyPacket(c)
               \/ \E s \in Seqs, r \in Commands : Send(s, r)
               \/ DeadlinePasses

ControllerNext == Bridge \/ Menu \/ Environment

ControllerSpec == ControllerInit /\ [][ControllerNext]_ctvars

(* Time passes, Wi-Fi comes back, and every turn of the bridge's loop       *)
(* starts with an Update, however often it goes to sleep in between.        *)
ControllerFairSpec == ControllerSpec /\ SF_ctvars(LoopTop) /\ WF_ctvars(DeadlinePasses) /\ WF_ctvars(WakeUp)
-----------------------------------------------------------------------------
Disabling == menu \in {"release", "neutral", "clear flag"}

(* Types; an enabled controller has its hooks in place and hidData to       *)
(* itself, and a command is in a phase exactly while it is in progress.     *)
ControllerTypeOK ==
    /\ pokebotInputControllerEnabled \in BOOLEAN /\ sPatchesInstalled \in BOOLEAN
    /\ sInput \in [sequence : Seqs \cup {0}, kind : Kinds \cup {"none"},
                   state : {"idle", "in progress", "completed", "aborted"},
                   phase : {"none", "held", "settle", "latched"},
                   settle : {0, 1}, expired : BOOLEAN]
    /\ remote \in [Channels -> BOOLEAN]
    /\ bridge \in {"off", "running", "asleep", "stopping"}
    /\ menu \in {"idle", "patch", "join", "release", "neutral", "clear flag", "unpatch"}
    /\ legacy \in BOOLEAN
    /\ sent \in [Seqs -> Commands \cup {NotSent}]
    /\ newest \in Seqs \cup {0}
    /\ fired \in [Seqs -> 0 .. 2]
    /\ reported \in SUBSET Seqs
    /\ pokebotInputControllerEnabled => sPatchesInstalled /\ ~legacy
    /\ pokebotInputControllerEnabled /\ ~Disabling =>
          (active(sInput) <=> sInput.phase # "none")

(* With the controller on, a channel is away from neutral exactly while the *)
(* command in progress holds or latches it: nothing is left pressed by an   *)
(* earlier command, and one command never presses two channels.             *)
PressedIffHeld ==
    pokebotInputControllerEnabled /\ ~Disabling =>
        \A c \in Channels :
            remote[c] <=> /\ active(sInput) /\ sInput.phase \in {"held", "latched"}
                          /\ c = ChannelOf(sInput.kind)

(* The types, and what is pressed.                                          *)
ControllerInv == ControllerTypeOK /\ PressedIffHeld

(* "Duplicate sequence IDs are observational and never create a second      *)
(* gameplay action."                                                        *)
AtMostOnce == \A s \in Seqs : fired[s] <= 1

(* A command the PC was told is completed has been carried out.             *)
ReportedWasDone == \A s \in reported : fired[s] > 0

(* No command is carried out twice, and one that is reported was, once.     *)
DoneOnce == AtMostOnce /\ ReportedWasDone

(* Every pulse ends, whatever is lost, unless the controller is disabled.   *)
(* (One formula for all of them: there are finitely many commands, so the   *)
(* pulses that follow one another cannot hide one that goes on for ever.)   *)
PulseInProgress ==
    pokebotInputControllerEnabled /\ active(sInput) /\ sInput.kind # "hid latch"
PulseEnds == PulseInProgress ~> ~PulseInProgress
=============================================================================
