--------------------------- MODULE Rosalina_proof ---------------------------
(***************************************************************************)
(* Proofs about three parts of rosalina: the hooks of the input            *)
(* redirection, Pokebot's controller and the plugin loader.                *)
(***************************************************************************)
EXTENDS InputHooks, PokebotController, PluginLoader, TLAPS

-----------------------------------------------------------------------------
(***************************************************************************)
(* The hooks in hid and ir are there exactly while one of their two users  *)
(* is on, for any number of failing calls: the toggle is right as long as  *)
(* the flags of its users, its own flags and the hooks agree before it.    *)
(***************************************************************************)

Full == [hid |-> TRUE, ir |-> hooksIr]
BothWays == [hid : BOOLEAN, ir : BOOLEAN]

(* What is in the modules at every moment, not only between two choices. *)
HooksNow ==
    /\ patched = hooks
    /\ hooks = IF redirection \/ controller.installed \/ chooser = "waiting" THEN Full ELSE Neither

(* The two users: their flags, and the thread of the redirection. *)
OneUser ==
    /\ controller.enabled = controller.installed
    /\ controller.installed => ~redirection /\ chooser = "idle"
    /\ chooser = "joining" => ~redirection
Listening ==
    /\ listener = "starting" => chooser = "waiting" /\ started = "no"
    /\ chooser # "joining" => (redirection <=> listener = "running")
    /\ chooser = "waiting" => /\ started = "no" <=> listener = "starting"
                              /\ started = "failed" <=> listener = "none"

(* HooksMatchUsers, made inductive. *)
HooksStrong == HooksTypeOK /\ (asIntended => HooksNow /\ OneUser /\ Listening)

-----------------------------------------------------------------------------
(* What a call of the toggle may return, whatever its flags say. *)
Outcomes == [hooks : BothWays, patched : BothWays, faults : 0 .. MaxFaults,
             ok : BOOLEAN, clean : BOOLEAN]

LEMMA OutcomeTypes == HooksTypeOK => DoOrUndoPatches \subseteq Outcomes
<1> SUFFICES ASSUME HooksTypeOK PROVE DoOrUndoPatches \subseteq Outcomes
  OBVIOUS
<1> USE HooksAssumption DEF HooksAssumption, HooksTypeOK
<1>1. \A m \in {"hid", "ir"}, f \in 0 .. MaxFaults : FaultsAfter(m, f) \subseteq 0 .. MaxFaults
  BY DEF FaultsAfter
<1>2. ASSUME NEW t \in BOOLEAN
      PROVE  WithHid(t) \in BothWays /\ FlagHid(t) \in BothWays
  BY DEF WithHid, FlagHid, BothWays
<1>3. ASSUME NEW h \in BothWays, NEW p \in BothWays, NEW g \in 0 .. MaxFaults,
             NEW ok \in BOOLEAN, NEW c \in BOOLEAN
      PROVE  Outcome(h, p, g, ok, c) \in Outcomes
  BY DEF Outcome, Outcomes
<1>4. hooks \in BothWays /\ patched \in BothWays /\ patched.hid \in BOOLEAN /\ patched.ir \in BOOLEAN
  BY DEF BothWays
<1>5. ASSUME NEW t \in BOOLEAN, NEW f \in 0 .. MaxFaults
      PROVE  RolledBack(t, f) \subseteq Outcomes
  <2>1. Outcome(WithHid(FALSE), FlagHid(FALSE), f, FALSE, TRUE) \in Outcomes
    BY <1>2, <1>3
  <2>2. \A g \in 0 .. MaxFaults : Outcome(WithHid(t), FlagHid(FALSE), g, FALSE, FALSE) \in Outcomes
    BY <1>2, <1>3
  <2>3. QED
    BY <2>1, <2>2, Zenon DEF RolledBack
<1>6. ASSUME NEW t \in BOOLEAN, NEW f \in 0 .. MaxFaults
      PROVE  ToggleIr(t, f) \subseteq Outcomes
  <2>1. [hid |-> t, ir |-> ~patched.ir] \in BothWays
    BY <1>4 DEF BothWays
  <2>2. \A g \in FaultsAfter("ir", f) : g \in 0 .. MaxFaults
    BY <1>1
  <2>3. Outcome([hid |-> t, ir |-> ~patched.ir], [hid |-> t, ir |-> ~patched.ir], f, TRUE, TRUE) \in Outcomes
    BY <2>1, <1>3
  <2>4. \A g \in 0 .. MaxFaults : Outcome(WithHid(t), FlagHid(t), g, FALSE, FALSE) \in Outcomes
    BY <1>2, <1>3
  <2>5. SUFFICES ASSUME NEW q \in ToggleIr(t, f) PROVE q \in Outcomes
    OBVIOUS
  <2>6. \/ q = Outcome([hid |-> t, ir |-> ~patched.ir], [hid |-> t, ir |-> ~patched.ir], f, TRUE, TRUE)
        \/ \E g \in FaultsAfter("ir", f) :
              \/ q = Outcome(WithHid(t), FlagHid(t), g, FALSE, FALSE)
              \/ q \in RolledBack(t, g)
    BY Zenon DEF ToggleIr
  <2>7. QED
    BY <2>2, <2>3, <2>4, <2>6, <1>5
<1>7. QED
  <2>1. \A g \in FaultsAfter("hid", faults) : Outcome(hooks, patched, g, FALSE, ~patched.hid) \in Outcomes
    BY <1>1, <1>3, <1>4
  <2>2. ToggleIr(~patched.hid, faults) \subseteq Outcomes
    BY <1>4, <1>6
  <2>3. Outcome(WithHid(~patched.hid), FlagHid(~patched.hid), faults, TRUE, TRUE) \in Outcomes
    BY <1>2, <1>3, <1>4
  <2>4. SUFFICES ASSUME NEW q \in DoOrUndoPatches PROVE q \in Outcomes
    OBVIOUS
  <2>5. \/ \E g \in FaultsAfter("hid", faults) : q = Outcome(hooks, patched, g, FALSE, ~patched.hid)
        \/ q \in ToggleIr(~patched.hid, faults)
        \/ q = Outcome(WithHid(~patched.hid), FlagHid(~patched.hid), faults, TRUE, TRUE)
    BY Zenon DEF DoOrUndoPatches
  <2>6. QED
    BY <2>1, <2>2, <2>3, <2>5, Zenon

(* From hooks that are all in, or all out, a clean call either fails and
   changes nothing or toggles all of them. *)
LEMMA CleanToggle ==
    ASSUME HooksTypeOK, patched = hooks, hooks \in {Full, Neither},
           NEW o \in DoOrUndoPatches, o.clean
    PROVE  /\ o.patched = o.hooks
           /\ o.hooks = IF o.ok THEN IF hooks.hid THEN Neither ELSE Full ELSE hooks
<1> USE HooksAssumption DEF HooksAssumption, HooksTypeOK
<1>1. /\ hooks.hid \in BOOLEAN /\ hooksIr \in BOOLEAN
      /\ hooks = [hid |-> hooks.hid, ir |-> hooks.ir]
      /\ hooks.hid => hooks = Full /\ hooks.ir = hooksIr
      /\ ~hooks.hid => hooks = Neither /\ hooks.ir = FALSE
  BY DEF Full, Neither
<1>2. WithHid(FALSE) = [hid |-> FALSE, ir |-> hooks.ir] /\ FlagHid(FALSE) = [hid |-> FALSE, ir |-> hooks.ir]
  <2>1. \A on \in BOOLEAN : WithHid(on) = [hid |-> on, ir |-> hooks.ir] /\ FlagHid(on) = [hid |-> on, ir |-> hooks.ir]
    BY DEF WithHid, FlagHid
  <2>2. QED BY <2>1, Zenon
<1>3. /\ WithHid(~patched.hid) = [hid |-> ~hooks.hid, ir |-> hooks.ir]
      /\ FlagHid(~patched.hid) = [hid |-> ~hooks.hid, ir |-> hooks.ir]
  BY DEF WithHid, FlagHid
<1> DEFINE Other == IF hooks.hid THEN Neither ELSE Full
           Right(q) == q.patched = q.hooks /\ q.hooks = IF q.ok THEN Other ELSE hooks
<1>4. ASSUME NEW q, q.hooks = Other /\ q.patched = Other /\ q.ok PROVE Right(q)
  BY <1>4
<1>5. ASSUME NEW q, q.hooks = hooks /\ q.patched = hooks /\ ~q.ok PROVE Right(q)
  BY <1>5
<1>6. ASSUME NEW q, NEW h, NEW p, NEW g, q.clean, q = Outcome(h, p, g, FALSE, FALSE) PROVE FALSE
  BY <1>6 DEF Outcome
<1> HIDE DEF Right, Other
<1>7. ASSUME NEW g, NEW q \in RolledBack(~patched.hid, g), q.clean, ~patched.ir, ~hooks.hid
      PROVE  Right(q)
  <2>1. q = Outcome(WithHid(FALSE), FlagHid(FALSE), g, FALSE, TRUE)
    <3>1. \/ q = Outcome(WithHid(FALSE), FlagHid(FALSE), g, FALSE, TRUE)
          \/ \E f : q = Outcome(WithHid(~patched.hid), FlagHid(FALSE), f, FALSE, FALSE)
      BY <1>7, Zenon DEF RolledBack
    <3>2. QED BY <3>1, <1>6, <1>7
  <2>2. WithHid(FALSE) = hooks /\ FlagHid(FALSE) = hooks
    BY <1>1, <1>2, <1>7 DEF Neither
  <2>3. q.hooks = hooks /\ q.patched = hooks /\ ~q.ok
    BY <2>1, <2>2 DEF Outcome
  <2>4. QED BY <2>3, <1>5
<1>8. ASSUME NEW q \in ToggleIr(~patched.hid, faults), q.clean, hooksIr
      PROVE  Right(q)
  <2> DEFINE both == [hid |-> ~patched.hid, ir |-> ~patched.ir]
  <2>1. both = Other
    BY <1>1, <1>8 DEF Full, Neither, Other
  <2>2. \/ q = Outcome(both, both, faults, TRUE, TRUE)
        \/ \E g \in FaultsAfter("ir", faults) :
              IF patched.ir THEN q = Outcome(WithHid(~patched.hid), FlagHid(~patched.hid), g, FALSE, FALSE)
                            ELSE q \in RolledBack(~patched.hid, g)
    BY <1>8, Zenon DEF ToggleIr
  <2>3. ~patched.ir => ~hooks.hid
    BY <1>1, <1>8
  <2> HIDE DEF both
  <2>4. CASE q = Outcome(both, both, faults, TRUE, TRUE)
    <3>1. q.hooks = Other /\ q.patched = Other /\ q.ok
      BY <2>1, <2>4 DEF Outcome
    <3>2. QED BY <3>1, <1>4
  <2>5. QED BY <1>6, <1>7, <1>8, <2>2, <2>3, <2>4
<1>9. ASSUME ~hooksIr, o = Outcome(WithHid(~patched.hid), FlagHid(~patched.hid), faults, TRUE, TRUE)
      PROVE  Right(o)
  <2>1. [hid |-> ~hooks.hid, ir |-> hooks.ir] = Other
    BY <1>1, <1>9 DEF Full, Neither, Other
  <2>2. o.hooks = Other /\ o.patched = Other /\ o.ok
    BY <2>1, <1>3, <1>9 DEF Outcome
  <2>3. QED BY <2>2, <1>4
<1>10. ASSUME NEW g, o = Outcome(hooks, patched, g, FALSE, ~patched.hid) PROVE Right(o)
  <2>1. o.hooks = hooks /\ o.patched = hooks /\ ~o.ok
    BY <1>10 DEF Outcome
  <2>2. QED BY <2>1, <1>5
<1>11. Right(o)
  <2>1. \/ \E g : o = Outcome(hooks, patched, g, FALSE, ~patched.hid)
        \/ hooksIr /\ o \in ToggleIr(~patched.hid, faults)
        \/ ~hooksIr /\ o = Outcome(WithHid(~patched.hid), FlagHid(~patched.hid), faults, TRUE, TRUE)
    BY Zenon DEF DoOrUndoPatches
  <2>2. QED BY <2>1, <1>8, <1>9, <1>10
<1>12. QED
  BY <1>11 DEF Right, Other

(* With the hooks in, what cannot be taken out is not a clean outcome. *)
LEMMA CleanRemoval ==
    ASSUME HooksTypeOK, patched.hid, hooksIr => patched.ir, NEW o \in DoOrUndoPatches, o.clean
    PROVE  o.ok
<1>1. ASSUME NEW h, NEW p, NEW g, o = Outcome(h, p, g, FALSE, FALSE) PROVE FALSE
  BY <1>1 DEF Outcome
<1>2. ASSUME NEW g, o = Outcome(hooks, patched, g, FALSE, ~patched.hid) PROVE FALSE
  BY <1>2 DEF Outcome
<1>3. \/ \E g : o = Outcome(hooks, patched, g, FALSE, ~patched.hid)
      \/ \E h, p, g : o = Outcome(h, p, g, TRUE, TRUE)
      \/ \E h, p, g : o = Outcome(h, p, g, FALSE, FALSE)
  BY Zenon DEF DoOrUndoPatches, ToggleIr
<1>4. PICK h, p, g : o = Outcome(h, p, g, TRUE, TRUE)
  BY <1>1, <1>2, <1>3
<1>5. QED
  BY <1>4 DEF Outcome

-----------------------------------------------------------------------------
LEMMA HooksStrongInit == HooksInit => HooksStrong
<1> SUFFICES ASSUME HooksInit PROVE HooksStrong
  OBVIOUS
<1>1. HooksTypeOK
  <2>1. hooks \in BothWays /\ patched \in BothWays
    BY DEF HooksInit, Neither, BothWays
  <2>2. controller \in [enabled : BOOLEAN, installed : BOOLEAN]
    BY DEF HooksInit
  <2>3. redirection \in BOOLEAN /\ asIntended \in BOOLEAN
    BY Zenon DEF HooksInit
  <2>4. QED
    BY <2>1, <2>2, <2>3, HooksAssumption DEF HooksAssumption, HooksInit, HooksTypeOK, BothWays
<1>2. HooksNow /\ OneUser /\ Listening
  BY DEF HooksInit, HooksNow, OneUser, Listening
<1>3. QED BY <1>1, <1>2 DEF HooksStrong

LEMMA HooksStrongNext == HooksStrong /\ [HooksNext]_hkvars => HooksStrong'
<1> SUFFICES ASSUME HooksStrong, [HooksNext]_hkvars PROVE HooksStrong'
  OBVIOUS
<1>a. HooksTypeOK
  BY DEF HooksStrong
<1>b. ASSUME asIntended
      PROVE  HooksNow /\ OneUser /\ Listening /\ hooks \in {Full, Neither}
  BY <1>b DEF HooksStrong, HooksNow
<1> USE DEF HooksTypeOK, Untouched
<1>1. CASE StartRedirection
  <2>1. PICK o \in DoOrUndoPatches :
          /\ Apply(o)
          /\ chooser' = IF o.ok THEN "waiting" ELSE "idle"
          /\ listener' = IF o.ok THEN "starting" ELSE listener
          /\ asIntended' = (asIntended /\ o.clean /\ ~controller.enabled /\ ~controller.installed)
    BY <1>1 DEF StartRedirection
  <2>2. HooksTypeOK'
    BY <1>1, <1>a, <2>1, OutcomeTypes DEF Outcomes, StartRedirection, Apply, BothWays
  <2>3. ASSUME asIntended' PROVE HooksNow' /\ OneUser' /\ Listening'
    <3>1. asIntended /\ o.clean /\ ~controller.installed /\ ~controller.enabled
      BY <2>1, <2>3, <1>a
    <3>2. hooks = Neither /\ patched = hooks
      BY <1>1, <1>b, <3>1 DEF StartRedirection, HooksNow
    <3>3. hooks' = (IF o.ok THEN Full ELSE Neither) /\ patched' = hooks'
      BY <1>a, <1>b, <2>1, <3>1, <3>2, CleanToggle, OutcomeTypes DEF Outcomes, Apply, Neither
    <3>4. QED
      BY <1>1, <1>a, <1>b, <2>1, <3>1, <3>3, OutcomeTypes
      DEF Outcomes, StartRedirection, HooksNow, OneUser, Listening, Full
  <2>4. QED BY <2>2, <2>3 DEF HooksStrong
<1>2. CASE StartSucceeds
  BY <1>2, <1>a, <1>b DEF StartSucceeds, HooksStrong, HooksNow, OneUser, Listening, Full
<1>3. CASE StartFails
  <2>1. PICK o \in DoOrUndoPatches : Apply(o) /\ asIntended' = (asIntended /\ o.clean /\ started = "failed")
    BY <1>3 DEF StartFails
  <2>2. HooksTypeOK'
    BY <1>3, <1>a, <2>1, OutcomeTypes DEF Outcomes, StartFails, Apply, BothWays
  <2>3. ASSUME asIntended' PROVE HooksNow' /\ OneUser' /\ Listening'
    <3>1. asIntended /\ o.clean /\ started = "failed"
      BY <2>1, <2>3, <1>a
    <3>2. hooks = Full /\ patched = hooks
      BY <1>3, <1>b, <3>1 DEF StartFails, HooksNow
    <3>3. o.ok
      BY <1>a, <3>1, <3>2, CleanRemoval DEF Full
    <3>4. hooks' = Neither /\ patched' = hooks'
      BY <1>a, <1>b, <2>1, <3>1, <3>2, <3>3, CleanToggle DEF Apply, Full
    <3>5. QED
      BY <1>3, <1>a, <1>b, <3>1, <3>4 DEF StartFails, HooksNow, OneUser, Listening, Full
  <2>4. QED BY <2>2, <2>3 DEF HooksStrong
<1>4. CASE StopRedirection
  <2>1. PICK o \in DoOrUndoPatches :
          /\ Apply(o)
          /\ redirection' = (redirection /\ ~o.ok)
          /\ chooser' = IF o.ok THEN "joining" ELSE "idle"
          /\ asIntended' = (asIntended /\ o.clean)
    BY <1>4 DEF StopRedirection
  <2>2. HooksTypeOK'
    BY <1>4, <1>a, <2>1, OutcomeTypes DEF Outcomes, StopRedirection, Apply, BothWays
  <2>3. ASSUME asIntended' PROVE HooksNow' /\ OneUser' /\ Listening'
    <3>1. asIntended /\ o.clean
      BY <2>1, <2>3, <1>a
    <3>2. hooks = Full /\ patched = hooks
      BY <1>4, <1>b, <3>1 DEF StopRedirection, HooksNow
    <3>3. hooks' = (IF o.ok THEN Neither ELSE Full) /\ patched' = hooks'
      BY <1>a, <1>b, <2>1, <3>1, <3>2, CleanToggle, OutcomeTypes DEF Outcomes, Apply, Full
    <3>4. QED
      BY <1>4, <1>a, <1>b, <2>1, <3>1, <3>3, OutcomeTypes
      DEF Outcomes, StopRedirection, HooksNow, OneUser, Listening, Full
  <2>4. QED BY <2>2, <2>3 DEF HooksStrong
<1>5. CASE Join
  BY <1>5, <1>a, <1>b DEF Join, HooksStrong, HooksNow, OneUser, Listening, Full
<1>6. CASE ListenerStarts
  <2>1. redirection' \in BOOLEAN /\ (listener' = "running" => redirection')
    BY <1>6, <1>a, Zenon DEF ListenerStarts
  <2>2. QED
    BY <1>6, <2>1, <1>a, <1>b DEF ListenerStarts, HooksStrong, HooksNow, OneUser, Listening, Full
<1>7. CASE ListenerEnds
  <2>1. redirection' \in BOOLEAN /\ ~redirection'
    BY <1>7, Zenon DEF ListenerEnds
  <2>2. QED
    BY <1>7, <2>1, <1>a, <1>b DEF ListenerEnds, HooksStrong, HooksNow, OneUser, Listening, Full
<1>8. CASE EnableController
  <2>1. PICK o \in DoOrUndoPatches :
          /\ Apply(o)
          /\ controller' = IF o.ok THEN [enabled |-> TRUE, installed |-> TRUE] ELSE controller
          /\ asIntended' = (asIntended /\ o.clean)
    BY <1>8 DEF EnableController
  <2>2. HooksTypeOK'
    BY <1>8, <1>a, <2>1, OutcomeTypes DEF Outcomes, EnableController, Apply, BothWays
  <2>3. ASSUME asIntended' PROVE HooksNow' /\ OneUser' /\ Listening'
    <3>1. asIntended /\ o.clean
      BY <2>1, <2>3, <1>a
    <3>2. hooks = Neither /\ patched = hooks /\ ~controller.installed
      BY <1>8, <1>a, <1>b, <3>1 DEF EnableController, Refuses, HooksNow, OneUser
    <3>3. hooks' = (IF o.ok THEN Full ELSE Neither) /\ patched' = hooks'
      BY <1>a, <1>b, <2>1, <3>1, <3>2, CleanToggle, OutcomeTypes DEF Outcomes, Apply, Neither
    <3>4. QED
      BY <1>8, <1>a, <1>b, <2>1, <3>1, <3>2, <3>3, OutcomeTypes
      DEF Outcomes, EnableController, Refuses, HooksNow, OneUser, Listening, Full
  <2>4. QED BY <2>2, <2>3 DEF HooksStrong
<1>9. CASE DisableController
  <2>1. PICK o \in DoOrUndoPatches :
          /\ Apply(o)
          /\ controller' = [enabled |-> FALSE, installed |-> ~o.ok]
          /\ asIntended' = (asIntended /\ o.clean)
    BY <1>9 DEF DisableController
  <2>2. HooksTypeOK'
    BY <1>9, <1>a, <2>1, OutcomeTypes DEF Outcomes, DisableController, Apply, BothWays
  <2>3. ASSUME asIntended' PROVE HooksNow' /\ OneUser' /\ Listening'
    <3>1. asIntended /\ o.clean /\ controller.installed
      BY <1>9, <2>1, <2>3, <1>a, <1>b DEF DisableController, OneUser
    <3>2. hooks = Full /\ patched = hooks /\ ~redirection
      BY <1>9, <1>b, <3>1 DEF DisableController, HooksNow, OneUser
    <3>3. o.ok
      BY <1>a, <3>1, <3>2, CleanRemoval DEF Full
    <3>4. hooks' = Neither /\ patched' = hooks'
      BY <1>a, <1>b, <2>1, <3>1, <3>2, <3>3, CleanToggle DEF Apply, Full
    <3>5. QED
      BY <1>9, <1>a, <1>b, <2>1, <3>1, <3>2, <3>3, <3>4
      DEF DisableController, HooksNow, OneUser, Listening, Full
  <2>4. QED BY <2>2, <2>3 DEF HooksStrong
<1>10. CASE UNCHANGED hkvars
  BY <1>10, <1>a, <1>b DEF hkvars, HooksStrong, HooksNow, OneUser, Listening, Full
<1>11. QED
  BY <1>1, <1>2, <1>3, <1>4, <1>5, <1>6, <1>7, <1>8, <1>9, <1>10 DEF HooksNext

(* Between two choices in the menu hid and ir are hooked exactly while the  *)
(* redirection or Pokebot's controller is on, and the toggle's flags agree  *)
(* (input_redirection.c:436-480 against the flags of its two users).        *)
THEOREM HooksAreRight == HooksSpec => []HooksInv
<1>1. HooksStrong => HooksInv
  BY DEF HooksStrong, HooksInv, HooksMatchUsers, HooksNow, OneUser, Wanted, Full
<1>2. QED
  BY <1>1, HooksStrongInit, HooksStrongNext, PTL DEF HooksSpec

-----------------------------------------------------------------------------
(***************************************************************************)
(* Proofs about PokebotController, for any number of commands: nothing     *)
(* stays pressed without a command, and no command is carried out twice.   *)
(***************************************************************************)

(* What the menu's steps rely on: the flag is clear unless the controller   *)
(* is on or being switched off, and between the reset and the patches       *)
(* nobody presses anything.                                                 *)
MenuInv ==
    /\ menu \in {"patch", "join", "unpatch"} => ~pokebotInputControllerEnabled
    /\ Disabling => pokebotInputControllerEnabled
    /\ menu = "patch" => remote = Neutral /\ ~legacy

(* The inductive invariant of what is pressed.                              *)
PressInv == ControllerTypeOK /\ PressedIffHeld /\ MenuInv

(* The command accepted last is the newest of those carried out, and none   *)
(* delivered so far is newer.                                               *)
SequenceInv ==
    /\ \A s \in Seqs : fired[s] > 0 => s <= sInput.sequence
    /\ sInput.sequence <= newest
    /\ sInput.sequence # 0 => /\ sent[sInput.sequence] # NotSent
                              /\ sInput.kind = sent[sInput.sequence].kind
                              /\ fired[sInput.sequence] > 0

Inputs == [sequence : Seqs \cup {0}, kind : Kinds \cup {"none"},
           state : {"idle", "in progress", "completed", "aborted"},
           phase : {"none", "held", "settle", "latched"},
           settle : {0, 1}, expired : BOOLEAN]

(* Update keeps the command, and what it does to the state of the command   *)
(* and to the channels agrees.                                              *)
LEMMA UpdateKeeps ==
    ASSUME NEW in \in Inputs, NEW out \in [Channels -> BOOLEAN]
    PROVE  /\ Updated(in) \in Inputs /\ LetGo(in, out) \in [Channels -> BOOLEAN]
           /\ Updated(in).sequence = in.sequence /\ Updated(in).kind = in.kind
           /\ ~pokebotInputControllerEnabled => Updated(in) = in /\ LetGo(in, out) = out
           /\ out = Neutral => LetGo(in, out) = Neutral
<1>1. ChannelOf(in.kind) \in Channels
  BY DEF ChannelOf, Channels
<1>2. Updated(in) \in Inputs
  BY DEF Updated, Inputs, Settles, Due
<1>3. Updated(in).sequence = in.sequence /\ Updated(in).kind = in.kind
  BY DEF Updated, Inputs
<1>4. LetGo(in, out) \in [Channels -> BOOLEAN]
  BY DEF LetGo, Neutral
<1>5. ~pokebotInputControllerEnabled => Updated(in) = in /\ LetGo(in, out) = out
  BY DEF Updated, LetGo, Settles, Due
<1>6. out = Neutral => LetGo(in, out) = Neutral
  BY <1>1 DEF LetGo, Neutral
<1> QED BY <1>2, <1>3, <1>4, <1>5, <1>6

LEMMA UpdateAgrees ==
    ASSUME NEW in \in Inputs, NEW out \in [Channels -> BOOLEAN],
           active(in) <=> in.phase # "none",
           \A c \in Channels : out[c] <=> active(in) /\ in.phase \in {"held", "latched"}
                                          /\ c = ChannelOf(in.kind)
    PROVE  /\ active(Updated(in)) <=> Updated(in).phase # "none"
           /\ \A c \in Channels : LetGo(in, out)[c] <=>
                 /\ active(Updated(in)) /\ Updated(in).phase \in {"held", "latched"}
                 /\ c = ChannelOf(Updated(in).kind)
<1>1. ChannelOf(in.kind) \in Channels
  BY DEF ChannelOf, Channels
<1>2. CASE Settles(in)
  BY <1>1, <1>2 DEF Updated, LetGo, Settles, Due, active, Inputs
<1>3. CASE ~Settles(in) /\ Due(in)
  BY <1>1, <1>3 DEF Updated, LetGo, Neutral, active, Inputs
<1>4. CASE ~Settles(in) /\ ~Due(in)
  BY <1>1, <1>4 DEF Updated, LetGo
<1> QED BY <1>2, <1>3, <1>4

(* The two halves of ControllerTypeOK: the types of the variables, and what *)
(* an enabled controller has.                                               *)
FieldsOK ==
    /\ pokebotInputControllerEnabled \in BOOLEAN /\ sPatchesInstalled \in BOOLEAN
    /\ sInput \in Inputs /\ remote \in [Channels -> BOOLEAN]
    /\ bridge \in {"off", "running", "asleep", "stopping"}
    /\ menu \in {"idle", "patch", "join", "release", "neutral", "clear flag", "unpatch"}
    /\ legacy \in BOOLEAN /\ sent \in [Seqs -> Commands \cup {NotSent}]
    /\ newest \in Seqs \cup {0} /\ fired \in [Seqs -> 0 .. 2] /\ reported \in SUBSET Seqs
EnabledOK ==
    /\ pokebotInputControllerEnabled => sPatchesInstalled /\ ~legacy
    /\ pokebotInputControllerEnabled /\ ~Disabling => (active(sInput) <=> sInput.phase # "none")

LEMMA TypesAreHalves ==
    /\ ControllerTypeOK <=> FieldsOK /\ EnabledOK
    /\ ControllerTypeOK' <=> FieldsOK' /\ EnabledOK'
BY DEF ControllerTypeOK, FieldsOK, EnabledOK, Inputs

LEMMA InputsTyped == ASSUME PressInv PROVE sInput \in Inputs
BY DEF PressInv, ControllerTypeOK, Inputs

(* The same of the controller's own command and of the channels.            *)
LEMMA UpdatePress ==
    ASSUME PressInv, sInput' = Updated(sInput), remote' = LetGo(sInput, remote)
    PROVE  pokebotInputControllerEnabled /\ ~Disabling =>
             /\ active(sInput') <=> sInput'.phase # "none"
             /\ \A c \in Channels : remote'[c] <=>
                    /\ active(sInput') /\ sInput'.phase \in {"held", "latched"}
                    /\ c = ChannelOf(sInput'.kind)
<1>1. sInput \in Inputs /\ remote \in [Channels -> BOOLEAN]
  BY InputsTyped DEF PressInv, ControllerTypeOK
<1>2. SUFFICES ASSUME pokebotInputControllerEnabled, ~Disabling
               PROVE  /\ active(sInput') <=> sInput'.phase # "none"
                      /\ \A c \in Channels : remote'[c] <=>
                             /\ active(sInput') /\ sInput'.phase \in {"held", "latched"}
                             /\ c = ChannelOf(sInput'.kind)
  OBVIOUS
<1>3. active(sInput) <=> sInput.phase # "none"
  BY <1>2 DEF PressInv, ControllerTypeOK
<1>4. \A c \in Channels : remote[c] <=> active(sInput) /\ sInput.phase \in {"held", "latched"}
                                         /\ c = ChannelOf(sInput.kind)
  BY <1>2 DEF PressInv, PressedIffHeld
<1>5. /\ active(Updated(sInput)) <=> Updated(sInput).phase # "none"
      /\ \A c \in Channels : LetGo(sInput, remote)[c] <=>
            /\ active(Updated(sInput)) /\ Updated(sInput).phase \in {"held", "latched"}
            /\ c = ChannelOf(Updated(sInput).kind)
  BY <1>1, <1>3, <1>4, UpdateAgrees
<1> QED BY <1>5

(* A turn of the loop: Update, and perhaps a command that is started.       *)
LEMMA LoopTopPress == PressInv /\ LoopTop => PressInv'
<1> SUFFICES ASSUME PressInv, LoopTop PROVE PressInv'
  OBVIOUS
<1>1. sInput \in Inputs /\ remote \in [Channels -> BOOLEAN]
  BY InputsTyped DEF PressInv, ControllerTypeOK
<1>2. /\ sInput' \in Inputs /\ remote' \in [Channels -> BOOLEAN]
      /\ ~pokebotInputControllerEnabled => sInput' = sInput /\ remote' = remote
      /\ remote = Neutral => remote' = Neutral
  BY <1>1, UpdateKeeps DEF LoopTop
<1>3. pokebotInputControllerEnabled /\ ~Disabling =>
        /\ active(sInput') <=> sInput'.phase # "none"
        /\ \A c \in Channels : remote'[c] <=>
               active(sInput') /\ sInput'.phase \in {"held", "latched"} /\ c = ChannelOf(sInput'.kind)
  BY UpdatePress DEF LoopTop
<1>4. ControllerTypeOK'
  BY <1>2, <1>3 DEF PressInv, ControllerTypeOK, LoopTop, Quiet, Inputs, Disabling, active
<1>5. PressedIffHeld'
  BY <1>3 DEF PressedIffHeld, LoopTop, Quiet, Disabling, active
<1>6. MenuInv'
  BY <1>2 DEF PressInv, MenuInv, LoopTop, Quiet, Disabling
<1> QED BY <1>4, <1>5, <1>6 DEF PressInv

(* A command that is started presses its own channel and no other.          *)
LEMMA StartedAgrees ==
    ASSUME NEW seq \in Seqs, NEW r \in Commands
    PROVE  /\ Started(seq, r) \in Inputs /\ Pressed(r) \in [Channels -> BOOLEAN]
           /\ active(Started(seq, r)) /\ Started(seq, r).phase \in {"held", "latched"}
           /\ \A c \in Channels : Pressed(r)[c] <=> c = ChannelOf(Started(seq, r).kind)
<1>1. Started(seq, r) \in Inputs
  BY DEF Started, Inputs, Commands
<1>2. active(Started(seq, r)) /\ Started(seq, r).phase \in {"held", "latched"}
  BY DEF Started, active
<1>3. Pressed(r) \in [Channels -> BOOLEAN]
  BY DEF Pressed
<1>4. Started(seq, r).kind = r.kind
  BY DEF Started
<1>5. \A c \in Channels : Pressed(r)[c] <=> c = ChannelOf(r.kind)
  BY DEF Pressed
<1> QED BY <1>1, <1>2, <1>3, <1>4, <1>5

LEMMA HandlePulsePress == ASSUME PressInv, NEW seq \in Seqs, HandlePulse(seq) PROVE PressInv'
<1> DEFINE in == Updated(sInput)
           out == LetGo(sInput, remote)
           r == sent[seq]
           starts == available /\ ~duplicate(in, seq, r.kind) /\ validTiming(r) /\ ~active(in)
<1>1. sInput \in Inputs /\ remote \in [Channels -> BOOLEAN] /\ r \in Commands
  BY InputsTyped DEF PressInv, ControllerTypeOK, HandlePulse
<1>2. /\ in \in Inputs /\ out \in [Channels -> BOOLEAN]
      /\ ~pokebotInputControllerEnabled => in = sInput /\ out = remote
      /\ remote = Neutral => out = Neutral
  BY <1>1, UpdateKeeps
<1>3. pokebotInputControllerEnabled /\ ~Disabling =>
        /\ active(in) <=> in.phase # "none"
        /\ \A c \in Channels : out[c] <=>
               active(in) /\ in.phase \in {"held", "latched"} /\ c = ChannelOf(in.kind)
  BY <1>1, UpdateAgrees DEF PressInv, ControllerTypeOK, PressedIffHeld
<1>4. /\ sInput' = IF starts THEN Started(seq, r) ELSE in
      /\ remote' = IF starts THEN Pressed(r) ELSE out
      /\ Quiet
  BY DEF HandlePulse
<1>5. starts => pokebotInputControllerEnabled
  BY DEF available
<1>6. newest' \in Seqs \cup {0} /\ reported' \in SUBSET Seqs
  BY DEF HandlePulse, PressInv, ControllerTypeOK
<1>fired. fired' \in [Seqs -> 0 .. 2]
  <2>1. fired' = fired \/ (fired[seq] < 2 /\ fired' = [fired EXCEPT ![seq] = @ + 1])
    BY DEF HandlePulse
  <2>2. fired \in [Seqs -> 0 .. 2]
    BY DEF PressInv, ControllerTypeOK
  <2>3. CASE fired' = [fired EXCEPT ![seq] = @ + 1] /\ fired[seq] < 2
    BY <2>2, <2>3
  <2> QED BY <2>1, <2>2, <2>3
<1> HIDE DEF in, out, starts, r
<1>7. /\ sInput' \in Inputs /\ remote' \in [Channels -> BOOLEAN]
      /\ ~pokebotInputControllerEnabled => remote' = remote \/ remote' = out
      /\ pokebotInputControllerEnabled /\ ~Disabling =>
            /\ active(sInput') <=> sInput'.phase # "none"
            /\ \A c \in Channels : remote'[c] <=>
                  active(sInput') /\ sInput'.phase \in {"held", "latched"} /\ c = ChannelOf(sInput'.kind)
  <2>1. CASE starts
    BY <2>1, <1>1, <1>4, <1>5, StartedAgrees
  <2>2. CASE ~starts
    BY <2>2, <1>2, <1>3, <1>4
  <2> QED BY <2>1, <2>2
<1>8. ControllerTypeOK'
  BY <1>4, <1>6, <1>fired, <1>7 DEF PressInv, ControllerTypeOK, Quiet, Inputs, Disabling, active
<1>9. PressedIffHeld'
  BY <1>4, <1>7 DEF PressedIffHeld, Quiet, Disabling, active
<1>10. MenuInv'
  BY <1>2, <1>4, <1>7 DEF PressInv, MenuInv, Quiet, Disabling
<1> QED BY <1>8, <1>9, <1>10 DEF PressInv

LEMMA HandleStatusPress == ASSUME PressInv, NEW seq \in Seqs, HandleStatus(seq) PROVE PressInv'
<1>1. sInput \in Inputs /\ remote \in [Channels -> BOOLEAN]
  BY InputsTyped DEF PressInv, ControllerTypeOK
<1>2. /\ sInput' \in Inputs /\ remote' \in [Channels -> BOOLEAN]
      /\ remote = Neutral => remote' = Neutral
  BY <1>1, UpdateKeeps DEF HandleStatus
<1>3. pokebotInputControllerEnabled /\ ~Disabling =>
        /\ active(sInput') <=> sInput'.phase # "none"
        /\ \A c \in Channels : remote'[c] <=>
               active(sInput') /\ sInput'.phase \in {"held", "latched"} /\ c = ChannelOf(sInput'.kind)
  BY UpdatePress DEF HandleStatus
<1>4. reported' \in SUBSET Seqs
  BY DEF HandleStatus, PressInv, ControllerTypeOK
<1>5. ControllerTypeOK'
  BY <1>2, <1>3, <1>4 DEF PressInv, ControllerTypeOK, HandleStatus, Quiet, Inputs, Disabling, active
<1>6. PressedIffHeld'
  BY <1>3 DEF PressedIffHeld, HandleStatus, Quiet, Disabling, active
<1>7. MenuInv'
  BY <1>2 DEF PressInv, MenuInv, HandleStatus, Quiet, Disabling
<1> QED BY <1>5, <1>6, <1>7 DEF PressInv

(* RELEASE_ALL and the end of the loop: nothing is pressed.                 *)
LEMMA ReleaseKeeps ==
    ASSUME NEW in \in Inputs
    PROVE  /\ Released(in) \in Inputs /\ ~active(Released(in)) /\ Released(in).phase = "none"
           /\ Released(in).sequence = in.sequence /\ Released(in).kind = in.kind
<1>1. Aborted(in) \in Inputs /\ ~active(Aborted(in))
      /\ Aborted(in).sequence = in.sequence /\ Aborted(in).kind = in.kind
  BY DEF Aborted, Inputs, active
<1> DEFINE a == Aborted(in)
<1>2. Released(in) = [a EXCEPT !.phase = "none", !.expired = TRUE]
  BY DEF Released
<1> HIDE DEF a
<1>3. a \in Inputs /\ ~active(a) /\ a.sequence = in.sequence /\ a.kind = in.kind
  BY <1>1 DEF a
<1>4. \A yes \in BOOLEAN :
        LET b == [a EXCEPT !.phase = "none", !.expired = yes]
        IN  b \in Inputs /\ b.phase = "none" /\ b.sequence = a.sequence /\ b.kind = a.kind
            /\ b.state = a.state
  BY <1>3 DEF Inputs
<1> QED BY <1>2, <1>3, <1>4 DEF active

LEMMA NeutralTyped == Neutral \in [Channels -> BOOLEAN] /\ \A c \in Channels : ~Neutral[c]
BY DEF Neutral

LEMMA ReleasePress == PressInv /\ (HandleReleaseAll \/ BridgeExit) => PressInv'
<1> SUFFICES ASSUME PressInv, HandleReleaseAll \/ BridgeExit PROVE PressInv'
  OBVIOUS
<1>1. sInput \in Inputs /\ remote \in [Channels -> BOOLEAN] /\ Updated(sInput) \in Inputs
  BY InputsTyped, UpdateKeeps DEF PressInv, ControllerTypeOK
<1>2. sInput' \in Inputs /\ ~active(sInput') /\ sInput'.phase = "none" /\ remote' = Neutral
  BY <1>1, ReleaseKeeps DEF HandleReleaseAll, BridgeExit
<1>3. /\ UNCHANGED <<pokebotInputControllerEnabled, sPatchesInstalled, menu, legacy, sent,
                     newest, fired, reported>>
      /\ bridge' \in {bridge, "off"}
  BY DEF HandleReleaseAll, BridgeExit, Quiet
<1>4. ControllerTypeOK'
  BY <1>2, <1>3, NeutralTyped DEF PressInv, ControllerTypeOK, Inputs, Disabling, active
<1>5. PressedIffHeld'
  BY <1>2, <1>3, NeutralTyped DEF PressedIffHeld, active
<1>6. MenuInv'
  BY <1>2, <1>3 DEF PressInv, MenuInv, Disabling
<1> QED BY <1>4, <1>5, <1>6 DEF PressInv

(* The menu, and what only moves the bridge or the network.                 *)
LEMMA BridgeOnlyPress ==
    PressInv /\ (FallAsleep \/ WakeUp \/ ToggleRam \/ Joined) => PressInv'
<1> SUFFICES ASSUME PressInv, FallAsleep \/ WakeUp \/ ToggleRam \/ Joined PROVE PressInv'
  OBVIOUS
<1>1. /\ UNCHANGED <<pokebotInputControllerEnabled, sPatchesInstalled, sInput, remote, legacy,
                     sent, newest, fired, reported>>
      /\ bridge' \in {"off", "running", "asleep", "stopping"}
      /\ \/ menu' = menu
         \/ menu = "idle" /\ menu' = "join" /\ ~pokebotInputControllerEnabled
         \/ menu = "join" /\ menu' = "idle"
  BY DEF FallAsleep, WakeUp, ToggleRam, Joined, KeepBridgeData, PressInv, ControllerTypeOK
<1>a. FieldsOK'
  BY <1>1, TypesAreHalves DEF PressInv, FieldsOK
<1>b. EnabledOK'
  BY <1>1, TypesAreHalves DEF PressInv, EnabledOK, MenuInv, Disabling, active
<1>2. ControllerTypeOK'
  BY <1>a, <1>b, TypesAreHalves
<1>3. PressedIffHeld'
  BY <1>1 DEF PressInv, PressedIffHeld, MenuInv, Disabling, active
<1>4. MenuInv'
  BY <1>1 DEF PressInv, MenuInv, Disabling
<1> QED BY <1>2, <1>3, <1>4 DEF PressInv

LEMMA EnableResetPress == PressInv /\ EnableReset => PressInv'
<1> SUFFICES ASSUME PressInv, EnableReset PROVE PressInv'
  OBVIOUS
<1>1. FieldsOK'
  BY NeutralTyped, TypesAreHalves DEF PressInv, FieldsOK, EnableReset, KeepBridgeData
<1>2. EnabledOK' /\ PressedIffHeld' /\ MenuInv'
  BY DEF EnabledOK, PressedIffHeld, MenuInv, EnableReset, Disabling
<1> QED BY <1>1, <1>2, TypesAreHalves DEF PressInv

LEMMA ClearedTyped ==
    Cleared \in Inputs /\ ~active(Cleared) /\ Cleared.phase = "none" /\ Cleared.sequence = 0
<1>1. Cleared \in Inputs
  BY DEF Cleared, Inputs
<1>2. ~active(Cleared) /\ Cleared.phase = "none" /\ Cleared.sequence = 0
  BY DEF Cleared, active
<1> QED BY <1>1, <1>2

LEMMA EnablePatchPress == PressInv /\ EnablePatch => PressInv'
<1> SUFFICES ASSUME PressInv, EnablePatch PROVE PressInv'
  OBVIOUS
<1>1. /\ menu = "patch" /\ menu' = "idle" /\ ~pokebotInputControllerEnabled
      /\ remote = Neutral /\ ~legacy
      /\ UNCHANGED <<remote, bridge, legacy, sent, newest>>
  BY DEF PressInv, MenuInv, EnablePatch
<1>2. CASE UNCHANGED <<pokebotInputControllerEnabled, sPatchesInstalled, sInput, fired, reported>>
  <2>1. FieldsOK'
    BY <1>1, <1>2, TypesAreHalves DEF PressInv, FieldsOK
  <2>2. EnabledOK' /\ PressedIffHeld' /\ MenuInv'
    BY <1>1, <1>2, NeutralTyped, TypesAreHalves
       DEF PressInv, EnabledOK, PressedIffHeld, MenuInv, Disabling
  <2> QED BY <2>1, <2>2, TypesAreHalves DEF PressInv
<1>3. CASE /\ pokebotInputControllerEnabled' = TRUE /\ sPatchesInstalled' = TRUE
           /\ sInput' = Cleared /\ fired' = [s \in Seqs |-> 0] /\ reported' = {}
  <2>1. fired' \in [Seqs -> 0 .. 2]
    BY <1>3
  <2>2. sInput' \in Inputs /\ ~active(sInput') /\ sInput'.phase = "none"
    BY <1>3, ClearedTyped
  <2>3. pokebotInputControllerEnabled' /\ sPatchesInstalled' /\ reported' = {}
    BY <1>3
  <2>4. ControllerTypeOK'
    BY <1>1, <2>1, <2>2, <2>3 DEF PressInv, ControllerTypeOK, Inputs, active
  <2>5. PressedIffHeld'
    BY <1>1, <2>2, NeutralTyped DEF PressedIffHeld, active
  <2>6. MenuInv'
    BY <1>1, <2>3 DEF MenuInv, Disabling
  <2> QED BY <2>4, <2>5, <2>6 DEF PressInv
<1> QED BY <1>2, <1>3 DEF EnablePatch

LEMMA DisablePress ==
    PressInv /\ (\/ DisableAbort \/ DisableRelease \/ DisableNeutral \/ DisableFlag
                \/ DisableUnpatch) => PressInv'
<1> SUFFICES ASSUME PressInv,
                    \/ DisableAbort \/ DisableRelease \/ DisableNeutral \/ DisableFlag
                    \/ DisableUnpatch
             PROVE  PressInv'
  OBVIOUS
<1> USE DEF MenuStep, KeepBridgeData
<1>1. CASE DisableAbort
  <2>1. sInput' \in Inputs
    BY <1>1, InputsTyped DEF DisableAbort, Aborted, Inputs
  <2>2. ControllerTypeOK'
    BY <1>1, <2>1 DEF DisableAbort, PressInv, ControllerTypeOK, Inputs, Disabling
  <2>3. PressedIffHeld' /\ MenuInv'
    BY <1>1 DEF DisableAbort, PressedIffHeld, MenuInv, Disabling
  <2> QED BY <2>2, <2>3 DEF PressInv
<1>2. CASE DisableRelease
  <2>1. \A yes \in BOOLEAN : [sInput EXCEPT !.phase = "none", !.expired = yes] \in Inputs
    BY InputsTyped DEF Inputs
  <2>2. sInput' \in Inputs
    BY <1>2, <2>1 DEF DisableRelease
  <2>3. ControllerTypeOK'
    BY <1>2, <2>2 DEF DisableRelease, PressInv, ControllerTypeOK, Inputs, Disabling
  <2>4. PressedIffHeld' /\ MenuInv'
    BY <1>2 DEF DisableRelease, PressInv, PressedIffHeld, MenuInv, Disabling
  <2> QED BY <2>3, <2>4 DEF PressInv
<1>3. CASE DisableNeutral
  <2>1a. FieldsOK'
    BY <1>3, NeutralTyped, TypesAreHalves DEF DisableNeutral, PressInv, FieldsOK
  <2>1b. EnabledOK'
    BY <1>3, NeutralTyped, TypesAreHalves DEF DisableNeutral, PressInv, EnabledOK, MenuInv, Disabling, active
  <2>1. ControllerTypeOK'
    BY <2>1a, <2>1b, TypesAreHalves
  <2>2. PressedIffHeld' /\ MenuInv'
    BY <1>3 DEF DisableNeutral, PressInv, PressedIffHeld, MenuInv, Disabling
  <2> QED BY <2>1, <2>2 DEF PressInv
<1>4. CASE DisableFlag
  <2>1. ~pokebotInputControllerEnabled' /\ pokebotInputControllerEnabled' \in BOOLEAN
    BY <1>4 DEF DisableFlag
  <2>2a. FieldsOK'
    BY <1>4, <2>1, TypesAreHalves DEF DisableFlag, PressInv, FieldsOK
  <2>2b. EnabledOK'
    BY <1>4, <2>1, TypesAreHalves DEF DisableFlag, PressInv, EnabledOK, MenuInv, Disabling, active
  <2>2. ControllerTypeOK'
    BY <2>2a, <2>2b, TypesAreHalves
  <2>3. PressedIffHeld' /\ MenuInv'
    BY <1>4, <2>1 DEF DisableFlag, PressedIffHeld, MenuInv, Disabling
  <2> QED BY <2>2, <2>3 DEF PressInv
<1>5. CASE DisableUnpatch
  <2>1. ~pokebotInputControllerEnabled /\ menu = "unpatch"
    BY <1>5 DEF DisableUnpatch, PressInv, MenuInv
  <2>2. sPatchesInstalled' \in BOOLEAN
    BY <1>5 DEF DisableUnpatch, PressInv, ControllerTypeOK
  <2>3a. FieldsOK'
    BY <1>5, <2>1, <2>2, TypesAreHalves DEF DisableUnpatch, PressInv, FieldsOK
  <2>3b. EnabledOK'
    BY <1>5, <2>1, <2>2, TypesAreHalves DEF DisableUnpatch, PressInv, EnabledOK, MenuInv, Disabling, active
  <2>3. ControllerTypeOK'
    BY <2>3a, <2>3b, TypesAreHalves
  <2>4. PressedIffHeld' /\ MenuInv'
    BY <1>5, <2>1 DEF DisableUnpatch, PressedIffHeld, MenuInv, Disabling
  <2> QED BY <2>3, <2>4 DEF PressInv
<1> QED BY <1>1, <1>2, <1>3, <1>4, <1>5

LEMMA LegacyPress ==
    ASSUME PressInv, ToggleLegacy \/ \E c \in Channels : LegacyPacket(c) PROVE PressInv'
<1>1. CASE ToggleLegacy
  <2>1. /\ menu = "idle" /\ ~pokebotInputControllerEnabled /\ legacy' \in BOOLEAN
        /\ UNCHANGED <<pokebotInputControllerEnabled, sPatchesInstalled, sInput, remote, bridge,
                       menu, sent, newest, reported, fired>>
    BY <1>1 DEF ToggleLegacy, KeepBridgeData, PressInv, ControllerTypeOK
  <2>2. FieldsOK'
    BY <2>1, TypesAreHalves DEF PressInv, FieldsOK
  <2>3. EnabledOK'
    BY <2>1 DEF EnabledOK
  <2>4. PressedIffHeld'
    BY <2>1 DEF PressedIffHeld
  <2>5. MenuInv'
    BY <2>1 DEF MenuInv, Disabling
  <2> QED BY <2>2, <2>3, <2>4, <2>5, TypesAreHalves DEF PressInv
<1>2. ASSUME NEW c \in Channels, LegacyPacket(c) PROVE PressInv'
  <2>1. legacy /\ ~pokebotInputControllerEnabled /\ menu # "patch"
    BY <1>2 DEF LegacyPacket, PressInv, ControllerTypeOK, MenuInv
  <2>2. remote' \in [Channels -> BOOLEAN]
    BY <1>2 DEF LegacyPacket, PressInv, ControllerTypeOK
  <2>3a. FieldsOK'
    BY <1>2, <2>1, <2>2, TypesAreHalves DEF LegacyPacket, KeepBridgeData, PressInv, FieldsOK
  <2>3b. EnabledOK'
    BY <1>2, <2>1, <2>2, TypesAreHalves DEF LegacyPacket, KeepBridgeData, PressInv, EnabledOK, MenuInv, Disabling, active
  <2>3. ControllerTypeOK'
    BY <2>3a, <2>3b, TypesAreHalves
  <2>4. PressedIffHeld' /\ MenuInv'
    BY <1>2, <2>1 DEF LegacyPacket, PressedIffHeld, PressInv, MenuInv, Disabling
  <2> QED BY <2>3, <2>4 DEF PressInv
<1> QED BY <1>1, <1>2

LEMMA OutsidePress ==
    ASSUME PressInv, DeadlinePasses \/ \E s \in Seqs, r \in Commands : Send(s, r) PROVE PressInv'
<1>1. CASE DeadlinePasses
  <2>1. \A yes \in BOOLEAN :
          LET in == [sInput EXCEPT !.expired = yes]
          IN  in \in Inputs /\ in.state = sInput.state /\ in.phase = sInput.phase
              /\ in.kind = sInput.kind
    BY InputsTyped DEF Inputs
  <2>2. /\ sInput' \in Inputs /\ sInput'.state = sInput.state /\ sInput'.phase = sInput.phase
        /\ sInput'.kind = sInput.kind
    BY <1>1, <2>1 DEF DeadlinePasses
  <2>3. ControllerTypeOK'
    BY <1>1, <2>2 DEF DeadlinePasses, PressInv, ControllerTypeOK, Inputs, Disabling, active
  <2>4. PressedIffHeld'
    BY <1>1, <2>2 DEF DeadlinePasses, PressInv, PressedIffHeld, Disabling, active
  <2>5. MenuInv'
    BY <1>1 DEF DeadlinePasses, PressInv, MenuInv, Disabling
  <2> QED BY <2>3, <2>4, <2>5 DEF PressInv
<1>2. ASSUME NEW s \in Seqs, NEW r \in Commands, Send(s, r) PROVE PressInv'
  <2>1. sent' \in [Seqs -> Commands \cup {NotSent}]
    BY <1>2 DEF Send, PressInv, ControllerTypeOK
  <2>2a. FieldsOK'
    BY <1>2, <2>1, TypesAreHalves DEF Send, PressInv, FieldsOK
  <2>2b. EnabledOK'
    BY <1>2, TypesAreHalves DEF Send, PressInv, EnabledOK, Disabling, active
  <2>2. ControllerTypeOK'
    BY <2>2a, <2>2b, TypesAreHalves
  <2>3. PressedIffHeld' /\ MenuInv'
    BY <1>2 DEF Send, PressInv, PressedIffHeld, MenuInv, Disabling, active
  <2> QED BY <2>2, <2>3 DEF PressInv
<1> QED BY <1>1, <1>2

LEMMA PressInit == ControllerInit => PressInv
<1> SUFFICES ASSUME ControllerInit PROVE PressInv
  OBVIOUS
<1>1. sInput \in Inputs /\ ~active(sInput) /\ sInput.phase = "none"
  BY ClearedTyped DEF ControllerInit
<1>a. fired \in [Seqs -> 0 .. 2] /\ sent \in [Seqs -> Commands \cup {NotSent}]
  BY DEF ControllerInit
<1>b. pokebotInputControllerEnabled \in BOOLEAN /\ sPatchesInstalled \in BOOLEAN /\ legacy \in BOOLEAN
  BY DEF ControllerInit
<1>2. FieldsOK
  BY <1>1, <1>a, <1>b, NeutralTyped DEF ControllerInit, FieldsOK
<1>3. EnabledOK /\ PressedIffHeld /\ MenuInv
  BY DEF ControllerInit, EnabledOK, PressedIffHeld, MenuInv, Disabling
<1> QED BY <1>2, <1>3, TypesAreHalves DEF PressInv

LEMMA PressStep == PressInv /\ [ControllerNext]_ctvars => PressInv'
<1> SUFFICES ASSUME PressInv, [ControllerNext]_ctvars PROVE PressInv'
  OBVIOUS
<1>1. CASE Bridge
  BY <1>1, LoopTopPress, ReleasePress, BridgeOnlyPress, HandlePulsePress, HandleStatusPress DEF Bridge
<1>2. CASE Menu
  BY <1>2, BridgeOnlyPress, EnableResetPress, EnablePatchPress, DisablePress, LegacyPress DEF Menu
<1>3. CASE Environment
  BY <1>3, OutsidePress, LegacyPress DEF Environment
<1>4. CASE UNCHANGED ctvars
  <2>1. FieldsOK' /\ EnabledOK' /\ PressedIffHeld' /\ MenuInv'
    BY <1>4, TypesAreHalves
       DEF ctvars, PressInv, FieldsOK, EnabledOK, PressedIffHeld, MenuInv, Disabling, active
  <2> QED BY <2>1, TypesAreHalves DEF PressInv
<1> QED BY <1>1, <1>2, <1>3, <1>4 DEF ControllerNext

(* ControllerInv: with the controller on, a channel is away from neutral    *)
(* exactly while the command in progress holds it.                          *)
THEOREM NothingStaysPressed == ControllerSpec => []ControllerInv
<1>1. PressInv => ControllerInv
  BY DEF PressInv, ControllerInv
<1> QED BY <1>1, PressInit, PressStep, PTL DEF ControllerSpec
-----------------------------------------------------------------------------
(* Carried out once.                                                        *)

DoneInv == SequenceInv /\ DoneOnce

LEMMA NumbersTyped ==
    ASSUME PressInv
    PROVE  /\ Seqs \subseteq Nat \ {0} /\ fired \in [Seqs -> 0 .. 2]
           /\ sInput.sequence \in Nat /\ newest \in Nat
<1>1. Seqs \subseteq Nat \ {0}
  BY ControllerAssumption DEF Seqs
<1>2. sInput \in Inputs /\ fired \in [Seqs -> 0 .. 2] /\ newest \in Seqs \cup {0}
  BY TypesAreHalves DEF PressInv, FieldsOK
<1>3. \A in \in Inputs : in.sequence \in Seqs \cup {0}
  BY DEF Inputs
<1>4. sInput.sequence \in Seqs \cup {0}
  BY <1>2, <1>3
<1>5. \A n \in Seqs \cup {0} : n \in Nat
  BY <1>1
<1> QED BY <1>1, <1>2, <1>4, <1>5

LEMMA DoneInit == ControllerInit => DoneInv
BY DEF ControllerInit, DoneInv, SequenceInv, DoneOnce, AtMostOnce, ReportedWasDone, Cleared

(* Without overtaking, a command that was carried out before is recognised. *)
LEMMA PulseDone ==
    ASSUME ~Overtaking, PressInv, DoneInv, NEW seq \in Seqs, HandlePulse(seq) PROVE DoneInv'
<1> DEFINE in == Updated(sInput)
           r == sent[seq]
           again == duplicate(in, seq, r.kind)
           starts == available /\ ~again /\ validTiming(r) /\ ~active(in)
<1>1. in.sequence = sInput.sequence /\ in.kind = sInput.kind
  BY InputsTyped, UpdateKeeps DEF PressInv, ControllerTypeOK
<1>t. Seqs \subseteq Nat \ {0} /\ fired \in [Seqs -> 0 .. 2]
  BY NumbersTyped
<1>n. sInput.sequence \in Nat /\ newest \in Nat
  BY NumbersTyped
<1>h. seq >= newest /\ newest' = (IF seq > newest THEN seq ELSE newest) /\ r # NotSent /\ sent' = sent
  BY DEF HandlePulse, Quiet
<1>2. /\ sInput.sequence \in Nat /\ newest \in Nat /\ fired \in [Seqs -> 0 .. 2]
      /\ Seqs \subseteq Nat \ {0} /\ seq >= newest /\ newest' = seq /\ r # NotSent /\ sent' = sent
  BY <1>t, <1>n, <1>h
<1>3. again <=> sInput.sequence = seq /\ sInput.kind = r.kind
  BY <1>1, <1>2 DEF duplicate
<1>4. fired[seq] > 0 => again
  BY <1>2, <1>3 DEF DoneInv, SequenceInv
<1>5. again => fired[seq] > 0
  BY <1>2, <1>3 DEF DoneInv, SequenceInv
<1>6. /\ sInput' = IF starts THEN Started(seq, r) ELSE in
      /\ fired' = IF starts /\ fired[seq] < 2 THEN [fired EXCEPT ![seq] = @ + 1] ELSE fired
      /\ reported' = IF available /\ again /\ in.state = "completed" THEN reported \cup {seq} ELSE reported
  BY DEF HandlePulse
<1>7. starts => ~again
  OBVIOUS
<1> HIDE DEF in, r, again, starts
<1>8. CASE starts
  <2>1. ~again /\ fired[seq] = 0
    BY <1>2, <1>4, <1>7, <1>8
  <2>2. fired' = [fired EXCEPT ![seq] = 1]
    BY <1>2, <1>6, <1>8, <2>1
  <2>3. sInput'.sequence = seq /\ sInput'.kind = r.kind /\ reported' \subseteq reported
    BY <1>6, <1>8, <2>1 DEF Started
  <2>4. SequenceInv'
    BY <1>2, <2>2, <2>3 DEF DoneInv, SequenceInv, r
  <2>5. DoneOnce'
    BY <1>2, <2>2, <2>3 DEF DoneInv, DoneOnce, AtMostOnce, ReportedWasDone
  <2> QED BY <2>4, <2>5 DEF DoneInv
<1>9. CASE ~starts
  <2>1. fired' = fired /\ sInput'.sequence = sInput.sequence /\ sInput'.kind = sInput.kind
    BY <1>1, <1>6, <1>9
  <2>2. \A s \in reported' : s \in reported \/ fired[s] > 0
    BY <1>5, <1>6
  <2>3. SequenceInv'
    BY <1>2, <2>1 DEF DoneInv, SequenceInv
  <2>4. DoneOnce'
    BY <2>1, <2>2 DEF DoneInv, DoneOnce, AtMostOnce, ReportedWasDone
  <2> QED BY <2>3, <2>4 DEF DoneInv
<1> QED BY <1>8, <1>9

LEMMA StatusDone == ASSUME PressInv, DoneInv, NEW seq \in Seqs, HandleStatus(seq) PROVE DoneInv'
<1>1. Updated(sInput).sequence = sInput.sequence /\ Updated(sInput).kind = sInput.kind
  BY InputsTyped, UpdateKeeps DEF PressInv, ControllerTypeOK
<1>2. /\ sInput'.sequence = sInput.sequence /\ sInput'.kind = sInput.kind
      /\ fired' = fired /\ newest' = newest /\ sent' = sent
      /\ \A s \in reported' : s \in reported \/ s = sInput.sequence
  BY <1>1 DEF HandleStatus, Quiet
<1>3. seq # 0 /\ \A s \in reported' : s \in reported \/ (s # 0 /\ s = sInput.sequence)
  BY <1>1, ControllerAssumption DEF HandleStatus, Seqs
<1> QED BY <1>2, <1>3 DEF DoneInv, SequenceInv, DoneOnce, AtMostOnce, ReportedWasDone

(* Every other step keeps the number and the kind of the command accepted   *)
(* last, or forgets them together with what was carried out.                *)
LEMMA OthersDone ==
    ASSUME PressInv, DoneInv, sInput'.sequence = sInput.sequence, sInput'.kind = sInput.kind,
           UNCHANGED <<newest, fired, reported>>,
           \A s \in Seqs : sent[s] # NotSent => sent'[s] = sent[s]
    PROVE  DoneInv'
<1>1. sInput.sequence \in Seqs \cup {0}
  BY DEF PressInv, ControllerTypeOK
<1> QED BY <1>1 DEF DoneInv, SequenceInv, DoneOnce, AtMostOnce, ReportedWasDone

LEMMA DoneStep == ~Overtaking /\ PressInv /\ DoneInv /\ [ControllerNext]_ctvars => DoneInv'
<1> SUFFICES ASSUME ~Overtaking, PressInv, DoneInv, [ControllerNext]_ctvars PROVE DoneInv'
  OBVIOUS
<1>1. sInput \in Inputs /\ Updated(sInput) \in Inputs
      /\ Updated(sInput).sequence = sInput.sequence /\ Updated(sInput).kind = sInput.kind
  BY InputsTyped, UpdateKeeps DEF PressInv, ControllerTypeOK
<1>2. CASE LoopTop
  BY <1>1, <1>2, OthersDone DEF LoopTop, Quiet
<1>3. CASE HandleReleaseAll \/ BridgeExit
  BY <1>1, <1>3, ReleaseKeeps, OthersDone DEF HandleReleaseAll, BridgeExit, Quiet
<1>4. CASE FallAsleep \/ WakeUp \/ ToggleRam \/ Joined \/ EnableReset
  BY <1>4, OthersDone DEF FallAsleep, WakeUp, ToggleRam, Joined, EnableReset, KeepBridgeData
<1>5. ASSUME NEW s \in Seqs, HandlePulse(s) \/ HandleStatus(s) PROVE DoneInv'
  BY <1>5, PulseDone, StatusDone
<1>6. CASE EnablePatch
  <2>1. newest' = newest /\ sent' = sent
    BY <1>6 DEF EnablePatch
  <2>2. CASE UNCHANGED <<sInput, fired, reported>>
    BY <2>1, <2>2, OthersDone
  <2>3. CASE sInput' = Cleared /\ fired' = [s \in Seqs |-> 0] /\ reported' = {}
    <3>1. newest \in Nat /\ sInput'.sequence = 0 /\ \A s \in Seqs : fired'[s] = 0
      BY <2>3, ClearedTyped, NumbersTyped
    <3> QED BY <2>1, <2>3, <3>1 DEF DoneInv, SequenceInv, DoneOnce, AtMostOnce, ReportedWasDone
  <2> QED BY <1>6, <2>2, <2>3 DEF EnablePatch
<1>7. CASE DisableAbort
  BY <1>1, <1>7, OthersDone DEF DisableAbort, Aborted, Inputs, MenuStep, KeepBridgeData
<1>8. CASE DisableRelease
  <2>1. sInput'.sequence = sInput.sequence /\ sInput'.kind = sInput.kind
    BY <1>1, <1>8 DEF DisableRelease, Inputs
  <2> QED BY <1>8, <2>1, OthersDone DEF DisableRelease, MenuStep, KeepBridgeData
<1>9. CASE DisableNeutral \/ DisableFlag \/ DisableUnpatch \/ ToggleLegacy
  BY <1>9, OthersDone DEF DisableNeutral, DisableFlag, DisableUnpatch, ToggleLegacy, MenuStep, KeepBridgeData
<1>10. ASSUME NEW c \in Channels, LegacyPacket(c) PROVE DoneInv'
  BY <1>10, OthersDone DEF LegacyPacket, KeepBridgeData
<1>11. ASSUME NEW s \in Seqs, NEW r \in Commands, Send(s, r) PROVE DoneInv'
  <2>1. \A q \in Seqs : sent[q] # NotSent => sent'[q] = sent[q]
    BY <1>11 DEF Send, PressInv, ControllerTypeOK
  <2> QED BY <1>11, <2>1, OthersDone DEF Send
<1>12. CASE DeadlinePasses
  <2>1. sInput'.sequence = sInput.sequence /\ sInput'.kind = sInput.kind
    BY <1>1, <1>12 DEF DeadlinePasses, Inputs
  <2> QED BY <1>12, <2>1, OthersDone DEF DeadlinePasses
<1>13. CASE UNCHANGED ctvars
  BY <1>13, OthersDone DEF ctvars
<1> QED BY <1>2, <1>3, <1>4, <1>5, <1>6, <1>7, <1>8, <1>9, <1>10, <1>11, <1>12, <1>13
        DEF ControllerNext, Bridge, Menu, Environment

(* DoneOnce: "Duplicate sequence IDs are observational and never create a   *)
(* second gameplay action", and what is reported was done; when datagrams   *)
(* do not overtake each other.                                              *)
THEOREM CommandsAreDoneOnce == ASSUME ~Overtaking PROVE ControllerSpec => []DoneOnce
<1>1. DoneInv => DoneOnce
  BY DEF DoneInv
<1>2. PressInv /\ DoneInv /\ [ControllerNext]_ctvars => DoneInv'
  BY DoneStep
<1> QED BY <1>1, <1>2, PressInit, PressStep, DoneInit, PTL DEF ControllerSpec

-----------------------------------------------------------------------------
(***************************************************************************)
(* Rosalina's plugin loader, for any number of applications and HOME       *)
(* events: a plugin never runs without its own memory, and there is a      *)
(* plugin's header whenever rosalina waits for a reply. Both follow from   *)
(* what the word at 0x1FF800F0 says of the context, of the application and *)
(* of where rosalina's threads are, as long as nothing happens that the    *)
(* loader is not told of.                                                  *)
(***************************************************************************)

(* An application that waits inside a system call is the one rosalina works
   for: its notification is to be taken, being handled, or has been answered. *)
OneEvent ==
    /\ app.waiting = {} => pending = 0 /\ ~signalled /\ main.pc = "idle" /\ cfg.events = {}
    /\ \A e \in app.waiting :
          /\ app.waiting = {e}
          /\ \/ pending = 1 /\ ~signalled /\ main.pc = "idle" /\ cfg.events = {e}
             \/ pending = 0 /\ ~signalled /\ main.pc # "idle"
                /\ cfg.events = IF e = "exit" THEN {} ELSE {e}
             \/ pending = 0 /\ signalled /\ main.pc = "idle" /\ cfg.events = {}
    /\ "exit" \in app.waiting => cfg.status = "exiting" \/ (cfg.status = "running" /\ pending = 1)
    /\ "home" \in app.waiting => cfg.status \in {"running", "inhome"}
    /\ cfg.status = "exiting" => pending = 0

Held == ctx.memblock = app.proc /\ app.mounted

(* What the status says. *)
WhenNone ==
    /\ Forgotten /\ app.waiting = {} /\ task = "ready" /\ main.pc = "idle"
    /\ ~(app.alive /\ app.hooked) /\ ~app.locked
WhenRunning ==
    /\ app.alive /\ Held /\ ~ctx.pluginIsSwapped /\ ~ctx.pluginIsHome /\ task = "ready"
    /\ app.locked <=> main.pc = "save"
    /\ main.pc # "unlock"
    /\ main.pc # "idle" => main.ask = IF Swaps THEN "swap" ELSE "homeEnter"
    /\ main.pc = "save" => Swaps
WhenInHome ==
    /\ app.alive /\ task = "ready"
    /\ Swaps => /\ ctx.pluginIsSwapped /\ ~ctx.pluginIsHome /\ app.locked /\ swapFile = app.proc
                /\ main.pc \in {"idle", "unlock"}
                /\ IF main.pc = "unlock" THEN Held ELSE ctx.memblock = None
    /\ ~Swaps => /\ ~ctx.pluginIsSwapped /\ ctx.pluginIsHome /\ ~app.locked /\ Held
                 /\ main.pc \notin {"save", "unlock"}
                 /\ main.pc # "idle" => main.ask = "homeExit"
WhenExiting ==
    /\ ~ctx.pluginIsSwapped /\ ctx.memblock = app.proc /\ ~app.locked
    /\ app.alive => app.mounted /\ app.waiting = {"exit"}
    /\ main.pc = "idle" <=> task = "waiting"
    /\ main.pc # "idle" => /\ app.alive /\ main.ask = "exit"
                           /\ main.pc \in {"clear", "arbitrate", "blocked", "after"}

Told ==
    /\ ~app.alive => app.waiting = {} /\ ~app.mounted /\ ~app.locked
    /\ cfg.status # "none" => ctx.target = app.proc /\ app.proc # None /\ app.hooked
    /\ cfg.status = "none" => WhenNone
    /\ cfg.status = "running" => WhenRunning
    /\ cfg.status = "inhome" => WhenInHome
    /\ cfg.status = "exiting" => WhenExiting

(* Once the console has been rebooted nothing more happens. *)
Safe == /\ main.pc # "crashed"
        /\ main.pc = "rebooted" => ~PluginRuns
        /\ Up => OneEvent /\ Told

(* The inductive invariant. *)
PluginStrong == PluginTypeOK /\ (orderly => Safe)

-----------------------------------------------------------------------------
(* What loading a plugin writes into the context. *)
LEMMA LoadedContext ==
    ASSUME NEW x \in Contexts, NEW p \in Procs \cup {None}, NEW s \in Strategies,
           NEW self \in BOOLEAN, NEW set \in BOOLEAN
    PROVE  [x EXCEPT !.plgEvent = "ok", !.target = p, !.strategy = s,
                     !.eventsSelfManaged = self, !.isSwapFunctionset = set,
                     !.memblock = p] \in Contexts
<1>1. [x EXCEPT !.plgEvent = "ok", !.target = p, !.strategy = s] \in Contexts
  BY DEF Contexts
<1>2. \A y \in Contexts : [y EXCEPT !.eventsSelfManaged = self, !.isSwapFunctionset = set,
                                    !.memblock = p] \in Contexts
  BY DEF Contexts
<1>3. [x EXCEPT !.plgEvent = "ok", !.target = p, !.strategy = s,
                !.eventsSelfManaged = self, !.isSwapFunctionset = set, !.memblock = p]
      = [[x EXCEPT !.plgEvent = "ok", !.target = p, !.strategy = s]
           EXCEPT !.eventsSelfManaged = self, !.isSwapFunctionset = set, !.memblock = p]
  BY DEF Contexts
<1>4. QED
  BY <1>1, <1>2, <1>3, Zenon

LEMMA PluginTypes == PluginTypeOK /\ [PluginNext]_plvars => PluginTypeOK'
<1> SUFFICES ASSUME PluginTypeOK, [PluginNext]_plvars PROVE PluginTypeOK'
  OBVIOUS
<1>a. ctx \in Contexts /\ app \in Apps
  BY DEF PluginTypeOK
<1>b. At("none", "ok") \in [pc : {"none", "loop", "handling", "replied", "cleared", "parked"},
                             ask : Requests \cup {"ok", "sleep"}]
      /\ At("rebooted", "ok") \in [pc : {"idle", "clear", "arbitrate", "blocked", "after", "save",
                                        "unlock", "rebooted", "crashed"}, ask : Requests \cup {"ok"}]
  BY DEF At
<1> USE PluginAssumption DEF PluginAssumption, PluginTypeOK, Procs, None, Strategies, Requests
<1>1. CASE LoadNothing
  <2>1. app' \in Apps
    BY <1>1, <1>a DEF LoadNothing, Launch, Launched, Apps
  <2>2. ctx' \in Contexts
    <3>1. PICK s \in Strategies :
            ctx' = [ctx EXCEPT !.plgEvent = "ok", !.target = None, !.strategy = s]
      BY <1>1, Zenon DEF LoadNothing
    <3>2. QED
      BY <1>a, <3>1 DEF Contexts
  <2>3. plg' = At("none", "ok") /\ orderly' \in BOOLEAN
        /\ UNCHANGED <<cfg, main, isN3DS, swapFile, pending, signalled, task, answer, homes, sleeps>>
    BY <1>1 DEF LoadNothing, Launch
  <2>4. QED
    BY <1>b, <2>1, <2>2, <2>3
<1>2. CASE LoadFails
  <2>1. app' \in Apps
    BY <1>2, <1>a DEF LoadFails, Launch, Launched, Apps
  <2>2. ctx' \in Contexts
    <3>0. {ctx.isSwapFunctionset, TRUE} \subseteq BOOLEAN
      BY <1>a DEF Contexts
    <3>1. PICK s \in Strategies, self \in BOOLEAN, set \in BOOLEAN :
            ctx' = [ctx EXCEPT !.plgEvent = "ok", !.target = None, !.strategy = s,
                               !.eventsSelfManaged = self, !.isSwapFunctionset = set,
                               !.memblock = None]
      BY <1>2, <3>0, Zenon DEF LoadFails
    <3>2. QED
      BY <1>a, <3>1, LoadedContext
  <2>3. plg' = At("none", "ok") /\ orderly' \in BOOLEAN
        /\ UNCHANGED <<cfg, main, isN3DS, swapFile, pending, signalled, task, answer, homes, sleeps>>
    BY <1>2 DEF LoadFails, Launch
  <2>4. QED
    BY <1>b, <2>1, <2>2, <2>3
<1>3. CASE LoadReboots
  <2>1. app' \in Apps
    BY <1>3, <1>a DEF LoadReboots, Launch, Launched, Apps
  <2>2. main' = At("rebooted", "ok") /\ orderly' \in BOOLEAN
        /\ UNCHANGED <<cfg, ctx, plg, isN3DS, swapFile, pending, signalled, task, answer, homes,
                       sleeps>>
    BY <1>3 DEF LoadReboots, Launch
  <2>3. QED
    BY <1>b, <2>1, <2>2
<1>4. CASE LoadPlugin
  <2>1. app.proc + 1 \in Procs
    BY <1>4, <1>a DEF LoadPlugin, Launch, Apps
  <2>2. app' \in Apps
    BY <1>4, <2>1 DEF LoadPlugin, Launched, Apps
  <2>3. ctx' \in Contexts
    <3>0. {ctx.isSwapFunctionset, TRUE} \subseteq BOOLEAN
      BY <1>a DEF Contexts
    <3>a. PICK s \in Strategies, self \in BOOLEAN, set \in {ctx.isSwapFunctionset, TRUE} :
            ctx' = [ctx EXCEPT !.plgEvent = "ok", !.target = app.proc + 1, !.strategy = s,
                               !.eventsSelfManaged = self, !.isSwapFunctionset = set,
                               !.memblock = app.proc + 1]
      BY <1>4, Zenon DEF LoadPlugin
    <3>1. set \in BOOLEAN
      BY <3>0, Zenon
    <3> DEFINE p == app.proc + 1
    <3>2. p \in Procs \cup {None}
      BY <2>1
    <3>3. ctx' = [ctx EXCEPT !.plgEvent = "ok", !.target = p, !.strategy = s,
                             !.eventsSelfManaged = self, !.isSwapFunctionset = set,
                             !.memblock = p]
      BY <3>a, Zenon
    <3> HIDE DEF p
    <3>4. QED
      BY <1>a, <3>1, <3>2, <3>3, LoadedContext, Zenon
  <2>4. QED
    BY <1>4, <2>2, <2>3 DEF LoadPlugin, Launch, SetStatus, At
<1>5. CASE ReceiveParameter
  BY <1>5 DEF ReceiveParameter, Signal, Contexts, Apps
<1>6. CASE ExitSignals
  BY <1>6 DEF ExitSignals, Signal, Contexts, Apps
<1>7. CASE Ends
  <2>1. app' \in Apps
    BY <1>7, <1>a DEF Ends, Ended, Apps
  <2>2. QED
    BY <1>7, <2>1 DEF Ends, At
<1>8. ASSUME NEW e \in {"home", "exit"}, AppGoesOn(e) PROVE PluginTypeOK'
  <2>1. app' \in Apps
    BY <1>8, <1>a DEF AppGoesOn, Ended, Apps
  <2>2. signalled' \in BOOLEAN
    BY <1>8, Zenon DEF AppGoesOn
  <2>3. QED
    BY <1>8, <2>1, <2>2 DEF AppGoesOn, At
<1>9. CASE HandleOther
  BY <1>9 DEF HandleOther, TakeNotification, Publish, Idle, unhandled, Contexts, Apps
<1>10. CASE HandleExit
  BY <1>10 DEF HandleExit, TakeNotification, SetStatus, Ask, Notified, At, unhandled, Contexts, Apps
<1>11. CASE HandleSwapOut
  BY <1>11 DEF HandleSwapOut, Home, TakeNotification, Ask, Notified, At, unhandled, Contexts, Apps
<1>12. CASE HandleSwapIn
  BY <1>12 DEF HandleSwapIn, Home, TakeNotification, TargetAlive, At, unhandled, Contexts, Apps
<1>13. CASE HandleHome
  BY <1>13 DEF HandleHome, Home, TakeNotification, Ask, Notified, At, unhandled, Contexts, Apps
<1>14. CASE ClearReply
  BY <1>14 DEF ClearReply, unhandled, Contexts, Apps
<1>15. CASE Arbitrate
  BY <1>15 DEF Arbitrate, unhandled, Contexts, Apps
<1>16. CASE TimesOut
  BY <1>16 DEF TimesOut, unhandled, Contexts, Apps
<1>17. CASE Submit
  BY <1>17 DEF Submit, Publish, Idle, unhandled, Contexts, Apps
<1>18. CASE ToggleHome
  <2>1. ctx' \in Contexts
    BY <1>18, <1>a DEF ToggleHome, Contexts
  <2>2. cfg' \in [status : {"none", "running", "inhome", "exiting"}, events : SUBSET {"home", "exit"}]
    BY <1>18 DEF ToggleHome, SetStatus
  <2>3. QED
    BY <1>18, <2>1, <2>2 DEF ToggleHome, Publish, Idle, unhandled
<1>19. CASE Lock
  BY <1>19 DEF Lock, LocksThreads, TargetAlive, At, unhandled, Contexts, Apps
<1>20. CASE Save
  <2>1. app' \in Apps
    BY <1>20, <1>a DEF Save, TargetAlive, Apps
  <2>2. ctx' \in Contexts /\ swapFile' \in Procs \cup {None}
    BY <1>20, <1>a DEF Save, Contexts
  <2>3. QED
    BY <1>20, <2>1, <2>2 DEF Save, SetStatus, Publish, Idle, unhandled
<1>21. CASE SaveFails
  BY <1>21 DEF SaveFails, At, unhandled, Contexts, Apps
<1>22. CASE Unlock
  <2>1. app' \in Apps
    BY <1>22, <1>a DEF Unlock, TargetAlive, Apps
  <2>2. ctx' \in Contexts
    BY <1>22, <1>a DEF Unlock, Notified, Contexts
  <2>3. QED
    BY <1>22, <2>1, <2>2 DEF Unlock, SetStatus, Publish, Idle, At
<1>23. CASE SetSwapSettings
  BY <1>23 DEF SetSwapSettings, unhandled, Contexts, Apps
<1>24. CASE HandleSleep
  BY <1>24 DEF HandleSleep, Notified, Contexts, Apps
<1>25. CASE WaitForProcessTerminated
  <2>1. app' \in Apps
    BY <1>25, <1>a DEF WaitForProcessTerminated, TargetAlive, Apps
  <2>2. ctx' \in Contexts
    <3>1. FreedMemory(ctx) \in Procs \cup {None}
      BY <1>a DEF FreedMemory, Contexts
    <3>2. ASSUME NEW m \in Procs \cup {None}
          PROVE  [ctx EXCEPT !.target = None, !.strategy = "swap", !.eventsSelfManaged = FALSE,
                             !.isSwapFunctionset = FALSE, !.pluginIsSwapped = FALSE,
                             !.pluginIsHome = FALSE, !.memblock = m] \in Contexts
      BY <1>a DEF Contexts
    <3>3. AtEnd(ctx) \in Contexts
      BY <3>1, <3>2, Zenon DEF AtEnd
    <3>4. QED
      BY <1>25, <3>3 DEF WaitForProcessTerminated
  <2>3. QED
    BY <1>25, <2>1, <2>2 DEF WaitForProcessTerminated, SetStatus, StatusAfterEnd
<1>26. CASE PluginReads
  BY <1>26 DEF PluginReads, PluginRuns, At, unplugged, Contexts, Apps
<1>27. CASE PluginReplies
  BY <1>27 DEF PluginReplies, PluginRuns, unplugged, Contexts, Apps
<1>28. CASE PluginClears
  BY <1>28 DEF PluginClears, PluginRuns, At, unplugged, Contexts, Apps
<1>29. CASE PluginSignals
  BY <1>29 DEF PluginSignals, PluginRuns, At, unplugged, Contexts, Apps
<1>30. CASE UNCHANGED plvars
  BY <1>30 DEF plvars
<1>31. QED
  <2> HIDE DEF PluginTypeOK
  <2>1. QED
    BY <1>1, <1>2, <1>3, <1>4, <1>5, <1>6, <1>7, <1>8, <1>9, <1>10, <1>11, <1>12, <1>13, <1>14, <1>15, <1>16, <1>17, <1>18, <1>19, <1>20, <1>21, <1>22, <1>23, <1>24, <1>25, <1>26, <1>27, <1>28, <1>29, <1>30
    DEF PluginNext, MainThread, Application, PluginThread, Loader

-----------------------------------------------------------------------------
LEMMA StepIsSafe ==
    ASSUME PluginTypeOK, PluginTypeOK', OneEvent, Told, Up, orderly, orderly', PluginNext
    PROVE  Safe'
<1> USE DEF PluginTypeOK, Contexts, Apps, None, Requests, Safe, Up, PluginRuns, OneEvent, Held, WhenNone, WhenRunning, WhenInHome, WhenExiting, Told, Forgotten, Swaps
<1>1. CASE LoadNothing
  BY <1>1 DEF LoadNothing, Launch, Launched, At
<1>2. CASE LoadFails
  BY <1>2 DEF LoadFails, Launch, Launched, At
<1>3. CASE LoadReboots
  BY <1>3 DEF LoadReboots, Launch, Launched, At
<1>4. CASE LoadPlugin
  <2>1. cfg.status = "none" /\ ctx.pluginIsSwapped = FALSE /\ ctx.pluginIsHome = FALSE
    BY <1>4 DEF LoadPlugin, Launch
  <2>2. /\ ctx'.target = app.proc + 1 /\ ctx'.memblock = app.proc + 1
        /\ ctx'.pluginIsSwapped = ctx.pluginIsSwapped /\ ctx'.pluginIsHome = ctx.pluginIsHome
    BY <1>4 DEF LoadPlugin
  <2>3. /\ app'.alive /\ app'.hooked /\ app'.mounted /\ ~app'.locked /\ app'.waiting = {}
        /\ app'.proc = app.proc + 1 /\ app'.proc # None
    BY <1>4, PluginAssumption DEF LoadPlugin, Launched, Procs, PluginAssumption
  <2>4. cfg'.status = "running" /\ cfg'.events = {}
    BY <1>4 DEF LoadPlugin, SetStatus
  <2>5. /\ main.pc = "idle" /\ main' = main /\ task' = "ready" /\ pending' = 0 /\ ~signalled'
        /\ orderly' = (orderly /\ task = "ready" /\ pending = 0)
    BY <1>4, <2>1 DEF LoadPlugin, Launch
  <2>6. OneEvent'
    BY <2>3, <2>4, <2>5
  <2>7. Told'
    BY <2>1, <2>2, <2>3, <2>4, <2>5
  <2>8. QED
    BY <2>5, <2>6, <2>7
<1>5. CASE ReceiveParameter
  BY <1>5 DEF ReceiveParameter, Signal
<1>6. CASE ExitSignals
  BY <1>6 DEF ExitSignals, Signal
<1>7. CASE Ends
  BY <1>7 DEF Ends, Ended, At
<1>8. ASSUME NEW e \in {"home", "exit"}, AppGoesOn(e) PROVE Safe'
  BY <1>8 DEF AppGoesOn, Ended, At
<1>9. CASE HandleOther
  BY <1>9 DEF HandleOther, TakeNotification, Publish, Idle, unhandled
<1>10. CASE HandleExit
  BY <1>10 DEF HandleExit, TakeNotification, SetStatus, Ask, Notified, At, unhandled
<1>11. CASE HandleSwapOut
  BY <1>11 DEF HandleSwapOut, Home, TakeNotification, Ask, Notified, At, unhandled
<1>12. CASE HandleSwapIn
  BY <1>12 DEF HandleSwapIn, Home, TakeNotification, TargetAlive, At, unhandled
<1>13. CASE HandleHome
  BY <1>13 DEF HandleHome, Home, TakeNotification, Ask, Notified, At, unhandled
<1>14. CASE ClearReply
  BY <1>14 DEF ClearReply, unhandled
<1>15. CASE Arbitrate
  BY <1>15 DEF Arbitrate, unhandled
<1>16. CASE TimesOut
  BY <1>16 DEF TimesOut, unhandled
<1>17. CASE Submit
  <2>1. main.pc = "after" /\ main.ask = "exit"
    BY <1>17 DEF Submit, At
  <2>2. main'.pc = "idle" /\ signalled' /\ task' = "waiting" /\ cfg' = cfg /\ app' = app /\ ctx' = ctx
    BY <1>17 DEF Submit, Publish, Idle
  <2>3. cfg.status = "exiting" /\ app.waiting = {"exit"} /\ pending = 0 /\ cfg.events = {}
    BY <2>1
  <2>4. QED
    BY <1>17, <2>1, <2>2, <2>3 DEF Submit, unhandled
<1>18. CASE ToggleHome
  BY <1>18 DEF ToggleHome, SetStatus, Publish, Idle, unhandled
<1>19. CASE Lock
  BY <1>19 DEF Lock, LocksThreads, TargetAlive, At, unhandled
<1>20. CASE Save
  BY <1>20 DEF Save, TargetAlive, SetStatus, Publish, Idle, unhandled
<1>21. CASE SaveFails
  BY <1>21 DEF SaveFails, At, unhandled
<1>22. CASE Unlock
  BY <1>22 DEF Unlock, TargetAlive, Notified, SetStatus, Publish, Idle, At
<1>23. CASE SetSwapSettings
  BY <1>23 DEF SetSwapSettings, unhandled
<1>24. CASE HandleSleep
  BY <1>24 DEF HandleSleep, Notified
<1>25. CASE WaitForProcessTerminated
  BY <1>25 DEF WaitForProcessTerminated, TargetAlive, AtEnd, FreedMemory, SetStatus, StatusAfterEnd
<1>26. CASE PluginReads
  BY <1>26 DEF PluginReads, At, unplugged
<1>27. CASE PluginReplies
  BY <1>27 DEF PluginReplies, unplugged
<1>28. CASE PluginClears
  BY <1>28 DEF PluginClears, At, unplugged
<1>29. CASE PluginSignals
  BY <1>29 DEF PluginSignals, At, unplugged
<1>30. QED
  <2> HIDE DEF Safe
  <2>1. QED
    BY <1>1, <1>2, <1>3, <1>4, <1>5, <1>6, <1>7, <1>8, <1>9, <1>10, <1>11, <1>12, <1>13, <1>14, <1>15, <1>16, <1>17, <1>18, <1>19, <1>20, <1>21, <1>22, <1>23, <1>24, <1>25, <1>26, <1>27, <1>28, <1>29
    DEF PluginNext, MainThread, Application, PluginThread, Loader

LEMMA OrderlyStays == PluginTypeOK /\ PluginNext /\ orderly' => orderly
<1> SUFFICES ASSUME PluginTypeOK, PluginNext, ~orderly PROVE ~orderly'
  OBVIOUS
<1>1. orderly' = orderly \/ \E condition \in BOOLEAN : orderly' = (orderly /\ condition)
  BY Zenon
  DEF PluginNext, MainThread, Application, PluginThread, Loader, unhandled, unplugged,
      LoadNothing, LoadFails, LoadReboots, LoadPlugin, Launch, ReceiveParameter, ExitSignals, Signal,
      Ends, AppGoesOn, HandleOther, HandleExit, HandleSwapOut, HandleSwapIn, HandleHome, ClearReply,
      Arbitrate, TimesOut, Submit, ToggleHome, Lock, Save, SaveFails, Unlock, SetSwapSettings,
      HandleSleep, WaitForProcessTerminated, PluginReads, PluginReplies, PluginClears, PluginSignals
<1>2. QED
  BY <1>1

-----------------------------------------------------------------------------
LEMMA PluginStrongInit == PluginInit => PluginStrong
<1> SUFFICES ASSUME PluginInit PROVE PluginStrong
  OBVIOUS
<1>1. ctx \in Contexts /\ app \in Apps
  BY DEF PluginInit, Contexts, Apps, At, None, Strategies
<1>2. signalled \in BOOLEAN /\ orderly \in BOOLEAN /\ ~signalled
  BY Zenon DEF PluginInit
<1>3. PluginTypeOK
  BY <1>1, <1>2, PluginAssumption DEF PluginInit, PluginTypeOK, PluginAssumption, At, Idle, None
<1>4. main.pc = "idle" /\ cfg.status = "none" /\ cfg.events = {} /\ app.waiting = {}
  BY DEF PluginInit, Idle
<1>5. /\ ~app.alive /\ ~app.locked /\ ~app.mounted /\ ~ctx.pluginIsSwapped /\ ~ctx.pluginIsHome
      /\ ctx.memblock = None /\ ctx.target = None
  BY DEF PluginInit
<1>6. OneEvent /\ Told
  BY <1>2, <1>4, <1>5 DEF PluginInit, OneEvent, Told, WhenNone, Forgotten
<1>7. QED
  BY <1>3, <1>4, <1>6 DEF PluginStrong, Safe

LEMMA PluginStrongNext == PluginStrong /\ [PluginNext]_plvars => PluginStrong'
<1> SUFFICES ASSUME PluginStrong, [PluginNext]_plvars PROVE PluginStrong'
  OBVIOUS
<1>1. PluginTypeOK /\ PluginTypeOK'
  BY PluginTypes DEF PluginStrong
<1>2. CASE PluginNext
  <2>1. Up
    BY <1>2 DEF PluginNext
  <2>2. orderly' => orderly
    BY <1>1, <1>2, OrderlyStays
  <2>3. QED
    BY <1>1, <1>2, <2>1, <2>2, StepIsSafe DEF PluginStrong, Safe
<1>3. CASE UNCHANGED plvars
  BY <1>1, <1>3
  DEF plvars, PluginStrong, Safe, PluginRuns, Up, OneEvent, Told, Held, Forgotten, Swaps,
      WhenNone, WhenRunning, WhenInHome, WhenExiting
<1>4. QED
  BY <1>2, <1>3

LEMMA PluginStrongHolds == PluginSpec => []PluginStrong
BY PluginStrongInit, PluginStrongNext, PTL DEF PluginSpec

(* Every variable has its type, however many applications are launched     *)
(* (plgloader.c).                                                           *)
THEOREM PluginTypeCorrect == PluginSpec => []PluginTypeOK
<1>1. PluginStrong => PluginTypeOK
  BY DEF PluginStrong
<1>2. QED
  BY <1>1, PluginStrongHolds, PTL

(* A plugin's threads run only while its own memory is mounted, and are    *)
(* only left locked while it is swapped out (plgloader.c:711-740 against   *)
(* the exit in 698-710 and 657-684).                                        *)
THEOREM PluginHasItsMemory == PluginSpec => []PluginRunsInItsMemory
<1>1. PluginStrong => PluginRunsInItsMemory
  BY DEF PluginStrong, Safe, PluginRunsInItsMemory, PluginRuns, Up, Told, Held,
         WhenNone, WhenRunning, WhenInHome, WhenExiting, PluginTypeOK, Apps, Contexts
<1>2. QED
  BY <1>1, PluginStrongHolds, PTL

(* WaitForReply never reads the timeout from the header of a plugin that   *)
(* is not there (plgloader.c:639).                                          *)
THEOREM HeaderIsThere == PluginSpec => []HeaderForReply
<1>1. PluginStrong => HeaderForReply
  BY DEF PluginStrong, Safe, HeaderForReply
<1>2. QED
  BY <1>1, PluginStrongHolds, PTL

(* The three together: what a plugin, and rosalina when it waits for it,   *)
(* rely on (plgloader.c:622-740).                                           *)
THEOREM PluginIsSafe == PluginSpec => []PluginInv
<1>1. PluginTypeOK /\ PluginRunsInItsMemory /\ HeaderForReply => PluginInv
  BY DEF PluginInv
<1>2. QED
  BY <1>1, PluginTypeCorrect, PluginHasItsMemory, HeaderIsThere, PTL
=============================================================================
