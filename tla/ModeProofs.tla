----------------------------- MODULE ModeProofs -----------------------------
(***************************************************************************)
(* Proofs about Mode, for every set of exposed modes, every default among  *)
(* them and STA, with and without CONFIG_NRF70_AP_MODE, and for any number *)
(* of commands, power cuts and failures.                                   *)
(*                                                                         *)
(* SwitchBoots relates a save to the boot after it, so the invariant       *)
(* carries two facts across the reboot: whatever is about to be saved will *)
(* not be corrected by mode_selector_init (Sound), and NVS holds one of    *)
(* the switches saved since the last boot if there are any (Switched).     *)
(***************************************************************************)
EXTENDS Mode, TLAPS

\* The modes mode_selector_init leaves alone.
Kept == AllModes \ Unsupported

Agrees == nvs = s_mode \/ (nvs = "none" /\ s_mode = Default)

\* Everything on the way to NVS will survive the next boot.
Sound ==
  /\ shell \in AllModes => shell \in Kept
  /\ press \in AllModes => press \in Kept
  /\ saved \subseteq Kept

\* Nothing is on its way while the device boots.
Booting == boot # "running" => shell = "idle" /\ press = "idle"

Switched == saved # {} => nvs \in saved

\* The bricks run the mode that was selected, and NVS holds it until a switch.
Chosen ==
  /\ boot = "running" => active = s_mode
  /\ boot = "selected" /\ ~failed => Agrees
  /\ boot = "running" /\ saved = {} /\ ~failed => Agrees

ModeInv == TypeOK /\ Sound /\ Booting /\ Switched /\ Chosen

----------------------------------------------------------------------------
\* Default, STA and the targets of the shell command survive a boot.
LEMMA KeptModes ==
  /\ "sta" \in Kept /\ Default \in Kept
  /\ Exposed \subseteq Kept /\ Accepted \subseteq Kept
  BY ModeAssumption, SMT DEF ModeAssumption, Kept, Unsupported, Accepted, AllModes

\* Every mode of the build has a successor in mode_cycle.
LEMMA SuccessorExists ==
  ASSUME NEW cur \in Exposed
  PROVE  \E m \in Exposed : \A n \in Exposed : Steps(cur, m) <= Steps(cur, n)
<1>. DEFINE d(m) == Steps(cur, m)
<1>1. \A m \in Exposed : d(m) \in 0 .. 3
  BY ModeAssumption, SMT DEF ModeAssumption, AllModes, Place, Steps
<1>. HIDE DEF d
<1>. SUFFICES \E m \in Exposed : \A n \in Exposed : d(m) <= d(n)
  BY DEF d
<1>2. CASE \E m \in Exposed : d(m) = 0
  BY <1>1, <1>2, SMT
<1>3. CASE (\A m \in Exposed : d(m) # 0) /\ (\E m \in Exposed : d(m) = 1)
  BY <1>1, <1>3, SMT
<1>4. CASE (\A m \in Exposed : d(m) \notin 0 .. 1) /\ (\E m \in Exposed : d(m) = 2)
  BY <1>1, <1>4, SMT
<1>5. CASE \A m \in Exposed : d(m) \notin 0 .. 2
  BY <1>1, <1>5, SMT
<1>. QED
  BY <1>1, <1>2, <1>3, <1>4, <1>5, SMT

\* A long press selects a mode that survives the boot.
LEMMA TargetKept == \A cur : CycleTarget(cur) \in Kept
<1>. SUFFICES ASSUME NEW cur PROVE CycleTarget(cur) \in Kept
  OBVIOUS
<1>1. CASE cur \in Exposed
  <2>. DEFINE P(m) == \A n \in Exposed : Steps(cur, m) <= Steps(cur, n)
  <2>1. \E m \in Exposed : P(m)
    BY <1>1, SuccessorExists
  <2>. HIDE DEF P
  <2>2. (CHOOSE m \in Exposed : P(m)) \in Exposed
    BY <2>1
  <2>. QED
    BY <1>1, <2>2, KeptModes DEF CycleTarget, P
<1>2. CASE cur \notin Exposed
  BY <1>2, KeptModes DEF CycleTarget
<1>. QED
  BY <1>1, <1>2

----------------------------------------------------------------------------
LEMMA SpendBounded ==
  ASSUME budget \in 0 .. Budget, Spend
  PROVE  budget' \in 0 .. Budget
  BY ModeAssumption, SMT DEF Spend, ModeAssumption

LEMMA ModeInit == Init => ModeInv
<1>. SUFFICES ASSUME Init PROVE ModeInv
  OBVIOUS
<1>1. budget \in 0 .. Budget
  BY ModeAssumption, SMT DEF Init, ModeAssumption
<1>2. Default \in AllModes /\ "softap" \in AllModes
  BY ModeAssumption, Zenon DEF ModeAssumption, AllModes
<1>3. TypeOK
  BY <1>1, <1>2, Zenon DEF Init, TypeOK
<1>4. Sound /\ Booting /\ Switched /\ Chosen
  BY SMT DEF Init, Sound, Booting, Switched, Chosen, AllModes
<1>. QED
  BY <1>3, <1>4 DEF ModeInv

LEMMA SelectKeeps == ASSUME ModeInv, Select PROVE ModeInv'
<1>. DEFINE fallback == Loaded \in Unsupported
            choice == IF fallback THEN "sta" ELSE Loaded
<1>1. Loaded \in AllModes /\ choice \in AllModes
  BY KeptModes DEF ModeInv, TypeOK, Loaded, Kept
<1>2. /\ boot = "off" /\ boot' = "selected"
      /\ UNCHANGED <<active, shell, press, saved>>
  BY DEF Select
<1>3. \/ /\ failed' = FALSE /\ budget' = budget
         /\ s_mode' = choice /\ nvs' = IF fallback THEN "sta" ELSE nvs
      \/ /\ failed' = TRUE /\ Spend /\ nvs' = nvs
         /\ s_mode' \in {Default, "sta"}
  BY SMT DEF Select
<1>4. budget' \in 0 .. Budget
  BY <1>3, SpendBounded DEF ModeInv, TypeOK
<1>5. TypeOK'
  <2>1. s_mode' \in AllModes /\ nvs' \in AllModes \union {"none"} /\ failed' \in BOOLEAN
    <3>1. Default \in AllModes /\ "sta" \in AllModes /\ nvs \in AllModes \union {"none"}
      BY KeptModes DEF ModeInv, TypeOK, Kept
    <3>. HIDE DEF choice, fallback
    <3>. QED
      BY <1>1, <1>3, <3>1, Zenon
  <2>. QED
    BY <1>2, <1>4, <2>1, Zenon DEF ModeInv, TypeOK
<1>6. Sound' /\ Booting'
  BY <1>2 DEF ModeInv, Sound, Booting
<1>7. Switched'
  BY <1>2, <1>3, KeptModes, SMT DEF ModeInv, Switched, Sound, TypeOK, Loaded, Kept
<1>8. Chosen'
  BY <1>2, <1>3, KeptModes, SMT DEF Chosen, Agrees, Loaded, Kept
<1>. QED
  BY <1>5, <1>6, <1>7, <1>8 DEF ModeInv

LEMMA NetworkInitKeeps == ASSUME ModeInv, NetworkInit PROVE ModeInv'
  BY SMT DEF ModeInv, NetworkInit, TypeOK, Sound, Booting, Switched, Chosen, Agrees

LEMMA ShellCommandKeeps == ASSUME ModeInv, ShellCommand PROVE ModeInv'
<1>1. PICK target \in Accepted : shell' = target
  BY DEF ShellCommand
<1>2. target \in Kept /\ target \in AllModes
  BY KeptModes DEF Kept
<1>3. budget' \in 0 .. Budget
  BY SpendBounded DEF ModeInv, TypeOK, ShellCommand
<1>4. /\ boot = "running"
      /\ UNCHANGED <<boot, nvs, s_mode, active, press, saved, failed>>
  BY DEF ShellCommand
<1>. QED
  BY <1>1, <1>2, <1>3, <1>4, SMT
     DEF ModeInv, TypeOK, Sound, Booting, Switched, Chosen, Agrees

LEMMA LongPressKeeps == ASSUME ModeInv, LongPress PROVE ModeInv'
<1>1. press' \in Kept /\ press' \in AllModes
  BY TargetKept DEF LongPress, Kept
<1>2. /\ boot = "running"
      /\ UNCHANGED <<boot, nvs, s_mode, active, shell, saved, failed, budget>>
  BY DEF LongPress
<1>. QED
  BY <1>1, <1>2, SMT DEF ModeInv, TypeOK, Sound, Booting, Switched, Chosen, Agrees

\* A save either reaches NVS and is recorded there, or is known to have failed.
LEMMA SaveKeeps ==
  ASSUME ModeInv, NEW target \in AllModes, target \in Kept, Save(target),
         boot = "running", UNCHANGED <<boot, s_mode, active>>,
         \/ shell' = "reboot" /\ press' = press
         \/ press' = "reboot" /\ shell' = shell
  PROVE  ModeInv'
<1>1. \/ /\ nvs' = target /\ saved' = saved \union {target}
         /\ UNCHANGED <<budget, failed>>
      \/ failed' = TRUE /\ Spend /\ UNCHANGED <<nvs, saved>>
  BY DEF Save
<1>2. budget' \in 0 .. Budget
  BY <1>1, SpendBounded DEF ModeInv, TypeOK
<1>3. "reboot" \notin AllModes
  BY SMT DEF AllModes
<1>4. TypeOK'
  <2>1. saved' \subseteq AllModes /\ nvs' \in AllModes \union {"none"} /\ failed' \in BOOLEAN
    BY <1>1, Zenon DEF ModeInv, TypeOK
  <2>. QED
    BY <1>2, <2>1, Zenon DEF ModeInv, TypeOK
<1>5. Sound' /\ Booting' /\ Switched'
  BY <1>1, <1>3, SMT DEF ModeInv, Sound, Booting, Switched
<1>6. Chosen'
  BY <1>1, SMT DEF ModeInv, Chosen, Agrees
<1>. QED
  BY <1>4, <1>5, <1>6 DEF ModeInv

LEMMA SavesKeep == ASSUME ModeInv, ShellSave \/ PressSave PROVE ModeInv'
<1>1. CASE ShellSave
  <2>1. shell \in AllModes /\ shell \in Kept /\ boot = "running"
    BY <1>1, SMT DEF ModeInv, Sound, Booting, ShellSave, AllModes
  <2>. QED
    BY <1>1, <2>1, SaveKeeps, Zenon DEF ShellSave
<1>2. CASE PressSave
  <2>1. press \in AllModes /\ press \in Kept /\ boot = "running"
    BY <1>2, SMT DEF ModeInv, Sound, Booting, PressSave, AllModes
  <2>. QED
    BY <1>2, <2>1, SaveKeeps, Zenon DEF PressSave
<1>. QED
  BY <1>1, <1>2

LEMMA RestartKeeps ==
  ASSUME ModeInv, Restart, budget' \in 0 .. Budget,
         UNCHANGED <<nvs, saved>> \/ (nvs' \in AllModes /\ saved' = {})
  PROVE  ModeInv'
<1>1. /\ boot' = "off" /\ shell' = "idle" /\ press' = "idle"
      /\ UNCHANGED <<s_mode, active, failed>>
  BY DEF Restart
<1>2. "idle" \notin AllModes
  BY SMT DEF AllModes
<1>. QED
  BY <1>1, <1>2, SMT DEF ModeInv, TypeOK, Sound, Booting, Switched, Chosen

----------------------------------------------------------------------------
LEMMA ModeNext == ASSUME ModeInv, [Next]_vars PROVE ModeInv'
<1>1. CASE Select \/ NetworkInit \/ ShellCommand \/ LongPress
  BY <1>1, SelectKeeps, NetworkInitKeeps, ShellCommandKeeps, LongPressKeeps
<1>2. CASE ShellSave \/ PressSave
  BY <1>2, SavesKeep
<1>3. CASE ShellReboot \/ PressReboot
  BY <1>3, RestartKeeps DEF ShellReboot, PressReboot, ModeInv, TypeOK
<1>4. CASE PowerCut
  <2>1. budget' \in 0 .. Budget
    BY <1>4, SpendBounded DEF PowerCut, ModeInv, TypeOK
  <2>. QED
    BY <1>4, <2>1, RestartKeeps DEF PowerCut
<1>5. CASE UNCHANGED vars
  BY <1>5, SMT DEF vars, ModeInv, TypeOK, Sound, Booting, Switched, Chosen, Agrees
<1>. QED
  BY <1>1, <1>2, <1>3, <1>4, <1>5 DEF Next

\* The inductive invariant holds in every reachable state.
THEOREM ModeInvariant == Spec => []ModeInv
  BY ModeInit, ModeNext, PTL DEF Spec

\* Every variable keeps its type.
THEOREM ModeTypeCorrect == Spec => []TypeOK
<1>1. ModeInv => TypeOK
  BY DEF ModeInv
<1>. QED
  BY <1>1, ModeInvariant, PTL

\* A switch that reached NVS is what the device boots in, wherever power went
\* and whatever overlapped.
THEOREM SwitchBootsHolds == Spec => []SwitchBoots
<1>1. ModeInv => SwitchBoots
  BY SMT DEF ModeInv, TypeOK, Switched, Chosen, Agrees, SwitchBoots, AllModes
<1>. QED
  BY <1>1, ModeInvariant, PTL

\* Until a switch is saved, NVS holds the mode that runs and the whole device
\* runs it.
THEOREM OneModeHolds == Spec => []OneMode
<1>1. ModeInv => OneMode
  BY SMT DEF ModeInv, Chosen, Agrees, OneMode
<1>. QED
  BY <1>1, ModeInvariant, PTL
=============================================================================
