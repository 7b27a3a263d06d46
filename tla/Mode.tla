-------------------------------- MODULE Mode --------------------------------
(***************************************************************************)
(* The Wi-Fi mode selector (bricks/wifi/src/wifi_mode_selector.c), the     *)
(* long press that cycles the mode (bricks/ux/src/ux.c), and the network   *)
(* brick that reads the mode at boot: a mode changes only through NVS and  *)
(* a reboot.                                                               *)
(*                                                                         *)
(* The shell thread and the system workqueue (the long press) may each be  *)
(* on the way to a reboot, and power may go at any step.  Budget bounds    *)
(* shell commands, power cuts, failures of the settings, and changes of    *)
(* firmware.                                                               *)
(***************************************************************************)
EXTENDS Integers

CONSTANTS
  Exposed,   \* the modes CONFIG_ZEGO_WIFI_MODE_*_ENABLED names
  ApMode,    \* CONFIG_NRF70_AP_MODE
  Default,   \* CONFIG_ZEGO_WIFI_DEFAULT_MODE
  Budget

AllModes == {"sta", "softap", "go", "gc"}

\* The order of mode_cycle, which leaves out the modes that are not Exposed.
Place == [sta |-> 0, softap |-> 1, go |-> 2, gc |-> 3]

\* STA is the default of last resort, in a build without it too.
ASSUME ModeAssumption ==
  /\ Exposed \subseteq AllModes /\ Default \in Exposed \union {"sta"}
  /\ ApMode \in BOOLEAN /\ ("softap" \in Exposed => ApMode)
  /\ Budget \in Nat

VARIABLES
  boot,     \* "off", then "selected" and "running"
  nvs,      \* app/zego_wifi_mode, or "none"
  s_mode,
  active,   \* active_mode of the network brick
  shell,    \* what cmd_wifi_mode is about to save, "reboot" once it has, or "idle"
  press,    \* the same of zego_ux_on_long_press
  saved,    \* history: the switches whose save succeeded since the last boot
  failed,   \* history: settings could not be used since the last boot
  budget

vars == <<boot, nvs, s_mode, active, shell, press, saved, failed, budget>>

Init ==
  /\ boot = "off" /\ nvs \in AllModes \union {"none"}
  /\ s_mode = Default /\ active = "softap"
  /\ shell = "idle" /\ press = "idle"
  /\ saved = {} /\ failed = FALSE
  /\ budget = Budget

Spend == budget > 0 /\ budget' = budget - 1
----------------------------------------------------------------------------
\* The stored modes mode_selector_init does not accept.
Unsupported == ({"go", "gc"} \ Exposed) \union (IF ApMode THEN {} ELSE {"softap"})

Loaded_Default == Default

Loaded == IF nvs = "none" THEN Default ELSE nvs

\* mode_selector_init.  An unsupported mode is corrected in NVS too.
Select_KeepNvs ==
  /\ boot = "off" /\ boot' = "selected"
  /\ failed' = FALSE
  /\ s_mode' = IF Loaded \in Unsupported THEN "sta" ELSE Loaded
  /\ UNCHANGED <<nvs, active, shell, press, saved, budget>>

Select ==
  /\ boot = "off" /\ boot' = "selected"
  /\ LET fallback == Loaded \in Unsupported
         mode == IF fallback THEN "sta" ELSE Loaded
     IN  \/ /\ failed' = FALSE /\ UNCHANGED budget
            /\ s_mode' = mode
            /\ nvs' = IF fallback THEN "sta" ELSE nvs
         \/ /\ Spend /\ failed' = TRUE /\ UNCHANGED nvs
            /\ s_mode' \in {Default} \union (IF fallback THEN {"sta"} ELSE {})
  /\ UNCHANGED <<active, shell, press, saved>>

\* network_module_init reads WIFI_MODE_CHAN.
NetworkInit ==
  /\ boot = "selected" /\ boot' = "running"
  /\ active' = s_mode
  /\ saved' = {}
  /\ UNCHANGED <<nvs, s_mode, shell, press, failed, budget>>

\* sys_reboot; RAM is set up again by the next boot.
Restart ==
  /\ boot' = "off"
  /\ shell' = "idle" /\ press' = "idle"
  /\ UNCHANGED <<s_mode, active, failed>>

\* Flash is written before the reboot; a failure is logged and ignored.
Save(target) ==
  \/ nvs' = target /\ saved' = saved \union {target} /\ UNCHANGED <<budget, failed>>
  \/ Spend /\ failed' = TRUE /\ UNCHANGED <<nvs, saved>>
----------------------------------------------------------------------------
(* cmd_wifi_mode, in the shell's thread.                                   *)

Accepted == {"sta"} \union ({"go", "gc"} \intersect Exposed) \union
            (IF ApMode THEN {"softap"} ELSE {})

ShellCommand ==
  /\ boot = "running" /\ shell = "idle" /\ Spend
  /\ \E target \in Accepted \ {s_mode} : shell' = target
  /\ UNCHANGED <<boot, nvs, s_mode, active, press, saved, failed>>

ShellSave ==
  /\ shell \in AllModes
  /\ Save(shell) /\ shell' = "reboot"
  /\ UNCHANGED <<boot, s_mode, active, press>>

ShellReboot == shell = "reboot" /\ Restart /\ UNCHANGED <<nvs, saved, budget>>
----------------------------------------------------------------------------
(* zego_ux_on_long_press, on the system workqueue.                         *)

Steps_SelfFirst(from, to) == (Place[to] - Place[from]) % 4

\* How many places of mode_cycle lie between them; a mode comes after all others.
Steps(from, to) == (Place[to] - Place[from] - 1) % 4

\* The mode after `cur` in mode_cycle, STA for a mode that is not in it.
CycleTarget(cur) ==
  IF cur \in Exposed
  THEN CHOOSE m \in Exposed : \A n \in Exposed : Steps(cur, m) <= Steps(cur, n)
  ELSE "sta"

LongPress ==
  /\ boot = "running" /\ press = "idle"
  /\ press' = CycleTarget(s_mode)
  /\ UNCHANGED <<boot, nvs, s_mode, active, shell, saved, failed, budget>>

PressSave ==
  /\ press \in AllModes
  /\ Save(press) /\ press' = "reboot"
  /\ UNCHANGED <<boot, s_mode, active, shell>>

PressReboot == press = "reboot" /\ Restart /\ UNCHANGED <<nvs, saved, budget>>

\* Power goes, and another build may run meanwhile and leave any mode.
PowerCut ==
  /\ boot = "running" /\ Spend
  /\ Restart
  /\ \/ UNCHANGED <<nvs, saved>>
     \/ nvs' \in AllModes /\ saved' = {}

Next ==
  \/ Select \/ NetworkInit
  \/ ShellCommand \/ ShellSave \/ ShellReboot
  \/ LongPress \/ PressSave \/ PressReboot
  \/ PowerCut

Spec == Init /\ [][Next]_vars

\* The threads go on, and the user keeps pressing the button.
FairSpec ==
  /\ Spec
  /\ WF_vars(Select) /\ WF_vars(NetworkInit)
  /\ WF_vars(ShellSave) /\ WF_vars(ShellReboot)
  /\ WF_vars(LongPress) /\ WF_vars(PressSave) /\ WF_vars(PressReboot)
----------------------------------------------------------------------------
TypeOK ==
  /\ boot \in {"off", "selected", "running"}
  /\ nvs \in AllModes \union {"none"}
  /\ s_mode \in AllModes /\ active \in AllModes
  /\ shell \in AllModes \union {"idle", "reboot"}
  /\ press \in AllModes \union {"idle", "reboot"}
  /\ saved \subseteq AllModes /\ failed \in BOOLEAN
  /\ budget \in 0 .. Budget

\* A switch that reached NVS is what the device boots in, or the other one
\* when a command and a long press overlap, wherever the power went.
SwitchBoots ==
  boot = "selected" /\ saved # {} /\ ~failed => s_mode \in saved

\* Until a switch is saved, NVS holds the mode that runs, a fallback included,
\* and the whole device runs it.
OneMode ==
  boot = "running" /\ saved = {} /\ ~failed =>
    /\ active = s_mode
    /\ nvs = s_mode \/ (nvs = "none" /\ s_mode = Default)

\* Long presses reach every mode of a build with STA from wherever commands, power
\* cuts, other firmware and failing settings left the device.  A build without
\* STA is not covered: a press in a mode it does not expose leads to STA, and so
\* does every press after that (PressesExposed).
CyclesThroughAll == "sta" \in Exposed => \A m \in Exposed : []<>(s_mode = m)

\* bricks/wifi/Kconfig:105 "When y, the 'zego_wifi_mode softap' shell command
\* and its help text are compiled in": with n, softap is no mode of the build.
RunsExposed == boot = "running" => active \in Exposed

\* ux.c:62 "Only cycle through modes this build actually exposes".
PressesExposed == press \in AllModes => press \in Exposed
=============================================================================
