--------------------------------- MODULE Ux ---------------------------------
(***************************************************************************)
(* The UX brick (bricks/ux/src/ux.c): which effect the LED shows for the   *)
(* Wi-Fi states the network brick publishes, for a phone connected over    *)
(* BLE and for P2P pairing.                                                *)
(*                                                                         *)
(* A zbus listener runs in the thread that publishes, with the channel     *)
(* locked.  The network event thread can be preempted within the listener  *)
(* (`at`) by the workqueues, the Bluetooth thread and the end of SYS_INIT; *)
(* those are cooperative and run it in one step, or, as they publish with  *)
(* K_NO_WAIT, not at all when they find the channel locked.                *)
(*                                                                         *)
(* The LED brick (module Led) is abstracted to what its LED 0 shows and    *)
(* whether its machine is in ON, where it ignores a further ON even if     *)
(* ROTATE has darkened the LED since; every effect goes to LED 0, the      *)
(* default, which has no hardware PWM here.                                *)
(*                                                                         *)
(* Budget bounds the messages, phone connections and reboots.              *)
(***************************************************************************)
EXTENDS Integers, Sequences

CONSTANTS
  Modes,    \* the modes the device may be started in
  Budget

ASSUME UxAssumption == Modes \subseteq {"sta", "gc", "softap", "go"} /\ Budget \in Nat

VARIABLES
  mode,
  last,      \* last_wifi_state
  pending,   \* pending_wifi_state
  pairing,   \* pairing_led_active
  ble,       \* ble_prov_led_active
  ready,     \* zego_ux_ready
  work,      \* zego_ux_led_work is queued
  init,      \* the next step of zego_ux_init
  at,        \* where the event thread is in wifi_state_listener_cb, or "free"
  cmd,       \* the LED command not processed yet, or "none"
  lamp,      \* what the LED shows
  solid,     \* its state machine is in ON
  busy,      \* the system workqueue sleeps in zego_ux_on_long_press
  told,      \* history: the last state published and delivered, or "none"
  episode,   \* history: PAIRING was delivered after the last CONNECTED
  lost,      \* history: PAIRING was published, not delivered, after the last CONNECTED
  budget

uxVars == <<mode, last, pending, pairing, ble, ready, work, init, at, cmd, lamp, solid, busy,
            told, episode, lost, budget>>

States == {"connecting", "connected", "softap", "pairing", "error"}
Lamps == {"dark", "rotate", "on", "breathe", "blink"}

\* apply_wifi_state_led
Effect(state) ==
  CASE state \in {"connecting", "softap"} -> "rotate"
    [] state = "connected" -> "on"
    [] state = "pairing" -> "breathe"
    [] state = "error" -> "blink"

Init ==
  /\ mode \in Modes
  /\ last = "connecting" /\ pending = "connecting"
  /\ pairing = FALSE /\ ble = FALSE /\ ready = FALSE
  /\ work = FALSE /\ init = "rotate" /\ at = "free"
  /\ cmd = "none" /\ lamp = "dark" /\ solid = FALSE /\ busy = FALSE
  /\ told = "none" /\ episode = FALSE /\ lost = FALSE
  /\ budget = Budget

\* SYS_INIT is over long before a second message, a phone or a gesture.
Started == init = "done" \/ told = "none"

Spend == budget > 0 /\ budget' = budget - 1
----------------------------------------------------------------------------
(* wifi_state_listener_cb.                                                 *)

KeepsPairing(state) == pairing /\ state \notin {"pairing", "connected"}

PairingAfter(state) == state = "pairing" \/ (pairing /\ state # "connected")

Told(state) ==
  /\ told' = state
  /\ episode' = (state = "pairing" \/ (episode /\ state # "connected"))
  /\ lost' = (lost /\ state # "connected")

\* The event thread publishes: the channel is locked and the state stored.
NetPublish(state) ==
  /\ at = "free" /\ Started
  /\ at' = "decide"
  /\ last' = state /\ Told(state)
  /\ UNCHANGED <<mode, pending, pairing, ble, ready, work, init, cmd, lamp, solid, busy>>

NetDecide ==
  /\ at = "decide"
  /\ at' = IF ble \/ KeepsPairing(last) THEN "free" ELSE "pend"
  /\ pairing' = IF ble THEN pairing ELSE PairingAfter(last)
  /\ UNCHANGED <<mode, last, pending, ble, ready, work, init, cmd, lamp, solid, busy,
                 told, episode, lost, budget>>

NetPend ==
  /\ at = "pend"
  /\ at' = "submit" /\ pending' = last
  /\ UNCHANGED <<mode, last, pairing, ble, ready, work, init, cmd, lamp, solid, busy,
                 told, episode, lost, budget>>

NetSubmit ==
  /\ at = "submit"
  /\ at' = "free" /\ work' = TRUE
  /\ UNCHANGED <<mode, last, pending, pairing, ble, ready, init, cmd, lamp, solid, busy,
                 told, episode, lost, budget>>

\* A workqueue publishes.
Delivered(state) ==
  /\ at = "free"
  /\ last' = state /\ Told(state)
  /\ IF ble \/ KeepsPairing(state)
       THEN UNCHANGED <<pairing, pending, work>>
       ELSE pairing' = PairingAfter(state) /\ pending' = state /\ work' = TRUE

Refused(state) ==
  /\ at # "free"
  /\ lost' = (lost \/ state = "pairing")
  /\ UNCHANGED <<last, told, episode, pairing, pending, work>>

WorkPublish(state) ==
  /\ Started
  /\ Delivered(state) \/ Refused(state)
  /\ UNCHANGED <<mode, ble, ready, init, at, cmd, lamp, solid, busy>>
----------------------------------------------------------------------------
(* The other threads.                                                      *)

BleConn_KeepPending(connected) ==
  /\ init = "done" /\ ble # connected
  /\ ble' = connected /\ work' = TRUE
  /\ UNCHANGED <<mode, last, pending, pairing, ready, init, at, cmd, lamp, solid, busy, told, episode, lost>>

\* ble_prov_conn_listener_cb, in the Bluetooth thread.
BleConn(connected) ==
  /\ init = "done" /\ ble # connected
  /\ ble' = connected /\ pending' = last /\ work' = TRUE
  /\ UNCHANGED <<mode, last, pairing, ready, init, at, cmd, lamp, solid, busy, told, episode, lost>>

\* zego_ux_led_work_fn.  A command given here is processed before the work runs
\* again: only ROTATE of zego_ux_init may wait behind it, and an LED whose machine
\* is still in OFF shows the same with or without that.
LedWork_fn ==
  /\ work /\ ~busy
  /\ cmd = "none" \/ (cmd = "rotate" /\ lamp = "dark" /\ ~solid)
  /\ work' = FALSE
  /\ cmd' = IF ~ready THEN cmd ELSE IF ble THEN "breathe" ELSE Effect(pending)
  /\ UNCHANGED <<mode, last, pending, pairing, ble, ready, init, at, lamp, solid, busy,
                 told, episode, lost, budget>>

\* ON in the state ON changes nothing, but a ROTATE that runs is stopped first,
\* which leaves the LED dark.
LampAfter == IF ~(cmd = "on" /\ solid) THEN cmd
             ELSE IF lamp = "rotate" THEN "dark" ELSE lamp

\* led_cmd_work_fn of the LED brick, on the same workqueue.  ROTATE leaves the
\* state machines alone.
LedShows ==
  /\ cmd # "none" /\ ~busy
  /\ lamp' = LampAfter /\ cmd' = "none"
  /\ solid' = IF cmd = "rotate" THEN solid ELSE cmd = "on"
  /\ UNCHANGED <<mode, last, pending, pairing, ble, ready, work, init, at, busy,
                 told, episode, lost, budget>>

\* zego_ux_init.
InitNext_NoReplay == [rotate |-> "ready", ready |-> "done", replay |-> "submit", submit |-> "done"]
InitNext == [rotate |-> "ready", ready |-> "replay", replay |-> "submit", submit |-> "done"]

InitStep ==
  /\ init # "done"
  /\ init' = IF init = "replay" /\ last = "connecting" THEN "done" ELSE InitNext[init]
  /\ cmd' = IF init = "rotate" THEN "rotate" ELSE cmd
  /\ ready' = (ready \/ init = "ready")
  /\ pending' = IF init = "replay" /\ last # "connecting" THEN last ELSE pending
  /\ work' = (work \/ init = "submit")
  /\ UNCHANGED <<mode, last, pairing, ble, at, lamp, solid, busy, told, episode, lost, budget>>

\* zego_ux_on_long_press, a listener on the system workqueue: it gives the LED
\* the OFF command, sleeps, saves the next mode and reboots.
LongPress ==
  /\ init = "done" /\ ~busy
  /\ cmd' = "dark" /\ busy' = TRUE
  /\ UNCHANGED <<mode, last, pending, pairing, ble, ready, work, init, at, lamp, solid,
                 told, episode, lost, budget>>

Reboot ==
  /\ busy /\ Spend
  /\ mode' \in Modes
  /\ last' = "connecting" /\ pending' = "connecting"
  /\ pairing' = FALSE /\ ble' = FALSE /\ ready' = FALSE
  /\ work' = FALSE /\ init' = "rotate" /\ at' = "free"
  /\ cmd' = "none" /\ lamp' = "dark" /\ solid' = FALSE /\ busy' = FALSE
  /\ told' = "none" /\ episode' = FALSE /\ lost' = FALSE
----------------------------------------------------------------------------
(* The publishers of the STA and P2P client modes, and a phone in STA mode. *)

NetHook ==
  /\ Spend
  /\ \E state \in {"connected", "connecting"} \union (IF mode = "sta" THEN {"error"} ELSE {}) :
       NetPublish(state)

\* start_mode without credentials, or the start of a pairing.
WorkHook ==
  /\ Spend /\ ~busy
  /\ WorkPublish(IF mode = "sta" THEN "error" ELSE "pairing")

Phone == mode = "sta" /\ Spend /\ \E connected \in BOOLEAN : BleConn(connected)

UxStep == NetDecide \/ NetPend \/ NetSubmit \/ LedWork_fn \/ LedShows \/ InitStep

vars == uxVars

Next == UxStep \/ LongPress \/ Reboot \/ NetHook \/ WorkHook \/ Phone

Spec == Init /\ [][Next]_vars

\* Every thread that has something to do is scheduled.
Fairness ==
  /\ WF_vars(NetDecide) /\ WF_vars(NetPend) /\ WF_vars(NetSubmit)
  /\ WF_vars(LedWork_fn) /\ WF_vars(LedShows) /\ WF_vars(InitStep)

FairSpec == Spec /\ Fairness
----------------------------------------------------------------------------
TypeOK ==
  /\ mode \in Modes
  /\ last \in States /\ pending \in States
  /\ pairing \in BOOLEAN /\ ble \in BOOLEAN /\ ready \in BOOLEAN
  /\ work \in BOOLEAN /\ busy \in BOOLEAN
  /\ init \in {"rotate", "ready", "replay", "submit", "done"}
  /\ at \in {"free", "decide", "pend", "submit"}
  /\ cmd \in Lamps \union {"none"} /\ lamp \in Lamps /\ solid \in BOOLEAN
  /\ told \in States \union {"none"} /\ episode \in BOOLEAN /\ lost \in BOOLEAN
  /\ budget \in 0 .. Budget

\* What the LED ought to show for the messages delivered so far.
Wanted ==
  IF ble \/ episode THEN "breathe"
  ELSE IF told = "none" THEN "rotate" ELSE Effect(told)

Quiet == init = "done" /\ at = "free" /\ ~work /\ cmd = "none" /\ ~busy

\* The LED brick ignored the last ON: the LED was ON before ROTATE darkened it.
OnIgnored == solid /\ lamp = "dark"

\* Whatever order the threads ran in, and whenever the messages came, the LED
\* ends up showing what those delivered ask for: BREATHE for a phone or a pairing
\* that has not ended in CONNECTED, and the last Wi-Fi state otherwise.  The one
\* exception is an ON that the LED brick ignores.
ShowsLast == Quiet => lamp = Wanted \/ (Wanted = "on" /\ OnIgnored)

\* What the LED ought to show, if it stays so, is shown, with the same exception.
ShowsEventually ==
  \A l \in Lamps :
    <>[](Wanted = l /\ ~busy) => <>[](lamp = l \/ (l = "on" /\ OnIgnored))

\* ux.c:302 "Acknowledge the long press: briefly turn off the first rotate LED
\* (stops ROTATE and gives the user a visible blink before reboot)".
AckShown == [][busy /\ ~busy' => lamp = "dark"]_vars

\* wifi_utils.c:1058 "Start the LED-breathe cue immediately on the
\* double-click."
CueShown == Quiet /\ lost => lamp = "breathe"
=============================================================================
