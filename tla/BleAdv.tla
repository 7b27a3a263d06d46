------------------------------- MODULE BleAdv -------------------------------
(***************************************************************************)
(* BLE advertising (bricks/wifi_ble_prov/src/wifi_ble_prov.c), the phone   *)
(* it lets in and the user's switch for it (the double-click of            *)
(* bricks/ux/src/ux.c), composed with module Ux.                           *)
(*                                                                         *)
(* Threads: the Bluetooth host's runs connected and disconnected, the      *)
(* system workqueue the double-click, the event thread the application's   *)
(* hooks, and adv_daemon_work_q the two advertising works, one at a time.  *)
(* That queue can be preempted: between its stop and its start of the      *)
(* advertising (`step` = "stopped"), and while it waits for the status of  *)
(* the interface ("asked").  A delay is abstracted to "pending".           *)
(*                                                                         *)
(* The host takes one connection (CONFIG_BT_MAX_CONN), so it does not      *)
(* advertise while a phone is connected.  wifi_prov_state_get is taken to  *)
(* say that credentials are stored; a phone stores and removes them, and   *)
(* so does the shell.  The brick asks the application to publish on        *)
(* WIFI_CHAN (wifi-ble-prov-spec.md:135); the template does not, so that   *)
(* with it AppTells is FALSE.                                              *)
(***************************************************************************)
EXTENDS Ux

CONSTANTS
  AdvDataUpdate,   \* CONFIG_WIFI_PROV_ADV_DATA_UPDATE
  AppTells         \* the application's hooks publish on WIFI_CHAN

ASSUME BleAdvAssumption == {AdvDataUpdate, AppTells} \subseteq BOOLEAN

VARIABLES
  bt,         \* wifi_ble_prov_init is over
  adv,        \* the controller advertises: "off", "fast", "slow"
  shown,      \* the flags it advertises, if it does
  flags,      \* the two flag bits of prov_svc_data
  conn,       \* current_conn is a phone
  param,      \* update_adv_param_work is pending
  data,       \* update_adv_data_work is pending
  step,       \* where the queue's running handler is
  sampled,    \* the link status it was given
  cancelled,  \* update_adv_data_work was cancelled while running
  enabled,    \* adv_enabled, the user's switch
  creds,      \* a Wi-Fi credential is stored
  linked,     \* the interface is associated
  event,      \* the event thread has yet to hear of the last change of that
  hook,       \* a hook has yet to publish on WIFI_CHAN
  restarts,   \* history: at the last switch-off a phone or a restart was there
  refused,    \* history: the host refused the last stop or start
  missed      \* history: the flags whose last change or refresh was lost

advVars == <<bt, adv, shown, flags, conn, param, data, step, sampled, cancelled, enabled,
             creds, linked, event, hook, restarts, refused, missed>>

bleVars == <<uxVars, advVars>>

Flags == [prov : BOOLEAN, link : BOOLEAN]

Actual == [prov |-> creds, link |-> linked]

NoFlags == [prov |-> FALSE, link |-> FALSE]

Both == {"prov", "link"}

AdvInit ==
  /\ Init /\ creds \in BOOLEAN
  /\ bt = FALSE /\ adv = "off"
  /\ shown = NoFlags /\ flags = NoFlags
  /\ conn = FALSE /\ param = FALSE /\ data = FALSE
  /\ step = "idle" /\ sampled = FALSE /\ cancelled = FALSE
  /\ enabled = TRUE
  /\ linked = FALSE /\ event = FALSE /\ hook = FALSE
  /\ restarts = FALSE /\ refused = FALSE /\ missed = {}

----------------------------------------------------------------------------
(* The host's advertising.                                                 *)

Speed(f) == IF f.prov THEN "slow" ELSE "fast"

Refuses == Spend /\ refused' = TRUE /\ UNCHANGED <<adv, shown>>

\* bt_le_adv_start: no effect if it advertises already or a phone holds the
\* connection.
AdvStart(f) ==
  \/ /\ adv = "off" /\ ~conn
     /\ adv' = Speed(f) /\ shown' = f /\ refused' = FALSE
     /\ UNCHANGED budget
  \/ /\ adv # "off" \/ conn
     /\ refused' = FALSE
     /\ UNCHANGED <<adv, shown, budget>>
  \/ adv = "off" /\ ~conn /\ Refuses

\* bt_le_adv_stop: succeeds too if it does not advertise.
AdvStop ==
  \/ adv' = "off" /\ shown' = NoFlags /\ refused' = FALSE /\ UNCHANGED budget
  \/ adv # "off" /\ Refuses

----------------------------------------------------------------------------
(* wifi_ble_prov_init, in STA mode only.  A status query that fails clears *)
(* the link bit here too.                                                  *)

BleInit ==
  /\ mode = "sta" /\ ~bt
  /\ bt' = TRUE
  /\ flags' \in {Actual, [Actual EXCEPT !.link = FALSE]}
  /\ missed' = IF flags' = Actual THEN {} ELSE {"link"}
  /\ AdvStart(flags')
  /\ data' = (AdvDataUpdate /\ ~refused')
  /\ UNCHANGED <<mode, last, pending, pairing, ble, ready, work, init, at, cmd, lamp, solid, busy,
                 told, episode, lost, conn, param, step, sampled, cancelled, enabled, creds,
                 linked, event, hook, restarts>>

----------------------------------------------------------------------------
(* The Bluetooth thread.                                                   *)

\* connected: the host has stopped advertising.
PhoneConnects ==
  /\ adv # "off" /\ ~conn /\ Spend
  /\ adv' = "off" /\ shown' = NoFlags /\ conn' = TRUE
  /\ data' = FALSE /\ cancelled' = (step = "asked")
  /\ BleConn(TRUE)
  /\ UNCHANGED <<bt, flags, param, step, sampled, enabled, creds, linked, event, hook,
                 restarts, refused, missed>>

Restart_NoParam == data' = TRUE /\ UNCHANGED param

\* Both works are rescheduled; a delay can be set on one that is cancelled.
Restart == param' = TRUE /\ data' = TRUE

\* disconnected
PhoneLeaves ==
  /\ conn /\ conn' = FALSE
  /\ Restart
  /\ refused' = FALSE /\ missed' = {}
  /\ BleConn(FALSE)
  /\ UNCHANGED <<bt, adv, shown, flags, step, sampled, cancelled, enabled, creds, linked, event,
                 hook, restarts, budget>>

\* The phone stores or removes a credential.
Provision ==
  /\ conn /\ creds' = ~creds
  /\ UNCHANGED <<uxVars, bt, adv, shown, flags, conn, param, data, step, sampled, cancelled,
                 enabled, linked, event, hook, restarts, refused, missed>>

\* `wifi cred add` and `wifi cred delete` of the shell, which nothing tells the
\* brick.
ShellCred ==
  /\ Spend /\ creds' = ~creds /\ missed' = missed \union {"prov"}
  /\ UNCHANGED <<mode, last, pending, pairing, ble, ready, work, init, at, cmd, lamp, solid, busy,
                 told, episode, lost, bt, adv, shown, flags, conn, param, data, step, sampled,
                 cancelled, enabled, linked, event, hook, restarts, refused>>
----------------------------------------------------------------------------
(* adv_daemon_work_q.                                                      *)

\* update_adv_param_task, up to and from the end of bt_le_adv_stop.
ParamStop ==
  /\ step = "idle" /\ param
  /\ param' = FALSE
  /\ AdvStop
  /\ step' = IF refused' THEN "idle" ELSE "stopped"
  /\ UNCHANGED <<mode, last, pending, pairing, ble, ready, work, init, at, cmd, lamp, solid, busy,
                 told, episode, lost, bt, flags, conn, data, sampled, cancelled, enabled, creds,
                 linked, event, hook, restarts, missed>>

ParamStart ==
  /\ step = "stopped"
  /\ step' = "idle"
  /\ AdvStart(flags)
  /\ UNCHANGED <<mode, last, pending, pairing, ble, ready, work, init, at, cmd, lamp, solid, busy,
                 told, episode, lost, bt, flags, conn, param, data, sampled, cancelled, enabled,
                 creds, linked, event, hook, restarts, missed>>

\* update_wifi_status_in_adv up to the status query, and its answer: a query that
\* fails reads as no link.
DataAsk ==
  /\ step = "idle" /\ data
  /\ data' = FALSE
  /\ flags' = [flags EXCEPT !.prov = creds]
  /\ step' = "asked"
  /\ \/ sampled' = linked /\ missed' = {} /\ UNCHANGED budget
     \/ Spend /\ sampled' = FALSE /\ missed' = IF linked THEN {"link"} ELSE {}
  /\ UNCHANGED <<mode, last, pending, pairing, ble, ready, work, init, at, cmd, lamp, solid, busy,
                 told, episode, lost, bt, adv, shown, conn, param, cancelled, enabled, creds,
                 linked, event, hook, restarts, refused>>

Updated == [flags EXCEPT !.link = sampled]

\* bt_le_adv_update_data, without a phone only; an error is logged, no more.
UpdateData ==
  \/ shown' = (IF conn \/ adv = "off" THEN shown ELSE Updated) /\ UNCHANGED <<missed, budget>>
  \/ ~conn /\ adv # "off" /\ Spend /\ missed' = Both /\ UNCHANGED shown

\* The rest of update_adv_data_task.
DataShow ==
  /\ step = "asked"
  /\ step' = "idle" /\ cancelled' = FALSE /\ sampled' = FALSE
  /\ flags' = Updated
  /\ UpdateData
  /\ data' = (data \/ AdvDataUpdate)
  /\ UNCHANGED <<mode, last, pending, pairing, ble, ready, work, init, at, cmd, lamp, solid, busy,
                 told, episode, lost, bt, adv, conn, param, enabled, creds, linked, event, hook,
                 restarts, refused>>
----------------------------------------------------------------------------
(* The double-click, on the system workqueue.                              *)

Advertise_Inverted(enable) == IF enable THEN AdvStop ELSE AdvStart(flags)

\* zego_wifi_ble_prov_advertise
Advertise(enable) == IF enable THEN AdvStart(flags) ELSE AdvStop

\* zego_ux_on_double_click
Toggle ==
  /\ mode = "sta" /\ init = "done" /\ bt /\ ~busy
  /\ enabled' = ~enabled
  /\ Advertise(enabled')
  /\ restarts' = (enabled /\ (conn \/ param \/ step = "stopped" \/ refused'))
  /\ UNCHANGED <<mode, last, pending, pairing, ble, ready, work, init, at, cmd, lamp, solid, busy,
                 told, episode, lost, bt, flags, conn, param, data, step, sampled, cancelled,
                 creds, linked, event, hook, missed>>
----------------------------------------------------------------------------
(* The Wi-Fi link and the event thread.                                    *)

LinkChanges ==
  /\ mode = "sta" /\ Spend
  /\ linked' = ~linked /\ event' = TRUE
  /\ UNCHANGED <<mode, last, pending, pairing, ble, ready, work, init, at, cmd, lamp, solid, busy,
                 told, episode, lost, bt, adv, shown, flags, conn, param, data, step, sampled,
                 cancelled, enabled, creds, hook, restarts, refused, missed>>

\* The application's hook publishes for the UX brick first.
AppHook ==
  /\ ~hook
  /\ \/ event /\ NetPublish(IF linked THEN "connected" ELSE "connecting") /\ UNCHANGED budget
     \/ ~event /\ NetHook
  /\ hook' = (AppTells /\ mode = "sta") /\ event' = FALSE
  /\ UNCHANGED <<bt, adv, shown, flags, conn, param, data, step, sampled, cancelled, enabled,
                 creds, linked, restarts, refused, missed>>

News_OnlyIdle ==
  data' = (step = "idle" \/ data) /\ missed' = IF cancelled THEN Both ELSE {}

\* wifi_ble_prov_update_status: k_work_reschedule without a delay drops a
\* pending timeout, and the kernel refuses to queue a work being cancelled.
News == data' = ~cancelled /\ missed' = IF cancelled THEN Both ELSE {}

\* wifi_ble_prov_listener_cb
WifiChan ==
  /\ hook /\ at = "free"
  /\ hook' = FALSE
  /\ IF bt THEN News ELSE UNCHANGED <<data, missed>>
  /\ UNCHANGED <<uxVars, bt, adv, shown, flags, conn, param, step, sampled, cancelled, enabled,
                 creds, linked, event, restarts, refused>>

AdvReboot ==
  /\ Reboot
  /\ bt' = FALSE /\ adv' = "off"
  /\ shown' = NoFlags /\ flags' = NoFlags
  /\ conn' = FALSE /\ param' = FALSE /\ data' = FALSE
  /\ step' = "idle" /\ sampled' = FALSE /\ cancelled' = FALSE
  /\ enabled' = TRUE
  /\ linked' = FALSE /\ event' = FALSE /\ hook' = FALSE
  /\ restarts' = FALSE /\ refused' = FALSE /\ missed' = {}
  /\ UNCHANGED creds

UxAlone == UxStep \/ LongPress \/ WorkHook

AdvNext ==
  \/ UxAlone /\ UNCHANGED advVars
  \/ BleInit \/ PhoneConnects \/ PhoneLeaves \/ Provision \/ ShellCred
  \/ ParamStop \/ ParamStart \/ DataAsk \/ DataShow
  \/ Toggle \/ LinkChanges \/ AppHook \/ WifiChan
  \/ AdvReboot

AdvSpec == AdvInit /\ [][AdvNext]_bleVars

\* The kernel schedules Ux's threads; see module Ux.
AdvFairSpec == AdvSpec /\ WF_bleVars(UxStep /\ UNCHANGED advVars)
----------------------------------------------------------------------------
AdvTypeOK ==
  /\ TypeOK
  /\ bt \in BOOLEAN /\ conn \in BOOLEAN /\ param \in BOOLEAN /\ data \in BOOLEAN
  /\ sampled \in BOOLEAN /\ cancelled \in BOOLEAN /\ enabled \in BOOLEAN /\ creds \in BOOLEAN
  /\ linked \in BOOLEAN /\ event \in BOOLEAN /\ hook \in BOOLEAN
  /\ restarts \in BOOLEAN /\ refused \in BOOLEAN /\ missed \subseteq Both
  /\ adv \in {"off", "fast", "slow"}
  /\ shown \in Flags /\ flags \in Flags
  /\ step \in {"idle", "stopped", "asked"}
  /\ conn => adv = "off"

\* The user's switch decides, whatever the order of phones, double-clicks and
\* works.  While it is on a device that no phone holds advertises or is about
\* to, unless the host refused the last request; once it is off the device
\* stays silent, unless a phone was connected, or had just left, at that moment.
SwitchDecides ==
  /\ bt /\ enabled /\ ~conn /\ ~refused => adv # "off" \/ param \/ step = "stopped"
  /\ ~enabled /\ adv # "off" => restarts

\* A refresh is on its way: the work is pending or running, or a hook has yet to
\* publish.
Coming == data \/ step = "asked" \/ event \/ hook

\* Each flag advertised is true, or a refresh is on its way.  The exceptions are
\* those the code has no second try for: a message that met a cancelled work, a
\* status query or an update of the advertisement that failed, and a credential
\* the shell changed; each lasts until the next refresh.
AdvFollows ==
  adv # "off" => \A f \in Both : shown[f] = Actual[f] \/ Coming \/ f \in missed

\* ux.h:80 "otherwise toggles BLE-prov advertising": a double-click changes
\* whether the device advertises.
ToggleToggles ==
  [][enabled # enabled' /\ ~conn /\ ~refused /\ ~refused' => (adv = "off") # (adv' = "off")]_bleVars

\* wifi-ble-prov-spec.md:149 "Slow advertising ... used after provisioning".
SlowAfterProvisioning ==
  adv # "off" /\ ~param /\ step = "idle" => adv = Speed(Actual)
=============================================================================
