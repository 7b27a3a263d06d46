------------------------------- MODULE StaBle -------------------------------
(***************************************************************************)
(* STA mode with the BLE provisioning brick                                *)
(* (bricks/wifi_ble_prov/src/wifi_ble_prov.c) composed with the network    *)
(* brick: CONFIG_ZEGO_WIFI_BLE_PROV hands the reconnect over.  Both bricks *)
(* hear every Wi-Fi event on the event thread, and both run work items on  *)
(* the system workqueue.                                                   *)
(*                                                                         *)
(* wifi_prov_state_get is taken to say that credentials are stored, which  *)
(* is how the advertisement uses it.  The event thread runs while          *)
(* wifi_connect_work waits for the interface's status, so what the handler *)
(* saw (`seen`) may be stale when it decides.                              *)
(***************************************************************************)
EXTENDS Sta

VARIABLES
  pending,        \* wifi_reconnect_pending
  work,           \* wifi_connect_work is pending
  step,           \* where wifi_connect_work's handler is
  seen,           \* the link state its status query returned
  cycle,          \* its reconnect_cycle_active
  dhcp_watchdog,  \* dhcp_bind_watchdog_work is pending
  ble_scanned,    \* the brick's own initial_scan_done
  requested,      \* connection_requested_after_provisioning
  at_boot,        \* credentials_existed_at_boot
  last_prov,      \* last_prov_state
  left            \* history: why this brick left recovery to others, or "no"

bleVars == <<pending, work, step, seen, cycle, dhcp_watchdog, ble_scanned, requested, at_boot,
             last_prov, left>>

allVars == <<vars, bleVars>>

BleInit ==
  /\ pending = FALSE /\ work = FALSE
  /\ step = "idle" /\ seen = "down" /\ cycle = FALSE
  /\ dhcp_watchdog = FALSE /\ ble_scanned = FALSE
  /\ requested = creds /\ at_boot = creds /\ last_prov = creds
  /\ left = "no"

InitBle == Init /\ BleInit

prov_state == creds

----------------------------------------------------------------------------
(* wifi_mgmt_event_handler and dhcp_bound_event_handler.                   *)

BleScanDone ==
  /\ ble_scanned' = TRUE
  /\ UNCHANGED <<pending, work, dhcp_watchdog, left>>

\* A retry already pending is not scheduled again.
BleScheduleRetry ==
  /\ pending' = TRUE
  /\ work' = (work \/ ~pending)
  /\ left' = IF pending THEN left ELSE "no"

BleConnected ==
  /\ dhcp_watchdog' = TRUE
  /\ IF prov_state
     THEN pending' = FALSE /\ work' = FALSE /\ left' = "no"
     ELSE UNCHANGED <<pending, work, left>>
  /\ UNCHANGED ble_scanned

BleConnectFailed_NoRetry(status) == UNCHANGED <<pending, work, left, dhcp_watchdog, ble_scanned>>

\* wpa_supplicant reports no disconnect after a failed connect, so the retry
\* starts here.
BleConnectFailed(status) ==
  /\ IF ~prov_state THEN left' = "creds" /\ UNCHANGED <<pending, work>>
     ELSE IF ~ble_scanned /\ status = 1 THEN left' = "pre_scan" /\ UNCHANGED <<pending, work>>
     ELSE BleScheduleRetry
  /\ UNCHANGED <<dhcp_watchdog, ble_scanned>>

\* A disconnect with status 0 is left to the provisioner.
BleDisconnected(status) ==
  /\ dhcp_watchdog' = FALSE
  /\ IF ~prov_state THEN left' = "creds" /\ UNCHANGED <<pending, work>>
     ELSE IF status = 0 THEN left' = "deferred" /\ UNCHANGED <<pending, work>>
     ELSE BleScheduleRetry
  /\ UNCHANGED ble_scanned

BleDhcpBound_KeepWatchdog(ip) ==
  /\ pending' = (pending /\ connected /\ ip = bound_ip)
  /\ left' = "no"
  /\ UNCHANGED <<work, dhcp_watchdog, ble_scanned>>

\* A lease that is no renewal also reaches the brick as WIFI_STA_CONNECTED,
\* which the application publishes from its dhcp_bound hook.
BleDhcpBound(ip) ==
  /\ dhcp_watchdog' = FALSE
  /\ pending' = (pending /\ connected /\ ip = bound_ip)
  /\ left' = "no"
  /\ UNCHANGED <<work, ble_scanned>>

BleHandle(e) ==
  \/ e.kind = "scan_done" /\ BleScanDone
  \/ e.kind = "connect" /\ e.arg = 0 /\ BleConnected
  \/ e.kind = "connect" /\ e.arg # 0 /\ BleConnectFailed(e.arg)
  \/ e.kind = "disconnect" /\ BleDisconnected(e.arg)
  \/ e.kind = "bound" /\ BleDhcpBound(e.arg)
  \/ e.kind \in {"ready", "addr_del"} /\ UNCHANGED <<pending, work, dhcp_watchdog, ble_scanned, left>>

HandleBoth ==
  /\ HandleEvent
  /\ BleHandle(Head(events))
  /\ UNCHANGED <<step, seen, cycle, requested, at_boot, last_prov>>

----------------------------------------------------------------------------
(* wifi_connect_work_handler, in stretches between its Wi-Fi calls.        *)

Free == Idle /\ step = "idle"

ConnectWork ==
  /\ Free /\ work
  /\ work' = FALSE
  /\ step' = "status"
  /\ UNCHANGED <<vars, seen, cycle, pending, dhcp_watchdog, ble_scanned, requested, at_boot, last_prov, left>>

\* The status query: it returns the state of a moment before the handler
\* resumes; a query that fails counts as not connected.
StatusQuery ==
  /\ step = "status"
  /\ step' = "decide"
  /\ \/ seen' = link /\ UNCHANGED budget
     \/ "status_query" \in Faults /\ Disturb /\ seen' = "down"
  /\ UNCHANGED <<link, addr, silent, events, staVars, pending, work, cycle, dhcp_watchdog, ble_scanned, requested, at_boot,
                 last_prov, left>>

Reschedule_Never(in_cycle) == UNCHANGED work

\* The handler's last lines.
Reschedule(in_cycle) == work' = (work \/ in_cycle)

\* Associated: the loop ends.  The history remembers if that was stale.
DecideConnected ==
  /\ step = "decide" /\ seen = "up"
  /\ step' = "idle" /\ pending' = FALSE
  /\ left' = IF link = "up" THEN left ELSE "stale"
  /\ UNCHANGED <<vars, seen, cycle, work, dhcp_watchdog, ble_scanned, requested, at_boot, last_prov>>

DecideNoCreds ==
  /\ step = "decide" /\ seen # "up" /\ ~creds
  /\ step' = "idle" /\ pending' = FALSE
  /\ UNCHANGED <<vars, seen, cycle, work, dhcp_watchdog, ble_scanned, requested, at_boot, last_prov,
                 left>>

DecideJoining ==
  /\ step = "decide" /\ seen = "joining" /\ creds
  /\ step' = "idle" /\ Reschedule(pending)
  /\ UNCHANGED <<vars, seen, cycle, pending, dhcp_watchdog, ble_scanned, requested, at_boot,
                 last_prov, left>>

\* connect_stored_rotating; outside a reconnect cycle a refusal only allows
\* the advertisement task to ask again.
DecideConnect ==
  /\ step = "decide" /\ seen = "down" /\ creds
  /\ step' = "return" /\ cycle' = pending
  /\ \/ ConnectAccepted /\ UNCHANGED <<requested, left>>
     \/ ConnectRefused /\ requested' = (requested /\ pending)
                       /\ left' = IF pending THEN left ELSE "once"
  /\ UNCHANGED <<staVars, seen, pending, work, dhcp_watchdog, ble_scanned, at_boot, last_prov>>

ConnectReturns ==
  /\ step = "return"
  /\ step' = "idle" /\ Reschedule(cycle)
  /\ UNCHANGED <<vars, seen, cycle, pending, dhcp_watchdog, ble_scanned, requested, at_boot,
                 last_prov, left>>

----------------------------------------------------------------------------
(* The watchdog and the advertisement task.                                *)

\* dhcp_bind_watchdog_handler reboots: everything but the stored credentials
\* starts afresh.
DhcpBindWatchdog ==
  /\ Free /\ dhcp_watchdog
  /\ IF silent THEN budget' = budget ELSE Disturb
  /\ link' = "down" /\ addr' = 0 /\ silent' = FALSE /\ events' = << Event("ready", 0) >>
  /\ connected' = FALSE /\ bound_ip' = 0 /\ scanned' = FALSE
  /\ watchdog' = FALSE /\ reconnect' = FALSE /\ restart' = FALSE /\ start' = FALSE
  /\ request' = "none" /\ told' = "none" /\ gaveUp' = "no"
  /\ UNCHANGED creds
  /\ pending' = FALSE /\ work' = FALSE /\ step' = "idle" /\ seen' = "down" /\ cycle' = FALSE
  /\ dhcp_watchdog' = FALSE /\ ble_scanned' = FALSE
  /\ requested' = creds /\ at_boot' = creds /\ last_prov' = creds /\ left' = "no"

\* update_wifi_status_in_adv on the advertisement workqueue, whenever it runs:
\* newly provisioned credentials lead to one connect request.
AdvUpdate ==
  LET new == prov_state /\ ~last_prov
      ask == prov_state /\ ~(requested /\ ~new) /\ ~(at_boot /\ ~new) /\ link # "up"
  IN  /\ last_prov' = prov_state
      /\ at_boot' = (at_boot /\ ~new)
      /\ requested' = (ask \/ (requested /\ ~new))
      /\ work' = (work \/ ask)
      /\ UNCHANGED <<vars, pending, step, seen, cycle, dhcp_watchdog, ble_scanned, left>>

\* Credentials appear (provisioned or added) or are deleted.
CredsChangeBle ==
  /\ CredsChange
  /\ left' = "creds"
  /\ UNCHANGED <<pending, work, step, seen, cycle, dhcp_watchdog, ble_scanned, requested, at_boot,
                 last_prov>>

\* A refused CONNECT_STORED of the network brick is only logged here.
NetWork ==
  /\ step = "idle"
  /\ Work
  /\ left' = IF request = "start" /\ link = "down" /\ link' = "down" THEN "boot" ELSE left
  /\ UNCHANGED <<pending, work, step, seen, cycle, dhcp_watchdog, ble_scanned, requested, at_boot,
                 last_prov>>

NextBle ==
  \/ HandleBoth
  \/ NetWork
  \/ ConnectWork \/ StatusQuery
  \/ DecideConnected \/ DecideNoCreds \/ DecideJoining \/ DecideConnect \/ ConnectReturns
  \/ DhcpBindWatchdog \/ AdvUpdate \/ CredsChangeBle
  \/ (HandleAddrDelBlind \/ ScanEnds \/ Network \/ Shell) /\ UNCHANGED bleVars

SpecBle == InitBle /\ [][NextBle]_allVars
----------------------------------------------------------------------------
\* Types of the brick's variables; a handler is never in two work items.
TypeOKBle ==
  /\ TypeOK
  /\ {pending, work, cycle, dhcp_watchdog, ble_scanned, requested, at_boot, last_prov} \subseteq BOOLEAN
  /\ step \in {"idle", "status", "decide", "return"} /\ seen \in {"down", "joining", "up"}
  /\ left \in {"no", "creds", "pre_scan", "deferred", "stale", "boot", "once"}
  /\ step # "idle" => Idle

\* A reconnect cycle that is marked as running has its work item pending or
\* running: a disconnect that finds the mark set may rely on it.
CycleKeepsWork == pending => work \/ step # "idle"

\* A link that is down with credentials stored is on its way up again, unless
\* this brick knowingly left that to somebody else: to the provisioner, to the
\* supplicant, to a boot request that was refused, or to stale status.
RetryPending ==
  creds /\ link = "down" /\ left = "no" =>
    work \/ step # "idle" \/ start \/ request # "none" \/ events # <<>>

\* The device never reboots for want of a lease it has handled.  (The watchdog may
\* still reboot one whose DHCP_BOUND waits in the queue.)
NoRebootWithLease == connected => ~dhcp_watchdog

\* wifi_ble_prov.c:195 "WPA supplicant self-disconnected after beacon loss (AP
\* went away).  Schedule reconnect in that case".
BeaconLossRetried ==
  [][ creds /\ events # <<>> /\ events' = Tail(events)
        /\ Head(events) = Event("disconnect", 0) => work' ]_allVars

\* net_event_mgmt.c:1191 "Auto-connect (CONNECT_STORED) failed (%d), retrying":
\* after the boot request was refused something retries it.
BootRetried == left = "boot" /\ link = "down" => reconnect \/ work \/ step # "idle"

\* wifi-ble-prov-spec.md:166 "If still disconnected: reschedule": a handler
\* that ran while the link was down does not end the loop.
StaleStatusRetried ==
  left = "stale" /\ creds /\ link = "down" /\ events = <<>> => work \/ step # "idle" \/ request # "none"
=============================================================================
