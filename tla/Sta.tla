-------------------------------- MODULE Sta --------------------------------
(***************************************************************************)
(* STA mode of the network brick (bricks/network/src/net_event_mgmt.c):    *)
(* the reconnect retry, the DHCP watchdog and what the application is told *)
(* through the weak hooks.                                                 *)
(*                                                                         *)
(* Two threads interleave.  The network event thread handles one event at  *)
(* a time.  The system workqueue runs the work items one at a time; it is  *)
(* cooperative, so a work item is atomic up to the Wi-Fi request it makes, *)
(* and during that request (`request`) the event thread goes on.  Delays   *)
(* are abstracted to "pending".                                            *)
(***************************************************************************)
EXTENDS WifiLink

CONSTANT BleProv   \* CONFIG_ZEGO_WIFI_BLE_PROV: another brick reconnects

ASSUME StaAssumption == BleProv \in BOOLEAN

VARIABLES
  connected,   \* network_connected
  bound_ip,    \* last_bound_ip, 0 when zeroed
  scanned,     \* initial_scan_done
  watchdog,    \* l3_watchdog_work is pending
  reconnect,   \* l3_reconnect_work is pending
  restart,     \* sta_dhcp_restart_work is pending
  start,       \* start_mode_work is queued
  request,     \* the request a work item is making, or "none"
  creds,       \* a Wi-Fi credential is stored
  told,        \* the last hook: "connected", "connecting", "error", or "none"
  gaveUp       \* history: why the code left recovery to somebody else, or "no"

staVars == <<connected, bound_ip, scanned, watchdog, reconnect, restart, start, request,
             creds, told, gaveUp>>

vars == <<link, addr, silent, events, budget, connected, bound_ip, scanned, watchdog, reconnect,
          restart, start, request, creds, told, gaveUp>>

StaInit ==
  /\ connected = FALSE /\ bound_ip = 0 /\ scanned = FALSE
  /\ watchdog = FALSE /\ reconnect = FALSE /\ restart = FALSE /\ start = FALSE
  /\ request = "none"
  /\ creds \in {TRUE} \union (IF "creds" \in Faults THEN {FALSE} ELSE {})
  /\ told = "none"
  /\ gaveUp = "no"

Init == LinkInit /\ StaInit

\* zego_on_net_event_wifi_disconnect(has_creds)
TellDisconnect == told' = IF creds THEN "connecting" ELSE "error"

----------------------------------------------------------------------------
(* The network event thread.                                               *)

OnReady ==
  /\ start' = TRUE
  /\ UNCHANGED <<connected, bound_ip, scanned, watchdog, reconnect, restart, request,
                 creds, told, gaveUp>>

OnScanDone ==
  /\ scanned' = TRUE
  /\ UNCHANGED <<connected, bound_ip, watchdog, reconnect, restart, start, request,
                 creds, told, gaveUp>>

OnConnected_NoWatchdog ==
  /\ restart' = TRUE /\ gaveUp' = "no"
  /\ UNCHANGED <<connected, bound_ip, scanned, watchdog, reconnect, start, request, creds, told>>

\* CONNECT_RESULT with status 0.  It stands no pending reconnect down.
OnConnected ==
  /\ restart' = TRUE
  /\ watchdog' = TRUE
  /\ gaveUp' = "no"
  /\ UNCHANGED <<connected, bound_ip, scanned, reconnect, start, request, creds, told>>

\* CONNECT_RESULT with another status.
OnConnectFailed(status) ==
  IF ~scanned /\ status = 1
  THEN /\ gaveUp' = "pre_scan"
       /\ UNCHANGED <<connected, bound_ip, scanned, watchdog, reconnect, restart, start,
                      request, creds, told>>
  ELSE /\ TellDisconnect
       /\ reconnect' = (reconnect \/ (creds /\ ~BleProv))
       /\ gaveUp' = IF creds THEN "no" ELSE "creds"
       /\ UNCHANGED <<connected, bound_ip, scanned, watchdog, restart, start, request, creds>>

\* l3_watchdog_cancel
StandDown == watchdog' = FALSE /\ reconnect' = FALSE

OnDisconnected_OnlyIfConnected ==
  /\ connected' = FALSE /\ bound_ip' = 0
  /\ watchdog' = FALSE
  /\ TellDisconnect
  /\ reconnect' = (creds /\ ~BleProv /\ connected)
  /\ gaveUp' = IF creds THEN "no" ELSE "creds"
  /\ UNCHANGED <<scanned, restart, start, request, creds>>

\* DISCONNECT_RESULT.
OnDisconnected ==
  /\ connected' = FALSE /\ bound_ip' = 0
  /\ watchdog' = FALSE
  /\ reconnect' = (creds /\ ~BleProv)
  /\ TellDisconnect
  /\ gaveUp' = IF creds THEN "no" ELSE "creds"
  /\ UNCHANGED <<scanned, restart, start, request, creds>>

OnAddrDel_NoWatchdog ==
  IF connected /\ link = "up"
  THEN /\ connected' = FALSE /\ bound_ip' = 0
       /\ UNCHANGED <<scanned, watchdog, reconnect, restart, start, request, creds, told, gaveUp>>
  ELSE UNCHANGED staVars

\* ADDR_DEL: it asks the interface whether it is still associated.
OnAddrDel ==
  IF connected /\ link = "up"
  THEN /\ connected' = FALSE /\ bound_ip' = 0
       /\ watchdog' = TRUE
       /\ UNCHANGED <<scanned, reconnect, restart, start, request, creds, told, gaveUp>>
  ELSE UNCHANGED staVars

\* ADDR_DEL when that status query fails: the event is ignored.
OnAddrDelBlind ==
  /\ connected /\ link = "up"
  /\ gaveUp' = "blind"
  /\ UNCHANGED <<connected, bound_ip, scanned, watchdog, reconnect, restart, start, request,
                 creds, told>>

OnBound_KeepWatchdog(ip) ==
  /\ connected' = TRUE /\ bound_ip' = ip /\ told' = "connected" /\ gaveUp' = "no"
  /\ UNCHANGED <<scanned, watchdog, reconnect, restart, start, request, creds>>

\* DHCP_BOUND; a renewal of the lease in use is not announced again.
OnBound(ip) ==
  LET is_renewal == connected /\ ip = bound_ip
  IN  /\ StandDown
      /\ connected' = TRUE /\ bound_ip' = ip /\ gaveUp' = "no"
      /\ told' = IF is_renewal THEN told ELSE "connected"
      /\ UNCHANGED <<scanned, restart, start, request, creds>>

NetHandle(e) ==
  \/ e.kind = "ready" /\ OnReady
  \/ e.kind = "scan_done" /\ OnScanDone
  \/ e.kind = "connect" /\ e.arg = 0 /\ OnConnected
  \/ e.kind = "connect" /\ e.arg # 0 /\ OnConnectFailed(e.arg)
  \/ e.kind = "disconnect" /\ OnDisconnected
  \/ e.kind = "addr_del" /\ OnAddrDel
  \/ e.kind = "bound" /\ OnBound(e.arg)

HandleEvent ==
  /\ events # <<>>
  /\ events' = Tail(events)
  /\ NetHandle(Head(events))
  /\ UNCHANGED <<link, addr, silent, budget>>

HandleAddrDelBlind ==
  /\ events # <<>> /\ Head(events).kind = "addr_del"
  /\ events' = Tail(events)
  /\ "status_query" \in Faults /\ Disturb
  /\ OnAddrDelBlind
  /\ UNCHANGED <<link, addr, silent>>

----------------------------------------------------------------------------
(* The system workqueue.                                                   *)

Idle == request = "none"

\* start_mode_work_handler in STA mode, up to CONNECT_STORED.
StartMode ==
  /\ Idle /\ start
  /\ start' = FALSE
  /\ request' = IF creds THEN "start" ELSE "none"
  /\ told' = IF creds THEN told ELSE "error"
  /\ gaveUp' = IF creds THEN "no" ELSE "creds"
  /\ UNCHANGED <<linkVars, connected, bound_ip, scanned, watchdog, reconnect, restart, creds>>

\* l3_reconnect_handler, up to CONNECT_STORED.
ReconnectRun ==
  /\ Idle /\ reconnect
  /\ reconnect' = FALSE
  /\ request' = IF connected THEN "none" ELSE "reconnect"
  /\ UNCHANGED <<linkVars, connected, bound_ip, scanned, watchdog, restart, start, creds, told,
                 gaveUp>>

\* l3_watchdog_handler, up to DISCONNECT.  The timeout is longer than a
\* DHCP exchange: an expiry before an answer that does come is a disturbance.
WatchdogRun ==
  /\ Idle /\ watchdog
  /\ IF silent THEN UNCHANGED budget ELSE Disturb
  /\ watchdog' = FALSE
  /\ request' = IF connected THEN "none" ELSE "watchdog"
  /\ UNCHANGED <<link, addr, silent, events, connected, bound_ip, scanned, reconnect, restart,
                 start, creds, told, gaveUp>>

\* sta_dhcp_restart_handler, up to net_dhcpv4_restart.
RestartRun ==
  /\ Idle /\ restart
  /\ restart' = FALSE
  /\ request' = IF addr # 0 THEN "none" ELSE "dhcp"
  /\ UNCHANGED <<linkVars, connected, bound_ip, scanned, watchdog, reconnect, start, creds, told,
                 gaveUp>>

Done == request' = "none"

\* CONNECT_STORED returns; a refusal is retried.
RequestConnect ==
  /\ request \in {"start", "reconnect"}
  /\ Done
  /\ \/ creds /\ ConnectAccepted /\ UNCHANGED reconnect
     \/ ConnectRefused /\ reconnect' = ~BleProv
     \/ ~creds /\ reconnect' = ~BleProv /\ UNCHANGED linkVars
  /\ UNCHANGED <<connected, bound_ip, scanned, watchdog, restart, start, creds, told, gaveUp>>

\* The watchdog's DISCONNECT returns; a refusal is logged.
RequestDisconnect ==
  /\ request = "watchdog"
  /\ Done
  /\ \/ DisconnectAccepted /\ UNCHANGED gaveUp
     \/ DisconnectRefused /\ gaveUp' = IF gaveUp = "blind" THEN gaveUp ELSE "refused"
  /\ UNCHANGED <<connected, bound_ip, scanned, watchdog, reconnect, restart, start, creds, told>>

\* net_dhcpv4_restart: it gives up an address that was bound meanwhile.
RequestDhcp ==
  /\ request = "dhcp"
  /\ Done
  /\ IF addr = 0 THEN UNCHANGED linkVars
     ELSE addr' = 0 /\ Post(<< Event("addr_del", 0) >>) /\ UNCHANGED <<link, silent, budget>>
  /\ UNCHANGED <<connected, bound_ip, scanned, watchdog, reconnect, restart, start, creds, told,
                 gaveUp>>

----------------------------------------------------------------------------
(* The rest of the world.                                                  *)

\* 'wifi cred add' and 'wifi cred delete'.
CredsChange ==
  /\ "creds" \in Faults /\ Disturb
  /\ creds' = ~creds
  /\ gaveUp' = IF gaveUp = "no" THEN "creds" ELSE gaveUp
  /\ UNCHANGED <<link, addr, silent, events, connected, bound_ip, scanned, watchdog, reconnect,
                 restart, start, request, told>>

ScanEnds ==
  /\ ~scanned /\ \A i \in 1 .. Len(events) : events[i].kind # "scan_done"
  /\ Post(<< Event("scan_done", 0) >>)
  /\ UNCHANGED <<link, addr, silent, budget, staVars>>

Network == LinkNext /\ UNCHANGED staVars

\* The shell is not used before the mode has started.
Shell == /\ ~start /\ \A i \in 1 .. Len(events) : events[i].kind # "ready"
         /\ UserConnects /\ UNCHANGED staVars

Work == \/ StartMode \/ ReconnectRun \/ WatchdogRun \/ RestartRun
        \/ RequestConnect \/ RequestDisconnect \/ RequestDhcp

Next == \/ HandleEvent \/ HandleAddrDelBlind \/ Work
        \/ CredsChange \/ ScanEnds \/ Network \/ Shell

Spec == Init /\ [][Next]_vars

\* The kernel runs the event thread, the timers and the workqueue; requests
\* return; once nothing disturbs them, joins succeed and leases are granted.
Fairness ==
  /\ WF_vars(HandleEvent) /\ WF_vars(Network /\ Joined) /\ WF_vars(Network /\ Leased)
  /\ WF_vars(StartMode) /\ WF_vars(ReconnectRun) /\ WF_vars(WatchdogRun) /\ WF_vars(RestartRun)
  /\ WF_vars(RequestConnect) /\ WF_vars(RequestDisconnect) /\ WF_vars(RequestDhcp)

FairSpec == Spec /\ Fairness
----------------------------------------------------------------------------
(* Properties.                                                             *)

\* Types; the remembered address is zeroed whenever the connection is, which
\* is what the renewal test of DHCP_BOUND relies on.
TypeOK ==
  /\ LinkTypeOK
  /\ {connected, scanned, watchdog, reconnect, restart, start, creds} \subseteq BOOLEAN
  /\ gaveUp \in {"no", "creds", "pre_scan", "refused", "blind"}
  /\ bound_ip \in {0} \union Addrs
  /\ connected <=> bound_ip # 0
  /\ request \in {"none", "start", "reconnect", "watchdog", "dhcp"}
  /\ told \in {"none", "connected", "connecting", "error"}

\* A stored network is retried after any disconnect: while the device is not
\* connected something that leads on is pending (a timer, a request, a join,
\* an event), unless the code knowingly left recovery to somebody else: no
\* credential at that moment, a failure the supplicant retries, a refused
\* DISCONNECT.
RecoveryPending ==
  creds /\ ~connected /\ gaveUp = "no" =>
    watchdog \/ reconnect \/ start \/ request # "none" \/ link = "joining" \/ events # <<>>

\* With every event handled, the brick's idea of the connection is the
\* interface's: connected on the remembered address or, without a lease, not
\* (but for an ADDR_DEL whose status query failed).  The watchdog never ticks
\* on a device it takes for connected.
BelievesLease ==
  /\ connected => ~watchdog
  /\ events = <<>> => /\ connected /\ gaveUp # "blind" => bound_ip = addr
                      /\ addr # 0 => connected

\* The application is told of every connection, and last told of a lost one
\* only if that is still so: it shows "connected" without a lease only while
\* the watchdog is about to end that state, or once the stack has refused to let
\* the watchdog end it (NoHalfConnected).
AppTold ==
  /\ connected => told = "connected"
  /\ told = "connected" /\ ~connected => watchdog \/ request = "watchdog" \/ events # <<>> \/ gaveUp = "refused"

\* However often the network fails, once it works again the device is
\* connected for good.
Recovers == <>[](creds /\ gaveUp = "no" => connected /\ addr # 0)

\* net_event_mgmt.c:274 "escaping the half-connected state": a device that is
\* associated without a lease has its way out pending.
NoHalfConnected ==
  link = "up" /\ ~connected /\ events = <<>> => watchdog \/ reconnect \/ request # "none" \/ start

\* net_event_mgmt.c:270 "cancelled on DHCP_BOUND": the watchdog does not
\* disconnect a device that has its lease.
WatchdogSparesLease == [][request = "watchdog" /\ request' = "none" => ~connected]_vars
=============================================================================
