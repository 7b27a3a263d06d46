------------------------------- MODULE StaNtp -------------------------------
(***************************************************************************)
(* The application template in STA mode                                    *)
(* (nordic-wifi-app-template/src/modules/network/net_event_mgmt_app.c):    *)
(* its strong hooks take what the network brick (module Sta) reports to    *)
(* the NTP brick (module Ntp).                                             *)
(*                                                                         *)
(* The two bricks meet twice.  The event thread calls a hook at the end of *)
(* a handler and can be preempted before it, so the two bricks' ideas of   *)
(* the connection differ for a moment (`hook`); a retry that the handler   *)
(* schedules after the hook is scheduled before it here.  And both bricks' *)
(* work items run on the system workqueue: a query that waits for its      *)
(* server holds up every retry and watchdog of the network brick.          *)
(***************************************************************************)
EXTENDS Ntp, Sequences

CONSTANTS NumAddrs, Faults, Budget, MaxEvents, BleProv

VARIABLES link, addr, silent, events, budget, connected, bound_ip, scanned, watchdog, reconnect,
          restart, start, request, creds, told, gaveUp

S == INSTANCE Sta

ASSUME StaNtpAssumption ==
  /\ NumAddrs \in Nat \ {0}
  /\ Faults \subseteq S!FaultKinds
  /\ Budget \in Nat
  /\ MaxEvents \in Nat /\ MaxEvents >= 2
  /\ BleProv \in BOOLEAN

VARIABLES
  hook,         \* the hook the event thread has yet to call, or "none"
  s_connected   \* the template's own flag

staVars == <<link, addr, silent, events, budget, connected, bound_ip, scanned, watchdog,
             reconnect, restart, start, request, creds, told, gaveUp>>
appVars == <<hook, s_connected>>
allVars == <<vars, staVars, appVars>>

AppInit ==
  /\ Init /\ S!Init
  /\ hook = "none" /\ s_connected = FALSE

----------------------------------------------------------------------------
(* The hooks.                                                              *)

\* zego_on_net_event_dhcp_bound
DhcpBound == s_connected' = TRUE /\ Connected

WifiDisconnect_NoNtp == s_connected' = FALSE /\ UNCHANGED vars

\* zego_on_net_event_wifi_disconnect
WifiDisconnect == s_connected' = FALSE /\ Disconnected

\* Which hook the handler of an event calls.
HookOf(e) ==
  CASE e.kind = "bound" /\ ~(connected /\ e.arg = bound_ip) -> "dhcp_bound"
    [] e.kind = "disconnect" -> "wifi_disconnect"
    [] e.kind = "connect" /\ e.arg # 0 /\ ~(~scanned /\ e.arg = 1) -> "wifi_disconnect"
    [] OTHER -> "none"

Handle ==
  /\ hook = "none"
  /\ S!HandleEvent
  /\ hook' = HookOf(Head(events))
  /\ UNCHANGED <<vars, s_connected>>

HandleBlind ==
  /\ hook = "none"
  /\ S!HandleAddrDelBlind
  /\ UNCHANGED <<vars, appVars>>

CallHook ==
  /\ hook' = "none"
  /\ \/ hook = "dhcp_bound" /\ DhcpBound
     \/ hook = "wifi_disconnect" /\ WifiDisconnect
  /\ UNCHANGED staVars
----------------------------------------------------------------------------
(* The system workqueue: one item at a time, from either brick.            *)

\* start_mode_work calls the hook itself if there is no credential.
StartMode ==
  /\ ~querying /\ S!StartMode
  /\ IF creds THEN UNCHANGED <<vars, s_connected>> ELSE WifiDisconnect
  /\ UNCHANGED hook

NetItem(Item) == ~querying /\ Item /\ UNCHANGED <<vars, appVars>>

NtpItem(Item) == request = "none" /\ Item /\ UNCHANGED <<staVars, appVars>>

NetWork ==
  \/ NetItem(S!ReconnectRun) \/ NetItem(S!WatchdogRun) \/ NetItem(S!RestartRun)
  \/ NetItem(S!RequestConnect) \/ NetItem(S!RequestDisconnect) \/ NetItem(S!RequestDhcp)

NtpWork ==
  \/ Expire /\ UNCHANGED <<staVars, appVars>>
  \/ NtpItem(HandlerBegin) \/ NtpItem(QueryFails) \/ NtpItem(ClockSet) \/ NtpItem(ClockRefuses)

World ==
  /\ S!CredsChange \/ S!ScanEnds \/ S!Network \/ S!Shell
  /\ UNCHANGED <<vars, appVars>>

AppNext ==
  \/ Handle \/ HandleBlind \/ CallHook
  \/ StartMode \/ NetWork \/ NtpWork
  \/ World

AppSpec == AppInit /\ [][AppNext]_allVars

\* As in Sta and Ntp.  The workqueue is a FIFO, so an item that is queued
\* behind a query runs when that has ended, however many queries follow.
AppFairness ==
  /\ WF_allVars(Handle) /\ WF_allVars(CallHook)
  /\ WF_allVars(S!Network /\ S!Joined /\ UNCHANGED <<vars, appVars>>)
  /\ WF_allVars(S!Network /\ S!Leased /\ UNCHANGED <<vars, appVars>>)
  /\ SF_allVars(StartMode)
  /\ SF_allVars(NetItem(S!ReconnectRun)) /\ SF_allVars(NetItem(S!WatchdogRun))
  /\ SF_allVars(NetItem(S!RestartRun))
  /\ WF_allVars(NetItem(S!RequestConnect \/ S!RequestDisconnect \/ S!RequestDhcp))
  /\ WF_allVars(Expire /\ UNCHANGED <<staVars, appVars>>)
  /\ SF_allVars(NtpItem(HandlerBegin))
  /\ WF_allVars(NtpItem(QueryFails \/ ClockSet \/ ClockRefuses))
  /\ SF_allVars(NtpItem(ClockSet))

AppFairSpec == AppSpec /\ AppFairness
----------------------------------------------------------------------------
AppTypeOK ==
  /\ TypeOK /\ S!TypeOK
  /\ hook \in {"none", "dhcp_bound", "wifi_disconnect"}
  /\ s_connected \in BOOLEAN

\* The workqueue runs one item at a time.
OneItem == ~(querying /\ request # "none")

\* The NTP brick asks for the time when the network brick has a lease, and
\* without one only until a hook, the watchdog or an event ends that state, or
\* the watchdog's request was refused.
OnlineAgrees ==
  hook = "none" =>
    /\ ready = s_connected
    /\ connected => ready
    /\ ready /\ ~connected =>
         watchdog \/ request = "watchdog" \/ events # <<>> \/ gaveUp = "refused"

\* However the network fails and whenever a query is in flight, a device whose
\* network works again is online and has the time, if its clock accepts it.
TimeInTheEnd ==
  <>[](creds /\ gaveUp = "no" /\ ~clockRefused) => <>[](connected /\ addr # 0 /\ synced)
=============================================================================
