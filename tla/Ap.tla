--------------------------------- MODULE Ap ---------------------------------
(***************************************************************************)
(* SoftAP and P2P group owner modes (l2_ap_event_handler in                *)
(* bricks/network/src/net_event_mgmt.c, the mode entries in wifi_utils.c): *)
(* the station table, the WPS re-arm loop and pairing window of the group  *)
(* owner, and what the LED shows for them, composed with module Ux.        *)
(*                                                                         *)
(* The event thread handles one net_mgmt event at a time and publishes     *)
(* `todo`; the system workqueue starts the mode and hears double-clicks;   *)
(* the WPS requests and the end of the window share a third queue, which   *)
(* blocks in a request.  A delay is abstracted to "later".                 *)
(***************************************************************************)
EXTENDS Ux, FiniteSetsExt

CONSTANTS
  Macs, NoMac,
  Slots,       \* MAX_SOFTAP_STATIONS
  MaxEvents    \* NET_MGMT_EVENT_QUEUE_SIZE

ASSUME ApAssumption ==
  NoMac \notin Macs /\ Slots \in Nat \ {0} /\ MaxEvents \in Nat \ {0}

VARIABLES
  up,         \* the access point or group runs
  inside,     \* the stations associated with it
  events,     \* net_mgmt events not handled yet
  todo,       \* states the current event has still to publish
  table,      \* connected_stations
  remind,     \* softap_remind_work is pending
  wps,        \* where p2p_go_wps_retry_work is scheduled: "now", "later"
  arming,     \* its handler is in the WPS request
  canceling,  \* it was cancelled during that request
  window,     \* p2p_go_pair_window_work is pending
  dropped     \* history: an event found the queue full

apVars == <<up, inside, events, todo, table, remind, wps, arming, canceling, window, dropped>>
allVars == <<uxVars, apVars>>

ApInit ==
  /\ Init /\ mode \in {"softap", "go"}
  /\ up = FALSE /\ inside = {} /\ events = <<>> /\ todo = <<>>
  /\ table = [s \in 1 .. Slots |-> NoMac]
  /\ remind = FALSE /\ wps = {} /\ arming = FALSE /\ canceling = FALSE
  /\ window = FALSE /\ dropped = FALSE

----------------------------------------------------------------------------
(* The access point, and the queue of net_mgmt.                            *)

Post(kind, mac) ==
  /\ events' = IF Len(events) < MaxEvents THEN Append(events, <<kind, mac>>) ELSE events
  /\ dropped' = (dropped \/ Len(events) = MaxEvents)

\* CONFIG_WIFI_MGMT_AP_MAX_NUM_STA is at most MAX_SOFTAP_STATIONS.
Joins ==
  \E mac \in Macs \ inside :
    /\ up /\ Cardinality(inside) < Slots
    /\ inside' = inside \union {mac}
    /\ Post("joined", mac)

Leaves == \E mac \in inside : inside' = inside \ {mac} /\ Post("left", mac)

Station ==
  /\ Spend /\ (Joins \/ Leaves)
  /\ UNCHANGED <<mode, last, pending, pairing, ble, ready, work, init, at, cmd, lamp, solid, busy,
                 told, episode, lost, up, todo, table, remind, wps, arming, canceling, window>>
----------------------------------------------------------------------------
(* The WPS re-arm loop.  A work item that is cancelled while it runs cannot *)
(* be submitted until it has ended; a delay can be set on it.              *)

CancelWps == wps' = {} /\ canceling' = arming

Rearm == (wps \ {"later"}) \union (IF canceling THEN {} ELSE {"now"})

RearmWps == wps' = Rearm /\ UNCHANGED canceling

\* The workqueue reaches p2p_go_set_wps_pin_handler.  There is a Wi-Fi interface:
\* without one the handler ends the loop.
WpsRequest ==
  /\ wps # {} /\ ~arming
  /\ arming' = TRUE
  /\ wps' = wps \ {IF "now" \in wps THEN "now" ELSE "later"}
  /\ UNCHANGED <<uxVars, up, inside, events, todo, table, remind, canceling, window, dropped>>

AfterRequest == wps \union {"later"}

\* The request returns, with success or not.
WpsReturns ==
  /\ arming
  /\ arming' = FALSE /\ canceling' = FALSE
  /\ wps' = AfterRequest
  /\ UNCHANGED <<uxVars, up, inside, events, todo, table, remind, window, dropped>>

\* p2p_go_pair_window_handler.  network_connected is never set in this mode.
WindowEnds ==
  /\ window /\ ~arming
  /\ window' = FALSE
  /\ WorkPublish("connecting")
  /\ UNCHANGED <<budget, up, inside, events, todo, table, remind, wps, arming, canceling, dropped>>
----------------------------------------------------------------------------
(* The system workqueue.                                                   *)

\* The requests are accepted; a refused one ends the start, and the mode.
RunSoftapMode == Post("enabled", NoMac) /\ remind' = TRUE /\ UNCHANGED wps

RunP2pGoMode == wps' = {"now"} /\ UNCHANGED <<events, dropped, remind>>

StartMode ==
  /\ ~up
  /\ up' = TRUE
  /\ IF mode = "softap" THEN RunSoftapMode ELSE RunP2pGoMode
  /\ UNCHANGED <<uxVars, inside, todo, table, arming, canceling, window>>

\* wifi_p2p_go_open_pairing_window
DoubleClick ==
  /\ mode = "go" /\ up /\ Spend
  /\ RearmWps
  /\ WorkPublish("pairing")
  /\ window' = TRUE
  /\ UNCHANGED <<up, inside, events, todo, table, remind, arming, dropped>>
----------------------------------------------------------------------------
(* The event thread.                                                       *)

Taken == { s \in 1 .. Slots : table[s] # NoMac }

Recorded_Last(mac) ==
  IF Taken = 1 .. Slots THEN table ELSE [table EXCEPT ![Cardinality(Taken) + 1] = mac]

\* The first free slot.
Recorded(mac) ==
  IF Taken = 1 .. Slots THEN table ELSE [table EXCEPT ![Min(1 .. Slots \ Taken)] = mac]

Removed(mac) ==
  LET its == { s \in 1 .. Slots : table[s] = mac }
  IN  IF its = {} THEN table ELSE [table EXCEPT ![Min(its)] = NoMac]

StationCount(stations) == Quantify(1 .. Slots, LAMBDA s : stations[s] # NoMac)

\* An AP_ENABLE_RESULT that reports a failure publishes nothing, and no station
\* joins then.
OnEnabled ==
  /\ todo' = <<"softap">>
  /\ UNCHANGED <<table, remind, wps, canceling>>

OnJoined(mac) ==
  /\ table' = Recorded(mac)
  /\ IF mode = "go" THEN CancelWps /\ UNCHANGED remind
     ELSE remind' = FALSE /\ UNCHANGED <<wps, canceling>>
  /\ todo' = (IF mode = "go" THEN <<"softap">> ELSE <<>>) \o
             (IF StationCount(table') >= 1 THEN <<"connected">> ELSE <<>>)

OnLeft_AnyClient(mac) ==
  /\ table' = Removed(mac)
  /\ IF mode = "go" THEN RearmWps ELSE UNCHANGED <<wps, canceling>>
  /\ todo' = <<"softap">>
  /\ UNCHANGED remind

OnLeft_NoRearm(mac) ==
  /\ table' = Removed(mac)
  /\ todo' = IF StationCount(table') = 0 THEN <<"softap">> ELSE <<>>
  /\ UNCHANGED <<remind, wps, canceling>>

OnLeft(mac) ==
  /\ table' = Removed(mac)
  /\ IF mode = "go" THEN RearmWps ELSE UNCHANGED <<wps, canceling>>
  /\ todo' = IF StationCount(table') = 0 THEN <<"softap">> ELSE <<>>
  /\ UNCHANGED remind

\* l2_ap_event_handler
ApEvent ==
  /\ events # <<>> /\ todo = <<>> /\ at = "free"
  /\ events' = Tail(events)
  /\ LET kind == Head(events)[1]
         mac == Head(events)[2]
     IN  \/ kind = "enabled" /\ OnEnabled
         \/ kind = "joined" /\ OnJoined(mac)
         \/ kind = "left" /\ OnLeft(mac)
  /\ UNCHANGED <<uxVars, up, inside, arming, window, dropped>>

\* The hooks zego_on_net_event_wifi_ap_* publish.
ApHook ==
  /\ todo # <<>>
  /\ NetPublish(Head(todo)) /\ todo' = Tail(todo)
  /\ UNCHANGED <<budget, up, inside, events, table, remind, wps, arming, canceling, window, dropped>>
----------------------------------------------------------------------------
ApNext ==
  \/ Station \/ StartMode \/ DoubleClick
  \/ ApEvent \/ ApHook
  \/ WpsRequest \/ WpsReturns \/ WindowEnds
  \/ UxStep /\ UNCHANGED apVars

ApSpec == ApInit /\ [][ApNext]_allVars
----------------------------------------------------------------------------
EventType == { <<"enabled", NoMac>> } \union ({"joined", "left"} \X Macs)

ApTypeOK ==
  /\ TypeOK
  /\ up \in BOOLEAN /\ inside \subseteq Macs
  /\ events \in Seq(EventType)
  /\ Len(events) <= MaxEvents
  /\ todo \in Seq(States)
  /\ table \in [1 .. Slots -> Macs \union {NoMac}]
  /\ remind \in BOOLEAN /\ arming \in BOOLEAN /\ canceling \in BOOLEAN
  /\ wps \subseteq {"now", "later"}
  /\ window \in BOOLEAN /\ dropped \in BOOLEAN

Held == { table[s] : s \in Taken }

\* The stations that are associated after the first k of the events `es`, if it
\* were `macs` before them.
After(macs, es, k) ==
  { mac \in Macs :
      \/ \E i \in 1 .. k : es[i] = <<"joined", mac>> /\ \A j \in i + 1 .. k : es[j][2] # mac
      \/ mac \in macs /\ \A i \in 1 .. k : es[i][2] # mac }

\* The table is what the handled events say: applying the queued ones to the
\* stations it holds gives those that are associated, each held once.
TableFollows ==
  ~dropped =>
    /\ \A s, t \in Taken : table[s] = table[t] => s = t
    /\ inside = After(Held, events, Len(events))

Settled == Quiet /\ up /\ events = <<>> /\ todo = <<>> /\ ~dropped

\* Outside a pairing the LED tells whether a client is associated: ROTATE without
\* one, ON with one, unless the LED brick ignored that ON; and ROTATE again once
\* the end of a pairing window has said CONNECTING over it (WindowResolves).
ShowsClients ==
  Settled /\ ~episode =>
    IF inside = {} \/ told = "connecting" THEN lamp = "rotate" ELSE lamp = "on" \/ OnIgnored

\* A group owner without clients keeps arming WPS: no order of joins, leaves,
\* double-clicks and requests in flight ends the loop.
StaysConnectable ==
  Settled /\ mode = "go" /\ inside = {} => wps # {} \/ arming

\* wifi_utils.c:571 "Pairing window elapsed: stop the BREATHE indication.
\* zego_on_net_event_p2p_pairing resolves the LED back to CONNECTED (if a
\* client joined) or ROTATE otherwise."
WindowResolves ==
  Settled /\ mode = "go" /\ ~window /\ ~lost =>
    lamp = IF inside = {} THEN "rotate" ELSE "on"
=============================================================================
