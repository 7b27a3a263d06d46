------------------------------ MODULE WifiLink ------------------------------
(***************************************************************************)
(* What the bricks see of Zephyr's Wi-Fi stack in STA mode: the supplicant *)
(* that joins and leaves a network, the DHCP client that gets and loses an *)
(* address, and the queue through which the network event thread learns of *)
(* both, always later than they happen.  External: modelled from the       *)
(* requests, events and status queries of bricks/network and               *)
(* bricks/wifi_ble_prov.                                                   *)
(*                                                                         *)
(* budget bounds what goes wrong or arrives unasked in a behaviour;        *)
(* MaxEvents bounds the queue.                                             *)
(***************************************************************************)
EXTENDS Integers, Sequences

CONSTANTS
  NumAddrs,    \* addresses a DHCP server may hand out
  Faults,      \* what may go wrong, besides the network itself
  Budget,      \* bound on the disturbances of a behaviour
  MaxEvents    \* bound on the length of the event queue

FaultKinds == {"refuse_connect", "refuse_disconnect", "pre_scan", "status_query", "creds"}

ASSUME WifiLinkAssumption ==
  /\ NumAddrs \in Nat \ {0}
  /\ Faults \subseteq FaultKinds
  /\ Budget \in Nat
  /\ MaxEvents \in Nat /\ MaxEvents >= 2

VARIABLES
  link,      \* the supplicant: "down", "joining" a network, or "up"
  addr,      \* the interface's DHCP address, 0 if it has none
  silent,    \* the DHCP server does not answer in this association
  events,    \* net_mgmt events the event thread has not handled yet
  budget     \* disturbances left

linkVars == <<link, addr, silent, events, budget>>

Addrs == 1 .. NumAddrs

\* arg: a result's status, a disconnect's reason, the address of a lease.
Event(k, a) == [kind |-> k, arg |-> a]

EventType ==
  { Event("ready", 0), Event("scan_done", 0), Event("addr_del", 0) }
    \union { Event("connect", s) : s \in 0 .. 2 }
    \union { Event("disconnect", r) : r \in 0 .. 1 }
    \union { Event("bound", a) : a \in Addrs }

LinkTypeOK ==
  /\ link \in {"down", "joining", "up"}
  /\ addr \in {0} \union Addrs
  /\ silent \in BOOLEAN
  /\ addr # 0 => link = "up" /\ ~silent
  /\ events \in Seq(EventType) /\ Len(events) <= MaxEvents
  /\ budget \in 0 .. Budget

LinkInit ==
  /\ link = "down" /\ addr = 0 /\ silent = FALSE
  /\ events = << Event("ready", 0) >>
  /\ budget = Budget

Post(es) == Len(events \o es) <= MaxEvents /\ events' = events \o es

Disturb == budget > 0 /\ budget' = budget - 1

\* A link that goes down takes its address with it.
DropEvents(reason) ==
  (IF addr = 0 THEN <<>> ELSE << Event("addr_del", 0) >>) \o << Event("disconnect", reason) >>

Leave(next, reason) ==
  link' = next /\ addr' = 0 /\ silent' = FALSE /\ Post(DropEvents(reason))

----------------------------------------------------------------------------
(* The network and the supplicant on their own.                            *)

Joined ==
  /\ link = "joining"
  /\ link' = "up" /\ Post(<< Event("connect", 0) >>)
  /\ UNCHANGED <<addr, silent, budget>>

GoSilent ==
  /\ link = "up" /\ addr = 0 /\ ~silent /\ Disturb
  /\ silent' = TRUE
  /\ UNCHANGED <<link, addr, events>>

JoinFails ==
  /\ link = "joining" /\ Disturb
  /\ link' = "down" /\ Post(<< Event("connect", 2) >>)
  /\ UNCHANGED <<addr, silent>>

\* A generic failure before the first scan, which the supplicant retries on
\* its own; with the fault it does not.
JoinFailsEarly ==
  /\ link = "joining" /\ Disturb
  /\ link' \in {"joining"} \union (IF "pre_scan" \in Faults THEN {"down"} ELSE {})
  /\ Post(<< Event("connect", 1) >>)
  /\ UNCHANGED <<addr, silent>>

\* The access point leaves (reason 1) or its beacons are lost (reason 0).
Dropped == \E r \in 0 .. 1 : link = "up" /\ Disturb /\ Leave("down", r)

Leased ==
  /\ link = "up" /\ addr = 0 /\ ~silent
  /\ addr' \in Addrs
  /\ Post(<< Event("bound", addr') >>)
  /\ UNCHANGED <<link, silent, budget>>

Renewed ==
  /\ addr # 0 /\ Disturb
  /\ Post(<< Event("bound", addr) >>)
  /\ UNCHANGED <<link, addr, silent>>

LeaseLost ==
  /\ addr # 0 /\ Disturb
  /\ addr' = 0 /\ Post(<< Event("addr_del", 0) >>)
  /\ UNCHANGED <<link, silent>>

\* 'wifi connect' in the shell.
UserConnects ==
  /\ link = "down" /\ Disturb
  /\ link' = "joining"
  /\ UNCHANGED <<addr, silent, events>>

LinkNext == \/ Joined \/ GoSilent \/ JoinFails \/ JoinFailsEarly \/ Dropped
            \/ Leased \/ Renewed \/ LeaseLost

----------------------------------------------------------------------------
(* Requests of the bricks.                                                 *)

\* A connect request is accepted.  One that meets an association, because it
\* or its timer was late, is ignored or gives the association up first.
ConnectAccepted ==
  \/ link = "up" /\ Disturb /\ Leave("joining", 0)
  \/ link = "up" /\ UNCHANGED linkVars
  \/ link # "up" /\ link' = "joining" /\ UNCHANGED <<addr, silent, events, budget>>

ConnectRefused == /\ "refuse_connect" \in Faults /\ Disturb
                  /\ UNCHANGED <<link, addr, silent, events>>

\* A disconnect request; without an association there is nothing to do.
DisconnectAccepted ==
  /\ IF link = "up" THEN Leave("down", 0) ELSE UNCHANGED <<link, addr, silent, events>>
  /\ UNCHANGED budget

DisconnectRefused == /\ "refuse_disconnect" \in Faults /\ Disturb
                     /\ UNCHANGED <<link, addr, silent, events>>
=============================================================================
