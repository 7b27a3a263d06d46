-------------------------------- MODULE P2pGc --------------------------------
(***************************************************************************)
(* The P2P client engine (bricks/network/src/wifi_utils.c): pairing with a *)
(* group owner by discovery, learning its MAC in NVS, and reconnecting to  *)
(* it.                                                                     *)
(*                                                                         *)
(* Three threads interleave: p2p_gc_do_connect on its own workqueue, which *)
(* blocks in every Wi-Fi request (`call`), the network event thread, and   *)
(* the system workqueue on which a double-click arrives.  A delay is       *)
(* abstracted to what it is for: "now", "soon", or the 90 s "timeout" of a *)
(* connect, which the code sets longer than the supplicant's attempts.     *)
(* Delays are long against the event thread: one that expires before an    *)
(* event is handled, or the timeout before its join ended, is a            *)
(* disturbance.  The device has a Wi-Fi interface: without one the engine  *)
(* only tries again every 10 s (wifi_utils.c:877-882).                     *)
(*                                                                         *)
(* Budget bounds the disturbances of a behaviour, MaxEvents the queue.     *)
(***************************************************************************)
EXTENDS Integers, Sequences

CONSTANTS
  GOs,        \* group owners with the OUI that pairing looks for
  Phones,     \* other P2P devices
  NoPeer,
  Faults,
  Budget,
  MaxEvents

FaultKinds == {"refuse_find", "refuse_connect", "refuse_disconnect",
               "nvs", "manual", "hasty", "late"}

ASSUME P2pGcAssumption ==
  /\ GOs \intersect Phones = {} /\ NoPeer \notin GOs \union Phones
  /\ Faults \subseteq FaultKinds
  /\ Budget \in Nat
  /\ MaxEvents \in Nat \ {0}

VARIABLES
  sup,              \* the supplicant: "idle", "joining" or "up"
  group,            \* the owner of the group it joins or is in
  events,           \* net_mgmt events not handled yet
  budget,
  connected,        \* p2p_gc_connected
  pending,          \* p2p_gc_pending
  find_running,     \* p2p_find_running
  pairing_active,   \* p2p_pairing_active
  saved_go,         \* saved_go_mac, NoPeer without have_saved_go
  nvs,              \* what "net/p2p_gc_go_mac" holds
  pending_go,       \* pending_go_mac, NoPeer without have_pending_mac
  retry,            \* p2p_gc_retry_work: "no", "now", "soon" or "timeout"
  canceling,        \* it was cancelled while its handler ran
  call,             \* the request the handler is making, or "none"
  target,           \* the peer of that request
  muddled,          \* history: a join did not end the way its request expects
  click             \* history: a double-click was "ignored" outside a pairing,
                    \* or its submit "refused"; else "none"

supVars == <<sup, group, events, budget>>
flags == <<connected, pending, find_running, pairing_active>>
macs == <<saved_go, nvs, pending_go>>
worker == <<retry, canceling, call, target>>
vars == <<sup, group, events, budget, connected, pending, find_running, pairing_active,
          saved_go, nvs, pending_go, retry, canceling, call, target, muddled, click>>

Peers == GOs \union Phones
Event(k, p) == [kind |-> k, peer |-> p]

\* wifi_run_p2p_gc_mode with what NVS holds.
Started(stored) ==
  /\ connected = FALSE /\ pending = FALSE /\ find_running = FALSE /\ pairing_active = FALSE
  /\ saved_go = stored /\ nvs = stored /\ pending_go = NoPeer
  /\ retry = IF stored # NoPeer THEN "now" ELSE "no"
  /\ canceling = FALSE /\ call = "none" /\ target = NoPeer
  /\ muddled = FALSE /\ click = "none"

Init ==
  /\ sup = "idle" /\ group = NoPeer /\ events = <<>> /\ budget = Budget
  /\ \E stored \in {NoPeer} \union GOs : Started(stored)

Disturb == budget > 0 /\ budget' = budget - 1
Post(e) == Len(events) < MaxEvents /\ events' = Append(events, e)

----------------------------------------------------------------------------
(* The supplicant and the user.                                            *)

\* A request returns long before its join ends; that it does not is a fault.
JoinSucceeds ==
  /\ sup = "joining" /\ sup' = "up"
  /\ Post(Event("connect", group))
  /\ IF call \in {"pair_accepted", "reconnect_accepted"}
     THEN "hasty" \in Faults /\ Disturb /\ muddled' = TRUE
     ELSE UNCHANGED <<budget, muddled>>
  /\ UNCHANGED <<group, flags, macs, worker, click>>

\* No event tells of a join that fails.
JoinFails ==
  /\ sup = "joining" /\ Disturb
  /\ sup' = "idle" /\ group' = NoPeer
  /\ UNCHANGED <<events, flags, macs, worker, muddled, click>>

GroupLost ==
  /\ sup = "up" /\ Disturb
  /\ sup' = "idle" /\ group' = NoPeer
  /\ Post(Event("disconnect", NoPeer))
  /\ UNCHANGED <<flags, macs, worker, muddled, click>>

\* A late deauthentication of a group that is long gone.
LateDeauth ==
  /\ sup = "idle" /\ Disturb
  /\ Post(Event("disconnect", NoPeer))
  /\ UNCHANGED <<sup, group, flags, macs, worker, muddled, click>>

\* 'wifi p2p connect' in the shell.
ManualConnect ==
  /\ "manual" \in Faults /\ Disturb
  /\ sup = "idle" /\ sup' = "joining" /\ group' \in Peers
  /\ muddled' = TRUE
  /\ UNCHANGED <<events, flags, macs, worker, click>>

----------------------------------------------------------------------------
(* p2p_gc_start_pairing_internal, in the button's listener.                *)

Busy == pairing_active \/ find_running \/ pending

\* A work item whose cancellation waits for its handler takes no immediate
\* submit.
Resubmit == retry' = IF canceling THEN "no" ELSE "now"

DoubleClick ==
  IF Busy
  THEN /\ click' = IF pairing_active THEN click ELSE "ignored"
       /\ UNCHANGED <<supVars, flags, macs, worker, muddled>>
  ELSE /\ pairing_active' = TRUE /\ pending_go' = NoPeer
       /\ Resubmit
       /\ click' = IF canceling THEN "refused" ELSE "none"
       /\ UNCHANGED <<supVars, connected, pending, find_running, saved_go, nvs, canceling, call,
                      target, muddled>>

----------------------------------------------------------------------------
(* The network event thread.                                               *)

OnConnectResult_KeepPending ==
  /\ connected' = TRUE
  /\ retry' = "no" /\ canceling' = (call # "none")
  /\ saved_go' = IF pairing_active /\ pending_go # NoPeer THEN pending_go ELSE saved_go
  /\ nvs' = saved_go'
  /\ pairing_active' = FALSE /\ pending_go' = NoPeer
  /\ UNCHANGED <<pending, find_running, budget>>

\* wifi_p2p_gc_on_connect_result(true); the event thread calls it for no
\* other result.
OnConnectResult ==
  LET learns == pairing_active /\ pending_go # NoPeer
  IN  /\ connected' = TRUE /\ pending' = FALSE
      /\ retry' = "no" /\ canceling' = (call # "none")
      /\ saved_go' = IF learns THEN pending_go ELSE saved_go
      /\ \/ UNCHANGED budget /\ nvs' = IF learns THEN pending_go ELSE nvs
         \/ learns /\ "nvs" \in Faults /\ Disturb /\ UNCHANGED nvs
      /\ pairing_active' = FALSE /\ pending_go' = NoPeer
      /\ UNCHANGED find_running

OnDisconnect_NotWhilePairing ==
  IF connected /\ ~pairing_active
  THEN /\ connected' = FALSE /\ pending' = FALSE /\ find_running' = FALSE
       /\ retry' = "soon"
       /\ UNCHANGED pairing_active
  ELSE UNCHANGED <<flags, retry>>

\* wifi_p2p_gc_on_disconnect.
OnDisconnect ==
  IF connected \/ pairing_active
  THEN /\ connected' = FALSE /\ pending' = FALSE /\ find_running' = FALSE
       /\ retry' = "soon"
       /\ UNCHANGED pairing_active
  ELSE UNCHANGED <<flags, retry>>

HandleConnect ==
  /\ events # <<>> /\ Head(events).kind = "connect"
  /\ events' = Tail(events)
  /\ OnConnectResult
  /\ UNCHANGED <<sup, group, call, target, muddled, click>>

HandleDisconnect ==
  /\ events # <<>> /\ Head(events).kind = "disconnect"
  /\ events' = Tail(events)
  /\ OnDisconnect
  /\ UNCHANGED <<sup, group, budget, macs, canceling, call, target, muddled, click>>

----------------------------------------------------------------------------
(* p2p_gc_do_connect, up to the request it makes.                          *)

Early == \/ retry \in {"soon", "timeout"} /\ events # <<>>
         \/ retry = "timeout" /\ sup = "joining"

\* A retry that meets a join has given that join up.
Due ==
  /\ call = "none" /\ retry # "no"
  /\ IF Early THEN "late" \in Faults /\ Disturb ELSE UNCHANGED budget
  /\ muddled' = (muddled \/ (~connected /\ (sup # "idle" \/ events # <<>>)))
  /\ retry' = "no"

RunConnected ==
  /\ Due /\ connected
  /\ call' = IF pairing_active THEN "disconnect" ELSE "none"
  /\ UNCHANGED <<sup, group, events, flags, macs, canceling, target, click>>

\* A connect that is pending now has timed out.
RunPairing ==
  /\ Due /\ ~connected /\ pairing_active
  /\ pending' = FALSE /\ find_running' = FALSE
  /\ call' = IF find_running /\ ~pending THEN "peers" ELSE "find"
  /\ UNCHANGED <<sup, group, events, connected, pairing_active, macs, canceling, target, click>>

RunReconnect ==
  /\ Due /\ ~connected /\ ~pairing_active
  /\ pending' = FALSE /\ find_running' = (find_running /\ ~pending)
  /\ IF saved_go # NoPeer
     THEN call' = "reconnect" /\ target' = saved_go /\ pending_go' = NoPeer
     ELSE UNCHANGED <<call, target, pending_go>>
  /\ UNCHANGED <<sup, group, events, connected, pairing_active, saved_go, nvs, canceling, click>>

----------------------------------------------------------------------------
(* The request and its return.                                             *)

\* An item that was submitted meanwhile runs first.
Reschedule(when) == retry' = IF retry = "now" THEN retry ELSE when

Return == call' = "none" /\ canceling' = FALSE /\ target' = NoPeer

\* A find is refused during a join: "Scan already in progress".
FindReturns ==
  /\ call = "find"
  /\ \/ sup # "joining" /\ find_running' = TRUE /\ UNCHANGED budget
     \/ sup = "joining" /\ UNCHANGED <<find_running, budget>>
     \/ "refuse_find" \in Faults /\ Disturb /\ UNCHANGED find_running
  /\ Reschedule("soon") /\ Return
  /\ UNCHANGED <<sup, group, events, connected, pending, pairing_active, macs, muddled, click>>

\* The saved group owner if it is among them, else the strongest one that
\* pairing looks for: any of those.
SelectPeer(seen) == IF saved_go \in seen THEN {saved_go} ELSE seen \intersect GOs

PeersReturn_JoinStrongest ==
  /\ call = "peers"
  /\ \E seen \in SUBSET Peers :
       /\ SelectPeer(seen) # {}
       /\ pending_go' \in SelectPeer(seen)
       /\ call' = "pair" /\ target' \in SelectPeer(seen \ {pending_go'}) \union {pending_go'}
  /\ UNCHANGED <<supVars, flags, saved_go, nvs, retry, canceling, muddled, click>>

PeersReturn ==
  /\ call = "peers"
  /\ \E seen \in SUBSET Peers :
       /\ SelectPeer(seen) # {}
       /\ pending_go' \in SelectPeer(seen)
       /\ call' = "pair" /\ target' = pending_go'
  /\ UNCHANGED <<supVars, flags, saved_go, nvs, retry, canceling, muddled, click>>

\* The query fails, or shows no group owner.
PeersReturnNone ==
  /\ call = "peers"
  /\ Disturb
  /\ Reschedule("soon") /\ Return
  /\ UNCHANGED <<sup, group, events, flags, macs, muddled, click>>

\* The supplicant takes the connect request ...
ConnectAccepted ==
  /\ call \in {"pair", "reconnect"} /\ sup # "up"
  /\ sup' = "joining" /\ group' = target
  /\ call' = IF call = "pair" THEN "pair_accepted" ELSE "reconnect_accepted"
  /\ UNCHANGED <<events, budget, flags, macs, retry, canceling, target, muddled, click>>

\* ... and the handler marks it as pending,
ConnectReturns ==
  /\ call \in {"pair_accepted", "reconnect_accepted"}
  /\ pending' = TRUE
  /\ Reschedule("timeout") /\ Return
  /\ UNCHANGED <<supVars, connected, find_running, pairing_active, macs, muddled, click>>

ConnectRefused_NoRetry ==
  /\ call \in {"pair", "reconnect"}
  /\ IF sup = "idle" THEN "refuse_connect" \in Faults /\ Disturb ELSE UNCHANGED budget
  /\ pending_go' = IF call = "pair" THEN NoPeer ELSE pending_go
  /\ UNCHANGED retry /\ Return
  /\ UNCHANGED <<sup, group, events, flags, saved_go, nvs, muddled, click>>

\* or it is refused, which it always may be while it joins or is in a group.
ConnectRefused ==
  /\ call \in {"pair", "reconnect"}
  /\ IF sup = "idle" THEN "refuse_connect" \in Faults /\ Disturb ELSE UNCHANGED budget
  /\ pending_go' = IF call = "pair" THEN NoPeer ELSE pending_go
  /\ Reschedule("soon") /\ Return
  /\ UNCHANGED <<sup, group, events, flags, saved_go, nvs, muddled, click>>

DisconnectReturns ==
  /\ call = "disconnect"
  /\ Return
  /\ IF sup = "up"
     THEN \/ /\ sup' = "idle" /\ group' = NoPeer /\ Post(Event("disconnect", NoPeer))
             /\ UNCHANGED <<budget, muddled>>
          \/ /\ "refuse_disconnect" \in Faults /\ Disturb /\ muddled' = TRUE
             /\ UNCHANGED <<sup, group, events>>
     ELSE UNCHANGED <<supVars, muddled>>
  /\ UNCHANGED <<flags, macs, retry, click>>

----------------------------------------------------------------------------
\* Power is lost; wifi_run_p2p_gc_mode starts again from NVS.
Restart ==
  /\ Disturb
  /\ sup' = "idle" /\ group' = NoPeer /\ events' = <<>>
  /\ connected' = FALSE /\ pending' = FALSE /\ find_running' = FALSE /\ pairing_active' = FALSE
  /\ saved_go' = nvs /\ pending_go' = NoPeer /\ UNCHANGED nvs
  /\ retry' = IF nvs # NoPeer THEN "now" ELSE "no"
  /\ canceling' = FALSE /\ call' = "none" /\ target' = NoPeer
  /\ muddled' = FALSE /\ click' = "none"

Engine == \/ RunConnected \/ RunPairing \/ RunReconnect
          \/ FindReturns \/ PeersReturn \/ PeersReturnNone
          \/ ConnectAccepted \/ ConnectReturns \/ ConnectRefused \/ DisconnectReturns

Next == \/ JoinSucceeds \/ JoinFails \/ GroupLost \/ LateDeauth \/ ManualConnect
        \/ DoubleClick \/ HandleConnect \/ HandleDisconnect
        \/ Engine \/ Restart

Spec == Init /\ [][Next]_vars

\* The kernel runs the event thread and the workqueue, requests return, and a
\* join that nothing disturbs succeeds.
FairSpec ==
  /\ Spec
  /\ WF_vars(HandleConnect) /\ WF_vars(HandleDisconnect)
  /\ WF_vars(Engine) /\ WF_vars(JoinSucceeds)
----------------------------------------------------------------------------
\* Types; what is learnt is a group owner's MAC.
TypeOK ==
  /\ sup \in {"idle", "joining", "up"} /\ group \in Peers \union {NoPeer}
  /\ events \in Seq([kind : {"connect", "disconnect"}, peer : Peers \union {NoPeer}])
  /\ budget \in 0 .. Budget
  /\ {connected, pending, find_running, pairing_active, canceling, muddled} \subseteq BOOLEAN
  /\ click \in {"none", "ignored", "refused"}
  /\ {saved_go, nvs, pending_go, target} \subseteq GOs \union {NoPeer}
  /\ retry \in {"no", "now", "soon", "timeout"}
  /\ call \in {"none", "disconnect", "find", "peers", "pair", "pair_accepted", "reconnect",
               "reconnect_accepted"}

\* While the client is not connected, with a group owner to return to or a
\* pairing to finish, the engine has its next step ahead of it (unless the
\* workqueue refused a double-click's submit during a cancellation).
RetryPending ==
  ~connected /\ click # "refused" /\ (saved_go # NoPeer \/ pairing_active) =>
    retry # "no" \/ call # "none" \/ events # <<>>

\* With every event handled, the engine takes itself for connected exactly
\* when it is in a group.
BelievesGroup == events = <<>> => (connected <=> sup = "up")

\* wifi_utils.c:1044 "A re-pair while *connected* is still allowed": a
\* connected engine at rest accepts a double-click.
Repairable ==
  connected /\ retry = "no" /\ call = "none" /\ events = <<>> =>
    ~pairing_active /\ ~find_running /\ ~pending

\* wifi_utils.c:1044 "(pairing_active is false then)": a connected engine at
\* rest is not marked as pairing.
PairingEnds ==
  connected /\ retry = "no" /\ call = "none" /\ events = <<>> => ~pairing_active

\* Repairable, as long as every join ended after its request returned and
\* within its timeout, and no request to disconnect was refused.
RepairableInOrder == muddled \/ Repairable

\* A connection changes the saved group owner only to the one it is to, unless a
\* join did not end the way its request expects: one by hand, or one that met a
\* discovery or outlived its timeout, may save another MAC (ManualNotSaved).  It
\* says nothing of a pairing whose save never happens.
SavesJoined ==
  [][ events # <<>> /\ Head(events).kind = "connect" /\ events' = Tail(events) /\ connected' /\ ~muddled =>
        saved_go' \in {saved_go, Head(events).peer} ]_vars

\* However often the user pairs anew, a pairing under way ends with a
\* connection, and a client with a saved group owner connects again, unless the
\* workqueue refused a double-click's submit or a join ended in a way its request
\* does not expect.
Reconnects == []<>((saved_go # NoPeer \/ pairing_active) /\ click # "refused" /\ ~muddled => connected)

\* network-spec.md:271 "A double-click still works at any time to (re-)start
\* pairing": it is ignored only during a pairing.
DoubleClickHeard == click # "ignored"

\* network-spec.md:270 "if empty (never paired): automatically start the pairing
\* sequence": a client with nobody to return to is pairing.
AutoPairs == saved_go = NoPeer /\ ~connected => pairing_active

\* wifi_utils.c:1082 "Manual 'wifi p2p connect' does not save here".
ManualNotSaved ==
  [][ events # <<>> /\ Head(events).kind = "connect" /\ events' = Tail(events) /\ connected' =>
        saved_go' \in {saved_go, Head(events).peer} ]_vars
=============================================================================
