---------------------------- MODULE StaNtpProofs ----------------------------
(***************************************************************************)
(* Proofs about Ntp, for any number of connections, and about its          *)
(* composition with STA mode.                                              *)
(*                                                                         *)
(* In Ntp, QueryArmed is inductive together with TypeOK, whose last three  *)
(* conjuncts do the work: a submit is refused only while a handler runs    *)
(* (so a query is under way all the same), and an answer never belongs to  *)
(* a connection to come.                                                   *)
(*                                                                         *)
(* The application template in STA mode does what either brick does on its *)
(* own: every step of the composition is a step of Ntp or a stutter, and a *)
(* step of Sta or a stutter.  What is proved of the two bricks therefore   *)
(* holds in it, and with that what the hooks promise between them.         *)
(***************************************************************************)
EXTENDS StaNtp, TLAPS

(* The NTP brick.                                                          *)

NtpInv == TypeOK /\ QueryArmed

Flags ==
  /\ ready \in BOOLEAN /\ synced \in BOOLEAN /\ queued \in BOOLEAN /\ delayed \in BOOLEAN
  /\ querying \in BOOLEAN /\ canceling \in BOOLEAN /\ clockRefused \in BOOLEAN

Histories ==
  /\ epoch \in 0 .. MaxConnects /\ queryOf \in 0 .. epoch /\ syncOf \in 0 .. queryOf

Cancels ==
  /\ canceling => querying
  /\ querying /\ ~ready => canceling

LEMMA TypeParts == TypeOK <=> Flags /\ Histories /\ Cancels
  BY DEF TypeOK, Flags, Histories, Cancels

LEMMA NtpInit == Init => NtpInv
<1>. SUFFICES ASSUME Init PROVE NtpInv
  OBVIOUS
<1>1. Flags /\ Cancels /\ QueryArmed
  BY Zenon DEF Init, Flags, Cancels, QueryArmed
<1>2. Histories
  BY NtpAssumption, SMT DEF Init, Histories, NtpAssumption
<1>. QED
  BY <1>1, <1>2, TypeParts DEF NtpInv

LEMMA ConnectedKeeps == ASSUME NtpInv, Connected PROVE NtpInv'
<1>. USE NtpAssumption, TypeParts DEF NtpAssumption, NtpInv
<1>1. ready' = TRUE /\ UNCHANGED <<synced, querying, canceling, clockRefused, queryOf, syncOf>>
  BY DEF Connected, NotifyConnected
<1>2. (ready /\ epoch' = epoch) \/ (~ready /\ epoch < MaxConnects /\ epoch' = epoch + 1)
  BY Zenon DEF Connected, NotifyConnected
<1>3. \/ synced /\ UNCHANGED <<queued, delayed>>
      \/ ~synced /\ delayed' = FALSE /\ queued' \in BOOLEAN /\ (queued' <=> queued \/ ~canceling)
  BY Zenon DEF Connected, NotifyConnected, SubmitNow
<1>4. Flags'
  BY <1>1, <1>3, Zenon DEF Flags
<1>5. Histories'
  BY <1>1, <1>2, SMT DEF Histories
<1>6. Cancels'
  BY <1>1, Zenon DEF Cancels
<1>7. QueryArmed'
  BY <1>1, <1>2, <1>3, SMT DEF QueryArmed, Armed, Histories, Cancels
<1>. QED
  BY <1>4, <1>5, <1>6, <1>7 DEF TypeOK, Flags, Histories, Cancels

LEMMA DisconnectedKeeps == ASSUME NtpInv, Disconnected PROVE NtpInv'
<1>. USE TypeParts DEF NtpInv, Disconnected
<1>1. Flags' /\ Cancels' /\ QueryArmed'
  BY Zenon DEF Flags, Cancels, QueryArmed
<1>2. Histories'
  BY Zenon DEF Histories
<1>. QED
  BY <1>1, <1>2 DEF TypeOK, Flags, Histories, Cancels

LEMMA ExpireKeeps == ASSUME NtpInv, Expire PROVE NtpInv'
<1>. USE TypeParts DEF NtpInv, Expire
<1>1. Flags' /\ Cancels' /\ QueryArmed'
  BY Zenon DEF Flags, Cancels, QueryArmed, Armed
<1>2. Histories'
  BY Zenon DEF Histories
<1>. QED
  BY <1>1, <1>2 DEF TypeOK, Flags, Histories, Cancels

LEMMA HandlerBeginKeeps == ASSUME NtpInv, HandlerBegin PROVE NtpInv'
<1>. USE TypeParts DEF NtpInv
<1>1. /\ queued /\ ~querying /\ queued' = FALSE /\ querying' = ready
      /\ queryOf' = (IF ready THEN epoch ELSE queryOf)
      /\ UNCHANGED <<ready, synced, delayed, canceling, clockRefused, epoch, syncOf>>
  BY DEF HandlerBegin
<1>2. Flags' /\ Cancels' /\ QueryArmed'
  BY <1>1, Zenon DEF Flags, Cancels, QueryArmed, Armed
<1>3. Histories'
  BY NtpAssumption, <1>1, SMT DEF Histories, NtpAssumption
<1>. QED
  BY <1>2, <1>3 DEF TypeOK, Flags, Histories, Cancels

\* However a query ends, the next one is armed or the clock has refused.
LEMMA AnswerKeeps ==
  ASSUME NtpInv, QueryFails \/ ClockSet \/ ClockRefuses
  PROVE  NtpInv'
<1>. USE TypeParts DEF NtpInv, HandlerReturns, QueryFails, ClockSet, ClockRefuses
<1>1. Flags'
  BY Zenon DEF Flags
<1>2. Cancels' /\ QueryArmed'
  BY Zenon DEF Cancels, QueryArmed, Armed
<1>3. UNCHANGED <<epoch, queryOf>> /\ (syncOf' = syncOf \/ syncOf' = queryOf)
  BY Zenon
<1>4. Histories'
  BY NtpAssumption, <1>3, SMT DEF Histories, NtpAssumption
<1>. QED
  BY <1>1, <1>2, <1>4 DEF TypeOK, Flags, Histories, Cancels

LEMMA NtpNext == ASSUME NtpInv, [Next]_vars PROVE NtpInv'
<1>1. CASE UNCHANGED vars
  <2>1. Flags' /\ Histories' /\ Cancels' /\ QueryArmed'
    BY <1>1, TypeParts, Zenon DEF vars, NtpInv, Flags, Histories, Cancels, QueryArmed, Armed
  <2>. QED
    BY <2>1 DEF NtpInv, TypeOK, Flags, Histories, Cancels
<1>. QED
  BY <1>1, ConnectedKeeps, DisconnectedKeeps, ExpireKeeps, HandlerBeginKeeps, AnswerKeeps
     DEF Next

\* Types and the query that is armed, for any number of connections.
THEOREM NtpInvariant == Spec => []NtpInv
  BY NtpInit, NtpNext, PTL DEF Spec

\* On a connected device a query is pending or running, whatever the order of
\* reports, expiries and answers, except where ntp_work_handler gives up.
THEOREM QueryArmedHolds == Spec => []QueryArmed
<1>1. NtpInv => QueryArmed
  BY DEF NtpInv
<1>. QED
  BY <1>1, NtpInvariant, PTL

----------------------------------------------------------------------------
(* The composition.                                                        *)

\* Sta again, with its theorems.  The template in STA mode has no BLE brick: the
\* variables that StaBle adds, of which the theorems about Sta do not speak, are
\* given constant values.
SP == INSTANCE StaProofs WITH
        pending <- FALSE, work <- FALSE, step <- "idle", seen <- "down", cycle <- FALSE,
        dhcp_watchdog <- FALSE, ble_scanned <- FALSE, requested <- FALSE, at_boot <- FALSE,
        last_prov <- FALSE, left <- "no"

LEMMA Constants ==
  /\ NumAddrs \in Nat \ {0} /\ Faults \subseteq SP!FaultKinds
  /\ Budget \in Nat /\ MaxEvents \in Nat /\ MaxEvents >= 2
  /\ BleProv \in BOOLEAN
  BY StaNtpAssumption DEF SP!FaultKinds, S!FaultKinds

LEMMA SameInit == S!Init => SP!Init
  BY DEF S!Init, S!LinkInit, S!StaInit, SP!Init, SP!LinkInit, SP!StaInit, S!Event, SP!Event

LEMMA SameNext == S!Next => SP!Next
  BY DEF S!Next, SP!Next, S!Work, SP!Work, S!HandleEvent, SP!HandleEvent,
     S!HandleAddrDelBlind, SP!HandleAddrDelBlind, S!CredsChange, SP!CredsChange, S!ScanEnds,
     SP!ScanEnds, S!Network, SP!Network, S!Shell, SP!Shell, S!StartMode, SP!StartMode,
     S!ReconnectRun, SP!ReconnectRun, S!WatchdogRun, SP!WatchdogRun, S!RestartRun,
     SP!RestartRun, S!RequestConnect, SP!RequestConnect, S!RequestDisconnect,
     SP!RequestDisconnect, S!RequestDhcp, SP!RequestDhcp, S!NetHandle, SP!NetHandle,
     S!OnReady, SP!OnReady, S!OnScanDone, SP!OnScanDone, S!OnConnected, SP!OnConnected,
     S!OnConnectFailed, SP!OnConnectFailed, S!OnDisconnected, SP!OnDisconnected,
     S!OnAddrDel, SP!OnAddrDel, S!OnAddrDelBlind, SP!OnAddrDelBlind, S!OnBound, SP!OnBound,
     S!StandDown, SP!StandDown, S!TellDisconnect, SP!TellDisconnect, S!Idle, SP!Idle,
     S!Done, SP!Done, S!vars, SP!vars, S!staVars, SP!staVars, S!linkVars, SP!linkVars,
     S!Addrs, SP!Addrs, S!Event, SP!Event, S!Post, SP!Post, S!Disturb, SP!Disturb,
     S!DropEvents, SP!DropEvents, S!Leave, SP!Leave, S!Joined, SP!Joined, S!GoSilent,
     SP!GoSilent, S!JoinFails, SP!JoinFails, S!JoinFailsEarly, SP!JoinFailsEarly, S!Dropped,
     SP!Dropped, S!Leased, SP!Leased, S!Renewed, SP!Renewed, S!LeaseLost, SP!LeaseLost,
     S!UserConnects, SP!UserConnects, S!LinkNext, SP!LinkNext, S!ConnectAccepted,
     SP!ConnectAccepted, S!ConnectRefused, SP!ConnectRefused, S!DisconnectAccepted,
     SP!DisconnectAccepted, S!DisconnectRefused, SP!DisconnectRefused

LEMMA SameVars == S!vars = SP!vars
  BY DEF S!vars, SP!vars

LEMMA SameSpec == S!Spec => SP!Spec
<1>1. [S!Next]_(S!vars) => [SP!Next]_(SP!vars)
  BY SameNext DEF S!vars, SP!vars
<1>. QED
  BY <1>1, SameInit, PTL DEF S!Spec, SP!Spec
----------------------------------------------------------------------------
(* The composition implements both.                                        *)

LEMMA NtpStep == ASSUME [AppNext]_allVars PROVE [Next]_vars
<1>1. CASE UNCHANGED allVars
  BY <1>1 DEF allVars
<1>2. CASE Handle \/ HandleBlind \/ NetWork \/ World
  BY <1>2 DEF Handle, HandleBlind, NetWork, NetItem, World
<1>3. CASE CallHook \/ StartMode
  BY <1>3 DEF CallHook, StartMode, DhcpBound, WifiDisconnect, Next
<1>4. CASE NtpWork
  BY <1>4 DEF NtpWork, NtpItem, Next
<1>. QED
  BY <1>1, <1>2, <1>3, <1>4 DEF AppNext

\* The template drives the NTP brick as Ntp lets it be driven.
THEOREM ImplementsNtp == AppSpec => Spec
<1>1. AppInit => Init
  BY DEF AppInit
<1>. QED
  BY <1>1, NtpStep, PTL DEF AppSpec, Spec

LEMMA StaStep == ASSUME [AppNext]_allVars PROVE [S!Next]_(S!vars)
<1>1. CASE UNCHANGED allVars \/ CallHook \/ NtpWork
  <2>1. UNCHANGED staVars
    BY <1>1 DEF allVars, CallHook, NtpWork, NtpItem
  <2>. QED
    BY <2>1 DEF staVars, S!vars
<1>2. CASE Handle \/ HandleBlind \/ StartMode
  BY <1>2 DEF Handle, HandleBlind, StartMode, S!Next, S!Work
<1>3. CASE NetWork
  BY <1>3 DEF NetWork, NetItem, S!Next, S!Work
<1>4. CASE World
  BY <1>4 DEF World, S!Next
<1>. QED
  BY <1>1, <1>2, <1>3, <1>4 DEF AppNext

\* The network brick in it makes the steps of STA mode and no others.
THEOREM ImplementsSta == AppSpec => S!Spec
<1>1. AppInit => S!Init
  BY DEF AppInit
<1>. QED
  BY <1>1, StaStep, PTL DEF AppSpec, S!Spec

\* However the network brick's events reach ntp.c and however its own work item
\* is held up, a connected device has a query armed.
THEOREM AppQueryArmed == AppSpec => []QueryArmed
  BY ImplementsNtp, QueryArmedHolds, PTL

LEMMA StaHolds == AppSpec => []SP!StaInv
  BY Constants, ImplementsSta, SameSpec, SP!StaInvariant, PTL

LEMMA ToldHolds == AppSpec => []SP!AppTold
  BY Constants, ImplementsSta, SameSpec, SP!AppToldHolds, PTL
----------------------------------------------------------------------------
(* The hooks.                                                              *)

\* The application is ahead of the NTP brick by the hook still to be called.
HookInv ==
  /\ hook \in {"none", "dhcp_bound", "wifi_disconnect"}
  /\ ready = s_connected
  /\ hook = "none" => (ready <=> told = "connected")
  /\ hook = "dhcp_bound" => told = "connected"
  /\ hook = "wifi_disconnect" => told # "connected"

LEMMA HookInit == AppInit => HookInv
  BY DEF AppInit, Init, S!Init, S!StaInit, HookInv

LEMMA HandleHooks == ASSUME HookInv, SP!StaInv, Handle PROVE HookInv'
<1> DEFINE e == Head(events)
<1>1. /\ hook = "none" /\ hook' = HookOf(e) /\ S!NetHandle(e)
      /\ UNCHANGED <<ready, s_connected>> /\ (ready <=> told = "connected")
  BY DEF Handle, S!HandleEvent, HookInv, vars
<1>2. connected => told = "connected"
  BY DEF SP!StaInv, SP!SafeInv, SP!Beliefs, SP!BeliefOrder
<1>. HIDE DEF e
<1>3. CASE e.kind = "ready" /\ S!OnReady
  BY <1>1, <1>3 DEF S!OnReady, HookOf, HookInv
<1>4. CASE e.kind = "scan_done" /\ S!OnScanDone
  BY <1>1, <1>4 DEF S!OnScanDone, HookOf, HookInv
<1>5. CASE e.kind = "connect" /\ e.arg = 0 /\ S!OnConnected
  BY <1>1, <1>5 DEF S!OnConnected, HookOf, HookInv
<1>6. CASE e.kind = "connect" /\ e.arg # 0 /\ S!OnConnectFailed(e.arg)
  <2>1. CASE ~scanned /\ e.arg = 1
    BY <1>1, <1>6, <2>1 DEF S!OnConnectFailed, HookOf, HookInv
  <2>2. CASE ~(~scanned /\ e.arg = 1)
    BY <1>1, <1>6, <2>2 DEF S!OnConnectFailed, S!TellDisconnect, HookOf, HookInv
  <2>. QED
    BY <2>1, <2>2
<1>7. CASE e.kind = "disconnect" /\ S!OnDisconnected
  BY <1>1, <1>7 DEF S!OnDisconnected, S!TellDisconnect, HookOf, HookInv
<1>8. CASE e.kind = "addr_del" /\ S!OnAddrDel
  BY <1>1, <1>8 DEF S!OnAddrDel, S!staVars, HookOf, HookInv
<1>9. CASE e.kind = "bound" /\ S!OnBound(e.arg)
  <2>1. CASE connected /\ e.arg = bound_ip
    BY <1>1, <1>2, <1>9, <2>1 DEF S!OnBound, HookOf, HookInv
  <2>2. CASE ~(connected /\ e.arg = bound_ip)
    BY <1>1, <1>9, <2>2 DEF S!OnBound, HookOf, HookInv
  <2>. QED
    BY <2>1, <2>2
<1>. QED
  BY <1>1, <1>3, <1>4, <1>5, <1>6, <1>7, <1>8, <1>9 DEF S!NetHandle

LEMMA StartHooks == ASSUME HookInv, SP!StaInv, StartMode PROVE HookInv'
<1>1. told # "connected"
  BY DEF StartMode, S!StartMode, SP!StaInv, SP!SafeInv, SP!BootIsFirst, SP!Booting
<1>2. CASE creds
  BY <1>1, <1>2 DEF StartMode, S!StartMode, HookInv, vars
<1>3. CASE ~creds
  BY <1>1, <1>3 DEF StartMode, S!StartMode, HookInv, WifiDisconnect, Disconnected
<1>. QED
  BY <1>2, <1>3

LEMMA HookNext == ASSUME HookInv, SP!StaInv, [AppNext]_allVars PROVE HookInv'
<1>1. CASE Handle
  BY <1>1, HandleHooks
<1>2. CASE StartMode
  BY <1>2, StartHooks
<1>3. CASE CallHook
  BY <1>3 DEF CallHook, DhcpBound, WifiDisconnect, Connected, NotifyConnected, Disconnected,
              staVars, HookInv
<1>4. CASE HandleBlind
  BY <1>4 DEF HandleBlind, S!HandleAddrDelBlind, S!OnAddrDelBlind, vars, appVars, HookInv
<1>5. CASE NetWork
  <2>1. UNCHANGED <<ready, s_connected, hook, told>>
    BY <1>5 DEF NetWork, NetItem, vars, appVars, S!ReconnectRun, S!WatchdogRun, S!RestartRun,
                S!RequestConnect, S!RequestDisconnect, S!RequestDhcp
  <2>. QED
    BY <2>1 DEF HookInv
<1>6. CASE NtpWork
  <2>1. UNCHANGED <<ready, s_connected, hook, told>>
    BY <1>6 DEF NtpWork, NtpItem, staVars, appVars, Expire, HandlerBegin, QueryFails, ClockSet,
                ClockRefuses
  <2>. QED
    BY <2>1 DEF HookInv
<1>7. CASE World
  <2>1. UNCHANGED <<ready, s_connected, hook, told>>
    BY <1>7 DEF World, vars, appVars, S!CredsChange, S!ScanEnds, S!Network, S!Shell, S!staVars
  <2>. QED
    BY <2>1 DEF HookInv
<1>8. CASE UNCHANGED allVars
  BY <1>8 DEF allVars, vars, staVars, appVars, HookInv
<1>. QED
  BY <1>1, <1>2, <1>3, <1>4, <1>5, <1>6, <1>7, <1>8 DEF AppNext

\* The hooks keep the two bricks in agreement: the NTP brick asks for the time
\* while the network brick has a lease, and without one only until a hook, the
\* watchdog or an event ends that state, or the watchdog was refused.
THEOREM OnlineAgreesHolds == AppSpec => []OnlineAgrees
<1>1. ASSUME HookInv, SP!AppTold PROVE OnlineAgrees
  BY <1>1 DEF HookInv, SP!AppTold, OnlineAgrees
<1>. QED
  BY <1>1, HookInit, HookNext, StaHolds, ToldHolds, PTL DEF AppSpec
=============================================================================
