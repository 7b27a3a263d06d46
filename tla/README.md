# A formal model of the zego firmware bricks

This directory holds TLA+ modules that model the zego bricks (Zephyr firmware
components: LED, button, NTP, network, BLE provisioning, UX, Wi-Fi mode, memory monitor), TLC
configurations that check them on small instances, and proofs that TLAPS checks
for every value of the constants.  Paths below are relative to the repository's
root.  `PROJECT.json` maps every definition to the lines it stands for.

    tlc -workers 2 -config Ap.cfg Ap        # one run
    tlapm LedProofs.tla                     # one module of proofs

Contents: [the system](#the-system) · [components](#inventory-of-the-components)
· [how Zephyr is modelled](#how-the-kernel-and-zbus-are-modelled) ·
[modules](#the-modules) · [runs](#the-runs) · [fairness](#fairness) ·
[proofs](#the-proofs) · [where the code disagrees with its
documents](#where-the-code-disagrees-with-its-documents) · [what is not
modelled](#what-is-not-modelled) · [plan](#plan)

## The system

A device is a set of bricks that know each other only through zbus channels and
weak hooks.  These threads run them:

| thread | priority | runs |
|---|---|---|
| system workqueue | cooperative | memory sampling, LED drain and effect timers, button callback and timers, NTP, STA retry/watchdog/DHCP restart, mode start, reconnects of the BLE brick, UX gestures and LED work |
| network event thread (`net_mgmt`) | preemptible | Wi-Fi, AP, IPv4 and DHCP events, one at a time, for both network bricks |
| P2P client workqueue, P2P WPS workqueue | cooperative | `p2p_gc_do_connect`; WPS requests and the end of the pairing window |
| Bluetooth threads | cooperative | phone connections |
| `adv_daemon_work_q` | preemptible | stop, start and refresh of the advertisement |
| shell, `main` | preemptible | `zego_wifi_mode`, `wifi ...`; SYS_INIT |

Calls between components:

* `BUTTON_CHAN`: button → UX (gestures; the listeners run inside the button's
  own handlers);
* `LED_CMD_CHAN`, `LED_STATE_CHAN`: UX (and any application) → LED → subscribers;
* `ZEGO_UX_WIFI_STATE_CHAN`, `ZEGO_UX_BLE_PROV_CONN_CHAN`: network and BLE
  provisioning → UX, through weak hooks the application may override;
* `WIFI_MODE_CHAN`: mode selector → network;
* `WIFI_CHAN`: the application's hooks → BLE provisioning (advertisement);
* `MEMONITOR_CHAN`: memory monitor → any consumer, which then copies the caches;
* `ZEGO_NTP_NET_CHAN`: the application's hooks → NTP;
* direct calls: UX double-click → `wifi_p2p_gc_start_pairing` and
  `wifi_p2p_go_start_pairing_window`, and in STA mode the switch
  `zego_wifi_ble_prov_advertise`; `net_mgmt` requests to the supplicant and
  the DHCP client, whose answers come back as events;
* NVS: the mode (`app/zego_wifi_mode`) and the paired group owner
  (`net/p2p_gc_go_mac`) survive a reboot; Wi-Fi credentials are stored by Zephyr.

## Inventory of the components

| component | state | operations | what is hard | what makes it correct |
|---|---|---|---|---|
| LED (`bricks/led`) | command queue, drain item, a machine per LED with timer and drive signals, ROTATE | listener, drain, expiry of an effect, of ROTATE | publishers preempted between put and submit; timers that expire after their effect ended; two owners of one LED; ramp arithmetic | no command is stranded, timers belong to live effects, ROTATE owns what it lights, what is OFF is dark, live effects go on |
| Button (`bricks/button`) | a machine, two timers, timestamps per button | level callback, long-press and click expiry | an expiry and a callback queued in either order; listeners that take time inside a handler | every press in exactly one gesture, in the documented grammar |
| NTP (`bricks/ntp`) | ready, synced, one delayable item | connected, disconnected, handler with blocking query | disconnects and reconnects while a query is in flight; a refused submit | a connected device has its next query armed; it is synced in the end |
| Network, STA (`net_event_mgmt.c`) | connected, remembered address, three delayed items, start | twelve events, four work items, hooks | requests that block while events are handled; refused requests; renewals and lost leases | a lost network is always being recovered; brick, application and interface agree |
| Network, P2P client (`wifi_utils.c`) | four flags, three MACs, one work item, NVS | double-click, connect result, disconnect, engine | cancellation of a running handler; joins nobody asked for; power loss | never stalls; learns only who it joined; stays re-pairable |
| Network, SoftAP and group owner | station table, WPS item, window item, reminder | AP enabled, station joined and left, double-click, window end | queued events of several stations; a WPS request in flight while it is cancelled or re-armed; full queue | table and LED follow the stations; WPS stays armed |
| BLE advertising (`bricks/wifi_ble_prov`) | flags, two works on their own queue, the phone | phone connects and leaves, stop and start, refresh, toggle, news of the link | the queue is preempted between stop and start and while it asks for the status; a cancelled work refuses news | the user's switch decides; what is advertised follows the device |
| Application template | one flag | strong hooks | the event thread preempted before a hook; NTP queries hold the workqueue | NTP asks when the device is online; online devices get the time |
| Memory monitor (`bricks/memonitor`) | two caches | periodic sampling, two getters | readers between the two samplings; a lost announcement | copies are whole and no older than what was announced; sampling goes on |
| BLE provisioning (`bricks/wifi_ble_prov`) | reconnect mark and item, DHCP watchdog, boot request, credential turn | its handlers on the same events, reconnect item, watchdog, advertisement task | two bricks, one link; status read before blocking | cycles keep their item; no reboot once a lease is handled; every loadable network gets its turn |
| UX (`bricks/ux`) | last, pending and pairing state, phone, ready, LED item | listeners for Wi-Fi state, phone and button, LED work, SYS_INIT | a listener preempted half-way; publishes lost on a locked channel; states before init | the LED settles on what was asked for |
| Mode selector (`bricks/wifi`, long press in `bricks/ux`) | mode in NVS and RAM | selection at boot, command, long press, reboot | power loss, failing settings, a command and a long press at once, another firmware's NVS | switches survive; bricks agree; every mode is reachable |
| mDNS, banner, samples | records, text | | | see [what is not modelled](#what-is-not-modelled) |

## How the kernel and zbus are modelled

These rules apply in every module.

* *Cooperative threads.*  A handler on a workqueue is one action, cut where it
  blocks (a Wi-Fi request, `sntp_simple`, `k_sleep`, an interface status query).
  While it blocks other threads act; what it read before stays as read (`seen`,
  `request`, `call`, `target`).  The network event thread is preemptible:
  where its handler can be preempted to effect, the handler is cut too
  (`publishing` in Led, `at` in Ux, `todo` in Ap).
* *Delays.*  A scheduled item may run at any later moment.  Where the code picks
  one delay to outlast another activity (the 90 s timeout of a P2P connect, the
  DHCP watchdog), the early expiry is still possible but is charged to `budget`
  as a disturbance, so that "nothing goes wrong any more" has a meaning.
* *k_work.*  `k_work_cancel_delayable` removes timer and queue entry, does not
  stop a running handler, and marks the item as being cancelled until that
  handler returns.  Meanwhile a `k_work_reschedule(K_NO_WAIT)` drops the old
  timer and is refused, one with a delay is not.  `k_work_schedule` leaves an
  item alone that is already scheduled; `k_work_reschedule` replaces its delay.
* *zbus.*  Listeners run in the publisher's thread with the channel locked.  A
  publish with `K_NO_WAIT` on a locked channel is lost.
* *Network stack.*  `WifiLink` (and `sup`, `group` in P2pGc, `up`, `inside` in
  Ap) are external: derived from the requests the bricks make and the events and
  status codes they test.  An event is handled later than the change it tells
  of.  The STA and client queues lose nothing (the code configures 150 entries
  and a posting timeout of 5 s); Ap's small queue drops events.

## The modules

| module | models | state ↔ code |
|---|---|---|
| `Led`, `MCLed` | `led.c`, `led_hw_zephyr.c` | `led[l]` is `led_sm[l]` with the signals `gpio`, `pwm`; `rotate` the ROTATE fields; `queue`, `submitted`, `worker` the message queue and `led_cmd_work` |
| `Button`, `ButtonEvents` | `button.c`; the promise of `button.h` | `sm[b]` is `button_sm[b]`, its machine functions are pure operators; `heard`, `tally` are a subscriber's view |
| `Ntp` | `ntp.c` | the brick's two flags, the four states of `ntp_work`; three history variables |
| `WifiLink` | Wi-Fi stack (external) | link, address, events |
| `Sta` | STA part of `net_event_mgmt.c` | its statics, the pending works, the request in progress |
| `StaBle` | `wifi_ble_prov.c` + `Sta` | EXTENDS `Sta`; both bricks handle `Head(events)` in one action |
| `BleAdv` | advertising in `wifi_ble_prov.c`, double-click of `ux.c`, + `Ux` | EXTENDS `Ux`; `adv`, `shown` are the controller's advertisement, `flags` the bits in `prov_svc_data`; `step` is where the queue's handler is |
| `StaNtp` | hooks of the application template + `Ntp` + `Sta` | EXTENDS `Ntp`, INSTANCE `Sta`; `hook` is the call the event thread has yet to make |
| `Memonitor` | `memonitor.c` | caches and counts; of an entry the cycle that sampled it |
| `BleRotate` | `connect_stored_rotating` | `idx` is `cred_rotate_idx`; a whole walk is one action |
| `P2pGc` | P2P client engine of `wifi_utils.c` | the flags and MACs under their names, `nvs`, the retry item, the request |
| `Ux` | `ux.c` | listener, LED item and init under their names; the LED brick reduced to one LED: `lamp` is what it shows, `solid` that its machine is in ON |
| `Ap` | AP handler, WPS loop and window, + `Ux` | EXTENDS `Ux`; `todo` are the states the event has yet to publish |
| `Mode` | `wifi_mode_selector.c`, long press, network start | `nvs`, `s_mode`, `active`; shell and long press each on the way to a reboot |
| `LedProofs`, `ButtonProofs`, `UxProofs`, `StaProofs`, `P2pGcProofs`, `ModeProofs`, `MemonitorProofs`, `StaNtpProofs` | theorems | see [the proofs](#the-proofs); `UxProofs` is also about `Ap`, `BleAdv` and `BleRotate`, `StaProofs` about `StaBle`, `StaNtpProofs` about `Ntp` |

Composition: `StaBle` extends `Sta` extends `WifiLink`; `Ap` and `BleAdv` extend
`Ux`; `StaNtp` extends `Ntp` and takes `Sta` by INSTANCE, with the two bricks'
work items on one workqueue.  `Button` implements `ButtonEvents`, the promise of
`button.h` as a specification of its own: the gestures a subscriber may hear
(safety), and that each press is classified in the end (liveness).  The
refinement mapping hides the machines and keeps what was heard (`Events ==
INSTANCE ButtonEvents WITH ...`, checked as `ImplementsEvents`).
Ux, Ap and BleAdv keep of the LED brick what one LED without hardware PWM shows
and whether its machine is in ON, because there a further ON is ignored: after ON,
ROTATE, ON the LED is dark (`LampAfter`).  Led models the brick itself, and the run
`led_on_dark` shows the same sequence there.

Every handler in the source is one action that includes all it calls.  Names of
fields, handlers and constants are the source's where TLA+ allows.  Definitions
whose name ends in `_Something` and stands before the definition of that name
(`OnBound_KeepWatchdog`) are plausible mistakes in it; nothing in the
specifications uses them, and the property they break is the one that would
notice.

### Assumptions about the environment

* Ux, `Started`: SYS_INIT is over before a second message, a phone or a gesture
  comes.  The first message may come at any point of it.
* BleAdv: one phone at a time (`CONFIG_BT_MAX_CONN`); a start or stop that the host
  refuses, a status query or an update that fails and credentials changed in the
  shell are disturbances; the application publishes on `WIFI_CHAN` as the brick's
  document asks (`AppTells`).
* Memonitor: consumers may run between any two steps of the sampling work, which
  is more than preemptible threads on one core can do.
* Button: the DK library reports each change of level once, in order.
* StaBle: `wifi_prov_state_get` says that credentials are stored, which is how
  the advertisement code reads it.
* Ap: at most `MAX_SOFTAP_STATIONS` stations are associated
  (`CONFIG_WIFI_MGMT_AP_MAX_NUM_STA` is not larger), the access point comes up
  when it is enabled, and as in P2pGc the Wi-Fi interface exists: the handlers'
  returns without one are left out.
* Led: the store for an index that is no LED hits something harmless, or the
  behaviour is followed no further (`worker = "lost"`).
* Ux: effects go to LED 0, the default, without hardware PWM.
* P2pGc: a join that ends before its request returns, a refused request, a
  manual connect, an early timeout are possible, each named in `Faults`.
  `muddled` records that a join did not end as its request expects;
  properties that are only true otherwise (`RepairableInOrder`, `SavesJoined`,
  `Reconnects`) say so in their formula.

## The runs

Deadlock is checked where the system never stops: in `p2p_gc`, `sta_ble`
and `mode` a double-click, the advertisement task or a long press is
always possible.  The others say `CHECK_DEADLOCK FALSE`: with their bounded
supply of commands, presses, faults or changes used up the device may rest, and
what it must show or hold then is what the properties are about.

| run | instance | distinct states | shows |
|---|---|---|---|
| `led` | 2 LEDs, one with hardware PWM; queue of 2; three publications out of all commands, with default, explicit and over-long sweeps, one over an index that is no LED, short and default BREATHE periods, and a missing LED | 219,568 | no stranded command (`NoLostWakeup`, `CommandsDrain`); timers only in live effects (`TimersOwned`); under ROTATE only the LED it points at is lit (`RotateOwnsLeds`), outside, OFF is dark (`OffIsDark`), both but for an LED that keeps the duty of a hardware-PWM ramp (`KeepsDuty`); ramp within its frames (`BreatheRamp`); live effects and ROTATE keep moving (`EffectsKeepMoving`) |
| `led_on_dark` | same | – | finding 1 |
| `button` | 2 buttons, 3 presses each, clock 0–1 with lag 0–1 | 33,389 | timers, levels and machine agree; every press counted once; the event grammar is implemented; every sequence gets its gesture |
| `ble_adv` | STA and P2P client; 3 messages, phones, link changes, refusals, failed queries or updates, credentials changed in the shell, or reboots | 1,042,316 | `ShowsLast` and, with fairness, `ShowsEventually` for the LED; `SwitchDecides`, `AdvFollows` for the advertisement |
| `sta_ntp` | 4 connections, 2 addresses; 2 disturbances of all 5 kinds; queue of 3 | 181,889 | `QueryArmed`, `OnlineAgrees`, and with fairness `TimeInTheEnd` |
| `ap` | SoftAP and group owner; 3 stations for 2 slots, event queue of 3, 4 joins, leaves or double-clicks | 546,320 | `TableFollows`, `ShowsClients`, `StaysConnectable` |
| `p2p_gc` | 2 group owners, 1 phone; 5 disturbances of all 7 kinds, queue of 2, unlimited double-clicks | 72,877 | `RetryPending`, `BelievesGroup`, `SavesJoined`, `RepairableInOrder`, `Reconnects` |
| `sta` | 2 addresses; 4 disturbances of all 5 kinds; queue of 4 | 151,046 | `RecoveryPending`, `BelievesLease`, `AppTold`, `Recovers` |
| `sta_ble` | 1 address; 3 disturbances of 4 kinds; queue of 3 | 219,080 | `CycleKeepsWork`, `RetryPending`, `NoRebootWithLease` |
| `ble_rotate` | 4 places; 3 changes or refusals; any places unloadable | 1,981 | `RoundRobin`, `LoadableCycled` |
| `memonitor` | caches of 2, samples of 0 to 3 entries, 2 cycles, one reader | 50,808 | `CopiesAreNews`, `KeepsSampling` |
| `mode` | 3 of 4 modes exposed, default not STA; 3 commands, cuts, failures or firmware changes | 652 | `SwitchBoots`, `OneMode`, `CyclesThroughAll` |

The runs list no type invariants; each module's (`TypeOK`, `TypeOKBle`,
`ApTypeOK`, `AdvTypeOK`, `RotateTypeOK`, `AppTypeOK`) holds on the same instances,
and every one but `AppTypeOK` is proved.

### Why the bounds are enough

* `led`: every property relates one LED to ROTATE or to one other LED, and the
  queue to one publisher and one drain, so two LEDs and a queue of two are the
  smallest sizes that have an LED inside and one outside of a sweep and a full
  queue; one LED has hardware PWM and may keep its duty beside the other.  Three
  commands are: an effect, ROTATE over it, and what ends it; or
  two queued and one to come.  The proofs cover all sizes.
* `button`: a double click and one more press need three presses; two buttons
  are one callback that reports both.  The clock matters to durations only.
* `sta_ntp`: a stale answer needs two connections, what follows it a third; two
  disturbances are a loss while a query is in flight and a refused recovery from
  it.  What the two bricks do alone is checked deeper in `sta`, and all of the
  composition but its liveness is proved.
* `ble_adv`: three are a phone, a change of the link while it is there, and a
  refused restart, a failed refresh or a reboot; double-clicks and provisioning are unlimited.
* `memonitor`: two cycles with a cache of two are a longer and a shorter sample;
  the proof covers all sizes.
* `ap`: the longest chain that matters is pairing, a message suppressed by
  it, its end, and a reboot; a third station meets a full table; a queue of
  three lets leave, join and leave queue up, and overflow.
* `p2p_gc`, `sta`, `sta_ble`: each is checked with every kind of fault at once;
  the shortest counterexamples listed below need one to three disturbances.
  Two owners suffice to save the wrong one, two addresses for a new lease.
* `ble_rotate`: four places give an index before, at, after and beyond a deleted
  place.
* `mode`: three modes distinguish "next" from "other"; the fourth is another
  build's.

`Budget`, `MaxCmds`, `MaxPresses`, `MaxTime`, `MaxLag`, `MaxConnects`,
`MaxEvents` and `Changes` are the only bounds that the code does not have; each
is named in its module and enters only guards.

## Fairness

Only what the kernel does by itself is fair: an expired timeout is queued, a
queued item runs, the event thread handles its queue, a request returns
(`WF` for each).  Users, stations, phones, faults and reboots have no fairness,
with these exceptions:

* `StaNtp`: `SF` on the answer – a server asked for ever answers some time,
  without which `TimeInTheEnd` would ask for the impossible – and `SF` on the work
  items that may find the workqueue taken: it is a FIFO, so an item that was
  submitted runs when those before it have ended, however many queries follow.
* `Sta`, `P2pGc`: joins and leases that nothing disturbs succeed (`WF` on
  `Joined`, `Leased`, `JoinSucceeds`); failures are the disturbances.
* `Mode`: `WF` on the long press, for `CyclesThroughAll` only: a user who keeps
  pressing reaches every mode.  Nothing else depends on it.
* `BleRotate`: the reconnect loop reschedules itself while the link is down.

`Led` has `WF` per LED timer, ROTATE, publisher and drain; `Button` per
button and timer; `Ux` per step of the listener, of init and of the workqueue.

## The proofs

Each theorem holds for all constants that satisfy the ASSUME of its module, so for every value
of the bounds too.

**LedProofs** (any number of LEDs, queue depth, PWM subset, periods, commands).
`Invariant`: `Spec => []LedInv`.  None of the checked properties is inductive.
`BreatheRamp` and the cached level need `LedOK` of each LED: a ramp has at least
two frames and a step within them, an LED with hardware PWM never has a software
frame in progress, and during a lit frame `is_on` is set.  `OffIsDark` and
`RotateOwnsLeds` need to know of each other (`PerLed`): under ROTATE no LED has a
timer and no gpio is driven but that of the LED under the index, so the machines'
states say nothing of the level until ROTATE has switched its LED off.  An LED is
also lit by the duty its PWM channel has left, which led_hw_set does not touch;
`KeepsDuty` names exactly those LEDs, in the properties and in the invariant.  The
index may be no LED: then none is driven, and what follows the store it causes is
followed only if that did no harm.  `NoLostWakeup` is
inductive with the type of the queue.  The proof has a lemma for every entry,
exit and run function of the machine and for the arithmetic of a frame, then one
for each action.
Follow `TypeCorrect`, `NoLostWakeupHolds`, `TimersOwnedHolds`,
`RotateOwnsLedsHolds`, `CacheMatchesHardwareHolds`, `OffIsDarkHolds`,
`BreatheRampHolds`.

**ButtonProofs** (any set of buttons, any number of presses, any lag of a
listener).  ButtonInv is `ButtonOK` of every button: between two handlers the two
samples agree, the machine is in a held state exactly if they say so, each timer
is pending exactly in the state that waits for it, and both one-shot flags are
down.  Inside a handler none of this holds, so `Shape` and `Flags` say what an
object looks like there, with a lemma for every entry and exit function.  From
them follow `CallbackOK`, `LongExpiryOK` and `ClickExpiryOK` for one object, and
`RunAllKeeps` carries them to the array.  Follow `TimersOwnedHolds` and
`HeldMatchesLevelHolds`.

What a subscriber hears needs more.  `TellInv` adds that the events of the
sequence in progress are those the state stands for (`Story`: CLICK_WAIT is
PRESSED RELEASED, PRESSED2 one PRESSED more), that completed gestures and open
sequence add up to the presses, and that the recorded times are in order.
`Tells` lists the machine's seven moves with what each publishes; `MoveTold`
shows that a move keeps `TellInv` and is one of `ButtonEvents`' steps.  Follow
`ButtonTypeCorrect` (no published duration is negative, whatever the listeners'
lag), `PressesAccountedHolds` and `ImplementsEventsSpec`: Button implements
`ButtonEvents` by the mapping the run `button` checks, liveness aside.

**UxProofs** (any number of messages, phones and reboots).  `ShowsLast` speaks
of a device at rest; UxInv says for each point of the listener which of `last`,
`pairing` and `pending` may still lag behind the messages delivered
(`Follows`, `PendingOK`), what SYS_INIT has still to replay (`Starting`), and
which effect the LED will have been asked for when the queued work has run
(`Settling`).  `Holding` ties that to what it shows: an LED whose machine is in ON
is lit, runs ROTATE, or is dark because it ignored an ON (`OnIgnored`), the one
exception in `ShowsLast` and `ShowsClients`.  A state that was published but not
delivered (`Refused`) counts as not told.  Follow
`UxTypeCorrect` and `ShowsLastHolds`.  Every step of Ap and BleAdv is one of these
steps for the UX brick, or none, so UxInv is part of their invariants.

*Ap* (any number of stations, slots and places in the event queue).  The table lags
behind the access point by the events that still wait.  `After(Held, events, k)`
is what the table will hold after k of them; `Stations` says that for k = the
length of the queue this is the stations associated, that it never exceeds the
number of slots on the way, and that no queued join is of a station already
there.  The middle part is what makes the invariant inductive: without it a join
at the head of the queue might find the table full, and the station would be lost
for good.  `AfterPosted` and `AfterTaken` are its two lemmas, one for an event
added and one for an event handled; `RecordedIs` and `RemovedIs` say what the
handler's two helpers do to a table in which each station is held once.  All of it
holds as long as the queue has lost no event (`dropped`).  `TellsClients` relates
what is published of the clients to the table, `WpsLoop` keeps the WPS item or
its handler alive without them.  Follow `ApTypeCorrect`, `TableFollowsHolds`,
`ShowsClientsHolds`, `StaysConnectableHolds`.

*BleAdv* (any number of phones, link changes and refusals).  `Switched`
strengthens `SwitchDecides` by what could still start the advertising: with the
switch off, a phone, a pending restart or a queue between stop and start goes back
to the moment of the switch.  `Refreshed` follows a change through the three places
it can be: the flags, the sample a running refresh was given, the advertisement;
each flag is the device's, a refresh is to come, or it is among those that have none coming
(`missed`): a message met a cancelled work, the query or the update failed, or the
shell changed the credentials.  Follow `AdvTypeCorrect`,
`AdvShowsLast`, `SwitchDecidesHolds` and, for an application that publishes on
`WIFI_CHAN` (`AppTells`, which the run assumes as well and the template does not
meet, see below), `AdvFollowsHolds`.

*BleRotate* (a store of any size).  `RoundRobin` bounds what a network has
waited; RotateInv adds how many places lie before it: the sum of both is less
than the number of networks, because a request that is sent moves the turn by one
place, and passes a loadable one only by asking for it.  Follow
`RotateTypeCorrect` and `RoundRobinHolds`.

**ModeProofs** (any build: any set of exposed modes, any default among them
or STA, which Kconfig falls back to without asking whether it is exposed, with and
without AP mode).  `SwitchBoots` spans a reboot, so ModeInv carries two
facts across: what is on its way to NVS will not be corrected by
`mode_selector_init` (`Sound`, which needs that every mode's successor in
`mode_cycle` exists and is exposed), and NVS holds one of the switches saved
since the last boot, if any (`Switched`).  Follow `ModeTypeCorrect`,
`SwitchBootsHolds`, `OneModeHolds`.

**StaProofs** (any number of addresses, any set of faults, any number of
disturbances, any queue of at least two events).  The handlers work on events
the link has since outrun, so none of the properties is inductive: that a device
with a lease believes so depends on what still waits in the queue.  StaInv says
it in four relations on a queue – `Has`, `Followed`, `Preceded`, `Separated` –
with a lemma on each for an event added and for one taken:

* `LinkOrder`, `LeaseOrder`: an event that the link or the lease has outrun is
  followed by the one that says so, and a lease and the end of a later join
  attempt have the loss of the first between them;
* `BeliefOrder`: `connected` and `bound_ip` are the interface's state, or an
  event that corrects them still waits;
* `ToldEnds`, `BootIsFirst`: a lost connection that the application has not
  heard of has the watchdog, its request or a leave to end it; until the mode has
  started nothing but the first scan happens;
* `Recovering`: in every state of the link, the timer, request or event that
  leads the device back.

Follow `StaTypeCorrect`, `BelievesLeaseHolds`, `AppToldHolds`, and, for builds
without BLE provisioning, whose own loop reconnects (StaBle), `RecoveryPendingHolds`.

*StaBle*.  A step of StaBle is seldom one of Sta: the two bricks handle an event in
one action, and requests of the BLE brick may come before the mode has started.
BleInv keeps `LinkOrder` of the above and adds that a connected device hears of a
drop before it can hear of a new association (`ConnectedOrder`, which gives
`NoRebootWithLeaseHolds`), where a marked reconnect cycle is (`CycleOrder`, which
gives `CycleKeepsWorkHolds`), and, where the option that hands the reconnect over
is set (`BleProv`), what leads on from a link that is down at each point of the
reconnect handler (`RetryOrder`, which gives `BleRetryPendingHolds`).

**P2pGcProofs** (any group owners and phones, any set of faults, any number of
disturbances, any queue length).  `LastTells`, that the last event to be handled
tells whether the device is in a group, holds whatever goes wrong and gives
`BelievesGroupHolds`; so does `StepAhead`, which gives `RetryPendingHolds`.
`InOrder` and `Learning` hold until a join ends other than its request expects
(`muddled`): they say that at most one join is requested, under way or reported,
and that what the engine is about to learn is its owner.  That the queue
holds at most one join (`OneConnect`) is part of it: with two, the first would leave
the engine connected while the second still waits, which `InOrder` denies.
Follow `P2pTypeCorrect`, `RepairableInOrderHolds` and the action property
`SavesJoinedHolds`.

**StaNtpProofs** (as StaProofs, and any number of connections).  Of Ntp alone:
`QueryArmed` is inductive with `TypeOK`, whose conjuncts `canceling => querying`
and `syncOf <= epoch` are what its two hard cases use: a refused submit happens
only while a query runs, and an answer never belongs to a later connection.
Follows `QueryArmedHolds`.  Of the composition: every step of
the composition is a step or a stutter of `Ntp` (`ImplementsNtp`) and one of
`Sta` (`ImplementsSta`), so whatever is proved of either holds in it:
`AppQueryArmed` is `QueryArmedHolds` in the composition.  `OnlineAgreesHolds`
needs both: `HookInv` says that the application is ahead of the NTP brick by
exactly the hook the event thread has yet to call, and StaInv that a
connection is told before it is used.

**MemonitorProofs** (any number of consumers, any cache size, any number of
cycles).  `CopiesAreNews` speaks of copies made long ago.  `Stored(k)` is the
cycle whose sample a cache holds, `CachesHold` says that its valid entries are
that sample's and `NewsStored` that nothing newer has been announced; MemInv
adds that each copy is a prefix of one sample.  Follow `MemTypeCorrect` and
`CopiesAreNewsHolds`.


Every invariant and every action property that a passing run checks is so
proved.  Only model-checked are the liveness properties and what rests on
fairness, out of the prover's reach as is ENABLED: `CommandsDrain`,
`EffectsKeepMoving`, `Classified` of `ButtonEvents` (the liveness half of
`ImplementsEvents`), `Recovers`, `Reconnects`, `LoadableCycled`,
`CyclesThroughAll`, `ShowsEventually`, `TimeInTheEnd`, `KeepsSampling`.

## Where the code disagrees with its documents

One of these disagreements is a run of its own (`findings` in `PROJECT.json`):
`led_on_dark`, `led.c:264`: ON to an LED that was ON before ROTATE is ignored and
leaves it dark, though `led.h:57` says "Turn LED on."  The UX brick sends exactly
ON, ROTATE, ON when Wi-Fi reconnects.

The following further disagreements are stated as properties in the modules,
each with a configuration that reproduces the counterexample (a file
`<module>_Disagreements.cfg` lists several; leave one uncommented).  A passing
property that would otherwise meet one names it in its formula.

| configuration (module) | property | where | what |
|---|---|---|---|
| `MCLed_Disagreements.cfg` (MCLed) | `EffectsResume` | `led.c:512` | ROTATE cancels the effect timer of every LED and nothing re-arms it: when a command to another LED ends ROTATE, a BLINK or BREATHE LED keeps its state with no timer. bricks/led/docs/led-spec.md:215: 'Per-LED SMFs retain their state while ROTATE runs — they resume when ROTATE ends and the next command arrives.' |
| `MCLed_Disagreements.cfg` (MCLed) | `StaticCommandPublishes` | `led.c:232` | s_off_run and s_on_run fall into default for OFF in OFF and ON in ON and publish nothing. bricks/led/src/led.h:37: 'Static commands (ON / OFF / TOGGLE): one publish per command.' |
| `MCLed_Disagreements.cfg` (MCLed) | `BreatheStartsDark` | `led.c:453` | A BREATHE command while BREATHE runs resets the step and clears breathe_in_on_phase but leaves the gpio and is_on as the current frame had them, so a lit frame lasts until the ramp's first frame with a non-zero on time. bricks/led/docs/led-spec.md:124 describes the start of BREATHE as 'false (LED off; ramps up from 0%)'. |
| `MCLed_Disagreements.cfg` (MCLed) | `OffCommandDarkens` | `led_hw_zephyr.c:74` | led_hw_set drives only the gpio-leds device, and no exit path sets the duty of the pwm-leds channel to 0: after OFF ends a hardware-PWM BREATHE the channel keeps its last duty while is_on is false. bricks/led/src/led.h:58 says of LED_COMMAND_OFF: 'Turn LED off.', and bricks/led/src/led_hw.h:33 of led_hw_set: 'Turn a LED on or off.' |
| `MCButton_SingleClickDuration.cfg` (Button) | `SingleClickDuration` | `button.c:186` | pressed_run publishes RELEASED, running its listeners, before pressed_exit records release_timestamp_ms, from which SINGLE_CLICK computes its duration. bricks/button/docs/button-spec.md:105 says of it: 'Hold time of the press (same as the preceding BUTTON_RELEASED)'. |
| `Ntp_Disagreements.cfg` (Ntp) | `FreshSync` | `ntp.c:69` | A disconnect while sntp_simple is in flight clears ntp_synced, but the handler sets it again when the answer arrives, so the next connect takes the device for synced. bricks/ntp/src/ntp.c:15: 'Resets on disconnect so a fresh sync is performed after each reconnect.' |
| `Ntp_Disagreements.cfg` (Ntp) | `SyncRefreshed` | `ntp.c:46` | The resync that such an answer armed returns early if it expires while offline; the next connect finds ntp_synced true and schedules nothing, so the connected device never queries again. bricks/ntp/docs/ntp-spec.md:39: 'A successful sync is periodically refreshed to compensate for crystal oscillator drift.' |
| `Sta_Disagreements.cfg` (Sta) | `NoHalfConnected` | `net_event_mgmt.c:352` | When NET_REQUEST_WIFI_DISCONNECT fails, l3_watchdog_handler only logs it and re-arms nothing, so the device stays associated without an address and no timer or request is pending. bricks/network/src/net_event_mgmt.c:273-274: 'escaping the half-connected state without a separate reschedule here.' |
| `Sta_Disagreements.cfg` (Sta) | `WatchdogSparesLease` | `net_event_mgmt.c:350` | l3_watchdog_handler tests network_connected and then blocks in NET_REQUEST_WIFI_DISCONNECT; a DHCP_BOUND handled in between cancels the watchdog, which no longer stops the running handler, and the fresh lease is torn down. bricks/network/src/net_event_mgmt.c:269-270: 'The watchdog is armed on association and on lease loss, cancelled on DHCP_BOUND and on DISCONNECT_RESULT.' |
| `StaBle_Disagreements.cfg` (StaBle) | `BeaconLossRetried` | `wifi_ble_prov.c:199` | The gate tests wifi_prov_state_get(), which is true whenever the device is provisioned (the early return at :184 already requires it), so every status 0 disconnect is deferred and no reconnect is scheduled. bricks/wifi_ble_prov/src/wifi_ble_prov.c:195-197: 'status==0 with provisioner NOT active means WPA supplicant self-disconnected after beacon loss (AP went away).  Schedule reconnect in that case' |
| `StaBle_Disagreements.cfg` (StaBle) | `BootRetried` | `net_event_mgmt.c:1191` | With CONFIG_ZEGO_WIFI_BLE_PROV=y the refusal is logged and nothing is scheduled; wifi_ble_prov_init marks the boot request as done, so its advertisement task asks for nothing either. bricks/network/src/net_event_mgmt.c:1191: 'Auto-connect (CONNECT_STORED) failed (%d), retrying' |
| `StaBle_Disagreements.cfg` (StaBle) | `StaleStatusRetried` | `wifi_ble_prov.c:391` | wifi_connect_work_handler decides on a status it asked for before blocking: a disconnect handled meanwhile finds the reconnect already marked as pending and schedules nothing, then the handler clears the mark and returns without rescheduling. bricks/wifi_ble_prov/docs/wifi-ble-prov-spec.md:166: 'If still disconnected: reschedule after `CONFIG_ZEGO_WIFI_BLE_PROV_RECONNECT_RETRY_SEC`' |
| `BleRotate_Cycled.cfg` (BleRotate) | `Cycled` | `wifi_ble_prov.c:330` | When the turn reaches a last credential that wifi_credentials_get_by_ssid_personal_struct cannot load, nothing is sent, and only a sent request advances cred_rotate_idx: every later attempt starts at that credential again and the other networks are never asked for. bricks/wifi_ble_prov/src/wifi_ble_prov.c:73-74: 'advances after each failed attempt so that all stored networks are cycled through during the reconnect loop.' |
| `P2pGc_Disagreements.cfg` (P2pGc) | `Repairable` | `wifi_utils.c:1077` | wifi_p2p_gc_on_connect_result(true) cancels the retry work and clears every flag but p2p_find_running. A join that succeeds while a discovery is running (a manual 'wifi p2p connect') leaves it set on a connected client, whose double-clicks are then ignored at :1046. bricks/network/src/wifi_utils.c:1044-1045: 'A re-pair while *connected* is still allowed (pairing_active is false then) and overwrites the saved GO.' |
| `P2pGc_Disagreements.cfg` (P2pGc) | `PairingEnds` | `wifi_utils.c:860` | p2p_gc_do_connect discards the result of NET_REQUEST_WIFI_DISCONNECT and returns without rescheduling: when the request is refused no DISCONNECT_RESULT follows, the client stays connected with p2p_pairing_active set, and every later double-click is ignored. bricks/network/src/wifi_utils.c:1044-1045: 'A re-pair while *connected* is still allowed (pairing_active is false then)' |
| `P2pGc_Disagreements.cfg` (P2pGc) | `DoubleClickHeard` | `wifi_utils.c:1046` | p2p_gc_pending is also set by a reconnect to the saved GO, for up to 90 s of every attempt, and a double-click is ignored then although no pairing is in progress. bricks/network/docs/network-spec.md:271-272: 'A double-click still works at any time to (re-)start pairing, e.g. to target a different GO.' |
| `P2pGc_Disagreements.cfg` (P2pGc) | `AutoPairs` | `wifi_utils.c:1157` | Without a saved GO wifi_run_p2p_gc_mode schedules nothing and idles until a double-click. bricks/network/docs/network-spec.md:270: 'if empty (never paired): automatically start the pairing sequence below - no button press required' |
| `P2pGc_Disagreements.cfg` (P2pGc) | `ManualNotSaved` | `wifi_utils.c:1085` | The engine saves pending_go_mac at any successful result while a pairing has a candidate, without knowing which peer was joined: a manual join that ends after the pairing selected another peer saves that other peer's MAC. bricks/network/src/wifi_utils.c:1082-1083: "Manual 'wifi p2p connect' does not save here" |
| `Ux_AckShown.cfg` (Ux) | `AckShown` | `ux.c:311` | LED_CMD_CHAN only queues the command for led_cmd_work on the system workqueue (bricks/led/src/led.c:606-616), and the long press runs on that queue: it sleeps and reboots before the work item can run, so the LED is never turned off. bricks/ux/src/ux.c:305-306: 'briefly turn off the first rotate LED (stops ROTATE and gives the user a visible blink before reboot)' |
| `Ux_CueShown.cfg` (Ux) | `CueShown` | `net_event_mgmt.c:608` | The hook publishes with K_NO_WAIT and drops the result. When the event thread is preempted inside the UX listener the channel is locked, the publish of PAIRING fails, and the LED does not breathe during this pairing. bricks/network/src/wifi_utils.c:1058: 'Start the LED-breathe cue immediately on the double-click.' |
| `Ap_WindowResolves.cfg` (Ap) | `WindowResolves` | `wifi_utils.c:576` | The window's end publishes CONNECTING, as network_connected is never set in P2P_GO mode. Without a client the UX listener suppresses it (pairing_led_active, bricks/ux/src/ux.c:372) and the LED breathes on for ever; with one, it turns from ON to ROTATE. bricks/network/src/wifi_utils.c:571-572: 'stop the BREATHE indication. zego_on_net_event_p2p_pairing resolves the LED back to CONNECTED (if a client joined) or ROTATE otherwise.' |
| `Mode_RunsExposed.cfg` (Mode) | `RunsExposed` | `wifi_mode_selector.c:151` | The command and the check at boot test CONFIG_NRF70_AP_MODE, which P2P builds set, instead of CONFIG_ZEGO_WIFI_MODE_SOFTAP_ENABLED: 'zego_wifi_mode softap' and a stored SoftAP are accepted by a build that does not expose it. bricks/wifi/Kconfig:105-106: 'When y, the 'zego_wifi_mode softap' shell command and its help text are compiled in, and the boot banner lists softap as a switchable mode.' |
| `Mode_PressesExposed.cfg` (Mode) | `PressesExposed` | `ux.c:294` | STA is the target of every mode that is not in mode_cycle, STA itself included in a build with CONFIG_ZEGO_WIFI_MODE_STA_ENABLED=n; mode_selector_init accepts a stored STA in such a build and falls back to it, and no long press leaves it. bricks/ux/src/ux.c:62-65: 'Only cycle through modes this build actually exposes' |
| `BleAdv_Disagreements.cfg` (BleAdv) | `ToggleToggles` | `ux.c:282` | The switch is a flag of its own and a phone's disconnect starts advertising without looking at it (wifi_ble_prov.c:484). Switched off while the phone is connected, the device advertises again when it leaves, and the next double-click, meant to switch that off, asks to start what is already on. bricks/ux/src/ux.h:80: 'otherwise toggles BLE-prov advertising' |
| `BleAdv_Disagreements.cfg` (BleAdv) | `SlowAfterProvisioning` | `wifi_ble_prov.c:571` | update_adv_param_task chooses the interval by the provisioning bit, which only update_adv_data_task refreshes, one second after it: the phone that provisioned the device leaves, and advertising restarts at the interval of the state before. bricks/wifi_ble_prov/docs/wifi-ble-prov-spec.md:149: 'Slow advertising ... used after provisioning' |
| `BleAdv_Template.cfg` (BleAdv) | `AdvFollows` | `net_event_mgmt_app.c:84` | The template, which offers BLE provisioning, publishes nothing on WIFI_CHAN, so the advertised link bit is refreshed only after a phone has left (CONFIG_WIFI_PROV_ADV_DATA_UPDATE=n). bricks/wifi_ble_prov/docs/wifi-ble-prov-spec.md:135-138: '`net_event_app.c` must publish to `WIFI_CHAN` ... Without this publish, the BLE advertisement status flags will not update.' |
| `Memonitor_Disagreements.cfg` (Memonitor) | `EveryCycleAnnounced` | `memonitor.c:282` | The announcement is published with K_NO_WAIT: while a reader holds MEMONITOR_CHAN it fails, is logged and dropped, and subscribers hear of no new data for another interval. bricks/memonitor/src/memonitor.h:53: 'Published on MEMONITOR_CHAN after each sampling cycle.' |

## What is not modelled

* Bonding callbacks of BLE (they only log) and GATT traffic of the provisioning
  service: a phone is what stores or removes credentials.
* The application template beyond its STA hooks: its other hooks publish the same
  states as the defaults, `main` prints.
* Addresses, regulatory domain, DHCP server setup, status printing, mDNS, banner
  and STA-only build: they keep no state that another step reads.
* `button_hw_*`: not called by `button.c`.  `led_hw_dk.c`: a one-line forward.
* Samples, Kconfig defaults, CI, patches: not program logic; Kconfig values are
  the constants of the modules.
* Stack sizes, memory, radio, and the encoding of messages and settings.

The file `PROJECT.json` lists each hazard of the code at its line with the
properties that cover it, or the reason why none does.

## Plan

Done, in this order: Led (core, with its proofs), Button with its abstract
specification, Ntp, WifiLink and Sta, StaBle, P2pGc, BleRotate, Ux, Ap, Mode,
BleAdv, StaNtp, Memonitor; proofs of Led, Button with the step simulation of
`ButtonEvents`, Ux, Mode, Ntp, Memonitor, Sta, StaNtp; then of P2pGc, StaBle, Ap,
BleAdv and BleRotate, with which every safety property of the runs is proved.

Next:

1. An abstract connection manager ("down, recovering, connected") that Sta, StaBle
   and P2pGc implement, with the step simulations proved from StaInv, BleInv and
   P2pInv.
2. `ShowsLast` for P2pGc's messages: P2pGc composed with Ux, as Ap is.
3. Larger instances of the compositions: StaNtp with the five kinds of
   disturbance three times over, BleAdv with a fourth message.
