------------------------------ MODULE UxProofs ------------------------------
(***************************************************************************)
(* Proofs about Ux, Ap and BleAdv: for every set of modes, any number of   *)
(* messages, stations, slots of their table and places in the queue of     *)
(* events; and about BleRotate, for a store of any size.                   *)
(*                                                                         *)
(* ShowsLast speaks of the moment when nothing is under way.  The          *)
(* inductive invariant UxInv says at every moment what the listener, the   *)
(* work item and the queued command still have to make good: which of      *)
(* last, pairing and pending may lag behind the messages delivered, and    *)
(* which effect the LED will have been given once the work that is queued  *)
(* has run; Holding ties what it shows to that effect, but for the ON that *)
(* the LED brick ignores.  Every step of Ap and of BleAdv is one of these  *)
(* steps for the UX brick, or none, so UxInv is part of their invariants   *)
(* as well.                                                                *)
(***************************************************************************)
EXTENDS Ap, BleAdv, BleRotate, FiniteSetTheorems, TLAPS

\* The effect last given to the LED: the queued command, or the one processed,
\* which the LED shows unless it was an ON that the LED brick ignored.
Shown == IF cmd # "none" THEN cmd ELSE IF OnIgnored THEN "on" ELSE lamp

\* What the work item would make it show.
Current == IF ble THEN "breathe" ELSE Effect(pending)

\* Phones connect and nothing pairs in STA mode, and nowhere else.
OneSource ==
  /\ mode = "sta" => ~pairing /\ ~episode /\ last # "pairing"
  /\ mode # "sta" => ~ble

\* last is the message delivered last, and pairing follows the pairing under
\* way, except while the listener has yet to decide.
Follows ==
  /\ told = "none" => last = "connecting" /\ at = "free" /\ ~episode
  /\ told # "none" => last = told
  /\ at = "decide" => (episode <=> PairingAfter(last))
  /\ at # "decide" => (episode <=> pairing)

\* pending is what ought to be shown without a phone, except before the
\* listener has stored it.
PendingOK ==
  /\ at \in {"free", "submit"} /\ ~ble =>
       Effect(pending) = IF episode THEN "breathe" ELSE Effect(last)
  /\ at \in {"decide", "free", "submit"} /\ pairing => pending = "pairing"
  /\ at = "pend" /\ pairing => last = "pairing"

\* During SYS_INIT: at most one message and no phone yet, ROTATE is shown as
\* long as that message has not asked for something else.
Starting ==
  init # "done" =>
    /\ ~ble /\ ~busy
    /\ at = "decide" => ~pairing
    /\ at \in {"free", "submit"} => last = pending
    /\ told = "none" \/ last = "connecting" => pending = "connecting"
    /\ pairing => last = "pairing"
    /\ init = "rotate" => cmd = "none"
    /\ init # "rotate" /\ last = "connecting" => Shown = "rotate"
    /\ ready <=> init \notin {"rotate", "ready"}

\* With no work queued the LED was given, or is about to be given, what it ought
\* to show.
Settling ==
  init = "done" /\ ~busy =>
    /\ ready
    /\ ~work /\ at # "submit" => Shown = Current

\* An LED whose machine is in ON is lit, swept or was darkened by a sweep.
Holding == solid => lamp \in {"on", "rotate", "dark"}

UxInv == TypeOK /\ OneSource /\ Follows /\ PendingOK /\ Starting /\ Settling /\ Holding

----------------------------------------------------------------------------
\* What an effect looks like for the listener's purposes.
LEMMA EffectType ==
  ASSUME NEW s \in States
  PROVE  /\ Effect(s) \in Lamps
         /\ Effect(s) = "breathe" <=> s = "pairing"
         /\ s = "connecting" => Effect(s) = "rotate"
  BY SMT DEF States, Lamps, Effect

LEMMA InitHolds == Init => UxInv
<1>. SUFFICES ASSUME Init PROVE UxInv
  OBVIOUS
<1>1. budget \in 0 .. Budget
  BY UxAssumption, SMT DEF Init, UxAssumption
<1>2. TypeOK
  BY <1>1, Zenon DEF Init, TypeOK, States, Lamps
<1>3. OneSource /\ Follows /\ PendingOK
  BY SMT DEF Init, OneSource, Follows, PendingOK, Effect, PairingAfter
<1>4. Starting /\ Settling /\ Holding
  BY SMT DEF Init, Starting, Settling, Holding, Shown, OnIgnored
<1>. QED
  BY <1>2, <1>3, <1>4 DEF UxInv

LEMMA NetPublishKeeps ==
  ASSUME UxInv, NEW s \in States, NetPublish(s), budget' \in 0 .. Budget,
         mode = "sta" => s # "pairing"
  PROVE  UxInv'
<1>1. /\ Effect(last) \in Lamps /\ (Effect(last) = "breathe" <=> last = "pairing")
      /\ last = "connecting" => Effect(last) = "rotate"
      /\ Effect(pending) \in Lamps /\ (Effect(pending) = "breathe" <=> pending = "pairing")
      /\ pending = "connecting" => Effect(pending) = "rotate"
      /\ Effect(s) \in Lamps /\ (Effect(s) = "breathe" <=> s = "pairing")
      /\ s = "connecting" => Effect(s) = "rotate"
  BY EffectType DEF UxInv, TypeOK
<1>. USE DEF NetPublish, Started, Told
<1>2. TypeOK'
  BY <1>1, SMT DEF UxInv, TypeOK, States, Lamps, PairingAfter
<1>3. OneSource'
  BY SMT DEF UxInv, TypeOK, OneSource, PairingAfter
<1>4. Follows'
  <2>1. episode' <=> PairingAfter(s)
    BY Zenon DEF UxInv, TypeOK, Follows, PairingAfter
  <2>2. last' = s /\ told' = s /\ at' = "decide" /\ pairing' = pairing
    OBVIOUS
  <2>. HIDE DEF NetPublish, Told
  <2>. QED
    BY <2>1, <2>2, SMT DEF UxInv, TypeOK, Follows, PairingAfter, States
<1>5. PendingOK'
  BY <1>1, SMT DEF UxInv, TypeOK, OneSource, Follows, PendingOK, Starting, PairingAfter
<1>6. Starting'
  BY <1>1, SMT DEF UxInv, TypeOK, OneSource, Follows, PendingOK, Starting, Shown, OnIgnored, PairingAfter
<1>7. Settling'
  BY <1>1, SMT DEF UxInv, TypeOK, OneSource, Follows, PendingOK, Starting, Settling, Shown, OnIgnored, Current, PairingAfter
<1>8. Holding'
  BY SMT DEF UxInv, Holding
<1>. QED
  BY <1>2, <1>3, <1>4, <1>5, <1>6, <1>7, <1>8 DEF UxInv

LEMMA NetDecideKeeps ==
  ASSUME UxInv, NetDecide
  PROVE  UxInv'
<1>1. /\ Effect(last) \in Lamps /\ (Effect(last) = "breathe" <=> last = "pairing")
      /\ last = "connecting" => Effect(last) = "rotate"
      /\ Effect(pending) \in Lamps /\ (Effect(pending) = "breathe" <=> pending = "pairing")
      /\ pending = "connecting" => Effect(pending) = "rotate"
  BY EffectType DEF UxInv, TypeOK
<1>. USE DEF NetDecide, KeepsPairing
<1>2. TypeOK'
  <2>1. pairing' \in BOOLEAN
    BY Zenon DEF UxInv, TypeOK, PairingAfter
  <2>. QED
    BY <2>1, SMT DEF UxInv, TypeOK
<1>3. OneSource'
  BY SMT DEF UxInv, TypeOK, OneSource, PairingAfter
<1>4. Follows'
  <2>1. ~ble => (pairing' <=> PairingAfter(last))
    BY Zenon
  <2>. QED
    BY <2>1, SMT DEF UxInv, TypeOK, OneSource, Follows, PairingAfter
<1>5. PendingOK'
  BY <1>1, SMT DEF UxInv, TypeOK, OneSource, Follows, PendingOK, Starting, PairingAfter
<1>6. Starting'
  BY <1>1, SMT DEF UxInv, TypeOK, OneSource, Follows, PendingOK, Starting, Shown, OnIgnored, PairingAfter
<1>7. Settling'
  BY <1>1, SMT DEF UxInv, TypeOK, OneSource, Follows, PendingOK, Starting, Settling, Shown, OnIgnored, Current, PairingAfter
<1>8. Holding'
  BY SMT DEF UxInv, Holding
<1>. QED
  BY <1>2, <1>3, <1>4, <1>5, <1>6, <1>7, <1>8 DEF UxInv

LEMMA NetPendKeeps ==
  ASSUME UxInv, NetPend
  PROVE  UxInv'
<1>1. /\ Effect(last) \in Lamps /\ (Effect(last) = "breathe" <=> last = "pairing")
      /\ last = "connecting" => Effect(last) = "rotate"
      /\ Effect(pending) \in Lamps /\ (Effect(pending) = "breathe" <=> pending = "pairing")
      /\ pending = "connecting" => Effect(pending) = "rotate"
  BY EffectType DEF UxInv, TypeOK
<1>. USE DEF NetPend
<1>2. TypeOK'
  BY <1>1, SMT DEF UxInv, TypeOK, States, Lamps, PairingAfter
<1>3. OneSource'
  BY SMT DEF UxInv, TypeOK, OneSource, PairingAfter
<1>4. Follows'
  BY SMT DEF UxInv, TypeOK, Follows, PairingAfter
<1>5. PendingOK'
  BY <1>1, SMT DEF UxInv, TypeOK, OneSource, Follows, PendingOK, Starting, PairingAfter
<1>6. Starting'
  BY <1>1, SMT DEF UxInv, TypeOK, OneSource, Follows, PendingOK, Starting, Shown, OnIgnored, PairingAfter
<1>7. Settling'
  BY <1>1, SMT DEF UxInv, TypeOK, OneSource, Follows, PendingOK, Starting, Settling, Shown, OnIgnored, Current, PairingAfter
<1>8. Holding'
  BY SMT DEF UxInv, Holding
<1>. QED
  BY <1>2, <1>3, <1>4, <1>5, <1>6, <1>7, <1>8 DEF UxInv

LEMMA NetSubmitKeeps ==
  ASSUME UxInv, NetSubmit
  PROVE  UxInv'
<1>1. /\ Effect(last) \in Lamps /\ (Effect(last) = "breathe" <=> last = "pairing")
      /\ last = "connecting" => Effect(last) = "rotate"
      /\ Effect(pending) \in Lamps /\ (Effect(pending) = "breathe" <=> pending = "pairing")
      /\ pending = "connecting" => Effect(pending) = "rotate"
  BY EffectType DEF UxInv, TypeOK
<1>. USE DEF NetSubmit
<1>2. TypeOK'
  BY <1>1, SMT DEF UxInv, TypeOK, States, Lamps, PairingAfter
<1>3. OneSource'
  BY SMT DEF UxInv, TypeOK, OneSource, PairingAfter
<1>4. Follows'
  BY SMT DEF UxInv, TypeOK, Follows, PairingAfter
<1>5. PendingOK'
  BY <1>1, SMT DEF UxInv, TypeOK, OneSource, Follows, PendingOK, Starting, PairingAfter
<1>6. Starting'
  BY <1>1, SMT DEF UxInv, TypeOK, OneSource, Follows, PendingOK, Starting, Shown, OnIgnored, PairingAfter
<1>7. Settling'
  BY <1>1, SMT DEF UxInv, TypeOK, OneSource, Follows, PendingOK, Starting, Settling, Shown, OnIgnored, Current, PairingAfter
<1>8. Holding'
  BY SMT DEF UxInv, Holding
<1>. QED
  BY <1>2, <1>3, <1>4, <1>5, <1>6, <1>7, <1>8 DEF UxInv

LEMMA DeliveredKeeps ==
  ASSUME UxInv, NEW s \in States, WorkPublish(s), Delivered(s), budget' \in 0 .. Budget,
         ~busy, mode = "sta" => s # "pairing"
  PROVE  UxInv'
<1>1. /\ Effect(last) \in Lamps /\ (Effect(last) = "breathe" <=> last = "pairing")
      /\ last = "connecting" => Effect(last) = "rotate"
      /\ Effect(pending) \in Lamps /\ (Effect(pending) = "breathe" <=> pending = "pairing")
      /\ pending = "connecting" => Effect(pending) = "rotate"
      /\ Effect(s) \in Lamps /\ (Effect(s) = "breathe" <=> s = "pairing")
      /\ s = "connecting" => Effect(s) = "rotate"
  BY EffectType DEF UxInv, TypeOK
<1>. USE DEF WorkPublish, Delivered, Started, Told, KeepsPairing
<1>2. TypeOK'
  <2>1. pairing' \in BOOLEAN /\ episode' \in BOOLEAN
    BY Zenon DEF UxInv, TypeOK, PairingAfter
  <2>2. last' \in States /\ told' \in States /\ pending' \in States /\ work' \in BOOLEAN
    BY Zenon DEF UxInv, TypeOK
  <2>3. lost' \in BOOLEAN
    BY Zenon DEF UxInv, TypeOK
  <2>4. UNCHANGED <<mode, ble, ready, init, at, cmd, lamp, solid, busy>>
    OBVIOUS
  <2>. HIDE DEF WorkPublish, Delivered, Told
  <2>. QED
    BY <2>1, <2>2, <2>3, <2>4, Zenon DEF UxInv, TypeOK
<1>3. OneSource'
  BY SMT DEF UxInv, TypeOK, OneSource, PairingAfter
<1>4. Follows'
  <2>1. episode' <=> PairingAfter(s)
    BY Zenon DEF UxInv, TypeOK, Follows, PairingAfter
  <2>2. ble \/ KeepsPairing(s) => (pairing' <=> pairing)
    BY Zenon
  <2>3. ~(ble \/ KeepsPairing(s)) => (pairing' <=> PairingAfter(s))
    BY Zenon
  <2>4. last' = s /\ told' = s /\ at' = at /\ at = "free" /\ s # "none" /\ UNCHANGED <<ble, mode>>
    BY SMT DEF States
  <2>5. KeepsPairing(s) <=> pairing /\ s \notin {"pairing", "connected"}
    OBVIOUS
  <2>. HIDE DEF WorkPublish, Delivered, Told, KeepsPairing
  <2>. QED
    BY <2>1, <2>2, <2>3, <2>4, <2>5, SMT DEF UxInv, TypeOK, OneSource, Follows, PairingAfter
<1>5. PendingOK'
  BY <1>1, SMT DEF UxInv, TypeOK, OneSource, Follows, PendingOK, Starting, PairingAfter
<1>6. Starting'
  <2>1. CASE init = "done"
    BY <2>1, Zenon DEF Starting
  <2>2. CASE init # "done"
    <3>1. ~ble /\ ~KeepsPairing(s) /\ told = "none"
      BY <2>2, SMT DEF UxInv, Starting, Follows, OneSource, TypeOK
    <3>2. (pairing' <=> PairingAfter(s)) /\ pending' = s /\ last' = s
      BY <3>1, Zenon
    <3>3. /\ s # "none" /\ told' = s /\ at = "free"
          /\ UNCHANGED <<ble, ready, init, at, cmd, lamp, solid, busy>>
      BY SMT DEF States
    <3>. HIDE DEF WorkPublish, Delivered, Told, KeepsPairing
    <3>. QED
      BY <1>1, <2>2, <3>1, <3>2, <3>3, SMT DEF UxInv, TypeOK, Follows, Starting, Shown, OnIgnored, PairingAfter
  <2>. QED
    BY <2>1, <2>2
<1>7. Settling'
  BY <1>1, SMT DEF UxInv, TypeOK, OneSource, Follows, PendingOK, Starting, Settling, Shown, OnIgnored, Current, PairingAfter
<1>8. Holding'
  BY SMT DEF UxInv, Holding
<1>. QED
  BY <1>2, <1>3, <1>4, <1>5, <1>6, <1>7, <1>8 DEF UxInv

LEMMA RefusedKeeps ==
  ASSUME UxInv, NEW s \in States, WorkPublish(s), Refused(s), budget' \in 0 .. Budget
  PROVE  UxInv'
<1>1. /\ Effect(last) \in Lamps /\ (Effect(last) = "breathe" <=> last = "pairing")
      /\ last = "connecting" => Effect(last) = "rotate"
      /\ Effect(pending) \in Lamps /\ (Effect(pending) = "breathe" <=> pending = "pairing")
      /\ pending = "connecting" => Effect(pending) = "rotate"
  BY EffectType DEF UxInv, TypeOK
<1>. USE DEF WorkPublish, Refused, Started
<1>2. TypeOK'
  BY <1>1, SMT DEF UxInv, TypeOK, States, Lamps, PairingAfter
<1>3. OneSource'
  BY SMT DEF UxInv, TypeOK, OneSource, PairingAfter
<1>4. Follows'
  BY SMT DEF UxInv, TypeOK, Follows, PairingAfter
<1>5. PendingOK'
  BY <1>1, SMT DEF UxInv, TypeOK, OneSource, Follows, PendingOK, Starting, PairingAfter
<1>6. Starting'
  BY <1>1, SMT DEF UxInv, TypeOK, OneSource, Follows, PendingOK, Starting, Shown, OnIgnored, PairingAfter
<1>7. Settling'
  BY <1>1, SMT DEF UxInv, TypeOK, OneSource, Follows, PendingOK, Starting, Settling, Shown, OnIgnored, Current, PairingAfter
<1>8. Holding'
  BY SMT DEF UxInv, Holding
<1>. QED
  BY <1>2, <1>3, <1>4, <1>5, <1>6, <1>7, <1>8 DEF UxInv

LEMMA BleConnKeeps ==
  ASSUME UxInv, NEW c \in BOOLEAN, BleConn(c), budget' \in 0 .. Budget, mode = "sta"
  PROVE  UxInv'
<1>1. /\ Effect(last) \in Lamps /\ (Effect(last) = "breathe" <=> last = "pairing")
      /\ last = "connecting" => Effect(last) = "rotate"
      /\ Effect(pending) \in Lamps /\ (Effect(pending) = "breathe" <=> pending = "pairing")
      /\ pending = "connecting" => Effect(pending) = "rotate"
  BY EffectType DEF UxInv, TypeOK
<1>. USE DEF BleConn
<1>2. TypeOK'
  BY <1>1, SMT DEF UxInv, TypeOK, States, Lamps, PairingAfter
<1>3. OneSource'
  BY SMT DEF UxInv, TypeOK, OneSource, PairingAfter
<1>4. Follows'
  BY SMT DEF UxInv, TypeOK, Follows, PairingAfter
<1>5. PendingOK'
  BY <1>1, SMT DEF UxInv, TypeOK, OneSource, Follows, PendingOK, Starting, PairingAfter
<1>6. Starting'
  BY <1>1, SMT DEF UxInv, TypeOK, OneSource, Follows, PendingOK, Starting, Shown, OnIgnored, PairingAfter
<1>7. Settling'
  BY <1>1, SMT DEF UxInv, TypeOK, OneSource, Follows, PendingOK, Starting, Settling, Shown, OnIgnored, Current, PairingAfter
<1>8. Holding'
  BY SMT DEF UxInv, Holding
<1>. QED
  BY <1>2, <1>3, <1>4, <1>5, <1>6, <1>7, <1>8 DEF UxInv

LEMMA LedWorkKeeps ==
  ASSUME UxInv, LedWork_fn
  PROVE  UxInv'
<1>1. /\ Effect(last) \in Lamps /\ (Effect(last) = "breathe" <=> last = "pairing")
      /\ last = "connecting" => Effect(last) = "rotate"
      /\ Effect(pending) \in Lamps /\ (Effect(pending) = "breathe" <=> pending = "pairing")
      /\ pending = "connecting" => Effect(pending) = "rotate"
  BY EffectType DEF UxInv, TypeOK
<1>. USE DEF LedWork_fn
<1>2. TypeOK'
  <2>1. cmd' \in Lamps \union {"none"}
    BY <1>1, Zenon DEF UxInv, TypeOK, Lamps
  <2>. QED
    BY <2>1, Zenon DEF UxInv, TypeOK
<1>3. OneSource'
  BY SMT DEF UxInv, TypeOK, OneSource, PairingAfter
<1>4. Follows'
  BY SMT DEF UxInv, TypeOK, Follows, PairingAfter
<1>5. PendingOK'
  BY <1>1, SMT DEF UxInv, TypeOK, OneSource, Follows, PendingOK, Starting, PairingAfter
<1>6. Starting'
  BY <1>1, SMT DEF UxInv, TypeOK, OneSource, Follows, PendingOK, Starting, Shown, OnIgnored, PairingAfter
<1>7. Settling'
  <2>1. init = "done" => cmd' = Current
    BY Zenon DEF UxInv, Settling, Current
  <2>2. Current # "none"
    BY <1>1, SMT DEF Current, Lamps
  <2>. QED
    BY <2>1, <2>2, SMT DEF UxInv, Settling, Shown, OnIgnored, Current
<1>8. Holding'
  BY SMT DEF UxInv, Holding
<1>. QED
  BY <1>2, <1>3, <1>4, <1>5, <1>6, <1>7, <1>8 DEF UxInv

LEMMA LedShowsKeeps ==
  ASSUME UxInv, LedShows
  PROVE  UxInv'
<1>1. /\ Effect(last) \in Lamps /\ (Effect(last) = "breathe" <=> last = "pairing")
      /\ last = "connecting" => Effect(last) = "rotate"
      /\ Effect(pending) \in Lamps /\ (Effect(pending) = "breathe" <=> pending = "pairing")
      /\ pending = "connecting" => Effect(pending) = "rotate"
  BY EffectType DEF UxInv, TypeOK
<1>. USE DEF LedShows, LampAfter
<1>2. TypeOK'
  <2>1. lamp' \in Lamps /\ cmd' = "none"
    BY SMT DEF UxInv, TypeOK, Lamps
  <2>2. solid' \in BOOLEAN
    BY Zenon DEF UxInv, TypeOK
  <2>. QED
    BY <2>1, <2>2, Zenon DEF UxInv, TypeOK
<1>3. OneSource'
  BY SMT DEF UxInv, TypeOK, OneSource, PairingAfter
<1>4. Follows'
  BY SMT DEF UxInv, TypeOK, Follows, PairingAfter
<1>5. PendingOK'
  BY <1>1, SMT DEF UxInv, TypeOK, OneSource, Follows, PendingOK, Starting, PairingAfter
<1>9. Shown' = Shown
  <2>1. Shown = cmd /\ cmd' = "none"
    BY Zenon DEF Shown
  <2>2. CASE cmd = "on" /\ solid
    <3>1. solid' /\ lamp' = (IF lamp = "rotate" THEN "dark" ELSE lamp)
      BY <2>2, Zenon
    <3>2. lamp' \in {"on", "dark"}
      BY <2>2, <3>1, SMT DEF UxInv, Holding
    <3>. QED
      BY <2>1, <2>2, <3>1, <3>2, SMT DEF Shown, OnIgnored
  <2>3. CASE ~(cmd = "on" /\ solid)
    <3>1. lamp' = cmd
      BY <2>3
    <3>2. cmd = "dark" => ~solid'
      BY Zenon
    <3>. QED
      BY <2>1, <3>1, <3>2, SMT DEF Shown, OnIgnored
  <2>. QED
    BY <2>2, <2>3
<1>6. Starting'
  BY <1>9, <1>1, SMT DEF UxInv, TypeOK, OneSource, Follows, PendingOK, Starting
<1>7. Settling'
  BY <1>9, <1>1, SMT DEF UxInv, TypeOK, OneSource, Follows, PendingOK, Starting, Settling, Current
<1>8. Holding'
  <2>1. CASE cmd = "rotate"
    BY <2>1, SMT DEF Holding
  <2>2. CASE cmd = "on"
    BY <2>2, SMT DEF UxInv, Holding
  <2>3. CASE cmd \notin {"on", "rotate"}
    <3>1. ~solid'
      BY <2>3, Zenon
    <3>. QED
      BY <3>1 DEF Holding
  <2>. QED
    BY <2>1, <2>2, <2>3
<1>. QED
  BY <1>2, <1>3, <1>4, <1>5, <1>6, <1>7, <1>8 DEF UxInv

LEMMA InitStepKeeps ==
  ASSUME UxInv, InitStep
  PROVE  UxInv'
<1>1. /\ Effect(last) \in Lamps /\ (Effect(last) = "breathe" <=> last = "pairing")
      /\ last = "connecting" => Effect(last) = "rotate"
      /\ Effect(pending) \in Lamps /\ (Effect(pending) = "breathe" <=> pending = "pairing")
      /\ pending = "connecting" => Effect(pending) = "rotate"
  BY EffectType DEF UxInv, TypeOK
<1>. USE DEF InitStep, InitNext
<1>2. TypeOK'
  BY <1>1, SMT DEF UxInv, TypeOK, States, Lamps, PairingAfter
<1>3. OneSource'
  BY SMT DEF UxInv, TypeOK, OneSource, PairingAfter
<1>4. Follows'
  BY SMT DEF UxInv, TypeOK, Follows, PairingAfter
<1>5. PendingOK'
  BY <1>1, SMT DEF UxInv, TypeOK, OneSource, Follows, PendingOK, Starting, PairingAfter
<1>6. Starting'
  <2>1. CASE init = "rotate"
    BY <1>1, <2>1, SMT DEF UxInv, TypeOK, Follows, Starting, Shown, OnIgnored
  <2>2. CASE init = "ready"
    <3>1. init' = "replay" /\ UNCHANGED <<last, told, pending, pairing, ble, at, lamp, solid, busy, cmd>>
      BY <2>2, SMT
    <3>2. ready'
      BY <2>2, Zenon
    <3>. HIDE DEF InitStep, InitNext
    <3>. QED
      BY <2>2, <3>1, <3>2, SMT DEF UxInv, Starting, Shown, OnIgnored
  <2>3. CASE init = "replay"
    <3>1. /\ UNCHANGED <<last, told, pairing, ble, at, lamp, solid, busy, cmd>>
          /\ pending' = IF last # "connecting" THEN last ELSE pending
          /\ init' = IF last = "connecting" THEN "done" ELSE "submit"
      BY <2>3, SMT
    <3>2. ready'
      BY <2>3, Zenon DEF UxInv, Starting
    <3>. HIDE DEF InitStep, InitNext
    <3>. QED
      BY <2>3, <3>1, <3>2, SMT DEF UxInv, TypeOK, Follows, Starting, Shown, OnIgnored
  <2>4. CASE init = "submit"
    BY <1>1, <2>4, SMT DEF UxInv, TypeOK, Follows, Starting, Shown, OnIgnored
  <2>. QED
    BY <2>1, <2>2, <2>3, <2>4, Zenon DEF UxInv, TypeOK
<1>7. Settling'
  BY <1>1, SMT DEF UxInv, TypeOK, OneSource, Follows, PendingOK, Starting, Settling, Shown, OnIgnored, Current, PairingAfter
<1>8. Holding'
  BY SMT DEF UxInv, Holding
<1>. QED
  BY <1>2, <1>3, <1>4, <1>5, <1>6, <1>7, <1>8 DEF UxInv

LEMMA LongPressKeeps ==
  ASSUME UxInv, LongPress
  PROVE  UxInv'
<1>1. /\ Effect(last) \in Lamps /\ (Effect(last) = "breathe" <=> last = "pairing")
      /\ last = "connecting" => Effect(last) = "rotate"
      /\ Effect(pending) \in Lamps /\ (Effect(pending) = "breathe" <=> pending = "pairing")
      /\ pending = "connecting" => Effect(pending) = "rotate"
  BY EffectType DEF UxInv, TypeOK
<1>. USE DEF LongPress
<1>2. TypeOK'
  BY <1>1, SMT DEF UxInv, TypeOK, States, Lamps, PairingAfter
<1>3. OneSource'
  BY SMT DEF UxInv, TypeOK, OneSource, PairingAfter
<1>4. Follows'
  BY SMT DEF UxInv, TypeOK, Follows, PairingAfter
<1>5. PendingOK'
  BY <1>1, SMT DEF UxInv, TypeOK, OneSource, Follows, PendingOK, Starting, PairingAfter
<1>6. Starting'
  BY <1>1, SMT DEF UxInv, TypeOK, OneSource, Follows, PendingOK, Starting, Shown, OnIgnored, PairingAfter
<1>7. Settling'
  BY <1>1, SMT DEF UxInv, TypeOK, OneSource, Follows, PendingOK, Starting, Settling, Shown, OnIgnored, Current, PairingAfter
<1>8. Holding'
  BY SMT DEF UxInv, Holding
<1>. QED
  BY <1>2, <1>3, <1>4, <1>5, <1>6, <1>7, <1>8 DEF UxInv

LEMMA SpendBounded ==
  ASSUME budget \in 0 .. Budget, Spend
  PROVE  budget' \in 0 .. Budget
  BY UxAssumption, SMT DEF Spend, UxAssumption

LEMMA RebootKeeps == ASSUME UxInv, Reboot PROVE UxInv'
<1>. USE DEF Reboot
<1>1. budget' \in 0 .. Budget
  BY SpendBounded DEF UxInv, TypeOK
<1>2. TypeOK'
  BY <1>1, Zenon DEF TypeOK, States, Lamps
<1>3. OneSource' /\ Follows' /\ PendingOK'
  BY SMT DEF OneSource, Follows, PendingOK, Effect, PairingAfter
<1>4. Starting' /\ Settling' /\ Holding'
  BY SMT DEF Starting, Settling, Holding, Shown, OnIgnored
<1>. QED
  BY <1>2, <1>3, <1>4 DEF UxInv

\* A step that leaves the brick alone, but for the messages left.
LEMMA StillKeeps ==
  ASSUME UxInv, budget' \in 0 .. Budget,
         UNCHANGED <<mode, last, pending, pairing, ble, ready, work, init, at, cmd, lamp, solid, busy,
                     told, episode, lost>>
  PROVE  UxInv'
<1>1. TypeOK'
  <2>1. /\ mode' = mode /\ last' = last /\ pending' = pending /\ pairing' = pairing
        /\ ble' = ble /\ ready' = ready /\ work' = work /\ busy' = busy
        /\ init' = init /\ at' = at /\ cmd' = cmd /\ lamp' = lamp /\ solid' = solid
        /\ told' = told /\ episode' = episode /\ lost' = lost
    OBVIOUS
  <2>. QED
    BY <2>1, SMT DEF UxInv, TypeOK, States, Lamps
<1>2. OneSource'
  BY Zenon DEF UxInv, OneSource
<1>3. Follows'
  <2>1. PairingAfter(last)' = PairingAfter(last)
    BY DEF PairingAfter
  <2>. QED
    BY <2>1, SMT DEF UxInv, Follows
<1>4. PendingOK'
  BY SMT DEF UxInv, PendingOK
<1>5. Starting'
  BY SMT DEF UxInv, Starting, Shown, OnIgnored
<1>6. Settling'
  BY SMT DEF UxInv, Settling, Shown, OnIgnored, Current
<1>7. Holding'
  BY SMT DEF UxInv, Holding
<1>. QED
  BY <1>1, <1>2, <1>3, <1>4, <1>5, <1>6, <1>7 DEF UxInv

LEMMA UxStepKeeps == ASSUME UxInv, UxStep PROVE UxInv'
  BY NetDecideKeeps, NetPendKeeps, NetSubmitKeeps, LedWorkKeeps, LedShowsKeeps, InitStepKeeps
     DEF UxStep

LEMMA NetHookKeeps == ASSUME UxInv, NetHook PROVE UxInv'
<1>1. PICK s \in {"connected", "connecting"} \union
                 (IF mode = "sta" THEN {"error"} ELSE {}) : NetPublish(s)
  BY DEF NetHook
<1>2. s \in States /\ s # "pairing"
  BY SMT DEF States
<1>3. budget' \in 0 .. Budget
  BY SpendBounded DEF NetHook, UxInv, TypeOK
<1>. QED
  BY <1>1, <1>2, <1>3, NetPublishKeeps

LEMMA WorkHookKeeps == ASSUME UxInv, WorkHook PROVE UxInv'
<1>. DEFINE s == IF mode = "sta" THEN "error" ELSE "pairing"
<1>1. s \in States /\ (mode = "sta" => s # "pairing")
  BY SMT DEF States
<1>2. WorkPublish(s) /\ ~busy /\ budget' \in 0 .. Budget
  BY SpendBounded DEF WorkHook, UxInv, TypeOK
<1>3. Delivered(s) \/ Refused(s)
  BY <1>2 DEF WorkPublish
<1>. HIDE DEF s
<1>. QED
  BY <1>1, <1>2, <1>3, DeliveredKeeps, RefusedKeeps

----------------------------------------------------------------------------
\* Every step of the brick and of its environment preserves the invariant.
LEMMA NextKeeps == ASSUME UxInv, [Next]_vars PROVE UxInv'
<1>1. Spend => budget' \in 0 .. Budget
  BY SpendBounded DEF UxInv, TypeOK
<1>2. CASE UxStep
  BY <1>2, UxStepKeeps
<1>3. CASE LongPress
  BY <1>3, LongPressKeeps
<1>4. CASE Reboot
  BY <1>4, RebootKeeps
<1>5. CASE NetHook
  BY <1>5, NetHookKeeps
<1>6. CASE WorkHook
  BY <1>6, WorkHookKeeps
<1>7. CASE Phone
  BY <1>1, <1>7, BleConnKeeps DEF Phone
<1>8. CASE UNCHANGED vars
  BY <1>8, StillKeeps DEF vars, uxVars, UxInv, TypeOK
<1>. QED
  BY <1>2, <1>3, <1>4, <1>5, <1>6, <1>7, <1>8 DEF Next

\* The inductive invariant holds in every reachable state.
THEOREM UxInvariant == Spec => []UxInv
  BY InitHolds, NextKeeps, PTL DEF Spec

\* Every variable keeps its type, for any number of messages.
THEOREM UxTypeCorrect == Spec => []TypeOK
<1>1. UxInv => TypeOK
  BY DEF UxInv
<1>. QED
  BY <1>1, UxInvariant, PTL

\* At rest the LED shows what is wanted.
LEMMA RestShows == UxInv => ShowsLast
<1>. SUFFICES ASSUME UxInv, Quiet PROVE Shown = Wanted
  BY SMT DEF ShowsLast, Quiet, Shown
<1>1. Shown = Current
  BY SMT DEF UxInv, Settling, Quiet
<1>2. ~ble => Effect(pending) = IF episode THEN "breathe" ELSE Effect(last)
  BY Zenon DEF UxInv, PendingOK, Quiet
<1>3. told = "none" => Effect(last) = "rotate"
  BY EffectType DEF UxInv, TypeOK, Follows
<1>4. told # "none" => last = told
  BY DEF UxInv, Follows
<1>5. CASE ble
  BY <1>1, <1>5 DEF Current, Wanted
<1>6. CASE ~ble
  BY <1>1, <1>2, <1>3, <1>4, <1>6, SMT DEF Current, Wanted
<1>. QED
  BY <1>5, <1>6

\* Whatever order the listener, the work items, the phone and the end of
\* SYS_INIT ran in, a device at rest shows what the messages ask for, unless that
\* is an ON that the LED brick ignores.
THEOREM ShowsLastHolds == Spec => []ShowsLast
  BY RestShows, UxInvariant, PTL

----------------------------------------------------------------------------
(* The station table and the event queue of Ap.                            *)

\* The least element of a set of numbers is one of them.
LEMMA MinIsElement ==
  ASSUME NEW S, S \subseteq Nat, S # {}
  PROVE  Min(S) \in S
<1>1. PICK x \in S : \A y \in S : ~(<<y, x>> \in OpToRel(<, Nat))
  BY NatLessThanWellFounded, WFMin
<1>2. \A y \in S : ~(y < x)
  BY <1>1, Zenon DEF OpToRel
<1>3. \A y \in S : x =< y
  BY <1>2
<1>. QED
  BY <1>3 DEF Min

\* What the table holds after an event of the queue is appended or taken.
LEMMA AfterKept ==
  ASSUME NEW T, NEW q \in Seq(T), NEW e, NEW h, NEW k \in 0 .. Len(q)
  PROVE  After(h, Append(q, e), k) = After(h, q, k)
<1>1. \A i \in 1 .. k : Append(q, e)[i] = q[i]
  OBVIOUS
<1>2. k \in Nat
  OBVIOUS
<1> DEFINE r == Append(q, e)
<1>. HIDE DEF r
<1>3. \A i \in 1 .. k : r[i] = q[i]
  BY <1>1 DEF r
<1>4. \A i \in 1 .. k : \A j \in i + 1 .. k : r[j] = q[j]
  BY <1>2, <1>3
<1>5. After(h, r, k) = After(h, q, k)
  BY <1>3, <1>4 DEF After
<1>. QED
  BY <1>5 DEF r

LEMMA AfterPosted ==
  ASSUME NEW T, NEW q \in Seq(T), NEW kind, NEW m, NEW h, kind \in {"enabled", "joined", "left"}
  PROVE  LET n == Len(q)
             r == Append(q, <<kind, m>>)
         IN  /\ kind = "joined" /\ m \in Macs => After(h, r, n + 1) = After(h, q, n) \union {m}
             /\ kind = "left" => After(h, r, n + 1) = After(h, q, n) \ {m}
             /\ m \notin Macs => After(h, r, n + 1) = After(h, q, n)
<1> DEFINE n == Len(q)
           e == <<kind, m>>
           r == Append(q, e)
<1>1. n \in Nat /\ r[n + 1] = e /\ \A i \in 1 .. n : r[i] = q[i]
  OBVIOUS
<1>2. e[1] = kind /\ e[2] = m /\ \A mac : e = <<"joined", mac>> <=> kind = "joined" /\ m = mac
  OBVIOUS
<1>. HIDE DEF n, e, r
<1>3. ASSUME NEW mac \in Macs
      PROVE  mac \in After(h, r, n + 1) <=>
               \/ kind = "joined" /\ mac = m
               \/ mac # m /\ mac \in After(h, q, n)
  <2>1. (\A i \in 1 .. n + 1 : r[i][2] # mac) <=> m # mac /\ \A i \in 1 .. n : q[i][2] # mac
    <3>1. n + 1 \in 1 .. n + 1 /\ r[n + 1][2] = m
      BY <1>1, <1>2
    <3>2. \A i \in 1 .. n : i \in 1 .. n + 1 /\ r[i][2] = q[i][2]
      BY <1>1
    <3>3. \A i \in 1 .. n + 1 : i \in 1 .. n \/ i = n + 1
      BY <1>1
    <3>. QED
      BY <3>1, <3>2, <3>3, Zenon
  <2>2. ASSUME NEW i \in 1 .. n
        PROVE  (\A j \in i + 1 .. n + 1 : r[j][2] # mac) <=> m # mac /\ \A j \in i + 1 .. n : q[j][2] # mac
    BY <1>1, <1>2
  <2>3. \A j \in (n + 1) + 1 .. n + 1 : r[j][2] # mac
    BY <1>1
  <2>4. (\E i \in 1 .. n + 1 : r[i] = <<"joined", mac>> /\ \A j \in i + 1 .. n + 1 : r[j][2] # mac) <=>
          \/ kind = "joined" /\ mac = m
          \/ /\ m # mac
             /\ \E i \in 1 .. n : q[i] = <<"joined", mac>> /\ \A j \in i + 1 .. n : q[j][2] # mac
    <3>1. \A i \in 1 .. n + 1 : i \in 1 .. n \/ i = n + 1
      BY <1>1
    <3>2. n + 1 \in 1 .. n + 1 /\ \A i \in 1 .. n : i \in 1 .. n + 1
      BY <1>1
    <3>. QED
      BY <1>1, <1>2, <2>2, <2>3, <3>1, <3>2, Zenon
  <2>. QED
    BY <2>1, <2>4 DEF After
<1>4. After(h, r, n + 1) \subseteq Macs /\ After(h, q, n) \subseteq Macs
  BY DEF After
<1>5. /\ kind = "joined" /\ m \in Macs => After(h, r, n + 1) = After(h, q, n) \union {m}
      /\ kind = "left" => After(h, r, n + 1) = After(h, q, n) \ {m}
      /\ m \notin Macs => After(h, r, n + 1) = After(h, q, n)
  BY <1>3, <1>4
<1>. QED
  BY <1>5 DEF n, r, e

LEMMA AfterTaken ==
  ASSUME NEW T, NEW q \in Seq(T), q # << >>, NEW h, NEW k \in 0 .. Len(q) - 1
  PROVE  After(After(h, q, 1), Tail(q), k) = After(h, q, k + 1)
<1> DEFINE r == Tail(q)
           g == After(h, q, 1)
<1>1. k \in Nat /\ \A i \in 1 .. k : r[i] = q[i + 1]
  OBVIOUS
<1>. HIDE DEF r
<1>2. ASSUME NEW mac \in Macs
      PROVE  mac \in After(g, r, k) <=> mac \in After(h, q, k + 1)
  <2>1. (\A i \in 1 .. k : r[i][2] # mac) <=> \A i \in 2 .. k + 1 : q[i][2] # mac
    <3>1. \A i \in 2 .. k + 1 : i - 1 \in 1 .. k /\ r[i - 1] = q[i]
      BY <1>1
    <3>2. \A i \in 1 .. k : i + 1 \in 2 .. k + 1
      BY <1>1
    <3>3. ASSUME \A i \in 1 .. k : r[i][2] # mac, NEW i \in 2 .. k + 1 PROVE q[i][2] # mac
      BY <3>1, <3>3, Zenon
    <3>4. ASSUME \A i \in 2 .. k + 1 : q[i][2] # mac, NEW i \in 1 .. k PROVE r[i][2] # mac
      BY <1>1, <3>2, <3>4, Zenon
    <3>. QED
      BY <3>3, <3>4, Zenon
  <2>2. (\A i \in 1 .. k + 1 : q[i][2] # mac) <=> q[1][2] # mac /\ \A i \in 2 .. k + 1 : q[i][2] # mac
    BY <1>1
  <2>3. mac \in g <=> q[1] = <<"joined", mac>> \/ (mac \in h /\ q[1][2] # mac)
    BY DEF g, After
  <2>4. ASSUME NEW i \in 1 .. k
        PROVE  (\A j \in i + 1 .. k : r[j][2] # mac) <=> \A j \in (i + 1) + 1 .. k + 1 : q[j][2] # mac
    <3>1. \A j \in (i + 1) + 1 .. k + 1 : j - 1 \in i + 1 .. k /\ r[j - 1] = q[j]
      BY <1>1
    <3>2. \A j \in i + 1 .. k : j + 1 \in (i + 1) + 1 .. k + 1 /\ r[j] = q[j + 1]
      BY <1>1
    <3>3. ASSUME \A j \in i + 1 .. k : r[j][2] # mac, NEW j \in (i + 1) + 1 .. k + 1
          PROVE  q[j][2] # mac
      BY <3>1, <3>3, Zenon
    <3>4. ASSUME \A j \in (i + 1) + 1 .. k + 1 : q[j][2] # mac, NEW j \in i + 1 .. k
          PROVE  r[j][2] # mac
      BY <3>2, <3>4, Zenon
    <3>. QED
      BY <3>3, <3>4, Zenon
  <2>5. (\E i \in 1 .. k + 1 : q[i] = <<"joined", mac>> /\ \A j \in i + 1 .. k + 1 : q[j][2] # mac) <=>
          \/ q[1] = <<"joined", mac>> /\ \A j \in 2 .. k + 1 : q[j][2] # mac
          \/ \E i \in 1 .. k : r[i] = <<"joined", mac>> /\ \A j \in i + 1 .. k : r[j][2] # mac
    <3>1. 1 \in 1 .. k + 1 /\ 1 + 1 = 2 /\ \A i \in 1 .. k : i + 1 \in 1 .. k + 1 /\ r[i] = q[i + 1]
      BY <1>1
    <3>2. \A i \in 1 .. k + 1 : i = 1 \/ (i - 1 \in 1 .. k /\ (i - 1) + 1 = i)
      BY <1>1
    <3>3. ASSUME NEW i \in 1 .. k + 1, q[i] = <<"joined", mac>>, \A j \in i + 1 .. k + 1 : q[j][2] # mac
          PROVE  \/ q[1] = <<"joined", mac>> /\ \A j \in 2 .. k + 1 : q[j][2] # mac
                 \/ \E l \in 1 .. k : r[l] = <<"joined", mac>> /\ \A j \in l + 1 .. k : r[j][2] # mac
      <4>1. CASE i = 1
        BY <3>1, <3>3, <4>1
      <4>2. CASE i # 1
        <5>1. PICK l \in 1 .. k : l + 1 = i
          BY <3>2, <4>2
        <5>2. r[l] = <<"joined", mac>>
          BY <3>1, <3>3, <5>1
        <5>3. \A j \in l + 1 .. k : r[j][2] # mac
          BY <2>4, <3>3, <5>1
        <5>. QED
          BY <5>2, <5>3
      <4>. QED
        BY <4>1, <4>2
    <3>4. ASSUME NEW i \in 1 .. k, r[i] = <<"joined", mac>>, \A j \in i + 1 .. k : r[j][2] # mac
          PROVE  \E l \in 1 .. k + 1 : q[l] = <<"joined", mac>> /\ \A j \in l + 1 .. k + 1 : q[j][2] # mac
      BY <2>4, <3>1, <3>4
    <3>. QED
      BY <3>1, <3>3, <3>4, Zenon
  <2>. QED
    BY <2>1, <2>2, <2>3, <2>5 DEF After
<1>3. After(g, r, k) \subseteq Macs /\ After(h, q, k + 1) \subseteq Macs
  BY DEF After
<1>4. After(g, r, k) = After(h, q, k + 1)
  BY <1>2, <1>3
<1>. QED
  BY <1>4 DEF r

----------------------------------------------------------------------------
(* The station table.                                                      *)

TableOK == table \in [1 .. Slots -> Macs \union {NoMac}]

\* Each station is held once.
Single == \A s, t \in Taken : table[s] = table[t] => s = t

LEMMA RecordedIs ==
  ASSUME TableOK, NEW m \in Macs, table' = Recorded(m)
  PROVE  /\ TableOK' /\ Taken' # {}
         /\ Taken # 1 .. Slots => Held' = Held \union {m}
         /\ Taken # 1 .. Slots /\ Single /\ m \notin Held => Single'
<1>1. m # NoMac /\ 1 \in 1 .. Slots
  BY ApAssumption DEF ApAssumption
<1>2. Taken \subseteq 1 .. Slots
  BY DEF Taken
<1>3. CASE Taken = 1 .. Slots
  BY <1>1, <1>3 DEF Recorded, TableOK, Taken
<1>4. CASE Taken # 1 .. Slots
  <2> DEFINE f == Min(1 .. Slots \ Taken)
  <2>1. f \in 1 .. Slots \ Taken
    <3>1. 1 .. Slots \ Taken \subseteq Nat /\ 1 .. Slots \ Taken # {}
      <4>1. 1 .. Slots \subseteq Nat
        BY ApAssumption DEF ApAssumption
      <4>. QED
        BY <1>2, <1>4, <4>1, Zenon
    <3>. QED
      BY <3>1, MinIsElement
  <2>2. table' = [table EXCEPT ![f] = m]
    BY <1>4 DEF Recorded
  <2>. HIDE DEF f
  <2>3. TableOK' /\ table'[f] = m /\ \A s \in 1 .. Slots : s # f => table'[s] = table[s]
    BY <2>1, <2>2 DEF TableOK
  <2>4. Taken' = Taken \union {f}
    BY <1>1, <2>1, <2>3 DEF Taken
  <2>5. Held' = Held \union {m}
    BY <1>2, <2>1, <2>3, <2>4 DEF Held
  <2>6. ASSUME Single, m \notin Held PROVE Single'
    <3>1. \A s \in Taken : s # f /\ table'[s] = table[s] /\ table'[s] # m
      BY <1>2, <2>1, <2>3, <2>6 DEF Held
    <3>. QED
      BY <2>3, <2>4, <2>6, <3>1 DEF Single
  <2>. QED
    BY <2>3, <2>4, <2>5, <2>6
<1>. QED
  BY <1>3, <1>4

LEMMA RemovedIs ==
  ASSUME TableOK, NEW m \in Macs, table' = Removed(m)
  PROVE  /\ TableOK' /\ Taken' \subseteq Taken
         /\ Single => Single' /\ Held' = Held \ {m}
<1> DEFINE its == { s \in 1 .. Slots : table[s] = m }
<1>1. m # NoMac
  BY ApAssumption DEF ApAssumption
<1>2. Taken \subseteq 1 .. Slots /\ its \subseteq Taken
  BY <1>1 DEF Taken
<1>3. CASE its = {}
  <2>1. table' = table
    BY <1>3 DEF Removed
  <2>2. m \notin Held
    BY <1>2, <1>3 DEF Held
  <2>. QED
    BY <2>1, <2>2 DEF TableOK, Taken, Held, Single
<1>4. CASE its # {}
  <2> DEFINE f == Min(its)
  <2>1. f \in its
    BY <1>4, MinIsElement
  <2>2. table' = [table EXCEPT ![f] = NoMac]
    BY <1>4 DEF Removed
  <2>3. f \in 1 .. Slots /\ f \in Taken /\ table[f] = m
    BY <1>2, <2>1
  <2>. HIDE DEF f
  <2>4. TableOK' /\ table'[f] = NoMac /\ \A s \in 1 .. Slots : s # f => table'[s] = table[s]
    BY <2>2, <2>3 DEF TableOK
  <2>5. Taken' = Taken \ {f}
    BY <2>3, <2>4 DEF Taken
  <2>6. ASSUME Single PROVE Single' /\ Held' = Held \ {m}
    <3>1. \A s \in Taken : s # f => table'[s] = table[s] /\ table[s] # m
      BY <1>2, <2>3, <2>4, <2>6 DEF Single
    <3>2. Single'
      BY <2>5, <2>6, <3>1 DEF Single
    <3>3. Held' = { table[s] : s \in Taken \ {f} }
      BY <2>5, <3>1 DEF Held
    <3>4. { table[s] : s \in Taken \ {f} } = Held \ {m}
      BY <2>3, <3>1 DEF Held
    <3>. QED
      BY <3>2, <3>3, <3>4
  <2>. QED
    BY <2>4, <2>5, <2>6
<1>. QED
  BY <1>3, <1>4

\* As many slots are taken as stations are held.
LEMMA FullTable ==
  ASSUME TableOK, Single
  PROVE  /\ IsFiniteSet(Held)
         /\ Cardinality(Held) < Slots => Taken # 1 .. Slots
<1> DEFINE f == [s \in Taken |-> table[s]]
<1>1. Slots \in Nat /\ Taken \subseteq 1 .. Slots
  BY ApAssumption DEF ApAssumption, Taken
<1>2. IsFiniteSet(1 .. Slots) /\ Cardinality(1 .. Slots) = Slots
  BY <1>1, FS_Interval
<1>3. IsFiniteSet(Taken)
  BY <1>1, <1>2, FS_Subset
<1>4. f \in Bijection(Taken, Held)
  BY DEF Single, Held, Bijection, Injection, Surjection, IsInjective
<1>5. IsFiniteSet(Held) /\ Cardinality(Held) = Cardinality(Taken)
  BY <1>3, <1>4, FS_Bijection DEF ExistsBijection
<1>. QED
  BY <1>1, <1>2, <1>5

LEMMA CountIs ==
  ASSUME NEW t \in [1 .. Slots -> Macs \union {NoMac}]
  PROVE  /\ StationCount(t) \in Nat
         /\ StationCount(t) = 0 <=> { s \in 1 .. Slots : t[s] # NoMac } = {}
<1> DEFINE taken == { s \in 1 .. Slots : t[s] # NoMac }
<1>1. Slots \in Nat
  BY ApAssumption DEF ApAssumption
<1>2. IsFiniteSet(taken)
  <2>1. IsFiniteSet(1 .. Slots) /\ taken \subseteq 1 .. Slots
    BY <1>1, FS_Interval
  <2>. QED
    BY <2>1, FS_Subset
<1>3. StationCount(t) = Cardinality(taken)
  BY DEF StationCount, Quantify
<1>. QED
  BY <1>2, <1>3, FS_CardinalityType, FS_EmptySet

----------------------------------------------------------------------------
(* The inductive invariant.                                                *)

\* What the mode starts from: nothing happens before it, and the event that
\* tells of the access point is the first one.
Beginning ==
  /\ mode \in {"softap", "go"} /\ ~busy
  /\ ~up => events = << >> /\ todo = << >> /\ Taken = {} /\ inside = {}
  /\ \A i \in 1 .. Len(events) : events[i][1] = "enabled" => i = 1 /\ Taken = {}

\* The last state that the event at hand publishes, or has published.
ToTell == IF todo = << >> THEN told ELSE todo[Len(todo)]

Todos == { << >>, <<"softap">>, <<"connected">>, <<"softap", "connected">> }

\* What is told of the clients is what the table holds, until the end of a
\* pairing window says otherwise.
TellsClients ==
  /\ todo \in Todos
  /\ ToTell = "connected" => Taken # {}
  /\ ToTell \in {"softap", "none"} => Taken = {}
  /\ told = "pairing" => episode
  /\ told # "error"

\* Without a client the WPS work item is scheduled or its handler runs.
WpsLoop ==
  /\ canceling => arming
  /\ mode = "go" /\ up /\ wps = {} /\ ~arming => Taken # {}

\* While the queue has taken every event: it leads from the stations in the
\* table to those associated, never over the number of slots, and no station
\* joins twice.
Stations ==
  /\ Single
  /\ inside = After(Held, events, Len(events))
  /\ \A k \in 0 .. Len(events) :
       IsFiniteSet(After(Held, events, k)) /\ Cardinality(After(Held, events, k)) <= Slots
  /\ \A i \in 1 .. Len(events) :
       events[i][1] = "joined" => events[i][2] \notin After(Held, events, i - 1)

ApInv ==
  /\ UxInv /\ ApTypeOK
  /\ Beginning /\ TellsClients /\ WpsLoop
  /\ ~dropped => Stations

LEMMA EventsAre ==
  /\ <<"enabled", NoMac>> \in EventType
  /\ \A m \in Macs : <<"joined", m>> \in EventType /\ <<"left", m>> \in EventType
  /\ \A e \in EventType :
       /\ e = <<e[1], e[2]>> /\ e[1] \in {"enabled", "joined", "left"}
       /\ e[1] = "enabled" => e[2] = NoMac
       /\ e[1] # "enabled" => e[2] \in Macs
  BY DEF EventType

\* A step that queues an event, one that takes one, and the others.
Posts(kind, m) == <<kind, m>> \in EventType /\ Post(kind, m) /\ UNCHANGED <<table, todo>>

Others ==
  /\ UNCHANGED <<events, table, inside, dropped>>
  /\ UNCHANGED todo \/ ApHook

LEMMA StepsAre ==
  ASSUME ApNext, inside \subseteq Macs
  PROVE  \/ \E m \in Macs \ inside :
              /\ Cardinality(inside) < Slots /\ up
              /\ Posts("joined", m) /\ inside' = inside \union {m}
         \/ \E m \in inside : Posts("left", m) /\ inside' = inside \ {m}
         \/ StartMode /\ Posts("enabled", NoMac) /\ UNCHANGED inside
         \/ ApEvent
         \/ Others
<1>1. CASE Station
  <2>1. UNCHANGED <<table, todo>>
    BY <1>1 DEF Station
  <2>2. CASE Joins
    BY <2>1, <2>2, EventsAre DEF Joins, Posts
  <2>3. CASE Leaves
    BY <2>1, <2>3, EventsAre DEF Leaves, Posts
  <2>. QED
    BY <1>1, <2>2, <2>3 DEF Station
<1>2. CASE StartMode
  BY <1>2, EventsAre DEF StartMode, RunSoftapMode, RunP2pGoMode, Posts, Others
<1>3. CASE DoubleClick \/ ApHook \/ WpsRequest \/ WpsReturns \/ WindowEnds
           \/ (UxStep /\ UNCHANGED apVars)
  BY <1>3 DEF DoubleClick, ApHook, WpsRequest, WpsReturns, WindowEnds, apVars, Others
<1>. QED
  BY <1>1, <1>2, <1>3, Zenon DEF ApNext

\* The state an event at hand publishes is one the UX brick knows.
LEMMA TodosAre ==
  ASSUME todo \in Todos, todo # << >>
  PROVE  /\ Head(todo) \in {"softap", "connected"} /\ Tail(todo) \in Todos
         /\ IF Tail(todo) = << >> THEN Head(todo) = todo[Len(todo)]
            ELSE Tail(todo)[Len(Tail(todo))] = todo[Len(todo)]
<1>1. CASE todo = <<"softap">>
  <2>1. Tail(todo) = << >> /\ Head(todo) = "softap" /\ todo[Len(todo)] = "softap"
    BY <1>1
  <2>. QED
    BY <2>1 DEF Todos
<1>2. CASE todo = <<"connected">>
  <2>1. Tail(todo) = << >> /\ Head(todo) = "connected" /\ todo[Len(todo)] = "connected"
    BY <1>2
  <2>. QED
    BY <2>1 DEF Todos
<1>3. CASE todo = <<"softap", "connected">>
  <2>1. Tail(todo) = <<"connected">> /\ Head(todo) = "softap" /\ todo[Len(todo)] = "connected"
    BY <1>3
  <2>2. Tail(todo) # << >> /\ Tail(todo)[Len(Tail(todo))] = "connected"
    BY <2>1
  <2>. QED
    BY <2>1, <2>2 DEF Todos
<1>. QED
  BY <1>1, <1>2, <1>3 DEF Todos

\* What a step says to the UX brick.
LEMMA UxOfAp ==
  ASSUME UxInv, Beginning, todo \in Todos, ApNext
  PROVE  /\ UxInv' /\ mode' = mode /\ busy' = busy
         /\ ApHook => told' = Head(todo)
         /\ \/ ApHook
            \/ UNCHANGED <<told, episode>>
            \/ told' = "pairing" /\ episode'
            \/ told' = "connecting"
<1>0. ApHook => told' = Head(todo)
  BY DEF ApHook, NetPublish, Told
<1>1. Spend => budget' \in 0 .. Budget
  BY SpendBounded DEF UxInv, TypeOK
<1>2. budget \in 0 .. Budget
  BY DEF UxInv, TypeOK
<1>3. mode # "sta" /\ ~busy
  BY DEF Beginning
<1>4. CASE Station
  BY <1>0, <1>1, <1>4, StillKeeps DEF Station
<1>5. CASE StartMode \/ ApEvent \/ WpsRequest \/ WpsReturns
  <2>1. UNCHANGED uxVars
    BY <1>5 DEF StartMode, ApEvent, WpsRequest, WpsReturns
  <2>2. budget' \in 0 .. Budget
    BY <1>2, <2>1 DEF uxVars
  <2>. QED
    BY <1>0, <2>1, <2>2, StillKeeps DEF uxVars
<1>6. ASSUME NEW s \in {"pairing", "connecting"}, WorkPublish(s), budget' \in 0 .. Budget
      PROVE  /\ UxInv' /\ mode' = mode /\ busy' = busy
             /\ \/ UNCHANGED <<told, episode>>
                \/ told' = s /\ (s = "pairing" => episode')
  <2>1. s \in States /\ UNCHANGED <<mode, busy>>
    BY <1>6 DEF States, WorkPublish
  <2>2. CASE Delivered(s)
    BY <1>3, <1>6, <2>1, <2>2, DeliveredKeeps DEF Delivered, Told
  <2>3. CASE Refused(s)
    BY <1>6, <2>1, <2>3, RefusedKeeps DEF Refused
  <2>. QED
    BY <1>6, <2>2, <2>3 DEF WorkPublish
<1>7. CASE DoubleClick
  <2>1. WorkPublish("pairing") /\ budget' \in 0 .. Budget
    BY <1>1, <1>7 DEF DoubleClick
  <2>. QED
    BY <1>0, <1>6, <2>1
<1>8. CASE WindowEnds
  <2>1. WorkPublish("connecting") /\ budget' \in 0 .. Budget
    BY <1>2, <1>8 DEF WindowEnds
  <2>. QED
    BY <1>0, <1>6, <2>1
<1>9. CASE ApHook
  <2>1. Head(todo) \in States /\ NetPublish(Head(todo)) /\ budget' \in 0 .. Budget
    BY <1>2, <1>9, TodosAre DEF ApHook, States
  <2>. QED
    BY <1>3, <1>9, <2>1, NetPublishKeeps DEF NetPublish, Told
<1>10. CASE UxStep
  <2>1. UNCHANGED <<mode, busy, told, episode>>
    BY <1>10 DEF UxStep, NetDecide, NetPend, NetSubmit, LedWork_fn, LedShows, InitStep
  <2>. QED
    BY <1>0, <1>10, <2>1, UxStepKeeps
<1>. QED
  BY <1>0, <1>4, <1>5, <1>7, <1>8, <1>9, <1>10 DEF ApNext

\* What the event thread handles.
LEMMA HandledIs ==
  ASSUME ApTypeOK, ApEvent
  PROVE  /\ events # << >> /\ todo = << >> /\ events' = Tail(events) /\ UNCHANGED <<inside, up, dropped>>
         /\ \/ Head(events) = <<"enabled", NoMac>> /\ OnEnabled
            \/ \E m \in Macs : Head(events) = <<"joined", m>> /\ OnJoined(m)
            \/ \E m \in Macs : Head(events) = <<"left", m>> /\ OnLeft(m)
<1>1. events \in Seq(EventType) /\ events # << >>
  BY DEF ApTypeOK, ApEvent
<1>2. Head(events) \in EventType
  BY <1>1
<1> DEFINE e == Head(events)
<1>3. \/ e[1] = "enabled" /\ OnEnabled
      \/ e[1] = "joined" /\ OnJoined(e[2])
      \/ e[1] = "left" /\ OnLeft(e[2])
  BY DEF ApEvent
<1>4. e = <<e[1], e[2]>> /\ (e[1] = "enabled" => e[2] = NoMac) /\ (e[1] # "enabled" => e[2] \in Macs)
  BY <1>2, EventsAre
<1>5. events # << >> /\ todo = << >> /\ events' = Tail(events) /\ UNCHANGED <<inside, up, dropped>>
  BY DEF ApEvent
<1>. HIDE DEF e
<1>6. \/ e = <<"enabled", NoMac>> /\ OnEnabled
      \/ \E m \in Macs : e = <<"joined", m>> /\ OnJoined(m)
      \/ \E m \in Macs : e = <<"left", m>> /\ OnLeft(m)
  BY <1>3, <1>4
<1>. QED
  BY <1>5, <1>6 DEF e

\* What a handled event makes of the table.
LEMMA HandledTable ==
  ASSUME ApTypeOK, ApEvent
  PROVE  /\ TableOK'
         /\ \/ Head(events)[1] = "enabled" /\ UNCHANGED table
            \/ Head(events)[1] = "joined" /\ Taken' # {}
            \/ Head(events)[1] = "left" /\ Taken' \subseteq Taken
<1>1. TableOK
  BY DEF TableOK, ApTypeOK
<1>2. CASE Head(events) = <<"enabled", NoMac>> /\ OnEnabled
  BY <1>1, <1>2 DEF OnEnabled, TableOK
<1>3. ASSUME NEW m \in Macs, Head(events) = <<"joined", m>>, OnJoined(m)
      PROVE  TableOK' /\ Head(events)[1] = "joined" /\ Taken' # {}
  BY <1>1, <1>3, RecordedIs DEF OnJoined
<1>4. ASSUME NEW m \in Macs, Head(events) = <<"left", m>>, OnLeft(m)
      PROVE  TableOK' /\ Head(events)[1] = "left" /\ Taken' \subseteq Taken
  BY <1>1, <1>4, RemovedIs DEF OnLeft
<1>. QED
  BY <1>2, <1>3, <1>4, HandledIs

LEMMA PostTypes ==
  ASSUME events \in Seq(EventType), Len(events) <= MaxEvents, dropped \in BOOLEAN,
         NEW kind, NEW m, Posts(kind, m)
  PROVE  events' \in Seq(EventType) /\ Len(events') <= MaxEvents /\ dropped' \in BOOLEAN
<1> DEFINE e == <<kind, m>>
<1>1. e \in EventType /\ MaxEvents \in Nat
  BY ApAssumption DEF Posts, ApAssumption
<1>2. events' = IF Len(events) < MaxEvents THEN Append(events, e) ELSE events
  BY DEF Posts, Post
<1>3. dropped' \in BOOLEAN
  BY Zenon DEF Posts, Post
<1>. HIDE DEF e
<1>. QED
  BY <1>1, <1>2, <1>3

LEMMA ApQueueTypes ==
  ASSUME ApTypeOK, ApNext
  PROVE  /\ inside' \subseteq Macs /\ TableOK' /\ dropped' \in BOOLEAN
         /\ events' \in Seq(EventType) /\ Len(events') <= MaxEvents
<1>1. /\ inside \subseteq Macs /\ TableOK /\ dropped \in BOOLEAN
      /\ events \in Seq(EventType) /\ Len(events) <= MaxEvents
  BY DEF ApTypeOK, TableOK
<1>2. ASSUME NEW kind, NEW m, Posts(kind, m)
      PROVE  /\ TableOK' /\ dropped' \in BOOLEAN
             /\ events' \in Seq(EventType) /\ Len(events') <= MaxEvents
  BY <1>1, <1>2, PostTypes DEF Posts, TableOK
<1>3. CASE ApEvent
  <2>1. events # << >> /\ events' = Tail(events) /\ UNCHANGED <<inside, dropped>>
    BY <1>3 DEF ApEvent
  <2>2. events' \in Seq(EventType) /\ Len(events') <= MaxEvents
    BY <1>1, <2>1, ApAssumption DEF ApAssumption
  <2>. QED
    BY <1>1, <1>3, <2>1, <2>2, HandledTable
<1>4. CASE Others
  BY <1>1, <1>4 DEF Others, TableOK
<1>5. CASE \E m \in Macs \ inside : Posts("joined", m) /\ inside' = inside \union {m}
  BY <1>1, <1>2, <1>5
<1>6. CASE \E m \in inside : Posts("left", m) /\ inside' = inside \ {m}
  BY <1>1, <1>2, <1>6
<1>7. CASE Posts("enabled", NoMac) /\ UNCHANGED inside
  BY <1>1, <1>2, <1>7
<1>. QED
  BY <1>1, <1>3, <1>4, <1>5, <1>6, <1>7, StepsAre

LEMMA ApFlagTypes ==
  ASSUME ApTypeOK, ApNext
  PROVE  /\ up' \in BOOLEAN /\ remind' \in BOOLEAN /\ arming' \in BOOLEAN
         /\ canceling' \in BOOLEAN /\ window' \in BOOLEAN /\ wps' \subseteq {"now", "later"}
<1>. SUFFICES ASSUME /\ up \in BOOLEAN /\ remind \in BOOLEAN /\ arming \in BOOLEAN
                     /\ canceling \in BOOLEAN /\ window \in BOOLEAN /\ wps \subseteq {"now", "later"}
              PROVE  /\ up' \in BOOLEAN /\ remind' \in BOOLEAN /\ arming' \in BOOLEAN
                     /\ canceling' \in BOOLEAN /\ window' \in BOOLEAN /\ wps' \subseteq {"now", "later"}
  BY DEF ApTypeOK
<1>1. CASE Station
  BY <1>1 DEF Station
<1>2. CASE StartMode
  BY <1>2 DEF StartMode, RunSoftapMode, RunP2pGoMode
<1>3. CASE DoubleClick
  BY <1>3 DEF DoubleClick, RearmWps, Rearm
<1>4. CASE ApEvent
  <2>1. UNCHANGED <<up, arming, window>>
    BY <1>4 DEF ApEvent
  <2>2. ASSUME NEW m, OnEnabled \/ OnJoined(m) \/ OnLeft(m)
        PROVE  remind' \in BOOLEAN /\ canceling' \in BOOLEAN /\ wps' \subseteq {"now", "later"}
    BY <2>2 DEF OnEnabled, OnJoined, OnLeft, CancelWps, RearmWps, Rearm
  <2>. QED
    BY <1>4, <2>1, <2>2, HandledIs
<1>5. CASE ApHook
  BY <1>5 DEF ApHook
<1>6. CASE WpsRequest \/ WpsReturns \/ WindowEnds
  BY <1>6 DEF WpsRequest, WpsReturns, WindowEnds, AfterRequest
<1>7. CASE UNCHANGED apVars
  BY <1>7 DEF apVars
<1>. QED
  BY <1>1, <1>2, <1>3, <1>4, <1>5, <1>6, <1>7 DEF ApNext

LEMMA BeginningKeeps ==
  ASSUME UxInv, ApTypeOK, Beginning, todo \in Todos, ApNext
  PROVE  Beginning'
<1>1. mode' = mode /\ busy' = busy
  BY UxOfAp
<1>2. up' = up \/ (StartMode /\ up')
  BY DEF ApNext, Station, StartMode, DoubleClick, ApEvent, ApHook, WpsRequest, WpsReturns, WindowEnds,
         apVars
<1>3. events \in Seq(EventType) /\ inside \subseteq Macs /\ up \in BOOLEAN
  BY DEF ApTypeOK
<1>4. ASSUME ~up'
      PROVE  events' = << >> /\ todo' = << >> /\ Taken' = {} /\ inside' = {}
  <2>1. ~up /\ ~StartMode
    BY <1>2, <1>4 DEF StartMode
  <2>2. events = << >> /\ todo = << >> /\ Taken = {} /\ inside = {}
    BY <2>1 DEF Beginning
  <2>3. Others
    BY <1>3, <2>1, <2>2, StepsAre DEF ApEvent
  <2>. QED
    BY <2>2, <2>3 DEF Others, ApHook, Taken
<1>5. ASSUME NEW kind, NEW m, Posts(kind, m), kind = "enabled" => events = << >> /\ Taken = {}
      PROVE  \A i \in 1 .. Len(events') : events'[i][1] = "enabled" => i = 1 /\ Taken' = {}
  <2> DEFINE e == <<kind, m>>
  <2>1. UNCHANGED Taken
    BY <1>5 DEF Posts, Taken
  <2>2. events' = Append(events, e) \/ events' = events
    BY <1>5 DEF Posts, Post
  <2>3. e[1] = kind
    OBVIOUS
  <2>. HIDE DEF e
  <2>4. CASE events' = events
    BY <2>1, <2>4 DEF Beginning
  <2>5. CASE events' = Append(events, e)
    <3>1. /\ Len(events') = Len(events) + 1 /\ events'[Len(events) + 1] = e /\ Len(events) \in Nat
          /\ \A i \in 1 .. Len(events) : events'[i] = events[i]
      BY <1>3, <2>5
    <3>2. \A i \in 1 .. Len(events') : i \in 1 .. Len(events) \/ i = Len(events) + 1
      BY <3>1
    <3>3. events = << >> => Len(events) + 1 = 1
      OBVIOUS
    <3>. QED
      BY <1>5, <2>1, <2>3, <3>1, <3>2, <3>3 DEF Beginning
  <2>. QED
    BY <2>2, <2>4, <2>5
<1>6. \A i \in 1 .. Len(events') : events'[i][1] = "enabled" => i = 1 /\ Taken' = {}
  <2>1. CASE ApEvent
    <3>1. events # << >> /\ events' = Tail(events)
      BY <2>1 DEF ApEvent
    <3>2. \A i \in 1 .. Len(events') : i + 1 \in 1 .. Len(events) /\ i + 1 # 1 /\ events'[i] = events[i + 1]
      BY <1>3, <3>1
    <3>. QED
      BY <3>2 DEF Beginning
  <2>2. CASE Others
    <3>1. UNCHANGED <<events, Taken>>
      BY <2>2 DEF Others, Taken
    <3>. QED
      BY <3>1 DEF Beginning
  <2>3. CASE StartMode /\ Posts("enabled", NoMac)
    <3>1. events = << >> /\ Taken = {}
      BY <2>3 DEF StartMode, Beginning
    <3>. QED
      BY <1>5, <2>3, <3>1
  <2>. QED
    BY <1>3, <1>5, <2>1, <2>2, <2>3, StepsAre
<1>. QED
  BY <1>1, <1>4, <1>6 DEF Beginning

LEMMA TellsKeep ==
  ASSUME UxInv, ApTypeOK, Beginning, TellsClients, ApNext
  PROVE  TellsClients'
<1>0. todo \in Todos /\ TableOK /\ inside \subseteq Macs
  BY DEF TellsClients, ApTypeOK, TableOK
<1>1. CASE ApEvent
  <2>1. todo = << >> /\ ToTell = told /\ ~ApHook /\ UNCHANGED <<told, episode>>
    BY <1>1 DEF ApEvent, ToTell, ApHook, uxVars
  <2>2. StationCount(table') \in Nat /\ (StationCount(table') = 0 <=> Taken' = {})
    <3>1. TableOK'
      BY <1>1, HandledTable
    <3>. QED
      BY <3>1, CountIs DEF TableOK, Taken
  <2>3. CASE Head(events) = <<"enabled", NoMac>> /\ OnEnabled
    <3>1. todo' = <<"softap">> /\ todo' \in Todos /\ ToTell' = "softap" /\ UNCHANGED table
      BY <2>3 DEF OnEnabled, Todos, ToTell
    <3>2. Taken = {}
      <4>1. events \in Seq(EventType) /\ events # << >>
        BY <1>1 DEF ApTypeOK, ApEvent
      <4>2. 1 \in 1 .. Len(events) /\ events[1][1] = "enabled"
        BY <2>3, <4>1
      <4>. QED
        BY <4>2 DEF Beginning
    <3>. QED
      BY <2>1, <3>1, <3>2 DEF TellsClients, Taken
  <2>4. ASSUME NEW m \in Macs, Head(events) = <<"joined", m>>, OnJoined(m)
        PROVE  TellsClients'
    <3>1. Taken' # {}
      BY <1>1, <2>4, HandledTable
    <3>2. todo' = <<"softap">> \o <<"connected">> \/ todo' = << >> \o <<"connected">>
      <4>1. (StationCount(table') >= 1) = TRUE
        BY <2>2, <3>1
      <4>2. todo' = (IF mode = "go" THEN <<"softap">> ELSE << >>) \o <<"connected">>
        BY <2>4, <4>1, Zenon DEF OnJoined
      <4>. QED
        BY <4>2
    <3>3. todo' = <<"softap", "connected">> \/ todo' = <<"connected">>
      BY <3>2
    <3>4. todo' \in Todos /\ ToTell' = "connected"
      BY <3>3 DEF Todos, ToTell
    <3>. QED
      BY <2>1, <3>1, <3>4 DEF TellsClients
  <2>5. ASSUME NEW m \in Macs, Head(events) = <<"left", m>>, OnLeft(m)
        PROVE  TellsClients'
    <3>1. Taken' \subseteq Taken
      BY <1>1, <2>5, HandledTable
    <3>2. CASE Taken' = {}
      <4>1. todo' = <<"softap">>
        BY <2>2, <2>5, <3>2 DEF OnLeft
      <4>2. todo' \in Todos /\ ToTell' = "softap"
        BY <4>1 DEF Todos, ToTell
      <4>. QED
        BY <2>1, <3>2, <4>2 DEF TellsClients
    <3>3. CASE Taken' # {}
      <4>1. todo' = << >>
        BY <2>2, <2>5, <3>3 DEF OnLeft
      <4>2. todo' \in Todos /\ ToTell' = ToTell
        BY <2>1, <4>1 DEF Todos, ToTell
      <4>. QED
        BY <2>1, <3>1, <3>3, <4>2 DEF TellsClients
    <3>. QED
      BY <3>2, <3>3
  <2>. QED
    BY <1>1, <2>3, <2>4, <2>5, HandledIs
<1>2. CASE ApHook
  <2>1. told' = Head(todo) /\ todo' = Tail(todo) /\ todo # << >> /\ UNCHANGED Taken
    BY <1>0, <1>2, UxOfAp DEF ApHook, Taken
  <2>2. told' \in {"softap", "connected"} /\ todo' \in Todos /\ ToTell' = ToTell
    BY <1>0, <2>1, TodosAre DEF ToTell
  <2>. QED
    BY <2>1, <2>2 DEF TellsClients
<1>3. CASE ~ApEvent /\ ~ApHook
  <2>1. UNCHANGED <<todo, Taken>>
    BY <1>0, <1>3, StepsAre DEF Others, Posts, Taken
  <2>2. \/ UNCHANGED <<told, episode>>
        \/ told' = "pairing" /\ episode'
        \/ told' = "connecting"
    BY <1>0, <1>3, UxOfAp
  <2>. QED
    BY <2>1, <2>2 DEF TellsClients, ToTell
<1>. QED
  BY <1>1, <1>2, <1>3

LEMMA WpsKeeps ==
  ASSUME ApTypeOK, Beginning, mode' = mode, WpsLoop, ApNext
  PROVE  WpsLoop'
<1>0. canceling \in BOOLEAN /\ arming \in BOOLEAN /\ inside \subseteq Macs
  BY DEF ApTypeOK
<1>1. CASE StartMode
  <2>1. mode = "go" => wps' # {}
    BY <1>1 DEF StartMode, RunP2pGoMode
  <2>2. UNCHANGED <<canceling, arming>>
    BY <1>1 DEF StartMode
  <2>. QED
    BY <2>1, <2>2 DEF WpsLoop
<1>2. RearmWps => wps' # {} \/ arming
  BY DEF RearmWps, Rearm, WpsLoop
<1>3. CASE ApEvent
  <2>1. UNCHANGED <<up, arming>>
    BY <1>3 DEF ApEvent
  <2>2. CASE OnEnabled /\ Head(events)[1] = "enabled"
    <3>1. UNCHANGED <<Taken, wps, canceling>>
      BY <2>2 DEF OnEnabled, Taken
    <3>. QED
      BY <2>1, <3>1 DEF WpsLoop
  <2>3. ASSUME NEW m \in Macs, OnJoined(m), Head(events)[1] = "joined" PROVE WpsLoop'
    <3>1. Taken' # {}
      BY <1>3, <2>3, HandledTable
    <3>2. canceling' => arming
      BY <1>0, <2>3 DEF OnJoined, CancelWps, WpsLoop
    <3>. QED
      BY <2>1, <3>1, <3>2 DEF WpsLoop
  <2>4. ASSUME NEW m \in Macs, OnLeft(m) PROVE WpsLoop'
    <3>1. UNCHANGED canceling /\ (mode = "go" => RearmWps)
      BY <2>4 DEF OnLeft, RearmWps
    <3>. QED
      BY <1>2, <2>1, <3>1 DEF WpsLoop
  <2>. QED
    BY <1>3, <2>2, <2>3, <2>4, HandledIs
<1>4. CASE DoubleClick
  <2>1. UNCHANGED <<arming, canceling>>
    BY <1>4 DEF DoubleClick, RearmWps
  <2>. QED
    BY <1>2, <1>4, <2>1 DEF DoubleClick, WpsLoop
<1>5. CASE WpsRequest
  BY <1>5 DEF WpsRequest, WpsLoop
<1>6. CASE WpsReturns
  BY <1>6 DEF WpsReturns, WpsLoop, AfterRequest
<1>7. CASE Station \/ ApHook \/ WindowEnds \/ UNCHANGED apVars
  <2>1. UNCHANGED <<up, wps, arming, canceling, table>>
    BY <1>7 DEF Station, ApHook, WindowEnds, apVars
  <2>2. UNCHANGED Taken
    BY <2>1 DEF Taken
  <2>. QED
    BY <2>1, <2>2 DEF WpsLoop
<1>. QED
  BY <1>1, <1>3, <1>4, <1>5, <1>6, <1>7 DEF ApNext

\* An event that is queued, with what it does to the stations associated.
LEMMA StationsPosted ==
  ASSUME ApTypeOK, Stations, NEW kind \in {"enabled", "joined", "left"}, NEW m, Posts(kind, m), ~dropped',
         \/ kind = "joined" /\ m \in Macs \ inside /\ Cardinality(inside) < Slots
                            /\ inside' = inside \union {m}
         \/ kind = "left" /\ inside' = inside \ {m}
         \/ kind = "enabled" /\ m = NoMac /\ UNCHANGED inside
  PROVE  Stations'
<1> DEFINE n == Len(events)
           e == <<kind, m>>
           Aft(q, k) == After(Held, q, k)
<1>0. /\ events \in Seq(EventType) /\ n \in Nat /\ n <= MaxEvents
      /\ MaxEvents \in Nat /\ Slots \in Nat /\ NoMac \notin Macs
  BY ApAssumption DEF ApTypeOK, ApAssumption
<1>1. events' = Append(events, e)
  <2>1. Len(events) # MaxEvents
    BY Zenon DEF Posts, Post
  <2>2. Len(events) < MaxEvents
    BY <1>0, <2>1
  <2>. QED
    BY <2>2, Zenon DEF Posts, Post
<1>2. UNCHANGED table
  BY DEF Posts
<1>3. Held' = Held /\ (Single' <=> Single)
  BY <1>2 DEF Held, Taken, Single
<1>4. /\ Len(events') = n + 1 /\ events'[n + 1] = e /\ e[1] = kind /\ e[2] = m
      /\ \A i \in 1 .. n : events'[i] = events[i]
  BY <1>0, <1>1
<1>5. \A k \in 0 .. n : Aft(events', k) = Aft(events, k)
  BY <1>0, <1>1, AfterKept
<1>6. Aft(events, n) = inside
  BY DEF Stations
<1>7. Aft(events', n + 1) = inside'
  <2>1. /\ kind = "joined" /\ m \in Macs => Aft(Append(events, e), n + 1) = Aft(events, n) \union {m}
        /\ kind = "left" => Aft(Append(events, e), n + 1) = Aft(events, n) \ {m}
        /\ m \notin Macs => Aft(Append(events, e), n + 1) = Aft(events, n)
    BY <1>0, AfterPosted
  <2>. HIDE DEF e, n, Aft
  <2>. QED
    BY <1>0, <1>1, <1>6, <2>1
<1>8. IsFiniteSet(inside) /\ Cardinality(inside) <= Slots
  <2>1. n \in 0 .. Len(events)
    BY <1>0
  <2>. QED
    BY <1>6, <2>1 DEF Stations
<1>9. IsFiniteSet(inside') /\ Cardinality(inside') <= Slots
  <2>1. Cardinality(inside) \in Nat
    BY <1>8, FS_CardinalityType
  <2>2. CASE inside' = inside \union {m} /\ Cardinality(inside) < Slots
    <3>1. /\ IsFiniteSet(inside \union {m})
          /\ Cardinality(inside \union {m}) = IF m \in inside THEN Cardinality(inside)
                                              ELSE Cardinality(inside) + 1
      BY <1>8, FS_AddElement
    <3>. QED
      BY <1>0, <2>1, <2>2, <3>1
  <2>3. CASE inside' = inside \ {m}
    <3>1. /\ IsFiniteSet(inside \ {m})
          /\ Cardinality(inside \ {m}) = IF m \in inside THEN Cardinality(inside) - 1
                                         ELSE Cardinality(inside)
      BY <1>8, FS_RemoveElement
    <3>. QED
      BY <1>0, <1>8, <2>1, <2>3, <3>1
  <2>. QED
    BY <1>8, <2>2, <2>3
<1>. HIDE DEF n, e, Aft
<1>10. ASSUME NEW k \in 0 .. n + 1
       PROVE  IsFiniteSet(Aft(events', k)) /\ Cardinality(Aft(events', k)) <= Slots
  <2>1. CASE k = n + 1
    BY <1>7, <1>9, <2>1
  <2>2. CASE k \in 0 .. n
    BY <1>5, <2>2 DEF Stations, Aft, n
  <2>. QED
    BY <1>0, <2>1, <2>2
<1>11. ASSUME NEW i \in 1 .. n + 1, events'[i][1] = "joined"
       PROVE  events'[i][2] \notin Aft(events', i - 1)
  <2>1. CASE i = n + 1
    <3>1. i - 1 = n /\ n \in 0 .. n
      BY <1>0, <2>1
    <3>. QED
      BY <1>4, <1>5, <1>6, <1>11, <2>1, <3>1
  <2>2. CASE i \in 1 .. n
    <3>1. i - 1 \in 0 .. n
      BY <1>0, <2>2
    <3>2. events[i][2] \notin Aft(events, i - 1)
      BY <1>4, <1>11, <2>2 DEF Stations, Aft, n
    <3>. QED
      BY <1>4, <1>5, <2>2, <3>1, <3>2
  <2>. QED
    BY <1>0, <2>1, <2>2
<1>12. Single'
  BY <1>3 DEF Stations
<1>. QED
  BY <1>3, <1>4, <1>7, <1>10, <1>11, <1>12 DEF Stations, Aft

\* The event that is handled moves the table one step along the queue: there is
\* a slot for a station that joins, as it was not over the number of slots.
LEMMA StationsTaken ==
  ASSUME ApTypeOK, Stations, ApEvent
  PROVE  Stations'
<1> DEFINE n == Len(events)
           e == Head(events)
<1>0. /\ events \in Seq(EventType) /\ events # << >> /\ n \in Nat /\ n >= 1
      /\ Slots \in Nat /\ NoMac \notin Macs /\ TableOK /\ e = events[1]
  BY ApAssumption DEF ApTypeOK, ApAssumption, TableOK, ApEvent
<1>1. events' = Tail(events) /\ inside' = inside
  BY DEF ApEvent
<1>2. /\ Len(events') = n - 1
      /\ \A i \in 1 .. n - 1 : events'[i] = events[i + 1]
  BY <1>0, <1>1
<1>3. Single /\ IsFiniteSet(Held) /\ Held \subseteq Macs
  BY <1>0, FullTable DEF Stations, Held, Taken, TableOK
<1>4. \A kind, m : e = <<kind, m>> =>
        /\ kind = "joined" /\ m \in Macs => After(Held, events, 1) = Held \union {m}
        /\ kind = "left" => After(Held, events, 1) = Held \ {m}
        /\ kind = "enabled" /\ m \notin Macs => After(Held, events, 1) = Held
  <2>1. \A mac \in Macs : mac \in After(Held, events, 1) <=>
                            e = <<"joined", mac>> \/ (mac \in Held /\ e[2] # mac)
    BY <1>0 DEF After
  <2>2. After(Held, events, 1) \subseteq Macs
    BY DEF After
  <2>. HIDE DEF e
  <2>. QED
    BY <1>3, <2>1, <2>2
<1>5. Single' /\ Held' = After(Held, events, 1)
  <2>1. CASE e = <<"enabled", NoMac>> /\ OnEnabled
    BY <1>0, <1>3, <1>4, <2>1 DEF OnEnabled, Single, Held, Taken
  <2>2. ASSUME NEW m \in Macs, e = <<"joined", m>>, OnJoined(m)
        PROVE  Single' /\ Held' = After(Held, events, 1)
    <3>1. After(Held, events, 1) = Held \union {m}
      BY <1>4, <2>2
    <3>2. m \notin Held
      <4>1. After(Held, events, 0) = Held
        BY <1>3 DEF After
      <4>2. 1 \in 1 .. Len(events) /\ 1 - 1 = 0 /\ events[1] = <<"joined", m>>
        BY <1>0, <2>2
      <4>3. events[1][2] \notin After(Held, events, 0)
        BY <4>2 DEF Stations
      <4>. QED
        BY <4>1, <4>2, <4>3
    <3>3. Taken # 1 .. Slots
      <4>1. 1 \in 0 .. Len(events)
        BY <1>0
      <4>2. Cardinality(Held \union {m}) <= Slots
        BY <3>1, <4>1 DEF Stations
      <4>3. Cardinality(Held) \in Nat /\ Cardinality(Held \union {m}) = Cardinality(Held) + 1
        BY <1>3, <3>2, FS_AddElement, FS_CardinalityType
      <4>4. Cardinality(Held) < Slots
        BY <1>0, <4>2, <4>3
      <4>. QED
        BY <1>0, <1>3, <4>4, FullTable
    <3>. QED
      BY <1>0, <1>3, <2>2, <3>1, <3>2, <3>3, RecordedIs DEF OnJoined
  <2>3. ASSUME NEW m \in Macs, e = <<"left", m>>, OnLeft(m)
        PROVE  Single' /\ Held' = After(Held, events, 1)
    <3>1. After(Held, events, 1) = Held \ {m}
      BY <1>4, <2>3
    <3>. QED
      BY <1>0, <1>3, <2>3, <3>1, RemovedIs DEF OnLeft
  <2>. QED
    BY <2>1, <2>2, <2>3, HandledIs
<1>6. ASSUME NEW k \in 0 .. n - 1
      PROVE  After(Held', events', k) = After(Held, events, k + 1)
  BY <1>0, <1>1, <1>5, <1>6, AfterTaken
<1>7. inside' = After(Held', events', n - 1)
  <2>1. n - 1 \in 0 .. n - 1 /\ (n - 1) + 1 = n
    BY <1>0
  <2>. QED
    BY <1>1, <1>6, <2>1 DEF Stations
<1>8. ASSUME NEW k \in 0 .. n - 1
      PROVE  IsFiniteSet(After(Held', events', k)) /\ Cardinality(After(Held', events', k)) <= Slots
  <2>1. k + 1 \in 0 .. Len(events)
    BY <1>0
  <2>. QED
    BY <1>6, <2>1 DEF Stations
<1>9. ASSUME NEW i \in 1 .. n - 1, events'[i][1] = "joined"
      PROVE  events'[i][2] \notin After(Held', events', i - 1)
  <2>1. i + 1 \in 1 .. Len(events) /\ i - 1 \in 0 .. n - 1 /\ (i - 1) + 1 = i /\ (i + 1) - 1 = i
    BY <1>0
  <2>2. events[i + 1][2] \notin After(Held, events, (i + 1) - 1)
    BY <1>2, <1>9, <2>1 DEF Stations
  <2>. QED
    BY <1>2, <1>6, <2>1, <2>2
<1>. QED
  BY <1>2, <1>5, <1>7, <1>8, <1>9 DEF Stations

LEMMA StationsKeep ==
  ASSUME ApTypeOK, ~dropped => Stations, ApNext
  PROVE  ~dropped' => Stations'
<1>. SUFFICES ASSUME ~dropped' PROVE Stations'
  OBVIOUS
<1>0. inside \subseteq Macs
  BY DEF ApTypeOK
<1>1. ASSUME NEW kind, NEW m, Posts(kind, m)
      PROVE  Stations /\ kind \in {"enabled", "joined", "left"}
  <2>1. ~dropped
    BY <1>1 DEF Posts, Post
  <2>2. <<kind, m>>[1] = kind /\ <<kind, m>> \in EventType
    BY <1>1 DEF Posts
  <2>. QED
    BY <2>1, <2>2, EventsAre
<1>2. CASE \E m \in Macs \ inside : /\ Cardinality(inside) < Slots
                                      /\ Posts("joined", m) /\ inside' = inside \union {m}
  BY <1>1, <1>2, StationsPosted
<1>3. CASE \E m \in inside : Posts("left", m) /\ inside' = inside \ {m}
  BY <1>1, <1>3, StationsPosted
<1>4. CASE Posts("enabled", NoMac) /\ UNCHANGED inside
  BY <1>1, <1>4, StationsPosted
<1>5. CASE ApEvent
  BY <1>5, StationsTaken DEF ApEvent
<1>6. CASE Others
  <2>1. UNCHANGED <<events, table, inside, dropped>>
    BY <1>6 DEF Others
  <2>2. UNCHANGED Held /\ (Single' <=> Single)
    BY <2>1 DEF Held, Taken, Single
  <2>. QED
    BY <2>1, <2>2 DEF Stations
<1>. QED
  BY <1>0, <1>2, <1>3, <1>4, <1>5, <1>6, StepsAre, Zenon

----------------------------------------------------------------------------
LEMMA ApStarts == ApInit => ApInv
<1>. SUFFICES ASSUME ApInit PROVE ApInv
  OBVIOUS
<1>0. /\ 1 .. Slots # {} /\ NoMac \notin Macs /\ Slots \in Nat /\ MaxEvents \in Nat
      /\ events = << >> /\ todo = << >> /\ inside = {} /\ ~busy /\ told = "none"
      /\ mode \in {"softap", "go"} /\ ~up /\ ~canceling
  <2>1. 1 .. Slots # {} /\ NoMac \notin Macs /\ Slots \in Nat /\ MaxEvents \in Nat
    BY ApAssumption DEF ApAssumption
  <2>2. ~busy /\ told = "none"
    BY Zenon DEF ApInit, Init
  <2>3. mode \in {"softap", "go"}
    BY ApAssumption DEF ApInit, Init, ApAssumption
  <2>. QED
    BY <2>1, <2>2, <2>3 DEF ApInit
<1>1. UxInv
  BY InitHolds DEF ApInit
<1>2. Taken = {} /\ Held = {}
  BY DEF ApInit, Taken, Held
<1>3. ApTypeOK
  <2>1. TypeOK
    BY <1>1 DEF UxInv
  <2>2. events \in Seq(EventType) /\ Len(events) <= MaxEvents /\ todo \in Seq(States)
    BY <1>0
  <2>3. table \in [1 .. Slots -> Macs \union {NoMac}]
    BY DEF ApInit
  <2>. QED
    BY <2>1, <2>2, <2>3 DEF ApInit, ApTypeOK
<1>4. Beginning
  BY <1>0, <1>2 DEF Beginning
<1>5. TellsClients
  BY <1>0, <1>2 DEF TellsClients, Todos, ToTell
<1>6. WpsLoop
  BY <1>0 DEF WpsLoop
<1>7. Stations
  <2>1. Len(events) = 0 /\ 1 .. 0 = {}
    BY <1>0
  <2>2. \A k \in 0 .. 0 : After(Held, events, k) = {}
    BY <1>2, <2>1 DEF After
  <2>3. IsFiniteSet({}) /\ Cardinality({}) <= Slots
    BY <1>0, FS_EmptySet
  <2>4. \A k \in 0 .. Len(events) :
          IsFiniteSet(After(Held, events, k)) /\ Cardinality(After(Held, events, k)) <= Slots
    BY <2>1, <2>2, <2>3
  <2>5. inside = After(Held, events, Len(events))
    BY <1>0, <2>1, <2>2
  <2>. QED
    BY <1>2, <2>1, <2>4, <2>5 DEF Stations, Single
<1>. QED
  BY <1>1, <1>3, <1>4, <1>5, <1>6, <1>7 DEF ApInv

LEMMA ApNextKeeps == ASSUME ApInv, [ApNext]_allVars PROVE ApInv'
<1>. USE DEF ApInv
<1>1. CASE ApNext
  <2>0. todo \in Todos
    BY DEF TellsClients
  <2>1. UxInv' /\ mode' = mode
    BY <1>1, <2>0, UxOfAp
  <2>2. Beginning'
    BY <1>1, <2>0, BeginningKeeps
  <2>3. TellsClients'
    BY <1>1, TellsKeep
  <2>4. WpsLoop'
    BY <1>1, <2>1, WpsKeeps
  <2>5. ~dropped' => Stations'
    BY <1>1, StationsKeep
  <2>6. ApTypeOK'
    <3>1. TypeOK'
      BY <2>1 DEF UxInv
    <3>2. todo' \in Seq(States)
      <4>1. Todos \subseteq Seq(States)
        BY DEF Todos, States
      <4>. QED
        BY <2>3, <4>1 DEF TellsClients
    <3>3. /\ inside' \subseteq Macs /\ TableOK' /\ dropped' \in BOOLEAN
          /\ events' \in Seq(EventType) /\ Len(events') <= MaxEvents
      BY <1>1, ApQueueTypes
    <3>4. /\ up' \in BOOLEAN /\ remind' \in BOOLEAN /\ arming' \in BOOLEAN
          /\ canceling' \in BOOLEAN /\ window' \in BOOLEAN /\ wps' \subseteq {"now", "later"}
      BY <1>1, ApFlagTypes
    <3>. QED
      BY <3>1, <3>2, <3>3, <3>4, Zenon DEF ApTypeOK, TableOK
  <2>. QED
    BY <2>1, <2>2, <2>3, <2>4, <2>5, <2>6
<1>2. CASE UNCHANGED allVars
  <2>1. UNCHANGED uxVars /\ UNCHANGED apVars
    BY <1>2 DEF allVars
  <2>2. UxInv'
    <3>1. budget' \in 0 .. Budget
      BY <2>1 DEF uxVars, UxInv, TypeOK
    <3>. QED
      BY <2>1, <3>1, StillKeeps DEF uxVars
  <2>3. mode' = mode /\ busy' = busy /\ told' = told /\ episode' = episode
    BY <2>1 DEF uxVars
  <2>4. Taken' = Taken /\ Held' = Held /\ (Single' <=> Single) /\ ToTell' = ToTell
    BY <2>1, <2>3 DEF apVars, Taken, Held, Single, ToTell
  <2>5. ApTypeOK'
    BY <2>1, <2>2 DEF apVars, ApTypeOK, UxInv
  <2>6. Beginning' /\ TellsClients' /\ WpsLoop'
    BY <2>1, <2>3, <2>4 DEF apVars, Beginning, TellsClients, WpsLoop
  <2>7. ~dropped' => Stations'
    BY <2>1, <2>4 DEF apVars, Stations
  <2>. QED
    BY <2>2, <2>5, <2>6, <2>7
<1>. QED
  BY <1>1, <1>2

\* The inductive invariant holds in every reachable state.
THEOREM ApInvariant == ApSpec => []ApInv
  BY ApStarts, ApNextKeeps, PTL DEF ApSpec

\* Every variable keeps its type, for any number of stations, slots and events.
THEOREM ApTypeCorrect == ApSpec => []ApTypeOK
<1>1. ApInv => ApTypeOK
  BY DEF ApInv
<1>. QED
  BY <1>1, ApInvariant, PTL

\* l2_ap_event_handler's table is, at every moment, what the events it has
\* handled say, whatever order the stations come and go in.
THEOREM TableFollowsHolds == ApSpec => []TableFollows
<1>1. ApInv => TableFollows
  BY DEF ApInv, Stations, Single, TableFollows
<1>. QED
  BY <1>1, ApInvariant, PTL

\* A device at rest shows whether a client is associated, unless the LED brick
\* ignores the ON; one that an ended pairing window left at "connecting" shows
\* that.
THEOREM ShowsClientsHolds == ApSpec => []ShowsClients
<1>1. ApInv => ShowsClients
  <2>. SUFFICES ASSUME ApInv, Settled, ~episode
                PROVE  IF inside = {} \/ told = "connecting" THEN lamp = "rotate"
                       ELSE lamp = "on" \/ OnIgnored
    BY DEF ShowsClients
  <2>0. UxInv /\ Beginning /\ TellsClients /\ Stations /\ Quiet /\ events = << >> /\ todo = << >>
    BY DEF ApInv, Settled
  <2>1. lamp = Wanted \/ (Wanted = "on" /\ OnIgnored)
    BY <2>0, RestShows DEF ShowsLast
  <2>2. ~ble
    BY <2>0 DEF UxInv, OneSource, Beginning
  <2>3. inside = {} <=> Taken = {}
    <3>1. inside \subseteq Macs /\ Held \subseteq Macs
      BY DEF ApInv, ApTypeOK, Held, Taken
    <3>2. Len(events) = 0 /\ 1 .. 0 = {}
      BY <2>0
    <3>3. After(Held, events, Len(events)) = Held
      BY <3>1, <3>2 DEF After
    <3>4. Held = {} <=> Taken = {}
      BY DEF Held
    <3>. QED
      BY <2>0, <3>3, <3>4 DEF Stations
  <2>4. CASE told = "connecting"
    <3>1. Wanted = "rotate"
      BY <2>2, <2>4 DEF Wanted, Effect
    <3>. QED
      BY <2>1, <2>4, <3>1
  <2>5. CASE told # "connecting"
    <3>1. told \in {"none", "softap", "connected"}
      BY <2>0, <2>5 DEF TellsClients, UxInv, TypeOK, States
    <3>2. told = "connected" <=> Taken # {}
      BY <2>0, <3>1 DEF TellsClients, ToTell
    <3>3. Wanted = IF inside = {} THEN "rotate" ELSE "on"
      BY <2>2, <2>3, <3>1, <3>2 DEF Wanted, Effect
    <3>. QED
      BY <2>1, <2>5, <3>3
  <2>. QED
    BY <2>4, <2>5
<1>. QED
  BY <1>1, ApInvariant, PTL

\* p2p_go_wps_retry_work: without a client a device at rest always has the
\* next WPS request scheduled or under way.
THEOREM StaysConnectableHolds == ApSpec => []StaysConnectable
<1>1. ApInv => StaysConnectable
  <2>. SUFFICES ASSUME ApInv, Settled, mode = "go", inside = {}
                PROVE  wps # {} \/ arming
    BY DEF StaysConnectable
  <2>0. WpsLoop /\ Stations /\ events = << >> /\ up
    BY DEF ApInv, Settled
  <2>1. Held \subseteq Macs
    BY DEF ApInv, ApTypeOK, Held, Taken
  <2>2. Len(events) = 0 /\ 1 .. 0 = {}
    BY <2>0
  <2>3. After(Held, events, Len(events)) = Held
    BY <2>1, <2>2 DEF After
  <2>4. Taken = {}
    BY <2>0, <2>3 DEF Stations, Held
  <2>. QED
    BY <2>0, <2>4 DEF WpsLoop
<1>. QED
  BY <1>1, ApInvariant, PTL

----------------------------------------------------------------------------
(* BleAdv.                                                                 *)

\* Bluetooth runs in STA mode only, and from the end of its start on.
Powered ==
  /\ bt \/ event \/ hook => mode = "sta"
  /\ ~bt => enabled /\ adv = "off" /\ ~conn /\ ~param /\ ~data /\ step = "idle"

\* SwitchDecides; once the switch is off, whatever might still start the
\* advertising goes back to a phone or a restart at that moment.
Switched ==
  /\ bt /\ enabled /\ ~conn /\ ~refused => adv # "off" \/ param \/ step = "stopped"
  /\ ~enabled /\ (adv # "off" \/ conn \/ param \/ step = "stopped") => restarts

\* A refresh of the advertisement is on its way, and not begun.
Refresh == data \/ event \/ hook

\* What the running refresh will set the flags to.
Renewed == [prov |-> flags.prov, link |-> sampled]

\* Without a phone, a flag whose refresh was not lost is true or about to be, so
\* is what it is refreshed from, and what is advertised is the flag.
Refreshed ==
  bt /\ ~conn => \A f \in Both \ missed :
    /\ flags[f] = Actual[f] \/ step = "asked" \/ Refresh
    /\ step = "asked" => Renewed[f] = Actual[f] \/ Refresh
    /\ adv # "off" => shown[f] = flags[f] \/ shown[f] = Actual[f] \/ step = "asked" \/ Refresh

AdvInv == UxInv /\ AdvTypeOK /\ Powered /\ Switched /\ (AppTells => Refreshed)

AdvFlags ==
  /\ bt \in BOOLEAN /\ conn \in BOOLEAN /\ param \in BOOLEAN /\ data \in BOOLEAN
  /\ sampled \in BOOLEAN /\ cancelled \in BOOLEAN /\ enabled \in BOOLEAN /\ creds \in BOOLEAN
  /\ linked \in BOOLEAN /\ event \in BOOLEAN /\ hook \in BOOLEAN
  /\ restarts \in BOOLEAN /\ refused \in BOOLEAN

AdvKinds ==
  /\ adv \in {"off", "fast", "slow"}
  /\ shown \in Flags /\ flags \in Flags
  /\ step \in {"idle", "stopped", "asked"}

LEMMA AdvTypes ==
  AdvTypeOK <=> TypeOK /\ AdvFlags /\ AdvKinds /\ missed \subseteq Both /\ (conn => adv = "off")
  BY Zenon DEF AdvTypeOK, AdvFlags, AdvKinds

\* The host's answers.
LEMMA AnswersAre ==
  ASSUME AdvFlags, AdvKinds, budget \in 0 .. Budget, NEW f \in Flags, AdvStart(f) \/ AdvStop
  PROVE  /\ budget' \in 0 .. Budget /\ refused' \in BOOLEAN
         /\ adv' \in {"off", "fast", "slow"} /\ shown' \in Flags
<1>1. budget' = budget \/ Spend
  BY DEF AdvStart, AdvStop, Refuses
<1>2. budget' \in 0 .. Budget
  BY <1>1, SpendBounded
<1>3. refused' \in BOOLEAN
  BY DEF AdvStart, AdvStop, Refuses
<1>4. adv' \in {"off", "fast", "slow"}
  BY DEF AdvStart, AdvStop, Refuses, Speed, AdvKinds
<1>5. NoFlags \in Flags
  BY DEF NoFlags, Flags
<1>6. shown' \in Flags
  BY <1>5 DEF AdvStart, AdvStop, Refuses, AdvKinds
<1>. QED
  BY <1>2, <1>3, <1>4, <1>6

\* wifi_ble_prov_init sets the flags to what they ought to be, but for a link
\* bit whose query failed.
LEMMA BleInitFlags ==
  ASSUME AdvFlags, BleInit
  PROVE  /\ flags' \in Flags /\ missed' \subseteq Both
         /\ \A f \in Both \ missed' : flags'[f] = Actual[f]
<1>1. flags' \in Flags
  <2>1. Actual \in Flags
    BY DEF Actual, Flags, AdvFlags
  <2>2. [Actual EXCEPT !.link = FALSE] \in Flags
    BY <2>1, Zenon DEF Flags
  <2>. QED
    BY <2>1, <2>2 DEF BleInit
<1>2. missed' \subseteq Both
  BY DEF BleInit, Both
<1>3. ASSUME NEW f \in Both \ missed'
      PROVE  flags'[f] = Actual[f]
  <2>1. CASE flags' = Actual
    BY <2>1
  <2>2. CASE flags' # Actual
    <3>1. flags' = [Actual EXCEPT !.link = FALSE] /\ f = "prov"
      BY <1>3, <2>2 DEF BleInit, Both
    <3>2. [Actual EXCEPT !.link = FALSE].prov = Actual.prov
      BY DEF Actual
    <3>. QED
      BY <3>1, <3>2
  <2>. QED
    BY <2>1, <2>2
<1>. QED
  BY <1>1, <1>2, <1>3

\* For the UX brick every step is one of its own, or none.
LEMMA UxOfAdv ==
  ASSUME UxInv, AdvTypeOK, Powered, AdvNext
  PROVE  UxInv'
<1>0. /\ AdvFlags /\ AdvKinds /\ budget \in 0 .. Budget /\ flags \in Flags /\ Actual \in Flags
      /\ conn \in BOOLEAN
  BY AdvTypes DEF TypeOK, AdvKinds, Actual, Flags, AdvFlags
<1>1. CASE UxAlone
  BY <1>1, UxStepKeeps, LongPressKeeps, WorkHookKeeps DEF UxAlone
<1>2. CASE BleInit
  <2>0. flags' \in Flags /\ AdvStart(flags')
    BY <1>0, <1>2, BleInitFlags DEF BleInit
  <2>1. budget' \in 0 .. Budget
    BY <1>0, <2>0, AnswersAre
  <2>. QED
    BY <1>2, <2>1, StillKeeps DEF BleInit
<1>3. CASE PhoneConnects
  <2>1. budget' \in 0 .. Budget /\ BleConn(TRUE)
    BY <1>0, <1>3, SpendBounded DEF PhoneConnects
  <2>2. mode = "sta"
    BY <1>0, <1>3 DEF PhoneConnects, Powered, AdvFlags
  <2>. QED
    BY <2>1, <2>2, BleConnKeeps
<1>4. CASE PhoneLeaves
  <2>1. budget' \in 0 .. Budget /\ BleConn(FALSE)
    BY <1>0, <1>4 DEF PhoneLeaves
  <2>2. mode = "sta"
    BY <1>0, <1>4 DEF PhoneLeaves, Powered, AdvFlags
  <2>. QED
    BY <2>1, <2>2, BleConnKeeps
<1>5. CASE Provision \/ WifiChan
  <2>1. UNCHANGED uxVars
    BY <1>5 DEF Provision, WifiChan
  <2>2. budget' \in 0 .. Budget
    BY <1>0, <2>1 DEF uxVars
  <2>. QED
    BY <2>1, <2>2, StillKeeps DEF uxVars
<1>6. CASE ParamStop \/ ParamStart \/ Toggle \/ LinkChanges
  <2>1. AdvStart(flags) \/ AdvStop \/ Spend
    BY <1>6 DEF ParamStop, ParamStart, Toggle, Advertise, LinkChanges
  <2>2. budget' \in 0 .. Budget
    BY <1>0, <2>1, AnswersAre, SpendBounded
  <2>. QED
    BY <1>6, <2>2, StillKeeps DEF ParamStop, ParamStart, Toggle, LinkChanges
<1>7. CASE AppHook
  <2>1. CASE NetHook
    BY <2>1, NetHookKeeps
  <2>2. ASSUME NEW s \in {"connected", "connecting"}, NetPublish(s), UNCHANGED budget
        PROVE  UxInv'
    BY <1>0, <2>2, NetPublishKeeps DEF States
  <2>. QED
    BY <1>7, <2>1, <2>2 DEF AppHook
<1>8. CASE AdvReboot
  BY <1>8, RebootKeeps DEF AdvReboot
<1>9. CASE ShellCred \/ DataAsk \/ DataShow
  <2>1. budget' = budget \/ Spend
    BY <1>9 DEF ShellCred, DataAsk, DataShow, UpdateData
  <2>2. budget' \in 0 .. Budget
    BY <1>0, <2>1, SpendBounded
  <2>. QED
    BY <1>9, <2>2, StillKeeps DEF ShellCred, DataAsk, DataShow
<1>. QED
  BY <1>1, <1>2, <1>3, <1>4, <1>5, <1>6, <1>7, <1>8, <1>9 DEF AdvNext

LEMMA AdvFlagsKeep ==
  ASSUME AdvFlags, AdvNext
  PROVE  AdvFlags'
<1>. USE DEF AdvFlags
<1>1. ASSUME NEW f, AdvStart(f) \/ AdvStop
      PROVE  refused' \in BOOLEAN
  BY <1>1 DEF AdvStart, AdvStop, Refuses
<1>2. CASE UxAlone /\ UNCHANGED advVars
  BY <1>2 DEF advVars
<1>3. CASE BleInit
  <2>1. refused' \in BOOLEAN
    BY <1>1, <1>3 DEF BleInit
  <2>2. data' \in BOOLEAN
    BY <1>3, Zenon DEF BleInit
  <2>. QED
    BY <1>3, <2>1, <2>2 DEF BleInit
<1>4. CASE PhoneConnects
  BY <1>4 DEF PhoneConnects
<1>5. CASE PhoneLeaves
  BY <1>5 DEF PhoneLeaves, Restart
<1>6. CASE Provision \/ ShellCred
  <2>1. creds' \in BOOLEAN
    BY <1>6, Zenon DEF Provision, ShellCred
  <2>. QED
    BY <1>6, <2>1 DEF Provision, ShellCred
<1>7. CASE ParamStop \/ ParamStart
  <2>1. refused' \in BOOLEAN
    BY <1>1, <1>7 DEF ParamStop, ParamStart
  <2>2. /\ param' \in BOOLEAN
        /\ UNCHANGED <<bt, conn, data, sampled, cancelled, enabled, creds, linked, event, hook,
                       restarts>>
    BY <1>7 DEF ParamStop, ParamStart
  <2>. QED
    BY <2>1, <2>2
<1>8. CASE DataAsk
  <2>1. sampled' \in BOOLEAN
    BY <1>8, Zenon DEF DataAsk
  <2>. QED
    BY <1>8, <2>1 DEF DataAsk
<1>9. CASE DataShow
  <2>1. data' \in BOOLEAN
    BY <1>9, Zenon DEF DataShow
  <2>. QED
    BY <1>9, <2>1 DEF DataShow
<1>10. CASE Toggle
  <2>1. enabled' \in BOOLEAN /\ restarts' \in BOOLEAN
    BY <1>10, Zenon DEF Toggle
  <2>2. refused' \in BOOLEAN
    BY <1>1, <1>10 DEF Toggle, Advertise
  <2>. QED
    BY <1>10, <2>1, <2>2 DEF Toggle
<1>11. CASE LinkChanges
  <2>1. linked' \in BOOLEAN
    BY <1>11, Zenon DEF LinkChanges
  <2>. QED
    BY <1>11, <2>1 DEF LinkChanges
<1>12. CASE AppHook
  <2>1. hook' \in BOOLEAN
    BY <1>12, BleAdvAssumption DEF AppHook, BleAdvAssumption
  <2>. QED
    BY <1>12, <2>1 DEF AppHook
<1>13. CASE WifiChan
  <2>1. data' \in BOOLEAN
    BY <1>13, Zenon DEF WifiChan, News
  <2>. QED
    BY <1>13, <2>1 DEF WifiChan
<1>14. CASE AdvReboot
  BY <1>14 DEF AdvReboot
<1>. QED
  BY <1>2, <1>3, <1>4, <1>5, <1>6, <1>7, <1>8, <1>9, <1>10, <1>11, <1>12, <1>13, <1>14 DEF AdvNext

LEMMA MissedKeeps ==
  ASSUME missed \subseteq Both, AdvFlags, AdvNext
  PROVE  missed' \subseteq Both
<1>. USE DEF Both
<1>1. CASE UxAlone /\ UNCHANGED advVars
  BY <1>1 DEF advVars
<1>2. CASE BleInit
  BY <1>2, BleInitFlags
<1>3. CASE PhoneConnects \/ PhoneLeaves \/ Provision \/ AppHook \/ AdvReboot
  BY <1>3 DEF PhoneConnects, PhoneLeaves, Provision, AppHook, AdvReboot
<1>4. CASE ParamStop \/ ParamStart \/ Toggle \/ LinkChanges
  BY <1>4 DEF ParamStop, ParamStart, Toggle, LinkChanges
<1>5. CASE ShellCred
  BY <1>5 DEF ShellCred
<1>6. CASE DataAsk
  BY <1>6 DEF DataAsk
<1>7. CASE DataShow
  BY <1>7 DEF DataShow, UpdateData
<1>8. CASE WifiChan
  BY <1>8 DEF WifiChan, News
<1>. QED
  BY <1>1, <1>2, <1>3, <1>4, <1>5, <1>6, <1>7, <1>8 DEF AdvNext

LEMMA AdvKindsKeep ==
  ASSUME AdvFlags, AdvKinds, budget \in 0 .. Budget, conn => adv = "off", AdvNext
  PROVE  AdvKinds' /\ (conn' => adv' = "off")
<1>0. /\ AdvKinds /\ flags \in Flags /\ Actual \in Flags /\ NoFlags \in Flags
  BY DEF AdvKinds, AdvFlags, Actual, NoFlags, Flags
<1>1. ASSUME NEW f \in Flags, AdvStart(f) \/ AdvStop, conn' = conn
      PROVE  /\ adv' \in {"off", "fast", "slow"} /\ shown' \in Flags
             /\ conn' => adv' = "off"
  <2>1. conn' => adv' = "off"
    BY <1>1 DEF AdvStart, AdvStop, Refuses
  <2>. QED
    BY <1>1, <2>1, AnswersAre
<1>2. CASE UxAlone /\ UNCHANGED advVars
  BY <1>2 DEF advVars, AdvKinds
<1>3. CASE BleInit
  <2>1. AdvStart(flags') /\ flags' \in Flags /\ step' = step /\ conn' = conn
    BY <1>3, BleInitFlags DEF BleInit
  <2>. QED
    BY <1>0, <1>1, <2>1 DEF AdvKinds
<1>4. CASE PhoneConnects
  BY <1>0, <1>4 DEF PhoneConnects, AdvKinds
<1>5. CASE PhoneLeaves
  BY <1>5 DEF PhoneLeaves, AdvKinds
<1>6. CASE Provision \/ ShellCred
  BY <1>6 DEF Provision, ShellCred, AdvKinds
<1>7. CASE ParamStop \/ ParamStart
  <2>1. /\ AdvStart(flags) \/ AdvStop
        /\ step' \in {"idle", "stopped"} /\ UNCHANGED <<flags, conn>>
    BY <1>7 DEF ParamStop, ParamStart
  <2>. QED
    BY <1>0, <1>1, <2>1 DEF AdvKinds
<1>8. CASE DataAsk
  <2>1. flags' \in Flags
    BY <1>0, <1>8, Zenon DEF DataAsk, Flags, AdvFlags
  <2>. QED
    BY <1>8, <2>1 DEF DataAsk, AdvKinds
<1>9. CASE DataShow
  <2>1. Updated \in Flags
    BY <1>0, Zenon DEF Updated, Flags, AdvFlags
  <2>2. shown' \in Flags
    BY <1>9, <2>1 DEF DataShow, UpdateData, AdvKinds
  <2>. QED
    BY <1>9, <2>1, <2>2 DEF DataShow, AdvKinds
<1>10. CASE Toggle
  <2>1. (AdvStart(flags) \/ AdvStop) /\ UNCHANGED <<flags, step, conn>>
    BY <1>10 DEF Toggle, Advertise
  <2>. QED
    BY <1>0, <1>1, <2>1 DEF AdvKinds
<1>11. CASE LinkChanges \/ AppHook \/ WifiChan
  BY <1>11 DEF LinkChanges, AppHook, WifiChan, AdvKinds
<1>12. CASE AdvReboot
  BY <1>0, <1>12 DEF AdvReboot, AdvKinds
<1>. QED
  BY <1>2, <1>3, <1>4, <1>5, <1>6, <1>7, <1>8, <1>9, <1>10, <1>11, <1>12 DEF AdvNext

LEMMA PoweredKeeps ==
  ASSUME AdvFlags, AdvKinds, Powered, mode' = mode \/ AdvReboot, AdvNext
  PROVE  Powered'
<1>. USE DEF AdvFlags, AdvKinds, Powered
<1>1. CASE UxAlone /\ UNCHANGED advVars
  <2>1. ~AdvReboot \/ mode' = mode
    BY <1>1 DEF AdvReboot, Reboot, UxAlone, UxStep, NetDecide, NetPend, NetSubmit, LedWork_fn, LedShows,
                InitStep, LongPress, WorkHook, WorkPublish
  <2>. QED
    BY <1>1, <2>1 DEF advVars
<1>2. CASE BleInit
  BY <1>2 DEF BleInit
<1>3. CASE PhoneConnects \/ PhoneLeaves
  BY <1>3 DEF PhoneConnects, PhoneLeaves, BleConn
<1>4. CASE Provision \/ ShellCred \/ DataAsk \/ DataShow \/ WifiChan
  BY <1>4 DEF Provision, ShellCred, DataAsk, DataShow, WifiChan, uxVars
<1>5. CASE ParamStop \/ ParamStart \/ LinkChanges
  BY <1>5 DEF ParamStop, ParamStart, LinkChanges
<1>6. CASE Toggle
  BY <1>6 DEF Toggle
<1>7. CASE AppHook
  BY <1>7 DEF AppHook, NetHook, NetPublish
<1>8. CASE AdvReboot
  BY <1>8 DEF AdvReboot
<1>. QED
  BY <1>1, <1>2, <1>3, <1>4, <1>5, <1>6, <1>7, <1>8 DEF AdvNext

\* A phone that leaves and a work that is running start the advertising again;
\* both were there when the switch went off, or the switch is on.
LEMMA SwitchedKeeps ==
  ASSUME AdvFlags, AdvKinds, conn => adv = "off", Powered, Switched, AdvNext
  PROVE  Switched'
<1>. USE DEF AdvFlags, AdvKinds, Switched
<1>1. CASE UxAlone /\ UNCHANGED advVars
  BY <1>1 DEF advVars
<1>2. CASE BleInit
  BY <1>2 DEF BleInit, AdvStart, Refuses, Speed, Powered
<1>3. CASE PhoneConnects
  BY <1>3 DEF PhoneConnects
<1>4. CASE PhoneLeaves
  BY <1>4 DEF PhoneLeaves, Restart
<1>5. CASE Provision \/ ShellCred \/ DataAsk \/ DataShow \/ LinkChanges \/ AppHook \/ WifiChan
  BY <1>5 DEF Provision, ShellCred, DataAsk, DataShow, LinkChanges, AppHook, WifiChan
<1>6. CASE ParamStop
  BY <1>6 DEF ParamStop, AdvStop, Refuses
<1>7. CASE ParamStart
  BY <1>7 DEF ParamStart, AdvStart, Refuses, Speed
<1>8. CASE Toggle
  <2>1. /\ enabled' = ~enabled
        /\ restarts' <=> enabled /\ (conn \/ param \/ step = "stopped" \/ refused')
        /\ UNCHANGED <<bt, conn, param, step>>
    BY <1>8, Zenon DEF Toggle
  <2>2. CASE enabled
    <3>1. AdvStop
      BY <1>8, <2>1, <2>2 DEF Toggle, Advertise
    <3>. QED
      BY <2>1, <2>2, <3>1 DEF AdvStop, Refuses
  <2>3. CASE ~enabled
    <3>1. AdvStart(flags)
      BY <1>8, <2>1, <2>3 DEF Toggle, Advertise
    <3>. QED
      BY <2>1, <2>3, <3>1 DEF AdvStart, Refuses, Speed
  <2>. QED
    BY <2>2, <2>3
<1>9. CASE AdvReboot
  BY <1>9 DEF AdvReboot
<1>. QED
  BY <1>1, <1>2, <1>3, <1>4, <1>5, <1>6, <1>7, <1>8, <1>9 DEF AdvNext

LEMMA RefreshedKeeps ==
  ASSUME AppTells, AdvFlags, AdvKinds, conn => adv = "off", Powered, Refreshed, AdvNext
  PROVE  Refreshed'
<1>. USE DEF AdvFlags, AdvKinds, Refresh
<1>1. CASE UxAlone /\ UNCHANGED advVars
  BY <1>1 DEF advVars, Refreshed, Actual, Renewed
<1>2. CASE BleInit
  <2>1. /\ AdvStart(flags') /\ step' = "idle" /\ Actual' = Actual
        /\ adv = "off" /\ ~conn /\ ~conn'
    BY <1>2 DEF BleInit, Actual, Powered
  <2>2. adv' # "off" => shown' = flags'
    BY <2>1 DEF AdvStart, Refuses
  <2>3. \A f \in Both' \ missed' : flags'[f] = Actual[f]
    BY <1>2, BleInitFlags DEF Both
  <2>. QED
    BY <2>1, <2>2, <2>3 DEF Refreshed
<1>3. CASE PhoneConnects
  BY <1>3 DEF PhoneConnects, Refreshed
<1>4. CASE PhoneLeaves
  BY <1>4 DEF PhoneLeaves, Restart, Refreshed
<1>5. CASE Provision
  BY <1>5 DEF Provision, Refreshed
<1>6. CASE ParamStop \/ ParamStart \/ Toggle
  <2>1. /\ AdvStart(flags) \/ AdvStop
        /\ UNCHANGED <<bt, flags, conn, data, sampled, creds, linked, event, hook, missed>>
        /\ step' = "asked" <=> step = "asked"
    BY <1>6 DEF ParamStop, ParamStart, Toggle, Advertise
  <2>2. adv' # "off" => shown' = flags \/ (adv # "off" /\ shown' = shown) \/ conn
    BY <2>1 DEF AdvStart, AdvStop, Refuses
  <2>3. UNCHANGED <<Actual, Renewed, Both>>
    BY <2>1 DEF Actual, Renewed, Both
  <2>. QED
    BY <2>1, <2>2, <2>3 DEF Refreshed
<1>7. CASE DataAsk
  <2>1. step' = "asked" /\ Renewed' = [prov |-> creds, link |-> sampled'] /\ UNCHANGED <<Actual, Both>>
    BY <1>7 DEF DataAsk, Flags, Renewed, Actual, Both
  <2>2. sampled' = linked \/ "link" \in missed'
    BY <1>7 DEF DataAsk
  <2>3. ASSUME NEW f \in Both' \ missed'
        PROVE  Renewed'[f] = Actual'[f]
    <3>1. f = "prov" \/ (f = "link" /\ sampled' = linked)
      BY <2>2, <2>3 DEF Both
    <3>2. /\ Renewed'.prov = creds /\ Renewed'.link = sampled'
          /\ Actual'.prov = creds /\ Actual'.link = linked
      BY <2>1 DEF Actual
    <3>. QED
      BY <3>1, <3>2
  <2>. QED
    BY <2>1, <2>3 DEF Refreshed
<1>8. CASE DataShow
  <2>1. /\ flags' = Updated /\ step = "asked" /\ step' = "idle"
        /\ UNCHANGED <<Actual, Both, bt, conn, adv, event, hook>>
    BY <1>8 DEF DataShow, Actual, Both
  <2>2. data => data'
    BY <1>8, Zenon DEF DataShow
  <2>3. adv # "off" /\ ~conn => shown' = Updated \/ missed' = Both
    BY <1>8 DEF DataShow, UpdateData
  <2>4. missed' = missed \/ missed' = Both
    BY <1>8 DEF DataShow, UpdateData
  <2>5. Updated = Renewed
    BY DEF Updated, Renewed, Flags
  <2>6. Refresh => Refresh'
    BY <2>1, <2>2
  <2>. HIDE DEF Refresh
  <2>7. ASSUME bt, ~conn, NEW f \in Both \ missed'
        PROVE  /\ Updated[f] = Actual[f] \/ Refresh'
               /\ adv # "off" => shown' = Updated
    <3>1. missed' = missed
      BY <2>4, <2>7
    <3>2. missed' # Both
      BY <2>7
    <3>3. Renewed[f] = Actual[f] \/ Refresh
      BY <2>1, <2>7, <3>1 DEF Refreshed
    <3>. QED
      BY <2>3, <2>5, <2>6, <2>7, <3>2, <3>3
  <2>. QED
    BY <2>1, <2>7 DEF Refreshed
<1>9. CASE LinkChanges
  BY <1>9 DEF LinkChanges, Refreshed
<1>10. CASE AppHook
  <2>1. event => hook'
    BY <1>10 DEF AppHook, Powered
  <2>2. /\ UNCHANGED <<Actual, Renewed, Both>> /\ ~hook
        /\ UNCHANGED <<bt, adv, shown, flags, conn, data, step, missed>>
    BY <1>10 DEF AppHook, Actual, Renewed, Both
  <2>. QED
    BY <2>1, <2>2 DEF Refreshed
<1>11. CASE WifiChan
  <2>1. UNCHANGED bt /\ Both' = Both
    BY <1>11 DEF WifiChan, Both
  <2>2. bt => data' \/ missed' = Both
    BY <1>11 DEF WifiChan, News
  <2>. QED
    BY <2>1, <2>2 DEF Refreshed
<1>12. CASE AdvReboot
  BY <1>12 DEF AdvReboot, Refreshed
<1>13. CASE ShellCred
  <2>1. /\ missed' = missed \union {"prov"}
        /\ UNCHANGED <<bt, adv, shown, flags, conn, data, step, event, hook, Renewed, Both>>
    BY <1>13 DEF ShellCred, Renewed, Both
  <2>2. ASSUME NEW f \in Both \ missed'
        PROVE  f \in Both \ missed /\ Actual'[f] = Actual[f]
    <3>1. f = "link" /\ f \in Both \ missed
      BY <2>1, <2>2 DEF Both
    <3>2. Actual'.link = Actual.link
      BY <1>13 DEF ShellCred, Actual
    <3>. QED
      BY <3>1, <3>2
  <2>. QED
    BY <2>1, <2>2 DEF Refreshed
<1>. QED
  BY <1>1, <1>2, <1>3, <1>4, <1>5, <1>6, <1>7, <1>8, <1>9, <1>10, <1>11, <1>12, <1>13 DEF AdvNext

LEMMA AdvStarts == AdvInit => AdvInv
<1>. SUFFICES ASSUME AdvInit PROVE AdvInv
  OBVIOUS
<1>1. UxInv
  BY InitHolds DEF AdvInit
<1>2. AdvTypeOK
  <2>1. TypeOK
    BY <1>1 DEF UxInv
  <2>2. AdvFlags /\ AdvKinds
    BY DEF AdvInit, AdvFlags, AdvKinds, NoFlags, Flags
  <2>3. missed \subseteq Both
    BY DEF AdvInit
  <2>. QED
    BY <2>1, <2>2, <2>3, AdvTypes DEF AdvInit
<1>3. Powered /\ Switched /\ Refreshed
  BY DEF AdvInit, Powered, Switched, Refreshed
<1>. QED
  BY <1>1, <1>2, <1>3 DEF AdvInv

LEMMA AdvNextKeeps == ASSUME AdvInv, [AdvNext]_bleVars PROVE AdvInv'
<1>. USE DEF AdvInv
<1>0. /\ TypeOK /\ AdvFlags /\ AdvKinds /\ (conn => adv = "off") /\ budget \in 0 .. Budget
      /\ missed \subseteq Both
  BY AdvTypes DEF UxInv, TypeOK
<1>1. CASE AdvNext
  <2>1. UxInv'
    BY <1>1, UxOfAdv
  <2>2. mode' = mode \/ AdvReboot
    BY <1>1 DEF AdvNext, UxAlone, UxStep, NetDecide, NetPend, NetSubmit, LedWork_fn, LedShows,
                InitStep, LongPress, WorkHook, WorkPublish, BleInit, PhoneConnects, PhoneLeaves, BleConn,
                Provision, ShellCred, ParamStop, ParamStart, DataAsk, DataShow, Toggle, LinkChanges, AppHook,
                NetHook, NetPublish, WifiChan, uxVars
  <2>3. AdvTypeOK'
    <3>1. TypeOK'
      BY <2>1 DEF UxInv
    <3>2. AdvFlags'
      BY <1>0, <1>1, AdvFlagsKeep
    <3>3. AdvKinds' /\ (conn' => adv' = "off")
      BY <1>0, <1>1, AdvKindsKeep
    <3>4. missed' \subseteq Both'
      BY <1>0, <1>1, MissedKeeps DEF Both
    <3>. QED
      BY <3>1, <3>2, <3>3, <3>4, Zenon DEF AdvTypeOK, AdvFlags, AdvKinds
  <2>4. Powered'
    BY <1>0, <1>1, <2>2, PoweredKeeps
  <2>5. Switched'
    BY <1>0, <1>1, SwitchedKeeps
  <2>6. AppTells => Refreshed'
    BY <1>0, <1>1, RefreshedKeeps
  <2>. QED
    BY <2>1, <2>3, <2>4, <2>5, <2>6
<1>2. CASE UNCHANGED bleVars
  <2>1. UNCHANGED uxVars /\ UNCHANGED advVars
    BY <1>2 DEF bleVars
  <2>2. UxInv'
    <3>1. budget' \in 0 .. Budget
      BY <1>0, <2>1 DEF uxVars
    <3>. QED
      BY <2>1, <3>1, StillKeeps DEF uxVars
  <2>3. AdvTypeOK'
    BY <2>1, <2>2 DEF advVars, UxInv, AdvTypeOK, Both
  <2>4. Powered' /\ Switched' /\ (AppTells => Refreshed')
    BY <2>1 DEF advVars, uxVars, Powered, Switched, Refreshed, Refresh, Actual, Renewed, Both
  <2>. QED
    BY <2>2, <2>3, <2>4
<1>. QED
  BY <1>1, <1>2

\* The inductive invariant holds in every reachable state.
THEOREM AdvInvariant == AdvSpec => []AdvInv
  BY AdvStarts, AdvNextKeeps, PTL DEF AdvSpec

\* Every variable keeps its type, and the host never advertises with a phone
\* connected, for any number of phones and refused requests.
THEOREM AdvTypeCorrect == AdvSpec => []AdvTypeOK
<1>1. AdvInv => AdvTypeOK
  BY DEF AdvInv
<1>. QED
  BY <1>1, AdvInvariant, PTL

\* The LED of a device at rest shows what was asked for, but for an ON that the
\* LED brick ignores, with the real phones and the application's hooks as well.
THEOREM AdvShowsLast == AdvSpec => []ShowsLast
<1>1. AdvInv => ShowsLast
  BY RestShows DEF AdvInv
<1>. QED
  BY <1>1, AdvInvariant, PTL

\* zego_ux_on_double_click's switch decides over the advertising, whatever the
\* order of phones, double-clicks and works.
THEOREM SwitchDecidesHolds == AdvSpec => []SwitchDecides
<1>1. AdvInv => SwitchDecides
  BY DEF AdvInv, Switched, SwitchDecides
<1>. QED
  BY <1>1, AdvInvariant, PTL

\* With an application that publishes on WIFI_CHAN as the brick asks it to,
\* each flag advertised is true, a refresh is on its way, or its last refresh
\* was lost in one of the ways the code has no second try for.
THEOREM AdvFollowsHolds == ASSUME AppTells PROVE AdvSpec => []AdvFollows
<1>1. AdvInv => AdvFollows
  <2>. SUFFICES ASSUME AdvInv, adv # "off", NEW f \in Both, f \notin missed
                PROVE  shown[f] = Actual[f] \/ Coming
    BY DEF AdvFollows
  <2>1. bt /\ ~conn
    BY AdvTypes DEF AdvInv, Powered, AdvFlags
  <2>. QED
    BY <2>1 DEF AdvInv, Refreshed, Refresh, Coming
<1>. QED
  BY <1>1, AdvInvariant, PTL

----------------------------------------------------------------------------
(* The rotation of BleRotate.                                              *)

\* Where the next attempt starts, and how many places after it p comes.
Turn == idx % count

Ahead(p) == IF p >= Turn THEN p - Turn ELSE p - Turn + count

\* A loadable network that has waited long is reached soon.
RotateInv ==
  /\ RotateTypeOK
  /\ \A p \in Stored \ broken : waits[p] + Ahead(p) < count

\* The turn is a place, and the one after it is the next or the first.
LEMMA TurnIs ==
  ASSUME NEW n \in Nat, n > 0
  PROVE  /\ \A i \in Nat : i % n \in 0 .. n - 1
         /\ \A i \in 0 .. n - 1 : i % n = i
         /\ n % n = 0
<1>1. \A i \in Nat : i % n \in 0 .. n - 1
  OBVIOUS
<1>2. ASSUME NEW i \in 0 .. n - 1 PROVE i % n = i
  OBVIOUS
<1>3. n % n = 0
  OBVIOUS
<1>. QED
  BY <1>1, <1>2, <1>3

LEMMA RoundIs ==
  ASSUME NEW n \in Nat, NEW i \in 0 .. n - 1, NEW j \in 0 .. n - 1
  PROVE  /\ i \in Nat /\ i < n
         /\ (IF i >= j THEN i - j ELSE i - j + n) \in 0 .. n - 1
  OBVIOUS

LEMMA StoredIs ==
  ASSUME RotateTypeOK
  PROVE  /\ count \in Nat /\ count <= MaxCreds /\ MaxCreds \in Nat
         /\ Stored \subseteq Places /\ Stored \subseteq Nat
         /\ count > 0 => /\ Turn \in Stored
                         /\ \A p \in Stored : Ahead(p) \in 0 .. count - 1
<1>1. count \in Nat /\ count <= MaxCreds /\ MaxCreds \in Nat /\ idx \in Nat
  BY BleRotateAssumption DEF RotateTypeOK, Places, BleRotateAssumption
<1>2. Stored \subseteq Places /\ Stored \subseteq Nat
  BY <1>1 DEF Stored, Places
<1>3. count > 0 => Turn \in Stored
  BY <1>1, TurnIs DEF Turn, Stored
<1>4. ASSUME count > 0, NEW p \in Stored PROVE Ahead(p) \in 0 .. count - 1
  <2>. HIDE DEF Turn
  <2>. QED
    BY <1>1, <1>3, <1>4 DEF Ahead, Stored
<1>. QED
  BY <1>1, <1>2, <1>3, <1>4

\* The walk asks for places from its start on; when it ends in an accepted
\* request it has asked for the start itself, if that loads.
LEMMA WalkIs ==
  ASSUME Stored \subseteq Nat, NEW t \in Stored, NEW accepted
  PROVE  /\ Walk(t, accepted) \subseteq { p \in Stored \ broken : p >= t }
         /\ Walk(t, accepted) \intersect accepted # {} /\ t \notin broken => t \in Walk(t, accepted)
<1> DEFINE loadable == { p \in Stored \ broken : p >= t }
           both == loadable \intersect accepted
<1>1. Walk(t, accepted) \subseteq loadable
  BY DEF Walk
<1>2. ASSUME t \notin broken PROVE t \in Walk(t, accepted)
  <2>1. t \in loadable /\ loadable \subseteq Nat
    <3>1. t \in Nat
      OBVIOUS
    <3>2. t >= t
      BY <3>1
    <3>. QED
      BY <1>2, <3>2
  <2>2. CASE both = {}
    BY <2>1, <2>2 DEF Walk
  <2>3. CASE both # {}
    <3>1. Min(both) \in both
      BY <2>1, <2>3, MinIsElement
    <3>2. t <= Min(both)
      BY <2>1, <3>1
    <3>. QED
      BY <2>1, <2>3, <3>2 DEF Walk
  <2>. QED
    BY <2>2, <2>3
<1>. QED
  BY <1>1, <1>2

LEMMA AttemptKeeps ==
  ASSUME RotateInv, Attempt
  PROVE  RotateInv'
<1> DEFINE t == Turn
<1>0. /\ count \in Nat /\ count > 0 /\ count <= MaxCreds /\ MaxCreds \in Nat
      /\ Stored \subseteq Places /\ Stored \subseteq Nat /\ t \in Stored
      /\ RotateTypeOK /\ count' = count /\ broken' = broken
      /\ Stored' = Stored /\ (Stored \ broken)' = Stored \ broken /\ idx \in Places
  BY StoredIs DEF RotateInv, Attempt, Stored, RotateTypeOK
<1>1. PICK accepted \in SUBSET Stored :
        /\ Cardinality(Walk(t, accepted) \ accepted) <= changes
        /\ changes' = changes - Cardinality(Walk(t, accepted) \ accepted)
        /\ asked' = Walk(t, accepted)
        /\ idx' = IF Walk(t, accepted) \intersect accepted # {} THEN AdvanceFrom(t) ELSE idx
        /\ waits' = [p \in Places |->
              IF p \in asked' THEN 0
              ELSE IF Walk(t, accepted) \intersect accepted # {} /\ p \in Stored /\ waits[p] <= MaxCreds
                   THEN waits[p] + 1 ELSE waits[p]]
  BY DEF Attempt, Turn
<1> DEFINE sent == Walk(t, accepted) \intersect accepted # {}
<1>2. /\ asked' \subseteq { p \in Stored \ broken : p >= t }
      /\ sent /\ t \notin broken => t \in asked'
  BY <1>0, <1>1, WalkIs
<1>3. t \in 0 .. count - 1 /\ t \in Nat
  BY <1>0 DEF Stored
<1>4. sent => idx' = IF t + 1 = count THEN 0 ELSE t + 1
  <2>1. t + 1 = count \/ t + 1 \in 0 .. count - 1
    BY <1>0, <1>3
  <2>2. (t + 1) % count = IF t + 1 = count THEN 0 ELSE t + 1
    BY <1>0, <2>1, TurnIs
  <2>. QED
    BY <1>1, <2>2 DEF AdvanceFrom
<1>5. sent => Turn' = IF t + 1 = count THEN 0 ELSE t + 1
  <2>1. sent => idx' \in 0 .. count - 1
    BY <1>0, <1>3, <1>4
  <2>2. sent => idx' % count = idx'
    BY <1>0, <2>1, TurnIs
  <2>. QED
    BY <1>0, <1>4, <2>2 DEF Turn
<1>6. ~sent => Turn' = t /\ idx' = idx
  BY <1>0, <1>1 DEF Turn
<1>7. waits \in [Places -> 0 .. MaxCreds + 1]
  BY <1>0 DEF RotateTypeOK
<1>8. RotateTypeOK'
  <2>1. idx' \in Places
    BY <1>0, <1>3, <1>4, <1>6 DEF Places
  <2>2. waits' \in [Places -> 0 .. MaxCreds + 1]
    <3>1. \A p \in Places : waits[p] \in 0 .. MaxCreds + 1 /\ (waits[p] <= MaxCreds => waits[p] + 1 \in 0 .. MaxCreds + 1)
      BY <1>0, <1>7
    <3>2. 0 \in 0 .. MaxCreds + 1
      BY <1>0
    <3>. QED
      BY <1>1, <3>1, <3>2
  <2>3. changes' \in 0 .. Changes
    <3>1. IsFiniteSet(Stored) /\ Walk(t, accepted) \ accepted \subseteq Stored
      <4>1. IsFiniteSet(0 .. count - 1)
        BY <1>0, FS_Interval
      <4>. QED
        BY <1>1, <1>2, <4>1 DEF Stored
    <3>2. Cardinality(Walk(t, accepted) \ accepted) \in Nat
      BY <3>1, FS_Subset, FS_CardinalityType
    <3>3. changes \in 0 .. Changes /\ Changes \in Nat
      BY <1>0, BleRotateAssumption DEF RotateTypeOK, BleRotateAssumption
    <3>. QED
      BY <1>1, <3>2, <3>3
  <2>4. asked' \subseteq Stored'
    BY <1>0, <1>2
  <2>5. Places' = Places
    BY DEF Places
  <2>. QED
    BY <1>0, <2>1, <2>2, <2>3, <2>4, <2>5 DEF RotateTypeOK
<1>9. ASSUME NEW p \in Stored \ broken
      PROVE  waits'[p] + Ahead(p)' < count
  <2>1. p \in Places /\ p \in 0 .. count - 1
    BY <1>0 DEF Stored
  <2>2. waits[p] \in Nat /\ waits[p] + Ahead(p) < count /\ waits'[p] \in Nat
    BY <1>0, <1>7, <1>8, <2>1 DEF RotateInv, RotateTypeOK
  <2>3. Ahead(p) = IF p >= t THEN p - t ELSE p - t + count
    BY DEF Ahead
  <2>4. Ahead(p)' = IF p >= Turn' THEN p - Turn' ELSE p - Turn' + count
    BY <1>0 DEF Ahead
  <2>5. Turn' \in 0 .. count - 1
    BY <1>0, <1>3, <1>5, <1>6
  <2>. HIDE DEF t, sent
  <2>6. Ahead(p)' \in 0 .. count - 1 /\ Ahead(p) \in 0 .. count - 1
    BY <1>0, <1>3, <2>1, <2>3, <2>4, <2>5, RoundIs, Zenon
  <2>7. CASE p \in asked'
    BY <1>0, <1>1, <2>1, <2>6, <2>7
  <2>8. CASE p \notin asked' /\ ~sent
    <3>1. waits'[p] = waits[p]
      BY <1>1, <2>1, <2>8 DEF sent
    <3>. QED
      BY <1>6, <2>2, <2>3, <2>4, <2>8, <3>1
  <2>9. CASE p \notin asked' /\ sent
    <3>1. waits[p] <= MaxCreds
      BY <1>0, <2>2, <2>6
    <3>2. waits'[p] = waits[p] + 1
      BY <1>1, <2>1, <2>9, <3>1 DEF sent
    <3>3. p # t
      BY <1>2, <2>9
    <3>4. Ahead(p)' = Ahead(p) - 1
      BY <1>0, <1>3, <1>5, <2>1, <2>3, <2>4, <2>9, <3>3
    <3>. QED
      BY <1>0, <2>2, <2>6, <3>2, <3>4
  <2>. QED
    BY <2>7, <2>8, <2>9
<1>. QED
  BY <1>0, <1>8, <1>9 DEF RotateInv

LEMMA StoreChangeKeeps ==
  ASSUME RotateInv, StoreChanges
  PROVE  RotateInv'
<1>0. /\ count \in Nat /\ count <= MaxCreds /\ MaxCreds \in Nat /\ Stored \subseteq Nat
      /\ RotateTypeOK /\ broken \subseteq 0 .. count - 1
  BY StoredIs DEF RotateInv, RotateTypeOK, Stored
<1>1. asked' = {} /\ waits' = [p \in Places |-> 0] /\ idx' = idx
  BY DEF StoreChanges
<1>2. changes' \in 0 .. Changes
  BY <1>0, BleRotateAssumption DEF RotateTypeOK, BleRotateAssumption, StoreChanges
<1>3. count' \in 0 .. MaxCreds /\ broken' \subseteq 0 .. count' - 1
  <2>1. CASE /\ count < MaxCreds /\ count' = count + 1
             /\ broken' \in {broken} \union (IF Unloadable THEN {broken \union {count}} ELSE {})
    <3>1. broken' \subseteq broken \union {count}
      BY <2>1
    <3>. QED
      BY <1>0, <2>1, <3>1
  <2>2. ASSUME count > 0, count' = count - 1, NEW d \in Stored,
               broken' = { IF p > d THEN p - 1 ELSE p : p \in broken \ {d} }
        PROVE  count' \in 0 .. MaxCreds /\ broken' \subseteq 0 .. count' - 1
    <3>1. d \in 0 .. count - 1
      BY <2>2 DEF Stored
    <3>2. ASSUME NEW p \in broken \ {d}
          PROVE  (IF p > d THEN p - 1 ELSE p) \in 0 .. count' - 1
      <4>1. p \in 0 .. count - 1 /\ p # d
        BY <1>0
      <4>2. (IF p > d THEN p - 1 ELSE p) \in 0 .. (count - 1) - 1
        BY <1>0, <3>1, <4>1
      <4>. QED
        BY <2>2, <4>2
    <3>. QED
      BY <1>0, <2>2, <3>2
  <2>. QED
    BY <2>1, <2>2 DEF StoreChanges
<1>4. RotateTypeOK'
  <2>1. waits' \in [Places -> 0 .. MaxCreds + 1]
    BY <1>0, <1>1
  <2>2. idx' \in Places /\ Places' = Places
    BY <1>0, <1>1 DEF RotateTypeOK, Places
  <2>. QED
    BY <1>1, <1>2, <1>3, <2>1, <2>2 DEF RotateTypeOK, Stored
<1>5. ASSUME NEW p \in (Stored \ broken)' PROVE waits'[p] + Ahead(p)' < count'
  <2>1. p \in 0 .. count' - 1
    BY DEF Stored
  <2>2. count' > 0 /\ count' \in Nat /\ p \in Places
    <3>1. count' \in Nat /\ count' <= MaxCreds
      BY <1>0, <1>3
    <3>2. p \in Nat /\ p < count'
      BY <2>1, <3>1, RoundIs, Zenon
    <3>. QED
      BY <1>0, <3>1, <3>2 DEF Places
  <2>3. Turn' \in 0 .. count' - 1
    <3>1. idx' \in Nat
      BY <1>0, <1>1 DEF RotateTypeOK, Places
    <3>2. idx' % count' \in 0 .. count' - 1
      BY <2>2, <3>1, TurnIs
    <3>. QED
      BY <3>2 DEF Turn
  <2>4. Ahead(p)' = IF p >= Turn' THEN p - Turn' ELSE p - Turn' + count'
    BY DEF Ahead
  <2>5. waits'[p] = 0
    BY <1>1, <2>2
  <2>6. Ahead(p)' \in 0 .. count' - 1
    BY <2>1, <2>2, <2>3, <2>4, RoundIs, Zenon
  <2>7. Ahead(p)' \in Nat /\ Ahead(p)' < count'
    BY <2>2, <2>6, RoundIs, Zenon
  <2>. QED
    BY <2>2, <2>5, <2>7
<1>. QED
  BY <1>4, <1>5 DEF RotateInv

LEMMA RotateStarts == RotateInit => RotateInv
<1>. SUFFICES ASSUME RotateInit PROVE RotateInv
  OBVIOUS
<1>1. MaxCreds \in Nat \ {0} /\ Changes \in Nat /\ count \in 0 .. MaxCreds
  BY BleRotateAssumption DEF BleRotateAssumption, RotateInit
<1>2. RotateTypeOK
  <2>1. broken \subseteq Stored
    BY DEF RotateInit
  <2>2. idx \in Places /\ asked \subseteq Stored /\ waits \in [Places -> 0 .. MaxCreds + 1]
        /\ changes \in 0 .. Changes
    BY <1>1 DEF RotateInit, Places
  <2>. QED
    BY <1>1, <2>1, <2>2 DEF RotateTypeOK
<1>3. ASSUME NEW p \in Stored \ broken PROVE waits[p] + Ahead(p) < count
  <2>1. count > 0 /\ p \in Places
    BY <1>1 DEF Stored, Places
  <2>2. Ahead(p) \in 0 .. count - 1
    BY <1>2, <2>1, StoredIs
  <2>3. waits[p] = 0
    BY <2>1 DEF RotateInit
  <2>. QED
    BY <1>1, <2>2, <2>3
<1>. QED
  BY <1>2, <1>3 DEF RotateInv

LEMMA RotateNextKeeps == ASSUME RotateInv, [RotateNext]_rotateVars PROVE RotateInv'
<1>1. CASE UNCHANGED rotateVars
  BY <1>1 DEF rotateVars, RotateInv, RotateTypeOK, Stored, Places, Ahead, Turn
<1>. QED
  BY <1>1, AttemptKeeps, StoreChangeKeeps DEF RotateNext

\* The inductive invariant holds in every reachable state.
THEOREM RotateInvariant == RotateSpec => []RotateInv
  BY RotateStarts, RotateNextKeeps, PTL DEF RotateSpec

\* Every variable keeps its type; the turn is never beyond the store's capacity.
THEOREM RotateTypeCorrect == RotateSpec => []RotateTypeOK
<1>1. RotateInv => RotateTypeOK
  BY DEF RotateInv
<1>. QED
  BY <1>1, RotateInvariant, PTL

\* connect_stored_rotating asks for every loadable network within as many sent
\* requests as there are networks, for a store of any size.
THEOREM RoundRobinHolds == RotateSpec => []RoundRobin
<1>1. RotateInv => RoundRobin
  <2>. SUFFICES ASSUME RotateInv, NEW p \in Stored \ broken PROVE waits[p] < count
    BY DEF RoundRobin
  <2>1. RotateTypeOK
    BY DEF RotateInv
  <2>2. count \in Nat /\ count > 0 /\ p \in Places
    BY <2>1, StoredIs DEF Stored
  <2>3. waits[p] \in Nat
    BY <2>1, <2>2, StoredIs DEF RotateTypeOK
  <2>4. Ahead(p) \in 0 .. count - 1 /\ waits[p] + Ahead(p) < count
    BY <2>1, <2>2, StoredIs DEF RotateInv
  <2>. QED
    BY <2>2, <2>3, <2>4
<1>. QED
  BY <1>1, RotateInvariant, PTL
=============================================================================
