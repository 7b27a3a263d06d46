-------------------------------- MODULE Led --------------------------------
(***************************************************************************)
(* The LED brick (bricks/led/src/led.c): commands published on             *)
(* LED_CMD_CHAN by any thread are queued by a zbus listener and drained on *)
(* the system workqueue, where they drive one OFF/ON/BLINK/BREATHE state   *)
(* machine per LED and one module-wide ROTATE effect.  The effect timers   *)
(* expire on the same workqueue, so every handler below is atomic; what    *)
(* interleaves is the publisher's thread, which the workqueue preempts     *)
(* between filling the queue and submitting the drain.                     *)
(*                                                                         *)
(* Delays are abstracted to "pending": an armed timer may expire at any    *)
(* later moment.  MaxCmds bounds the publications of a behaviour.          *)
(*                                                                         *)
(* The indices of a ROTATE command are not checked: one that is no LED of  *)
(* the brick makes led_hw_set log an error and stores is_on past the array *)
(* led_sm.  That is undefined; a build either keeps going or has run over  *)
(* state of its own, and from then on (worker = "lost") is not followed.   *)
(***************************************************************************)
EXTENDS Integers, Sequences

CONSTANTS
  NumLeds,          \* CONFIG_ZEGO_LED_NUM_LEDS
  RotateNumLeds,    \* CONFIG_ZEGO_LED_ROTATE_NUM_LEDS
  QueueDepth,       \* CONFIG_ZEGO_LED_CMD_QUEUE_DEPTH
  BreathePeriod,    \* CONFIG_ZEGO_LED_BREATHE_PERIOD_MS
  PwmPeriod,        \* CONFIG_ZEGO_LED_BREATHE_PWM_PERIOD_MS
  PwmLeds,          \* the LEDs for which led_hw_has_brightness is true
  Cmds,             \* the commands publishers send
  MaxCmds           \* bound on the number of publications

Leds == 0 .. (NumLeds - 1)

CmdType == {"ON", "OFF", "TOGGLE", "BLINK", "BREATHE", "ROTATE"}

\* struct led_msg; rotate_indices is the message's fixed-size array, of any bytes.
LedMsg == [type : CmdType, led_number : Nat, period_ms : Nat,
           rotate_count : Nat, rotate_indices : [Leds -> Nat]]

ASSUME LedAssumption ==
  /\ NumLeds \in Nat \ {0}
  /\ RotateNumLeds \in 1 .. NumLeds
  /\ QueueDepth \in Nat \ {0}
  /\ BreathePeriod \in Nat \ {0}
  /\ PwmPeriod \in Nat \ {0}
  /\ PwmLeds \subseteq Leds
  /\ Cmds \subseteq LedMsg
  /\ MaxCmds \in Nat

VARIABLES
  led,          \* led_sm[]: one record per LED, with its two drive signals
  rotate,       \* the module-wide ROTATE effect
  queue,        \* led_cmd_queue
  publishing,   \* a publisher is inside the listener, between put and submit
  submitted,    \* led_cmd_work is queued on the system workqueue
  worker,       \* led_cmd_work_fn: "idle", in its "loop", "leaving" it, or "lost"
  announced,    \* what the last step published on LED_STATE_CHAN
  sent          \* number of publications so far

vars == <<led, rotate, queue, publishing, submitted, worker, announced, sent>>

Smf == {"OFF", "ON", "BLINK", "BREATHE"}

\* `timer` is effect_work pending; gpio and pwm are the signals led_hw drives.
LedObj == [smf : Smf, is_on : BOOLEAN, timer : BOOLEAN, gpio : BOOLEAN, pwm : Nat,
           step : Nat, total : Nat, ramp_up : BOOLEAN, in_on_phase : BOOLEAN]

NoMsg == [led_number |-> 0, is_on |-> FALSE, command |-> "none"]

StateMsg == [led_number : Nat, is_on : BOOLEAN, command : CmdType] \union {NoMsg}

MinOf(a, b) == IF a < b THEN a ELSE b

----------------------------------------------------------------------------
(* Breathe arithmetic.                                                     *)

\* Frames of one ramp direction; uint16_t never wraps, period_ms being one.
Steps(period) ==
  LET p == IF period > 0 THEN period ELSE BreathePeriod
  IN  IF p \div PwmPeriod < 2 THEN 2 ELSE p \div PwmPeriod

\* Lit part of one software-PWM frame.
OnMs(o) == (o.step * PwmPeriod) \div o.total

Brightness(o) == (o.step * 100) \div (IF o.total > 1 THEN o.total - 1 ELSE 1)

BreatheAdvance_PastTop(o) ==
  IF o.ramp_up
  THEN IF o.step + 1 > o.total
       THEN [o EXCEPT !.step = o.total - 1, !.ramp_up = FALSE]
       ELSE [o EXCEPT !.step = o.step + 1]
  ELSE IF o.step = 0 THEN [o EXCEPT !.ramp_up = TRUE]
                     ELSE [o EXCEPT !.step = o.step - 1]

BreatheAdvance_StuckAtTop(o) ==
  IF o.ramp_up
  THEN [o EXCEPT !.step = IF o.step + 1 >= o.total THEN o.total - 1 ELSE o.step + 1]
  ELSE IF o.step = 0 THEN [o EXCEPT !.ramp_up = TRUE]
                     ELSE [o EXCEPT !.step = o.step - 1]

BreatheAdvance(o) ==
  IF o.ramp_up
  THEN IF o.step + 1 >= o.total
       THEN [o EXCEPT !.step = o.total - 1, !.ramp_up = FALSE]
       ELSE [o EXCEPT !.step = o.step + 1]
  ELSE IF o.step = 0 THEN [o EXCEPT !.ramp_up = TRUE]
                     ELSE [o EXCEPT !.step = o.step - 1]

BreatheReset(o, period) ==
  [o EXCEPT !.step = 0, !.total = Steps(period), !.ramp_up = TRUE, !.in_on_phase = FALSE]

----------------------------------------------------------------------------
(* The per-LED state machine, as functions on one LED's object.            *)

\* led_hw_set: drives the gpio LED only, the PWM channel keeps its duty.
HwSet(o, on) == [o EXCEPT !.gpio = on]

Lit(o) == o.gpio \/ o.pwm > 0

OffEntry(o)   == [HwSet(o, FALSE) EXCEPT !.smf = "OFF", !.is_on = FALSE]
OnEntry(o)    == [HwSet(o, TRUE) EXCEPT !.smf = "ON", !.is_on = TRUE]
BlinkEntry(o) == [HwSet(o, FALSE) EXCEPT !.smf = "BLINK", !.is_on = FALSE, !.timer = TRUE]

BreatheEntry(o, period) ==
  [HwSet(BreatheReset(o, period), FALSE)
     EXCEPT !.smf = "BREATHE", !.is_on = FALSE, !.timer = TRUE]

\* s_blink_exit and s_breathe_exit; OFF and ON have no exit action.
EffectExit(o) == [o EXCEPT !.timer = FALSE]

OffTarget(c) == IF c \in {"ON", "TOGGLE"} THEN "ON"
                ELSE IF c \in {"BLINK", "BREATHE"} THEN c ELSE "stay"

OnTarget(c)  == IF c \in {"OFF", "TOGGLE"} THEN "OFF"
                ELSE IF c \in {"BLINK", "BREATHE"} THEN c ELSE "stay"

\* From a running effect TOGGLE goes by what the LED shows at that moment.
EffectTarget(o, c) ==
  IF c = "TOGGLE" THEN (IF o.is_on THEN "OFF" ELSE "ON")
  ELSE IF c = o.smf THEN "restart" ELSE c

Target(o, c) == IF o.smf = "OFF" THEN OffTarget(c)
                ELSE IF o.smf = "ON" THEN OnTarget(c)
                ELSE EffectTarget(o, c)

\* A second BLINK or BREATHE restarts the timer without leaving the state;
\* for BREATHE it also resets the ramp, but not what the LED shows.
Restart(o, period) ==
  IF o.smf = "BREATHE" THEN [BreatheReset(o, period) EXCEPT !.timer = TRUE]
                       ELSE [o EXCEPT !.timer = TRUE]

\* smf_run_state with LED_EVENT_CMD.
CmdRun(o, m) ==
  LET x == EffectExit(o)
      t == Target(o, m.type)
  IN  IF t = "stay" THEN o
      ELSE IF t = "restart" THEN Restart(o, m.period_ms)
      ELSE IF t = "OFF" THEN OffEntry(x)
      ELSE IF t = "ON" THEN OnEntry(x)
      ELSE IF t = "BLINK" THEN BlinkEntry(x)
      ELSE BreatheEntry(x, m.period_ms)

BlinkTick(o) == [HwSet(o, ~o.is_on) EXCEPT !.is_on = ~o.is_on, !.timer = TRUE]

PwmBreatheTick(o) ==
  [BreatheAdvance(o) EXCEPT !.pwm = Brightness(o), !.is_on = (Brightness(o) > 0),
                            !.timer = TRUE]

SwBreatheTick(o) ==
  IF o.in_on_phase
  THEN [HwSet(o, FALSE) EXCEPT !.is_on = FALSE, !.in_on_phase = FALSE, !.timer = TRUE]
  ELSE LET a == BreatheAdvance(o)
       IN  IF OnMs(a) > 0
           THEN [HwSet(a, TRUE) EXCEPT !.is_on = TRUE, !.in_on_phase = TRUE, !.timer = TRUE]
           ELSE [a EXCEPT !.timer = TRUE]

\* smf_run_state with LED_EVENT_TICK, the timer having just expired.
TickRun(l, o) ==
  LET e == [o EXCEPT !.timer = FALSE]
  IN  IF o.smf = "BLINK" THEN BlinkTick(e)
      ELSE IF o.smf = "BREATHE"
      THEN IF l \in PwmLeds THEN PwmBreatheTick(e) ELSE SwBreatheTick(e)
      ELSE e

----------------------------------------------------------------------------
(* The ROTATE effect.                                                      *)

RotateObj == [active : BOOLEAN, timer : BOOLEAN, current : Nat, count : 1 .. NumLeds,
              indices : [Leds -> Nat]]

Darken(o) == [HwSet(o, FALSE) EXCEPT !.is_on = FALSE]

Lighten(o) == [HwSet(o, TRUE) EXCEPT !.is_on = TRUE]

\* LED i of f turned off or on; with an i that is no LED nothing is driven.
Darkened(f, i)  == [l \in Leds |-> IF l = i THEN Darken(f[l]) ELSE f[l]]
Lightened(f, i) == [l \in Leds |-> IF l = i THEN Lighten(f[l]) ELSE f[l]]

\* The workqueue after `led_sm[i].is_on = ...` for the indices i of S.
AfterStores(S) == {worker} \union (IF S \subseteq Leds THEN {} ELSE {"lost"})

CurrentLed == rotate.indices[rotate.current]

\* cancel_all_effect_timers: the state machines keep their states.
CancelAllEffectTimers_KeepTimers == [l \in Leds |-> Darken(led[l])]

CancelAllEffectTimers_KeepLights == [l \in Leds |-> EffectExit(led[l])]

CancelAllEffectTimers == [l \in Leds |-> Darken(EffectExit(led[l]))]

\* rotate_stop, on the LEDs and on the rotate object.
LedsAfterRotateStop_LeaveLit == led

LedsAfterRotateStop == IF rotate.active THEN Darkened(led, CurrentLed) ELSE led

StoresOfRotateStop == IF rotate.active THEN {CurrentLed} ELSE {}

RotateStop == [rotate EXCEPT !.active = FALSE,
                             !.timer = IF rotate.active THEN FALSE ELSE @]

\* The LEDs of the sweep; with rotate_count = 0 the first RotateNumLeds.
SweepCount(m) ==
  IF m.rotate_count > 0 THEN MinOf(m.rotate_count, NumLeds) ELSE RotateNumLeds

SweepIndices(m) ==
  [i \in Leds |-> IF i >= SweepCount(m) THEN rotate.indices[i]
                  ELSE IF m.rotate_count > 0 THEN m.rotate_indices[i] ELSE i]

StartRotate(m) ==
  LET first == SweepIndices(m)[0]
  IN  /\ rotate' = [active |-> TRUE, timer |-> TRUE, current |-> 0,
                    count |-> SweepCount(m), indices |-> SweepIndices(m)]
      /\ led' = Lightened(CancelAllEffectTimers, first)
      /\ worker' \in AfterStores({first})
      /\ announced' = [led_number |-> first, is_on |-> TRUE, command |-> "ROTATE"]

----------------------------------------------------------------------------
(* process_led_command.                                                    *)

InvalidLed(m) == /\ m.led_number \notin Leds
                 /\ announced' = NoMsg
                 /\ UNCHANGED <<led, rotate, worker>>

\* The state machine publishes from the entry action of the state it enters.
Announcement(o, m, l) ==
  IF Target(o, m.type) \in Smf
  THEN [led_number |-> l, is_on |-> CmdRun(o, m).is_on, command |-> m.type]
  ELSE NoMsg

LedCommand(m) ==
  LET l == m.led_number
      o == LedsAfterRotateStop[l]
  IN  /\ l \in Leds
      /\ rotate' = RotateStop
      /\ led' = [LedsAfterRotateStop EXCEPT ![l] = CmdRun(o, m)]
      /\ worker' \in AfterStores(StoresOfRotateStop)
      /\ announced' = Announcement(o, m, l)

ProcessLedCommand(m) ==
  \/ m.type = "ROTATE" /\ StartRotate(m)
  \/ m.type # "ROTATE" /\ InvalidLed(m)
  \/ m.type # "ROTATE" /\ LedCommand(m)

----------------------------------------------------------------------------
(* The publisher's thread.                                                 *)

\* led_cmd_listener up to k_msgq_put.  The channel is locked while the
\* listener runs, so one publisher at a time is inside it; a publication that
\* finds the channel locked (K_NO_WAIT) fails and changes nothing here.
ListenerPut(m) ==
  /\ ~publishing
  /\ sent < MaxCmds
  /\ publishing' = TRUE
  /\ sent' = sent + 1
  /\ queue' = IF Len(queue) < QueueDepth THEN Append(queue, m) ELSE queue
  /\ announced' = NoMsg
  /\ UNCHANGED <<led, rotate, submitted, worker>>

\* k_work_submit: a running work item is queued again.
ListenerSubmit_LostWhileRunning ==
  /\ publishing
  /\ publishing' = FALSE
  /\ submitted' = (submitted \/ worker = "idle")
  /\ announced' = NoMsg
  /\ UNCHANGED <<led, rotate, queue, worker, sent>>

ListenerSubmit ==
  /\ publishing
  /\ publishing' = FALSE
  /\ submitted' = TRUE
  /\ announced' = NoMsg
  /\ UNCHANGED <<led, rotate, queue, worker, sent>>

----------------------------------------------------------------------------
(* The system workqueue.                                                   *)

DrainBegin ==
  /\ submitted /\ worker = "idle"
  /\ submitted' = FALSE
  /\ worker' = "loop"
  /\ announced' = NoMsg
  /\ UNCHANGED <<led, rotate, queue, publishing, sent>>

\* One iteration of led_cmd_work_fn's loop.
DrainGet ==
  /\ worker = "loop" /\ queue # <<>>
  /\ queue' = Tail(queue)
  /\ ProcessLedCommand(Head(queue))
  /\ UNCHANGED <<publishing, submitted, sent>>

\* k_msgq_get finds the queue empty.
DrainEmpty ==
  /\ worker = "loop" /\ queue = <<>>
  /\ worker' = "leaving"
  /\ announced' = NoMsg
  /\ UNCHANGED <<led, rotate, queue, publishing, submitted, sent>>

\* The handler has returned and the work item is no longer running.
DrainEnd ==
  /\ worker = "leaving"
  /\ worker' = "idle"
  /\ announced' = NoMsg
  /\ UNCHANGED <<led, rotate, queue, publishing, submitted, sent>>

\* effect_work_fn of LED l.
EffectWork(l) ==
  /\ worker = "idle"
  /\ led[l].timer
  /\ led' = [led EXCEPT ![l] = TickRun(l, @)]
  /\ announced' = NoMsg
  /\ UNCHANGED <<rotate, queue, publishing, submitted, worker, sent>>

\* rotate_work_fn.
RotateWork ==
  /\ worker = "idle"
  /\ rotate.timer
  /\ IF rotate.active
     THEN LET next == (rotate.current + 1) % rotate.count
              new  == rotate.indices[next]
          IN  /\ rotate' = [rotate EXCEPT !.current = next]
              /\ led' = Lightened(Darkened(led, CurrentLed), new)
              /\ worker' \in AfterStores({CurrentLed, new})
     ELSE rotate' = [rotate EXCEPT !.timer = FALSE] /\ UNCHANGED <<led, worker>>
  /\ announced' = NoMsg
  /\ UNCHANGED <<queue, publishing, submitted, sent>>

----------------------------------------------------------------------------
(* led_module_init, after its hardware initialisation succeeded.           *)
Init ==
  /\ led = [l \in Leds |->
              [smf |-> "OFF", is_on |-> FALSE, timer |-> FALSE, gpio |-> FALSE, pwm |-> 0,
               step |-> 0, total |-> 0, ramp_up |-> TRUE, in_on_phase |-> FALSE]]
  /\ rotate = [active |-> FALSE, timer |-> FALSE, current |-> 0, count |-> RotateNumLeds,
               indices |-> [i \in Leds |-> IF i < RotateNumLeds THEN i ELSE 0]]
  /\ queue = <<>>
  /\ publishing = FALSE
  /\ submitted = FALSE
  /\ worker = "idle"
  /\ announced = NoMsg
  /\ sent = 0

Next ==
  \/ \E m \in Cmds : ListenerPut(m)
  \/ ListenerSubmit
  \/ DrainBegin
  \/ DrainGet
  \/ DrainEmpty
  \/ DrainEnd
  \/ \E l \in Leds : EffectWork(l)
  \/ RotateWork

Spec == Init /\ [][Next]_vars

\* Zephyr runs the workqueue thread and lets every publisher leave its
\* listener; nobody is obliged to publish.
Fairness ==
  /\ WF_vars(ListenerSubmit)
  /\ WF_vars(DrainBegin) /\ WF_vars(DrainGet)
  /\ WF_vars(DrainEmpty) /\ WF_vars(DrainEnd)
  /\ \A l \in Leds : WF_vars(EffectWork(l))
  /\ WF_vars(RotateWork)

FairSpec == Spec /\ Fairness
----------------------------------------------------------------------------
(* Properties.                                                             *)

\* Types; inside an effect the ramp position stays inside the ramp.
TypeOK ==
  /\ led \in [Leds -> LedObj]
  /\ rotate \in RotateObj
  /\ queue \in Seq(Cmds) /\ Len(queue) <= QueueDepth
  /\ publishing \in BOOLEAN /\ submitted \in BOOLEAN
  /\ worker \in {"idle", "loop", "leaving", "lost"}
  /\ announced \in StateMsg
  /\ sent \in Nat

\* A queued command is never stranded: the drain is in its loop, is queued on the
\* workqueue, or a publisher is about to submit it (led_cmd_listener against
\* led_cmd_work_fn's empty-queue exit).
NoLostWakeup ==
  queue # <<>> => worker \in {"loop", "lost"} \/ submitted \/ publishing

\* effect_work is pending only for an LED in an effect state and never while
\* ROTATE owns the LEDs, and rotate.work is pending exactly while ROTATE is
\* active: no expiry can reach a state machine that does not expect it.
TimersOwned ==
  /\ \A l \in Leds : led[l].timer => led[l].smf \in {"BLINK", "BREATHE"} /\ ~rotate.active
  /\ rotate.timer <=> rotate.active

\* The PWM channel of LED l still has a duty: a hardware-PWM ramp sets one and
\* nothing but its next frame changes it, whatever ends or suspends the ramp.
KeepsDuty(l) == l \in PwmLeds /\ led[l].total > 0 /\ led[l].pwm > 0

\* While ROTATE runs it points inside its index array and the gpio driven is that
\* of the LED it points at, whatever the state machines remember: no other LED
\* is lit, except one that keeps the duty of a hardware-PWM ramp.  An index that
\* is no LED of the brick lights none.
RotateOwnsLeds ==
  rotate.active =>
    /\ rotate.current < rotate.count
    /\ \A l \in Leds : /\ led[l].gpio <=> l = CurrentLed
                       /\ Lit(led[l]) /\ l # CurrentLed => KeepsDuty(l)

\* led_get_state, which reads is_on, disagrees with the light of an LED in one
\* case only: the LED reads dark although it keeps the duty of a hardware-PWM ramp.
CacheMatchesHardware ==
  \A l \in Leds :
    led[l].is_on # Lit(led[l]) => KeepsDuty(l) /\ ~led[l].is_on /\ ~led[l].gpio

\* Outside ROTATE an LED whose machine is OFF is dark: its gpio is not driven, and
\* it is lit only if it keeps the duty of a hardware-PWM ramp.
OffIsDark ==
  \A l \in Leds : led[l].smf = "OFF" /\ ~rotate.active =>
    /\ ~led[l].gpio
    /\ Lit(led[l]) => KeepsDuty(l)

\* A BREATHE ramp has at least two frames, its position stays inside it (so
\* no frame divides by zero and no duty exceeds 100 %), and a lit software
\* frame is remembered as such, so the next expiry ends it.
BreatheRamp ==
  \A l \in Leds :
    /\ led[l].pwm <= 100
    /\ led[l].smf = "BREATHE" =>
         /\ led[l].total >= 2 /\ led[l].step < led[l].total
         /\ led[l].timer /\ led[l].in_on_phase => led[l].is_on

\* Every command accepted into the queue is eventually taken out of it.
CommandsDrain == queue # <<>> ~> queue = <<>> \/ worker = "lost"

\* An effect left alone keeps moving: a live BREATHE ramps all the way up and
\* down for ever, a live BLINK alternates for ever, and a sweep visits every
\* entry of its index array again and again.  (An effect whose timer ROTATE
\* cancelled is not live: EffectsResume below.)
EffectsKeepMoving ==
  /\ \A l \in Leds :
       /\ <>[](led[l].smf = "BREATHE" /\ led[l].timer /\ worker # "lost") =>
            []<>(led[l].step = led[l].total - 1) /\ []<>(led[l].step = 0)
       /\ <>[](led[l].smf = "BLINK" /\ led[l].timer /\ worker # "lost") =>
            []<>(led[l].gpio) /\ []<>(~led[l].gpio)
  /\ \A i \in Leds : <>[](rotate.active /\ i < rotate.count /\ worker # "lost") =>
                       []<>(rotate.current = i)

----------------------------------------------------------------------------
(* What comments and docs say, which the code does not do.                 *)

\* Processing a command of type c for LED l, as seen from its step.
Processed(c, l) == /\ queue # <<>> /\ queue' = Tail(queue)
                   /\ Head(queue).type = c /\ Head(queue).led_number = l

\* led.h:57 "Turn LED on": after an ON command the LED is lit.
OnCommandLights ==
  [][\A l \in Leds : Processed("ON", l) => Lit(led'[l])]_vars

\* led-spec.md:215 "they resume when ROTATE ends and the next command
\* arrives": outside ROTATE an effect state has its timer running.
EffectsResume ==
  \A l \in Leds : led[l].smf \in {"BLINK", "BREATHE"} /\ ~rotate.active => led[l].timer

\* led.h:37 "Static commands (ON / OFF / TOGGLE): one publish per command".
StaticCommandPublishes ==
  [][\A l \in Leds, c \in {"ON", "OFF", "TOGGLE"} :
       Processed(c, l) => announced' # NoMsg]_vars

\* led-spec.md:124 "LED off; ramps up from 0%": a BREATHE command leaves the
\* LED dark, the first lit frame comes later.
BreatheStartsDark ==
  [][\A l \in Leds : Processed("BREATHE", l) => ~Lit(led'[l])]_vars

\* led.h:58 "Turn LED off": after an OFF command the LED is not lit.
OffCommandDarkens ==
  [][\A l \in Leds : Processed("OFF", l) => ~Lit(led'[l])]_vars
=============================================================================
