----------------------------- MODULE LedProofs -----------------------------
(***************************************************************************)
(* Proofs about Led, for every number of LEDs, queue depth, set of         *)
(* commands and period.  The inductive invariant LedInv says what each     *)
(* LED's object satisfies at all times (LedOK), what more it satisfies     *)
(* outside ROTATE, and what ROTATE adds; the pure lemmas show that a       *)
(* command or an expiry preserves LedOK.                                   *)
(***************************************************************************)
EXTENDS Led, TLAPS

\* What one LED's object always satisfies.  A hardware-PWM LED never has a
\* software frame in progress: without that, its ramp could not keep the
\* frame flag and is_on consistent.  A duty is set by a ramp only.
LedOK(l, o) ==
  /\ o \in LedObj
  /\ o.pwm <= 100
  /\ o.timer => o.smf \in {"BLINK", "BREATHE"}
  /\ l \notin PwmLeds => (o.is_on <=> o.gpio) /\ o.pwm = 0
  /\ l \in PwmLeds => ~o.in_on_phase
  /\ o.is_on => o.gpio \/ o.pwm > 0
  /\ o.gpio => o.is_on
  /\ o.pwm > 0 => o.total > 0
  /\ o.smf = "BREATHE" => /\ o.total >= 2 /\ o.step < o.total
                          /\ o.timer /\ o.in_on_phase => o.is_on

\* What it satisfies besides outside ROTATE: OFF does not drive the gpio, and the
\* ramp of a hardware-PWM LED leaves it alone, so its duty is all its light.
DarkIfOff(l, o) ==
  /\ o.smf = "OFF" => ~o.gpio
  /\ l \in PwmLeds /\ o.smf = "BREATHE" => ~o.gpio

RotateOK ==
  /\ rotate \in RotateObj
  /\ rotate.timer <=> rotate.active
  /\ rotate.active => rotate.current < rotate.count

PerLed ==
  /\ led \in [Leds -> LedObj]
  /\ \A l \in Leds : LedOK(l, led[l])
  /\ ~rotate.active => \A l \in Leds : DarkIfOff(l, led[l])
  /\ rotate.active => \A l \in Leds : ~led[l].timer /\ (led[l].gpio <=> l = CurrentLed)

QueueOK ==
  /\ queue \in Seq(Cmds) /\ Len(queue) <= QueueDepth
  /\ publishing \in BOOLEAN /\ submitted \in BOOLEAN
  /\ worker \in {"idle", "loop", "leaving", "lost"}
  /\ announced \in StateMsg
  /\ sent \in Nat

\* The inductive invariant.
LedInv == RotateOK /\ PerLed /\ QueueOK /\ NoLostWakeup

----------------------------------------------------------------------------
(* Breathe arithmetic.                                                     *)

\* A ramp has at least two frames.
LEMMA StepsType == ASSUME NEW p \in Nat PROVE Steps(p) \in Nat /\ Steps(p) >= 2
  BY LedAssumption, SMT DEF Steps

\* The duty of a frame inside the ramp is a percentage.
LEMMA BrightnessRange ==
  ASSUME NEW o \in LedObj, o.total >= 2, o.step < o.total
  PROVE  Brightness(o) \in Nat /\ Brightness(o) <= 100
<1>1. o.step \in Nat /\ o.total \in Nat
  BY DEF LedObj
<1>2. Brightness(o) = (o.step * 100) \div (o.total - 1)
  BY <1>1, SMT DEF Brightness
<1>. QED
  BY <1>1, <1>2, SMT

\* One step of the ramp stays inside it and touches nothing else.
LEMMA AdvanceRamp ==
  ASSUME NEW o \in LedObj, o.total >= 2, o.step < o.total
  PROVE  /\ BreatheAdvance(o) \in LedObj
         /\ BreatheAdvance(o).step < BreatheAdvance(o).total
         /\ BreatheAdvance(o).total = o.total
         /\ BreatheAdvance(o).smf = o.smf
         /\ BreatheAdvance(o).is_on = o.is_on
         /\ BreatheAdvance(o).gpio = o.gpio
         /\ BreatheAdvance(o).pwm = o.pwm
         /\ BreatheAdvance(o).in_on_phase = o.in_on_phase
<1>1. /\ o.step \in Nat /\ o.total \in Nat
      /\ o.step + 1 \in Nat /\ o.total - 1 \in Nat
      /\ o.step # 0 => o.step - 1 \in Nat
  BY SMT DEF LedObj
<1>2. BreatheAdvance(o) \in LedObj
  <2>1. [o EXCEPT !.step = o.total - 1, !.ramp_up = FALSE] \in LedObj
    BY <1>1, Zenon DEF LedObj
  <2>2. [o EXCEPT !.step = o.step + 1] \in LedObj
    BY <1>1, Zenon DEF LedObj
  <2>3. [o EXCEPT !.ramp_up = TRUE] \in LedObj
    BY <1>1, Zenon DEF LedObj
  <2>4. o.step # 0 => [o EXCEPT !.step = o.step - 1] \in LedObj
    BY <1>1, Zenon DEF LedObj
  <2>. QED
    BY <2>1, <2>2, <2>3, <2>4 DEF BreatheAdvance
<1>. QED
  BY <1>1, <1>2, SMT DEF BreatheAdvance, LedObj

----------------------------------------------------------------------------
(* One LED's state machine preserves LedOK.                                *)

\* Leaving a state cancels the timer and keeps the rest.
LEMMA ExitOK ==
  ASSUME NEW l \in Leds, NEW o, LedOK(l, o)
  PROVE  /\ LedOK(l, EffectExit(o)) /\ ~EffectExit(o).timer
         /\ EffectExit(o).gpio = o.gpio /\ EffectExit(o).smf = o.smf
<1>1. o \in LedObj
  BY DEF LedOK
<1>2. EffectExit(o) \in LedObj
  BY <1>1, Zenon DEF EffectExit, LedObj
<1>. QED
  BY <1>1, <1>2, SMT DEF LedOK, EffectExit, LedObj

\* Darkening an LED whose timer is cancelled, or lighting it.
LEMMA DarkenOK ==
  ASSUME NEW l \in Leds, NEW o, LedOK(l, o), ~o.timer
  PROVE  /\ LedOK(l, Darken(o)) /\ ~Darken(o).gpio /\ ~Darken(o).timer
         /\ LedOK(l, Lighten(o)) /\ Lighten(o).gpio /\ ~Lighten(o).timer
<1>1. o \in LedObj
  BY DEF LedOK
<1>2. Darken(o) \in LedObj /\ Lighten(o) \in LedObj
  BY <1>1, Zenon DEF Darken, Lighten, HwSet, LedObj
<1>. QED
  BY <1>1, <1>2, SMT DEF LedOK, Darken, Lighten, HwSet, LedObj

\* Every entry action establishes LedOK, and OFF is entered dark.
LEMMA EntryOK ==
  ASSUME NEW l \in Leds, NEW o, LedOK(l, o), ~o.timer, NEW p \in Nat
  PROVE  /\ LedOK(l, OffEntry(o)) /\ DarkIfOff(l, OffEntry(o))
         /\ LedOK(l, OnEntry(o)) /\ DarkIfOff(l, OnEntry(o))
         /\ LedOK(l, BlinkEntry(o)) /\ DarkIfOff(l, BlinkEntry(o))
         /\ LedOK(l, BreatheEntry(o, p)) /\ DarkIfOff(l, BreatheEntry(o, p))
<1>1. o \in LedObj
  BY DEF LedOK
<1>2. LedOK(l, OffEntry(o)) /\ DarkIfOff(l, OffEntry(o))
  <2>1. OffEntry(o) \in LedObj
    BY <1>1, Zenon DEF OffEntry, HwSet, LedObj, Smf
  <2>. QED
    BY <1>1, <2>1, SMT DEF LedOK, OffEntry, HwSet, LedObj, DarkIfOff
<1>3. LedOK(l, OnEntry(o)) /\ DarkIfOff(l, OnEntry(o))
  <2>1. OnEntry(o) \in LedObj
    BY <1>1, Zenon DEF OnEntry, HwSet, LedObj, Smf
  <2>. QED
    BY <1>1, <2>1, SMT DEF LedOK, OnEntry, HwSet, LedObj, DarkIfOff
<1>4. LedOK(l, BlinkEntry(o)) /\ DarkIfOff(l, BlinkEntry(o))
  <2>1. BlinkEntry(o) \in LedObj
    BY <1>1, Zenon DEF BlinkEntry, HwSet, LedObj, Smf
  <2>. QED
    BY <1>1, <2>1, SMT DEF LedOK, BlinkEntry, HwSet, LedObj, DarkIfOff
<1>5. LedOK(l, BreatheEntry(o, p)) /\ DarkIfOff(l, BreatheEntry(o, p))
  <2>1. Steps(p) \in Nat /\ Steps(p) >= 2
    BY StepsType
  <2>2. BreatheEntry(o, p) \in LedObj
    BY <1>1, <2>1, Zenon DEF BreatheEntry, BreatheReset, HwSet, LedObj, Smf
  <2>. QED
    BY <1>1, <2>1, <2>2, SMT DEF LedOK, BreatheEntry, BreatheReset, HwSet, LedObj, DarkIfOff
<1>. QED
  BY <1>2, <1>3, <1>4, <1>5

\* A command that restarts an effect re-arms its timer from a fresh ramp.
LEMMA RestartOK ==
  ASSUME NEW l \in Leds, NEW o, LedOK(l, o), o.smf \in {"BLINK", "BREATHE"}, NEW p \in Nat
  PROVE  /\ LedOK(l, Restart(o, p)) /\ Restart(o, p).smf = o.smf
         /\ Restart(o, p).gpio = o.gpio
<1>1. o \in LedObj
  BY DEF LedOK
<1>2. Steps(p) \in Nat /\ Steps(p) >= 2
  BY StepsType
<1>3. Restart(o, p) \in LedObj
  <2>1. [BreatheReset(o, p) EXCEPT !.timer = TRUE] \in LedObj
    BY <1>1, <1>2, Zenon DEF BreatheReset, LedObj
  <2>2. [o EXCEPT !.timer = TRUE] \in LedObj
    BY <1>1, Zenon DEF LedObj
  <2>. QED
    BY <2>1, <2>2 DEF Restart
<1>. QED
  BY <1>1, <1>2, <1>3, SMT DEF LedOK, Restart, BreatheReset, LedObj

\* A command preserves LedOK, and leaves an LED dark if it leaves it OFF.
LEMMA CmdRunOK ==
  ASSUME NEW l \in Leds, NEW o, LedOK(l, o), DarkIfOff(l, o),
         NEW m \in LedMsg, m.type # "ROTATE"
  PROVE  LedOK(l, CmdRun(o, m)) /\ DarkIfOff(l, CmdRun(o, m))
<1>. DEFINE x == EffectExit(o)
            t == Target(o, m.type)
            p == m.period_ms
<1>1. o \in LedObj /\ o.smf \in Smf /\ p \in Nat
      /\ m.type \in {"ON", "OFF", "TOGGLE", "BLINK", "BREATHE"}
  BY DEF LedOK, LedObj, LedMsg, CmdType
<1>2. LedOK(l, x) /\ ~x.timer
  BY ExitOK
<1>3. /\ LedOK(l, OffEntry(x)) /\ DarkIfOff(l, OffEntry(x))
      /\ LedOK(l, OnEntry(x)) /\ DarkIfOff(l, OnEntry(x))
      /\ LedOK(l, BlinkEntry(x)) /\ DarkIfOff(l, BlinkEntry(x))
      /\ LedOK(l, BreatheEntry(x, p)) /\ DarkIfOff(l, BreatheEntry(x, p))
  BY <1>1, <1>2, EntryOK
<1>4. t = "restart" => o.smf \in {"BLINK", "BREATHE"}
  BY <1>1 DEF Target, OffTarget, OnTarget, EffectTarget, Smf
<1>5. t = "restart" => LedOK(l, Restart(o, p)) /\ DarkIfOff(l, Restart(o, p))
  BY <1>1, <1>4, RestartOK DEF DarkIfOff
<1>. HIDE DEF x, t, p
<1>6. CmdRun(o, m) = IF t = "stay" THEN o
                     ELSE IF t = "restart" THEN Restart(o, p)
                     ELSE IF t = "OFF" THEN OffEntry(x)
                     ELSE IF t = "ON" THEN OnEntry(x)
                     ELSE IF t = "BLINK" THEN BlinkEntry(x)
                     ELSE BreatheEntry(x, p)
  BY DEF CmdRun, x, t, p
<1>. QED
  BY <1>3, <1>5, <1>6

\* An expiry preserves LedOK: a frame that is lit is remembered as lit.
LEMMA TickRunOK ==
  ASSUME NEW l \in Leds, NEW o, LedOK(l, o), DarkIfOff(l, o), o.timer
  PROVE  LedOK(l, TickRun(l, o)) /\ DarkIfOff(l, TickRun(l, o))
<1>. DEFINE e == [o EXCEPT !.timer = FALSE]
<1>1. o \in LedObj /\ o.smf \in {"BLINK", "BREATHE"}
  BY DEF LedOK
<1>2. /\ e \in LedObj /\ e.smf = o.smf /\ e.step = o.step /\ e.total = o.total
      /\ e.is_on = o.is_on /\ e.gpio = o.gpio /\ e.pwm = o.pwm
      /\ e.in_on_phase = o.in_on_phase
  <2>1. e \in LedObj
    BY <1>1, Zenon DEF LedObj
  <2>. QED
    BY <1>1, <2>1, SMT DEF LedObj
<1>. HIDE DEF e
<1>3. CASE o.smf = "BLINK"
  <2>1. BlinkTick(e) \in LedObj
    <3>1. (~e.is_on) \in BOOLEAN
      BY DEF LedObj
    <3>. QED
      BY <1>2, <3>1, Zenon DEF BlinkTick, HwSet, LedObj
  <2>2. LedOK(l, BlinkTick(e)) /\ DarkIfOff(l, BlinkTick(e))
    BY <1>1, <1>2, <1>3, <2>1, SMT DEF LedOK, BlinkTick, HwSet, LedObj, DarkIfOff
  <2>. QED
    BY <1>3, <2>2 DEF TickRun, e
<1>4. CASE o.smf = "BREATHE"
  <2>. DEFINE a == BreatheAdvance(e)
  <2>1. e.total >= 2 /\ e.step < e.total
    BY <1>2, <1>4 DEF LedOK
  <2>2. /\ a \in LedObj /\ a.step < a.total /\ a.total = e.total /\ a.smf = e.smf
        /\ a.is_on = e.is_on /\ a.gpio = e.gpio /\ a.pwm = e.pwm
        /\ a.in_on_phase = e.in_on_phase
    BY <1>2, <2>1, AdvanceRamp
  <2>. HIDE DEF a
  <2>3. CASE l \in PwmLeds
    <3>1. Brightness(e) \in Nat /\ Brightness(e) <= 100 /\ (Brightness(e) > 0) \in BOOLEAN
      BY <1>2, <2>1, BrightnessRange
    <3>2. PwmBreatheTick(e) = [a EXCEPT !.pwm = Brightness(e), !.is_on = (Brightness(e) > 0),
                                        !.timer = TRUE]
      BY DEF PwmBreatheTick, a
    <3>3. PwmBreatheTick(e) \in LedObj
      BY <2>2, <3>1, <3>2, Zenon DEF LedObj
    <3>4. LedOK(l, PwmBreatheTick(e)) /\ DarkIfOff(l, PwmBreatheTick(e))
      BY <1>1, <1>2, <1>4, <2>1, <2>2, <2>3, <3>1, <3>2, <3>3, SMT DEF LedOK, LedObj, DarkIfOff
    <3>. QED
      BY <1>4, <2>3, <3>4 DEF TickRun, e
  <2>4. CASE l \notin PwmLeds
    <3>. DEFINE dark == [HwSet(e, FALSE) EXCEPT !.is_on = FALSE, !.in_on_phase = FALSE,
                                                !.timer = TRUE]
                lit  == [HwSet(a, TRUE) EXCEPT !.is_on = TRUE, !.in_on_phase = TRUE,
                                               !.timer = TRUE]
                keep == [a EXCEPT !.timer = TRUE]
    <3>1. dark \in LedObj /\ lit \in LedObj /\ keep \in LedObj
      BY <1>2, <2>2, Zenon DEF HwSet, LedObj
    <3>2. LedOK(l, dark) /\ DarkIfOff(l, dark)
      BY <1>1, <1>2, <1>4, <2>1, <2>4, <3>1, SMT DEF LedOK, HwSet, LedObj, DarkIfOff
    <3>3. LedOK(l, lit) /\ DarkIfOff(l, lit)
      BY <1>1, <1>2, <1>4, <2>1, <2>2, <2>4, <3>1, SMT DEF LedOK, HwSet, LedObj, DarkIfOff
    <3>4. ~e.in_on_phase => LedOK(l, keep) /\ DarkIfOff(l, keep)
      BY <1>1, <1>2, <1>4, <2>1, <2>2, <2>4, <3>1, SMT DEF LedOK, LedObj, DarkIfOff
    <3>5. SwBreatheTick(e) = IF e.in_on_phase THEN dark
                             ELSE IF OnMs(a) > 0 THEN lit ELSE keep
      BY DEF SwBreatheTick, a
    <3>. HIDE DEF dark, lit, keep
    <3>6. LedOK(l, SwBreatheTick(e)) /\ DarkIfOff(l, SwBreatheTick(e))
      BY <3>2, <3>3, <3>4, <3>5
    <3>. QED
      BY <1>4, <2>4, <3>6 DEF TickRun, e
  <2>. QED
    BY <2>3, <2>4
<1>. QED
  BY <1>1, <1>3, <1>4

----------------------------------------------------------------------------
(* The invariant: initially.                                               *)

LEMMA LedsNonEmpty == 0 \in Leds /\ Leds \subseteq Nat
  BY LedAssumption, SMT DEF Leds

LEMMA InitInv == Init => LedInv
<1>. SUFFICES ASSUME Init PROVE LedInv
  OBVIOUS
<1>1. RotateOK
  <2>1. [i \in Leds |-> IF i < RotateNumLeds THEN i ELSE 0] \in [Leds -> Nat]
    BY LedsNonEmpty
  <2>2. rotate \in RotateObj
    BY <2>1, LedAssumption, Zenon DEF Init, RotateObj
  <2>. QED
    BY <2>2 DEF Init, RotateOK
<1>2. PerLed
  <2>. DEFINE o == [smf |-> "OFF", is_on |-> FALSE, timer |-> FALSE, gpio |-> FALSE, pwm |-> 0,
                    step |-> 0, total |-> 0, ramp_up |-> TRUE, in_on_phase |-> FALSE]
  <2>1. o \in LedObj
    BY DEF LedObj, Smf
  <2>2. \A l \in Leds : led[l] = o
    BY DEF Init
  <2>3. \A l \in Leds : LedOK(l, o) /\ DarkIfOff(l, o)
    BY <2>1, SMT DEF LedOK, DarkIfOff
  <2>4. led \in [Leds -> LedObj]
    BY <2>1 DEF Init
  <2>5. ~rotate.active
    BY DEF Init
  <2>. QED
    BY <2>2, <2>3, <2>4, <2>5 DEF PerLed
<1>3. QueueOK
  <2>1. queue \in Seq(Cmds) /\ Len(queue) <= QueueDepth
    BY LedAssumption DEF Init
  <2>2. announced \in StateMsg
    BY DEF Init, StateMsg
  <2>. QED
    BY <2>1, <2>2 DEF Init, QueueOK
<1>4. NoLostWakeup
  BY DEF Init, NoLostWakeup
<1>. QED
  BY <1>1, <1>2, <1>3, <1>4 DEF LedInv

----------------------------------------------------------------------------
(* The invariant: one command.                                             *)

\* Turning one LED off or on, or none if the index is no LED of the brick.
LEMMA OneLedOK ==
  ASSUME NEW f \in [Leds -> LedObj], \A l \in Leds : LedOK(l, f[l]) /\ ~f[l].timer, NEW i
  PROVE  /\ Darkened(f, i) \in [Leds -> LedObj] /\ Lightened(f, i) \in [Leds -> LedObj]
         /\ \A l \in Leds :
              /\ LedOK(l, Darkened(f, i)[l]) /\ ~Darkened(f, i)[l].timer
              /\ Darkened(f, i)[l].gpio <=> f[l].gpio /\ l # i
              /\ LedOK(l, Lightened(f, i)[l]) /\ ~Lightened(f, i)[l].timer
              /\ Lightened(f, i)[l].gpio <=> f[l].gpio \/ l = i
<1>1. \A l \in Leds : /\ LedOK(l, Darken(f[l])) /\ ~Darken(f[l]).gpio /\ ~Darken(f[l]).timer
                      /\ LedOK(l, Lighten(f[l])) /\ Lighten(f[l]).gpio /\ ~Lighten(f[l]).timer
  BY DarkenOK
<1>2. \A l \in Leds : Darken(f[l]) \in LedObj /\ Lighten(f[l]) \in LedObj
  BY <1>1, Zenon DEF LedOK
<1>. QED
  BY <1>1, <1>2 DEF Darkened, Lightened

\* A store keeps the drain where it is, unless it went past the array.
LEMMA StoresOK == ASSUME NEW S, NEW w \in AfterStores(S) PROVE w \in {worker, "lost"}
  BY DEF AfterStores

\* ROTATE ending leaves every LED acceptable and every OFF LED dark.
LEMMA RotateStopOK ==
  ASSUME LedInv
  PROVE  /\ LedsAfterRotateStop \in [Leds -> LedObj]
         /\ \A l \in Leds : LedOK(l, LedsAfterRotateStop[l]) /\ DarkIfOff(l, LedsAfterRotateStop[l])
         /\ RotateStop \in RotateObj /\ ~RotateStop.active /\ ~RotateStop.timer
<1>1. RotateOK /\ PerLed
  BY DEF LedInv
<1>2. RotateStop \in RotateObj /\ ~RotateStop.active /\ ~RotateStop.timer
  <2>1. rotate \in RotateObj /\ (~rotate.active => ~rotate.timer)
    BY <1>1 DEF RotateOK
  <2>2. (IF rotate.active THEN FALSE ELSE rotate.timer) = FALSE
    BY <2>1 DEF RotateObj
  <2>3. RotateStop = [rotate EXCEPT !.active = FALSE, !.timer = FALSE]
    BY <2>1, <2>2, Zenon DEF RotateStop, RotateObj
  <2>4. RotateStop \in RotateObj
    BY <2>1, <2>3, Zenon DEF RotateObj
  <2>. QED
    BY <2>1, <2>3, <2>4, SMT DEF RotateObj
<1>3. CASE ~rotate.active
  BY <1>1, <1>2, <1>3 DEF LedsAfterRotateStop, PerLed
<1>4. CASE rotate.active
  <2>1. /\ led \in [Leds -> LedObj]
        /\ \A l \in Leds : LedOK(l, led[l]) /\ ~led[l].timer /\ (led[l].gpio <=> l = CurrentLed)
    BY <1>1, <1>4 DEF PerLed
  <2>2. LedsAfterRotateStop = Darkened(led, CurrentLed)
    BY <1>4 DEF LedsAfterRotateStop
  <2>3. /\ LedsAfterRotateStop \in [Leds -> LedObj]
        /\ \A l \in Leds : LedOK(l, LedsAfterRotateStop[l]) /\ ~LedsAfterRotateStop[l].gpio
    BY <2>1, <2>2, OneLedOK
  <2>. QED
    BY <1>2, <2>3 DEF DarkIfOff
<1>. QED
  BY <1>3, <1>4

\* A command to an LED, or to one that does not exist, keeps the invariant's
\* part about LEDs and ROTATE.
LEMMA LedCommandOK ==
  ASSUME LedInv, NEW m \in LedMsg, m.type # "ROTATE", LedCommand(m)
  PROVE  RotateOK' /\ PerLed' /\ announced' \in StateMsg /\ worker' \in {worker, "lost"}
<1>. DEFINE l == m.led_number
            base == LedsAfterRotateStop
            n == CmdRun(base[l], m)
<1>1. /\ l \in Leds /\ rotate' = RotateStop
      /\ led' = [base EXCEPT ![l] = n]
      /\ announced' = Announcement(base[l], m, l)
      /\ worker' \in {worker, "lost"}
  BY StoresOK DEF LedCommand
<1>2. /\ base \in [Leds -> LedObj]
      /\ \A k \in Leds : LedOK(k, base[k]) /\ DarkIfOff(k, base[k])
      /\ RotateStop \in RotateObj /\ ~RotateStop.active /\ ~RotateStop.timer
  BY RotateStopOK
<1>3. LedOK(l, n) /\ DarkIfOff(l, n)
  BY <1>1, <1>2, CmdRunOK
<1>4. n \in LedObj
  BY <1>3 DEF LedOK
<1>5. announced' \in StateMsg
  <2>1. n.is_on \in BOOLEAN /\ m.type \in CmdType
    BY <1>4 DEF LedObj, LedMsg
  <2>2. l \in Nat
    BY <1>1, LedsNonEmpty
  <2>. QED
    BY <1>1, <2>1, <2>2, Zenon DEF Announcement, StateMsg
<1>. HIDE DEF n, base, l
<1>6. RotateOK'
  BY <1>1, <1>2, SMT DEF RotateOK, RotateObj
<1>7. PerLed'
  <2>1. led' \in [Leds -> LedObj]
    BY <1>1, <1>2, <1>4
  <2>2. \A k \in Leds : LedOK(k, led'[k]) /\ DarkIfOff(k, led'[k])
    BY <1>1, <1>2, <1>3
  <2>3. ~rotate'.active
    BY <1>1, <1>2
  <2>. QED
    BY <2>1, <2>2, <2>3 DEF PerLed, LedOK, DarkIfOff
<1>. QED
  BY <1>1, <1>5, <1>6, <1>7

\* ROTATE takes over dark LEDs whose timers are cancelled.
LEMMA CancelAllOK ==
  ASSUME PerLed
  PROVE  /\ CancelAllEffectTimers \in [Leds -> LedObj]
         /\ \A l \in Leds : /\ LedOK(l, CancelAllEffectTimers[l])
                            /\ ~CancelAllEffectTimers[l].gpio
                            /\ ~CancelAllEffectTimers[l].timer
<1>1. ASSUME NEW l \in Leds
      PROVE  /\ LedOK(l, Darken(EffectExit(led[l]))) /\ ~Darken(EffectExit(led[l])).gpio
             /\ ~Darken(EffectExit(led[l])).timer
  <2>1. LedOK(l, EffectExit(led[l])) /\ ~EffectExit(led[l]).timer
    BY ExitOK DEF PerLed
  <2>. QED
    BY <2>1, DarkenOK
<1>2. \A l \in Leds : Darken(EffectExit(led[l])) \in LedObj
  BY <1>1 DEF LedOK
<1>. QED
  BY <1>1, <1>2 DEF CancelAllEffectTimers

\* The sweep has between one and NumLeds entries.
LEMMA SweepOK ==
  ASSUME RotateOK, NEW m \in LedMsg
  PROVE  /\ SweepCount(m) \in 1 .. NumLeds
         /\ SweepIndices(m) \in [Leds -> Nat]
         /\ SweepIndices(m)[0] \in Nat
<1>1. m.rotate_count \in Nat /\ m.rotate_indices \in [Leds -> Nat]
  BY DEF LedMsg
<1>2. SweepCount(m) \in 1 .. NumLeds
  BY <1>1, LedAssumption, SMT DEF SweepCount, MinOf
<1>3. rotate.indices \in [Leds -> Nat]
  BY DEF RotateOK, RotateObj
<1>4. SweepIndices(m) \in [Leds -> Nat]
  BY <1>1, <1>3, LedsNonEmpty DEF SweepIndices
<1>. QED
  BY <1>2, <1>4, LedsNonEmpty

LEMMA StartRotateOK ==
  ASSUME LedInv, NEW m \in LedMsg, StartRotate(m)
  PROVE  RotateOK' /\ PerLed' /\ announced' \in StateMsg /\ worker' \in {worker, "lost"}
<1>. DEFINE first == SweepIndices(m)[0]
            base == CancelAllEffectTimers
<1>1. /\ rotate' = [active |-> TRUE, timer |-> TRUE, current |-> 0,
                    count |-> SweepCount(m), indices |-> SweepIndices(m)]
      /\ led' = Lightened(base, first)
      /\ announced' = [led_number |-> first, is_on |-> TRUE, command |-> "ROTATE"]
      /\ worker' \in {worker, "lost"}
  BY StoresOK DEF StartRotate
<1>2. /\ SweepCount(m) \in 1 .. NumLeds /\ SweepIndices(m) \in [Leds -> Nat]
      /\ first \in Nat
  BY SweepOK DEF LedInv
<1>3. /\ base \in [Leds -> LedObj]
      /\ \A l \in Leds : LedOK(l, base[l]) /\ ~base[l].gpio /\ ~base[l].timer
  BY CancelAllOK DEF LedInv
<1>4. announced' \in StateMsg
  BY <1>1, <1>2 DEF StateMsg, CmdType
<1>5. rotate' \in RotateObj
  BY <1>1, <1>2, Zenon DEF RotateObj
<1>6. /\ rotate'.active /\ rotate'.timer /\ rotate'.current = 0
      /\ rotate'.count = SweepCount(m) /\ rotate'.indices = SweepIndices(m)
  BY <1>1
<1>7. RotateOK'
  BY <1>2, <1>5, <1>6, LedAssumption, SMT DEF RotateOK
<1>8. CurrentLed' = first
  BY <1>6 DEF CurrentLed
<1>. HIDE DEF first, base
<1>9. /\ led' \in [Leds -> LedObj]
      /\ \A l \in Leds : LedOK(l, led'[l]) /\ ~led'[l].timer /\ (led'[l].gpio <=> l = first)
  BY <1>1, <1>3, OneLedOK
<1>10. PerLed'
  BY <1>6, <1>8, <1>9 DEF PerLed, LedOK
<1>. QED
  BY <1>1, <1>4, <1>7, <1>10

----------------------------------------------------------------------------
(* The invariant: one expiry.                                              *)

\* The sweep moves its light to the next LED of the index array.
LEMMA RotateWorkOK ==
  ASSUME LedInv, RotateWork
  PROVE  RotateOK' /\ PerLed' /\ worker' \in {worker, "lost"}
<1>. DEFINE next == (rotate.current + 1) % rotate.count
            old == CurrentLed
            new == rotate.indices[next]
            mid == Darkened(led, old)
<1>1. rotate.active /\ RotateOK /\ PerLed
  BY DEF LedInv, RotateOK, RotateWork
<1>2. /\ rotate' = [rotate EXCEPT !.current = next]
      /\ led' = Lightened(mid, new)
      /\ worker' \in {worker, "lost"}
  BY <1>1, StoresOK DEF RotateWork
<1>3. /\ rotate \in RotateObj /\ rotate.timer
      /\ rotate.current \in Nat /\ rotate.count \in 1 .. NumLeds
      /\ rotate.current < rotate.count
  BY <1>1 DEF RotateOK, RotateObj
<1>4. next \in 0 .. (rotate.count - 1)
  BY <1>3, LedAssumption, SMT
<1>5. /\ rotate' \in RotateObj /\ rotate'.active /\ rotate'.timer /\ rotate'.current = next
      /\ rotate'.count = rotate.count /\ rotate'.indices = rotate.indices
  <2>1. next \in Nat
    BY <1>4, <1>3, SMT
  <2>2. rotate' \in RotateObj
    BY <1>2, <1>3, <2>1, Zenon DEF RotateObj
  <2>. QED
    BY <1>1, <1>2, <1>3, <2>2 DEF RotateObj
<1>6. RotateOK'
  BY <1>3, <1>4, <1>5, SMT DEF RotateOK
<1>7. CurrentLed' = new
  BY <1>5 DEF CurrentLed
<1>8. /\ led \in [Leds -> LedObj]
      /\ \A l \in Leds : LedOK(l, led[l]) /\ ~led[l].timer /\ (led[l].gpio <=> l = old)
  BY <1>1 DEF PerLed
<1>. HIDE DEF next, old, new
<1>9. /\ mid \in [Leds -> LedObj]
      /\ \A l \in Leds : LedOK(l, mid[l]) /\ ~mid[l].timer /\ ~mid[l].gpio
  BY <1>8, OneLedOK
<1>. HIDE DEF mid
<1>10. /\ led' \in [Leds -> LedObj]
       /\ \A l \in Leds : LedOK(l, led'[l]) /\ ~led'[l].timer /\ (led'[l].gpio <=> l = new)
  BY <1>2, <1>9, OneLedOK
<1>11. PerLed'
  BY <1>5, <1>7, <1>10 DEF PerLed, LedOK
<1>. QED
  BY <1>2, <1>6, <1>11

\* An LED's own expiry happens outside ROTATE.
LEMMA EffectWorkOK ==
  ASSUME LedInv, NEW k \in Leds, EffectWork(k)
  PROVE  RotateOK' /\ PerLed'
<1>1. RotateOK /\ PerLed /\ led[k].timer /\ rotate' = rotate
      /\ led' = [led EXCEPT ![k] = TickRun(k, led[k])]
  BY DEF LedInv, EffectWork
<1>2. ~rotate.active
  BY <1>1 DEF PerLed
<1>3. LedOK(k, TickRun(k, led[k])) /\ DarkIfOff(k, TickRun(k, led[k]))
  BY <1>1, <1>2, TickRunOK DEF PerLed
<1>4. RotateOK'
  BY <1>1 DEF RotateOK, RotateObj
<1>5. led' \in [Leds -> LedObj]
  BY <1>1, <1>3 DEF PerLed, LedOK
<1>6. \A l \in Leds : LedOK(l, led'[l]) /\ DarkIfOff(l, led'[l])
  BY <1>1, <1>2, <1>3 DEF PerLed
<1>. QED
  BY <1>1, <1>2, <1>4, <1>5, <1>6 DEF PerLed, LedOK, DarkIfOff

----------------------------------------------------------------------------
(* The invariant: every step.                                              *)

LEMMA CmdsAreMsgs == Cmds \subseteq LedMsg
  BY LedAssumption

\* One iteration of the drain.
LEMMA DrainGetInv == ASSUME LedInv, DrainGet PROVE LedInv'
<1>1. /\ worker = "loop" /\ queue # <<>> /\ queue' = Tail(queue)
      /\ ProcessLedCommand(Head(queue))
      /\ UNCHANGED <<publishing, submitted, sent>>
  BY DEF DrainGet
<1>2. Head(queue) \in Cmds /\ Tail(queue) \in Seq(Cmds) /\ Len(Tail(queue)) <= QueueDepth
  BY <1>1, LedAssumption, SMT DEF LedInv, QueueOK
<1>3. Head(queue) \in LedMsg
  BY <1>2, CmdsAreMsgs
<1>4. RotateOK' /\ PerLed' /\ announced' \in StateMsg /\ worker' \in {"loop", "lost"}
  <2>. DEFINE m == Head(queue)
  <2>1. CASE m.type = "ROTATE" /\ StartRotate(m)
    BY <1>1, <1>3, <2>1, StartRotateOK
  <2>2. CASE m.type # "ROTATE" /\ InvalidLed(m)
    <3>1. led' = led /\ rotate' = rotate /\ worker' = worker /\ announced' = NoMsg
      BY <2>2 DEF InvalidLed
    <3>. QED
      BY <1>1, <3>1 DEF LedInv, RotateOK, PerLed, CurrentLed, LedOK, DarkIfOff, StateMsg
  <2>3. CASE m.type # "ROTATE" /\ LedCommand(m)
    BY <1>1, <1>3, <2>3, LedCommandOK
  <2>. QED
    BY <1>1, <2>1, <2>2, <2>3 DEF ProcessLedCommand
<1>5. QueueOK' /\ NoLostWakeup'
  BY <1>1, <1>2, <1>4 DEF LedInv, QueueOK, NoLostWakeup
<1>. QED
  BY <1>4, <1>5 DEF LedInv

\* Steps that leave the LEDs and ROTATE alone.
LEMMA QueueStepInv ==
  ASSUME LedInv,
         (\E m \in Cmds : ListenerPut(m)) \/ ListenerSubmit \/ DrainBegin \/ DrainEmpty \/ DrainEnd
  PROVE  LedInv'
<1>1. UNCHANGED <<led, rotate>> /\ announced' = NoMsg
  BY DEF ListenerPut, ListenerSubmit, DrainBegin, DrainEmpty, DrainEnd
<1>2. RotateOK' /\ PerLed' /\ announced' \in StateMsg
  BY <1>1 DEF LedInv, RotateOK, PerLed, CurrentLed, LedOK, DarkIfOff, StateMsg
<1>3. QueueOK' /\ NoLostWakeup'
  <2>1. ASSUME NEW m \in Cmds, ListenerPut(m) PROVE QueueOK' /\ NoLostWakeup'
    <3>1. queue' \in Seq(Cmds) /\ Len(queue') <= QueueDepth
      BY <2>1, LedAssumption, SMT DEF LedInv, QueueOK, ListenerPut
    <3>2. sent' \in Nat
      BY <2>1, SMT DEF LedInv, QueueOK, ListenerPut
    <3>. QED
      BY <1>2, <2>1, <3>1, <3>2 DEF LedInv, QueueOK, NoLostWakeup, ListenerPut
  <2>2. CASE ListenerSubmit
    BY <1>2, <2>2 DEF LedInv, QueueOK, NoLostWakeup, ListenerSubmit
  <2>3. CASE DrainBegin
    BY <1>2, <2>3 DEF LedInv, QueueOK, NoLostWakeup, DrainBegin
  <2>4. CASE DrainEmpty
    BY <1>2, <2>4 DEF LedInv, QueueOK, NoLostWakeup, DrainEmpty
  <2>5. CASE DrainEnd
    BY <1>2, <2>5 DEF LedInv, QueueOK, NoLostWakeup, DrainEnd
  <2>. QED
    BY <2>1, <2>2, <2>3, <2>4, <2>5
<1>. QED
  BY <1>2, <1>3 DEF LedInv

LEMMA NextInv == LedInv /\ [Next]_vars => LedInv'
<1>. SUFFICES ASSUME LedInv, [Next]_vars PROVE LedInv'
  OBVIOUS
<1>1. ASSUME NEW m \in Cmds, ListenerPut(m) PROVE LedInv'
  BY <1>1, QueueStepInv
<1>2. CASE ListenerSubmit \/ DrainBegin \/ DrainEmpty \/ DrainEnd
  BY <1>2, QueueStepInv
<1>3. CASE DrainGet
  BY <1>3, DrainGetInv
<1>4. ASSUME NEW l \in Leds, EffectWork(l) PROVE LedInv'
  <2>1. RotateOK' /\ PerLed'
    BY <1>4, EffectWorkOK
  <2>2. announced' = NoMsg /\ UNCHANGED <<queue, publishing, submitted, worker, sent>>
    BY <1>4 DEF EffectWork
  <2>. QED
    BY <2>1, <2>2 DEF LedInv, QueueOK, NoLostWakeup, StateMsg
<1>5. CASE RotateWork
  <2>1. RotateOK' /\ PerLed' /\ worker' \in {worker, "lost"}
    BY <1>5, RotateWorkOK
  <2>2. announced' = NoMsg /\ UNCHANGED <<queue, publishing, submitted, sent>>
    BY <1>5 DEF RotateWork
  <2>. QED
    BY <2>1, <2>2 DEF LedInv, QueueOK, NoLostWakeup, StateMsg
<1>6. CASE UNCHANGED vars
  BY <1>6 DEF vars, LedInv, RotateOK, PerLed, QueueOK, NoLostWakeup, CurrentLed, LedOK, DarkIfOff
<1>. QED
  BY <1>1, <1>2, <1>3, <1>4, <1>5, <1>6 DEF Next

----------------------------------------------------------------------------
(* Theorems.                                                               *)

\* led.c keeps its inductive invariant whatever is published and whenever.
THEOREM Invariant == Spec => []LedInv
<1>1. Init => LedInv
  BY InitInv
<1>2. LedInv /\ [Next]_vars => LedInv'
  BY NextInv
<1>. QED
  BY <1>1, <1>2, PTL DEF Spec

\* Type correctness, the command queue's capacity included.
THEOREM TypeCorrect == Spec => []TypeOK
<1>1. LedInv => TypeOK
  BY DEF LedInv, RotateOK, PerLed, QueueOK, TypeOK
<1>. QED
  BY <1>1, Invariant, PTL

\* No queued command is ever stranded without a drain on its way.
THEOREM NoLostWakeupHolds == Spec => []NoLostWakeup
<1>1. LedInv => NoLostWakeup
  BY DEF LedInv
<1>. QED
  BY <1>1, Invariant, PTL

\* Every pending timer belongs to the state that waits for it.
THEOREM TimersOwnedHolds == Spec => []TimersOwned
<1>1. LedInv => TimersOwned
  <2>. SUFFICES ASSUME LedInv PROVE TimersOwned
    OBVIOUS
  <2>1. ASSUME NEW l \in Leds, led[l].timer
        PROVE  led[l].smf \in {"BLINK", "BREATHE"} /\ ~rotate.active
    BY <2>1 DEF LedInv, PerLed, LedOK
  <2>. QED
    BY <2>1 DEF TimersOwned, LedInv, RotateOK
<1>. QED
  BY <1>1, Invariant, PTL

\* A duty is left by a ramp of a hardware-PWM LED.
LEMMA DutyKept == ASSUME LedInv, NEW l \in Leds, led[l].pwm > 0 PROVE KeepsDuty(l)
<1>1. /\ led[l].total > 0
      /\ l \notin PwmLeds => led[l].pwm = 0
  BY DEF LedInv, PerLed, LedOK
<1>. QED
  BY <1>1, SMT DEF KeepsDuty

\* While ROTATE runs, no LED but the one it points at is lit, except those that
\* keep the duty of a hardware-PWM ramp.
THEOREM RotateOwnsLedsHolds == Spec => []RotateOwnsLeds
<1>1. LedInv => RotateOwnsLeds
  <2>. SUFFICES ASSUME LedInv, rotate.active PROVE RotateOwnsLeds
    BY DEF RotateOwnsLeds
  <2>1. rotate.current < rotate.count
    BY DEF LedInv, RotateOK
  <2>2. \A l \in Leds : led[l].gpio <=> l = CurrentLed
    BY DEF LedInv, PerLed
  <2>3. ASSUME NEW l \in Leds, Lit(led[l]), l # CurrentLed PROVE KeepsDuty(l)
    BY <2>2, <2>3, DutyKept DEF Lit
  <2>. QED
    BY <2>1, <2>2, <2>3 DEF RotateOwnsLeds
<1>. QED
  BY <1>1, Invariant, PTL

\* led_get_state agrees with the light of an LED, unless the LED reads dark while
\* it keeps the duty of a hardware-PWM ramp.
THEOREM CacheMatchesHardwareHolds == Spec => []CacheMatchesHardware
<1>1. LedInv => CacheMatchesHardware
  <2>. SUFFICES ASSUME LedInv, NEW l \in Leds, led[l].is_on # Lit(led[l])
                PROVE  KeepsDuty(l) /\ ~led[l].is_on /\ ~led[l].gpio
    BY DEF CacheMatchesHardware
  <2>1. /\ led[l].is_on \in BOOLEAN
        /\ led[l].is_on => led[l].gpio \/ led[l].pwm > 0
        /\ led[l].gpio => led[l].is_on
    BY DEF LedInv, PerLed, LedOK, LedObj
  <2>2. ~led[l].is_on /\ ~led[l].gpio /\ led[l].pwm > 0
    BY <2>1, Zenon DEF Lit
  <2>. QED
    BY <2>2, DutyKept
<1>. QED
  BY <1>1, Invariant, PTL

\* An OFF LED is dark outside ROTATE, unless it keeps the duty of a hardware-PWM
\* ramp.
THEOREM OffIsDarkHolds == Spec => []OffIsDark
<1>1. LedInv => OffIsDark
  <2>. SUFFICES ASSUME LedInv, NEW l \in Leds, led[l].smf = "OFF", ~rotate.active
                PROVE  ~led[l].gpio /\ (Lit(led[l]) => KeepsDuty(l))
    BY DEF OffIsDark
  <2>1. ~led[l].gpio
    BY DEF LedInv, PerLed, DarkIfOff
  <2>. QED
    BY <2>1, DutyKept DEF Lit
<1>. QED
  BY <1>1, Invariant, PTL

\* A ramp never leaves its range, so no duty exceeds 100 per cent.
THEOREM BreatheRampHolds == Spec => []BreatheRamp
<1>1. LedInv => BreatheRamp
  BY DEF LedInv, PerLed, LedOK, BreatheRamp
<1>. QED
  BY <1>1, Invariant, PTL
=============================================================================
