---------------------------- MODULE ButtonProofs ----------------------------
(***************************************************************************)
(* Proofs about Button, for any set of buttons, any number of presses and  *)
(* any lag.  A handler runs one machine once: the lemmas say what each     *)
(* entry and exit function makes of an object's Shape, CallbackOK,         *)
(* LongExpiryOK and ClickExpiryOK that the handlers preserve ButtonOK, and *)
(* the invariant is ButtonOK of every button.  The second half is about a  *)
(* subscriber: every handler makes one of the moves in Tells, and a move   *)
(* is a step of ButtonEvents.                                              *)
(***************************************************************************)
EXTENDS Button, TLAPS

\* The states of a button under a finger.
Held == {"PRESSED", "PRESSED2", "LONG_PRESS"}

\* The machine, the samples and the timers of an object, its counters aside.
Shape(o, st, cur, prev, long, click) ==
  /\ o \in ButtonObj
  /\ o.state = st /\ o.current_state = cur /\ o.previous_state = prev
  /\ o.long_work = long /\ o.click_work = click

\* A state that agrees with the sample and the timers.
Fits(st, cur, long, click) ==
  /\ cur \in BOOLEAN
  /\ cur <=> st \in Held
  /\ long <=> st = "PRESSED"
  /\ click <=> st = "CLICK_WAIT"

\* The two one-shot flags.
Flags(o, fired, timeout) == o.long_press_fired = fired /\ o.click_timeout = timeout

\* A button's object between two handlers.
ButtonOK(o) ==
  /\ o \in ButtonObj
  /\ o.previous_state = o.current_state
  /\ o.current_state <=> o.state \in Held
  /\ o.long_work <=> o.state = "PRESSED"
  /\ o.click_work <=> o.state = "CLICK_WAIT"
  /\ ~o.long_press_fired /\ ~o.click_timeout

\* The inductive invariant.
ButtonInv == sm \in [Buttons -> ButtonObj] /\ now \in Nat /\ \A b \in Buttons : ButtonOK(sm[b])

-----------------------------------------------------------------------------
(* Entry and exit functions.                                               *)

\* A press starts the long-press timer and counts.
LEMMA PressedEntryShape ==
  ASSUME NEW o, NEW cur, NEW prev, NEW long, NEW click, NEW fired, NEW timeout, NEW t \in Nat,
         Shape(o, "IDLE", cur, prev, long, click), Flags(o, fired, timeout)
  PROVE  /\ Shape(PressedEntry(o, t), "PRESSED", cur, prev, TRUE, click)
         /\ Flags(PressedEntry(o, t), fired, timeout)
<1>. DEFINE n == PressedEntry(o, t)
<1>1. o.press_count + 1 \in Nat
  BY SMT DEF Shape, ButtonObj
<1>2. n \in ButtonObj
  BY <1>1, Zenon DEF Shape, ButtonObj, State, PressedEntry
<1>3. /\ n.state = "PRESSED"
      /\ n.current_state = o.current_state /\ n.previous_state = o.previous_state
      /\ n.long_work = TRUE /\ n.click_work = o.click_work
      /\ n.long_press_fired = o.long_press_fired
      /\ n.click_timeout = o.click_timeout
  BY SMT DEF Shape, ButtonObj, PressedEntry
<1>. QED
  BY <1>2, <1>3, Zenon DEF Shape, Flags

\* Leaving PRESSED stops the long-press timer and lowers its flag.
LEMMA PressedExitShape ==
  ASSUME NEW o, NEW cur, NEW prev, NEW long, NEW click, NEW fired, NEW timeout, NEW u \in Nat,
         Shape(o, "PRESSED", cur, prev, long, click), Flags(o, fired, timeout)
  PROVE  /\ Shape(PressedExit(o, u), "PRESSED", cur, prev, FALSE, click)
         /\ Flags(PressedExit(o, u), FALSE, timeout)
<1>. DEFINE n == PressedExit(o, u)
<1>2. n \in ButtonObj
  BY Zenon DEF Shape, ButtonObj, State, PressedExit
<1>3. /\ n.state = "PRESSED"
      /\ n.current_state = o.current_state /\ n.previous_state = o.previous_state
      /\ n.long_work = FALSE /\ n.click_work = o.click_work
      /\ n.long_press_fired = FALSE
      /\ n.click_timeout = o.click_timeout
  BY SMT DEF Shape, ButtonObj, PressedExit
<1>. QED
  BY <1>2, <1>3, Zenon DEF Shape, Flags

\* CLICK_WAIT starts the click timer.
LEMMA ClickWaitEntryShape ==
  ASSUME NEW o, NEW cur, NEW prev, NEW long, NEW click, NEW fired, NEW timeout,
         Shape(o, "PRESSED", cur, prev, long, click), Flags(o, fired, timeout)
  PROVE  /\ Shape(ClickWaitEntry(o), "CLICK_WAIT", cur, prev, long, TRUE)
         /\ Flags(ClickWaitEntry(o), fired, timeout)
<1>. DEFINE n == ClickWaitEntry(o)
<1>2. n \in ButtonObj
  BY Zenon DEF Shape, ButtonObj, State, ClickWaitEntry
<1>3. /\ n.state = "CLICK_WAIT"
      /\ n.current_state = o.current_state /\ n.previous_state = o.previous_state
      /\ n.long_work = o.long_work /\ n.click_work = TRUE
      /\ n.long_press_fired = o.long_press_fired
      /\ n.click_timeout = o.click_timeout
  BY SMT DEF Shape, ButtonObj, ClickWaitEntry
<1>. QED
  BY <1>2, <1>3, Zenon DEF Shape, Flags

\* LONG_PRESS touches neither timer.
LEMMA LongPressEntryShape ==
  ASSUME NEW o, NEW cur, NEW prev, NEW long, NEW click, NEW fired, NEW timeout,
         Shape(o, "PRESSED", cur, prev, long, click), Flags(o, fired, timeout)
  PROVE  /\ Shape(LongPressEntry(o), "LONG_PRESS", cur, prev, long, click)
         /\ Flags(LongPressEntry(o), fired, timeout)
<1>. DEFINE n == LongPressEntry(o)
<1>2. n \in ButtonObj
  BY Zenon DEF Shape, ButtonObj, State, LongPressEntry
<1>3. /\ n.state = "LONG_PRESS"
      /\ n.current_state = o.current_state /\ n.previous_state = o.previous_state
      /\ n.long_work = o.long_work /\ n.click_work = o.click_work
      /\ n.long_press_fired = o.long_press_fired
      /\ n.click_timeout = o.click_timeout
  BY SMT DEF Shape, ButtonObj, LongPressEntry
<1>. QED
  BY <1>2, <1>3, Zenon DEF Shape, Flags

\* Leaving CLICK_WAIT for PRESSED2 stops the timer.
LEMMA Pressed2EntryShape ==
  ASSUME NEW o, NEW cur, NEW prev, NEW long, NEW click, NEW fired, NEW timeout, NEW t \in Nat,
         Shape(o, "CLICK_WAIT", cur, prev, long, click), Flags(o, fired, timeout)
  PROVE  /\ Shape(Pressed2Entry([o EXCEPT !.click_work = FALSE], t), "PRESSED2", cur, prev, long, FALSE)
         /\ Flags(Pressed2Entry([o EXCEPT !.click_work = FALSE], t), fired, timeout)
<1>. DEFINE n == Pressed2Entry([o EXCEPT !.click_work = FALSE], t)
<1>1. o.press_count + 1 \in Nat
  BY SMT DEF Shape, ButtonObj
<1>2. n \in ButtonObj
  BY <1>1, Zenon DEF Shape, ButtonObj, State, Pressed2Entry
<1>3. /\ n.state = "PRESSED2"
      /\ n.current_state = o.current_state /\ n.previous_state = o.previous_state
      /\ n.long_work = o.long_work /\ n.click_work = FALSE
      /\ n.long_press_fired = o.long_press_fired
      /\ n.click_timeout = o.click_timeout
  BY SMT DEF Shape, ButtonObj, Pressed2Entry
<1>. QED
  BY <1>2, <1>3, Zenon DEF Shape, Flags

\* The click timer ends a sequence.
LEMMA TimeoutShape ==
  ASSUME NEW o, NEW cur, NEW prev, NEW long, NEW click, NEW fired, NEW timeout,
         Shape(o, "CLICK_WAIT", cur, prev, long, click), Flags(o, fired, timeout)
  PROVE  /\ Shape([o EXCEPT !.click_timeout = FALSE, !.state = "IDLE"], "IDLE", cur, prev, long, click)
         /\ Flags([o EXCEPT !.click_timeout = FALSE, !.state = "IDLE"], fired, FALSE)
<1>. DEFINE n == [o EXCEPT !.click_timeout = FALSE, !.state = "IDLE"]
<1>2. n \in ButtonObj
  BY Zenon DEF Shape, ButtonObj, State
<1>3. /\ n.state = "IDLE"
      /\ n.current_state = o.current_state /\ n.previous_state = o.previous_state
      /\ n.long_work = o.long_work /\ n.click_work = o.click_work
      /\ n.long_press_fired = o.long_press_fired
      /\ n.click_timeout = FALSE
  BY SMT DEF Shape, ButtonObj
<1>. QED
  BY <1>2, <1>3, Zenon DEF Shape, Flags

\* A release ends a double click or a long press.
LEMMA ReleaseShape ==
  ASSUME NEW o, NEW st, NEW cur, NEW prev, NEW long, NEW click, NEW fired, NEW timeout,
         Shape(o, st, cur, prev, long, click), Flags(o, fired, timeout)
  PROVE  /\ Shape([o EXCEPT !.state = "IDLE"], "IDLE", cur, prev, long, click)
         /\ Flags([o EXCEPT !.state = "IDLE"], fired, timeout)
<1>. DEFINE n == [o EXCEPT !.state = "IDLE"]
<1>2. n \in ButtonObj
  BY Zenon DEF Shape, ButtonObj, State
<1>3. /\ n.state = "IDLE"
      /\ n.current_state = o.current_state /\ n.previous_state = o.previous_state
      /\ n.long_work = o.long_work /\ n.click_work = o.click_work
      /\ n.long_press_fired = o.long_press_fired /\ n.click_timeout = o.click_timeout
  BY SMT DEF Shape, ButtonObj
<1>. QED
  BY <1>2, <1>3, Zenon DEF Shape, Flags

\* Remembering the sample completes a handler.
LEMMA SampledOK ==
  ASSUME NEW n, NEW st, NEW cur, NEW prev, NEW long, NEW click,
         Shape(n, st, cur, prev, long, click), Flags(n, FALSE, FALSE),
         Fits(st, cur, long, click)
  PROVE  ButtonOK([n EXCEPT !.previous_state = cur])
<1>. DEFINE m == [n EXCEPT !.previous_state = cur]
<1>1. m \in ButtonObj
  BY Zenon DEF Shape, ButtonObj, Fits
<1>2. /\ m.state = n.state /\ m.current_state = n.current_state /\ m.previous_state = cur
      /\ m.long_work = n.long_work /\ m.click_work = n.click_work
      /\ m.long_press_fired = n.long_press_fired /\ m.click_timeout = n.click_timeout
  BY SMT DEF Shape, ButtonObj
<1>. QED
  BY <1>1, <1>2, Zenon DEF Shape, Flags, Fits, ButtonOK

-----------------------------------------------------------------------------
(* Handlers, on one object.                                                *)

\* smf_run_state in IDLE.
LEMMA IdleRuns ==
  ASSUME NEW o, NEW t, NEW u, o.state = "IDLE"
  PROVE  SmRun(o, t, u) = [IdleRun(o, t) EXCEPT !.previous_state = o.current_state]
  BY SMT DEF SmRun

\* smf_run_state in PRESSED.
LEMMA PressedRuns ==
  ASSUME NEW o, NEW t, NEW u, o.state = "PRESSED"
  PROVE  SmRun(o, t, u) = [PressedRun(o, u) EXCEPT !.previous_state = o.current_state]
  BY SMT DEF SmRun

\* smf_run_state in CLICK_WAIT.
LEMMA ClickWaitRuns ==
  ASSUME NEW o, NEW t, NEW u, o.state = "CLICK_WAIT"
  PROVE  SmRun(o, t, u) = [ClickWaitRun(o, t) EXCEPT !.previous_state = o.current_state]
  BY SMT DEF SmRun

\* smf_run_state in PRESSED2.
LEMMA Pressed2Runs ==
  ASSUME NEW o, NEW t, NEW u, o.state = "PRESSED2"
  PROVE  SmRun(o, t, u) = [Pressed2Run(o) EXCEPT !.previous_state = o.current_state]
  BY SMT DEF SmRun

\* smf_run_state in LONG_PRESS.
LEMMA LongPressRuns ==
  ASSUME NEW o, NEW t, NEW u, o.state = "LONG_PRESS"
  PROVE  SmRun(o, t, u) = [LongPressRun(o) EXCEPT !.previous_state = o.current_state]
  BY SMT DEF SmRun

\* The callback reports a level that differs from the last one.
LEMMA CallbackOK ==
  ASSUME NEW o, ButtonOK(o), NEW t \in Nat, NEW u \in Nat
  PROVE  ButtonOK(SmRun([o EXCEPT !.current_state = ~@], t, u))
<1>. DEFINE p == [o EXCEPT !.current_state = ~@]
            n == SmRun(p, t, u)
<1>1. Shape(p, o.state, ~o.current_state, o.current_state, o.long_work, o.click_work)
  BY Zenon DEF ButtonOK, ButtonObj, Shape
<1>2. Flags(p, FALSE, FALSE)
  BY SMT DEF ButtonOK, ButtonObj, Flags
<1>3. o.state \in State /\ o.current_state \in BOOLEAN
  BY DEF ButtonOK, ButtonObj
<1>4. o.long_work \in BOOLEAN /\ o.click_work \in BOOLEAN
  BY DEF ButtonOK, ButtonObj
<1>. HIDE DEF p
<1>. SUFFICES ButtonOK(n)
  BY DEF p
<1>5. p.state = o.state /\ p.current_state = ~o.current_state /\ p.previous_state = o.current_state
  BY <1>1 DEF Shape
<1>6. CASE o.state = "IDLE"
  <2>1. ~o.current_state /\ o.long_work = FALSE /\ o.click_work = FALSE
    BY <1>4, <1>6, SMT DEF ButtonOK, Held
  <2>2. Shape(p, "IDLE", TRUE, FALSE, FALSE, FALSE)
    BY <1>1, <1>3, <1>6, <2>1, Zenon DEF Shape
  <2>3. n = [PressedEntry(p, t) EXCEPT !.previous_state = TRUE]
    <3>1. p.state = "IDLE" /\ p.current_state = TRUE /\ p.previous_state = FALSE
      BY <2>2 DEF Shape
    <3>2. IdleRun(p, t) = PressedEntry(p, t)
      BY <3>1, Zenon DEF IdleRun, Pushed
    <3>3. n = [IdleRun(p, t) EXCEPT !.previous_state = p.current_state]
      BY <3>1, IdleRuns
    <3>. QED
      BY <3>1, <3>2, <3>3, Zenon
  <2>4. Shape(PressedEntry(p, t), "PRESSED", TRUE, FALSE, TRUE, FALSE)
        /\ Flags(PressedEntry(p, t), FALSE, FALSE)
    BY <1>2, <2>2, PressedEntryShape
  <2>5. Fits("PRESSED", TRUE, TRUE, FALSE)
    BY SMT DEF Fits, Held
  <2>6. ButtonOK([PressedEntry(p, t) EXCEPT !.previous_state = TRUE])
    BY <2>4, <2>5, SampledOK
  <2>. QED
    BY <2>3, <2>6, Zenon
<1>7. CASE o.state = "PRESSED"
  <2>1. o.current_state /\ o.long_work = TRUE /\ o.click_work = FALSE
    BY <1>4, <1>7, SMT DEF ButtonOK, Held
  <2>2. Shape(p, "PRESSED", FALSE, TRUE, TRUE, FALSE)
    BY <1>1, <1>3, <1>7, <2>1, Zenon DEF Shape
  <2>3. n = [ClickWaitEntry(PressedExit(p, u)) EXCEPT !.previous_state = FALSE]
    <3>1. p.state = "PRESSED" /\ p.current_state = FALSE /\ p.previous_state = TRUE
      BY <2>2 DEF Shape
    <3>2. PressedRun(p, u) = ClickWaitEntry(PressedExit(p, u))
      BY <3>1, <1>2, Zenon DEF PressedRun, LetGo, Flags
    <3>3. n = [PressedRun(p, u) EXCEPT !.previous_state = p.current_state]
      BY <3>1, PressedRuns
    <3>. QED
      BY <3>1, <3>2, <3>3, Zenon
  <2>4. Shape(PressedExit(p, u), "PRESSED", FALSE, TRUE, FALSE, FALSE)
        /\ Flags(PressedExit(p, u), FALSE, FALSE)
    BY <1>2, <2>2, PressedExitShape
  <2>5. Shape(ClickWaitEntry(PressedExit(p, u)), "CLICK_WAIT", FALSE, TRUE, FALSE, TRUE)
        /\ Flags(ClickWaitEntry(PressedExit(p, u)), FALSE, FALSE)
    BY <2>4, ClickWaitEntryShape
  <2>6. Fits("CLICK_WAIT", FALSE, FALSE, TRUE)
    BY SMT DEF Fits, Held
  <2>7. ButtonOK([ClickWaitEntry(PressedExit(p, u)) EXCEPT !.previous_state = FALSE])
    BY <2>5, <2>6, SampledOK
  <2>. QED
    BY <2>3, <2>7, Zenon
<1>8. CASE o.state = "CLICK_WAIT"
  <2>1. ~o.current_state /\ o.long_work = FALSE /\ o.click_work = TRUE
    BY <1>4, <1>8, SMT DEF ButtonOK, Held
  <2>2. Shape(p, "CLICK_WAIT", TRUE, FALSE, FALSE, TRUE)
    BY <1>1, <1>3, <1>8, <2>1, Zenon DEF Shape
  <2>. DEFINE e == Pressed2Entry([p EXCEPT !.click_work = FALSE], t)
  <2>3. n = [e EXCEPT !.previous_state = TRUE]
    <3>1. p.state = "CLICK_WAIT" /\ p.current_state = TRUE /\ p.previous_state = FALSE
      BY <2>2 DEF Shape
    <3>2. ClickWaitRun(p, t) = e
      BY <3>1, <1>2, Zenon DEF ClickWaitRun, Pushed, Flags
    <3>3. n = [ClickWaitRun(p, t) EXCEPT !.previous_state = p.current_state]
      BY <3>1, ClickWaitRuns
    <3>. QED
      BY <3>1, <3>2, <3>3, Zenon
  <2>4. Shape(e, "PRESSED2", TRUE, FALSE, FALSE, FALSE) /\ Flags(e, FALSE, FALSE)
    BY <1>2, <2>2, Pressed2EntryShape
  <2>5. Fits("PRESSED2", TRUE, FALSE, FALSE)
    BY SMT DEF Fits, Held
  <2>. HIDE DEF e
  <2>6. ButtonOK([e EXCEPT !.previous_state = TRUE])
    BY <2>4, <2>5, SampledOK
  <2>. QED
    BY <2>3, <2>6, Zenon
<1>9. CASE o.state \in {"PRESSED2", "LONG_PRESS"}
  <2>1. o.current_state /\ o.long_work = FALSE /\ o.click_work = FALSE
    BY <1>4, <1>9, SMT DEF ButtonOK, Held
  <2>2. Shape(p, o.state, FALSE, TRUE, FALSE, FALSE)
    BY <1>1, <1>3, <2>1, Zenon DEF Shape
  <2>. DEFINE e == [p EXCEPT !.state = "IDLE"]
  <2>3. LetGo(p)
    BY <2>2 DEF LetGo, Shape
  <2>4. n = [e EXCEPT !.previous_state = FALSE]
    <3>1. p.state = o.state /\ p.current_state = FALSE
      BY <2>2 DEF Shape
    <3>2. Pressed2Run(p) = e /\ LongPressRun(p) = e
      BY <2>3, Zenon DEF Pressed2Run, LongPressRun
    <3>3. \/ n = [Pressed2Run(p) EXCEPT !.previous_state = p.current_state]
          \/ n = [LongPressRun(p) EXCEPT !.previous_state = p.current_state]
      BY <1>9, <3>1, Pressed2Runs, LongPressRuns
    <3>. QED
      BY <3>1, <3>2, <3>3, Zenon
  <2>5. Shape(e, "IDLE", FALSE, TRUE, FALSE, FALSE) /\ Flags(e, FALSE, FALSE)
    BY <1>2, <2>2, ReleaseShape
  <2>6. Fits("IDLE", FALSE, FALSE, FALSE)
    BY SMT DEF Fits, Held
  <2>. HIDE DEF e
  <2>7. ButtonOK([e EXCEPT !.previous_state = FALSE])
    BY <2>5, <2>6, SampledOK
  <2>. QED
    BY <2>4, <2>7, Zenon
<1>. QED
  BY <1>3, <1>6, <1>7, <1>8, <1>9 DEF State

\* The long-press timer finds the button held.
LEMMA LongExpiryOK ==
  ASSUME NEW o, ButtonOK(o), o.long_work, NEW t \in Nat, NEW u \in Nat
  PROVE  ButtonOK(SmRun([o EXCEPT !.long_work = FALSE, !.long_press_fired = TRUE], t, u))
<1>. DEFINE p == [o EXCEPT !.long_work = FALSE, !.long_press_fired = TRUE]
            n == SmRun(p, t, u)
<1>1. o.state = "PRESSED" /\ o.current_state = TRUE /\ o.click_work = FALSE
  BY SMT DEF ButtonOK, ButtonObj, Held
<1>2. p \in ButtonObj
  BY Zenon DEF ButtonOK, ButtonObj
<1>3. /\ p.state = o.state /\ p.current_state = o.current_state
      /\ p.previous_state = o.previous_state /\ p.long_work = FALSE
      /\ p.click_work = o.click_work /\ p.long_press_fired = TRUE
      /\ p.click_timeout = o.click_timeout
  BY SMT DEF ButtonOK, ButtonObj
<1>4. o.previous_state = TRUE /\ o.click_timeout = FALSE
  BY <1>1, SMT DEF ButtonOK, ButtonObj
<1>5. Shape(p, "PRESSED", TRUE, TRUE, FALSE, FALSE) /\ Flags(p, TRUE, FALSE)
  BY <1>1, <1>2, <1>3, <1>4, Zenon DEF Shape, Flags
<1>. HIDE DEF p
<1>6. n = [LongPressEntry(PressedExit(p, u)) EXCEPT !.previous_state = TRUE]
  <2>1. p.state = "PRESSED" /\ p.current_state = TRUE /\ p.previous_state = TRUE
    BY <1>5 DEF Shape
  <2>2. PressedRun(p, u) = LongPressEntry(PressedExit(p, u))
    BY <2>1, <1>5, Zenon DEF PressedRun, Flags
  <2>3. n = [PressedRun(p, u) EXCEPT !.previous_state = p.current_state]
    BY <2>1, PressedRuns
  <2>. QED
    BY <2>1, <2>2, <2>3, Zenon
<1>7. Shape(PressedExit(p, u), "PRESSED", TRUE, TRUE, FALSE, FALSE)
      /\ Flags(PressedExit(p, u), FALSE, FALSE)
  BY <1>5, PressedExitShape
<1>8. Shape(LongPressEntry(PressedExit(p, u)), "LONG_PRESS", TRUE, TRUE, FALSE, FALSE)
      /\ Flags(LongPressEntry(PressedExit(p, u)), FALSE, FALSE)
  BY <1>7, LongPressEntryShape
<1>9. Fits("LONG_PRESS", TRUE, FALSE, FALSE)
  BY SMT DEF Fits, Held
<1>10. ButtonOK([LongPressEntry(PressedExit(p, u)) EXCEPT !.previous_state = TRUE])
  BY <1>8, <1>9, SampledOK
<1>11. ButtonOK(n)
  BY <1>6, <1>10, Zenon
<1>. QED
  BY <1>11 DEF p

\* The click timer finds the button released.
LEMMA ClickExpiryOK ==
  ASSUME NEW o, ButtonOK(o), o.click_work, NEW t \in Nat, NEW u \in Nat
  PROVE  ButtonOK(SmRun([o EXCEPT !.click_work = FALSE, !.click_timeout = TRUE], t, u))
<1>. DEFINE p == [o EXCEPT !.click_work = FALSE, !.click_timeout = TRUE]
            n == SmRun(p, t, u)
            e == [p EXCEPT !.click_timeout = FALSE, !.state = "IDLE"]
<1>1. o.state = "CLICK_WAIT" /\ o.current_state = FALSE /\ o.long_work = FALSE
  BY SMT DEF ButtonOK, ButtonObj, Held
<1>2. p \in ButtonObj
  BY Zenon DEF ButtonOK, ButtonObj
<1>3. /\ p.state = o.state /\ p.current_state = o.current_state
      /\ p.previous_state = o.previous_state /\ p.long_work = o.long_work
      /\ p.click_work = FALSE /\ p.long_press_fired = o.long_press_fired
      /\ p.click_timeout = TRUE
  BY SMT DEF ButtonOK, ButtonObj
<1>4. o.previous_state = FALSE /\ o.long_press_fired = FALSE
  BY <1>1, SMT DEF ButtonOK, ButtonObj
<1>5. Shape(p, "CLICK_WAIT", FALSE, FALSE, FALSE, FALSE) /\ Flags(p, FALSE, TRUE)
  BY <1>1, <1>2, <1>3, <1>4, Zenon DEF Shape, Flags
<1>. HIDE DEF p
<1>6. n = [e EXCEPT !.previous_state = FALSE]
  <2>1. p.state = "CLICK_WAIT" /\ p.current_state = FALSE /\ p.previous_state = FALSE
    BY <1>5 DEF Shape
  <2>2. ClickWaitRun(p, t) = e
    BY <2>1, <1>5, Zenon DEF ClickWaitRun, Flags
  <2>3. n = [ClickWaitRun(p, t) EXCEPT !.previous_state = p.current_state]
    BY <2>1, ClickWaitRuns
  <2>. QED
    BY <2>1, <2>2, <2>3, Zenon
<1>7. Shape(e, "IDLE", FALSE, FALSE, FALSE, FALSE) /\ Flags(e, FALSE, FALSE)
  BY <1>5, TimeoutShape
<1>. HIDE DEF e
<1>8. Fits("IDLE", FALSE, FALSE, FALSE)
  BY SMT DEF Fits, Held
<1>9. ButtonOK([e EXCEPT !.previous_state = FALSE])
  BY <1>7, <1>8, SampledOK
<1>10. ButtonOK(n)
  BY <1>6, <1>9, Zenon
<1>. QED
  BY <1>10 DEF p

-----------------------------------------------------------------------------
(* The invariant.                                                          *)

\* Running some machines leaves the others alone.
LEMMA RunAllKeeps ==
  ASSUME ButtonInv, NEW S \in SUBSET Buttons, NEW in, NEW lag \in Nat, RunAll(S, in, lag),
         \A b \in S : ButtonOK(SmRun(in[b], now, now + lag))
  PROVE  ButtonInv'
<1>1. now' \in Nat
  BY SMT DEF ButtonInv, RunAll
<1>2. sm' = [b \in Buttons |-> IF b \in S THEN SmRun(in[b], now, now + lag) ELSE sm[b]]
  BY DEF RunAll
<1>3. \A b \in Buttons : ButtonOK(sm'[b])
  BY <1>2, Zenon DEF ButtonInv
<1>4. sm' \in [Buttons -> ButtonObj]
  <2>1. \A b \in Buttons : sm'[b] \in ButtonObj
    BY <1>3 DEF ButtonOK
  <2>. QED
    BY <1>2, <2>1, Zenon
<1>. QED
  BY <1>1, <1>3, <1>4 DEF ButtonInv

\* A lag is a duration.
LEMMA LagType == ASSUME NEW lag \in Lags PROVE lag \in Nat
  BY ButtonAssumption, SMT DEF Lags, ButtonAssumption

\* The invariant holds of a fresh array of buttons.
LEMMA ButtonInit == Init => ButtonInv
<1>. SUFFICES ASSUME Init PROVE ButtonInv
  OBVIOUS
<1>. DEFINE o == [state |-> "IDLE", current_state |-> FALSE, previous_state |-> FALSE,
              long_press_fired |-> FALSE, click_timeout |-> FALSE,
              press_count |-> 0, press_ts |-> 0, release_ts |-> 0,
              long_work |-> FALSE, click_work |-> FALSE]
<1>1. ButtonOK(o)
  BY SMT DEF ButtonOK, ButtonObj, State, Held
<1>2. sm = [b \in Buttons |-> o] /\ now = 0
  BY DEF Init
<1>. HIDE DEF o
<1>3. o \in ButtonObj
  BY <1>1 DEF ButtonOK
<1>. QED
  BY <1>1, <1>2, <1>3, SMT DEF ButtonInv

\* Every callback and every expiry preserves the invariant.
LEMMA ButtonNext == ASSUME ButtonInv, [Next]_vars PROVE ButtonInv'
<1>1. ASSUME NEW S \in SUBSET Buttons, NEW lag \in Lags, ButtonHandler(S, lag) PROVE ButtonInv'
  <2>. DEFINE in == [b \in S |-> [sm[b] EXCEPT !.current_state = ~@]]
  <2>1. RunAll(S, in, lag)
    BY <1>1 DEF ButtonHandler
  <2>2. ASSUME NEW b \in S PROVE ButtonOK(SmRun(in[b], now, now + lag))
    <3>1. ButtonOK(sm[b]) /\ now \in Nat /\ now + lag \in Nat
      BY LagType, SMT DEF ButtonInv
    <3>. QED
      BY <3>1, CallbackOK
  <2>. HIDE DEF in
  <2>. QED
    BY <2>1, <2>2, LagType, RunAllKeeps
<1>2. ASSUME NEW b \in Buttons, NEW lag \in Lags, LongPressWork(b, lag) PROVE ButtonInv'
  <2>. DEFINE in == [c \in {b} |-> [sm[c] EXCEPT !.long_work = FALSE, !.long_press_fired = TRUE]]
  <2>1. RunAll({b}, in, lag) /\ sm[b].long_work
    BY <1>2 DEF LongPressWork
  <2>2. ButtonOK(SmRun(in[b], now, now + lag))
    <3>1. ButtonOK(sm[b]) /\ now \in Nat /\ now + lag \in Nat
      BY LagType, SMT DEF ButtonInv
    <3>. QED
      BY <2>1, <3>1, LongExpiryOK
  <2>. HIDE DEF in
  <2>. QED
    BY <2>1, <2>2, LagType, RunAllKeeps
<1>3. ASSUME NEW b \in Buttons, NEW lag \in Lags, DoubleClickWork(b, lag) PROVE ButtonInv'
  <2>. DEFINE in == [c \in {b} |-> [sm[c] EXCEPT !.click_work = FALSE, !.click_timeout = TRUE]]
  <2>1. RunAll({b}, in, lag) /\ sm[b].click_work
    BY <1>3 DEF DoubleClickWork
  <2>2. ButtonOK(SmRun(in[b], now, now + lag))
    <3>1. ButtonOK(sm[b]) /\ now \in Nat /\ now + lag \in Nat
      BY LagType, SMT DEF ButtonInv
    <3>. QED
      BY <2>1, <3>1, ClickExpiryOK
  <2>. HIDE DEF in
  <2>. QED
    BY <2>1, <2>2, LagType, RunAllKeeps
<1>4. CASE TimePasses
  BY <1>4, SMT DEF TimePasses, ButtonInv
<1>5. CASE UNCHANGED vars
  BY <1>5, Zenon DEF vars, ButtonInv
<1>. QED
  BY <1>1, <1>2, <1>3, <1>4, <1>5 DEF Next

\* The inductive invariant holds in every reachable state.
THEOREM ButtonInvariant == Spec => []ButtonInv
  BY ButtonInit, ButtonNext, PTL DEF Spec

\* Each timer is pending exactly in the state that waits for it, and no flag
\* outlives its handler, whatever order callbacks and expiries come in.
THEOREM TimersOwnedHolds == Spec => []TimersOwned
<1>1. ButtonInv => TimersOwned
  BY DEF ButtonInv, ButtonOK, TimersOwned
<1>. QED
  BY <1>1, ButtonInvariant, PTL

\* Between handlers the machine is in a held state exactly when the finger is
\* on the button.
THEOREM HeldMatchesLevelHolds == Spec => []HeldMatchesLevel
<1>1. ButtonInv => HeldMatchesLevel
  BY DEF ButtonInv, ButtonOK, HeldMatchesLevel, Held
<1>. QED
  BY <1>1, ButtonInvariant, PTL
-----------------------------------------------------------------------------
(* What a subscriber is told.                                              *)

\* The events of the press sequence in progress, by the machine's state.
Story(st) == CASE st = "IDLE"       -> <<>>
               [] st = "PRESSED"    -> <<"PRESSED">>
               [] st = "CLICK_WAIT" -> <<"PRESSED", "RELEASED">>
               [] st = "PRESSED2"   -> <<"PRESSED", "RELEASED", "PRESSED">>
               [] st = "LONG_PRESS" -> <<"PRESSED", "LONG_PRESS">>

\* The presses of the sequence in progress.
OpenIn(st) == IF st = "IDLE" THEN 0 ELSE IF st = "PRESSED2" THEN 2 ELSE 1

\* A subscriber's view of one button agrees with the button.
Told(h, k, o) ==
  /\ h = Story(o.state)
  /\ k \in [single : Nat, double : Nat, long : Nat]
  /\ o.press_count = k.single + 2 * k.double + k.long + OpenIn(o.state)

\* One handler took object o to n and counted so many presses.
Moves(o, n, from, to, presses) ==
  o.state = from /\ n.state = to /\ n.press_count = o.press_count + presses

\* The moves of the machine, each with the events it publishes.
Tells(o, n, types) ==
  \/ Moves(o, n, "IDLE", "PRESSED", 1) /\ types = <<"PRESSED">>
  \/ Moves(o, n, "PRESSED", "CLICK_WAIT", 0) /\ types = <<"RELEASED">>
  \/ Moves(o, n, "PRESSED", "LONG_PRESS", 0) /\ types = <<"LONG_PRESS">>
  \/ Moves(o, n, "CLICK_WAIT", "PRESSED2", 1) /\ types = <<"PRESSED">>
  \/ Moves(o, n, "CLICK_WAIT", "IDLE", 0) /\ types = <<"SINGLE_CLICK">>
  \/ Moves(o, n, "PRESSED2", "IDLE", 0) /\ types = <<"RELEASED", "DOUBLE_CLICK">>
  \/ Moves(o, n, "LONG_PRESS", "IDLE", 0) /\ types = <<"RELEASED">>

\* The types of no message, of one and of two.
LEMMA TypesNone == Types(<<>>) = <<>>
  BY SMT DEF Types

LEMMA TypesOne == ASSUME NEW m PROVE Types(<<m>>) = <<m.type>>
  BY SMT DEF Types

LEMMA TypesTwo == ASSUME NEW m, NEW l PROVE Types(<<m, l>>) = <<m.type, l.type>>
  BY SMT DEF Types

\* A callback moves the machine on, out of every state.
LEMMA CallbackTells ==
  ASSUME NEW o, ButtonOK(o), NEW t \in Nat, NEW u \in Nat
  PROVE  LET p == [o EXCEPT !.current_state = ~@]
         IN  Tells(o, SmRun(p, t, u), Types(Published(p, t)))
<1>. DEFINE p == [o EXCEPT !.current_state = ~@]
            n == SmRun(p, t, u)
<1>0. p \in ButtonObj
  BY Zenon DEF ButtonOK, ButtonObj
<1>1. /\ p.state = o.state /\ p.press_count = o.press_count
      /\ p.current_state = ~o.current_state /\ p.previous_state = o.current_state
      /\ p.long_press_fired = FALSE /\ p.click_timeout = FALSE
  BY SMT DEF ButtonOK, ButtonObj
<1>2. o.state \in State /\ (o.current_state <=> o.state \in Held)
  BY DEF ButtonOK, ButtonObj
<1>. HIDE DEF p
<1>. SUFFICES Tells(o, n, Types(Published(p, t)))
  BY DEF p
<1>3. CASE o.state = "IDLE"
  <2>0. Pushed(p)
    <3>1. ~o.current_state
      BY <1>2, <1>3, SMT DEF Held
    <3>. QED
      BY <1>1, <3>1, Zenon DEF Pushed
  <2>1. n = [PressedEntry(p, t) EXCEPT !.previous_state = p.current_state]
    <3>1. IdleRun(p, t) = PressedEntry(p, t)
      BY <1>1, <2>0, Zenon DEF IdleRun
    <3>2. n = [IdleRun(p, t) EXCEPT !.previous_state = p.current_state]
      BY <1>1, <1>3, IdleRuns
    <3>. QED
      BY <3>1, <3>2, Zenon
  <2>2. Moves(o, n, "IDLE", "PRESSED", 1)
    BY <1>0, <1>1, <1>3, <2>1, SMT DEF PressedEntry, ButtonObj, Moves
  <2>3. Published(p, t) = << Msg("PRESSED", 0) >>
    BY <1>1, <1>3, <2>0, SMT DEF Published
  <2>4. Types(Published(p, t)) = <<"PRESSED">>
    BY <2>3, TypesOne DEF Msg
  <2>. QED
    BY <2>2, <2>4 DEF Tells
<1>4. CASE o.state = "PRESSED"
  <2>0. LetGo(p)
    <3>1. o.current_state
      BY <1>2, <1>4, SMT DEF Held
    <3>. QED
      BY <1>1, <3>1, Zenon DEF LetGo
  <2>1. n = [ClickWaitEntry(PressedExit(p, u)) EXCEPT !.previous_state = p.current_state]
    <3>1. PressedRun(p, u) = ClickWaitEntry(PressedExit(p, u))
      BY <1>1, <2>0, Zenon DEF PressedRun
    <3>2. n = [PressedRun(p, u) EXCEPT !.previous_state = p.current_state]
      BY <1>1, <1>4, PressedRuns
    <3>. QED
      BY <3>1, <3>2, Zenon
  <2>2. Moves(o, n, "PRESSED", "CLICK_WAIT", 0)
    BY <1>0, <1>1, <1>4, <2>1, SMT DEF ClickWaitEntry, PressedExit, ButtonObj, Moves
  <2>3. Published(p, t) = << Msg("RELEASED", t - p.press_ts) >>
    BY <1>1, <1>4, <2>0, SMT DEF Published
  <2>4. Types(Published(p, t)) = <<"RELEASED">>
    BY <2>3, TypesOne DEF Msg
  <2>. QED
    BY <2>2, <2>4 DEF Tells
<1>5. CASE o.state = "CLICK_WAIT"
  <2>0. Pushed(p)
    <3>1. ~o.current_state
      BY <1>2, <1>5, SMT DEF Held
    <3>. QED
      BY <1>1, <3>1, Zenon DEF Pushed
  <2>1. n = [Pressed2Entry([p EXCEPT !.click_work = FALSE], t) EXCEPT !.previous_state = p.current_state]
    <3>1. ClickWaitRun(p, t) = Pressed2Entry([p EXCEPT !.click_work = FALSE], t)
      BY <1>1, <2>0, Zenon DEF ClickWaitRun
    <3>2. n = [ClickWaitRun(p, t) EXCEPT !.previous_state = p.current_state]
      BY <1>1, <1>5, ClickWaitRuns
    <3>. QED
      BY <3>1, <3>2, Zenon
  <2>2. Moves(o, n, "CLICK_WAIT", "PRESSED2", 1)
    BY <1>0, <1>1, <1>5, <2>1, SMT DEF Pressed2Entry, ButtonObj, Moves
  <2>3. Published(p, t) = << Msg("PRESSED", 0) >>
    BY <1>1, <1>5, <2>0, SMT DEF Published
  <2>4. Types(Published(p, t)) = <<"PRESSED">>
    BY <2>3, TypesOne DEF Msg
  <2>. QED
    BY <2>2, <2>4 DEF Tells
<1>6. CASE o.state = "PRESSED2"
  <2>0. LetGo(p)
    <3>1. o.current_state
      BY <1>2, <1>6, SMT DEF Held
    <3>. QED
      BY <1>1, <3>1, Zenon DEF LetGo
  <2>1. n = [[p EXCEPT !.state = "IDLE"] EXCEPT !.previous_state = p.current_state]
    <3>1. Pressed2Run(p) = [p EXCEPT !.state = "IDLE"]
      BY <1>1, <2>0, Zenon DEF Pressed2Run
    <3>2. n = [Pressed2Run(p) EXCEPT !.previous_state = p.current_state]
      BY <1>1, <1>6, Pressed2Runs
    <3>. QED
      BY <3>1, <3>2, Zenon
  <2>2. Moves(o, n, "PRESSED2", "IDLE", 0)
    BY <1>0, <1>1, <1>6, <2>1, SMT DEF ButtonObj, Moves
  <2>3. Published(p, t) =
          << Msg("RELEASED", t - p.press_ts), Msg("DOUBLE_CLICK", t - p.press_ts) >>
    BY <1>1, <1>6, <2>0, SMT DEF Published
  <2>4. Types(Published(p, t)) = <<"RELEASED", "DOUBLE_CLICK">>
    BY <2>3, TypesTwo DEF Msg
  <2>. QED
    BY <2>2, <2>4 DEF Tells
<1>7. CASE o.state = "LONG_PRESS"
  <2>0. LetGo(p)
    <3>1. o.current_state
      BY <1>2, <1>7, SMT DEF Held
    <3>. QED
      BY <1>1, <3>1, Zenon DEF LetGo
  <2>1. n = [[p EXCEPT !.state = "IDLE"] EXCEPT !.previous_state = p.current_state]
    <3>1. LongPressRun(p) = [p EXCEPT !.state = "IDLE"]
      BY <1>1, <2>0, Zenon DEF LongPressRun
    <3>2. n = [LongPressRun(p) EXCEPT !.previous_state = p.current_state]
      BY <1>1, <1>7, LongPressRuns
    <3>. QED
      BY <3>1, <3>2, Zenon
  <2>2. Moves(o, n, "LONG_PRESS", "IDLE", 0)
    BY <1>0, <1>1, <1>7, <2>1, SMT DEF ButtonObj, Moves
  <2>3. Published(p, t) = << Msg("RELEASED", t - p.press_ts) >>
    BY <1>1, <1>7, <2>0, SMT DEF Published
  <2>4. Types(Published(p, t)) = <<"RELEASED">>
    BY <2>3, TypesOne DEF Msg
  <2>. QED
    BY <2>2, <2>4 DEF Tells
<1>. QED
  BY <1>2, <1>3, <1>4, <1>5, <1>6, <1>7 DEF State

\* The long-press timer turns the press in progress into a long press.
LEMMA LongExpiryTells ==
  ASSUME NEW o, ButtonOK(o), o.long_work, NEW t \in Nat, NEW u \in Nat
  PROVE  LET p == [o EXCEPT !.long_work = FALSE, !.long_press_fired = TRUE]
         IN  Tells(o, SmRun(p, t, u), Types(Published(p, t)))
<1>. DEFINE p == [o EXCEPT !.long_work = FALSE, !.long_press_fired = TRUE]
            n == SmRun(p, t, u)
<1>0. p \in ButtonObj
  BY Zenon DEF ButtonOK, ButtonObj
<1>1. /\ p.state = o.state /\ p.press_count = o.press_count
      /\ p.long_press_fired = TRUE
  BY SMT DEF ButtonOK, ButtonObj
<1>2. o.state = "PRESSED"
  BY DEF ButtonOK
<1>. HIDE DEF p
<1>3. n = [LongPressEntry(PressedExit(p, u)) EXCEPT !.previous_state = p.current_state]
  BY <1>1, <1>2, PressedRuns, SMT DEF PressedRun
<1>4. Moves(o, n, "PRESSED", "LONG_PRESS", 0)
  BY <1>0, <1>1, <1>2, <1>3, SMT DEF LongPressEntry, PressedExit, ButtonObj, Moves
<1>5. Published(p, t) = << Msg("LONG_PRESS", LongPressMs) >>
  BY <1>1, <1>2, SMT DEF Published
<1>6. Types(Published(p, t)) = <<"LONG_PRESS">>
  BY <1>5, TypesOne DEF Msg
<1>7. Tells(o, n, Types(Published(p, t)))
  BY <1>4, <1>6 DEF Tells
<1>. QED
  BY <1>7 DEF p

\* The click timer turns the click into a single click.
LEMMA ClickExpiryTells ==
  ASSUME NEW o, ButtonOK(o), o.click_work, NEW t \in Nat, NEW u \in Nat
  PROVE  LET p == [o EXCEPT !.click_work = FALSE, !.click_timeout = TRUE]
         IN  Tells(o, SmRun(p, t, u), Types(Published(p, t)))
<1>. DEFINE p == [o EXCEPT !.click_work = FALSE, !.click_timeout = TRUE]
            n == SmRun(p, t, u)
<1>0. p \in ButtonObj
  BY Zenon DEF ButtonOK, ButtonObj
<1>1. /\ p.state = o.state /\ p.press_count = o.press_count
      /\ p.click_timeout = TRUE
  BY SMT DEF ButtonOK, ButtonObj
<1>2. o.state = "CLICK_WAIT"
  BY DEF ButtonOK
<1>. HIDE DEF p
<1>3. n = [[p EXCEPT !.click_timeout = FALSE, !.state = "IDLE"]
             EXCEPT !.previous_state = p.current_state]
  <2>1. ClickWaitRun(p, t) = [p EXCEPT !.click_timeout = FALSE, !.state = "IDLE"]
    BY <1>1, Zenon DEF ClickWaitRun
  <2>2. n = [ClickWaitRun(p, t) EXCEPT !.previous_state = p.current_state]
    BY <1>1, <1>2, ClickWaitRuns
  <2>. QED
    BY <2>1, <2>2, Zenon
<1>4. Moves(o, n, "CLICK_WAIT", "IDLE", 0)
  BY <1>0, <1>1, <1>2, <1>3, SMT DEF ButtonObj, Moves
<1>5. Published(p, t) = << Msg("SINGLE_CLICK", p.release_ts - p.press_ts) >>
  BY <1>1, <1>2, SMT DEF Published
<1>6. Types(Published(p, t)) = <<"SINGLE_CLICK">>
  BY <1>5, TypesOne DEF Msg
<1>7. Tells(o, n, Types(Published(p, t)))
  BY <1>4, <1>6 DEF Tells
<1>. QED
  BY <1>7 DEF p

\* What follows the events so far.
Then(h, types) == h \o types

\* The same, event by event.
Join(h, e) ==
  [i \in 1 .. (Len(h) + Len(e)) |-> IF i <= Len(h) THEN h[i] ELSE e[i - Len(h)]]

LEMMA ThenSecond == ASSUME NEW a, NEW b PROVE Then(<<a>>, <<b>>) = <<a, b>>
<1>1. Then(<<a>>, <<b>>) = Join(<<a>>, <<b>>)
  BY DEF Then, Join
<1>. QED
  BY <1>1, SMT DEF Join

LEMMA ThenThird == ASSUME NEW a, NEW b, NEW c PROVE Then(<<a, b>>, <<c>>) = <<a, b, c>>
<1>1. Then(<<a, b>>, <<c>>) = Join(<<a, b>>, <<c>>)
  BY DEF Then, Join
<1>. QED
  BY <1>1, SMT DEF Join

LEMMA ThenFifth ==
  ASSUME NEW a, NEW b, NEW c, NEW d, NEW e
  PROVE  Then(<<a, b, c>>, <<d, e>>) = <<a, b, c, d, e>>
<1>1. Then(<<a, b, c>>, <<d, e>>) = Join(<<a, b, c>>, <<d, e>>)
  BY DEF Then, Join
<1>. QED
  BY <1>1, SMT DEF Join

\* The events of a move lead to the story of the next state,
LEMMA ThenStory ==
  /\ Then(Story("IDLE"), <<"PRESSED">>) = Story("PRESSED")
  /\ Then(Story("PRESSED"), <<"RELEASED">>) = Story("CLICK_WAIT")
  /\ Then(Story("PRESSED"), <<"LONG_PRESS">>) = Story("LONG_PRESS")
  /\ Then(Story("CLICK_WAIT"), <<"PRESSED">>) = Story("PRESSED2")
<1>1. Then(<<>>, <<"PRESSED">>) = <<"PRESSED">>
  BY SMT DEF Then
<1>2. /\ Then(<<"PRESSED">>, <<"RELEASED">>) = <<"PRESSED", "RELEASED">>
      /\ Then(<<"PRESSED">>, <<"LONG_PRESS">>) = <<"PRESSED", "LONG_PRESS">>
      /\ Then(<<"PRESSED", "RELEASED">>, <<"PRESSED">>) = <<"PRESSED", "RELEASED", "PRESSED">>
  BY ThenSecond, ThenThird
<1>3. /\ Story("IDLE") = <<>> /\ Story("PRESSED") = <<"PRESSED">>
      /\ Story("CLICK_WAIT") = <<"PRESSED", "RELEASED">>
      /\ Story("PRESSED2") = <<"PRESSED", "RELEASED", "PRESSED">>
      /\ Story("LONG_PRESS") = <<"PRESSED", "LONG_PRESS">>
  BY DEF Story
<1>. QED
  BY <1>1, <1>2, <1>3, Zenon

\* or complete a gesture.
LEMMA ThenGesture ==
  /\ Then(Story("CLICK_WAIT"), <<"SINGLE_CLICK">>) = SingleSeq
  /\ Then(Story("PRESSED2"), <<"RELEASED", "DOUBLE_CLICK">>) = DoubleSeq
  /\ Then(Story("LONG_PRESS"), <<"RELEASED">>) = LongSeq
<1>1. Then(<<"PRESSED", "RELEASED">>, <<"SINGLE_CLICK">>) = SingleSeq
  BY ThenThird DEF SingleSeq
<1>2. Then(<<"PRESSED", "RELEASED", "PRESSED">>, <<"RELEASED", "DOUBLE_CLICK">>) = DoubleSeq
  BY ThenFifth DEF DoubleSeq
<1>3. Then(<<"PRESSED", "LONG_PRESS">>, <<"RELEASED">>) = LongSeq
  BY ThenThird DEF LongSeq
<1>4. /\ Story("CLICK_WAIT") = <<"PRESSED", "RELEASED">>
      /\ Story("PRESSED2") = <<"PRESSED", "RELEASED", "PRESSED">>
      /\ Story("LONG_PRESS") = <<"PRESSED", "LONG_PRESS">>
  BY DEF Story
<1>. QED
  BY <1>1, <1>2, <1>3, <1>4, Zenon

\* No open sequence is a gesture, and the gestures differ.
LEMMA StoryOpen ==
  ASSUME NEW st \in State PROVE Story(st) \notin {SingleSeq, DoubleSeq, LongSeq}
  BY SMT DEF Story, State, SingleSeq, DoubleSeq, LongSeq

LEMMA GesturesDiffer ==
  SingleSeq # DoubleSeq /\ SingleSeq # LongSeq /\ DoubleSeq # LongSeq
  BY SMT DEF SingleSeq, DoubleSeq, LongSeq

\* Messages that do not complete a gesture.
LEMMA HearGrows ==
  ASSUME NEW h, NEW ms, NEW k \in [single : Nat, double : Nat, long : Nat], NEW st \in State,
         Then(h, Types(ms)) = Story(st)
  PROVE  Hear(h, ms) = Story(st) /\ Count(k, h, ms) = k
<1>1. h \o Types(ms) = Story(st)
  BY DEF Then
<1>2. Hear(h, ms) = Story(st)
  BY <1>1, StoryOpen, Zenon DEF Hear
<1>3. Count(k, h, ms) = [single |-> k.single + 0, double |-> k.double + 0, long |-> k.long + 0]
  BY <1>1, StoryOpen, Zenon DEF Count
<1>. QED
  BY <1>2, <1>3, SMT

\* Messages that complete one.
LEMMA HearCompletes ==
  ASSUME NEW h, NEW ms, NEW g \in {SingleSeq, DoubleSeq, LongSeq}, Then(h, Types(ms)) = g
  PROVE  Hear(h, ms) = <<>>
  BY Zenon DEF Hear, Then

LEMMA CountsSingle ==
  ASSUME NEW h, NEW ms, NEW k \in [single : Nat, double : Nat, long : Nat],
         Then(h, Types(ms)) = SingleSeq
  PROVE  Count(k, h, ms) = [k EXCEPT !.single = @ + 1]
<1>1. Count(k, h, ms) =
        [single |-> k.single + 1, double |-> k.double + 0, long |-> k.long + 0]
  BY GesturesDiffer, Zenon DEF Count, Then
<1>. QED
  BY <1>1, SMT

LEMMA CountsDouble ==
  ASSUME NEW h, NEW ms, NEW k \in [single : Nat, double : Nat, long : Nat],
         Then(h, Types(ms)) = DoubleSeq
  PROVE  Count(k, h, ms) = [k EXCEPT !.double = @ + 1]
<1>1. Count(k, h, ms) =
        [single |-> k.single + 0, double |-> k.double + 1, long |-> k.long + 0]
  BY GesturesDiffer, Zenon DEF Count, Then
<1>. QED
  BY <1>1, SMT

LEMMA CountsLong ==
  ASSUME NEW h, NEW ms, NEW k \in [single : Nat, double : Nat, long : Nat],
         Then(h, Types(ms)) = LongSeq
  PROVE  Count(k, h, ms) = [k EXCEPT !.long = @ + 1]
<1>1. Count(k, h, ms) =
        [single |-> k.single + 0, double |-> k.double + 0, long |-> k.long + 1]
  BY GesturesDiffer, Zenon DEF Count, Then
<1>. QED
  BY <1>1, SMT

\* What the abstract specification sees of a handler's messages to one button.
EventStep(b, h, k) ==
  \/ Events!Grow(b, h, k)
  \/ Events!Single(b, h, k)
  \/ Events!Double(b, h, k)
  \/ Events!Long(b, h, k)
  \/ Events!Quiet(b, h, k)

\* A move keeps the subscriber's view in step and is a step of the abstract
\* specification.
LEMMA MoveTold ==
  ASSUME NEW b, NEW n, NEW ms, n.state \in State, sm[b].press_count \in Nat,
         Told(heard[b], tally[b], sm[b]), Tells(sm[b], n, Types(ms))
  PROVE  /\ Told(Hear(heard[b], ms), Count(tally[b], heard[b], ms), n)
         /\ EventStep(b, Hear(heard[b], ms), Count(tally[b], heard[b], ms))
<1>. DEFINE h == Hear(heard[b], ms)
            k == Count(tally[b], heard[b], ms)
            o == sm[b]
            types == Types(ms)
<1>1. heard[b] = Story(o.state) /\ tally[b] \in [single : Nat, double : Nat, long : Nat]
  BY DEF Told
<1>2. o.press_count = tally[b].single + 2 * tally[b].double + tally[b].long + OpenIn(o.state)
  BY DEF Told
<1>3. ASSUME NEW st \in State, n.state = st, Then(heard[b], types) = Story(st),
             Story(st) \in Events!Continuations(heard[b]),
             n.press_count = o.press_count + OpenIn(st) - OpenIn(o.state)
      PROVE  Told(h, k, n) /\ EventStep(b, h, k)
  <2>1. h = Story(st) /\ k = tally[b]
    BY <1>1, <1>3, HearGrows
  <2>2. Events!Grow(b, h, k)
    BY <1>3, <2>1 DEF Events!Grow
  <2>. HIDE DEF h, k
  <2>3. n.press_count = k.single + 2 * k.double + k.long + OpenIn(st)
    BY <1>1, <1>2, <1>3, <2>1, SMT DEF OpenIn
  <2>. QED
    BY <1>1, <1>3, <2>1, <2>2, <2>3, Zenon DEF Told, EventStep
<1>. HIDE DEF h, k
<1>. SUFFICES Told(h, k, n) /\ EventStep(b, h, k)
  BY DEF h, k
<1>4. CASE Moves(o, n, "IDLE", "PRESSED", 1) /\ types = <<"PRESSED">>
  <2>1. Then(heard[b], types) = Story("PRESSED")
    BY <1>1, <1>4, ThenStory, Zenon DEF Moves
  <2>2. Story("PRESSED") \in Events!Continuations(heard[b])
    BY <1>1, <1>4, SMT DEF Moves, Story, Events!Continuations
  <2>3. n.press_count = o.press_count + OpenIn("PRESSED") - OpenIn(o.state)
    BY <1>4, SMT DEF Moves, OpenIn
  <2>4. n.state = "PRESSED" /\ "PRESSED" \in State
    BY <1>4 DEF Moves, State
  <2>. QED
    BY <1>3, <2>1, <2>2, <2>3, <2>4
<1>5. CASE Moves(o, n, "PRESSED", "CLICK_WAIT", 0) /\ types = <<"RELEASED">>
  <2>1. Then(heard[b], types) = Story("CLICK_WAIT")
    BY <1>1, <1>5, ThenStory, Zenon DEF Moves
  <2>2. Story("CLICK_WAIT") \in Events!Continuations(heard[b])
    BY <1>1, <1>5, SMT DEF Moves, Story, Events!Continuations
  <2>3. n.press_count = o.press_count + OpenIn("CLICK_WAIT") - OpenIn(o.state)
    BY <1>5, SMT DEF Moves, OpenIn
  <2>4. n.state = "CLICK_WAIT" /\ "CLICK_WAIT" \in State
    BY <1>5 DEF Moves, State
  <2>. QED
    BY <1>3, <2>1, <2>2, <2>3, <2>4
<1>6. CASE Moves(o, n, "PRESSED", "LONG_PRESS", 0) /\ types = <<"LONG_PRESS">>
  <2>1. Then(heard[b], types) = Story("LONG_PRESS")
    BY <1>1, <1>6, ThenStory, Zenon DEF Moves
  <2>2. Story("LONG_PRESS") \in Events!Continuations(heard[b])
    BY <1>1, <1>6, SMT DEF Moves, Story, Events!Continuations
  <2>3. n.press_count = o.press_count + OpenIn("LONG_PRESS") - OpenIn(o.state)
    BY <1>6, SMT DEF Moves, OpenIn
  <2>4. n.state = "LONG_PRESS" /\ "LONG_PRESS" \in State
    BY <1>6 DEF Moves, State
  <2>. QED
    BY <1>3, <2>1, <2>2, <2>3, <2>4
<1>7. CASE Moves(o, n, "CLICK_WAIT", "PRESSED2", 1) /\ types = <<"PRESSED">>
  <2>1. Then(heard[b], types) = Story("PRESSED2")
    BY <1>1, <1>7, ThenStory, Zenon DEF Moves
  <2>2. Story("PRESSED2") \in Events!Continuations(heard[b])
    BY <1>1, <1>7, SMT DEF Moves, Story, Events!Continuations
  <2>3. n.press_count = o.press_count + OpenIn("PRESSED2") - OpenIn(o.state)
    BY <1>7, SMT DEF Moves, OpenIn
  <2>4. n.state = "PRESSED2" /\ "PRESSED2" \in State
    BY <1>7 DEF Moves, State
  <2>. QED
    BY <1>3, <2>1, <2>2, <2>3, <2>4
<1>8. CASE Moves(o, n, "CLICK_WAIT", "IDLE", 0) /\ types = <<"SINGLE_CLICK">>
  <2>1. Then(heard[b], types) = SingleSeq /\ n.state = "IDLE" /\ n.press_count = o.press_count
    BY <1>1, <1>8, ThenGesture, SMT DEF Moves
  <2>2. h = Story(n.state) /\ k = [tally[b] EXCEPT !.single = @ + 1]
    <3>1. h = <<>>
      BY <2>1, HearCompletes DEF h
    <3>2. k = [tally[b] EXCEPT !.single = @ + 1]
      BY <1>1, <2>1, CountsSingle DEF k
    <3>. QED
      BY <2>1, <3>1, <3>2 DEF Story
  <2>3. heard[b] = <<"PRESSED", "RELEASED">> /\ Story(n.state) = <<>>
    BY <1>1, <1>8, <2>1 DEF Moves, Story
  <2>4. Events!Single(b, h, k)
    BY <2>2, <2>3, Zenon DEF Events!Single
  <2>5. /\ k \in [single : Nat, double : Nat, long : Nat]
        /\ n.press_count = k.single + 2 * k.double + k.long + OpenIn(n.state)
    BY <1>1, <1>2, <1>8, <2>1, <2>2, SMT DEF Moves, OpenIn
  <2>. QED
    BY <2>2, <2>4, <2>5, Zenon DEF Told, EventStep
<1>9. CASE Moves(o, n, "PRESSED2", "IDLE", 0) /\ types = <<"RELEASED", "DOUBLE_CLICK">>
  <2>1. Then(heard[b], types) = DoubleSeq /\ n.state = "IDLE" /\ n.press_count = o.press_count
    BY <1>1, <1>9, ThenGesture, SMT DEF Moves
  <2>2. h = Story(n.state) /\ k = [tally[b] EXCEPT !.double = @ + 1]
    <3>1. h = <<>>
      BY <2>1, HearCompletes DEF h
    <3>2. k = [tally[b] EXCEPT !.double = @ + 1]
      BY <1>1, <2>1, CountsDouble DEF k
    <3>. QED
      BY <2>1, <3>1, <3>2 DEF Story
  <2>3. heard[b] = <<"PRESSED", "RELEASED", "PRESSED">> /\ Story(n.state) = <<>>
    BY <1>1, <1>9, <2>1 DEF Moves, Story
  <2>4. Events!Double(b, h, k)
    BY <2>2, <2>3, Zenon DEF Events!Double
  <2>5. /\ k \in [single : Nat, double : Nat, long : Nat]
        /\ n.press_count = k.single + 2 * k.double + k.long + OpenIn(n.state)
    <3>1. /\ k.single = tally[b].single /\ k.double = tally[b].double + 1
          /\ k.long = tally[b].long /\ k \in [single : Nat, double : Nat, long : Nat]
      BY <1>1, <2>2, SMT
    <3>2. OpenIn(o.state) = 2 /\ OpenIn(n.state) = 0
      BY <1>9, <2>1 DEF Moves, OpenIn
    <3>3. tally[b].single \in Nat /\ tally[b].double \in Nat /\ tally[b].long \in Nat
      BY <1>1, SMT
    <3>. QED
      BY <1>2, <2>1, <3>1, <3>2, <3>3, SMT
  <2>. QED
    BY <2>2, <2>4, <2>5, Zenon DEF Told, EventStep
<1>10. CASE Moves(o, n, "LONG_PRESS", "IDLE", 0) /\ types = <<"RELEASED">>
  <2>1. Then(heard[b], types) = LongSeq /\ n.state = "IDLE" /\ n.press_count = o.press_count
    BY <1>1, <1>10, ThenGesture, SMT DEF Moves
  <2>2. h = Story(n.state) /\ k = [tally[b] EXCEPT !.long = @ + 1]
    <3>1. h = <<>>
      BY <2>1, HearCompletes DEF h
    <3>2. k = [tally[b] EXCEPT !.long = @ + 1]
      BY <1>1, <2>1, CountsLong DEF k
    <3>. QED
      BY <2>1, <3>1, <3>2 DEF Story
  <2>3. heard[b] = <<"PRESSED", "LONG_PRESS">> /\ Story(n.state) = <<>>
    BY <1>1, <1>10, <2>1 DEF Moves, Story
  <2>4. Events!Long(b, h, k)
    BY <2>2, <2>3, Zenon DEF Events!Long
  <2>5. /\ k \in [single : Nat, double : Nat, long : Nat]
        /\ n.press_count = k.single + 2 * k.double + k.long + OpenIn(n.state)
    BY <1>1, <1>2, <1>10, <2>1, <2>2, SMT DEF Moves, OpenIn
  <2>. QED
    BY <2>2, <2>4, <2>5, Zenon DEF Told, EventStep
<1>. QED
  BY <1>4, <1>5, <1>6, <1>7, <1>8, <1>9, <1>10, Zenon DEF Tells

-----------------------------------------------------------------------------
(* Durations.                                                              *)

\* The recorded times are in order.
TimesOK(o, t) ==
  /\ o.press_ts <= t
  /\ o.state = "CLICK_WAIT" => o.press_ts <= o.release_ts

\* A message with a duration is a message.
LEMMA MsgType ==
  ASSUME NEW type \in EventType, NEW d \in Nat
  PROVE  << Msg(type, d) >> \in Seq(ButtonMsg)
<1>1. Msg(type, d) \in ButtonMsg
  BY Zenon DEF Msg, ButtonMsg
<1>. QED
  BY <1>1

LEMMA MsgsType ==
  ASSUME NEW type \in EventType, NEW other \in EventType, NEW d \in Nat
  PROVE  << Msg(type, d), Msg(other, d) >> \in Seq(ButtonMsg)
<1>1. Msg(type, d) \in ButtonMsg /\ Msg(other, d) \in ButtonMsg
  BY Zenon DEF Msg, ButtonMsg
<1>. QED
  BY <1>1

\* No published duration is negative.
LEMMA PublishedType ==
  ASSUME NEW p \in ButtonObj, NEW t \in Nat, TimesOK(p, t)
  PROVE  Published(p, t) \in Seq(ButtonMsg)
<1>1. t - p.press_ts \in Nat /\ p.press_ts \in Nat /\ p.release_ts \in Nat
  BY SMT DEF ButtonObj, TimesOK
<1>2. p.state = "CLICK_WAIT" => p.release_ts - p.press_ts \in Nat
  BY <1>1, SMT DEF TimesOK
<1>3. LongPressMs \in Nat /\ 0 \in Nat
  BY ButtonAssumption DEF ButtonAssumption
<1>4. /\ "PRESSED" \in EventType /\ "RELEASED" \in EventType /\ "SINGLE_CLICK" \in EventType
      /\ "DOUBLE_CLICK" \in EventType /\ "LONG_PRESS" \in EventType
  BY DEF EventType
<1>5. \/ Published(p, t) = <<>>
      \/ Published(p, t) = << Msg("PRESSED", 0) >>
      \/ Published(p, t) = << Msg("LONG_PRESS", LongPressMs) >>
      \/ Published(p, t) = << Msg("RELEASED", t - p.press_ts) >>
      \/ p.state = "CLICK_WAIT" /\ Published(p, t) = << Msg("SINGLE_CLICK", p.release_ts - p.press_ts) >>
      \/ Published(p, t) = << Msg("RELEASED", t - p.press_ts), Msg("DOUBLE_CLICK", t - p.press_ts) >>
  BY SMT DEF Published
<1>6. <<>> \in Seq(ButtonMsg)
  OBVIOUS
<1>. QED
  BY <1>1, <1>2, <1>3, <1>4, <1>5, <1>6, MsgType, MsgsType, Zenon

\* A handler keeps the recorded times in order.
LEMMA RunTimes ==
  ASSUME NEW p \in ButtonObj, NEW t \in Nat, NEW u \in Nat, t <= u, TimesOK(p, t)
  PROVE  TimesOK(SmRun(p, t, u), u)
<1>. DEFINE n == SmRun(p, t, u)
<1>1. p.press_ts \in Nat /\ p.release_ts \in Nat /\ p.press_ts <= t /\ p.state \in State
  BY SMT DEF ButtonObj, TimesOK
<1>2. CASE p.state = "IDLE"
  <2>1. n = [IdleRun(p, t) EXCEPT !.previous_state = p.current_state]
    BY <1>2, IdleRuns
  <2>2. n.press_ts \in {p.press_ts, t} /\ n.state \in {"IDLE", "PRESSED"}
    BY <1>2, <2>1, SMT DEF IdleRun, PressedEntry, ButtonObj
  <2>. QED
    BY <1>1, <2>2, SMT DEF TimesOK
<1>3. CASE p.state = "PRESSED"
  <2>1. n = [PressedRun(p, u) EXCEPT !.previous_state = p.current_state]
    BY <1>3, PressedRuns
  <2>2. n.press_ts = p.press_ts /\ (n.release_ts = u \/ n.state = "PRESSED")
    BY <1>3, <2>1, SMT DEF PressedRun, LongPressEntry, ClickWaitEntry, PressedExit, ButtonObj
  <2>. QED
    BY <1>1, <2>2, SMT DEF TimesOK
<1>4. CASE p.state = "CLICK_WAIT"
  <2>1. n = [ClickWaitRun(p, t) EXCEPT !.previous_state = p.current_state]
    BY <1>4, ClickWaitRuns
  <2>2. /\ n.press_ts \in {p.press_ts, t}
        /\ n.state \in {"IDLE", "PRESSED2"}
           \/ (n.press_ts = p.press_ts /\ n.release_ts = p.release_ts)
    BY <1>4, <2>1, SMT DEF ClickWaitRun, Pressed2Entry, ButtonObj
  <2>. QED
    BY <1>1, <1>4, <2>2, SMT DEF TimesOK
<1>5. CASE p.state \in {"PRESSED2", "LONG_PRESS"}
  <2>1. \/ n = [Pressed2Run(p) EXCEPT !.previous_state = p.current_state]
        \/ n = [LongPressRun(p) EXCEPT !.previous_state = p.current_state]
    BY <1>5, Pressed2Runs, LongPressRuns
  <2>2. n.press_ts = p.press_ts /\ n.state \in {p.state, "IDLE"}
    BY <2>1, SMT DEF Pressed2Run, LongPressRun, ButtonObj
  <2>. QED
    BY <1>1, <1>5, <2>2, SMT DEF TimesOK
<1>. QED
  BY <1>1, <1>2, <1>3, <1>4, <1>5 DEF State

-----------------------------------------------------------------------------
(* The subscriber's invariant.                                             *)

\* The machine is in order, and a subscriber's view agrees with it.
TellInv ==
  /\ ButtonInv
  /\ \A b \in Buttons : Told(heard[b], tally[b], sm[b]) /\ TimesOK(sm[b], now)
  /\ heard = [b \in Buttons |-> heard[b]] /\ tally = [b \in Buttons |-> tally[b]]
  /\ out \in [Buttons -> Seq(ButtonMsg)]

\* The object a handler runs differs from the stored one in a flag or a sample.
Presents(o, p) ==
  /\ p \in ButtonObj
  /\ p.state = o.state /\ p.press_ts = o.press_ts /\ p.release_ts = o.release_ts

\* Running some machines keeps the views in step.
LEMMA RunAllTells ==
  ASSUME TellInv, NEW S \in SUBSET Buttons, NEW in, NEW lag \in Nat, RunAll(S, in, lag),
         \A b \in S : Presents(sm[b], in[b]) /\ ButtonOK(SmRun(in[b], now, now + lag)),
         \A b \in S : Tells(sm[b], SmRun(in[b], now, now + lag), Types(Published(in[b], now)))
  PROVE  TellInv' /\ Events!EventsNext
<1>. DEFINE ms(b) == IF b \in S THEN Published(in[b], now) ELSE <<>>
            h(b) == Hear(heard[b], ms(b))
            k(b) == Count(tally[b], heard[b], ms(b))
<1>1. ButtonInv' /\ now \in Nat /\ now + lag \in Nat /\ now <= now + lag
  <2>1. ButtonInv'
    BY RunAllKeeps DEF TellInv
  <2>. QED
    BY <2>1, SMT DEF TellInv, ButtonInv
<1>2. /\ out' = [b \in Buttons |-> ms(b)] /\ now' = now + lag
      /\ heard' = [b \in Buttons |-> h(b)] /\ tally' = [b \in Buttons |-> k(b)]
  BY Zenon DEF RunAll
<1>3. sm' = [b \in Buttons |-> IF b \in S THEN SmRun(in[b], now, now + lag) ELSE sm[b]]
  BY DEF RunAll
<1>4. ASSUME NEW b \in S
      PROVE  /\ Told(h(b), k(b), sm'[b]) /\ EventStep(b, h(b), k(b))
             /\ TimesOK(sm'[b], now') /\ ms(b) \in Seq(ButtonMsg)
  <2>. DEFINE n == SmRun(in[b], now, now + lag)
  <2>1. sm'[b] = n /\ ms(b) = Published(in[b], now)
    BY <1>3
  <2>2. Told(heard[b], tally[b], sm[b]) /\ TimesOK(sm[b], now) /\ sm[b] \in ButtonObj
    BY DEF TellInv, ButtonInv
  <2>3. n.state \in State /\ sm[b].press_count \in Nat
    BY <2>2, SMT DEF ButtonOK, ButtonObj
  <2>4. in[b] \in ButtonObj /\ TimesOK(in[b], now)
    BY <2>2, Zenon DEF Presents, TimesOK
  <2>5. TimesOK(n, now + lag) /\ Published(in[b], now) \in Seq(ButtonMsg)
    BY <1>1, <2>4, RunTimes, PublishedType
  <2>6. Tells(sm[b], n, Types(ms(b)))
    BY <2>1
  <2>. HIDE DEF n, ms
  <2>7. Told(h(b), k(b), n) /\ EventStep(b, h(b), k(b))
    BY <2>2, <2>3, <2>6, MoveTold
  <2>. QED
    BY <1>2, <2>1, <2>5, <2>7
<1>5. ASSUME NEW b \in Buttons, b \notin S
      PROVE  /\ Told(h(b), k(b), sm'[b]) /\ EventStep(b, h(b), k(b))
             /\ TimesOK(sm'[b], now') /\ ms(b) \in Seq(ButtonMsg)
  <2>1. sm'[b] = sm[b] /\ ms(b) = <<>>
    BY <1>3, <1>5
  <2>2. Told(heard[b], tally[b], sm[b]) /\ TimesOK(sm[b], now) /\ sm[b] \in ButtonObj
    BY DEF TellInv, ButtonInv
  <2>3. sm[b].state \in State /\ sm[b].press_ts \in Nat
    BY <2>2, SMT DEF ButtonObj
  <2>4. Then(heard[b], Types(ms(b))) = Story(sm[b].state)
    <3>1. Story(sm[b].state) \o <<>> = Story(sm[b].state)
      BY <2>3, SMT DEF Story, State
    <3>. QED
      BY <2>1, <2>2, <3>1, TypesNone, Zenon DEF Told, Then
  <2>. HIDE DEF ms
  <2>5. h(b) = heard[b] /\ k(b) = tally[b]
    BY <2>2, <2>3, <2>4, HearGrows DEF Told
  <2>6. TimesOK(sm[b], now + lag)
    BY <1>1, <2>2, <2>3, SMT DEF TimesOK
  <2>7. EventStep(b, h(b), k(b))
    BY <2>5 DEF EventStep, Events!Quiet
  <2>8. ms(b) \in Seq(ButtonMsg)
    BY <2>1
  <2>. QED
    BY <1>2, <2>1, <2>2, <2>5, <2>6, <2>7, <2>8
<1>. HIDE DEF ms, h, k
<1>6. \A b \in Buttons : /\ Told(h(b), k(b), sm'[b]) /\ EventStep(b, h(b), k(b))
                         /\ TimesOK(sm'[b], now') /\ ms(b) \in Seq(ButtonMsg)
  BY <1>4, <1>5
<1>7. \A b \in Buttons : heard'[b] = h(b) /\ tally'[b] = k(b)
  BY <1>2
<1>8. heard' = [b \in Buttons |-> heard'[b]] /\ tally' = [b \in Buttons |-> tally'[b]]
  BY <1>2, Zenon
<1>9. TellInv'
  BY <1>1, <1>2, <1>6, <1>7, <1>8, Zenon DEF TellInv
<1>10. Events!EventsNext
  BY <1>6, <1>7, <1>8, Zenon DEF Events!EventsNext, EventStep
<1>. QED
  BY <1>9, <1>10

\* A subscriber has heard nothing of a fresh array of buttons.
LEMMA TellInit == Init => TellInv
<1>. SUFFICES ASSUME Init PROVE TellInv
  OBVIOUS
<1>1. ButtonInv
  BY ButtonInit
<1>2. ASSUME NEW b \in Buttons PROVE Told(heard[b], tally[b], sm[b]) /\ TimesOK(sm[b], now)
  <2>1. heard[b] = <<>> /\ tally[b] = [single |-> 0, double |-> 0, long |-> 0] /\ now = 0
    BY DEF Init
  <2>2. sm[b].state = "IDLE" /\ sm[b].press_count = 0 /\ sm[b].press_ts = 0
    BY DEF Init
  <2>. QED
    BY <2>1, <2>2, SMT DEF Told, TimesOK, Story, OpenIn
<1>3. heard = [b \in Buttons |-> heard[b]] /\ tally = [b \in Buttons |-> tally[b]]
  BY Zenon DEF Init
<1>4. out \in [Buttons -> Seq(ButtonMsg)]
  BY DEF Init
<1>. QED
  BY <1>1, <1>2, <1>3, <1>4 DEF TellInv

\* Every callback and every expiry keeps the views in step, and is a step or a
\* stutter of the abstract specification.
LEMMA TellNext ==
  ASSUME TellInv, [Next]_vars PROVE TellInv' /\ [Events!EventsNext]_<<heard, tally>>
<1>1. ASSUME NEW S \in SUBSET Buttons, NEW lag \in Lags, ButtonHandler(S, lag)
      PROVE  TellInv' /\ Events!EventsNext
  <2>. DEFINE in == [b \in S |-> [sm[b] EXCEPT !.current_state = ~@]]
  <2>1. RunAll(S, in, lag)
    BY <1>1 DEF ButtonHandler
  <2>2. ASSUME NEW b \in S
        PROVE  /\ Presents(sm[b], in[b]) /\ ButtonOK(SmRun(in[b], now, now + lag))
               /\ Tells(sm[b], SmRun(in[b], now, now + lag), Types(Published(in[b], now)))
    <3>1. ButtonOK(sm[b]) /\ now \in Nat /\ now + lag \in Nat
      BY LagType, SMT DEF TellInv, ButtonInv
    <3>2. in[b] \in ButtonObj
      BY <3>1, Zenon DEF ButtonOK, ButtonObj
    <3>3. Presents(sm[b], in[b])
      <4>1. in[b] = [sm[b] EXCEPT !.current_state = ~@]
        OBVIOUS
      <4>. HIDE DEF in
      <4>. QED
        BY <3>1, <3>2, <4>1, SMT DEF Presents, ButtonOK, ButtonObj
    <3>. QED
      BY <3>1, <3>3, CallbackOK, CallbackTells
  <2>. HIDE DEF in
  <2>. QED
    BY <2>1, <2>2, LagType, RunAllTells
<1>2. ASSUME NEW b \in Buttons, NEW lag \in Lags, LongPressWork(b, lag)
      PROVE  TellInv' /\ Events!EventsNext
  <2>. DEFINE in == [c \in {b} |-> [sm[c] EXCEPT !.long_work = FALSE, !.long_press_fired = TRUE]]
  <2>1. RunAll({b}, in, lag) /\ sm[b].long_work
    BY <1>2 DEF LongPressWork
  <2>2. /\ Presents(sm[b], in[b]) /\ ButtonOK(SmRun(in[b], now, now + lag))
        /\ Tells(sm[b], SmRun(in[b], now, now + lag), Types(Published(in[b], now)))
    <3>1. ButtonOK(sm[b]) /\ now \in Nat /\ now + lag \in Nat
      BY LagType, SMT DEF TellInv, ButtonInv
    <3>2. in[b] \in ButtonObj
      BY <3>1, Zenon DEF ButtonOK, ButtonObj
    <3>3. Presents(sm[b], in[b])
      <4>1. in[b] = [sm[b] EXCEPT !.long_work = FALSE, !.long_press_fired = TRUE]
        OBVIOUS
      <4>. HIDE DEF in
      <4>. QED
        BY <3>1, <3>2, <4>1, SMT DEF Presents, ButtonOK, ButtonObj
    <3>. QED
      BY <2>1, <3>1, <3>3, LongExpiryOK, LongExpiryTells
  <2>. HIDE DEF in
  <2>. QED
    BY <2>1, <2>2, LagType, RunAllTells
<1>3. ASSUME NEW b \in Buttons, NEW lag \in Lags, DoubleClickWork(b, lag)
      PROVE  TellInv' /\ Events!EventsNext
  <2>. DEFINE in == [c \in {b} |-> [sm[c] EXCEPT !.click_work = FALSE, !.click_timeout = TRUE]]
  <2>1. RunAll({b}, in, lag) /\ sm[b].click_work
    BY <1>3 DEF DoubleClickWork
  <2>2. /\ Presents(sm[b], in[b]) /\ ButtonOK(SmRun(in[b], now, now + lag))
        /\ Tells(sm[b], SmRun(in[b], now, now + lag), Types(Published(in[b], now)))
    <3>1. ButtonOK(sm[b]) /\ now \in Nat /\ now + lag \in Nat
      BY LagType, SMT DEF TellInv, ButtonInv
    <3>2. in[b] \in ButtonObj
      BY <3>1, Zenon DEF ButtonOK, ButtonObj
    <3>3. Presents(sm[b], in[b])
      <4>1. in[b] = [sm[b] EXCEPT !.click_work = FALSE, !.click_timeout = TRUE]
        OBVIOUS
      <4>. HIDE DEF in
      <4>. QED
        BY <3>1, <3>2, <4>1, SMT DEF Presents, ButtonOK, ButtonObj
    <3>. QED
      BY <2>1, <3>1, <3>3, ClickExpiryOK, ClickExpiryTells
  <2>. HIDE DEF in
  <2>. QED
    BY <2>1, <2>2, LagType, RunAllTells
<1>4. CASE TimePasses
  <2>1. ButtonInv'
    BY <1>4, ButtonNext DEF TellInv, Next
  <2>2. sm' = sm /\ heard' = heard /\ tally' = tally /\ now' = now + 1
    BY <1>4 DEF TimePasses
  <2>3. ASSUME NEW b \in Buttons PROVE TimesOK(sm'[b], now')
    <3>1. sm[b] \in ButtonObj /\ now \in Nat /\ TimesOK(sm[b], now)
      BY DEF TellInv, ButtonInv
    <3>. QED
      BY <2>2, <3>1, SMT DEF TimesOK, ButtonObj
  <2>4. out' \in [Buttons -> Seq(ButtonMsg)]
    BY <1>4 DEF TimePasses
  <2>. QED
    BY <2>1, <2>2, <2>3, <2>4 DEF TellInv
<1>5. CASE UNCHANGED vars
  BY <1>5, Zenon DEF vars, TellInv, ButtonInv
<1>. QED
  BY <1>1, <1>2, <1>3, <1>4, <1>5 DEF Next

\* The subscriber's invariant holds in every reachable state.
THEOREM TellInvariant == Spec => []TellInv
  BY TellInit, TellNext, PTL DEF Spec

\* Every variable has its type; in particular no published duration is
\* negative, whatever the listeners' lag.
THEOREM ButtonTypeCorrect == Spec => []TypeOK
<1>1. TellInv => TypeOK
  <2>. SUFFICES ASSUME TellInv PROVE TypeOK
    OBVIOUS
  <2>1. ASSUME NEW b \in Buttons
        PROVE heard[b] \in Seq(EventType) /\ tally[b] \in [single : Nat, double : Nat, long : Nat]
    <3>1. Told(heard[b], tally[b], sm[b]) /\ sm[b] \in ButtonObj
      BY DEF TellInv, ButtonInv
    <3>2. sm[b].state \in State
      BY <3>1 DEF ButtonObj
    <3>3. Story(sm[b].state) \in Seq(EventType)
      <4>1. /\ <<>> \in Seq(EventType) /\ <<"PRESSED">> \in Seq(EventType)
            /\ <<"PRESSED", "RELEASED">> \in Seq(EventType)
            /\ <<"PRESSED", "RELEASED", "PRESSED">> \in Seq(EventType)
            /\ <<"PRESSED", "LONG_PRESS">> \in Seq(EventType)
        BY DEF EventType
      <4>2. Story(sm[b].state) \in { <<>>, <<"PRESSED">>, <<"PRESSED", "RELEASED">>,
                <<"PRESSED", "RELEASED", "PRESSED">>, <<"PRESSED", "LONG_PRESS">> }
        BY <3>2, Zenon DEF Story, State
      <4>. QED
        BY <4>1, <4>2, Zenon
    <3>. QED
      BY <3>1, <3>3 DEF Told
  <2>2. heard \in [Buttons -> Seq(EventType)]
    BY <2>1, Zenon DEF TellInv
  <2>3. tally \in [Buttons -> [single : Nat, double : Nat, long : Nat]]
    BY <2>1, Zenon DEF TellInv
  <2>. QED
    BY <2>2, <2>3 DEF TypeOK, TellInv, ButtonInv
<1>. QED
  BY <1>1, TellInvariant, PTL

\* Every physical press belongs to exactly one reported gesture or to the
\* sequence in progress.
THEOREM PressesAccountedHolds == Spec => []PressesAccounted
<1>1. TellInv => PressesAccounted
  BY Zenon DEF TellInv, Told, PressesAccounted, Open, OpenIn
<1>. QED
  BY <1>1, TellInvariant, PTL

\* The brick implements what its subscribers rely on, its liveness aside: the
\* events of every press sequence come in one of the three shapes.
THEOREM ImplementsEventsSpec == Spec => Events!EventsSpec
<1>1. Init => Events!EventsInit
  BY DEF Init, Events!EventsInit
<1>. QED
  BY <1>1, TellInit, TellNext, PTL DEF Spec, Events!EventsSpec
=============================================================================
