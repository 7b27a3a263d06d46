------------------------------- MODULE Button -------------------------------
(***************************************************************************)
(* The button brick (bricks/button/src/button.c): one five-state machine   *)
(* per button, driven by the DK library's callback and by two delayable    *)
(* work items.  All of them run on the system workqueue, so each handler   *)
(* below is atomic, and an armed timer may expire at any later moment,     *)
(* before or after a callback that was caused earlier.                     *)
(*                                                                         *)
(* Publishing runs the subscribers' listeners inside the handler: `lag` is *)
(* the time they take, at most MaxLag, charged once per handler.  A        *)
(* publication never fails: only this workqueue publishes, and a reader    *)
(* that kept the channel locked for 100 ms is left out.  MaxPresses bounds *)
(* the presses of one button and MaxTime the clock.                        *)
(***************************************************************************)
EXTENDS Integers, Sequences

CONSTANTS
  Buttons,      \* the configured buttons
  LongPressMs,  \* CONFIG_ZEGO_BUTTON_LONG_PRESS_MS
  MaxPresses,   \* bound on the presses of one button
  MaxTime,      \* bound on the clock
  MaxLag        \* bound on the time a publication's listeners take

ASSUME ButtonAssumption ==
  LongPressMs \in Nat /\ MaxPresses \in Nat /\ MaxTime \in Nat /\ MaxLag \in Nat

VARIABLES
  sm,       \* button_sm[]
  now,      \* k_uptime_get
  out,      \* per button, the messages the last handler published
  heard,    \* a subscriber's view: events since the last complete gesture,
  tally     \* and the gestures completed so far

vars == <<sm, now, out, heard, tally>>

State == {"IDLE", "PRESSED", "CLICK_WAIT", "PRESSED2", "LONG_PRESS"}

EventType == {"PRESSED", "RELEASED", "SINGLE_CLICK", "DOUBLE_CLICK", "LONG_PRESS"}

\* long_work and click_work are the two delayable works, TRUE while pending.
ButtonObj == [state : State, current_state : BOOLEAN, previous_state : BOOLEAN,
              long_press_fired : BOOLEAN, click_timeout : BOOLEAN,
              press_count : Nat, press_ts : Nat, release_ts : Nat,
              long_work : BOOLEAN, click_work : BOOLEAN]

ButtonMsg == [type : EventType, duration_ms : Nat]

Msg(type, duration) == [type |-> type, duration_ms |-> duration]

----------------------------------------------------------------------------
(* The state machine, as functions on one button's object; t is the time   *)
(* at which the handler starts and u the time after its publications.      *)

Pushed(o) == o.current_state /\ ~o.previous_state
LetGo(o)  == ~o.current_state /\ o.previous_state

PressedEntry(o, t) ==
  [o EXCEPT !.state = "PRESSED", !.press_count = @ + 1, !.press_ts = t, !.long_work = TRUE]

PressedExit_KeepTimer(o, u) == [o EXCEPT !.long_press_fired = FALSE, !.release_ts = u]

PressedExit(o, u) ==
  [o EXCEPT !.long_work = FALSE, !.long_press_fired = FALSE, !.release_ts = u]

ClickWaitEntry(o) == [o EXCEPT !.state = "CLICK_WAIT", !.click_work = TRUE]

Pressed2Entry_NoCount(o, t) == [o EXCEPT !.state = "PRESSED2", !.press_ts = t]

Pressed2Entry(o, t) ==
  [o EXCEPT !.state = "PRESSED2", !.press_count = @ + 1, !.press_ts = t]

LongPressEntry(o) == [o EXCEPT !.state = "LONG_PRESS"]

IdleRun(o, t) == IF Pushed(o) THEN PressedEntry(o, t) ELSE o

PressedRun(o, u) ==
  IF o.long_press_fired THEN LongPressEntry(PressedExit(o, u))
  ELSE IF LetGo(o) THEN ClickWaitEntry(PressedExit(o, u))
  ELSE o

ClickWaitRun_KeepTimer(o, t) ==
  IF o.click_timeout THEN [o EXCEPT !.click_timeout = FALSE, !.state = "IDLE"]
  ELSE IF Pushed(o) THEN Pressed2Entry(o, t)
  ELSE o

ClickWaitRun(o, t) ==
  IF o.click_timeout THEN [o EXCEPT !.click_timeout = FALSE, !.state = "IDLE"]
  ELSE IF Pushed(o) THEN Pressed2Entry([o EXCEPT !.click_work = FALSE], t)
  ELSE o

Pressed2Run(o) == IF LetGo(o) THEN [o EXCEPT !.state = "IDLE"] ELSE o

LongPressRun_ThenClick(o) == IF LetGo(o) THEN ClickWaitEntry(o) ELSE o

LongPressRun(o) == IF LetGo(o) THEN [o EXCEPT !.state = "IDLE"] ELSE o

\* smf_run_state; every run handler ends by remembering the sample.
SmRun(o, t, u) ==
  LET n == CASE o.state = "IDLE"       -> IdleRun(o, t)
             [] o.state = "PRESSED"    -> PressedRun(o, u)
             [] o.state = "CLICK_WAIT" -> ClickWaitRun(o, t)
             [] o.state = "PRESSED2"   -> Pressed2Run(o)
             [] o.state = "LONG_PRESS" -> LongPressRun(o)
  IN  [n EXCEPT !.previous_state = o.current_state]

\* publish_event, as called by the same handlers.
Published(o, t) ==
  CASE o.state = "IDLE" /\ Pushed(o) -> << Msg("PRESSED", 0) >>
    [] o.state = "PRESSED" /\ o.long_press_fired -> << Msg("LONG_PRESS", LongPressMs) >>
    [] o.state = "PRESSED" /\ ~o.long_press_fired /\ LetGo(o) ->
         << Msg("RELEASED", t - o.press_ts) >>
    [] o.state = "CLICK_WAIT" /\ o.click_timeout ->
         << Msg("SINGLE_CLICK", o.release_ts - o.press_ts) >>
    [] o.state = "CLICK_WAIT" /\ ~o.click_timeout /\ Pushed(o) -> << Msg("PRESSED", 0) >>
    [] o.state = "PRESSED2" /\ LetGo(o) ->
         << Msg("RELEASED", t - o.press_ts), Msg("DOUBLE_CLICK", t - o.press_ts) >>
    [] o.state = "LONG_PRESS" /\ LetGo(o) -> << Msg("RELEASED", t - o.press_ts) >>
    [] OTHER -> <<>>

----------------------------------------------------------------------------
(* A subscriber: it gathers events until they form a complete gesture.     *)

Types(ms) == [i \in 1 .. Len(ms) |-> ms[i].type]

SingleSeq == <<"PRESSED", "RELEASED", "SINGLE_CLICK">>
DoubleSeq == <<"PRESSED", "RELEASED", "PRESSED", "RELEASED", "DOUBLE_CLICK">>
LongSeq   == <<"PRESSED", "LONG_PRESS", "RELEASED">>

Hear(h, ms) ==
  LET s == h \o Types(ms)
  IN  IF s \in {SingleSeq, DoubleSeq, LongSeq} THEN <<>> ELSE s

Count(n, h, ms) ==
  LET s == h \o Types(ms)
  IN  [single |-> n.single + (IF s = SingleSeq THEN 1 ELSE 0),
       double |-> n.double + (IF s = DoubleSeq THEN 1 ELSE 0),
       long   |-> n.long + (IF s = LongSeq THEN 1 ELSE 0)]

----------------------------------------------------------------------------
(* Handlers.                                                               *)

\* Run the machines in S, whose objects the handler has just set to in[b].
RunAll(S, in, lag) ==
  LET messages == [b \in Buttons |-> IF b \in S THEN Published(in[b], now) ELSE <<>>]
  IN  /\ out' = messages
      /\ now' = now + lag
      /\ sm' = [b \in Buttons |-> IF b \in S THEN SmRun(in[b], now, now + lag) ELSE sm[b]]
      /\ heard' = [b \in Buttons |-> Hear(heard[b], messages[b])]
      /\ tally' = [b \in Buttons |-> Count(tally[b], heard[b], messages[b])]

\* button_handler: the DK library reports each change of level once.
ButtonHandler(S, lag) ==
  /\ S # {}
  /\ \A b \in S : sm[b].current_state \/ sm[b].press_count < MaxPresses
  /\ RunAll(S, [b \in S |-> [sm[b] EXCEPT !.current_state = ~@]], lag)

LongPressWork(b, lag) ==
  /\ sm[b].long_work
  /\ RunAll({b}, [c \in {b} |-> [sm[c] EXCEPT !.long_work = FALSE, !.long_press_fired = TRUE]],
            lag)

DoubleClickWork(b, lag) ==
  /\ sm[b].click_work
  /\ RunAll({b}, [c \in {b} |-> [sm[c] EXCEPT !.click_work = FALSE, !.click_timeout = TRUE]],
            lag)

TimePasses == /\ now < MaxTime
              /\ now' = now + 1
              /\ out' = [b \in Buttons |-> <<>>]
              /\ UNCHANGED <<sm, heard, tally>>

\* button_module_init.
Init ==
  /\ sm = [b \in Buttons |->
             [state |-> "IDLE", current_state |-> FALSE, previous_state |-> FALSE,
              long_press_fired |-> FALSE, click_timeout |-> FALSE,
              press_count |-> 0, press_ts |-> 0, release_ts |-> 0,
              long_work |-> FALSE, click_work |-> FALSE]]
  /\ now = 0
  /\ out = [b \in Buttons |-> <<>>]
  /\ heard = [b \in Buttons |-> <<>>]
  /\ tally = [b \in Buttons |-> [single |-> 0, double |-> 0, long |-> 0]]

Lags == IF now < MaxTime THEN 0 .. MaxLag ELSE {0}

Next ==
  \/ \E S \in SUBSET Buttons, lag \in Lags : ButtonHandler(S, lag)
  \/ \E b \in Buttons, lag \in Lags : LongPressWork(b, lag)
  \/ \E b \in Buttons, lag \in Lags : DoubleClickWork(b, lag)
  \/ TimePasses

Spec == Init /\ [][Next]_vars

\* The kernel's timers expire and the workqueue runs; nobody need press.
Fairness ==
  \A b \in Buttons : /\ WF_vars(\E lag \in Lags : LongPressWork(b, lag))
                     /\ WF_vars(\E lag \in Lags : DoubleClickWork(b, lag))

FairSpec == Spec /\ Fairness

----------------------------------------------------------------------------
(* Properties.                                                             *)

\* Types; in particular no published duration is negative (the code casts
\* it to an unsigned type).
TypeOK ==
  /\ sm \in [Buttons -> ButtonObj]
  /\ now \in Nat
  /\ out \in [Buttons -> Seq(ButtonMsg)]
  /\ heard \in [Buttons -> Seq(EventType)]
  /\ tally \in [Buttons -> [single : Nat, double : Nat, long : Nat]]

\* Each timer is pending exactly in the state that waits for it, and no timer
\* flag outlives its handler: an expiry can never be taken for another press.
TimersOwned ==
  \A b \in Buttons :
    /\ sm[b].long_work <=> sm[b].state = "PRESSED"
    /\ sm[b].click_work <=> sm[b].state = "CLICK_WAIT"
    /\ ~sm[b].long_press_fired /\ ~sm[b].click_timeout

\* Between handlers the machine agrees with the finger: it is in a held state
\* exactly when the last reported level is pressed, so no release is missed.
HeldMatchesLevel ==
  \A b \in Buttons :
    /\ sm[b].previous_state = sm[b].current_state
    /\ sm[b].current_state <=> sm[b].state \in {"PRESSED", "PRESSED2", "LONG_PRESS"}

\* Every physical press is accounted for: it belongs to exactly one reported
\* gesture or to the sequence in progress.
Open(b) == IF sm[b].state = "IDLE" THEN 0 ELSE IF sm[b].state = "PRESSED2" THEN 2 ELSE 1

PressesAccounted ==
  \A b \in Buttons :
    sm[b].press_count = tally[b].single + 2 * tally[b].double + tally[b].long + Open(b)

Events == INSTANCE ButtonEvents WITH Buttons <- Buttons, heard <- heard, tally <- tally

\* The brick implements what its subscribers rely on: the events of every
\* press sequence come in one of the three shapes, and no sequence waits for
\* ever for its gesture.
ImplementsEvents == Events!FairEventsSpec

\* button-spec.md, duration_ms of BUTTON_SINGLE_CLICK: "Hold time of the press
\* (same as the preceding BUTTON_RELEASED)".  The RELEASED message is
\* published, listeners included, before the release time is recorded.
SingleClickDuration ==
  [][\A b \in Buttons :
       sm[b].state = "PRESSED" /\ sm'[b].state = "CLICK_WAIT" =>
         out'[b][1].duration_ms = sm'[b].release_ts - sm'[b].press_ts]_vars
=============================================================================
