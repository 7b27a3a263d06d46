------------------------------- MODULE MCLed -------------------------------
(* Instances of Led for model checking: command sets and small values.     *)
EXTENDS Led

Msg(t, l, p) == [type |-> t, led_number |-> l, period_ms |-> p, rotate_count |-> 0,
                 rotate_indices |-> [i \in Leds |-> 0]]

\* An explicit sweep of the first n entries of the sequence s.
Sweep(n, s) == [Msg("ROTATE", 0, 0) EXCEPT !.rotate_count = n, !.rotate_indices = s]

\* Every static command, BLINK, BREATHE with the default and a short period,
\* to every LED; a command to an LED that does not exist.
LedCmds == { Msg(t, l, 0) : t \in CmdType \ {"ROTATE"}, l \in Leds }
             \union { Msg("BREATHE", 0, 20), Msg("ON", NumLeds, 0) }

\* The default sweep, one with the last LED alone, one longer than the array and
\* one that starts at an LED the brick does not have.
RotateCmds == { Msg("ROTATE", 0, 0),
                Sweep(1, [i \in Leds |-> NumLeds - 1]),
                Sweep(NumLeds + 1, [i \in Leds |-> NumLeds - 1 - i]),
                Sweep(2, [i \in Leds |-> IF i = 0 THEN NumLeds ELSE 0]) }

AllCmds == LedCmds \union RotateCmds

\* Enough to reach every state of one LED and to sweep over the others.
LiveCmds == { Msg(t, 0, 0) : t \in {"OFF", "BLINK", "BREATHE"} }
              \union { Msg("BLINK", 1, 0), Msg("ROTATE", 0, 0) }

\* The hardware-PWM LEDs of an instance.
NoPwm == {}
FirstPwm == {0}
=============================================================================
