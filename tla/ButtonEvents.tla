---------------------------- MODULE ButtonEvents ----------------------------
(***************************************************************************)
(* What a subscriber of BUTTON_CHAN may rely on (button.h, enum            *)
(* button_msg_type): per button the raw PRESSED and RELEASED events and    *)
(* exactly one gesture for each press sequence, in one of three shapes:    *)
(*   PRESSED RELEASED SINGLE_CLICK                                         *)
(*   PRESSED RELEASED PRESSED RELEASED DOUBLE_CLICK                        *)
(*   PRESSED LONG_PRESS RELEASED                                           *)
(***************************************************************************)
EXTENDS Naturals, Sequences

CONSTANT Buttons

VARIABLES
  heard,    \* events of the press sequence in progress, per button
  tally     \* completed gestures, per button and kind

Tally == [single : Nat, double : Nat, long : Nat]

Continuations(h) ==
  CASE h = <<>>                  -> { <<"PRESSED">> }
    [] h = <<"PRESSED">>         -> { <<"PRESSED", "RELEASED">>, <<"PRESSED", "LONG_PRESS">> }
    [] h = <<"PRESSED", "RELEASED">> -> { <<"PRESSED", "RELEASED", "PRESSED">> }
    [] OTHER                     -> {}

\* The sequence grows by one event and no gesture is complete yet.
Grow(b, h, t) == h \in Continuations(heard[b]) /\ t = tally[b]

Single(b, h, t) == /\ heard[b] = <<"PRESSED", "RELEASED">> /\ h = <<>>
                   /\ t = [tally[b] EXCEPT !.single = @ + 1]

Double(b, h, t) == /\ heard[b] = <<"PRESSED", "RELEASED", "PRESSED">> /\ h = <<>>
                   /\ t = [tally[b] EXCEPT !.double = @ + 1]

Long(b, h, t) == /\ heard[b] = <<"PRESSED", "LONG_PRESS">> /\ h = <<>>
                 /\ t = [tally[b] EXCEPT !.long = @ + 1]

Quiet(b, h, t) == h = heard[b] /\ t = tally[b]

EventsInit == /\ heard = [b \in Buttons |-> <<>>]
              /\ tally = [b \in Buttons |-> [single |-> 0, double |-> 0, long |-> 0]]

\* One callback may report several buttons.
EventsNext ==
  /\ heard' = [b \in Buttons |-> heard'[b]]
  /\ tally' = [b \in Buttons |-> tally'[b]]
  /\ \A b \in Buttons :
       \/ Grow(b, heard'[b], tally'[b])
       \/ Single(b, heard'[b], tally'[b])
       \/ Double(b, heard'[b], tally'[b])
       \/ Long(b, heard'[b], tally'[b])
       \/ Quiet(b, heard'[b], tally'[b])

EventsSpec == EventsInit /\ [][EventsNext]_<<heard, tally>>

\* A press that has begun is classified: a held button becomes a long press
\* unless it is let go, and a finished click becomes single or double.
Classified ==
  \A b \in Buttons :
    \A open \in { <<"PRESSED">>, <<"PRESSED", "RELEASED">> } :
      heard[b] = open ~> heard[b] # open

FairEventsSpec == EventsSpec /\ Classified
=============================================================================
