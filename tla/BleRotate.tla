------------------------------ MODULE BleRotate ------------------------------
(***************************************************************************)
(* connect_stored_rotating (bricks/wifi_ble_prov/src/wifi_ble_prov.c): each *)
(* attempt of the reconnect loop walks the stored credentials from the one *)
(* whose turn it is and sends one connect request, for the first it can    *)
(* load and the stack accepts.                                             *)
(*                                                                         *)
(* Credentials are named by their place in the store.  Changes bounds the  *)
(* changes of the store and the refused requests of a behaviour.           *)
(***************************************************************************)
EXTENDS Integers, FiniteSetsExt

CONSTANTS
  MaxCreds,     \* places in the credential store
  Unloadable,   \* whether a credential may not load as a personal one
  Changes

ASSUME BleRotateAssumption ==
  MaxCreds \in Nat \ {0} /\ Unloadable \in BOOLEAN /\ Changes \in Nat

VARIABLES
  count,     \* stored credentials: places 0 .. count - 1
  broken,    \* places that do not load
  idx,       \* cred_rotate_idx
  asked,     \* the places the last attempt made a request for
  waits,     \* history: requests sent since a place was last asked for
  changes

rotateVars == <<count, broken, idx, asked, waits, changes>>

Places == 0 .. MaxCreds - 1
Stored == 0 .. count - 1

RotateInit ==
  /\ count \in 0 .. MaxCreds
  /\ broken \in SUBSET (IF Unloadable THEN Stored ELSE {})
  /\ idx = 0
  /\ asked = {}
  /\ waits = [p \in Places |-> 0]
  /\ changes = Changes

AdvanceFrom_Nothing(target) == target

\* Where the next attempt starts.
AdvanceFrom(target) == (target + 1) % count

\* The walk from place `target` on, when the stack accepts requests for
\* `accepted`: it asks for every loadable place up to the first accepted one.
Walk(target, accepted) ==
  LET ready == { p \in Stored \ broken : p >= target }
  IN  IF ready \intersect accepted = {} THEN ready
      ELSE { p \in ready : p <= Min(ready \intersect accepted) }

\* At most one of the requests is refused for each change that is left.
Attempt ==
  /\ count > 0
  /\ \E accepted \in SUBSET Stored :
       LET target == idx % count
           refused == Walk(target, accepted) \ accepted
           sent == Walk(target, accepted) \intersect accepted # {}
       IN  /\ Cardinality(refused) <= changes
           /\ changes' = changes - Cardinality(refused)
           /\ asked' = Walk(target, accepted)
           /\ idx' = IF sent THEN AdvanceFrom(target) ELSE idx
           /\ waits' = [p \in Places |->
                 IF p \in asked' THEN 0
                 ELSE IF sent /\ p \in Stored /\ waits[p] <= MaxCreds THEN waits[p] + 1
                 ELSE waits[p]]
  /\ UNCHANGED <<count, broken>>

\* A credential is stored behind the others, or one is deleted and those
\* behind it move up.
StoreChanges ==
  /\ changes > 0 /\ changes' = changes - 1
  /\ \/ /\ count < MaxCreds /\ count' = count + 1
        /\ broken' \in {broken} \union (IF Unloadable THEN {broken \union {count}} ELSE {})
     \/ /\ count > 0 /\ count' = count - 1
        /\ \E d \in Stored : broken' = { IF p > d THEN p - 1 ELSE p : p \in broken \ {d} }
  /\ asked' = {} /\ waits' = [p \in Places |-> 0]
  /\ UNCHANGED idx

RotateNext == Attempt \/ StoreChanges

RotateSpec == RotateInit /\ [][RotateNext]_rotateVars

\* The reconnect loop reschedules itself for as long as the link is down.
RotateFairSpec == RotateSpec /\ WF_rotateVars(Attempt)
----------------------------------------------------------------------------
\* Types; the turn is never beyond the store's capacity.
RotateTypeOK ==
  /\ count \in 0 .. MaxCreds /\ broken \subseteq Stored /\ asked \subseteq Stored
  /\ idx \in Places
  /\ waits \in [Places -> 0 .. MaxCreds + 1]
  /\ changes \in 0 .. Changes

\* Nobody is overtaken for long: as long as requests are sent, every loadable
\* network is asked for once in as many requests as there are networks,
\* wherever an earlier, larger store left idx and however many of the others
\* are refused or do not load.
RoundRobin ==
  \A p \in Stored \ broken : waits[p] < count

\* Once every stored credential loads, each is asked for again and again,
\* wherever an earlier store left idx: no place is skipped or visited twice
\* in a round for good.
LoadableCycled ==
  <>[](broken = {}) => \A p \in Places : <>[](p < count) => []<>(p \in asked)

\* wifi_ble_prov.c:73 "advances after each failed attempt so that all stored
\* networks are cycled through during the reconnect loop": a stored network
\* that loads is asked for again and again, whatever the others do.
Cycled ==
  \A p \in Places : <>[](p < count /\ p \notin broken) => []<>(p \in asked)
=============================================================================
