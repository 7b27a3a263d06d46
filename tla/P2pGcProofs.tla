---------------------------- MODULE P2pGcProofs ----------------------------
(***************************************************************************)
(* Proofs about P2pGc, for any group owners and phones, any set of faults, *)
(* any number of disturbances and any length of the event queue.           *)
(***************************************************************************)
EXTENDS P2pGc, TLAPS

EventType == [kind : {"connect", "disconnect"}, peer : Peers \union {NoPeer}]

Pos(q) == 1 .. Len(q)

\* No join has been reported that is not handled yet.
NoConnect(q) == \A i \in Pos(q) : q[i].kind # "connect"

\* What is to be learnt is the peer of every join still to be handled.
ConnectsTo(q, p) == \A i \in Pos(q) : q[i].kind = "connect" => p \in {NoPeer, q[i].peer}

\* At most one of the events is a join.
OneConnect(q) == \A i, j \in Pos(q) : q[i].kind = "connect" /\ q[j].kind = "connect" => i = j

\* The last event is a join.
EndsConnected(q) == q[Len(q)].kind = "connect"

\* An engine that is not connected and has somewhere to go keeps its next step
\* ahead of it.  A DISCONNECT in flight does not count: it reschedules nothing.
\* Neither does an event, which may be a late deauthentication.
StepAhead ==
  ~connected /\ (saved_go # NoPeer \/ pairing_active) =>
    \/ retry # "no" \/ call \notin {"none", "disconnect"}
    \/ click = "refused" /\ pairing_active

\* The last event to be handled tells whether the device is in a group.
LastTells ==
  IF events = <<>> THEN connected <=> sup = "up" ELSE EndsConnected(events) <=> sup = "up"

\* What every request in flight relies on, while joins end the way their
\* requests expect.
Searching == call \in {"find", "peers", "pair", "reconnect"}
Accepted == call \in {"pair_accepted", "reconnect_accepted"}

InOrder ==
  /\ ~canceling
  /\ Searching => sup = "idle"
  /\ Accepted => sup # "up"
  /\ Searching \/ Accepted => ~connected /\ ~find_running /\ NoConnect(events)
  /\ call \in {"find", "peers", "pair"} => pairing_active
  /\ sup = "joining" => ~connected /\ ~find_running /\ NoConnect(events) /\ (call = "none" \/ Accepted)
  /\ OneConnect(events)
  /\ ~NoConnect(events) => call = "none" /\ ~connected /\ ~find_running
  /\ connected => ~find_running /\ ~pending
  /\ find_running => pairing_active /\ sup = "idle"
  /\ pairing_active /\ connected => retry = "now" \/ call = "disconnect" \/ sup # "up"

\* The owner of the group it joins is the one it is to learn, if any.
Learning ==
  /\ sup = "joining" => pending_go \in {NoPeer, group}
  /\ ConnectsTo(events, pending_go)
  /\ call \in {"pair", "pair_accepted"} => pending_go \in {NoPeer, target}
  /\ call \in {"reconnect", "reconnect_accepted"} => pending_go = NoPeer

P2pInv == TypeOK /\ StepAhead /\ LastTells /\ (~muddled => InOrder /\ Learning)

----------------------------------------------------------------------------
(* The queue.                                                              *)

\* Append, under a name of its own: what the proofs need is in the next lemmas.
Put(q, e) == Append(q, e)

LEMMA PutIs ==
  ASSUME NEW S, NEW q \in Seq(S), NEW e \in S
  PROVE  /\ Put(q, e) \in Seq(S)
         /\ Len(q) \in Nat /\ Len(Put(q, e)) = Len(q) + 1
         /\ Put(q, e)[Len(q) + 1] = e /\ Len(q) + 1 \in Pos(Put(q, e))
         /\ \A i \in Pos(Put(q, e)) : i \in Pos(q) \/ i = Len(q) + 1
  BY SMT DEF Pos, Put

LEMMA PutOld ==
  ASSUME NEW S, NEW q \in Seq(S), NEW e \in S, NEW i \in Pos(q)
  PROVE  i \in Pos(Put(q, e)) /\ Put(q, e)[i] = q[i]
  BY SMT DEF Pos, Put

LEMMA TailIs ==
  ASSUME NEW S, NEW q \in Seq(S), q # << >>
  PROVE  /\ Tail(q) \in Seq(S) /\ Len(q) \in Nat /\ Len(q) >= 1
         /\ Head(q) = q[1] /\ 1 \in Pos(q) /\ q[1] \in S
         /\ Len(Tail(q)) = Len(q) - 1
         /\ \A i \in Pos(Tail(q)) : i + 1 \in Pos(q) /\ Tail(q)[i] = q[i + 1]
         /\ \A i \in Pos(q) : i = 1 \/ (i - 1 \in Pos(Tail(q)) /\ Tail(q)[i - 1] = q[i])
  BY SMT DEF Pos

LEMMA TailEmpty ==
  ASSUME NEW S, NEW q \in Seq(S), q # << >>
  PROVE  Tail(q) = << >> <=> Len(q) = 1
<1>1. Tail(q) \in Seq(S) /\ Len(Tail(q)) = Len(q) - 1 /\ Len(q) \in Nat
  BY TailIs
<1>2. \A t \in Seq(S) : t = << >> <=> Len(t) = 0
  BY SMT
<1> DEFINE t == Tail(q)
<1>3. t = << >> <=> Len(t) = 0
  BY <1>1, <1>2, Zenon
<1>4. Len(t) = Len(q) - 1
  BY <1>1
<1>. HIDE DEF t
<1>5. t = << >> <=> Len(q) = 1
  BY <1>1, <1>3, <1>4
<1>. QED
  BY <1>5 DEF t

LEMMA LongerIsOther ==
  ASSUME NEW q, NEW r, Len(q) \in Nat, Len(r) > Len(q)
  PROVE  q # r
  OBVIOUS

LEMMA TailDiffers ==
  ASSUME NEW S, NEW q \in Seq(S), q # << >>, NEW e \in S
  PROVE  Tail(q) # q /\ Tail(q) # Put(q, e)
<1>1. /\ Len(q) \in Nat /\ Len(Tail(q)) = Len(q) - 1 /\ Len(Put(q, e)) = Len(q) + 1
      /\ Len(q) >= 1
  BY TailIs, PutIs
<1> DEFINE t == Tail(q)
           r == Put(q, e)
<1>2. Len(t) \in Nat /\ Len(q) > Len(t) /\ Len(r) > Len(t)
  BY <1>1
<1>. HIDE DEF t, r
<1>3. t # q /\ t # r
  BY <1>2, LongerIsOther
<1>. QED
  BY <1>3 DEF t, r

LEMMA PutNotEmpty ==
  ASSUME NEW S, NEW q \in Seq(S), NEW e \in S
  PROVE  Put(q, e) # << >>
<1>1. Len(q) \in Nat /\ Len(Put(q, e)) = Len(q) + 1
  BY PutIs
<1>2. Len(<< >>) = 0
  OBVIOUS
<1> DEFINE r == Put(q, e)
<1>3. Len(r) > Len(<< >>) /\ Len(<< >>) \in Nat
  BY <1>1, <1>2
<1>. HIDE DEF r
<1>4. r # << >>
  BY <1>3, LongerIsOther, Zenon
<1>. QED
  BY <1>4 DEF r

LEMMA EmptyQueue ==
  NoConnect(<< >>) /\ OneConnect(<< >>)
  BY SMT DEF NoConnect, OneConnect, Pos

LEMMA ConnectsToAny ==
  ASSUME NEW q
  PROVE  ConnectsTo(q, NoPeer) /\ (NoConnect(q) => \A p : ConnectsTo(q, p))
  BY DEF NoConnect, ConnectsTo

LEMMA PutOne ==
  ASSUME NEW q \in Seq(EventType), NEW e \in EventType, OneConnect(q),
         e.kind = "connect" => NoConnect(q)
  PROVE  OneConnect(Put(q, e))
<1> DEFINE r == Put(q, e)
           n == Len(q) + 1
<1>1. r[n] = e /\ \A i \in Pos(r) : i \in Pos(q) \/ i = n
  BY PutIs
<1>2. \A i \in Pos(q) : i \in Pos(r) /\ r[i] = q[i]
  BY PutOld
<1>. HIDE DEF r, n
<1>3. OneConnect(r)
  BY <1>1, <1>2 DEF OneConnect, NoConnect
<1>. QED
  BY <1>3 DEF r

LEMMA TailOne ==
  ASSUME NEW q \in Seq(EventType), q # << >>, OneConnect(q)
  PROVE  OneConnect(Tail(q)) /\ (Head(q).kind = "connect" => NoConnect(Tail(q)))
<1>1. \A i \in Pos(Tail(q)) : i + 1 \in Pos(q) /\ Tail(q)[i] = q[i + 1]
  BY TailIs
<1>2. \A i \in Pos(Tail(q)) : i \in Nat /\ i >= 1
  BY TailIs, SMT DEF Pos
<1>3. 1 \in Pos(q) /\ Head(q) = q[1]
  BY TailIs
<1> DEFINE t == Tail(q)
           h == Head(q)
<1>. HIDE DEF t, h
<1>4. OneConnect(t)
  <2>. SUFFICES ASSUME NEW i \in Pos(t), NEW j \in Pos(t), t[i].kind = "connect", t[j].kind = "connect"
                PROVE  i = j
    BY DEF OneConnect
  <2>1. i + 1 = j + 1
    BY <1>1 DEF OneConnect, t
  <2>. QED
    BY <2>1, <1>2 DEF t
<1>5. ASSUME h.kind = "connect", NEW i \in Pos(t) PROVE t[i].kind # "connect"
  <2>1. i + 1 # 1
    BY <1>2 DEF t
  <2>. QED
    BY <2>1, <1>1, <1>3, <1>5 DEF OneConnect, t, h
<1>. QED
  BY <1>4, <1>5 DEF NoConnect, t, h

LEMMA PutConnects ==
  ASSUME NEW q \in Seq(EventType), NEW e \in EventType
  PROVE  /\ NoConnect(Put(q, e)) <=> NoConnect(q) /\ e.kind # "connect"
         /\ \A p : ConnectsTo(Put(q, e), p) <=>
                   ConnectsTo(q, p) /\ (e.kind = "connect" => p \in {NoPeer, e.peer})
         /\ EndsConnected(Put(q, e)) <=> e.kind = "connect"
<1> DEFINE r == Put(q, e)
           n == Len(q) + 1
<1>1. /\ Len(r) = n /\ r[n] = e /\ n \in Pos(r)
      /\ \A i \in Pos(r) : i \in Pos(q) \/ i = n
  BY PutIs
<1>0. \A i \in Pos(q) : i \in Pos(r) /\ r[i] = q[i]
  BY PutOld
<1>. HIDE DEF r, n
<1>2. NoConnect(r) <=> NoConnect(q) /\ e.kind # "connect"
  BY <1>0, <1>1 DEF NoConnect
<1>3. \A p : ConnectsTo(r, p) <=>
             ConnectsTo(q, p) /\ (e.kind = "connect" => p \in {NoPeer, e.peer})
  BY <1>0, <1>1 DEF ConnectsTo
<1>4. EndsConnected(r) <=> e.kind = "connect"
  BY <1>1 DEF EndsConnected
<1>. QED
  BY <1>2, <1>3, <1>4 DEF r

LEMMA TailConnects ==
  ASSUME NEW q \in Seq(EventType), q # << >>
  PROVE  /\ NoConnect(q) <=> NoConnect(Tail(q)) /\ Head(q).kind # "connect"
         /\ \A p : ConnectsTo(q, p) <=>
                   ConnectsTo(Tail(q), p) /\ (Head(q).kind = "connect" => p \in {NoPeer, Head(q).peer})
         /\ EndsConnected(q) <=> IF Tail(q) = << >> THEN Head(q).kind = "connect" ELSE EndsConnected(Tail(q))
<1> DEFINE t == Tail(q)
           h == Head(q)
<1>1. /\ Len(q) \in Nat /\ Len(q) >= 1 /\ Len(t) = Len(q) - 1
      /\ h = q[1] /\ 1 \in Pos(q) /\ Len(q) \in Pos(q)
      /\ \A i \in Pos(t) : i + 1 \in Pos(q) /\ t[i] = q[i + 1]
      /\ \A i \in Pos(q) : i = 1 \/ (i - 1 \in Pos(t) /\ t[i - 1] = q[i])
      /\ t = << >> <=> Len(q) = 1
  BY TailIs, TailEmpty DEF Pos
<1>. HIDE DEF t, h
<1>2. NoConnect(q) <=> NoConnect(t) /\ h.kind # "connect"
  <2>1. ASSUME NoConnect(q) PROVE NoConnect(t) /\ h.kind # "connect"
    BY <2>1, <1>1 DEF NoConnect
  <2>2. ASSUME NoConnect(t), h.kind # "connect", NEW i \in Pos(q)
        PROVE  q[i].kind # "connect"
    BY <2>2, <1>1 DEF NoConnect
  <2>. QED
    BY <2>1, <2>2 DEF NoConnect
<1>3. ASSUME NEW p
      PROVE  ConnectsTo(q, p) <=> ConnectsTo(t, p) /\ (h.kind = "connect" => p \in {NoPeer, h.peer})
  <2>1. ASSUME ConnectsTo(q, p)
        PROVE  ConnectsTo(t, p) /\ (h.kind = "connect" => p \in {NoPeer, h.peer})
    BY <2>1, <1>1 DEF ConnectsTo
  <2>2. ASSUME ConnectsTo(t, p), h.kind = "connect" => p \in {NoPeer, h.peer},
               NEW i \in Pos(q), q[i].kind = "connect"
        PROVE  p \in {NoPeer, q[i].peer}
    BY <2>2, <1>1 DEF ConnectsTo
  <2>. QED
    BY <2>1, <2>2 DEF ConnectsTo
<1>4. EndsConnected(q) <=> IF t = << >> THEN h.kind = "connect" ELSE EndsConnected(t)
  BY <1>1 DEF EndsConnected
<1>. QED
  BY <1>2, <1>3, <1>4 DEF t, h

----------------------------------------------------------------------------
(* Types.                                                                  *)

TypeFlags ==
  /\ connected \in BOOLEAN /\ pending \in BOOLEAN /\ find_running \in BOOLEAN
  /\ pairing_active \in BOOLEAN /\ canceling \in BOOLEAN /\ muddled \in BOOLEAN
TypeMacs ==
  /\ saved_go \in GOs \union {NoPeer} /\ nvs \in GOs \union {NoPeer}
  /\ pending_go \in GOs \union {NoPeer} /\ target \in GOs \union {NoPeer}
TypeRest ==
  /\ sup \in {"idle", "joining", "up"} /\ group \in Peers \union {NoPeer}
  /\ click \in {"none", "ignored", "refused"}
  /\ retry \in {"no", "now", "soon", "timeout"}
  /\ call \in {"none", "disconnect", "find", "peers", "pair", "pair_accepted", "reconnect",
               "reconnect_accepted"}

LEMMA TypeParts ==
  TypeOK <=> events \in Seq(EventType) /\ budget \in 0 .. Budget /\ TypeFlags /\ TypeMacs /\ TypeRest
  BY Zenon DEF TypeOK, EventType, TypeFlags, TypeMacs, TypeRest

LEMMA TypePartsNext ==
  TypeOK' <=> /\ events' \in Seq(EventType) /\ budget' \in 0 .. Budget
              /\ TypeFlags' /\ TypeMacs' /\ TypeRest'
  BY Zenon DEF TypeOK, EventType, TypeFlags, TypeMacs, TypeRest

\* What a step may do to the queue.
QueueStep ==
  \/ UNCHANGED events
  \/ events' = << >>
  \/ events # << >> /\ events' = Tail(events)
  \/ \E e \in EventType : events' = Put(events, e)

LEMMA EventTyped ==
  ASSUME NEW k \in {"connect", "disconnect"}, NEW p \in Peers \union {NoPeer}
  PROVE  Event(k, p) \in EventType
  BY DEF Event, EventType

LEMMA QueueNext ==
  ASSUME TypeRest, [Next]_vars
  PROVE  QueueStep
<1>0. /\ Event("connect", group) \in EventType /\ Event("disconnect", NoPeer) \in EventType
  BY EventTyped DEF TypeRest
<1>1. CASE JoinSucceeds
  BY <1>1, <1>0 DEF JoinSucceeds, Post, supVars, QueueStep, Put
<1>2. CASE JoinFails
  BY <1>2, <1>0 DEF JoinFails, supVars, QueueStep, Put
<1>3. CASE GroupLost
  BY <1>3, <1>0 DEF GroupLost, Post, supVars, QueueStep, Put
<1>4. CASE LateDeauth
  BY <1>4, <1>0 DEF LateDeauth, Post, supVars, QueueStep, Put
<1>5. CASE ManualConnect
  BY <1>5, <1>0 DEF ManualConnect, supVars, QueueStep, Put
<1>6. CASE DoubleClick
  BY <1>6, <1>0 DEF DoubleClick, Resubmit, supVars, QueueStep, Put
<1>7. CASE HandleConnect
  BY <1>7, <1>0 DEF HandleConnect, OnConnectResult, supVars, QueueStep, Put
<1>8. CASE HandleDisconnect
  BY <1>8, <1>0 DEF HandleDisconnect, OnDisconnect, supVars, QueueStep, Put
<1>9. CASE RunConnected
  BY <1>9, <1>0 DEF RunConnected, Due, supVars, QueueStep, Put
<1>10. CASE RunPairing
  BY <1>10, <1>0 DEF RunPairing, Due, supVars, QueueStep, Put
<1>11. CASE RunReconnect
  BY <1>11, <1>0 DEF RunReconnect, Due, supVars, QueueStep, Put
<1>12. CASE FindReturns
  BY <1>12, <1>0 DEF FindReturns, Return, Reschedule, supVars, QueueStep, Put
<1>13. CASE PeersReturn
  BY <1>13, <1>0 DEF PeersReturn, SelectPeer, supVars, QueueStep, Put
<1>14. CASE PeersReturnNone
  BY <1>14, <1>0 DEF PeersReturnNone, Return, Reschedule, supVars, QueueStep, Put
<1>15. CASE ConnectAccepted
  BY <1>15, <1>0 DEF ConnectAccepted, supVars, QueueStep, Put
<1>16. CASE ConnectReturns
  BY <1>16, <1>0 DEF ConnectReturns, Return, Reschedule, supVars, QueueStep, Put
<1>17. CASE ConnectRefused
  BY <1>17, <1>0 DEF ConnectRefused, Return, Reschedule, supVars, QueueStep, Put
<1>18. CASE DisconnectReturns
  BY <1>18, <1>0 DEF DisconnectReturns, Return, Post, supVars, QueueStep, Put
<1>19. CASE Restart
  BY <1>19, <1>0 DEF Restart, supVars, QueueStep, Put
<1>20. CASE UNCHANGED vars
  BY <1>20, <1>0 DEF vars, supVars, QueueStep, Put
<1>. QED
  BY <1>1, <1>2, <1>3, <1>4, <1>5, <1>6, <1>7, <1>8, <1>9, <1>10, <1>11, <1>12, <1>13, <1>14, <1>15, <1>16, <1>17, <1>18, <1>19, <1>20 DEF Next, Engine

LEMMA BudgetNext ==
  ASSUME [Next]_vars
  PROVE  UNCHANGED budget \/ Disturb
<1>1. CASE JoinSucceeds
  BY <1>1 DEF JoinSucceeds, supVars
<1>2. CASE JoinFails
  BY <1>2 DEF JoinFails, supVars
<1>3. CASE GroupLost
  BY <1>3 DEF GroupLost, supVars
<1>4. CASE LateDeauth
  BY <1>4 DEF LateDeauth, supVars
<1>5. CASE ManualConnect
  BY <1>5 DEF ManualConnect, supVars
<1>6. CASE DoubleClick
  BY <1>6 DEF DoubleClick, Resubmit, supVars
<1>7. CASE HandleConnect
  BY <1>7 DEF HandleConnect, OnConnectResult, supVars
<1>8. CASE HandleDisconnect
  BY <1>8 DEF HandleDisconnect, OnDisconnect, supVars
<1>9. CASE RunConnected
  BY <1>9 DEF RunConnected, Due, supVars
<1>10. CASE RunPairing
  BY <1>10 DEF RunPairing, Due, supVars
<1>11. CASE RunReconnect
  BY <1>11 DEF RunReconnect, Due, supVars
<1>12. CASE FindReturns
  BY <1>12 DEF FindReturns, Return, Reschedule, supVars
<1>13. CASE PeersReturn
  BY <1>13 DEF PeersReturn, SelectPeer, supVars
<1>14. CASE PeersReturnNone
  BY <1>14 DEF PeersReturnNone, Return, Reschedule, supVars
<1>15. CASE ConnectAccepted
  BY <1>15 DEF ConnectAccepted, supVars
<1>16. CASE ConnectReturns
  BY <1>16 DEF ConnectReturns, Return, Reschedule, supVars
<1>17. CASE ConnectRefused
  BY <1>17 DEF ConnectRefused, Return, Reschedule, supVars
<1>18. CASE DisconnectReturns
  BY <1>18 DEF DisconnectReturns, Return, supVars
<1>19. CASE Restart
  BY <1>19 DEF Restart, supVars
<1>20. CASE UNCHANGED vars
  BY <1>20 DEF vars, supVars
<1>. QED
  BY <1>1, <1>2, <1>3, <1>4, <1>5, <1>6, <1>7, <1>8, <1>9, <1>10, <1>11, <1>12, <1>13, <1>14, <1>15, <1>16, <1>17, <1>18, <1>19, <1>20 DEF Next, Engine

LEMMA FlagsNext ==
  ASSUME TypeFlags, [Next]_vars
  PROVE  TypeFlags'
<1>1. CASE JoinSucceeds
  BY <1>1 DEF JoinSucceeds, TypeFlags, flags, worker
<1>2. CASE JoinFails
  BY <1>2 DEF JoinFails, TypeFlags, flags, worker
<1>3. CASE GroupLost
  BY <1>3 DEF GroupLost, TypeFlags, flags, worker
<1>4. CASE LateDeauth
  BY <1>4 DEF LateDeauth, TypeFlags, flags, worker
<1>5. CASE ManualConnect
  BY <1>5 DEF ManualConnect, TypeFlags, flags, worker
<1>6. CASE DoubleClick
  BY <1>6 DEF DoubleClick, TypeFlags, flags, worker
<1>7. CASE HandleConnect
  BY <1>7 DEF HandleConnect, OnConnectResult, TypeFlags, flags, worker
<1>8. CASE HandleDisconnect
  BY <1>8 DEF HandleDisconnect, OnDisconnect, TypeFlags, flags, worker
<1>9. CASE RunConnected
  BY <1>9 DEF RunConnected, Due, TypeFlags, flags, worker
<1>10. CASE RunPairing
  BY <1>10 DEF RunPairing, Due, TypeFlags, flags, worker
<1>11. CASE RunReconnect
  BY <1>11 DEF RunReconnect, Due, TypeFlags, flags, worker
<1>12. CASE FindReturns
  BY <1>12 DEF FindReturns, Return, TypeFlags, flags, worker
<1>13. CASE PeersReturn
  BY <1>13 DEF PeersReturn, TypeFlags, flags, worker
<1>14. CASE PeersReturnNone
  BY <1>14 DEF PeersReturnNone, Return, TypeFlags, flags, worker
<1>15. CASE ConnectAccepted
  BY <1>15 DEF ConnectAccepted, TypeFlags, flags, worker
<1>16. CASE ConnectReturns
  BY <1>16 DEF ConnectReturns, Return, TypeFlags, flags, worker
<1>17. CASE ConnectRefused
  BY <1>17 DEF ConnectRefused, Return, TypeFlags, flags, worker
<1>18. CASE DisconnectReturns
  BY <1>18 DEF DisconnectReturns, Return, TypeFlags, flags, worker
<1>19. CASE Restart
  BY <1>19 DEF Restart, TypeFlags, flags, worker
<1>20. CASE UNCHANGED vars
  BY <1>20 DEF vars, TypeFlags, flags, worker
<1>. QED
  BY <1>1, <1>2, <1>3, <1>4, <1>5, <1>6, <1>7, <1>8, <1>9, <1>10, <1>11, <1>12, <1>13, <1>14, <1>15, <1>16, <1>17, <1>18, <1>19, <1>20 DEF Next, Engine

LEMMA MacsNext ==
  ASSUME TypeMacs, [Next]_vars
  PROVE  TypeMacs'
<1>1. CASE JoinSucceeds
  BY <1>1 DEF JoinSucceeds, TypeMacs, macs, worker
<1>2. CASE JoinFails
  BY <1>2 DEF JoinFails, TypeMacs, macs, worker
<1>3. CASE GroupLost
  BY <1>3 DEF GroupLost, TypeMacs, macs, worker
<1>4. CASE LateDeauth
  BY <1>4 DEF LateDeauth, TypeMacs, macs, worker
<1>5. CASE ManualConnect
  BY <1>5 DEF ManualConnect, TypeMacs, macs, worker
<1>6. CASE DoubleClick
  BY <1>6 DEF DoubleClick, TypeMacs, macs, worker
<1>7. CASE HandleConnect
  BY <1>7 DEF HandleConnect, OnConnectResult, TypeMacs, macs, worker
<1>8. CASE HandleDisconnect
  BY <1>8 DEF HandleDisconnect, OnDisconnect, TypeMacs, macs, worker
<1>9. CASE RunConnected
  BY <1>9 DEF RunConnected, Due, TypeMacs, macs, worker
<1>10. CASE RunPairing
  BY <1>10 DEF RunPairing, Due, TypeMacs, macs, worker
<1>11. CASE RunReconnect
  BY <1>11 DEF RunReconnect, Due, TypeMacs, macs, worker
<1>12. CASE FindReturns
  BY <1>12 DEF FindReturns, Return, TypeMacs, macs, worker
<1>13. CASE PeersReturn
  BY <1>13 DEF PeersReturn, SelectPeer, TypeMacs, macs, worker
<1>14. CASE PeersReturnNone
  BY <1>14 DEF PeersReturnNone, Return, TypeMacs, macs, worker
<1>15. CASE ConnectAccepted
  BY <1>15 DEF ConnectAccepted, TypeMacs, macs, worker
<1>16. CASE ConnectReturns
  BY <1>16 DEF ConnectReturns, Return, TypeMacs, macs, worker
<1>17. CASE ConnectRefused
  BY <1>17 DEF ConnectRefused, Return, TypeMacs, macs, worker
<1>18. CASE DisconnectReturns
  BY <1>18 DEF DisconnectReturns, Return, TypeMacs, macs, worker
<1>19. CASE Restart
  BY <1>19 DEF Restart, TypeMacs, macs, worker
<1>20. CASE UNCHANGED vars
  BY <1>20 DEF vars, TypeMacs, macs, worker
<1>. QED
  BY <1>1, <1>2, <1>3, <1>4, <1>5, <1>6, <1>7, <1>8, <1>9, <1>10, <1>11, <1>12, <1>13, <1>14, <1>15, <1>16, <1>17, <1>18, <1>19, <1>20 DEF Next, Engine

LEMMA RestNext ==
  ASSUME TypeRest, TypeMacs, [Next]_vars
  PROVE  TypeRest'
<1>1. CASE JoinSucceeds
  BY <1>1 DEF JoinSucceeds, TypeRest, TypeMacs, supVars, worker, Peers
<1>2. CASE JoinFails
  BY <1>2 DEF JoinFails, TypeRest, TypeMacs, supVars, worker, Peers
<1>3. CASE GroupLost
  BY <1>3 DEF GroupLost, TypeRest, TypeMacs, supVars, worker, Peers
<1>4. CASE LateDeauth
  BY <1>4 DEF LateDeauth, TypeRest, TypeMacs, supVars, worker, Peers
<1>5. CASE ManualConnect
  BY <1>5 DEF ManualConnect, TypeRest, TypeMacs, supVars, worker, Peers
<1>6. CASE DoubleClick
  BY <1>6 DEF DoubleClick, Resubmit, TypeRest, TypeMacs, supVars, worker, Peers
<1>7. CASE HandleConnect
  BY <1>7 DEF HandleConnect, OnConnectResult, TypeRest, TypeMacs, supVars, worker, Peers
<1>8. CASE HandleDisconnect
  BY <1>8 DEF HandleDisconnect, OnDisconnect, TypeRest, TypeMacs, supVars, worker, Peers
<1>9. CASE RunConnected
  BY <1>9 DEF RunConnected, Due, TypeRest, TypeMacs, supVars, worker, Peers
<1>10. CASE RunPairing
  BY <1>10 DEF RunPairing, Due, TypeRest, TypeMacs, supVars, worker, Peers
<1>11. CASE RunReconnect
  BY <1>11 DEF RunReconnect, Due, TypeRest, TypeMacs, supVars, worker, Peers
<1>12. CASE FindReturns
  BY <1>12 DEF FindReturns, Return, Reschedule, TypeRest, TypeMacs, supVars, worker, Peers
<1>13. CASE PeersReturn
  BY <1>13 DEF PeersReturn, SelectPeer, TypeRest, TypeMacs, supVars, worker, Peers
<1>14. CASE PeersReturnNone
  BY <1>14 DEF PeersReturnNone, Return, Reschedule, TypeRest, TypeMacs, supVars, worker, Peers
<1>15. CASE ConnectAccepted
  BY <1>15 DEF ConnectAccepted, TypeRest, TypeMacs, supVars, worker, Peers
<1>16. CASE ConnectReturns
  BY <1>16 DEF ConnectReturns, Return, Reschedule, TypeRest, TypeMacs, supVars, worker, Peers
<1>17. CASE ConnectRefused
  BY <1>17 DEF ConnectRefused, Return, Reschedule, TypeRest, TypeMacs, supVars, worker, Peers
<1>18. CASE DisconnectReturns
  BY <1>18 DEF DisconnectReturns, Return, TypeRest, TypeMacs, supVars, worker, Peers
<1>19. CASE Restart
  BY <1>19 DEF Restart, TypeRest, TypeMacs, supVars, worker, Peers
<1>20. CASE UNCHANGED vars
  BY <1>20 DEF vars, TypeRest, TypeMacs, supVars, worker, Peers
<1>. QED
  BY <1>1, <1>2, <1>3, <1>4, <1>5, <1>6, <1>7, <1>8, <1>9, <1>10, <1>11, <1>12, <1>13, <1>14, <1>15, <1>16, <1>17, <1>18, <1>19, <1>20 DEF Next, Engine

LEMMA P2pTypeInit ==
  ASSUME Init
  PROVE  TypeOK
<1>1. events \in Seq(EventType) /\ budget \in 0 .. Budget
  BY P2pGcAssumption DEF Init
<1>2. TypeFlags /\ TypeMacs /\ TypeRest
  BY DEF Init, Started, TypeFlags, TypeMacs, TypeRest
<1>. QED
  BY <1>1, <1>2, TypeParts

LEMMA P2pTypeNext ==
  ASSUME TypeOK, [Next]_vars
  PROVE  TypeOK'
<1>0. events \in Seq(EventType) /\ budget \in 0 .. Budget /\ TypeFlags /\ TypeMacs /\ TypeRest
  BY TypeParts
<1>1. events' \in Seq(EventType)
  <2>1. QueueStep
    BY <1>0, QueueNext
  <2>2. << >> \in Seq(EventType)
    OBVIOUS
  <2>3. ASSUME events # << >> PROVE Tail(events) \in Seq(EventType)
    BY <1>0, <2>3, TailIs
  <2>4. ASSUME NEW e \in EventType PROVE Put(events, e) \in Seq(EventType)
    BY <1>0, PutIs
  <2>. QED
    BY <1>0, <2>1, <2>2, <2>3, <2>4, Zenon DEF QueueStep
<1>2. budget' \in 0 .. Budget
  BY <1>0, BudgetNext, P2pGcAssumption, SMT DEF Disturb
<1>3. TypeFlags' /\ TypeMacs' /\ TypeRest'
  BY <1>0, FlagsNext, MacsNext, RestNext
<1>. QED
  BY <1>1, <1>2, <1>3, TypePartsNext

----------------------------------------------------------------------------
(* The engine keeps its next step ahead of it.                             *)

LEMMA StepAheadNext ==
  ASSUME TypeFlags, TypeRest, StepAhead, [Next]_vars
  PROVE  StepAhead'
<1>1. CASE JoinSucceeds
  BY <1>1 DEF JoinSucceeds, StepAhead, TypeFlags, TypeRest, supVars, flags, macs, worker
<1>2. CASE JoinFails
  BY <1>2 DEF JoinFails, StepAhead, TypeFlags, TypeRest, supVars, flags, macs, worker
<1>3. CASE GroupLost
  BY <1>3 DEF GroupLost, StepAhead, TypeFlags, TypeRest, supVars, flags, macs, worker
<1>4. CASE LateDeauth
  BY <1>4 DEF LateDeauth, StepAhead, TypeFlags, TypeRest, supVars, flags, macs, worker
<1>5. CASE ManualConnect
  BY <1>5 DEF ManualConnect, StepAhead, TypeFlags, TypeRest, supVars, flags, macs, worker
<1>6. CASE DoubleClick
  BY <1>6 DEF DoubleClick, Resubmit, StepAhead, TypeFlags, TypeRest, supVars, flags, macs, worker
<1>7. CASE HandleConnect
  BY <1>7 DEF HandleConnect, OnConnectResult, StepAhead, TypeFlags, TypeRest, supVars, flags, macs, worker
<1>8. CASE HandleDisconnect
  BY <1>8 DEF HandleDisconnect, OnDisconnect, StepAhead, TypeFlags, TypeRest, supVars, flags, macs, worker
<1>9. CASE RunConnected
  BY <1>9 DEF RunConnected, Due, StepAhead, TypeFlags, TypeRest, supVars, flags, macs, worker
<1>10. CASE RunPairing
  BY <1>10 DEF RunPairing, Due, StepAhead, TypeFlags, TypeRest, supVars, flags, macs, worker
<1>11. CASE RunReconnect
  BY <1>11 DEF RunReconnect, Due, StepAhead, TypeFlags, TypeRest, supVars, flags, macs, worker
<1>12. CASE FindReturns
  BY <1>12 DEF FindReturns, Return, Reschedule, StepAhead, TypeFlags, TypeRest, supVars, flags, macs, worker
<1>13. CASE PeersReturn
  BY <1>13 DEF PeersReturn, StepAhead, TypeFlags, TypeRest, supVars, flags, macs, worker
<1>14. CASE PeersReturnNone
  BY <1>14 DEF PeersReturnNone, Return, Reschedule, StepAhead, TypeFlags, TypeRest, supVars, flags, macs, worker
<1>15. CASE ConnectAccepted
  BY <1>15 DEF ConnectAccepted, StepAhead, TypeFlags, TypeRest, supVars, flags, macs, worker
<1>16. CASE ConnectReturns
  BY <1>16 DEF ConnectReturns, Return, Reschedule, StepAhead, TypeFlags, TypeRest, supVars, flags, macs, worker
<1>17. CASE ConnectRefused
  BY <1>17 DEF ConnectRefused, Return, Reschedule, StepAhead, TypeFlags, TypeRest, supVars, flags, macs, worker
<1>18. CASE DisconnectReturns
  BY <1>18 DEF DisconnectReturns, Return, StepAhead, TypeFlags, TypeRest, supVars, flags, macs, worker
<1>19. CASE Restart
  BY <1>19 DEF Restart, StepAhead, TypeFlags, TypeRest, supVars, flags, macs, worker
<1>20. CASE UNCHANGED vars
  BY <1>20 DEF vars, StepAhead, TypeFlags, TypeRest, supVars, flags, macs, worker
<1>. QED
  BY <1>1, <1>2, <1>3, <1>4, <1>5, <1>6, <1>7, <1>8, <1>9, <1>10, <1>11, <1>12, <1>13, <1>14, <1>15, <1>16, <1>17, <1>18, <1>19, <1>20 DEF Next, Engine

----------------------------------------------------------------------------
(* The last event tells whether the device is in a group.                  *)

\* What the actions do to the queue, in terms of the lemmas above.
LEMMA Posted ==
  ASSUME TypeOK, NEW k \in {"connect", "disconnect"}, NEW p \in Peers \union {NoPeer},
         Post(Event(k, p))
  PROVE  /\ events' # << >>
         /\ EndsConnected(events') <=> k = "connect"
         /\ NoConnect(events') <=> NoConnect(events) /\ k # "connect"
         /\ \A x : ConnectsTo(events', x) <=> ConnectsTo(events, x) /\ (k = "connect" => x \in {NoPeer, p})
         /\ OneConnect(events) /\ (k = "connect" => NoConnect(events)) => OneConnect(events')
<1> DEFINE e == Event(k, p)
<1>1. e \in EventType /\ e.kind = k /\ e.peer = p
  BY DEF Event, EventType
<1>2. events \in Seq(EventType) /\ events' = Put(events, e)
  BY TypeParts DEF Post, Put
<1>. HIDE DEF e
<1>3. /\ NoConnect(Put(events, e)) <=> NoConnect(events) /\ k # "connect"
      /\ \A x : ConnectsTo(Put(events, e), x) <=> ConnectsTo(events, x) /\ (k = "connect" => x \in {NoPeer, p})
      /\ EndsConnected(Put(events, e)) <=> k = "connect"
  BY <1>1, <1>2, PutConnects
<1>4. Put(events, e) # << >>
  BY <1>1, <1>2, PutNotEmpty
<1>5. OneConnect(events) /\ (k = "connect" => NoConnect(events)) => OneConnect(Put(events, e))
  BY <1>1, <1>2, PutOne
<1>. QED
  BY <1>2, <1>3, <1>4, <1>5, Zenon

LEMMA Handled ==
  ASSUME TypeOK, events # << >>, events' = Tail(events)
  PROVE  /\ Head(events).kind \in {"connect", "disconnect"} /\ Head(events).peer \in Peers \union {NoPeer}
         /\ EndsConnected(events) <=>
              IF events' = << >> THEN Head(events).kind = "connect" ELSE EndsConnected(events')
         /\ NoConnect(events) <=> NoConnect(events') /\ Head(events).kind # "connect"
         /\ \A x : ConnectsTo(events, x) <=>
              ConnectsTo(events', x) /\ (Head(events).kind = "connect" => x \in {NoPeer, Head(events).peer})
         /\ OneConnect(events) => OneConnect(events') /\ (Head(events).kind = "connect" => NoConnect(events'))
<1>1. events \in Seq(EventType)
  BY TypeParts
<1>2. Head(events) \in EventType
  BY <1>1, TailIs
<1>3. Head(events).kind \in {"connect", "disconnect"} /\ Head(events).peer \in Peers \union {NoPeer}
  BY <1>2 DEF EventType
<1>. QED
  BY <1>1, <1>3, TailConnects, TailOne, Zenon

LEMMA LastTellsNext ==
  ASSUME TypeOK, LastTells, [Next]_vars
  PROVE  LastTells'
<1>0. TypeFlags /\ TypeRest /\ NoPeer \in Peers \union {NoPeer}
  BY TypeParts
<1>a. UNCHANGED events => (EndsConnected(events') <=> EndsConnected(events))
  OBVIOUS
<1>1. CASE JoinSucceeds
  BY <1>1, Posted, <1>0, <1>a DEF JoinSucceeds, LastTells, TypeFlags, TypeRest, supVars, flags, macs, worker
<1>2. CASE JoinFails
  BY <1>2, <1>0, <1>a DEF JoinFails, LastTells, TypeFlags, TypeRest, supVars, flags, macs, worker
<1>3. CASE GroupLost
  BY <1>3, Posted, <1>0, <1>a DEF GroupLost, LastTells, TypeFlags, TypeRest, supVars, flags, macs, worker
<1>4. CASE LateDeauth
  BY <1>4, Posted, <1>0, <1>a DEF LateDeauth, LastTells, TypeFlags, TypeRest, supVars, flags, macs, worker
<1>5. CASE ManualConnect
  BY <1>5, <1>0, <1>a DEF ManualConnect, LastTells, TypeFlags, TypeRest, supVars, flags, macs, worker
<1>6. CASE DoubleClick
  BY <1>6, <1>0, <1>a DEF DoubleClick, Resubmit, LastTells, TypeFlags, TypeRest, supVars, flags, macs, worker
<1>7. CASE HandleConnect
  BY <1>7, Handled, <1>0, <1>a DEF HandleConnect, OnConnectResult, LastTells, TypeFlags, TypeRest, supVars, flags, macs, worker
<1>8. CASE HandleDisconnect
  BY <1>8, Handled, <1>0, <1>a DEF HandleDisconnect, OnDisconnect, LastTells, TypeFlags, TypeRest, supVars, flags, macs, worker
<1>9. CASE RunConnected
  BY <1>9, <1>0, <1>a DEF RunConnected, Due, LastTells, TypeFlags, TypeRest, supVars, flags, macs, worker
<1>10. CASE RunPairing
  BY <1>10, <1>0, <1>a DEF RunPairing, Due, LastTells, TypeFlags, TypeRest, supVars, flags, macs, worker
<1>11. CASE RunReconnect
  BY <1>11, <1>0, <1>a DEF RunReconnect, Due, LastTells, TypeFlags, TypeRest, supVars, flags, macs, worker
<1>12. CASE FindReturns
  BY <1>12, <1>0, <1>a DEF FindReturns, Return, Reschedule, LastTells, TypeFlags, TypeRest, supVars, flags, macs, worker
<1>13. CASE PeersReturn
  BY <1>13, <1>0, <1>a DEF PeersReturn, LastTells, TypeFlags, TypeRest, supVars, flags, macs, worker
<1>14. CASE PeersReturnNone
  BY <1>14, <1>0, <1>a DEF PeersReturnNone, Return, Reschedule, LastTells, TypeFlags, TypeRest, supVars, flags, macs, worker
<1>15. CASE ConnectAccepted
  BY <1>15, <1>0, <1>a DEF ConnectAccepted, LastTells, TypeFlags, TypeRest, supVars, flags, macs, worker
<1>16. CASE ConnectReturns
  BY <1>16, <1>0, <1>a DEF ConnectReturns, Return, Reschedule, LastTells, TypeFlags, TypeRest, supVars, flags, macs, worker
<1>17. CASE ConnectRefused
  BY <1>17, <1>0, <1>a DEF ConnectRefused, Return, Reschedule, LastTells, TypeFlags, TypeRest, supVars, flags, macs, worker
<1>18. CASE DisconnectReturns
  BY <1>18, Posted, <1>0, <1>a DEF DisconnectReturns, Return, LastTells, TypeFlags, TypeRest, supVars, flags, macs, worker
<1>19. CASE Restart
  BY <1>19, <1>0, <1>a DEF Restart, LastTells, TypeFlags, TypeRest, supVars, flags, macs, worker
<1>20. CASE UNCHANGED vars
  BY <1>20, <1>0, <1>a DEF vars, LastTells, TypeFlags, TypeRest, supVars, flags, macs, worker
<1>. QED
  BY <1>1, <1>2, <1>3, <1>4, <1>5, <1>6, <1>7, <1>8, <1>9, <1>10, <1>11, <1>12, <1>13, <1>14, <1>15, <1>16, <1>17, <1>18, <1>19, <1>20 DEF Next, Engine

----------------------------------------------------------------------------
(* While joins end the way their requests expect.                          *)

LEMMA StaysMuddled ==
  ASSUME TypeFlags, [Next]_vars, muddled
  PROVE  muddled' \/ Restart
<1>1. CASE JoinSucceeds
  BY <1>1 DEF JoinSucceeds, TypeFlags
<1>2. CASE JoinFails
  BY <1>2 DEF JoinFails, TypeFlags
<1>3. CASE GroupLost
  BY <1>3 DEF GroupLost, TypeFlags
<1>4. CASE LateDeauth
  BY <1>4 DEF LateDeauth, TypeFlags
<1>5. CASE ManualConnect
  BY <1>5 DEF ManualConnect, TypeFlags
<1>6. CASE DoubleClick
  BY <1>6 DEF DoubleClick, TypeFlags
<1>7. CASE HandleConnect
  BY <1>7 DEF HandleConnect, TypeFlags
<1>8. CASE HandleDisconnect
  BY <1>8 DEF HandleDisconnect, TypeFlags
<1>9. CASE RunConnected
  BY <1>9 DEF RunConnected, Due, TypeFlags
<1>10. CASE RunPairing
  BY <1>10 DEF RunPairing, Due, TypeFlags
<1>11. CASE RunReconnect
  BY <1>11 DEF RunReconnect, Due, TypeFlags
<1>12. CASE FindReturns
  BY <1>12 DEF FindReturns, TypeFlags
<1>13. CASE PeersReturn
  BY <1>13 DEF PeersReturn, TypeFlags
<1>14. CASE PeersReturnNone
  BY <1>14 DEF PeersReturnNone, TypeFlags
<1>15. CASE ConnectAccepted
  BY <1>15 DEF ConnectAccepted, TypeFlags
<1>16. CASE ConnectReturns
  BY <1>16 DEF ConnectReturns, TypeFlags
<1>17. CASE ConnectRefused
  BY <1>17 DEF ConnectRefused, TypeFlags
<1>18. CASE DisconnectReturns
  BY <1>18 DEF DisconnectReturns, TypeFlags
<1>19. CASE Restart
  BY <1>19
<1>20. CASE UNCHANGED vars
  BY <1>20 DEF vars, TypeFlags
<1>. QED
  BY <1>1, <1>2, <1>3, <1>4, <1>5, <1>6, <1>7, <1>8, <1>9, <1>10, <1>11, <1>12, <1>13, <1>14, <1>15, <1>16, <1>17, <1>18, <1>19, <1>20 DEF Next, Engine

LEMMA InOrderNext ==
  ASSUME TypeOK, LastTells, InOrder, [Next]_vars, ~muddled'
  PROVE  InOrder'
<1>0. TypeFlags /\ TypeRest /\ NoPeer \in Peers \union {NoPeer}
  BY TypeParts
<1>a. UNCHANGED events => (NoConnect(events') <=> NoConnect(events)) /\ (OneConnect(events') <=> OneConnect(events))
  OBVIOUS
<1>b. NoConnect(<< >>) /\ OneConnect(<< >>)
  BY EmptyQueue
<1>1. CASE JoinSucceeds
  BY <1>1, Posted, <1>0, <1>a, <1>b DEF JoinSucceeds, InOrder, LastTells, Searching, Accepted, TypeFlags, TypeRest, supVars, flags, macs, worker
<1>2. CASE JoinFails
  BY <1>2, <1>0, <1>a, <1>b DEF JoinFails, InOrder, LastTells, Searching, Accepted, TypeFlags, TypeRest, supVars, flags, macs, worker
<1>3. CASE GroupLost
  BY <1>3, Posted, <1>0, <1>a, <1>b DEF GroupLost, InOrder, LastTells, Searching, Accepted, TypeFlags, TypeRest, supVars, flags, macs, worker
<1>4. CASE LateDeauth
  BY <1>4, Posted, <1>0, <1>a, <1>b DEF LateDeauth, InOrder, LastTells, Searching, Accepted, TypeFlags, TypeRest, supVars, flags, macs, worker
<1>5. CASE ManualConnect
  BY <1>5, <1>0, <1>a, <1>b DEF ManualConnect, InOrder, LastTells, Searching, Accepted, TypeFlags, TypeRest, supVars, flags, macs, worker
<1>6. CASE DoubleClick
  BY <1>6, <1>0, <1>a, <1>b DEF DoubleClick, Resubmit, InOrder, LastTells, Searching, Accepted, TypeFlags, TypeRest, supVars, flags, macs, worker
<1>7. CASE HandleConnect
  BY <1>7, Handled, <1>0, <1>a, <1>b DEF HandleConnect, OnConnectResult, InOrder, LastTells, Searching, Accepted, TypeFlags, TypeRest, supVars, flags, macs, worker
<1>8. CASE HandleDisconnect
  BY <1>8, Handled, <1>0, <1>a, <1>b DEF HandleDisconnect, OnDisconnect, InOrder, LastTells, Searching, Accepted, TypeFlags, TypeRest, supVars, flags, macs, worker
<1>9. CASE RunConnected
  BY <1>9, <1>0, <1>a, <1>b DEF RunConnected, Due, InOrder, LastTells, Searching, Accepted, TypeFlags, TypeRest, supVars, flags, macs, worker
<1>10. CASE RunPairing
  BY <1>10, <1>0, <1>a, <1>b DEF RunPairing, Due, InOrder, LastTells, Searching, Accepted, TypeFlags, TypeRest, supVars, flags, macs, worker
<1>11. CASE RunReconnect
  BY <1>11, <1>0, <1>a, <1>b DEF RunReconnect, Due, InOrder, LastTells, Searching, Accepted, TypeFlags, TypeRest, supVars, flags, macs, worker
<1>12. CASE FindReturns
  BY <1>12, <1>0, <1>a, <1>b DEF FindReturns, Return, Reschedule, InOrder, LastTells, Searching, Accepted, TypeFlags, TypeRest, supVars, flags, macs, worker
<1>13. CASE PeersReturn
  BY <1>13, <1>0, <1>a, <1>b DEF PeersReturn, InOrder, LastTells, Searching, Accepted, TypeFlags, TypeRest, supVars, flags, macs, worker
<1>14. CASE PeersReturnNone
  BY <1>14, <1>0, <1>a, <1>b DEF PeersReturnNone, Return, Reschedule, InOrder, LastTells, Searching, Accepted, TypeFlags, TypeRest, supVars, flags, macs, worker
<1>15. CASE ConnectAccepted
  BY <1>15, <1>0, <1>a, <1>b DEF ConnectAccepted, InOrder, LastTells, Searching, Accepted, TypeFlags, TypeRest, supVars, flags, macs, worker
<1>16. CASE ConnectReturns
  BY <1>16, <1>0, <1>a, <1>b DEF ConnectReturns, Return, Reschedule, InOrder, LastTells, Searching, Accepted, TypeFlags, TypeRest, supVars, flags, macs, worker
<1>17. CASE ConnectRefused
  BY <1>17, <1>0, <1>a, <1>b DEF ConnectRefused, Return, Reschedule, InOrder, LastTells, Searching, Accepted, TypeFlags, TypeRest, supVars, flags, macs, worker
<1>18. CASE DisconnectReturns
  BY <1>18, Posted, <1>0, <1>a, <1>b DEF DisconnectReturns, Return, InOrder, LastTells, Searching, Accepted, TypeFlags, TypeRest, supVars, flags, macs, worker
<1>19. CASE Restart
  BY <1>19, <1>0, <1>a, <1>b DEF Restart, InOrder, LastTells, Searching, Accepted, TypeFlags, TypeRest, supVars, flags, macs, worker
<1>20. CASE UNCHANGED vars
  BY <1>20, <1>0, <1>a, <1>b DEF vars, InOrder, LastTells, Searching, Accepted, TypeFlags, TypeRest, supVars, flags, macs, worker
<1>. QED
  BY <1>1, <1>2, <1>3, <1>4, <1>5, <1>6, <1>7, <1>8, <1>9, <1>10, <1>11, <1>12, <1>13, <1>14, <1>15, <1>16, <1>17, <1>18, <1>19, <1>20 DEF Next, Engine

LEMMA LearningNext ==
  ASSUME TypeOK, InOrder, Learning, [Next]_vars, ~muddled'
  PROVE  Learning'
<1>0. TypeFlags /\ TypeRest /\ TypeMacs /\ NoPeer \in Peers \union {NoPeer}
  BY TypeParts
<1>a. UNCHANGED events => \A x : ConnectsTo(events', x) <=> ConnectsTo(events, x)
  OBVIOUS
<1>b. \A q : ConnectsTo(q, NoPeer) /\ (NoConnect(q) => \A x : ConnectsTo(q, x))
  BY ConnectsToAny, Zenon
<1>c. NoConnect(<< >>)
  BY EmptyQueue
<1>1. CASE JoinSucceeds
  BY <1>1, Posted, <1>0, <1>a, <1>b, <1>c DEF JoinSucceeds, Learning, InOrder, Searching, Accepted, TypeFlags, TypeRest, TypeMacs, supVars, flags, macs, worker
<1>2. CASE JoinFails
  BY <1>2, <1>0, <1>a, <1>b, <1>c DEF JoinFails, Learning, InOrder, Searching, Accepted, TypeFlags, TypeRest, TypeMacs, supVars, flags, macs, worker
<1>3. CASE GroupLost
  BY <1>3, Posted, <1>0, <1>a, <1>b, <1>c DEF GroupLost, Learning, InOrder, Searching, Accepted, TypeFlags, TypeRest, TypeMacs, supVars, flags, macs, worker
<1>4. CASE LateDeauth
  BY <1>4, Posted, <1>0, <1>a, <1>b, <1>c DEF LateDeauth, Learning, InOrder, Searching, Accepted, TypeFlags, TypeRest, TypeMacs, supVars, flags, macs, worker
<1>5. CASE ManualConnect
  BY <1>5, <1>0, <1>a, <1>b, <1>c DEF ManualConnect, Learning, InOrder, Searching, Accepted, TypeFlags, TypeRest, TypeMacs, supVars, flags, macs, worker
<1>6. CASE DoubleClick
  BY <1>6, <1>0, <1>a, <1>b, <1>c DEF DoubleClick, Resubmit, Learning, InOrder, Searching, Accepted, TypeFlags, TypeRest, TypeMacs, supVars, flags, macs, worker
<1>7. CASE HandleConnect
  BY <1>7, Handled, <1>0, <1>a, <1>b, <1>c DEF HandleConnect, OnConnectResult, Learning, InOrder, Searching, Accepted, TypeFlags, TypeRest, TypeMacs, supVars, flags, macs, worker
<1>8. CASE HandleDisconnect
  BY <1>8, Handled, <1>0, <1>a, <1>b, <1>c DEF HandleDisconnect, OnDisconnect, Learning, InOrder, Searching, Accepted, TypeFlags, TypeRest, TypeMacs, supVars, flags, macs, worker
<1>9. CASE RunConnected
  BY <1>9, <1>0, <1>a, <1>b, <1>c DEF RunConnected, Due, Learning, InOrder, Searching, Accepted, TypeFlags, TypeRest, TypeMacs, supVars, flags, macs, worker
<1>10. CASE RunPairing
  BY <1>10, <1>0, <1>a, <1>b, <1>c DEF RunPairing, Due, Learning, InOrder, Searching, Accepted, TypeFlags, TypeRest, TypeMacs, supVars, flags, macs, worker
<1>11. CASE RunReconnect
  BY <1>11, <1>0, <1>a, <1>b, <1>c DEF RunReconnect, Due, Learning, InOrder, Searching, Accepted, TypeFlags, TypeRest, TypeMacs, supVars, flags, macs, worker
<1>12. CASE FindReturns
  BY <1>12, <1>0, <1>a, <1>b, <1>c DEF FindReturns, Return, Reschedule, Learning, InOrder, Searching, Accepted, TypeFlags, TypeRest, TypeMacs, supVars, flags, macs, worker
<1>13. CASE PeersReturn
  BY <1>13, <1>0, <1>a, <1>b, <1>c DEF PeersReturn, SelectPeer, Learning, InOrder, Searching, Accepted, TypeFlags, TypeRest, TypeMacs, supVars, flags, macs, worker
<1>14. CASE PeersReturnNone
  BY <1>14, <1>0, <1>a, <1>b, <1>c DEF PeersReturnNone, Return, Reschedule, Learning, InOrder, Searching, Accepted, TypeFlags, TypeRest, TypeMacs, supVars, flags, macs, worker
<1>15. CASE ConnectAccepted
  BY <1>15, <1>0, <1>a, <1>b, <1>c DEF ConnectAccepted, Learning, InOrder, Searching, Accepted, TypeFlags, TypeRest, TypeMacs, supVars, flags, macs, worker
<1>16. CASE ConnectReturns
  BY <1>16, <1>0, <1>a, <1>b, <1>c DEF ConnectReturns, Return, Reschedule, Learning, InOrder, Searching, Accepted, TypeFlags, TypeRest, TypeMacs, supVars, flags, macs, worker
<1>17. CASE ConnectRefused
  BY <1>17, <1>0, <1>a, <1>b, <1>c DEF ConnectRefused, Return, Reschedule, Learning, InOrder, Searching, Accepted, TypeFlags, TypeRest, TypeMacs, supVars, flags, macs, worker
<1>18. CASE DisconnectReturns
  BY <1>18, Posted, <1>0, <1>a, <1>b, <1>c DEF DisconnectReturns, Return, Learning, InOrder, Searching, Accepted, TypeFlags, TypeRest, TypeMacs, supVars, flags, macs, worker
<1>19. CASE Restart
  BY <1>19, <1>0, <1>a, <1>b, <1>c DEF Restart, Learning, InOrder, Searching, Accepted, TypeFlags, TypeRest, TypeMacs, supVars, flags, macs, worker
<1>20. CASE UNCHANGED vars
  BY <1>20, <1>0, <1>a, <1>b, <1>c DEF vars, Learning, InOrder, Searching, Accepted, TypeFlags, TypeRest, TypeMacs, supVars, flags, macs, worker
<1>. QED
  BY <1>1, <1>2, <1>3, <1>4, <1>5, <1>6, <1>7, <1>8, <1>9, <1>10, <1>11, <1>12, <1>13, <1>14, <1>15, <1>16, <1>17, <1>18, <1>19, <1>20 DEF Next, Engine

----------------------------------------------------------------------------
(* The invariant.                                                          *)

LEMMA P2pInit ==
  ASSUME Init
  PROVE  P2pInv
<1>1. TypeOK
  BY P2pTypeInit
<1>2. StepAhead /\ LastTells
  BY DEF Init, Started, StepAhead, LastTells
<1>3. InOrder
  BY EmptyQueue DEF Init, Started, InOrder, Searching, Accepted
<1>4. Learning
  BY EmptyQueue, ConnectsToAny DEF Init, Started, Learning
<1>. QED
  BY <1>1, <1>2, <1>3, <1>4 DEF P2pInv

LEMMA P2pNext ==
  ASSUME P2pInv, [Next]_vars
  PROVE  P2pInv'
<1>1. TypeOK /\ TypeFlags /\ TypeRest /\ StepAhead /\ LastTells
  BY TypeParts DEF P2pInv
<1>2. TypeOK' /\ StepAhead' /\ LastTells'
  BY <1>1, P2pTypeNext, StepAheadNext, LastTellsNext
<1>3. ASSUME ~muddled' PROVE InOrder' /\ Learning'
  <2>1. CASE Restart
    <3>1. /\ events' = << >> /\ sup' = "idle" /\ connected' = FALSE /\ pending' = FALSE
          /\ find_running' = FALSE /\ pairing_active' = FALSE /\ pending_go' = NoPeer
          /\ canceling' = FALSE /\ call' = "none"
      BY <2>1 DEF Restart
    <3>2. NoConnect(events') /\ OneConnect(events') /\ ConnectsTo(events', NoPeer)
      BY <3>1, EmptyQueue, ConnectsToAny
    <3>3. InOrder'
      BY <3>1, <3>2 DEF InOrder, Searching, Accepted
    <3>4. Learning'
      BY <3>1, <3>2 DEF Learning
    <3>. QED
      BY <3>3, <3>4
  <2>2. CASE ~Restart
    <3>1. ~muddled
      BY <1>1, <1>3, <2>2, StaysMuddled
    <3>2. InOrder /\ Learning
      BY <3>1 DEF P2pInv
    <3>. QED
      BY <1>1, <1>3, <3>2, InOrderNext, LearningNext
  <2>. QED
    BY <2>1, <2>2
<1>. QED
  BY <1>2, <1>3 DEF P2pInv

\* The inductive invariant: what the engine and the event thread rely on.
THEOREM P2pInvariant == Spec => []P2pInv
<1>1. Init => P2pInv
  BY P2pInit
<1>2. P2pInv /\ [Next]_vars => P2pInv'
  BY P2pNext
<1>. QED
  BY <1>1, <1>2, PTL DEF Spec

\* The variables keep their types; what is learnt is a group owner's MAC.
THEOREM P2pTypeCorrect == Spec => []TypeOK
<1>1. P2pInv => TypeOK
  BY DEF P2pInv
<1>. QED
  BY <1>1, P2pInvariant, PTL

\* A client that is not connected and has a group owner to return to or a
\* pairing to finish has its next step ahead of it (p2p_gc_do_connect's
\* reschedules, unless the workqueue refused a double-click's submit).
THEOREM RetryPendingHolds == Spec => []RetryPending
<1>1. P2pInv => RetryPending
  <2>. SUFFICES ASSUME P2pInv, ~connected, click # "refused", saved_go # NoPeer \/ pairing_active
                PROVE  retry # "no" \/ call # "none"
    BY DEF RetryPending
  <2>. QED
    BY DEF P2pInv, StepAhead
<1>. QED
  BY <1>1, P2pInvariant, PTL

\* With every event handled, p2p_gc_connected says whether the device is in a
\* group, whatever was lost, refused or reordered before.
THEOREM BelievesGroupHolds == Spec => []BelievesGroup
<1>1. P2pInv => BelievesGroup
  BY DEF P2pInv, LastTells, BelievesGroup
<1>. QED
  BY <1>1, P2pInvariant, PTL

\* Unless a join outlived its request or a disconnect was refused, a connected
\* engine at rest accepts a double-click (p2p_gc_start_pairing_internal).
THEOREM RepairableInOrderHolds == Spec => []RepairableInOrder
<1>1. P2pInv => RepairableInOrder
  <2>. SUFFICES ASSUME P2pInv, ~muddled, connected, retry = "no", call = "none", events = << >>
                PROVE  ~pairing_active /\ ~find_running /\ ~pending
    BY DEF RepairableInOrder, Repairable
  <2>1. TypeFlags /\ InOrder /\ sup = "up"
    BY TypeParts DEF P2pInv, LastTells
  <2>. QED
    BY <2>1 DEF InOrder, TypeFlags
<1>. QED
  BY <1>1, P2pInvariant, PTL

\* A connection changes the saved group owner only to the one it is to
\* (wifi_p2p_gc_on_connect_result), unless a join outlived its request, a
\* disconnect was refused or the user connected in the shell.
THEOREM SavesJoinedHolds == Spec => SavesJoined
<1> DEFINE Joined == events # <<>> /\ Head(events).kind = "connect" /\ events' = Tail(events)
                       /\ connected' /\ ~muddled
           Saved == saved_go' \in {saved_go, Head(events).peer}
<1>1. ASSUME P2pInv, [Next]_vars, Joined PROVE Saved
  <2>1. TypeOK /\ TypeMacs /\ Learning /\ events \in Seq(EventType)
    BY <1>1, TypeParts DEF P2pInv
  <2>2. CASE HandleConnect
    <3>1. ConnectsTo(events, pending_go)
      BY <2>1 DEF Learning
    <3>2. pending_go \in {NoPeer, Head(events).peer}
      BY <1>1, <2>1, <3>1, Handled
    <3>. QED
      BY <2>2, <3>2 DEF HandleConnect, OnConnectResult
  <2>3. CASE Restart
    BY <1>1, <2>3 DEF Restart
  <2>4. CASE ~HandleConnect /\ ~Restart
    <3>1. UNCHANGED saved_go
      BY <1>1, <2>4 DEF Next, Engine, vars, macs, supVars, flags,
         JoinSucceeds, JoinFails, GroupLost, LateDeauth, ManualConnect, DoubleClick, HandleDisconnect,
         RunConnected, RunPairing, RunReconnect, FindReturns, PeersReturn, PeersReturnNone,
         ConnectAccepted, ConnectReturns, ConnectRefused, DisconnectReturns
    <3>. QED
      BY <3>1
  <2>. QED
    BY <2>2, <2>3, <2>4
<1>2. P2pInv /\ [Next]_vars => [Joined => Saved]_vars
  BY <1>1
<1>. QED
  BY <1>2, P2pInvariant, PTL DEF Spec, SavesJoined
=============================================================================
