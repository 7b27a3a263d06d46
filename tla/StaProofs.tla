----------------------------- MODULE StaProofs ------------------------------
(***************************************************************************)
(* Proofs about Sta and StaBle, for any number of addresses, faults,       *)
(* disturbances and any length of the event queue.                         *)
(*                                                                         *)
(* What the handlers believe lags behind the link by the events that still *)
(* wait, so the inductive invariant is about those: which of them must     *)
(* still follow, or must have come before, another.  Nothing is said of    *)
(* the last event of a kind, only that a later one exists.                 *)
(***************************************************************************)
EXTENDS StaBle, SequenceTheorems, TLAPS

(* Orders in a queue.                                                      *)

Pos(q) == 1 .. Len(q)

Has(q, A) == \E i \in Pos(q) : q[i] \in A

\* Behind every element of A there is one of B.
Followed(q, A, B) == \A i \in Pos(q) : q[i] \in A => \E j \in Pos(q) : i < j /\ q[j] \in B

\* Before every element of A there is one of B.
Preceded(q, A, B) == \A i \in Pos(q) : q[i] \in A => \E j \in Pos(q) : j < i /\ q[j] \in B

\* Between any element of A and a later one of C there is one of B.
Separated(q, A, C, B) ==
  \A i \in Pos(q) : \A j \in Pos(q) :
    i < j /\ q[i] \in A /\ q[j] \in C => \E k \in Pos(q) : i < k /\ k < j /\ q[k] \in B

\* Append, under a name of its own: what the proofs need is in the next lemmas.
Put(q, e) == Append(q, e)

LEMMA PutIs ==
  ASSUME NEW S, NEW q \in Seq(S), NEW e \in S
  PROVE  /\ Put(q, e) \in Seq(S)
         /\ Len(q) \in Nat /\ Len(Put(q, e)) = Len(q) + 1
         /\ Put(q, e)[Len(q) + 1] = e /\ Len(q) + 1 \in Pos(Put(q, e))
         /\ \A i \in Pos(Put(q, e)) : i \in Pos(q) \/ i = Len(q) + 1
  BY SMT DEF Pos, Put

LEMMA PutOld ==
  ASSUME NEW S, NEW q \in Seq(S), NEW e \in S, NEW i \in Pos(q)
  PROVE  i \in Pos(Put(q, e)) /\ Put(q, e)[i] = q[i]
  BY SMT DEF Pos, Put

LEMMA TailIs ==
  ASSUME NEW S, NEW q \in Seq(S), q # << >>
  PROVE  /\ Tail(q) \in Seq(S) /\ Len(q) \in Nat /\ Len(q) >= 1
         /\ Head(q) = q[1] /\ 1 \in Pos(q) /\ q[1] \in S
         /\ Len(Tail(q)) = Len(q) - 1
         /\ \A i \in Pos(Tail(q)) : i + 1 \in Pos(q) /\ Tail(q)[i] = q[i + 1]
         /\ \A i \in Pos(q) : i = 1 \/ (i - 1 \in Pos(Tail(q)) /\ Tail(q)[i - 1] = q[i])
  BY SMT DEF Pos

LEMMA HasPut ==
  ASSUME NEW S, NEW q \in Seq(S), NEW e \in S, NEW A
  PROVE  Has(Put(q, e), A) <=> Has(q, A) \/ e \in A
<1> DEFINE r == Put(q, e)
<1>1. \A i \in Pos(q) : i \in Pos(r) /\ r[i] = q[i]
  BY PutOld
<1>2. r[Len(q) + 1] = e /\ Len(q) + 1 \in Pos(r)
  BY PutIs
<1>3. \A i \in Pos(r) : i \in Pos(q) \/ i = Len(q) + 1
  BY PutIs
<1>. HIDE DEF r
<1>. QED
  BY <1>1, <1>2, <1>3 DEF Has, r

LEMMA HasTail ==
  ASSUME NEW S, NEW q \in Seq(S), q # << >>, NEW A
  PROVE  Has(q, A) <=> Has(Tail(q), A) \/ Head(q) \in A
<1>1. ASSUME Has(q, A), Head(q) \notin A PROVE Has(Tail(q), A)
  <2>1. PICK i \in Pos(q) : q[i] \in A
    BY <1>1 DEF Has
  <2>2. i # 1
    BY <1>1, <2>1, TailIs
  <2>3. i - 1 \in Pos(Tail(q)) /\ Tail(q)[i - 1] = q[i]
    BY <2>2, TailIs
  <2>. QED
    BY <2>1, <2>3 DEF Has
<1>2. ASSUME Has(Tail(q), A) PROVE Has(q, A)
  BY <1>2, TailIs DEF Has
<1>3. ASSUME Head(q) \in A PROVE Has(q, A)
  BY <1>3, TailIs DEF Has
<1>. QED
  BY <1>1, <1>2, <1>3

LEMMA HasSub ==
  ASSUME NEW q, NEW A, NEW B, Has(q, A), A \subseteq B
  PROVE  Has(q, B)
  BY DEF Has

LEMMA FollowedSub ==
  ASSUME NEW q, NEW A, NEW B, NEW C, NEW D, Followed(q, A, B), C \subseteq A, B \subseteq D
  PROVE  Followed(q, C, D)
  BY DEF Followed

LEMMA FollowedPut ==
  ASSUME NEW S, NEW q \in Seq(S), NEW e \in S, NEW A, NEW B, e \notin A,
         e \in B \/ Followed(q, A, B)
  PROVE  Followed(Put(q, e), A, B)
<1>. SUFFICES ASSUME NEW i \in Pos(Put(q, e)), Put(q, e)[i] \in A
              PROVE  \E j \in Pos(Put(q, e)) : i < j /\ Put(q, e)[j] \in B
  BY DEF Followed
<1>1. i \in Pos(q) /\ q[i] \in A /\ i < Len(q) + 1
  <2>1. i \in Pos(q)
    BY PutIs
  <2>2. q[i] \in A
    BY <2>1, PutOld
  <2>. QED
    BY <2>1, <2>2, PutIs, SMT DEF Pos
<1>2. CASE e \in B
  <2>1. Len(q) + 1 \in Pos(Put(q, e)) /\ Put(q, e)[Len(q) + 1] = e
    BY PutIs
  <2>. QED
    BY <1>1, <1>2, <2>1
<1>3. CASE Followed(q, A, B)
  <2>1. PICK j \in Pos(q) : i < j /\ q[j] \in B
    BY <1>1, <1>3 DEF Followed
  <2>2. j \in Pos(Put(q, e)) /\ Put(q, e)[j] = q[j]
    BY PutOld
  <2>. QED
    BY <2>1, <2>2
<1>. QED
  BY <1>2, <1>3

LEMMA FollowedTail ==
  ASSUME NEW S, NEW q \in Seq(S), q # << >>, NEW A, NEW B, Followed(q, A, B)
  PROVE  /\ Followed(Tail(q), A, B)
         /\ Head(q) \in A => Has(Tail(q), B)
<1>1. Followed(Tail(q), A, B)
  <2>. SUFFICES ASSUME NEW i \in Pos(Tail(q)), Tail(q)[i] \in A
                PROVE  \E j \in Pos(Tail(q)) : i < j /\ Tail(q)[j] \in B
    BY DEF Followed
  <2>1. i + 1 \in Pos(q) /\ q[i + 1] \in A
    BY TailIs
  <2>2. PICK j \in Pos(q) : i + 1 < j /\ q[j] \in B
    BY <2>1 DEF Followed
  <2>3. j # 1 /\ i < j - 1
    BY <2>2, SMT DEF Pos
  <2>4. j - 1 \in Pos(Tail(q)) /\ Tail(q)[j - 1] = q[j]
    BY <2>3, TailIs
  <2>. QED
    BY <2>2, <2>3, <2>4
<1>2. ASSUME Head(q) \in A PROVE Has(Tail(q), B)
  <2>1. PICK j \in Pos(q) : 1 < j /\ q[j] \in B
    BY <1>2, TailIs DEF Followed
  <2>2. j # 1
    BY <2>1, SMT DEF Pos
  <2>. QED
    BY <2>1, <2>2, TailIs DEF Has
<1>. QED
  BY <1>1, <1>2

LEMMA PrecededPut ==
  ASSUME NEW S, NEW q \in Seq(S), NEW e \in S, NEW A, NEW B, Preceded(q, A, B),
         e \in A => Has(q, B)
  PROVE  Preceded(Put(q, e), A, B)
<1>. SUFFICES ASSUME NEW i \in Pos(Put(q, e)), Put(q, e)[i] \in A
              PROVE  \E j \in Pos(Put(q, e)) : j < i /\ Put(q, e)[j] \in B
  BY DEF Preceded
<1>1. CASE i \in Pos(q)
  <2>1. PICK j \in Pos(q) : j < i /\ q[j] \in B
    BY <1>1, PutOld DEF Preceded
  <2>2. j \in Pos(Put(q, e)) /\ Put(q, e)[j] = q[j]
    BY PutOld
  <2>. QED
    BY <2>1, <2>2
<1>2. CASE i = Len(q) + 1
  <2>1. PICK j \in Pos(q) : q[j] \in B
    <3>1. e \in A
      BY <1>2, PutIs
    <3>. QED
      BY <3>1 DEF Has
  <2>2. j < i
    BY <1>2, SMT DEF Pos
  <2>3. j \in Pos(Put(q, e)) /\ Put(q, e)[j] = q[j]
    BY PutOld
  <2>. QED
    BY <2>1, <2>2, <2>3
<1>. QED
  BY <1>1, <1>2, PutIs

LEMMA PrecededTail ==
  ASSUME NEW S, NEW q \in Seq(S), q # << >>, NEW A, NEW B, Preceded(q, A, B)
  PROVE  /\ Head(q) \notin A
         /\ Head(q) \notin B => Preceded(Tail(q), A, B)
<1>1. Head(q) \notin A
  BY TailIs, SMT DEF Preceded, Pos
<1>2. ASSUME Head(q) \notin B PROVE Preceded(Tail(q), A, B)
  <2>. SUFFICES ASSUME NEW i \in Pos(Tail(q)), Tail(q)[i] \in A
                PROVE  \E j \in Pos(Tail(q)) : j < i /\ Tail(q)[j] \in B
    BY DEF Preceded
  <2>1. i + 1 \in Pos(q) /\ q[i + 1] \in A
    BY TailIs
  <2>2. PICK j \in Pos(q) : j < i + 1 /\ q[j] \in B
    BY <2>1 DEF Preceded
  <2>3. j # 1
    BY <1>2, <2>2, TailIs
  <2>4. j - 1 < i
    BY <2>2, SMT DEF Pos
  <2>. QED
    BY <2>2, <2>3, <2>4, TailIs
<1>. QED
  BY <1>1, <1>2

LEMMA SeparatedPut ==
  ASSUME NEW S, NEW q \in Seq(S), NEW e \in S, NEW A, NEW B, NEW C, Separated(q, A, C, B),
         e \in C => Followed(q, A, B)
  PROVE  Separated(Put(q, e), A, C, B)
<1> DEFINE r == Put(q, e)
<1>. SUFFICES ASSUME NEW i \in Pos(r), NEW j \in Pos(r), i < j, r[i] \in A, r[j] \in C
              PROVE  \E k \in Pos(r) : i < k /\ k < j /\ r[k] \in B
  BY DEF Separated
<1>1. i \in Pos(q) /\ q[i] \in A
  <2>1. i # Len(q) + 1
    BY PutIs, SMT DEF Pos
  <2>2. i \in Pos(q)
    BY <2>1, PutIs
  <2>. QED
    BY <2>2, PutOld
<1>2. CASE j \in Pos(q)
  <2>1. PICK k \in Pos(q) : i < k /\ k < j /\ q[k] \in B
    BY <1>1, <1>2, PutOld DEF Separated
  <2>2. k \in Pos(r) /\ r[k] = q[k]
    BY PutOld
  <2>. QED
    BY <2>1, <2>2
<1>3. CASE j = Len(q) + 1
  <2>1. PICK k \in Pos(q) : i < k /\ q[k] \in B
    BY <1>1, <1>3, PutIs DEF Followed
  <2>2. k < j
    BY <1>3, SMT DEF Pos
  <2>3. k \in Pos(r) /\ r[k] = q[k]
    BY PutOld
  <2>. QED
    BY <2>1, <2>2, <2>3
<1>. QED
  BY <1>2, <1>3, PutIs

LEMMA SeparatedTail ==
  ASSUME NEW S, NEW q \in Seq(S), q # << >>, NEW A, NEW B, NEW C, Separated(q, A, C, B)
  PROVE  /\ Separated(Tail(q), A, C, B)
         /\ Head(q) \in A => Preceded(Tail(q), C, B)
<1>1. Separated(Tail(q), A, C, B)
  <2>. SUFFICES ASSUME NEW i \in Pos(Tail(q)), NEW j \in Pos(Tail(q)), i < j,
                       Tail(q)[i] \in A, Tail(q)[j] \in C
                PROVE  \E k \in Pos(Tail(q)) : i < k /\ k < j /\ Tail(q)[k] \in B
    BY DEF Separated
  <2>1. /\ i + 1 \in Pos(q) /\ q[i + 1] \in A /\ j + 1 \in Pos(q) /\ q[j + 1] \in C
        /\ i + 1 < j + 1
    BY TailIs, SMT DEF Pos
  <2>2. PICK k \in Pos(q) : i + 1 < k /\ k < j + 1 /\ q[k] \in B
    BY <2>1 DEF Separated
  <2>3. k # 1 /\ i < k - 1 /\ k - 1 < j
    BY <2>2, SMT DEF Pos
  <2>. QED
    BY <2>2, <2>3, TailIs
<1>2. ASSUME Head(q) \in A PROVE Preceded(Tail(q), C, B)
  <2>. SUFFICES ASSUME NEW i \in Pos(Tail(q)), Tail(q)[i] \in C
                PROVE  \E j \in Pos(Tail(q)) : j < i /\ Tail(q)[j] \in B
    BY DEF Preceded
  <2>1. i + 1 \in Pos(q) /\ q[i + 1] \in C /\ 1 \in Pos(q) /\ q[1] \in A /\ 1 < i + 1
    BY <1>2, TailIs, SMT DEF Pos
  <2>2. PICK k \in Pos(q) : 1 < k /\ k < i + 1 /\ q[k] \in B
    BY <2>1 DEF Separated
  <2>3. k # 1 /\ k - 1 < i
    BY <2>2, SMT DEF Pos
  <2>. QED
    BY <2>2, <2>3, TailIs
<1>. QED
  BY <1>1, <1>2

\* What the link adds to the queue: one event or two.
LEMMA PostOne ==
  ASSUME NEW S, NEW q \in Seq(S), NEW e \in S
  PROVE  q \o << e >> = Put(q, e)
  BY SMT DEF Put

Two(d, e) == << d >> \o << e >>

LEMMA PostTwo ==
  ASSUME NEW S, NEW q \in Seq(S), NEW d \in S, NEW e \in S
  PROVE  q \o Two(d, e) = Put(Put(q, d), e)
<1>1. << d >> \in Seq(S) /\ << e >> \in Seq(S)
  BY SMT
<1>2. q \o (<< d >> \o << e >>) = (q \o << d >>) \o << e >>
  BY <1>1, ConcatAssociative
<1>3. q \o << d >> = Put(q, d) /\ Put(q, d) \in Seq(S)
  BY PostOne, PutIs
<1>. QED
  BY <1>2, <1>3, PostOne DEF Two

----------------------------------------------------------------------------
(* Events.                                                                 *)

Of(k) == { e \in EventType : e.kind = k }

Drops  == Of("disconnect")
Dels   == Of("addr_del")
Bounds == Of("bound")
Readys == Of("ready")
Joins  == { e \in Of("connect") : e.arg = 0 }
Fails  == { e \in Of("connect") : e.arg # 0 }

\* Leases that are not the interface's.
Stale(a) == { e \in Bounds : e.arg # a }

LEMMA EventIs == \A k, a : Event(k, a).kind = k /\ Event(k, a).arg = a
  BY DEF Event

LEMMA EventsAre ==
  /\ Event("ready", 0) \in EventType /\ Event("scan_done", 0) \in EventType
  /\ Event("addr_del", 0) \in EventType
  /\ \A s \in 0 .. 2 : Event("connect", s) \in EventType
  /\ \A r \in 0 .. 1 : Event("disconnect", r) \in EventType
  /\ \A a \in Addrs : Event("bound", a) \in EventType
  BY DEF EventType

LEMMA BoundHasAddress == \A e \in Bounds : e.arg \in Addrs
<1>. SUFFICES ASSUME NEW e \in EventType, e.kind = "bound" PROVE e.arg \in Addrs
  BY DEF Bounds, Of
<1>. QED
  BY EventIs, SMT DEF EventType

LEMMA AddressIs == 0 \notin Addrs
  BY WifiLinkAssumption, SMT DEF WifiLinkAssumption, Addrs

----------------------------------------------------------------------------
(* Types.                                                                  *)

LEMMA TypeParts ==
  TypeOK <=>
    /\ LinkTypeOK
    /\ connected \in BOOLEAN /\ scanned \in BOOLEAN /\ watchdog \in BOOLEAN
    /\ reconnect \in BOOLEAN /\ restart \in BOOLEAN /\ start \in BOOLEAN /\ creds \in BOOLEAN
    /\ gaveUp \in {"no", "creds", "pre_scan", "refused", "blind"}
    /\ bound_ip \in {0} \union Addrs
    /\ (connected <=> bound_ip # 0)
    /\ request \in {"none", "start", "reconnect", "watchdog", "dhcp"}
    /\ told \in {"none", "connected", "connecting", "error"}
  BY DEF TypeOK

LEMMA PostType ==
  ASSUME LinkTypeOK, NEW e \in EventType, Post(<< e >>)
  PROVE  events' = Put(events, e) /\ events' \in Seq(EventType) /\ Len(events') <= MaxEvents
<1>1. events \in Seq(EventType)
  BY DEF LinkTypeOK
<1>2. events' = Put(events, e) /\ Len(events') <= MaxEvents
  BY <1>1, PostOne DEF Post
<1>. QED
  BY <1>1, <1>2, PutIs

\* A link that goes down posts one event or two.
LEMMA LeaveType ==
  ASSUME LinkTypeOK, NEW next \in {"down", "joining"}, NEW r \in 0 .. 1, Leave(next, r)
  PROVE  /\ events' = IF addr = 0 THEN Put(events, Event("disconnect", r))
                      ELSE Put(Put(events, Event("addr_del", 0)), Event("disconnect", r))
         /\ events' \in Seq(EventType) /\ Len(events') <= MaxEvents
         /\ link' = next /\ addr' = 0 /\ silent' = FALSE
<1> DEFINE d == Event("addr_del", 0)
           e == Event("disconnect", r)
<1>1. events \in Seq(EventType) /\ d \in EventType /\ e \in EventType
  BY EventsAre DEF LinkTypeOK
<1>2. /\ events \o (<< >> \o << e >>) = Put(events, e)
      /\ events \o Two(d, e) = Put(Put(events, d), e)
  <2>. HIDE DEF d, e
  <2>1. << >> \o << e >> = << e >>
    BY SMT
  <2>2. events \o << e >> = Put(events, e)
    BY <1>1, PostOne
  <2>3. events \o Two(d, e) = Put(Put(events, d), e)
    BY <1>1, PostTwo
  <2>. QED
    BY <2>1, <2>2, <2>3
<1>3. events' = events \o DropEvents(r) /\ Len(events') <= MaxEvents
      /\ link' = next /\ addr' = 0 /\ silent' = FALSE
  BY DEF Leave, Post
<1>4. events' = IF addr = 0 THEN Put(events, e) ELSE Put(Put(events, d), e)
  BY <1>2, <1>3 DEF DropEvents, Two
<1>5. Put(events, e) \in Seq(EventType)
  BY <1>1, PutIs
<1>6. Put(events, d) \in Seq(EventType)
  BY <1>1, PutIs
<1>7. Put(Put(events, d), e) \in Seq(EventType)
  BY <1>1, <1>6, PutIs
<1>. QED
  BY <1>3, <1>4, <1>5, <1>7

\* Every change of the link, whoever causes it.
LinkOp ==
  \/ LinkNext \/ UserConnects
  \/ ConnectAccepted \/ ConnectRefused
  \/ DisconnectAccepted \/ DisconnectRefused
  \/ UNCHANGED linkVars

\* The moves these are made of.
Move ==
  \/ link = "joining" /\ link' = "up" /\ addr' = addr /\ silent' = silent
       /\ events' = Put(events, Event("connect", 0))
  \/ \E s \in 1 .. 2 : link = "joining" /\ link' \in {"down", "joining"} /\ addr' = addr
       /\ silent' = silent /\ events' = Put(events, Event("connect", s))
  \/ link = "up" /\ link' = "up" /\ addr = 0 /\ addr' \in Addrs /\ ~silent /\ silent' = silent
       /\ events' = Put(events, Event("bound", addr'))
  \/ addr # 0 /\ addr' = addr /\ link' = link /\ silent' = silent
       /\ events' = Put(events, Event("bound", addr))
  \/ addr # 0 /\ addr' = 0 /\ link' = link /\ silent' = silent
       /\ events' = Put(events, Event("addr_del", 0))
  \/ \E r \in 0 .. 1 : /\ link = "up" /\ link' \in {"down", "joining"}
                       /\ addr' = 0 /\ silent' = FALSE
                       /\ events' = IF addr = 0 THEN Put(events, Event("disconnect", r))
                                    ELSE Put(Put(events, Event("addr_del", 0)),
                                             Event("disconnect", r))
  \/ link # "up" /\ link' = "joining" /\ UNCHANGED <<addr, silent, events>>
  \/ addr = 0 /\ link = "up" /\ UNCHANGED <<link, addr, events>> /\ silent' \in BOOLEAN
  \/ UNCHANGED <<link, addr, silent, events>>

LEMMA MoveIs ==
  ASSUME LinkTypeOK, LinkOp
  PROVE  /\ Move
         /\ events' \in Seq(EventType) /\ Len(events') <= MaxEvents /\ budget' \in 0 .. Budget
<1>. USE EventsAre
<1>0. /\ events \in Seq(EventType) /\ Len(events) <= MaxEvents
      /\ budget \in 0 .. Budget /\ Budget \in Nat
      /\ addr \in {0} \union Addrs /\ link \in {"down", "joining", "up"}
  BY WifiLinkAssumption DEF LinkTypeOK, WifiLinkAssumption
<1>1. ASSUME Disturb PROVE budget' \in 0 .. Budget
  BY <1>0, <1>1, SMT DEF Disturb
<1>2. CASE Joined
  BY <1>0, <1>2, PostType DEF Joined, Move
<1>3. CASE GoSilent
  BY <1>0, <1>1, <1>3 DEF GoSilent, Move
<1>4. CASE JoinFails
  <2>1. Post(<< Event("connect", 2) >>) /\ 2 \in 1 .. 2
    BY <1>4 DEF JoinFails
  <2>. QED
    BY <1>0, <1>1, <1>4, <2>1, PostType DEF JoinFails, Move
<1>5. CASE JoinFailsEarly
  <2>1. /\ Post(<< Event("connect", 1) >>) /\ 1 \in 1 .. 2 /\ link' \in {"down", "joining"}
    BY <1>5 DEF JoinFailsEarly
  <2>. QED
    BY <1>0, <1>1, <1>5, <2>1, PostType DEF JoinFailsEarly, Move
<1>6. CASE Dropped
  BY <1>0, <1>1, <1>6, LeaveType DEF Dropped, Move
<1>7. CASE Leased
  BY <1>0, <1>7, PostType DEF Leased, Move
<1>8. CASE Renewed
  <2>1. Event("bound", addr) \in EventType
    BY <1>0, <1>8 DEF Renewed
  <2>. QED
    BY <1>0, <1>1, <1>8, <2>1, PostType DEF Renewed, Move
<1>9. CASE LeaseLost
  BY <1>0, <1>1, <1>9, PostType DEF LeaseLost, Move
<1>10. CASE UserConnects
  BY <1>0, <1>1, <1>10 DEF UserConnects, Move
<1>11. CASE ConnectAccepted
  <2>1. CASE link = "up" /\ Disturb /\ Leave("joining", 0)
    BY <1>0, <1>1, <2>1, LeaveType DEF Move
  <2>. QED
    BY <1>0, <1>11, <2>1 DEF ConnectAccepted, Move, linkVars
<1>12. CASE DisconnectAccepted
  <2>1. CASE link = "up"
    BY <1>0, <1>12, <2>1, LeaveType DEF DisconnectAccepted, Move
  <2>. QED
    BY <1>0, <1>12, <2>1 DEF DisconnectAccepted, Move
<1>13. CASE ConnectRefused \/ DisconnectRefused
  BY <1>0, <1>1, <1>13 DEF ConnectRefused, DisconnectRefused, Move
<1>14. CASE UNCHANGED linkVars
  BY <1>0, <1>14 DEF linkVars, Move
<1>. QED
  BY <1>2, <1>3, <1>4, <1>5, <1>6, <1>7, <1>8, <1>9, <1>10, <1>11, <1>12, <1>13, <1>14
     DEF LinkOp, LinkNext

LEMMA LinkTypes == ASSUME LinkTypeOK, LinkOp PROVE LinkTypeOK'
<1>1. /\ Move
      /\ events' \in Seq(EventType) /\ Len(events') <= MaxEvents /\ budget' \in 0 .. Budget
  BY MoveIs
<1>2. /\ link \in {"down", "joining", "up"} /\ addr \in {0} \union Addrs /\ silent \in BOOLEAN
      /\ addr # 0 => link = "up" /\ ~silent
  BY DEF LinkTypeOK
<1>3. link' \in {"down", "joining", "up"} /\ addr' \in {0} \union Addrs /\ silent' \in BOOLEAN
  BY <1>1, <1>2, Zenon DEF Move
<1>4. addr' # 0 => link' = "up" /\ ~silent'
  BY <1>1, <1>2, Zenon DEF Move
<1>. QED
  BY <1>1, <1>3, <1>4 DEF LinkTypeOK

\* The event thread takes the first event off the queue.
Taken == events # << >> /\ events' = Tail(events) /\ UNCHANGED <<link, addr, silent>>

LEMMA TakenTypes ==
  ASSUME LinkTypeOK, Taken, budget' \in 0 .. Budget
  PROVE  LinkTypeOK' /\ Head(events) \in EventType
<1>1. events \in Seq(EventType) /\ Len(events) <= MaxEvents
  BY DEF LinkTypeOK
<1>2. events' \in Seq(EventType) /\ Head(events) \in EventType
  BY <1>1, TailIs DEF Taken
<1>3. Len(events') <= MaxEvents
  BY <1>1, TailIs, WifiLinkAssumption, SMT DEF Taken, WifiLinkAssumption
<1>. QED
  BY <1>2, <1>3 DEF LinkTypeOK, Taken

LEMMA BudgetTypes ==
  ASSUME LinkTypeOK, Disturb \/ UNCHANGED budget
  PROVE  budget' \in 0 .. Budget
  BY WifiLinkAssumption, SMT DEF LinkTypeOK, Disturb, WifiLinkAssumption

LEMMA HandlerTypes == ASSUME TypeOK, HandleEvent PROVE TypeOK'
<1>. USE TypeParts
<1>1. Taken /\ UNCHANGED budget
  BY DEF HandleEvent, Taken
<1>2. LinkTypeOK' /\ Head(events) \in EventType
  BY <1>1, TakenTypes, BudgetTypes
<1> DEFINE e == Head(events)
<1>. HIDE DEF e
<1>3. NetHandle(e) /\ e \in EventType
  BY <1>2 DEF HandleEvent, e
<1>4. CASE e.kind = "bound" /\ OnBound(e.arg)
  <2>1. e.arg \in Addrs /\ e.arg # 0
    BY <1>3, <1>4, BoundHasAddress, AddressIs DEF Bounds, Of
  <2>. QED
    BY <1>2, <1>4, <2>1 DEF OnBound, StandDown, TypeOK
<1>5. CASE OnReady \/ OnScanDone
  <2>1. CASE OnReady
    BY <1>2, <2>1 DEF OnReady, TypeOK
  <2>2. CASE OnScanDone
    BY <1>2, <2>2 DEF OnScanDone, TypeOK
  <2>. QED
    BY <1>5, <2>1, <2>2
<1>6. CASE OnConnected \/ OnConnectFailed(e.arg)
  BY <1>2, <1>6, StaAssumption DEF OnConnected, OnConnectFailed, TellDisconnect, TypeOK,
                                   StaAssumption
<1>7. CASE OnDisconnected
  BY <1>2, <1>7, StaAssumption DEF OnDisconnected, TellDisconnect, TypeOK, StaAssumption
<1>8. CASE OnAddrDel
  <2>1. CASE connected /\ link = "up"
    BY <1>2, <1>8, <2>1 DEF OnAddrDel, TypeOK
  <2>2. CASE ~(connected /\ link = "up")
    BY <1>2, <1>8, <2>2 DEF OnAddrDel, staVars, TypeOK
  <2>. QED
    BY <2>1, <2>2
<1>. QED
  BY <1>3, <1>4, <1>5, <1>6, <1>7, <1>8 DEF NetHandle

LEMMA BlindTypes == ASSUME TypeOK, HandleAddrDelBlind PROVE TypeOK'
<1>. USE TypeParts
<1>1. Taken /\ Disturb /\ OnAddrDelBlind
  BY DEF HandleAddrDelBlind, Taken
<1>2. LinkTypeOK'
  BY <1>1, TakenTypes, BudgetTypes
<1>. QED
  BY <1>1, <1>2 DEF OnAddrDelBlind, TypeOK

LEMMA RunTypes ==
  ASSUME TypeOK, StartMode \/ ReconnectRun \/ WatchdogRun \/ RestartRun \/ CredsChange
  PROVE  TypeOK'
<1>. USE TypeParts
<1>1. UNCHANGED <<link, addr, silent, events>> /\ (Disturb \/ UNCHANGED budget)
  BY DEF StartMode, ReconnectRun, WatchdogRun, RestartRun, CredsChange, linkVars
<1>2. LinkTypeOK'
  BY <1>1, BudgetTypes DEF LinkTypeOK
<1>3. CASE StartMode
  BY <1>2, <1>3 DEF StartMode, TypeOK
<1>4. CASE ReconnectRun
  BY <1>2, <1>4 DEF ReconnectRun, TypeOK
<1>5. CASE WatchdogRun
  BY <1>2, <1>5 DEF WatchdogRun, TypeOK
<1>6. CASE RestartRun
  BY <1>2, <1>6 DEF RestartRun, TypeOK
<1>7. CASE CredsChange
  BY <1>2, <1>7 DEF CredsChange, TypeOK
<1>. QED
  BY <1>3, <1>4, <1>5, <1>6, <1>7

LEMMA DhcpMove ==
  ASSUME TypeOK, RequestDhcp
  PROVE  /\ Move
         /\ events' \in Seq(EventType) /\ Len(events') <= MaxEvents /\ budget' = budget
<1>1. CASE addr = 0
  BY <1>1 DEF RequestDhcp, linkVars, Move, TypeOK, LinkTypeOK
<1>2. CASE addr # 0
  BY <1>2, EventsAre, PostType DEF RequestDhcp, Move, TypeOK
<1>. QED
  BY <1>1, <1>2

LEMMA RequestTypes ==
  ASSUME TypeOK, RequestConnect \/ RequestDisconnect \/ RequestDhcp
  PROVE  TypeOK'
<1>. USE TypeParts
<1>1. CASE RequestConnect
  <2>1. LinkOp
    BY <1>1 DEF RequestConnect, LinkOp
  <2>2. reconnect' \in BOOLEAN
    BY <1>1, StaAssumption DEF RequestConnect, StaAssumption
  <2>. QED
    BY <1>1, <2>1, <2>2, LinkTypes DEF RequestConnect, Done, TypeOK
<1>2. CASE RequestDisconnect
  <2>1. LinkOp
    BY <1>2 DEF RequestDisconnect, LinkOp
  <2>. QED
    BY <1>2, <2>1, LinkTypes DEF RequestDisconnect, Done, TypeOK
<1>3. CASE RequestDhcp
  <2>1. LinkTypeOK'
    <3>1. UNCHANGED <<link, silent, budget>> /\ addr' \in {0, addr}
      BY <1>3 DEF RequestDhcp, linkVars
    <3>. QED
      BY <1>3, <3>1, DhcpMove DEF LinkTypeOK
  <2>. QED
    BY <1>3, <2>1 DEF RequestDhcp, Done, TypeOK
<1>. QED
  BY <1>1, <1>2, <1>3

LEMMA WorldTypes == ASSUME TypeOK, ScanEnds \/ Network \/ Shell PROVE TypeOK'
<1>. USE TypeParts
<1>1. CASE ScanEnds
  <2>1. LinkTypeOK'
    BY <1>1, PostType, EventsAre DEF ScanEnds, LinkTypeOK
  <2>. QED
    BY <1>1, <2>1 DEF ScanEnds, staVars, TypeOK
<1>2. CASE Network \/ Shell
  <2>1. LinkOp /\ UNCHANGED staVars
    BY <1>2 DEF Network, Shell, LinkOp
  <2>. QED
    BY <2>1, LinkTypes DEF staVars, TypeOK
<1>. QED
  BY <1>1, <1>2

LEMMA StaTypes == ASSUME TypeOK, [Next]_vars PROVE TypeOK'
<1>1. CASE UNCHANGED vars
  BY <1>1 DEF vars, TypeOK, LinkTypeOK
<1>. QED
  BY <1>1, HandlerTypes, BlindTypes, RunTypes, RequestTypes, WorldTypes DEF Next, Work

----------------------------------------------------------------------------
(* The queue, the link and what the handlers believe.                      *)

\* Events that the link has outrun are followed by the one that says so.
LinkOrder(l, q) ==
  /\ l = "up" => Followed(q, Drops \union Fails, Joins)
  /\ l # "up" => Followed(q, Joins \union Bounds, Drops)
  /\ Separated(q, Bounds, Joins \union Fails, Drops)

\* So are those that the interface's address a has outrun.
LeaseOrder(a, q) ==
  /\ a # 0 => Followed(q, Dels \union Drops, Bounds)
  /\ Followed(q, Stale(a), Dels \union Drops)
  /\ Separated(q, Dels, Dels, Bounds)

\* What the event thread takes for true is so, or a waiting event will tell.
BeliefOrder(l, a, q) ==
  /\ connected => ~watchdog /\ told = "connected"
  /\ told = "connected" /\ l # "up" => Has(q, Drops)
  /\ told = "connected" => Preceded(q, Joins \union Fails, Drops)
  /\ ~Has(q, Bounds \union Dels \union Drops) =>
       /\ connected /\ gaveUp # "blind" => bound_ip = a
       /\ a # 0 => connected
  /\ gaveUp = "blind" =>
       connected /\ Preceded(q, Dels, Bounds) /\ (a # 0 => Has(q, Bounds))

\* A lost connection that the application does not know of is being ended.
ToldEnds ==
  told = "connected" /\ ~connected =>
    watchdog \/ request = "watchdog" \/ Has(events, Drops) \/ gaveUp = "refused"

\* Until the mode has started nothing happens but the first scan.
Booting == start \/ Has(events, Readys)

BootIsFirst ==
  /\ Separated(events, Readys, Readys, {})
  /\ start => ~Has(events, Readys)
  /\ Booting =>
       /\ link = "down" /\ ~connected /\ told # "connected" /\ gaveUp # "blind"
       /\ ~reconnect /\ ~watchdog /\ ~restart /\ request = "none"
       /\ ~Has(events, Drops \union Dels \union Bounds \union Joins \union Fails)

Orders == LinkOrder(link, events) /\ LeaseOrder(addr, events)

Beliefs == BeliefOrder(link, addr, events)

\* What leads a device back to its network, by the state of the link.
Recovering ==
  ~BleProv /\ creds /\ ~connected /\ gaveUp = "no" =>
    \/ link = "joining"
    \/ link = "up" /\ \/ watchdog \/ request = "watchdog" \/ Has(events, Joins \union Bounds)
    \/ link = "down" /\ \/ reconnect \/ start \/ request \in {"start", "reconnect"}
                        \/ Has(events, Readys \union Joins \union Fails \union Drops
                                          \union Bounds)

SafeInv == Orders /\ Beliefs /\ ToldEnds /\ BootIsFirst /\ Recovering

StaInv == TypeOK /\ SafeInv

LEMMA LinkOrderPut ==
  ASSUME NEW q \in Seq(EventType), NEW e \in EventType, NEW l, NEW m, LinkOrder(l, q),
         m = "up" => e \in Joins \/ (l = "up" /\ e \notin Drops \union Fails),
         m # "up" => e \in Drops \/ (l # "up" /\ e \notin Joins \union Bounds),
         e \in Joins \union Fails => l # "up"
  PROVE  LinkOrder(m, Put(q, e))
<1>1. ASSUME m = "up" PROVE Followed(Put(q, e), Drops \union Fails, Joins)
  <2>1. e \notin Drops \union Fails
    BY <1>1 DEF Drops, Fails, Joins, Of
  <2>. QED
    BY <1>1, <2>1, FollowedPut DEF LinkOrder
<1>2. ASSUME m # "up" PROVE Followed(Put(q, e), Joins \union Bounds, Drops)
  <2>1. e \notin Joins \union Bounds
    BY <1>2 DEF Drops, Bounds, Joins, Of
  <2>. QED
    BY <1>2, <2>1, FollowedPut DEF LinkOrder
<1>3. Separated(Put(q, e), Bounds, Joins \union Fails, Drops)
  <2>1. ASSUME l # "up" PROVE Followed(q, Bounds, Drops)
    BY <2>1, FollowedSub DEF LinkOrder
  <2>. QED
    BY <2>1, SeparatedPut DEF LinkOrder
<1>. QED
  BY <1>1, <1>2, <1>3 DEF LinkOrder

LEMMA LeaseOrderPut ==
  ASSUME NEW q \in Seq(EventType), NEW e \in EventType,
         NEW a \in {0} \union Addrs, NEW b \in {0} \union Addrs, LeaseOrder(a, q),
         e \in Dels => a # 0,
         b # 0 => e \in Bounds \/ (a # 0 /\ e \notin Dels \union Drops),
         e \in Bounds => e.arg = b,
         b = a \/ (a = 0 /\ e \in Bounds) \/ e \in Dels \union Drops
  PROVE  LeaseOrder(b, Put(q, e))
<1>1. ASSUME b # 0 PROVE Followed(Put(q, e), Dels \union Drops, Bounds)
  <2>1. e \notin Dels \union Drops
    BY <1>1 DEF Drops, Dels, Bounds, Of
  <2>. QED
    BY <1>1, <2>1, FollowedPut DEF LeaseOrder
<1>2. Followed(Put(q, e), Stale(b), Dels \union Drops)
  <2>1. e \notin Stale(b)
    BY DEF Stale
  <2>2. CASE b = a \/ (a = 0 /\ e \in Bounds)
    <3>1. Stale(b) \subseteq Stale(a)
      BY <2>2, BoundHasAddress, AddressIs DEF Stale
    <3>2. Followed(q, Stale(b), Dels \union Drops)
      BY <3>1, FollowedSub DEF LeaseOrder
    <3>. QED
      BY <2>1, <3>2, FollowedPut
  <2>3. CASE e \in Dels \union Drops
    BY <2>1, <2>3, FollowedPut
  <2>. QED
    BY <2>2, <2>3
<1>3. Separated(Put(q, e), Dels, Dels, Bounds)
  <2>1. ASSUME a # 0 PROVE Followed(q, Dels, Bounds)
    BY <2>1, FollowedSub DEF LeaseOrder
  <2>. QED
    BY <2>1, SeparatedPut DEF LeaseOrder
<1>. QED
  BY <1>1, <1>2, <1>3 DEF LeaseOrder

LEMMA BeliefOrderPut ==
  ASSUME NEW q \in Seq(EventType), NEW e \in EventType, NEW l, NEW m, NEW a, NEW b,
         BeliefOrder(l, a, q),
         m # "up" => e \in Drops \/ l # "up",
         e \in Joins \union Fails => l # "up",
         e \in Dels => a # 0,
         b # 0 => e \in Bounds \/ a # 0,
         b = a \/ e \in Bounds \union Dels \union Drops
  PROVE  BeliefOrder(m, b, Put(q, e))
<1> DEFINE r == Put(q, e)
<1>1. \A A : Has(r, A) <=> Has(q, A) \/ e \in A
  BY HasPut
<1>2. ASSUME told = "connected" PROVE Preceded(r, Joins \union Fails, Drops)
  BY <1>2, PrecededPut DEF BeliefOrder
<1>3. ASSUME gaveUp = "blind" PROVE Preceded(r, Dels, Bounds)
  BY <1>3, PrecededPut DEF BeliefOrder
<1>. HIDE DEF r
<1>4. \A A : Has(q, A) => Has(r, A)
  BY <1>1
<1>. QED
  BY <1>1, <1>2, <1>3 DEF BeliefOrder, r

\* The queue before and after the event thread takes the event h from it.
LEMMA OrdersTail ==
  ASSUME NEW q \in Seq(EventType), q # << >>, NEW l, NEW a, LinkOrder(l, q), LeaseOrder(a, q)
  PROVE  LinkOrder(l, Tail(q)) /\ LeaseOrder(a, Tail(q))
<1>1. LinkOrder(l, Tail(q))
  BY FollowedTail, SeparatedTail DEF LinkOrder
<1>2. LeaseOrder(a, Tail(q))
  BY FollowedTail, SeparatedTail DEF LeaseOrder
<1>. QED
  BY <1>1, <1>2

LEMMA OrdersHead ==
  ASSUME NEW q \in Seq(EventType), q # << >>, NEW l, NEW a, LinkOrder(l, q), LeaseOrder(a, q)
  PROVE  /\ l = "up" /\ Head(q) \in Drops \union Fails => Has(Tail(q), Joins)
         /\ l # "up" /\ Head(q) \in Joins \union Bounds => Has(Tail(q), Drops)
         /\ Head(q) \in Bounds => Preceded(Tail(q), Joins \union Fails, Drops)
         /\ a # 0 /\ Head(q) \in Dels \union Drops => Has(Tail(q), Bounds)
         /\ Head(q) \in Stale(a) => Has(Tail(q), Dels \union Drops)
         /\ Head(q) \in Dels => Preceded(Tail(q), Dels, Bounds)
<1>1. /\ l = "up" /\ Head(q) \in Drops \union Fails => Has(Tail(q), Joins)
      /\ l # "up" /\ Head(q) \in Joins \union Bounds => Has(Tail(q), Drops)
  BY FollowedTail DEF LinkOrder
<1>2. Head(q) \in Bounds => Preceded(Tail(q), Joins \union Fails, Drops)
  BY SeparatedTail DEF LinkOrder
<1>3. /\ a # 0 /\ Head(q) \in Dels \union Drops => Has(Tail(q), Bounds)
      /\ Head(q) \in Stale(a) => Has(Tail(q), Dels \union Drops)
  BY FollowedTail DEF LeaseOrder
<1>4. Head(q) \in Dels => Preceded(Tail(q), Dels, Bounds)
  BY SeparatedTail DEF LeaseOrder
<1>. QED
  BY <1>1, <1>2, <1>3, <1>4

LEMMA BeliefsHead ==
  ASSUME NEW q \in Seq(EventType), q # << >>, NEW l, NEW a, BeliefOrder(l, a, q)
  PROVE  /\ told = "connected" => /\ Head(q) \notin Joins \union Fails
                                  /\ Head(q) \notin Drops =>
                                       Preceded(Tail(q), Joins \union Fails, Drops)
         /\ gaveUp = "blind" => /\ Head(q) \notin Dels
                                /\ Head(q) \notin Bounds => Preceded(Tail(q), Dels, Bounds)
<1>1. ASSUME told = "connected"
      PROVE  /\ Head(q) \notin Joins \union Fails
             /\ Head(q) \notin Drops => Preceded(Tail(q), Joins \union Fails, Drops)
  BY <1>1, PrecededTail DEF BeliefOrder
<1>2. ASSUME gaveUp = "blind"
      PROVE  /\ Head(q) \notin Dels
             /\ Head(q) \notin Bounds => Preceded(Tail(q), Dels, Bounds)
  BY <1>2, PrecededTail DEF BeliefOrder
<1>. QED
  BY <1>1, <1>2

----------------------------------------------------------------------------
(* The moves of the link.                                                  *)

\* What a move says of itself.
Grows ==
  /\ \A A : Has(events, A) => Has(events', A)
  /\ Has(events', Readys) => Has(events, Readys)

Announced ==
  /\ link = "down" => link' # "up"
  /\ link = "up" /\ link' # "up" => Has(events', Drops)
  /\ link = "joining" /\ link' = "down" => Has(events', Fails)
  /\ link # "up" /\ link' = "up" => Has(events', Joins)

MoveKeeps == /\ Orders' /\ BeliefOrder(link', addr', events')
             /\ Grows /\ Announced

\* One event is posted.
LEMMA OneKeeps ==
  ASSUME TypeOK, Orders, Beliefs, NEW e \in EventType, events' = Put(events, e),
         e \notin Readys, addr' \in {0} \union Addrs,
         link' = "up" => e \in Joins \/ (link = "up" /\ e \notin Drops \union Fails),
         link' # "up" => e \in Drops \/ (link # "up" /\ e \notin Joins \union Bounds),
         e \in Joins \union Fails => link # "up",
         e \in Dels => addr # 0,
         addr' # 0 => e \in Bounds \/ (addr # 0 /\ e \notin Dels \union Drops),
         e \in Bounds => e.arg = addr',
         addr' = addr \/ (addr = 0 /\ e \in Bounds) \/ e \in Dels \union Drops
  PROVE  Orders' /\ BeliefOrder(link', addr', events') /\ Grows
<1>1. events \in Seq(EventType) /\ addr \in {0} \union Addrs
  BY DEF TypeOK, LinkTypeOK
<1>2. LinkOrder(link', events')
  BY <1>1, LinkOrderPut DEF Orders
<1>3. LeaseOrder(addr', events')
  BY <1>1, LeaseOrderPut DEF Orders
<1>4. BeliefOrder(link', addr', events')
  BY <1>1, BeliefOrderPut DEF Beliefs
<1>5. \A A : Has(events', A) <=> Has(events, A) \/ e \in A
  BY <1>1, HasPut
<1>. QED
  BY <1>2, <1>3, <1>4, <1>5 DEF Orders, Grows

LEMMA MoveOrders == ASSUME TypeOK, Orders, Beliefs, Move PROVE MoveKeeps
<1>. USE EventsAre, EventIs
<1>0. /\ events \in Seq(EventType) /\ addr \in {0} \union Addrs
      /\ link \in {"down", "joining", "up"} /\ (addr # 0 => link = "up")
  BY DEF TypeOK, LinkTypeOK
<1>1. ASSUME NEW e \in EventType, events' = Put(events, e)
      PROVE  \A A : e \in A => Has(events', A)
  BY <1>0, <1>1, HasPut
<1>2. CASE /\ link = "joining" /\ link' = "up" /\ addr' = addr
           /\ events' = Put(events, Event("connect", 0))
  <2>1. Event("connect", 0) \in Joins /\ Event("connect", 0) \in EventType
        /\ Event("connect", 0) \notin Drops \union Fails \union Dels \union Bounds \union Readys
    BY DEF Joins, Fails, Drops, Dels, Bounds, Readys, Of
  <2>2. Orders' /\ BeliefOrder(link', addr', events') /\ Grows
    BY <1>0, <1>2, <2>1, OneKeeps
  <2>. QED
    BY <1>1, <1>2, <2>1, <2>2 DEF MoveKeeps, Announced
<1>3. ASSUME NEW s \in 1 .. 2, link = "joining", link' \in {"down", "joining"}, addr' = addr,
             events' = Put(events, Event("connect", s))
      PROVE  MoveKeeps
  <2>1. Event("connect", s) \in Fails /\ Event("connect", s) \in EventType
        /\ Event("connect", s) \notin Drops \union Joins \union Dels \union Bounds \union Readys
    BY DEF Joins, Fails, Drops, Dels, Bounds, Readys, Of
  <2>2. Orders' /\ BeliefOrder(link', addr', events') /\ Grows
    BY <1>0, <1>3, <2>1, OneKeeps
  <2>. QED
    BY <1>1, <1>3, <2>1, <2>2 DEF MoveKeeps, Announced
<1>4. CASE /\ link = "up" /\ link' = "up" /\ (addr = 0 \/ addr' = addr) /\ addr' \in Addrs
           /\ events' = Put(events, Event("bound", addr'))
  <2>1. Event("bound", addr') \in Bounds /\ Event("bound", addr') \in EventType
        /\ Event("bound", addr') \notin Drops \union Joins \union Dels \union Fails \union Readys
    BY <1>4 DEF Joins, Fails, Drops, Dels, Bounds, Readys, Of
  <2>2. Orders' /\ BeliefOrder(link', addr', events') /\ Grows
    BY <1>0, <1>4, <2>1, OneKeeps
  <2>. QED
    BY <1>4, <2>2 DEF MoveKeeps, Announced
<1>5. CASE /\ addr # 0 /\ addr' = 0 /\ link' = link
           /\ events' = Put(events, Event("addr_del", 0))
  <2>1. Event("addr_del", 0) \in Dels /\ Event("addr_del", 0) \in EventType
        /\ Event("addr_del", 0) \notin Drops \union Joins \union Bounds \union Fails \union Readys
    BY DEF Joins, Fails, Drops, Dels, Bounds, Readys, Of
  <2>2. Orders' /\ BeliefOrder(link', addr', events') /\ Grows
    BY <1>0, <1>5, <2>1, OneKeeps
  <2>. QED
    BY <1>0, <1>5, <2>2 DEF MoveKeeps, Announced
<1>6. ASSUME NEW r \in 0 .. 1, link = "up", link' \in {"down", "joining"}, addr' = 0,
             events' = IF addr = 0 THEN Put(events, Event("disconnect", r))
                       ELSE Put(Put(events, Event("addr_del", 0)), Event("disconnect", r))
      PROVE  MoveKeeps
  <2> DEFINE d == Event("addr_del", 0)
             e == Event("disconnect", r)
             q == IF addr = 0 THEN events ELSE Put(events, d)
  <2>1. d \in Dels /\ d \in EventType
        /\ d \notin Drops \union Joins \union Bounds \union Fails \union Readys
    BY DEF Joins, Fails, Drops, Dels, Bounds, Readys, Of
  <2>2. e \in Drops /\ e \in EventType
        /\ e \notin Dels \union Joins \union Bounds \union Fails \union Readys
    BY DEF Joins, Fails, Drops, Dels, Bounds, Readys, Of
  <2>. HIDE DEF d, e
  <2>3. q \in Seq(EventType) /\ events' = Put(q, e)
    BY <1>0, <1>6, <2>1, PutIs DEF d, e
  <2>4. LinkOrder("up", q) /\ LeaseOrder(0, q) /\ BeliefOrder("up", 0, q)
        /\ (\A A : Has(q, A) => Has(events, A) \/ d \in A) /\ (\A A : Has(events, A) => Has(q, A))
    <3>1. CASE addr = 0
      BY <1>6, <3>1 DEF Orders, Beliefs
    <3>2. CASE addr # 0
      <4>1. LinkOrder("up", Put(events, d))
        BY <1>0, <1>6, <2>1, <3>2, LinkOrderPut DEF Orders
      <4>2. LeaseOrder(0, Put(events, d))
        BY <1>0, <1>6, <2>1, <3>2, LeaseOrderPut DEF Orders
      <4>3. BeliefOrder("up", 0, Put(events, d))
        BY <1>0, <1>6, <2>1, <3>2, BeliefOrderPut DEF Beliefs
      <4>4. \A A : Has(Put(events, d), A) <=> Has(events, A) \/ d \in A
        BY <1>0, <2>1, HasPut
      <4>. QED
        BY <3>2, <4>1, <4>2, <4>3, <4>4
    <3>. QED
      BY <3>1, <3>2
  <2>. HIDE DEF q
  <2>5. LinkOrder(link', events')
    BY <1>6, <2>2, <2>3, <2>4, LinkOrderPut
  <2>6. LeaseOrder(addr', events')
    BY <1>6, <2>2, <2>3, <2>4, LeaseOrderPut
  <2>7. BeliefOrder(link', addr', events')
    BY <1>6, <2>2, <2>3, <2>4, BeliefOrderPut
  <2>8. \A A : Has(events', A) <=> Has(q, A) \/ e \in A
    BY <2>2, <2>3, HasPut
  <2>. QED
    BY <1>6, <2>1, <2>2, <2>4, <2>5, <2>6, <2>7, <2>8 DEF MoveKeeps, Orders, Grows, Announced
<1>7. CASE link # "up" /\ link' = "joining" /\ UNCHANGED <<addr, events>>
  BY <1>0, <1>7 DEF MoveKeeps, Orders, Beliefs, Grows, Announced, LinkOrder, BeliefOrder
<1>8. CASE UNCHANGED <<link, addr, events>>
  BY <1>0, <1>8 DEF MoveKeeps, Orders, Beliefs, Grows, Announced
<1>. QED
  BY <1>0, <1>2, <1>3, <1>4, <1>5, <1>6, <1>7, <1>8 DEF Move

\* The handlers' beliefs are unprimed in BeliefOrder: steps that keep them.
LEMMA BeliefsCarry ==
  ASSUME UNCHANGED <<connected, told, watchdog, bound_ip>>,
         gaveUp' = gaveUp \/ (gaveUp # "blind" /\ gaveUp' # "blind"),
         BeliefOrder(link', addr', events')
  PROVE  Beliefs'
  BY DEF Beliefs, BeliefOrder

LEMMA NotBooting ==
  ASSUME ~start', ~Has(events', Readys)
  PROVE  BootIsFirst'
  BY DEF BootIsFirst, Booting, Separated, Has

LEMMA MoveRecovers ==
  ASSUME TypeOK, LinkTypeOK', Recovering, MoveKeeps,
         UNCHANGED <<creds, connected, gaveUp, watchdog, reconnect, start, request>>
  PROVE  Recovering'
<1>. SUFFICES ASSUME ~BleProv, creds, ~connected, gaveUp = "no", link' # "joining"
              PROVE  Recovering'
  BY DEF Recovering
<1>1. link' = "up" \/ link' = "down"
  BY DEF LinkTypeOK
<1>2. \A A : Has(events, A) => Has(events', A)
  BY DEF MoveKeeps, Grows
<1>3. CASE link' = "up"
  <2>1. CASE link = "up"
    BY <1>2, <1>3, <2>1 DEF Recovering
  <2>2. CASE link # "up"
    <3>1. Has(events', Joins \union Bounds)
      BY <1>3, <2>2, HasSub DEF MoveKeeps, Announced
    <3>. QED
      BY <1>3, <3>1 DEF Recovering
  <2>. QED
    BY <2>1, <2>2
<1>4. CASE link' = "down"
  <2> DEFINE K == Readys \union Joins \union Fails \union Drops \union Bounds
  <2>1. CASE link = "down"
    BY <1>2, <1>4, <2>1 DEF Recovering
  <2>2. CASE link # "down"
    <3>1. Has(events', Drops) \/ Has(events', Fails)
      BY <1>4, <2>2 DEF MoveKeeps, Announced, TypeOK, LinkTypeOK
    <3>2. Has(events', K)
      BY <3>1, HasSub
    <3>. QED
      BY <1>4, <3>2 DEF Recovering
  <2>. QED
    BY <2>1, <2>2
<1>. QED
  BY <1>1, <1>3, <1>4

LEMMA NetworkKeeps == ASSUME StaInv, Network \/ Shell PROVE SafeInv'
<1>1. LinkOp /\ UNCHANGED staVars
  BY DEF Network, Shell, LinkOp
<1>2. MoveKeeps /\ TypeOK /\ LinkTypeOK'
  BY <1>1, MoveIs, MoveOrders, LinkTypes DEF StaInv, SafeInv, TypeOK
<1>3. ~start /\ ~Has(events, Readys)
  <2>1. CASE Network
    <3>1. link # "down"
      BY <1>2, <2>1 DEF Network, LinkNext, Joined, GoSilent, JoinFails, JoinFailsEarly, Dropped,
                         Leased, Renewed, LeaseLost, TypeOK, LinkTypeOK
    <3>. QED
      BY <3>1 DEF StaInv, SafeInv, BootIsFirst, Booting
  <2>2. CASE Shell
    BY <2>2 DEF Shell, Has, Readys, Of, Pos
  <2>. QED
    BY <2>1, <2>2
<1>4. Beliefs' /\ Orders'
  BY <1>1, <1>2, BeliefsCarry DEF staVars, MoveKeeps
<1>5. BootIsFirst'
  BY <1>1, <1>2, <1>3, NotBooting DEF staVars, MoveKeeps, Grows
<1>6. ToldEnds'
  BY <1>1, <1>2 DEF staVars, MoveKeeps, Grows, StaInv, SafeInv, ToldEnds
<1>7. Recovering'
  BY <1>1, <1>2, MoveRecovers DEF staVars, StaInv, SafeInv
<1>. QED
  BY <1>4, <1>5, <1>6, <1>7 DEF SafeInv

LEMMA RequestConnectKeeps == ASSUME StaInv, RequestConnect PROVE SafeInv'
<1>1. /\ LinkOp /\ request \in {"start", "reconnect"} /\ request' = "none"
      /\ UNCHANGED <<connected, bound_ip, scanned, watchdog, restart, start, creds, told, gaveUp>>
  BY DEF RequestConnect, LinkOp, Done
<1>2. MoveKeeps /\ TypeOK /\ LinkTypeOK'
  BY <1>1, MoveIs, MoveOrders, LinkTypes DEF StaInv, SafeInv, TypeOK
<1>3. ~start /\ ~Has(events, Readys)
  BY <1>1 DEF StaInv, SafeInv, BootIsFirst, Booting
<1>4. Beliefs' /\ Orders'
  BY <1>1, <1>2, BeliefsCarry DEF MoveKeeps
<1>5. BootIsFirst'
  BY <1>1, <1>2, <1>3, NotBooting DEF MoveKeeps, Grows
<1>6. ToldEnds'
  BY <1>1, <1>2 DEF MoveKeeps, Grows, StaInv, SafeInv, ToldEnds
<1>7. Recovering'
  <2>1. CASE link' = "joining"
    BY <2>1 DEF Recovering
  <2>2. CASE UNCHANGED linkVars /\ (link = "up" \/ reconnect' = ~BleProv \/ ~creds)
    BY <1>1, <1>2, <2>2 DEF linkVars, StaInv, SafeInv, Recovering, TypeOK, LinkTypeOK
  <2>3. CASE creds /\ ConnectAccepted
    BY <2>1, <2>2, <2>3 DEF ConnectAccepted, Leave
  <2>4. CASE ConnectRefused /\ reconnect' = ~BleProv
    BY <1>1, <1>2, <2>4 DEF ConnectRefused, StaInv, SafeInv, Recovering, TypeOK, LinkTypeOK
  <2>. QED
    BY <2>2, <2>3, <2>4 DEF RequestConnect
<1>. QED
  BY <1>4, <1>5, <1>6, <1>7 DEF SafeInv

LEMMA RequestDisconnectKeeps == ASSUME StaInv, RequestDisconnect PROVE SafeInv'
<1>1. /\ LinkOp /\ request = "watchdog" /\ request' = "none"
      /\ UNCHANGED <<connected, bound_ip, scanned, watchdog, reconnect, restart, start, creds, told>>
  BY DEF RequestDisconnect, LinkOp, Done
<1>2. MoveKeeps /\ TypeOK /\ LinkTypeOK'
  BY <1>1, MoveIs, MoveOrders, LinkTypes DEF StaInv, SafeInv, TypeOK
<1>3. ~start /\ ~Has(events, Readys)
  BY <1>1 DEF StaInv, SafeInv, BootIsFirst, Booting
<1>4. \/ link = "up" /\ link' = "down" /\ gaveUp' = gaveUp
      \/ link # "up" /\ UNCHANGED <<link, events, gaveUp>>
      \/ UNCHANGED <<link, events>> /\ gaveUp' = IF gaveUp = "blind" THEN gaveUp ELSE "refused"
  BY DEF RequestDisconnect, DisconnectAccepted, DisconnectRefused, Leave
<1>5. Beliefs' /\ Orders'
  <2>1. gaveUp' = gaveUp \/ (gaveUp # "blind" /\ gaveUp' # "blind")
    BY <1>4
  <2>. QED
    BY <1>1, <1>2, <2>1, BeliefsCarry DEF MoveKeeps
<1>6. BootIsFirst'
  BY <1>1, <1>2, <1>3, NotBooting DEF MoveKeeps, Grows
<1>7. ToldEnds'
  <2>. SUFFICES ASSUME told = "connected", ~connected PROVE Has(events', Drops) \/ gaveUp' = "refused"
    BY <1>1 DEF ToldEnds
  <2>1. gaveUp # "blind" /\ (link # "up" => Has(events, Drops))
    BY DEF StaInv, SafeInv, Beliefs, BeliefOrder
  <2>. QED
    BY <1>2, <1>4, <2>1 DEF MoveKeeps, Announced
<1>8. Recovering'
  <2>1. CASE link = "up" /\ link' = "down"
    <3>1. Has(events', Drops)
      BY <1>2, <2>1 DEF MoveKeeps, Announced
    <3>2. Has(events', Readys \union Joins \union Fails \union Drops \union Bounds)
      BY <3>1, HasSub
    <3>. QED
      BY <2>1, <3>2 DEF Recovering
  <2>2. CASE link # "up" /\ UNCHANGED <<link, events, gaveUp>>
    BY <1>1, <2>2 DEF StaInv, SafeInv, Recovering
  <2>3. CASE gaveUp' = IF gaveUp = "blind" THEN gaveUp ELSE "refused"
    BY <2>3 DEF Recovering
  <2>. QED
    BY <1>4, <2>1, <2>2, <2>3
<1>. QED
  BY <1>5, <1>6, <1>7, <1>8 DEF SafeInv

LEMMA RequestDhcpKeeps == ASSUME StaInv, RequestDhcp PROVE SafeInv'
<1>1. /\ request = "dhcp" /\ request' = "none" /\ link' = link
      /\ UNCHANGED <<connected, bound_ip, scanned, watchdog, reconnect, restart, start, creds, told,
                     gaveUp>>
  BY DEF RequestDhcp, Done, linkVars
<1>2. MoveKeeps /\ TypeOK
  BY DhcpMove, MoveOrders DEF StaInv, SafeInv
<1>3. ~start /\ ~Has(events, Readys)
  BY <1>1 DEF StaInv, SafeInv, BootIsFirst, Booting
<1>4. Beliefs' /\ Orders'
  BY <1>1, <1>2, BeliefsCarry DEF MoveKeeps
<1>5. BootIsFirst'
  BY <1>1, <1>2, <1>3, NotBooting DEF MoveKeeps, Grows
<1>6. \A A : Has(events, A) => Has(events', A)
  BY <1>2 DEF MoveKeeps, Grows
<1>7. ToldEnds'
  BY <1>1, <1>6 DEF StaInv, SafeInv, ToldEnds
<1>8. Recovering'
  BY <1>1, <1>6 DEF StaInv, SafeInv, Recovering
<1>. QED
  BY <1>4, <1>5, <1>7, <1>8 DEF SafeInv

\* Steps that leave the link and the queue alone.
LEMMA RunsKeep ==
  ASSUME StaInv, StartMode \/ ReconnectRun \/ WatchdogRun \/ RestartRun \/ CredsChange
  PROVE  SafeInv'
<1>1. UNCHANGED <<link, addr, events>>
  BY DEF StartMode, ReconnectRun, WatchdogRun, RestartRun, CredsChange, linkVars
<1>2. Orders /\ Beliefs /\ ToldEnds /\ BootIsFirst /\ Recovering /\ TypeOK
  BY DEF StaInv, SafeInv
<1>3. Orders'
  BY <1>1, <1>2 DEF Orders
<1>4. CASE StartMode
  <2>1. link = "down" /\ ~connected /\ told # "connected" /\ gaveUp # "blind"
        /\ ~Has(events, Readys) /\ start
    BY <1>2, <1>4 DEF StartMode, BootIsFirst, Booting
  <2>2. /\ UNCHANGED <<connected, bound_ip, watchdog, creds>> /\ start' = FALSE
        /\ told' # "connected" /\ gaveUp' # "blind" /\ (creds => request' = "start")
    BY <1>4, <2>1 DEF StartMode
  <2>3. Beliefs'
    BY <1>1, <1>2, <2>1, <2>2 DEF Beliefs, BeliefOrder
  <2>4. BootIsFirst'
    BY <1>1, <2>1, <2>2, NotBooting
  <2>5. ToldEnds' /\ Recovering'
    BY <1>1, <2>1, <2>2 DEF ToldEnds, Recovering
  <2>. QED
    BY <1>3, <2>3, <2>4, <2>5 DEF SafeInv
<1>5. CASE ReconnectRun
  <2>1. /\ request = "none" /\ reconnect /\ (~connected => request' = "reconnect")
        /\ UNCHANGED <<connected, bound_ip, scanned, watchdog, restart, start, creds, told, gaveUp>>
    BY <1>5 DEF ReconnectRun, Idle
  <2>2. Beliefs'
    BY <1>1, <1>2, <2>1 DEF Beliefs, BeliefOrder
  <2>3. BootIsFirst'
    BY <1>1, <1>2, <2>1, NotBooting DEF BootIsFirst, Booting
  <2>4. ToldEnds' /\ Recovering'
    BY <1>1, <1>2, <2>1 DEF ToldEnds, Recovering
  <2>. QED
    BY <1>3, <2>2, <2>3, <2>4 DEF SafeInv
<1>6. CASE WatchdogRun
  <2>1. /\ request = "none" /\ watchdog /\ watchdog' = FALSE /\ (~connected => request' = "watchdog")
        /\ UNCHANGED <<connected, bound_ip, scanned, reconnect, restart, start, creds, told, gaveUp>>
    BY <1>6 DEF WatchdogRun, Idle
  <2>2. Beliefs'
    BY <1>1, <1>2, <2>1 DEF Beliefs, BeliefOrder
  <2>3. BootIsFirst'
    BY <1>1, <1>2, <2>1, NotBooting DEF BootIsFirst, Booting
  <2>4. ToldEnds' /\ Recovering'
    BY <1>1, <1>2, <2>1 DEF ToldEnds, Recovering
  <2>. QED
    BY <1>3, <2>2, <2>3, <2>4 DEF SafeInv
<1>7. CASE RestartRun
  <2>1. /\ request = "none" /\ restart
        /\ UNCHANGED <<connected, bound_ip, scanned, watchdog, reconnect, start, creds, told, gaveUp>>
    BY <1>7 DEF RestartRun, Idle
  <2>2. Beliefs'
    BY <1>1, <1>2, <2>1 DEF Beliefs, BeliefOrder
  <2>3. BootIsFirst'
    BY <1>1, <1>2, <2>1, NotBooting DEF BootIsFirst, Booting
  <2>4. ToldEnds' /\ Recovering'
    BY <1>1, <1>2, <2>1 DEF ToldEnds, Recovering
  <2>. QED
    BY <1>3, <2>2, <2>3, <2>4 DEF SafeInv
<1>8. CASE CredsChange
  <2>1. /\ gaveUp' = (IF gaveUp = "no" THEN "creds" ELSE gaveUp)
        /\ UNCHANGED <<connected, bound_ip, scanned, watchdog, reconnect, restart, start, request,
                       told>>
    BY <1>8 DEF CredsChange
  <2>2. gaveUp' # "no" /\ (gaveUp' = "blind" <=> gaveUp = "blind")
        /\ (gaveUp = "refused" => gaveUp' = "refused")
    BY <2>1
  <2>3. Beliefs'
    BY <1>1, <1>2, <2>1, <2>2 DEF Beliefs, BeliefOrder
  <2>4. BootIsFirst'
    BY <1>1, <1>2, <2>1, <2>2 DEF BootIsFirst, Booting
  <2>5. ToldEnds' /\ Recovering'
    BY <1>1, <1>2, <2>1, <2>2 DEF ToldEnds, Recovering
  <2>. QED
    BY <1>3, <2>3, <2>4, <2>5 DEF SafeInv
<1>. QED
  BY <1>4, <1>5, <1>6, <1>7, <1>8

LEMMA ScanEndsKeeps == ASSUME StaInv, ScanEnds PROVE SafeInv'
<1> DEFINE e == Event("scan_done", 0)
<1>1. /\ e \in EventType
      /\ e \notin Drops \union Dels \union Bounds \union Joins \union Fails \union Readys
  BY EventsAre, EventIs DEF Drops, Dels, Bounds, Joins, Fails, Readys, Of
<1>2. TypeOK /\ Orders /\ Beliefs /\ ToldEnds /\ BootIsFirst /\ Recovering
  BY DEF StaInv, SafeInv
<1>3. UNCHANGED <<link, addr, silent, budget>> /\ UNCHANGED staVars /\ Post(<< e >>)
  BY DEF ScanEnds
<1>. HIDE DEF e
<1>4. events' = Put(events, e) /\ events \in Seq(EventType) /\ addr \in {0} \union Addrs
  BY <1>1, <1>2, <1>3, PostType DEF TypeOK, LinkTypeOK
<1>5. Orders' /\ BeliefOrder(link', addr', events') /\ Grows
  BY <1>1, <1>2, <1>3, <1>4, OneKeeps
<1>6. Beliefs'
  BY <1>3, <1>5, BeliefsCarry DEF staVars
<1>7. \A A : Has(events', A) <=> Has(events, A) \/ e \in A
  BY <1>1, <1>4, HasPut
<1>8. BootIsFirst'
  <2>1. Separated(events', Readys, Readys, {})
    BY <1>1, <1>2, <1>4, SeparatedPut DEF BootIsFirst
  <2>. QED
    BY <1>1, <1>2, <1>3, <1>7, <2>1 DEF BootIsFirst, Booting, staVars
<1>9. ToldEnds' /\ Recovering'
  BY <1>2, <1>3, <1>7 DEF ToldEnds, Recovering, staVars
<1>. QED
  BY <1>5, <1>6, <1>8, <1>9 DEF SafeInv
----------------------------------------------------------------------------
(* The handlers of the event thread.                                       *)

\* What is left behind the event that is taken.
LEMMA TakenKeeps ==
  ASSUME StaInv, Taken
  PROVE  /\ Orders'
         /\ \A A : Has(events, A) <=> Has(events', A) \/ Head(events) \in A
         /\ Head(events) \in EventType
<1>1. events \in Seq(EventType) /\ events # << >> /\ events' = Tail(events)
      /\ UNCHANGED <<link, addr>>
  BY DEF StaInv, TypeOK, LinkTypeOK, Taken
<1>2. Orders'
  BY <1>1, OrdersTail DEF StaInv, SafeInv, Orders
<1>. QED
  BY <1>1, <1>2, HasTail, TailIs

LEMMA TakenOrders ==
  ASSUME StaInv, Taken
  PROVE  /\ link = "up" /\ Head(events) \in Drops \union Fails => Has(events', Joins)
         /\ link # "up" /\ Head(events) \in Joins \union Bounds => Has(events', Drops)
         /\ Head(events) \in Bounds => Preceded(events', Joins \union Fails, Drops)
         /\ addr # 0 /\ Head(events) \in Dels \union Drops => Has(events', Bounds)
         /\ Head(events) \in Stale(addr) => Has(events', Dels \union Drops)
         /\ Head(events) \in Dels => Preceded(events', Dels, Bounds)
<1>1. events \in Seq(EventType) /\ events # << >> /\ events' = Tail(events)
      /\ LinkOrder(link, events) /\ LeaseOrder(addr, events)
  BY DEF StaInv, SafeInv, Orders, TypeOK, LinkTypeOK, Taken
<1>2. /\ link = "up" /\ Head(events) \in Drops \union Fails => Has(Tail(events), Joins)
      /\ link # "up" /\ Head(events) \in Joins \union Bounds => Has(Tail(events), Drops)
      /\ Head(events) \in Bounds => Preceded(Tail(events), Joins \union Fails, Drops)
      /\ addr # 0 /\ Head(events) \in Dels \union Drops => Has(Tail(events), Bounds)
      /\ Head(events) \in Stale(addr) => Has(Tail(events), Dels \union Drops)
      /\ Head(events) \in Dels => Preceded(Tail(events), Dels, Bounds)
  BY <1>1, OrdersHead
<1>. QED
  BY <1>1, <1>2

LEMMA TakenBeliefs ==
  ASSUME StaInv, Taken
  PROVE  /\ told = "connected" => /\ Head(events) \notin Joins \union Fails
                                  /\ Head(events) \notin Drops =>
                                       Preceded(events', Joins \union Fails, Drops)
         /\ gaveUp = "blind" => /\ Head(events) \notin Dels
                                /\ Head(events) \notin Bounds => Preceded(events', Dels, Bounds)
<1>1. events \in Seq(EventType) /\ events # << >> /\ events' = Tail(events)
      /\ BeliefOrder(link, addr, events)
  BY DEF StaInv, SafeInv, Beliefs, TypeOK, LinkTypeOK, Taken
<1>. QED
  BY <1>1, BeliefsHead

\* An event of the link shows that the mode has started.
LEMMA TakenStarted ==
  ASSUME StaInv, Taken, start' = start,
         Head(events) \in Drops \union Dels \union Bounds \union Joins \union Fails
  PROVE  BootIsFirst'
<1>1. \A A : Has(events, A) <=> Has(events', A) \/ Head(events) \in A
  BY TakenKeeps
<1>2. ~start /\ ~Has(events, Readys)
  BY <1>1 DEF StaInv, SafeInv, BootIsFirst, Booting
<1>. QED
  BY <1>1, <1>2, NotBooting

LEMMA ReadyKeeps ==
  ASSUME StaInv, Taken, OnReady, Head(events).kind = "ready"
  PROVE  SafeInv'
<1>1. \A A : Has(events, A) <=> Has(events', A) \/ Head(events) \in A
  BY TakenKeeps
<1>2. /\ Head(events) \in Readys
      /\ Head(events) \notin Drops \union Dels \union Bounds \union Joins \union Fails
  BY TakenKeeps DEF Drops, Dels, Bounds, Joins, Fails, Readys, Of
<1>3. /\ link = "down" /\ ~connected /\ told # "connected" /\ gaveUp # "blind"
      /\ ~reconnect /\ ~watchdog /\ ~restart /\ request = "none"
      /\ ~Has(events, Drops \union Dels \union Bounds \union Joins \union Fails)
  BY <1>1, <1>2 DEF StaInv, SafeInv, BootIsFirst, Booting
<1>4. /\ UNCHANGED <<connected, bound_ip, scanned, watchdog, reconnect, restart, request, creds,
                     told, gaveUp, link, addr>>
      /\ start' = TRUE
  BY DEF OnReady, Taken
<1>5. ~Has(events', Readys) /\ Separated(events', Readys, Readys, {})
  <2>1. events \in Seq(EventType) /\ events # << >> /\ events' = Tail(events)
        /\ Separated(events, Readys, Readys, {})
    BY DEF StaInv, SafeInv, BootIsFirst, TypeOK, LinkTypeOK, Taken
  <2>2. Separated(events', Readys, Readys, {}) /\ Preceded(events', Readys, {})
    BY <1>2, <2>1, SeparatedTail
  <2>. QED
    BY <2>2 DEF Preceded, Has
<1>6. Beliefs'
  BY <1>1, <1>2, <1>3, <1>4 DEF StaInv, SafeInv, Beliefs, BeliefOrder
<1>7. BootIsFirst'
  BY <1>1, <1>3, <1>4, <1>5 DEF BootIsFirst, Booting
<1>8. ToldEnds' /\ Recovering'
  BY <1>3, <1>4 DEF ToldEnds, Recovering
<1>. QED
  BY <1>6, <1>7, <1>8, TakenKeeps DEF SafeInv

LEMMA ScanDoneKeeps ==
  ASSUME StaInv, Taken, OnScanDone, Head(events).kind = "scan_done"
  PROVE  SafeInv'
<1>1. \A A : Has(events, A) <=> Has(events', A) \/ Head(events) \in A
  BY TakenKeeps
<1>2. Head(events) \notin Drops \union Dels \union Bounds \union Joins \union Fails \union Readys
  BY TakenKeeps DEF Drops, Dels, Bounds, Joins, Fails, Readys, Of
<1>3. UNCHANGED <<connected, bound_ip, watchdog, reconnect, restart, start, request, creds,
                  told, gaveUp, link, addr>>
  BY DEF OnScanDone, Taken
<1>4. Beliefs /\ ToldEnds /\ BootIsFirst /\ Recovering
  BY DEF StaInv, SafeInv
<1>5. Beliefs'
  BY <1>1, <1>2, <1>3, <1>4, TakenBeliefs DEF Beliefs, BeliefOrder
<1>6. BootIsFirst'
  <2>1. events \in Seq(EventType) /\ events # << >> /\ events' = Tail(events)
    BY DEF StaInv, TypeOK, LinkTypeOK, Taken
  <2>2. Separated(events', Readys, Readys, {})
    BY <1>4, <2>1, SeparatedTail DEF BootIsFirst
  <2>. QED
    BY <1>1, <1>3, <1>4, <2>2 DEF BootIsFirst, Booting
<1>7. ToldEnds' /\ Recovering'
  BY <1>1, <1>2, <1>3, <1>4 DEF ToldEnds, Recovering
<1>. QED
  BY <1>5, <1>6, <1>7, TakenKeeps DEF SafeInv

\* A connect result never meets a handler that takes the device for connected.
LEMMA ConnectedKeeps ==
  ASSUME StaInv, Taken, OnConnected, Head(events).kind = "connect", Head(events).arg = 0
  PROVE  SafeInv'
<1>1. \A A : Has(events, A) <=> Has(events', A) \/ Head(events) \in A
  BY TakenKeeps
<1>2. /\ Head(events) \in Joins
      /\ Head(events) \notin Drops \union Dels \union Bounds \union Fails \union Readys
  BY TakenKeeps DEF Drops, Dels, Bounds, Joins, Fails, Readys, Of
<1>3. /\ UNCHANGED <<connected, bound_ip, reconnect, start, request, creds, told, link, addr>>
      /\ watchdog' = TRUE /\ gaveUp' = "no"
  BY DEF OnConnected, Taken
<1>4. told # "connected" /\ ~connected
  BY <1>2, TakenBeliefs DEF StaInv, SafeInv, Beliefs, BeliefOrder
<1>5. Beliefs'
  BY <1>1, <1>2, <1>3, <1>4 DEF StaInv, SafeInv, Beliefs, BeliefOrder
<1>6. BootIsFirst'
  BY <1>2, <1>3, TakenStarted
<1>7. ToldEnds'
  BY <1>3, <1>4 DEF ToldEnds
<1>8. Recovering'
  <2>1. link # "up" => Has(events', Drops)
    BY <1>2, TakenOrders
  <2>2. Has(events', Drops) =>
          Has(events', Readys \union Joins \union Fails \union Drops \union Bounds)
    BY HasSub
  <2>. QED
    BY <1>3, <2>1, <2>2 DEF Recovering, StaInv, TypeOK, LinkTypeOK
<1>. QED
  BY <1>5, <1>6, <1>7, <1>8, TakenKeeps DEF SafeInv

LEMMA ConnectFailedKeeps ==
  ASSUME StaInv, Taken, OnConnectFailed(Head(events).arg),
         Head(events).kind = "connect", Head(events).arg # 0
  PROVE  SafeInv'
<1>1. \A A : Has(events, A) <=> Has(events', A) \/ Head(events) \in A
  BY TakenKeeps
<1>2. /\ Head(events) \in Fails
      /\ Head(events) \notin Drops \union Dels \union Bounds \union Joins \union Readys
  BY TakenKeeps DEF Drops, Dels, Bounds, Joins, Fails, Readys, Of
<1>3. told # "connected" /\ ~connected /\ gaveUp # "blind"
  BY <1>2, TakenBeliefs DEF StaInv, SafeInv, Beliefs, BeliefOrder
<1>4. /\ UNCHANGED <<connected, bound_ip, watchdog, start, request, creds, link, addr>>
      /\ told' # "connected" /\ gaveUp' # "blind"
      /\ gaveUp' = "no" /\ creds => reconnect' = (reconnect \/ ~BleProv)
  BY <1>3 DEF OnConnectFailed, TellDisconnect, Taken
<1>5. Beliefs'
  BY <1>1, <1>2, <1>3, <1>4 DEF StaInv, SafeInv, Beliefs, BeliefOrder
<1>6. BootIsFirst'
  BY <1>2, <1>4, TakenStarted
<1>7. ToldEnds'
  BY <1>4 DEF ToldEnds
<1>8. Recovering'
  <2>1. link = "up" => Has(events', Joins)
    BY <1>2, TakenOrders
  <2>2. Has(events', Joins) => Has(events', Joins \union Bounds)
    BY HasSub
  <2>. QED
    BY <1>4, <2>1, <2>2 DEF Recovering, StaInv, TypeOK, LinkTypeOK
<1>. QED
  BY <1>5, <1>6, <1>7, <1>8, TakenKeeps DEF SafeInv

LEMMA DisconnectedKeeps ==
  ASSUME StaInv, Taken, OnDisconnected, Head(events).kind = "disconnect"
  PROVE  SafeInv'
<1>1. \A A : Has(events, A) <=> Has(events', A) \/ Head(events) \in A
  BY TakenKeeps
<1>2. Head(events) \in Drops
  BY TakenKeeps DEF Drops, Of
<1>3. /\ UNCHANGED <<start, request, creds, link, addr>>
      /\ connected' = FALSE /\ watchdog' = FALSE /\ told' # "connected" /\ gaveUp' # "blind"
      /\ creds => reconnect' = ~BleProv
  BY DEF OnDisconnected, TellDisconnect, Taken
<1>4. Beliefs'
  <2>1. addr # 0 => Has(events', Bounds)
    BY <1>2, TakenOrders
  <2>2. Has(events', Bounds) => Has(events', Bounds \union Dels \union Drops)
    BY HasSub
  <2>. QED
    BY <1>3, <2>1, <2>2 DEF Beliefs, BeliefOrder
<1>5. BootIsFirst'
  BY <1>2, <1>3, TakenStarted
<1>6. ToldEnds'
  BY <1>3 DEF ToldEnds
<1>7. Recovering'
  <2>1. link = "up" => Has(events', Joins)
    BY <1>2, TakenOrders
  <2>2. Has(events', Joins) => Has(events', Joins \union Bounds)
    BY HasSub
  <2>. QED
    BY <1>3, <2>1, <2>2 DEF Recovering, StaInv, TypeOK, LinkTypeOK
<1>. QED
  BY <1>4, <1>5, <1>6, <1>7, TakenKeeps DEF SafeInv

LEMMA AddrDelKeeps ==
  ASSUME StaInv, Taken, OnAddrDel, Head(events).kind = "addr_del"
  PROVE  SafeInv'
<1>1. \A A : Has(events, A) <=> Has(events', A) \/ Head(events) \in A
  BY TakenKeeps
<1>2. /\ Head(events) \in Dels
      /\ Head(events) \notin Drops \union Fails \union Bounds \union Joins \union Readys
  BY TakenKeeps DEF Drops, Dels, Bounds, Joins, Fails, Readys, Of
<1>3. /\ Beliefs /\ ToldEnds /\ Recovering
      /\ gaveUp # "blind" /\ UNCHANGED <<link, addr>>
      /\ told = "connected" => Preceded(events', Joins \union Fails, Drops)
  BY <1>2, TakenBeliefs DEF StaInv, SafeInv, Taken
<1>4. ~Has(events', Bounds \union Dels \union Drops) => addr = 0
  <2>1. addr # 0 => Has(events', Bounds)
    BY <1>2, TakenOrders
  <2>. QED
    BY <2>1, HasSub
<1>5. CASE connected /\ link = "up"
  <2>1. /\ UNCHANGED <<reconnect, start, request, creds, told, gaveUp>>
        /\ connected' = FALSE /\ watchdog' = TRUE /\ bound_ip' = 0
    BY <1>5 DEF OnAddrDel
  <2>2. Beliefs'
    BY <1>3, <1>4, <1>5, <2>1 DEF Beliefs, BeliefOrder
  <2>3. BootIsFirst'
    BY <1>2, <2>1, TakenStarted
  <2>4. ToldEnds' /\ Recovering'
    BY <1>3, <1>5, <2>1 DEF ToldEnds, Recovering
  <2>. QED
    BY <2>2, <2>3, <2>4, TakenKeeps DEF SafeInv
<1>6. CASE ~(connected /\ link = "up")
  <2>1. UNCHANGED <<connected, watchdog, bound_ip, reconnect, start, request, creds, told, gaveUp>>
    BY <1>6 DEF OnAddrDel, staVars
  <2>2. connected => Has(events', Bounds \union Dels \union Drops)
    <3>1. connected => Has(events', Drops)
      BY <1>1, <1>2, <1>3, <1>6 DEF Beliefs, BeliefOrder
    <3>. QED
      BY <3>1, HasSub
  <2>3. Beliefs'
    BY <1>1, <1>2, <1>3, <1>4, <2>1, <2>2 DEF Beliefs, BeliefOrder
  <2>4. BootIsFirst'
    BY <1>2, <2>1, TakenStarted
  <2>5. ToldEnds' /\ Recovering'
    BY <1>1, <1>2, <1>3, <2>1 DEF ToldEnds, Recovering
  <2>. QED
    BY <2>3, <2>4, <2>5, TakenKeeps DEF SafeInv
<1>. QED
  BY <1>5, <1>6

LEMMA AddrDelBlindKeeps ==
  ASSUME StaInv, Taken, OnAddrDelBlind, Head(events).kind = "addr_del"
  PROVE  SafeInv'
<1>1. Head(events) \in Dels
  BY TakenKeeps DEF Dels, Of
<1>2. /\ connected /\ gaveUp' = "blind" /\ link = "up"
      /\ UNCHANGED <<connected, bound_ip, watchdog, start, request, told, link, addr>>
  BY DEF OnAddrDelBlind, Taken
<1>3. ~watchdog /\ told = "connected"
  BY <1>2 DEF StaInv, SafeInv, Beliefs, BeliefOrder
<1>4. Preceded(events', Joins \union Fails, Drops)
  <2>1. Head(events) \notin Drops
    BY <1>1 DEF Drops, Dels, Of
  <2>. QED
    BY <1>3, <2>1, TakenBeliefs
<1>5. Preceded(events', Dels, Bounds) /\ (addr # 0 => Has(events', Bounds))
  BY <1>1, TakenOrders
<1>6. Beliefs'
  BY <1>2, <1>3, <1>4, <1>5 DEF Beliefs, BeliefOrder
<1>7. BootIsFirst'
  BY <1>1, <1>2, TakenStarted
<1>8. ToldEnds' /\ Recovering'
  BY <1>2 DEF ToldEnds, Recovering
<1>. QED
  BY <1>6, <1>7, <1>8, TakenKeeps DEF SafeInv

LEMMA BoundKeeps ==
  ASSUME StaInv, Taken, OnBound(Head(events).arg), Head(events).kind = "bound"
  PROVE  SafeInv'
<1>1. Head(events) \in Bounds
  BY TakenKeeps DEF Bounds, Of
<1>2. connected => told = "connected"
  BY DEF StaInv, SafeInv, Beliefs, BeliefOrder
<1>3. /\ connected' = TRUE /\ bound_ip' = Head(events).arg /\ watchdog' = FALSE
      /\ gaveUp' = "no" /\ told' = "connected"
      /\ UNCHANGED <<start, link, addr>>
  BY <1>2 DEF OnBound, StandDown, Taken
<1>4. Beliefs'
  <2>1. /\ link # "up" => Has(events', Drops)
        /\ Preceded(events', Joins \union Fails, Drops)
    BY <1>1, TakenOrders
  <2>2. Head(events).arg # addr => Has(events', Bounds \union Dels \union Drops)
    <3>1. Head(events).arg # addr => Has(events', Dels \union Drops)
      BY <1>1, TakenOrders DEF Stale
    <3>. QED
      BY <3>1, HasSub
  <2>. QED
    BY <1>3, <2>1, <2>2 DEF Beliefs, BeliefOrder
<1>5. BootIsFirst'
  BY <1>1, <1>3, TakenStarted
<1>6. ToldEnds' /\ Recovering'
  BY <1>3 DEF ToldEnds, Recovering
<1>. QED
  BY <1>4, <1>5, <1>6, TakenKeeps DEF SafeInv
----------------------------------------------------------------------------
LEMMA StaInvStarts == Init => StaInv
<1>. SUFFICES ASSUME Init PROVE StaInv
  OBVIOUS
<1> DEFINE e == Event("ready", 0)
<1>1. /\ link = "down" /\ addr = 0 /\ events = << e >> /\ connected = FALSE
      /\ watchdog = FALSE /\ reconnect = FALSE /\ restart = FALSE /\ start = FALSE
      /\ request = "none" /\ told = "none" /\ gaveUp = "no" /\ bound_ip = 0
      /\ scanned = FALSE /\ silent = FALSE /\ budget = Budget /\ creds \in BOOLEAN
  BY DEF Init, LinkInit, StaInit
<1>2. e \in EventType /\ e \notin Drops \union Dels \union Bounds \union Joins \union Fails
  BY EventsAre, EventIs DEF Drops, Dels, Bounds, Joins, Fails, Of
<1>. HIDE DEF e
<1>3. events[1] = e /\ Pos(events) = {1} /\ events \in Seq(EventType) /\ Len(events) = 1
  BY <1>1, <1>2, SMT DEF Pos
<1>4. TypeOK
  <2>1. LinkTypeOK
    <3>1. Budget \in 0 .. Budget /\ 1 <= MaxEvents
      BY WifiLinkAssumption, SMT DEF WifiLinkAssumption
    <3>. QED
      BY <1>1, <1>3, <3>1 DEF LinkTypeOK
  <2>. QED
    BY <1>1, <2>1, TypeParts
<1>5. \A A : Has(events, A) => e \in A
  BY <1>3 DEF Has
<1>6. \A A, B, C : Separated(events, A, C, B)
  BY <1>3, SMT DEF Separated
<1>7. Orders
  <2>1. \A A, B : e \notin A => Followed(events, A, B)
    BY <1>3 DEF Followed
  <2>2. e \notin Stale(addr)
    BY <1>2 DEF Stale
  <2>. QED
    BY <1>1, <1>2, <1>6, <2>1, <2>2 DEF Orders, LinkOrder, LeaseOrder
<1>8. Beliefs /\ ToldEnds
  BY <1>1, <1>2, <1>5 DEF Beliefs, BeliefOrder, ToldEnds
<1>9. BootIsFirst
  BY <1>1, <1>2, <1>5, <1>6 DEF BootIsFirst, Booting
<1>10. Recovering
  <2>1. e \in Readys
    BY EventsAre, EventIs DEF Readys, Of, e
  <2>2. Has(events, Readys \union Joins \union Fails \union Drops \union Bounds)
    BY <1>3, <2>1 DEF Has
  <2>. QED
    BY <1>1, <2>2 DEF Recovering
<1>. QED
  BY <1>4, <1>7, <1>8, <1>9, <1>10, Zenon DEF StaInv, SafeInv

LEMMA HandleKeeps == ASSUME StaInv, HandleEvent \/ HandleAddrDelBlind PROVE SafeInv'
<1>1. Taken
  BY DEF HandleEvent, HandleAddrDelBlind, Taken
<1>2. CASE HandleAddrDelBlind
  BY <1>1, <1>2, AddrDelBlindKeeps DEF HandleAddrDelBlind
<1>3. CASE HandleEvent
  BY <1>1, <1>3, ReadyKeeps, ScanDoneKeeps, ConnectedKeeps, ConnectFailedKeeps,
     DisconnectedKeeps, AddrDelKeeps, BoundKeeps DEF HandleEvent, NetHandle
<1>. QED
  BY <1>2, <1>3

LEMMA StaNext == ASSUME StaInv, [Next]_vars PROVE StaInv'
<1>1. TypeOK'
  BY StaTypes DEF StaInv
<1>2. CASE UNCHANGED vars
  <2>1. UNCHANGED <<link, addr, events, connected, bound_ip, watchdog, reconnect, restart, start,
                    request, creds, told, gaveUp>>
    BY <1>2 DEF vars
  <2>2. SafeInv'
    BY <2>1 DEF StaInv, SafeInv, Orders, Beliefs, BeliefOrder, ToldEnds, BootIsFirst, Booting,
                Recovering
  <2>. QED
    BY <1>1, <2>2 DEF StaInv
<1>3. CASE Next
  <2>1. SafeInv'
    BY <1>3, HandleKeeps, RunsKeep, RequestConnectKeeps, RequestDisconnectKeeps, RequestDhcpKeeps,
       NetworkKeeps, ScanEndsKeeps DEF Next, Work
  <2>. QED
    BY <1>1, <2>1 DEF StaInv
<1>. QED
  BY <1>2, <1>3

\* The inductive invariant of STA mode.
THEOREM StaInvariant == Spec => []StaInv
  BY StaInvStarts, StaNext, PTL DEF Spec

\* Types, and the remembered address is zeroed whenever the connection is.
THEOREM StaTypeCorrect == Spec => []TypeOK
<1>1. StaInv => TypeOK
  BY DEF StaInv
<1>. QED
  BY <1>1, StaInvariant, PTL

LEMMA NothingWaits == ASSUME events = << >> PROVE \A A : ~Has(events, A)
  BY SMT DEF Has, Pos

\* Where no other brick reconnects: the handlers of l2_wifi_conn_event_handler,
\* l3_ipv4_event_handler and the work items leave a device that lost a stored
\* network with its recovery pending, whatever the network does.
THEOREM RecoveryPendingHolds == ASSUME ~BleProv PROVE Spec => []RecoveryPending
<1>1. ASSUME StaInv PROVE RecoveryPending
  <2>. SUFFICES ASSUME creds, ~connected, gaveUp = "no", events = << >>
                PROVE  watchdog \/ reconnect \/ start \/ request # "none" \/ link = "joining"
    BY DEF RecoveryPending
  <2>. QED
    BY <1>1, NothingWaits DEF StaInv, SafeInv, Recovering
<1>. QED
  BY <1>1, StaInvariant, PTL

\* With every event handled the brick believes what the interface says, and the
\* watchdog never ticks on a device taken for connected.
THEOREM BelievesLeaseHolds == Spec => []BelievesLease
<1>1. ASSUME StaInv PROVE BelievesLease
  BY <1>1, NothingWaits DEF StaInv, SafeInv, Beliefs, BeliefOrder, BelievesLease
<1>. QED
  BY <1>1, StaInvariant, PTL

\* The hooks tell the application of every connection, and leave it with a lost
\* one only while the watchdog is about to end that state or the stack refused to
\* let it.
THEOREM AppToldHolds == Spec => []AppTold
<1>1. ASSUME StaInv PROVE AppTold
  BY <1>1, NothingWaits DEF StaInv, SafeInv, Beliefs, BeliefOrder, ToldEnds, AppTold
<1>. QED
  BY <1>1, StaInvariant, PTL

----------------------------------------------------------------------------
(* With the BLE provisioning brick, which reconnects in the place of this  *)
(* one.  Its requests may come before the mode has started, so of the      *)
(* invariant above only the order of the link's events is left.            *)

\* A connected device was told so after the last drop it has handled: a new
\* association is reported only after the end of this one.
ConnectedOrder(l, q) ==
  connected =>
    /\ ~dhcp_watchdog
    /\ Preceded(q, Joins, Drops)
    /\ l # "up" => Has(q, Drops)

\* Where a marked reconnect cycle is.
CycleOrder ==
  /\ pending => work \/ step # "idle"
  /\ pending /\ step = "return" => work \/ cycle

\* Events on which the handlers act when the link is down.
Wakes == Drops \union Fails \union Readys

\* What leads on from a link that is down, by where the reconnect handler is.
RetryOrder ==
  creds /\ link = "down" /\ left = "no" =>
    \/ work \/ start \/ request = "start" \/ Has(events, Wakes)
    \/ step = "status"
    \/ step = "decide" /\ (seen # "joining" \/ pending)
    \/ step = "return" /\ cycle

\* The network brick leaves the reconnect to this one.
HandedOver == ~reconnect /\ request # "reconnect"

BleLink == LinkOrder(link, events) /\ ConnectedOrder(link, events)

BleInv ==
  /\ TypeOKBle
  /\ BleLink
  /\ CycleOrder
  /\ BleProv => HandedOver /\ RetryOrder

LEMMA BleTypeParts ==
  TypeOKBle <=>
    /\ TypeOK
    /\ pending \in BOOLEAN /\ work \in BOOLEAN /\ cycle \in BOOLEAN /\ dhcp_watchdog \in BOOLEAN
    /\ ble_scanned \in BOOLEAN /\ requested \in BOOLEAN /\ at_boot \in BOOLEAN /\ last_prov \in BOOLEAN
    /\ step \in {"idle", "status", "decide", "return"} /\ seen \in {"down", "joining", "up"}
    /\ left \in {"no", "creds", "pre_scan", "deferred", "stale", "boot", "once"}
    /\ step # "idle" => Idle
  BY DEF TypeOKBle

\* The steps of the other brick: its own or the link's.
LEMMA StaSteps ==
  ASSUME NextBle
  PROVE  \/ Next \/ UNCHANGED vars \/ DecideConnect \/ DhcpBindWatchdog
         \/ StatusQuery /\ Disturb /\ UNCHANGED <<link, addr, silent, events, staVars>>
  BY DEF NextBle, HandleBoth, NetWork, ConnectWork, StatusQuery, DecideConnected, DecideNoCreds,
         DecideJoining, ConnectReturns, AdvUpdate, CredsChangeBle, Next, vars, staVars

LEMMA RebootTypes == ASSUME TypeOK, DhcpBindWatchdog PROVE TypeOK' /\ events' \in Seq(EventType)
<1>1. << Event("ready", 0) >> \in Seq(EventType) /\ Len(<< Event("ready", 0) >>) = 1
  BY EventsAre
<1>2. 1 <= MaxEvents
  BY WifiLinkAssumption, SMT DEF WifiLinkAssumption
<1>3. budget' \in 0 .. Budget
  BY BudgetTypes DEF TypeOK, DhcpBindWatchdog
<1>4. LinkTypeOK'
  BY <1>1, <1>2, <1>3 DEF LinkTypeOK, DhcpBindWatchdog
<1>. QED
  BY <1>1, <1>4, TypeParts DEF DhcpBindWatchdog, TypeOK

LEMMA BleStaTypes == ASSUME TypeOK, NextBle PROVE TypeOK'
<1>1. CASE Next \/ UNCHANGED vars
  BY <1>1, StaTypes
<1>2. CASE DecideConnect
  <2>1. LinkOp /\ UNCHANGED staVars
    BY <1>2 DEF DecideConnect, LinkOp
  <2>2. LinkTypeOK'
    BY <2>1, LinkTypes DEF TypeOK
  <2>. QED
    BY <2>1, <2>2 DEF TypeOK, staVars
<1>3. CASE StatusQuery /\ Disturb /\ UNCHANGED <<link, addr, silent, events, staVars>>
  BY <1>3, BudgetTypes DEF TypeOK, LinkTypeOK, staVars
<1>. QED
  BY <1>1, <1>2, <1>3, StaSteps, RebootTypes

LEMMA BleFlagTypes ==
  ASSUME TypeOKBle, NextBle
  PROVE  /\ pending' \in BOOLEAN /\ work' \in BOOLEAN /\ cycle' \in BOOLEAN
         /\ dhcp_watchdog' \in BOOLEAN /\ ble_scanned' \in BOOLEAN /\ requested' \in BOOLEAN
         /\ at_boot' \in BOOLEAN /\ last_prov' \in BOOLEAN
<1>. USE BleTypeParts, TypeParts
<1>1. CASE HandleBoth
  BY <1>1 DEF HandleBoth, BleHandle, BleScanDone, BleScheduleRetry, BleConnected, BleConnectFailed,
              BleDisconnected, BleDhcpBound
<1>2. CASE NetWork \/ CredsChangeBle \/ UNCHANGED bleVars
  BY <1>2 DEF NetWork, CredsChangeBle, bleVars
<1>3. CASE ConnectWork \/ StatusQuery \/ DecideConnected \/ DecideNoCreds
  BY <1>3 DEF ConnectWork, StatusQuery, DecideConnected, DecideNoCreds
<1>4. CASE DecideJoining \/ DecideConnect \/ ConnectReturns
  BY <1>4 DEF DecideJoining, DecideConnect, ConnectReturns, Reschedule
<1>5. CASE DhcpBindWatchdog \/ AdvUpdate
  BY <1>5 DEF DhcpBindWatchdog, AdvUpdate, prov_state
<1>. QED
  BY <1>1, <1>2, <1>3, <1>4, <1>5 DEF NextBle

LEMMA BleStepTypes ==
  ASSUME TypeOKBle, NextBle
  PROVE  /\ step' \in {"idle", "status", "decide", "return"} /\ seen' \in {"down", "joining", "up"}
         /\ left' \in {"no", "creds", "pre_scan", "deferred", "stale", "boot", "once"}
         /\ step' # "idle" => Idle'
<1>0. link \in {"down", "joining", "up"}
  BY DEF TypeOKBle, TypeOK, LinkTypeOK
<1>1. CASE HandleBoth
  <2>1. request' = request
    BY <1>1 DEF HandleBoth, HandleEvent, NetHandle, OnReady, OnScanDone, OnConnected, OnConnectFailed,
                OnDisconnected, OnAddrDel, OnBound, staVars
  <2>. QED
    BY <1>1, <2>1 DEF TypeOKBle, Idle, HandleBoth, BleHandle, BleScanDone, BleScheduleRetry, BleConnected,
                      BleConnectFailed, BleDisconnected, BleDhcpBound
<1>2. CASE NetWork \/ CredsChangeBle
  BY <1>2 DEF TypeOKBle, Idle, NetWork, CredsChangeBle, CredsChange
<1>3. CASE ConnectWork \/ StatusQuery \/ DecideConnected \/ DecideNoCreds
  BY <1>0, <1>3 DEF TypeOKBle, Idle, Free, ConnectWork, StatusQuery, DecideConnected, DecideNoCreds, vars, staVars
<1>4. CASE DecideJoining \/ DecideConnect \/ ConnectReturns
  BY <1>4 DEF TypeOKBle, Idle, DecideJoining, DecideConnect, ConnectReturns, vars, staVars
<1>5. CASE DhcpBindWatchdog \/ AdvUpdate
  BY <1>5 DEF TypeOKBle, Idle, DhcpBindWatchdog, AdvUpdate, vars
<1>6. CASE HandleAddrDelBlind /\ UNCHANGED bleVars
  BY <1>6 DEF TypeOKBle, Idle, HandleAddrDelBlind, OnAddrDelBlind, bleVars
<1>7. CASE (ScanEnds \/ Network \/ Shell) /\ UNCHANGED bleVars
  BY <1>7 DEF TypeOKBle, Idle, ScanEnds, Network, Shell, staVars, bleVars
<1>. QED
  BY <1>1, <1>2, <1>3, <1>4, <1>5, <1>6, <1>7 DEF NextBle

LEMMA BleTypes == ASSUME TypeOKBle, [NextBle]_allVars PROVE TypeOKBle'
<1>1. CASE UNCHANGED allVars
  BY <1>1, StaTypes DEF TypeOKBle, allVars, bleVars, vars, Idle
<1>2. CASE NextBle
  <2>1. TypeOK'
    BY <1>2, BleStaTypes DEF TypeOKBle
  <2>. QED
    BY <1>2, <2>1, BleFlagTypes, BleStepTypes DEF TypeOKBle
<1>. QED
  BY <1>1, <1>2

\* One event more, in a link that goes from l to m.
LEMMA ConnectedOrderPut ==
  ASSUME NEW q \in Seq(EventType), NEW e \in EventType, NEW l, NEW m, ConnectedOrder(l, q),
         e \in Joins => l # "up", m # "up" => e \in Drops \/ l # "up"
  PROVE  ConnectedOrder(m, Put(q, e))
<1>. SUFFICES ASSUME connected
              PROVE  ~dhcp_watchdog /\ Preceded(Put(q, e), Joins, Drops)
                     /\ (m # "up" => Has(Put(q, e), Drops))
  BY DEF ConnectedOrder
<1>1. ~dhcp_watchdog /\ Preceded(q, Joins, Drops) /\ (l # "up" => Has(q, Drops))
  BY DEF ConnectedOrder
<1>2. Preceded(Put(q, e), Joins, Drops)
  BY <1>1, PrecededPut
<1>3. Has(Put(q, e), Drops) <=> Has(q, Drops) \/ e \in Drops
  BY HasPut
<1>. QED
  BY <1>1, <1>2, <1>3

\* What a step that is no handler's does to the link and the queue.
BleMoveKeeps ==
  /\ LinkOrder(link', events') /\ ConnectedOrder(link', events')
  /\ Grows /\ Announced

LEMMA BleOneKeeps ==
  ASSUME TypeOK, BleLink, NEW e \in EventType, events' = Put(events, e), e \notin Readys,
         link' = "up" => e \in Joins \/ (link = "up" /\ e \notin Drops \union Fails),
         link' # "up" => e \in Drops \/ (link # "up" /\ e \notin Joins \union Bounds),
         e \in Joins \union Fails => link # "up",
         link = "down" => link' # "up",
         link = "joining" /\ link' = "down" => e \in Fails
  PROVE  BleMoveKeeps
<1>1. events \in Seq(EventType)
  BY DEF TypeOK, LinkTypeOK
<1>2. LinkOrder(link', Put(events, e))
  BY <1>1, LinkOrderPut DEF BleLink
<1>3. ConnectedOrder(link', Put(events, e))
  BY <1>1, ConnectedOrderPut DEF BleLink
<1>4. \A A : Has(events', A) <=> Has(events, A) \/ e \in A
  BY <1>1, HasPut
<1>5. Announced
  BY <1>4 DEF Announced
<1>. QED
  BY <1>2, <1>3, <1>4, <1>5 DEF BleMoveKeeps, Grows

LEMMA BleMove == ASSUME TypeOK, BleLink, Move PROVE BleMoveKeeps
<1>. USE EventsAre, EventIs
<1>0. /\ events \in Seq(EventType) /\ addr \in {0} \union Addrs
      /\ link \in {"down", "joining", "up"} /\ (addr # 0 => link = "up")
  BY DEF TypeOK, LinkTypeOK
<1>1. CASE /\ link = "joining" /\ link' = "up" /\ events' = Put(events, Event("connect", 0))
  <2>1. Event("connect", 0) \in Joins /\ Event("connect", 0) \in EventType
        /\ Event("connect", 0) \notin Drops \union Fails \union Bounds \union Readys
    BY DEF Joins, Fails, Drops, Bounds, Readys, Of
  <2>. QED
    BY <1>1, <2>1, BleOneKeeps
<1>2. ASSUME NEW x \in 1 .. 2, link = "joining", link' \in {"down", "joining"},
             events' = Put(events, Event("connect", x))
      PROVE  BleMoveKeeps
  <2>1. Event("connect", x) \in Fails /\ Event("connect", x) \in EventType
        /\ Event("connect", x) \notin Drops \union Joins \union Bounds \union Readys
    BY DEF Joins, Fails, Drops, Bounds, Readys, Of
  <2>. QED
    BY <1>2, <2>1, BleOneKeeps
<1>3. CASE /\ link = "up" /\ link' = "up" /\ addr' \in Addrs
           /\ events' = Put(events, Event("bound", addr'))
  <2>1. Event("bound", addr') \in EventType
        /\ Event("bound", addr') \notin Drops \union Joins \union Fails \union Readys
    BY <1>3 DEF Joins, Fails, Drops, Readys, Of
  <2>. QED
    BY <1>3, <2>1, BleOneKeeps
<1>4. CASE link' = link /\ events' = Put(events, Event("addr_del", 0))
  <2>1. Event("addr_del", 0) \in EventType
        /\ Event("addr_del", 0) \notin Drops \union Joins \union Bounds \union Fails \union Readys
    BY DEF Joins, Fails, Drops, Bounds, Readys, Of
  <2>. QED
    BY <1>0, <1>4, <2>1, BleOneKeeps
<1>5. ASSUME NEW r \in 0 .. 1, link = "up", link' \in {"down", "joining"},
             events' = IF addr = 0 THEN Put(events, Event("disconnect", r))
                       ELSE Put(Put(events, Event("addr_del", 0)), Event("disconnect", r))
      PROVE  BleMoveKeeps
  <2> DEFINE d == Event("addr_del", 0)
             e == Event("disconnect", r)
             q == IF addr = 0 THEN events ELSE Put(events, d)
  <2>1. d \in EventType /\ d \notin Drops \union Joins \union Bounds \union Fails \union Readys
    BY DEF Joins, Fails, Drops, Bounds, Readys, Of
  <2>2. e \in Drops /\ e \in EventType /\ e \notin Joins \union Bounds \union Fails \union Readys
    BY DEF Joins, Fails, Drops, Bounds, Readys, Of
  <2>. HIDE DEF d, e
  <2>3. q \in Seq(EventType) /\ events' = Put(q, e)
    BY <1>0, <1>5, <2>1, PutIs DEF d, e
  <2>4. LinkOrder("up", q) /\ ConnectedOrder("up", q)
        /\ (\A A : Has(q, A) => Has(events, A) \/ d \in A) /\ (\A A : Has(events, A) => Has(q, A))
    <3>1. CASE addr = 0
      BY <1>5, <3>1 DEF BleLink
    <3>2. CASE addr # 0
      <4>1. LinkOrder("up", Put(events, d))
        BY <1>0, <1>5, <2>1, LinkOrderPut DEF BleLink
      <4>2. ConnectedOrder("up", Put(events, d))
        BY <1>0, <1>5, <2>1, ConnectedOrderPut DEF BleLink
      <4>3. \A A : Has(Put(events, d), A) <=> Has(events, A) \/ d \in A
        BY <1>0, <2>1, HasPut
      <4>. QED
        BY <3>2, <4>1, <4>2, <4>3
    <3>. QED
      BY <3>1, <3>2
  <2>. HIDE DEF q
  <2>5. LinkOrder(link', events')
    BY <1>5, <2>2, <2>3, <2>4, LinkOrderPut
  <2>6. ConnectedOrder(link', events')
    BY <1>5, <2>2, <2>3, <2>4, ConnectedOrderPut
  <2>7. \A A : Has(events', A) <=> Has(q, A) \/ e \in A
    BY <2>2, <2>3, HasPut
  <2>. QED
    BY <1>5, <2>1, <2>2, <2>4, <2>5, <2>6, <2>7 DEF BleMoveKeeps, Grows, Announced
<1>6. CASE link # "up" /\ link' = "joining" /\ UNCHANGED events
  BY <1>0, <1>6 DEF BleMoveKeeps, BleLink, Grows, Announced, LinkOrder, ConnectedOrder
<1>7. CASE UNCHANGED <<link, events>>
  BY <1>0, <1>7 DEF BleMoveKeeps, BleLink, Grows, Announced
<1>. QED
  BY <1>0, <1>1, <1>2, <1>3, <1>4, <1>5, <1>6, <1>7 DEF Move

Handling == HandleBoth \/ (HandleAddrDelBlind /\ UNCHANGED bleVars)

LEMMA BleMoves ==
  ASSUME TypeOK, BleLink, NextBle, ~Handling, ~DhcpBindWatchdog
  PROVE  BleMoveKeeps /\ UNCHANGED <<connected, dhcp_watchdog>>
<1>1. UNCHANGED dhcp_watchdog
  BY DEF NextBle, Handling, NetWork, ConnectWork, StatusQuery, DecideConnected, DecideNoCreds,
         DecideJoining, DecideConnect, ConnectReturns, AdvUpdate, CredsChangeBle, bleVars
<1>2. UNCHANGED connected
  BY DEF NextBle, Handling, NetWork, Work, StartMode, ReconnectRun, WatchdogRun, RestartRun,
         RequestConnect, RequestDisconnect, RequestDhcp, ConnectWork, StatusQuery, DecideConnected,
         DecideNoCreds, DecideJoining, DecideConnect, ConnectReturns, AdvUpdate, CredsChangeBle,
         CredsChange, ScanEnds, Network, Shell, vars, staVars
<1>. SUFFICES BleMoveKeeps
  BY <1>1, <1>2
<1>3. CASE StartMode \/ ReconnectRun \/ WatchdogRun \/ RestartRun \/ CredsChange
  BY <1>3, BleMove DEF StartMode, ReconnectRun, WatchdogRun, RestartRun, CredsChange, linkVars, Move
<1>4. CASE RequestConnect \/ RequestDisconnect \/ Network \/ Shell \/ DecideConnect
  <2>1. LinkOp
    BY <1>4 DEF RequestConnect, RequestDisconnect, Network, Shell, DecideConnect, LinkOp
  <2>. QED
    BY <2>1, MoveIs, BleMove DEF TypeOK
<1>5. CASE RequestDhcp
  BY <1>5, DhcpMove, BleMove
<1>6. CASE ScanEnds
  <2>1. /\ Event("scan_done", 0) \in EventType
        /\ Event("scan_done", 0) \notin Drops \union Bounds \union Joins \union Fails \union Readys
    BY EventsAre, EventIs DEF Drops, Bounds, Joins, Fails, Readys, Of
  <2>2. events' = Put(events, Event("scan_done", 0)) /\ link' = link
    BY <1>6, <2>1, PostType DEF ScanEnds, TypeOK
  <2>3. link \in {"down", "joining", "up"}
    BY DEF TypeOK, LinkTypeOK
  <2>. QED
    BY <2>1, <2>2, <2>3, BleOneKeeps
<1>7. CASE \/ ConnectWork \/ StatusQuery \/ DecideConnected \/ DecideNoCreds
           \/ DecideJoining \/ ConnectReturns \/ AdvUpdate
  BY <1>7, BleMove DEF ConnectWork, StatusQuery, DecideConnected, DecideNoCreds, DecideJoining,
                       ConnectReturns, AdvUpdate, vars, Move
<1>. QED
  BY <1>3, <1>4, <1>5, <1>6, <1>7, <1>1, <1>2 DEF NextBle, Handling, NetWork, Work, CredsChangeBle

\* What the event thread knows of the event it takes.
LEMMA PrecededSub ==
  ASSUME NEW q, NEW A, NEW B, NEW C, Preceded(q, A, B), C \subseteq A
  PROVE  Preceded(q, C, B)
  BY DEF Preceded

LEMMA BleTaken ==
  ASSUME TypeOK, BleLink, Taken
  PROVE  /\ LinkOrder(link, events')
         /\ \A A : Has(events, A) <=> Has(events', A) \/ Head(events) \in A
         /\ Head(events) \in EventType
         /\ link # "up" /\ Head(events) \in Joins \union Bounds => Has(events', Drops)
         /\ Head(events) \in Bounds => Preceded(events', Joins, Drops)
         /\ connected => /\ Head(events) \notin Joins
                         /\ Head(events) \notin Drops => Preceded(events', Joins, Drops)
<1>1. events \in Seq(EventType) /\ events # << >> /\ events' = Tail(events)
  BY DEF TypeOK, LinkTypeOK, Taken
<1>2. LinkOrder(link, Tail(events))
  BY <1>1, FollowedTail, SeparatedTail DEF BleLink, LinkOrder
<1>3. link # "up" /\ Head(events) \in Joins \union Bounds => Has(Tail(events), Drops)
  BY <1>1, FollowedTail DEF BleLink, LinkOrder
<1>4. ASSUME Head(events) \in Bounds PROVE Preceded(Tail(events), Joins, Drops)
  <2>1. Preceded(Tail(events), Joins \union Fails, Drops)
    BY <1>1, <1>4, SeparatedTail DEF BleLink, LinkOrder
  <2>. QED
    BY <2>1, PrecededSub
<1>5. ASSUME connected
      PROVE  /\ Head(events) \notin Joins
             /\ Head(events) \notin Drops => Preceded(Tail(events), Joins, Drops)
  BY <1>1, <1>5, PrecededTail DEF BleLink, ConnectedOrder
<1>6. /\ \A A : Has(events, A) <=> Has(Tail(events), A) \/ Head(events) \in A
      /\ Head(events) \in EventType
  BY <1>1, HasTail, TailIs
<1>. QED
  BY <1>1, <1>2, <1>3, <1>4, <1>5, <1>6

\* The kind of the event that is taken decides what either brick does.
LEMMA BleHandles ==
  ASSUME TypeOK, HandleBoth
  PROVE  /\ Taken /\ Head(events) \in EventType /\ UNCHANGED <<step, cycle, seen, creds, request>>
         /\ \/ Head(events) \in Readys /\ OnReady /\ UNCHANGED <<pending, work, dhcp_watchdog, left>>
            \/ /\ Head(events).kind = "scan_done" /\ OnScanDone
               /\ UNCHANGED <<pending, work, dhcp_watchdog, left>>
            \/ Head(events) \in Dels /\ OnAddrDel /\ UNCHANGED <<pending, work, dhcp_watchdog, left>>
            \/ Head(events) \in Joins /\ OnConnected /\ BleConnected
            \/ /\ Head(events) \in Fails /\ OnConnectFailed(Head(events).arg)
               /\ BleConnectFailed(Head(events).arg)
            \/ Head(events) \in Drops /\ OnDisconnected /\ BleDisconnected(Head(events).arg)
            \/ Head(events) \in Bounds /\ OnBound(Head(events).arg) /\ BleDhcpBound(Head(events).arg)
<1>1. Taken /\ Head(events) \in EventType
  BY TailIs DEF HandleBoth, HandleEvent, Taken, TypeOK, LinkTypeOK
<1> DEFINE e == Head(events)
<1>2. e \in EventType /\ NetHandle(e) /\ BleHandle(e) /\ UNCHANGED <<step, cycle, seen>>
  BY <1>1 DEF HandleBoth, HandleEvent
<1>. HIDE DEF e
<1>3. UNCHANGED <<creds, request>>
  BY <1>2 DEF NetHandle, OnReady, OnScanDone, OnConnected, OnConnectFailed, OnDisconnected, OnAddrDel,
              OnBound, staVars
<1>4. \/ e \in Readys /\ OnReady /\ UNCHANGED <<pending, work, dhcp_watchdog, left>>
      \/ e.kind = "scan_done" /\ OnScanDone /\ UNCHANGED <<pending, work, dhcp_watchdog, left>>
      \/ e \in Dels /\ OnAddrDel /\ UNCHANGED <<pending, work, dhcp_watchdog, left>>
      \/ e \in Joins /\ OnConnected /\ BleConnected
      \/ e \in Fails /\ OnConnectFailed(e.arg) /\ BleConnectFailed(e.arg)
      \/ e \in Drops /\ OnDisconnected /\ BleDisconnected(e.arg)
      \/ e \in Bounds /\ OnBound(e.arg) /\ BleDhcpBound(e.arg)
  <2>1. CASE e.kind = "scan_done"
    BY <1>2, <2>1 DEF NetHandle, BleHandle, BleScanDone
  <2>2. CASE e.kind \in {"ready", "addr_del"}
    BY <1>2, <2>2 DEF NetHandle, BleHandle, Readys, Dels, Of
  <2>3. CASE e.kind = "connect"
    BY <1>2, <2>3 DEF NetHandle, BleHandle, Joins, Fails, Of
  <2>4. CASE e.kind \in {"disconnect", "bound"}
    BY <1>2, <2>4 DEF NetHandle, BleHandle, Drops, Bounds, Of
  <2>. QED
    BY <1>2, <2>1, <2>2, <2>3, <2>4 DEF BleHandle
<1>. QED
  BY <1>1, <1>2, <1>3, <1>4 DEF e

LEMMA BleLinkKeeps == ASSUME TypeOK, BleLink, [NextBle]_allVars PROVE BleLink'
<1>1. CASE NextBle /\ ~Handling /\ ~DhcpBindWatchdog
  BY <1>1, BleMoves DEF BleMoveKeeps, BleLink, ConnectedOrder
<1>2. CASE HandleBoth
  <2>1. LinkOrder(link, events') /\ UNCHANGED link
    BY <1>2, BleHandles, BleTaken DEF Taken
  <2>2. ConnectedOrder(link, events)'
    <3>1. CASE Head(events) \in Bounds /\ BleDhcpBound(Head(events).arg)
      BY <1>2, <2>1, <3>1, BleHandles, BleTaken DEF ConnectedOrder, BleDhcpBound
    <3>2. CASE ~connected'
      BY <3>2 DEF ConnectedOrder
    <3>3. CASE connected /\ Head(events) \notin Drops /\ UNCHANGED dhcp_watchdog
      <4>1. Preceded(events', Joins, Drops) /\ (Has(events, Drops) => Has(events', Drops))
        BY <1>2, <3>3, BleHandles, BleTaken
      <4>. QED
        BY <2>1, <3>3, <4>1 DEF BleLink, ConnectedOrder
    <3>4. Head(events) \in Joins => ~connected
      BY <1>2, BleHandles, BleTaken
    <3>5. Head(events) \in Fails => ~connected \/ (Head(events) \notin Drops /\ UNCHANGED dhcp_watchdog)
      BY <1>2, BleHandles DEF Fails, Drops, Joins, Readys, Dels, Bounds, Of, BleConnectFailed
    <3>6. Head(events).kind \in {"ready", "addr_del", "scan_done"} =>
            Head(events) \notin Drops \union Joins \union Fails \union Bounds
      BY DEF Drops, Joins, Fails, Bounds, Of
    <3>. QED
      BY <1>2, <3>1, <3>2, <3>3, <3>4, <3>5, <3>6, BleHandles
         DEF OnReady, OnScanDone, OnAddrDel, OnConnected, OnConnectFailed, OnDisconnected, staVars, Readys,
             Dels, Of
  <2>. QED
    BY <2>1, <2>2 DEF BleLink
<1>3. CASE HandleAddrDelBlind /\ UNCHANGED bleVars
  <2>1. Taken /\ Head(events) \notin Drops /\ UNCHANGED <<connected, dhcp_watchdog>>
    BY <1>3 DEF HandleAddrDelBlind, OnAddrDelBlind, bleVars, Taken, Drops, Of
  <2>. QED
    BY <2>1, BleTaken DEF BleLink, ConnectedOrder, Taken
<1>4. CASE DhcpBindWatchdog
  <2> DEFINE e == Event("ready", 0)
  <2>1. e \in EventType /\ e \notin Drops \union Bounds \union Joins \union Fails
    BY EventsAre, EventIs DEF Drops, Bounds, Joins, Fails, Of
  <2>2. events' = << e >> /\ link' = "down" /\ ~connected'
    BY <1>4 DEF DhcpBindWatchdog
  <2>. HIDE DEF e
  <2>3. events'[1] = e /\ Pos(events') = {1}
    BY <2>2, SMT DEF Pos
  <2>4. Followed(events', Joins \union Bounds, Drops)
    BY <2>1, <2>3 DEF Followed
  <2>5. Separated(events', Bounds, Joins \union Fails, Drops)
    BY <2>3, SMT DEF Separated
  <2>. QED
    BY <2>2, <2>4, <2>5 DEF BleLink, LinkOrder, ConnectedOrder
<1>5. CASE UNCHANGED allVars
  BY <1>5 DEF BleLink, ConnectedOrder, allVars, vars, bleVars
<1>. QED
  BY <1>1, <1>2, <1>3, <1>4, <1>5 DEF Handling, NextBle

LEMMA CycleKeeps == ASSUME TypeOKBle, CycleOrder, [NextBle]_allVars PROVE CycleOrder'
<1>. USE BleTypeParts
<1>1. CASE HandleBoth
  <2>1. UNCHANGED <<step, cycle>>
    BY <1>1 DEF HandleBoth
  <2>2. CASE pending' = TRUE /\ work' = (work \/ ~pending)
    BY <2>1, <2>2 DEF CycleOrder
  <2>3. CASE pending' = FALSE
    BY <2>3 DEF CycleOrder
  <2>4. CASE (pending' => pending) /\ UNCHANGED work
    BY <2>1, <2>4 DEF CycleOrder
  <2>. QED
    BY <1>1, <2>2, <2>3, <2>4 DEF HandleBoth, BleHandle, BleScanDone, BleScheduleRetry, BleConnected,
       BleConnectFailed, BleDisconnected, BleDhcpBound
<1>2. CASE NetWork \/ CredsChangeBle \/ UNCHANGED bleVars
  BY <1>2 DEF CycleOrder, NetWork, CredsChangeBle, bleVars
<1>3. CASE ConnectWork \/ StatusQuery \/ DecideConnected \/ DecideNoCreds
  BY <1>3 DEF CycleOrder, ConnectWork, StatusQuery, DecideConnected, DecideNoCreds
<1>4. CASE DecideJoining \/ DecideConnect \/ ConnectReturns
  BY <1>4 DEF CycleOrder, DecideJoining, DecideConnect, ConnectReturns, Reschedule
<1>5. CASE DhcpBindWatchdog \/ AdvUpdate
  BY <1>5 DEF CycleOrder, DhcpBindWatchdog, AdvUpdate
<1>6. CASE UNCHANGED allVars
  BY <1>6 DEF CycleOrder, allVars, bleVars
<1>. QED
  BY <1>1, <1>2, <1>3, <1>4, <1>5, <1>6 DEF NextBle

LEMMA HandedOverKeeps ==
  ASSUME BleProv, TypeOK, HandedOver, [NextBle]_allVars
  PROVE  HandedOver'
<1>. USE DEF HandedOver
<1>0. reconnect \in BOOLEAN /\ creds \in BOOLEAN
  BY TypeParts
<1>1. CASE HandleBoth
  <2> DEFINE e == Head(events)
  <2>1. NetHandle(e)
    BY <1>1 DEF HandleBoth, HandleEvent
  <2>. HIDE DEF e
  <2>2. request' = request
    BY <2>1 DEF NetHandle, OnReady, OnScanDone, OnConnected, OnConnectFailed, OnDisconnected, OnAddrDel,
                OnBound, staVars
  <2>3. reconnect' = FALSE \/ reconnect' = reconnect
    <3>1. CASE e.kind = "connect" /\ OnConnectFailed(e.arg)
      BY <1>0, <3>1 DEF OnConnectFailed
    <3>2. CASE OnDisconnected
      BY <3>2 DEF OnDisconnected
    <3>. QED
      BY <2>1, <3>1, <3>2 DEF NetHandle, OnReady, OnScanDone, OnConnected, OnAddrDel, OnBound, StandDown,
                              staVars
  <2>. QED
    BY <2>2, <2>3
<1>2. CASE NetWork
  <2>1. CASE RequestConnect
    <3>1. (~BleProv) = FALSE
      OBVIOUS
    <3>2. reconnect' = reconnect \/ reconnect' = ~BleProv
      BY <2>1, Zenon DEF RequestConnect
    <3>3. reconnect' = FALSE
      BY <1>0, <3>1, <3>2, Zenon
    <3>4. request' = "none"
      BY <2>1 DEF RequestConnect, Done
    <3>. QED
      BY <3>3, <3>4
  <2>2. CASE StartMode \/ RestartRun \/ WatchdogRun
    BY <2>2 DEF StartMode, RestartRun, WatchdogRun
  <2>3. CASE RequestDisconnect \/ RequestDhcp
    BY <2>3 DEF RequestDisconnect, RequestDhcp, Done
  <2>. QED
    BY <1>2, <2>1, <2>2, <2>3 DEF NetWork, Work, ReconnectRun
<1>3. CASE \/ ConnectWork \/ StatusQuery \/ DecideConnected \/ DecideNoCreds \/ DecideJoining
           \/ DecideConnect \/ ConnectReturns \/ DhcpBindWatchdog \/ AdvUpdate
  BY <1>3 DEF ConnectWork, StatusQuery, DecideConnected, DecideNoCreds, DecideJoining, DecideConnect,
              ConnectReturns, DhcpBindWatchdog, AdvUpdate, vars, staVars
<1>4. CASE CredsChangeBle \/ HandleAddrDelBlind \/ ScanEnds \/ Network \/ Shell
  BY <1>4 DEF CredsChangeBle, CredsChange, HandleAddrDelBlind, OnAddrDelBlind, ScanEnds, Network, Shell,
              staVars
<1>5. CASE UNCHANGED allVars
  BY <1>5 DEF allVars, vars
<1>. QED
  BY <1>1, <1>2, <1>3, <1>4, <1>5 DEF NextBle

\* A step that is no handler's, on a link that is down or goes down.
LEMMA WakesKept ==
  ASSUME BleMoveKeeps
  PROVE  /\ Has(events, Wakes) => Has(events', Wakes)
         /\ link # "down" /\ link' = "down" /\ link \in {"joining", "up"} => Has(events', Wakes)
<1>1. Has(events, Wakes) => Has(events', Wakes)
  BY DEF BleMoveKeeps, Grows
<1>2. ASSUME link' = "down", link \in {"joining", "up"} PROVE Has(events', Wakes)
  <2>1. Has(events', Drops) \/ Has(events', Fails)
    BY <1>2 DEF BleMoveKeeps, Announced
  <2>. QED
    BY <2>1, HasSub DEF Wakes
<1>. QED
  BY <1>1, <1>2

LEMMA ReadyWakes == Has(<< Event("ready", 0) >>, Wakes)
<1> DEFINE e == Event("ready", 0)
<1>1. e \in Wakes
  BY EventsAre, EventIs DEF Wakes, Readys, Of
<1>. HIDE DEF e
<1>2. << e >>[1] = e /\ 1 \in Pos(<< e >>)
  BY SMT DEF Pos
<1>. QED
  BY <1>1, <1>2 DEF Has, e

LEMMA RetryHandled ==
  ASSUME TypeOKBle, BleLink, CycleOrder, RetryOrder, Handling
  PROVE  RetryOrder'
<1>. SUFFICES ASSUME creds', link' = "down", left' = "no", ~Has(events', Wakes), ~work', ~start',
                     request' # "start"
              PROVE  \/ step' = "status"
                     \/ step' = "decide" /\ (seen' # "joining" \/ pending')
                     \/ step' = "return" /\ cycle'
  BY DEF RetryOrder
<1>0. TypeOK /\ pending \in BOOLEAN /\ work \in BOOLEAN /\ cycle \in BOOLEAN /\ start \in BOOLEAN
      /\ step \in {"idle", "status", "decide", "return"}
  BY BleTypeParts, TypeParts
<1>1. CASE HandleAddrDelBlind /\ UNCHANGED bleVars
  <2>1. Taken /\ UNCHANGED <<creds, start, request>>
    BY <1>1 DEF HandleAddrDelBlind, OnAddrDelBlind, Taken
  <2>2. Head(events) \notin Wakes
    BY <1>1 DEF HandleAddrDelBlind, Wakes, Drops, Fails, Readys, Of
  <2>3. ~Has(events, Wakes)
    BY <1>0, <2>1, <2>2, BleTaken
  <2>. QED
    BY <1>1, <2>1, <2>3 DEF RetryOrder, bleVars, Taken
<1>2. CASE HandleBoth
  <2>0. Taken /\ UNCHANGED <<step, cycle, seen, creds, request>> /\ link = "down"
    BY <1>0, <1>2, BleHandles DEF Taken
  <2>1. ~Has(events', Drops)
    BY HasSub DEF Wakes
  <2>2. Head(events) \notin Joins \union Bounds
    BY <1>0, <2>0, <2>1, BleTaken
  <2>3. CASE Head(events) \in Readys /\ OnReady
    BY <2>3 DEF OnReady
  <2>4. CASE UNCHANGED <<pending, work, left, start>> /\ Head(events) \notin Wakes
    <3>1. ~Has(events, Wakes)
      BY <1>0, <2>0, <2>4, BleTaken
    <3>. QED
      BY <2>0, <2>4, <3>1 DEF RetryOrder
  <2>5. CASE BleScheduleRetry
    <3>1. pending /\ pending' /\ ~work
      BY <1>0, <2>5 DEF BleScheduleRetry
    <3>. QED
      BY <1>0, <2>0, <3>1 DEF CycleOrder
  <2>6. CASE Head(events) \in Drops /\ BleDisconnected(Head(events).arg)
    BY <2>0, <2>5, <2>6 DEF BleDisconnected, prov_state
  <2>7. CASE Head(events) \in Fails /\ BleConnectFailed(Head(events).arg)
    BY <2>0, <2>5, <2>7 DEF BleConnectFailed, prov_state
  <2>8. Head(events).kind = "scan_done" \/ Head(events) \in Dels => Head(events) \notin Wakes
    BY DEF Wakes, Drops, Fails, Readys, Dels, Of
  <2>9. OnScanDone \/ OnAddrDel => UNCHANGED start
    BY DEF OnScanDone, OnAddrDel, staVars
  <2>. QED
    BY <1>0, <1>2, <2>2, <2>3, <2>4, <2>6, <2>7, <2>8, <2>9, BleHandles
<1>. QED
  BY <1>1, <1>2 DEF Handling

LEMMA RetryMoved ==
  ASSUME BleProv, TypeOKBle, BleLink, CycleOrder, HandedOver, RetryOrder, NextBle, ~Handling, ~DhcpBindWatchdog
  PROVE  RetryOrder'
<1>. SUFFICES ASSUME creds', link' = "down", left' = "no", ~Has(events', Wakes), ~work', ~start',
                     request' # "start"
              PROVE  \/ step' = "status"
                     \/ step' = "decide" /\ (seen' # "joining" \/ pending')
                     \/ step' = "return" /\ cycle'
  BY DEF RetryOrder
<1>0. TypeOK /\ pending \in BOOLEAN /\ work \in BOOLEAN /\ cycle \in BOOLEAN /\ start \in BOOLEAN
      /\ step \in {"idle", "status", "decide", "return"} /\ link \in {"down", "joining", "up"}
      /\ creds \in BOOLEAN
  BY BleTypeParts, TypeParts DEF LinkTypeOK
<1>1. BleMoveKeeps
  BY <1>0, BleMoves
<1>2. link = "down" /\ ~Has(events, Wakes)
  BY <1>0, <1>1, WakesKept
<1>. USE DEF RetryOrder
<1>3. CASE NetWork
  <2>1. UNCHANGED <<step, work, creds, pending, seen, cycle>>
    BY <1>3 DEF NetWork, Work, StartMode, ReconnectRun, WatchdogRun, RestartRun, RequestConnect,
                RequestDisconnect, RequestDhcp
  <2>2. CASE request = "start"
    BY <1>2, <1>3, <2>2 DEF NetWork
  <2>3. CASE request # "start"
    <3>1. left' = left
      BY <1>3, <2>3 DEF NetWork
    <3>2. ~start
      BY <1>3, <2>1, <1>0 DEF NetWork, Work, StartMode, ReconnectRun, WatchdogRun, RestartRun,
                  RequestConnect, RequestDisconnect, RequestDhcp
    <3>. QED
      BY <1>2, <2>1, <2>3, <3>1, <3>2
  <2>. QED
    BY <2>2, <2>3
<1>4. CASE ConnectWork \/ StatusQuery
  BY <1>2, <1>4 DEF ConnectWork, StatusQuery
<1>5. CASE DecideConnected \/ DecideNoCreds
  BY <1>2, <1>5 DEF DecideConnected, DecideNoCreds, vars
<1>6. CASE DecideJoining
  BY <1>0, <1>2, <1>6 DEF DecideJoining, Reschedule, vars
<1>7. CASE ConnectReturns
  BY <1>0, <1>2, <1>7 DEF ConnectReturns, Reschedule, vars
<1>8. CASE DecideConnect
  <2>1. ~ConnectAccepted
    BY <1>2 DEF ConnectAccepted
  <2>2. pending
    BY <1>0, <1>8, <2>1 DEF DecideConnect
  <2>. QED
    BY <1>8, <2>2 DEF DecideConnect
<1>9. CASE AdvUpdate
  BY <1>0, <1>2, <1>9 DEF AdvUpdate, vars
<1>10. CASE CredsChangeBle
  BY <1>10 DEF CredsChangeBle
<1>11. CASE (ScanEnds \/ Network \/ Shell) /\ UNCHANGED bleVars
  BY <1>2, <1>11 DEF ScanEnds, Network, Shell, staVars, bleVars
<1>. QED
  BY <1>3, <1>4, <1>5, <1>6, <1>7, <1>8, <1>9, <1>10, <1>11 DEF NextBle, Handling

LEMMA BleStarts == InitBle => BleInv
<1>. SUFFICES ASSUME InitBle PROVE BleInv
  OBVIOUS
<1>1. StaInv
  BY StaInvStarts DEF InitBle
<1>2. BleInit /\ request = "none" /\ ~connected /\ ~reconnect /\ events = << Event("ready", 0) >>
  BY DEF InitBle, Init, StaInit, LinkInit
<1>3. creds \in BOOLEAN
  BY <1>1, TypeParts DEF StaInv
<1>4. TypeOKBle
  BY <1>1, <1>2, <1>3, BleTypeParts DEF StaInv, BleInit, Idle
<1>5. BleLink
  BY <1>1, <1>2 DEF StaInv, SafeInv, Orders, BleLink, ConnectedOrder
<1>6. CycleOrder
  BY <1>2 DEF BleInit, CycleOrder
<1>7. Has(events, Wakes)
  BY <1>2, ReadyWakes
<1>. QED
  BY <1>2, <1>4, <1>5, <1>6, <1>7 DEF BleInv, HandedOver, RetryOrder

LEMMA RetryKeeps ==
  ASSUME BleProv, BleInv, [NextBle]_allVars
  PROVE  RetryOrder'
<1>1. CASE UNCHANGED allVars
  BY <1>1 DEF BleInv, RetryOrder, allVars, vars, bleVars, Has, Pos
<1>2. CASE Handling
  BY <1>2, RetryHandled DEF BleInv
<1>3. CASE DhcpBindWatchdog
  <2>1. Has(events, Wakes)'
    <3>1. events' = << Event("ready", 0) >>
      BY <1>3 DEF DhcpBindWatchdog
    <3>. QED
      BY <3>1, ReadyWakes DEF Has, Pos
  <2>. QED
    BY <2>1 DEF RetryOrder
<1>4. CASE NextBle /\ ~Handling /\ ~DhcpBindWatchdog
  BY <1>4, RetryMoved DEF BleInv
<1>. QED
  BY <1>1, <1>2, <1>3, <1>4

LEMMA BleNext == ASSUME BleInv, [NextBle]_allVars PROVE BleInv'
<1>1. TypeOKBle /\ TypeOK /\ BleLink /\ CycleOrder
  BY BleTypeParts DEF BleInv
<1>2. TypeOKBle' /\ BleLink' /\ CycleOrder'
  BY <1>1, BleTypes, BleLinkKeeps, CycleKeeps
<1>3. ASSUME BleProv PROVE HandedOver' /\ RetryOrder'
  BY <1>1, <1>3, HandedOverKeeps, RetryKeeps DEF BleInv
<1>. QED
  BY <1>2, <1>3 DEF BleInv

\* The reconnect loop of the BLE brick keeps its own order, and with the
\* option that hands the reconnect to it, what leads on is always pending.
THEOREM BleInvariant == SpecBle => []BleInv
  BY BleStarts, BleNext, PTL DEF SpecBle

\* Its variables keep their types, and no work item of its runs during another
\* brick's request.
THEOREM BleTypeCorrect == SpecBle => []TypeOKBle
<1>1. BleInv => TypeOKBle
  BY DEF BleInv
<1>. QED
  BY <1>1, BleInvariant, PTL

\* A marked reconnect cycle always has its work item pending or running: a
\* disconnect that finds the mark set may leave the retry to it.
THEOREM CycleKeepsWorkHolds == SpecBle => []CycleKeepsWork
<1>1. BleInv => CycleKeepsWork
  BY DEF BleInv, CycleOrder, CycleKeepsWork
<1>. QED
  BY <1>1, BleInvariant, PTL

\* The DHCP watchdog never reboots a device that has handled its lease.
THEOREM NoRebootWithLeaseHolds == SpecBle => []NoRebootWithLease
<1>1. BleInv => NoRebootWithLease
  BY DEF BleInv, BleLink, ConnectedOrder, NoRebootWithLease
<1>. QED
  BY <1>1, BleInvariant, PTL

\* In the build that hands the reconnect over, a link that is down with
\* credentials stored is on its way up again, unless the brick left that to
\* somebody else.
THEOREM BleRetryPendingHolds == ASSUME BleProv PROVE SpecBle => []RetryPending
<1>1. BleInv => RetryPending
  <2>1. ASSUME BleInv, RetryOrder PROVE RetryPending
    <3>1. events = << >> => ~Has(events, Wakes)
      BY NothingWaits
    <3>. QED
      BY <2>1, <3>1 DEF RetryOrder, RetryPending
  <2>. QED
    BY <2>1 DEF BleInv
<1>. QED
  BY <1>1, BleInvariant, PTL
=============================================================================
