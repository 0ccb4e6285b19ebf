----------------------- MODULE KernelNotificationsProofs -----------------------
(***************************************************************************)
(* Proofs about KernelNotifications: what is acknowledged is safe, what is *)
(* owed is due, and nothing is woken or told again without need, for any   *)
(* number of notifications, windows, deliveries, events, handlers, starts  *)
(* and faults.                                                             *)
(*                                                                         *)
(* The injector and the reach events share no state, so each has its own   *)
(* invariant, which the other's steps leave alone.                         *)
(***************************************************************************)
EXTENDS KernelNotifications, SequenceTheorems, WellFoundedInduction, TLAPS

LEMMA KernelStarts == BothInit => Init /\ Reach!ReachInit
BY DEF BothInit

LEMMA WakeSteps == [BothNext]_allVars => Next \/ UNCHANGED vars
BY DEF BothNext, allVars

LEMMA ReachSteps == [BothNext]_allVars => Reach!ReachStep \/ UNCHANGED reach
BY DEF BothNext, allVars

-----------------------------------------------------------------------------
(* Reach events.                                                           *)

Queued == [life : {"none", "up", "disposed", "dead"}, loaded : BOOLEAN, queue : Seq(Reach!Frame),
           step : {"idle", "verify", "ready", "write", "send"}]
ReachTypes ==
  /\ handler \in [Reach!Handlers -> Queued] /\ mem \in [Reach!Handlers -> SUBSET Events]
  /\ file \in SUBSET Events /\ eventsAcked \in SUBSET Events
  /\ told \in [Events -> Nat] /\ blind \in [Events -> Nat] /\ registrations \in Nat

Told == {e \in Events : told[e] > 0}
\* What is remembered, or acknowledged, was told.
OnlyTold == file \subseteq Told /\ eventsAcked \subseteq Told /\ \A h \in Reach!Handlers : mem[h] \subseteq Told
\* The head of a queue is at its step; it is acknowledged when it is remembered.
AtHead(x, ids) ==
  /\ x.step # "idle" => x.queue # <<>>
  /\ x.step \in {"write", "send"} => x.loaded /\ Head(x.queue).event \in ids
Heads == \A h \in Reach!Handlers : AtHead(handler[h], mem[h])
\* Only the last handler tells, and where it has read the file without an event that was
\* told, that reading is counted.
OneTells == \A h \in Reach!Handlers : Reach!Active(h) => h = registrations
Excused ==
  /\ \A h \in Reach!Handlers, e \in Events :
       Reach!Active(h) /\ handler[h].loaded /\ e \notin mem[h] => told[e] <= blind[e]
  /\ \A e \in Events : told[e] <= 1 + blind[e]

ReachInv == ReachTypes /\ OnlyTold /\ Heads /\ OneTells /\ Excused

Born(l) == [Reach!Unborn EXCEPT !.life = l]
LEMMA UnbornTyped ==
  /\ Reach!Unborn \in Queued /\ Reach!Unborn.life = "none" /\ ~Reach!Unborn.loaded
  /\ Reach!Unborn.step = "idle" /\ Reach!Unborn.queue = <<>>
  /\ \A l \in {"up", "dead"} : /\ Born(l) \in Queued /\ Born(l).life = l /\ ~Born(l).loaded
                              /\ Born(l).step = "idle" /\ Born(l).queue = <<>>
<1>1. <<>> \in Seq(Reach!Frame)  OBVIOUS
<1>2. Reach!Unborn \in Queued  BY <1>1 DEF Reach!Unborn, Queued
<1>3. ASSUME NEW l \in {"up", "dead"}
      PROVE  /\ Born(l) \in Queued /\ Born(l).life = l /\ ~Born(l).loaded
             /\ Born(l).step = "idle" /\ Born(l).queue = <<>>
  BY <1>1 DEF Born, Reach!Unborn, Queued
<1> QED BY <1>2, <1>3 DEF Reach!Unborn

LEMMA ReachStarts == ASSUME Reach!ReachInit PROVE ReachInv
<1>1. ReachTypes  BY UnbornTyped DEF Reach!ReachInit, ReachTypes
<1>2. OnlyTold  BY DEF Reach!ReachInit, OnlyTold
<1>3. Heads  BY UnbornTyped DEF Reach!ReachInit, Heads, AtHead
<1>4. OneTells /\ Excused  BY UnbornTyped DEF Reach!ReachInit, OneTells, Excused, Reach!Active
<1> QED BY <1>1, <1>2, <1>3, <1>4 DEF ReachInv

\* A handler goes on, with its file and its memory, and nothing is told.
LEMMA HandlerGoes ==
  ASSUME ReachInv, NEW h \in Reach!Handlers, NEW x \in Queued,
         handler' = [handler EXCEPT ![h] = x], x.life = handler[h].life, x.loaded = handler[h].loaded,
         AtHead(x, mem[h]),
         UNCHANGED <<mem, told, blind, registrations>>,
         file' \in SUBSET Events, file' \subseteq Told, eventsAcked' \in SUBSET Events, eventsAcked' \subseteq Told
  PROVE  ReachInv'
<1>1. ReachTypes'  BY DEF ReachInv, ReachTypes
<1>2. OnlyTold'  BY DEF ReachInv, OnlyTold, Told
<1>3. Heads'  BY DEF ReachInv, ReachTypes, Heads
<1>4. \A g \in Reach!Handlers : handler'[g].life = handler[g].life /\ handler'[g].loaded = handler[g].loaded
  BY DEF ReachInv, ReachTypes
<1>5. OneTells' /\ Excused'
  BY <1>4 DEF ReachInv, OneTells, Excused, Reach!Active
<1> QED BY <1>1, <1>2, <1>3, <1>5 DEF ReachInv

\* The head is done with, or goes to its next step.
LEMMA NextTyped ==
  ASSUME ReachInv, NEW h \in Reach!Handlers, NEW s \in {"idle", "verify", "ready", "write", "send"}
  PROVE  LET x == [handler[h] EXCEPT !.step = s] IN
         /\ x \in Queued /\ x.life = handler[h].life /\ x.loaded = handler[h].loaded
         /\ x.queue = handler[h].queue /\ x.step = s
BY DEF ReachInv, ReachTypes, Queued

LEMMA DoneTyped ==
  ASSUME ReachInv, NEW h \in Reach!Handlers, handler[h].queue # <<>>
  PROVE  LET x == [handler[h] EXCEPT !.queue = Tail(@), !.step = "idle"] IN
         /\ x \in Queued /\ x.life = handler[h].life /\ x.loaded = handler[h].loaded
         /\ AtHead(x, mem[h])
<1>1. handler[h] \in Queued  BY DEF ReachInv, ReachTypes
<1>2. Tail(handler[h].queue) \in Seq(Reach!Frame)  BY <1>1 DEF Queued
<1> QED BY <1>1, <1>2 DEF Queued, AtHead

LEMMA AcksTold ==
  ASSUME ReachInv, NEW h \in Reach!Handlers, Reach!Acks(h), Reach!Current(h).event \in mem[h]
  PROVE  eventsAcked' \in SUBSET Events /\ eventsAcked' \subseteq Told
<1>1. eventsAcked' \in {eventsAcked, eventsAcked \cup {Reach!Current(h).event}}
  BY DEF Reach!Acks
<1>2. Reach!Current(h).event \in Told /\ eventsAcked \subseteq Told
  BY DEF ReachInv, OnlyTold
<1> QED BY <1>1, <1>2 DEF Told

LEMMA StartsKeeps == ASSUME ReachInv, Reach!Starts PROVE ReachInv'
<1>1. UNCHANGED <<eventsAcked, mem, file, told, blind>> /\ registrations' = registrations + 1
  BY DEF Reach!Starts
<1>2. ASSUME NEW h \in Reach!Handlers
      PROVE  /\ handler'[h] \in Queued /\ AtHead(handler'[h], mem[h])
             /\ handler'[h].life = "up" => h = registrations + 1 /\ ~handler'[h].loaded
  <2>1. handler[h] \in Queued /\ AtHead(handler[h], mem[h])  BY DEF ReachInv, ReachTypes, Heads
  <2>2. CASE h = registrations + 1
    <3>1. ~Reach!Active(h)  BY <2>2 DEF ReachInv, ReachTypes, OneTells
    <3>2. handler'[h] = Born("up")  BY <2>2, <3>1 DEF Reach!Starts, Born
    <3> QED BY <2>2, <3>2, UnbornTyped DEF AtHead
  <2>3. CASE h # registrations + 1 /\ Reach!Active(h)
    <3> DEFINE x == [handler[h] EXCEPT !.life = "disposed"]
    <3>1. x \in Queued /\ x.life = "disposed" /\ AtHead(x, mem[h])  BY <2>1 DEF Queued, AtHead
    <3>2. handler'[h] = x  BY <2>3 DEF Reach!Starts
    <3> HIDE DEF x
    <3> QED BY <3>1, <3>2
  <2>4. CASE h # registrations + 1 /\ ~Reach!Active(h)
    BY <2>1, <2>4 DEF Reach!Starts, Reach!Active
  <2> QED BY <2>2, <2>3, <2>4
<1>3. handler' \in [Reach!Handlers -> Queued]
  BY <1>2 DEF Reach!Starts
<1>4. ReachTypes'  BY <1>1, <1>3 DEF ReachInv, ReachTypes
<1>5. OnlyTold'  BY <1>1 DEF ReachInv, OnlyTold, Told
<1>6. Heads'  BY <1>1, <1>2 DEF Heads
<1>7. OneTells' /\ Excused'  BY <1>1, <1>2 DEF OneTells, Excused, Reach!Active, ReachInv
<1> QED BY <1>4, <1>5, <1>6, <1>7 DEF ReachInv

LEMMA LoadsKeeps == ASSUME ReachInv, NEW h \in Reach!Handlers, Reach!Loads(h) PROVE ReachInv'
<1> DEFINE x == [handler[h] EXCEPT !.loaded = TRUE]
<1>1. /\ UNCHANGED <<eventsAcked, file, told, registrations>> /\ handler' = [handler EXCEPT ![h] = x]
      /\ mem' = [mem EXCEPT ![h] = file]
      /\ blind' = [e \in Events |-> IF told[e] > 0 /\ e \notin file THEN blind[e] + 1 ELSE blind[e]]
  BY DEF Reach!Loads, Reach!Set
<1>2. handler[h] \in Queued /\ ~handler[h].loaded /\ AtHead(handler[h], mem[h])
  BY DEF Reach!Loads, ReachInv, ReachTypes, Heads
<1>3. x \in Queued /\ x.life = handler[h].life /\ x.loaded /\ AtHead(x, file)
  BY <1>2 DEF Queued, AtHead
<1> HIDE DEF x
<1>4. ReachTypes'  BY <1>1, <1>3 DEF ReachInv, ReachTypes
<1>5. OnlyTold'  BY <1>1 DEF ReachInv, ReachTypes, OnlyTold, Told
<1>6. Heads'  BY <1>1, <1>3 DEF ReachInv, ReachTypes, Heads
<1>7. OneTells'  BY <1>1, <1>3 DEF ReachInv, ReachTypes, OneTells, Reach!Active
<1>8. \A e \in Events : blind[e] \in Nat /\ told[e] \in Nat /\ blind[e] <= blind'[e]
                        /\ (told[e] > 0 /\ e \notin file => blind'[e] = blind[e] + 1)
  BY <1>1 DEF ReachInv, ReachTypes
<1>9. \A e \in Events : told[e] <= 1 + blind'[e]
  BY <1>4, <1>8 DEF ReachInv, Excused, ReachTypes
<1>10. ASSUME NEW g \in Reach!Handlers, NEW e \in Events, Reach!Active(g)', handler'[g].loaded, e \notin mem'[g]
       PROVE  told[e] <= blind'[e]
  <2>1. CASE g = h
    <3>1. e \notin file  BY <1>1, <1>10, <2>1 DEF ReachInv, ReachTypes
    <3>2. told[e] <= 1 + blind[e]  BY DEF ReachInv, Excused
    <3> QED BY <1>4, <1>8, <3>1, <3>2 DEF ReachTypes
  <2>2. CASE g # h
    <3>1. told[e] <= blind[e]
      BY <1>1, <1>10, <2>2 DEF ReachInv, ReachTypes, Excused, Reach!Active
    <3> QED BY <1>4, <1>8, <3>1 DEF ReachTypes
  <2> QED BY <2>1, <2>2
<1>11. Excused'  BY <1>1, <1>9, <1>10 DEF Excused
<1> QED BY <1>4, <1>5, <1>6, <1>7, <1>11 DEF ReachInv

LEMMA CrashKeeps == ASSUME ReachInv, Reach!Crash PROVE ReachInv'
<1>1. UNCHANGED <<eventsAcked, mem, told, blind, registrations>> /\ file' \in {file, {}}
  BY DEF Reach!Crash
<1>2. ASSUME NEW h \in Reach!Handlers
      PROVE  handler'[h] \in Queued /\ AtHead(handler'[h], mem[h]) /\ handler'[h].life # "up"
  <2>1. CASE Reach!Running(h)
    <3>1. handler'[h] = Born("dead")  BY <2>1 DEF Reach!Crash, Born
    <3> QED BY <3>1, UnbornTyped DEF AtHead
  <2>2. CASE ~Reach!Running(h)
    <3>1. handler'[h] = handler[h]  BY <2>2 DEF Reach!Crash
    <3> QED BY <2>2, <3>1 DEF ReachInv, ReachTypes, Heads, Reach!Running
  <2> QED BY <2>1, <2>2
<1>3. handler' \in [Reach!Handlers -> Queued]  BY <1>2 DEF Reach!Crash
<1>4. ReachTypes'  BY <1>1, <1>3 DEF ReachInv, ReachTypes
<1>5. OnlyTold'  BY <1>1 DEF ReachInv, OnlyTold, Told
<1>6. Heads'  BY <1>1, <1>2 DEF Heads
<1>7. OneTells' /\ Excused'  BY <1>1, <1>2 DEF OneTells, Excused, Reach!Active, ReachInv
<1> QED BY <1>4, <1>5, <1>6, <1>7 DEF ReachInv

LEMMA OffersKeeps == ASSUME ReachInv, NEW f \in Reach!Frame, Reach!Offers(f) PROVE ReachInv'
<1> DEFINE h == registrations
<1> DEFINE x == [handler[h] EXCEPT !.queue = Append(@, f)]
<1>1. /\ UNCHANGED <<eventsAcked, mem, file, told, blind, registrations>>
      /\ handler' = [handler EXCEPT ![h] = x]
  BY DEF Reach!Offers, Reach!Set
<1>2. CASE h \in Reach!Handlers
  <2>1. handler[h] \in Queued /\ AtHead(handler[h], mem[h])  BY <1>2 DEF ReachInv, ReachTypes, Heads
  <2>2. handler[h].queue \in Seq(Reach!Frame)  BY <2>1 DEF Queued
  <2>3. /\ Append(handler[h].queue, f) \in Seq(Reach!Frame) /\ Append(handler[h].queue, f) # <<>>
        /\ handler[h].queue # <<>> => Head(Append(handler[h].queue, f)) = Head(handler[h].queue)
    BY <2>2, AppendProperties
  <2>4. x \in Queued /\ x.life = handler[h].life /\ x.loaded = handler[h].loaded /\ AtHead(x, mem[h])
    BY <2>1, <2>3 DEF Queued, AtHead
  <2> HIDE DEF x
  <2> QED BY <1>1, <1>2, <2>4, HandlerGoes DEF ReachInv, ReachTypes, OnlyTold
<1>3. CASE h \notin Reach!Handlers
  <2>1. handler' = handler  BY <1>1, <1>3 DEF ReachInv, ReachTypes
  <2> HIDE DEF h
  <2> QED BY <1>1, <2>1 DEF ReachInv, ReachTypes, OnlyTold, Told, Heads, OneTells, Excused, Reach!Active
<1> QED BY <1>2, <1>3

LEMMA ProcessKeeps ==
  ASSUME ReachInv, NEW h \in Reach!Handlers,
         Reach!Begins(h) \/ Reach!Verified(h) \/ Reach!Repeated(h) \/ Reach!Written(h) \/ Reach!Sent(h)
  PROVE  ReachInv'
<1>1. UNCHANGED <<mem, told, blind, registrations>>
  BY DEF Reach!Begins, Reach!Verified, Reach!Repeated, Reach!Written, Reach!Sent
<1>2. handler[h] \in Queued /\ AtHead(handler[h], mem[h]) /\ mem[h] \subseteq Told /\ mem[h] \in SUBSET Events
      /\ file \in SUBSET Events /\ file \subseteq Told
      /\ eventsAcked \in SUBSET Events /\ eventsAcked \subseteq Told
  BY DEF ReachInv, ReachTypes, Heads, OnlyTold
<1>3. ASSUME Reach!Done(h), handler[h].queue # <<>>, file' \in {file, mem[h], {}},
             eventsAcked' \in SUBSET Events, eventsAcked' \subseteq Told
      PROVE  ReachInv'
  <2> DEFINE x == [handler[h] EXCEPT !.queue = Tail(@), !.step = "idle"]
  <2>1. handler' = [handler EXCEPT ![h] = x]  BY <1>3 DEF Reach!Done, Reach!Set
  <2>2. x \in Queued /\ x.life = handler[h].life /\ x.loaded = handler[h].loaded /\ AtHead(x, mem[h])
    BY <1>3, DoneTyped
  <2> HIDE DEF x
  <2> QED BY <1>1, <1>2, <1>3, <2>1, <2>2, HandlerGoes
<1>4. ASSUME NEW s \in {"verify", "ready", "send"}, Reach!Next(h, s), handler[h].queue # <<>>,
             s = "send" => handler[h].step = "write",
             file' \in {file, mem[h], {}}, eventsAcked' \in SUBSET Events, eventsAcked' \subseteq Told
      PROVE  ReachInv'
  <2> DEFINE x == [handler[h] EXCEPT !.step = s]
  <2>1. handler' = [handler EXCEPT ![h] = x]  BY <1>4 DEF Reach!Next, Reach!Set
  <2>2. x \in Queued /\ x.life = handler[h].life /\ x.loaded = handler[h].loaded
        /\ x.queue = handler[h].queue /\ x.step = s
    <3>1. s \in {"idle", "verify", "ready", "write", "send"}  OBVIOUS
    <3> QED BY <3>1, NextTyped
  <2> HIDE DEF x
  <2>3. AtHead(x, mem[h])  BY <1>2, <1>4, <2>2 DEF AtHead
  <2> QED BY <1>1, <1>2, <1>4, <2>1, <2>2, <2>3, HandlerGoes
<1>5. CASE Reach!Begins(h)
  <2>1. UNCHANGED <<file, eventsAcked>> /\ handler[h].queue # <<>>
        /\ (Reach!Next(h, "verify") \/ Reach!Done(h))
    BY <1>5 DEF Reach!Begins
  <2> QED BY <1>2, <1>3, <1>4, <2>1
<1>6. CASE Reach!Verified(h)
  <2>1. UNCHANGED <<file, eventsAcked>> /\ handler[h].step = "verify"
        /\ (Reach!Next(h, "ready") \/ Reach!Done(h))
    BY <1>6 DEF Reach!Verified, Reach!At
  <2>2. handler[h].queue # <<>>  BY <1>2, <2>1 DEF AtHead
  <2> QED BY <1>2, <1>3, <1>4, <2>1, <2>2
<1>7. CASE Reach!Repeated(h)
  <2>1. /\ UNCHANGED file /\ handler[h].step = "ready" /\ Reach!Acks(h) /\ Reach!Done(h)
        /\ Reach!Current(h).event \in mem[h]
    BY <1>7 DEF Reach!Repeated, Reach!At, Reach!Ready
  <2>2. handler[h].queue # <<>>  BY <1>2, <2>1 DEF AtHead
  <2>3. eventsAcked' \in SUBSET Events /\ eventsAcked' \subseteq Told  BY <2>1, AcksTold
  <2> QED BY <1>3, <2>1, <2>2, <2>3
<1>8. CASE Reach!Written(h)
  <2>1. file' \in {file, mem[h], {}} /\ handler[h].step = "write" /\ Reach!Acks(h) /\ Reach!Next(h, "send")
    BY <1>8 DEF Reach!Written, Reach!At
  <2>2. handler[h].queue # <<>> /\ Reach!Current(h).event \in mem[h]
    BY <1>2, <2>1 DEF AtHead, Reach!Current
  <2>3. eventsAcked' \in SUBSET Events /\ eventsAcked' \subseteq Told  BY <2>1, <2>2, AcksTold
  <2> QED BY <1>4, <2>1, <2>2, <2>3
<1>9. CASE Reach!Sent(h)
  <2>1. UNCHANGED <<file, eventsAcked>> /\ handler[h].step = "send" /\ Reach!Done(h)
    BY <1>9 DEF Reach!Sent, Reach!At
  <2>2. handler[h].queue # <<>>  BY <1>2, <2>1 DEF AtHead
  <2> QED BY <1>2, <1>3, <2>1, <2>2
<1> QED BY <1>5, <1>6, <1>7, <1>8, <1>9

\* The event is new to the memory, so what was told of it before is excused.
LEMMA TellsKeeps == ASSUME ReachInv, NEW h \in Reach!Handlers, Reach!Tells(h) PROVE ReachInv'
<1> DEFINE e == Reach!Current(h).event
<1>1. /\ UNCHANGED <<file, blind, registrations>> /\ handler[h].step = "ready" /\ handler[h].loaded
  BY DEF Reach!Tells, Reach!Ready, Reach!At
<1>2. handler[h] \in Queued /\ AtHead(handler[h], mem[h])  BY DEF ReachInv, ReachTypes, Heads
<1>3. handler[h].queue # <<>>  BY <1>1, <1>2 DEF AtHead
<1>4. CASE Reach!Done(h) /\ UNCHANGED <<eventsAcked, mem, told>>
  <2> DEFINE x == [handler[h] EXCEPT !.queue = Tail(@), !.step = "idle"]
  <2>1. handler' = [handler EXCEPT ![h] = x]  BY <1>4 DEF Reach!Done, Reach!Set
  <2>2. x \in Queued /\ x.life = handler[h].life /\ x.loaded = handler[h].loaded /\ AtHead(x, mem[h])
    BY <1>3, DoneTyped
  <2> HIDE DEF x
  <2> QED BY <1>1, <1>4, <2>1, <2>2, HandlerGoes DEF ReachInv, ReachTypes, OnlyTold
<1>5. CASE /\ Reach!Active(h) /\ e \notin mem[h]
           /\ told' = [told EXCEPT ![e] = @ + 1] /\ mem' = [mem EXCEPT ![h] = @ \cup {e}]
           /\ Reach!Next(h, "write") /\ UNCHANGED eventsAcked
  <2> DEFINE x == [handler[h] EXCEPT !.step = "write"]
  <2>1. handler' = [handler EXCEPT ![h] = x]  BY <1>5 DEF Reach!Next, Reach!Set
  <2>2. x \in Queued /\ x.life = handler[h].life /\ x.loaded = handler[h].loaded
        /\ x.queue = handler[h].queue /\ x.step = "write"
    BY NextTyped
  <2> HIDE DEF x
  <2>3. e \in Events
    <3>1. handler[h].queue \in Seq(Reach!Frame)  BY <1>2 DEF Queued
    <3>2. Head(handler[h].queue) \in Reach!Frame  BY <1>3, <3>1, HeadTailProperties
    <3> QED BY <3>2 DEF Reach!Current, Reach!Frame
  <2>4. e = Head(x.queue).event  BY <2>2 DEF Reach!Current
  <2> HIDE DEF e
  <2>5. ReachTypes'
    <3>1. told' \in [Events -> Nat]  BY <1>5, <2>3 DEF ReachInv, ReachTypes
    <3>2. mem' \in [Reach!Handlers -> SUBSET Events]  BY <1>5, <2>3 DEF ReachInv, ReachTypes
    <3>3. handler' \in [Reach!Handlers -> Queued]  BY <2>1, <2>2 DEF ReachInv, ReachTypes
    <3> QED BY <1>1, <1>5, <3>1, <3>2, <3>3 DEF ReachInv, ReachTypes
  <2>6. \A d \in Events : told[d] \in Nat /\ blind[d] \in Nat /\ told'[d] = IF d = e THEN told[d] + 1 ELSE told[d]
    BY <1>5, <2>3 DEF ReachInv, ReachTypes
  <2>7. Told \subseteq Told' /\ e \in Told'  BY <2>3, <2>6 DEF Told
  <2>8. OnlyTold'  BY <1>1, <1>5, <2>7 DEF ReachInv, ReachTypes, OnlyTold
  <2>9. \A g \in Reach!Handlers : mem[g] \subseteq mem'[g]  BY <1>5 DEF ReachInv, ReachTypes
  <2>10. e \in mem'[h]  BY <1>5 DEF ReachInv, ReachTypes
  <2>11. Heads'
    <3>1. AtHead(x, mem'[h])  BY <1>1, <1>3, <2>2, <2>4, <2>10 DEF AtHead
    <3>2. \A g \in Reach!Handlers : g # h => AtHead(handler[g], mem'[g])
      BY <2>9 DEF ReachInv, Heads, AtHead
    <3> QED BY <2>1, <3>1, <3>2 DEF ReachInv, ReachTypes, Heads
  <2>12. \A g \in Reach!Handlers : handler'[g].life = handler[g].life /\ handler'[g].loaded = handler[g].loaded
    BY <2>1, <2>2 DEF ReachInv, ReachTypes
  <2>13. OneTells'  BY <1>1, <2>12 DEF ReachInv, OneTells, Reach!Active
  <2>14. told[e] <= blind[e]  BY <1>1, <1>5, <2>3 DEF ReachInv, Excused
  <2>15. \A d \in Events : told'[d] <= 1 + blind[d]
    <3>1. told'[e] <= 1 + blind[e]  BY <2>3, <2>6, <2>14
    <3>2. \A d \in Events : d # e => told'[d] <= 1 + blind[d]  BY <2>6 DEF ReachInv, Excused
    <3> QED BY <3>1, <3>2
  <2>16. ASSUME NEW g \in Reach!Handlers, NEW d \in Events, Reach!Active(g)', handler'[g].loaded, d \notin mem'[g]
         PROVE  told'[d] <= blind[d]
    <3>1. g = h  BY <1>5, <2>12, <2>16 DEF ReachInv, OneTells, Reach!Active
    <3>2. d # e  BY <2>10, <2>16, <3>1
    <3>3. told[d] <= blind[d]  BY <1>1, <1>5, <2>9, <2>16, <3>1 DEF ReachInv, Excused
    <3> QED BY <2>6, <3>2, <3>3
  <2>17. Excused'  BY <1>1, <2>15, <2>16 DEF Excused
  <2> QED BY <2>5, <2>8, <2>11, <2>13, <2>17 DEF ReachInv
<1> QED BY <1>4, <1>5 DEF Reach!Tells, Reach!Refused

LEMMA ReachMoves == ASSUME ReachInv, Reach!ReachStep \/ UNCHANGED reach PROVE ReachInv'
<1>1. CASE UNCHANGED reach
  BY <1>1 DEF reach, ReachInv, ReachTypes, OnlyTold, Told, Heads, OneTells, Excused, Reach!Active
<1>2. ASSUME NEW h \in Reach!Handlers,
             \/ Reach!Loads(h) \/ Reach!Begins(h) \/ Reach!Verified(h) \/ Reach!Repeated(h)
             \/ Reach!Tells(h) \/ Reach!Written(h) \/ Reach!Sent(h)
      PROVE  ReachInv'
  BY <1>2, LoadsKeeps, ProcessKeeps, TellsKeeps
<1> QED BY <1>1, <1>2, StartsKeeps, CrashKeeps, OffersKeeps DEF Reach!ReachStep

-----------------------------------------------------------------------------
(* The injector's state.                                                   *)

Phases == {"leading", "trailing"}
Waiters == Handlers \cup {NoOne}
Snapshots == [wakes : Markers, who : Waiters]
Deliveries == [pc : {"idle", "ready", "ingest", "set", "dedup"}, id : SUBSET Frames]
Turns == [pc : {"none", "queued", "post", "pending", "over"}, frames : SUBSET Frames]
Windows == [phase : {"none"} \cup Phases, start : Nat, frames : SUBSET Frames]

WakeTypes ==
  /\ fresh \in BOOLEAN /\ starts \in Nat /\ life \in {"down", "merging", "up", "stopping"}
  /\ offers \in [Frames -> Nat] /\ hand \in [Handlers -> Deliveries]
  /\ window \in Windows /\ next \in Nat \ {0}
  /\ wakes \in Markers /\ disk \in Markers /\ writes \in Seq(Snapshots)
  /\ turn \in [Keys -> Turns] /\ runs \in [Frames -> Nat]

\* What is not going on: in a stopped runtime nothing, in one that starts only the merge.
Rests ==
  /\ life = "down" => writes = <<>> /\ wakes = NoMarkers /\ \A h \in Handlers : hand[h].pc = "idle"
  /\ life = "merging" => \A h \in Handlers : hand[h].pc \in {"idle", "ready"}
  /\ life \in {"down", "merging"} => window.phase = "none" /\ \A k \in Keys : turn[k].pc = "none"
  /\ \A h \in Handlers : hand[h].pc = "set" => fresh

\* A snapshot's waiter waits, and for no other.
Awaited ==
  /\ \A i \in DOMAIN writes : writes[i].who # NoOne => hand[writes[i].who].pc = "set"
  /\ \A i, j \in DOMAIN writes : writes[i].who = writes[j].who /\ writes[i].who # NoOne => i = j

\* Every key that is in use is of a window that was opened.
InUse(k) ==
  wakes[k] # {} \/ disk[k] # {} \/ turn[k].pc # "none" \/ \E i \in DOMAIN writes : writes[i].wakes[k] # {}
Opened == \A k \in Keys : InUse(k) => k[1] < next

\* The open window has its markers, and no turn before a phase ends.
OpenKey == <<window.start, window.phase>>
WindowOpen ==
  window.phase # "none" =>
    /\ window.start \in 1..MaxWindows /\ window.start < next
    /\ turn[OpenKey].pc = "none" /\ wakes[OpenKey] \subseteq window.frames
    /\ window.phase = "leading" =>
         turn[<<window.start, "trailing">>].pc = "none" /\ wakes[<<window.start, "trailing">>] = {}

\* A turn that is not over has the frames of its marker.
Going == {"queued", "post", "pending"}
Covered == \A k \in Keys : turn[k].pc \in Going => wakes[k] \subseteq turn[k].frames

WakeInv == WakeTypes /\ Rests /\ Awaited /\ Opened /\ WindowOpen /\ Covered /\ OwedIsDue

LEMMA KeyTyped ==
  /\ \A k \in Keys : k[1] \in 1..MaxWindows /\ k[2] \in Phases /\ k = <<k[1], k[2]>>
  /\ \A n \in 1..MaxWindows, p \in Phases : <<n, p>> \in Keys
BY DEF Keys, Phases

LEMMA NoMarkersTyped == NoMarkers \in Markers /\ \A k \in Keys : NoMarkers[k] = {}
BY DEF NoMarkers, Markers

LEMMA SnapshotsTyped ==
  ASSUME WakeTypes
  PROVE  \A i \in DOMAIN writes : writes[i].wakes \in Markers /\ writes[i].who \in Waiters
<1>1. writes \in Seq(Snapshots)  BY DEF WakeTypes
<1>2. \A i \in DOMAIN writes : writes[i] \in Snapshots  BY <1>1
<1> QED BY <1>2 DEF Snapshots

LEMMA WakeStarts == ASSUME Init PROVE WakeInv
<1>1. Idle \in Deliveries /\ Idle.pc = "idle"  BY DEF Idle, Deliveries
<1>2. NoTurn \in Turns /\ NoTurn.pc = "none"  BY DEF NoTurn, Turns
<1>3. Closed \in Windows /\ Closed.phase = "none"  BY DEF Closed, Windows, Phases
<1>4. WakeTypes  BY <1>1, <1>2, <1>3, NoMarkersTyped DEF Init, WakeTypes
<1>5. Rests  BY <1>1, <1>2, <1>3 DEF Init, Rests
<1>6. Opened /\ Awaited  BY <1>2, NoMarkersTyped DEF Init, Opened, InUse, Awaited
<1>7. WindowOpen  BY <1>3 DEF Init, WindowOpen
<1>8. Covered  BY <1>2 DEF Init, Covered, Going
<1> QED BY <1>4, <1>5, <1>6, <1>7, <1>8 DEF WakeInv, OwedIsDue, Init

-----------------------------------------------------------------------------
(* The steps that only a delivery makes.                                   *)

\* The delivery goes on, and the stores, the window and the turns stay.
LEMMA HandKeeps ==
  ASSUME WakeInv, UNCHANGED <<fresh, starts, life, window, next, store, turn, runs>>,
         offers' \in [Frames -> Nat], hand' \in [Handlers -> Deliveries],
         \A h \in Handlers : \/ hand'[h] = hand[h]
                             \/ /\ hand[h].pc # "set"
                                /\ \/ hand'[h].pc = "idle"
                                   \/ hand'[h].pc = "ready" /\ life # "down"
                                   \/ hand'[h].pc \in {"ingest", "dedup"} /\ life \in {"up", "stopping"}
  PROVE  WakeInv'
<1>1. UNCHANGED <<wakes, disk, writes>>  BY DEF store
<1>2. WakeTypes'  BY <1>1 DEF WakeInv, WakeTypes
<1>3. Rests'  BY <1>1 DEF WakeInv, Rests
<1>4. Awaited'
  <2>1. \A i \in DOMAIN writes : writes[i].who \in Waiters
    BY SnapshotsTyped DEF WakeInv
  <2> QED BY <1>1, <2>1 DEF WakeInv, Awaited, Waiters
<1> QED BY <1>1, <1>2, <1>3, <1>4 DEF WakeInv, Opened, InUse, WindowOpen, OpenKey, Covered, OwedIsDue, Present

LEMMA GoesTyped ==
  ASSUME WakeInv, NEW h \in Handlers, NEW s \in {"ingest", "set", "dedup"}
  PROVE  LET x == [hand[h] EXCEPT !.pc = s] IN x \in Deliveries /\ x.pc = s /\ x.id = hand[h].id
BY DEF WakeInv, WakeTypes, Deliveries

LEMMA IdleTyped == Idle \in Deliveries /\ Idle.pc = "idle" /\ Idle.id = {}
BY DEF Idle, Deliveries

\* What a delivery awaits it awaits in a runtime that runs.
LEMMA HandRuns ==
  ASSUME WakeInv, NEW h \in Handlers, hand[h].pc \in {"ingest", "set", "dedup"}
  PROVE  life \in {"up", "stopping"}
BY DEF WakeInv, WakeTypes, Rests

LEMMA OfferKeeps == ASSUME WakeInv, NEW n \in Frames, Offer(n) PROVE WakeInv'
<1>1. UNCHANGED <<fresh, starts, life, window, next, store, turn, runs>> /\ life # "down"
      /\ offers' = [offers EXCEPT ![n] = @ + 1]
  BY DEF Offer, config, gateway
<1>2. offers' \in [Frames -> Nat]  BY <1>1 DEF WakeInv, WakeTypes
<1> DEFINE x == [pc |-> "ready", id |-> {n}]
<1>3. x \in Deliveries /\ x.pc = "ready"  BY DEF Deliveries
<1>4. PICK h \in Handlers : hand[h].pc = "idle" /\ hand' = [hand EXCEPT ![h] = x]
  BY IdleTyped DEF Offer
<1> HIDE DEF x
<1>5. hand' \in [Handlers -> Deliveries]  BY <1>3, <1>4 DEF WakeInv, WakeTypes
<1>6. \A g \in Handlers : hand'[g] = hand[g] \/ (hand[g].pc # "set" /\ hand'[g].pc = "ready")
  BY <1>3, <1>4 DEF WakeInv, WakeTypes
<1> QED BY <1>1, <1>2, <1>5, <1>6, HandKeeps

LEMMA DeliveryKeeps ==
  ASSUME WakeInv, NEW h \in Handlers, NEW b \in BOOLEAN,
         Known(h, b) \/ Unknown(h) \/ Enqueued(h, b) \/ (Deduped(h, b) /\ fresh)
  PROVE  WakeInv'
<1>1. UNCHANGED <<fresh, starts, life, offers, window, next, store, turn, runs>>
      /\ hand[h].pc # "set"
  BY DEF Known, Unknown, Enqueued, Deduped, config, kernel, gateway, Ack
<1>2. PICK x \in Deliveries : /\ hand' = [hand EXCEPT ![h] = x]
                              /\ \/ x.pc = "idle"
                                 \/ x.pc \in {"ingest", "dedup"} /\ life \in {"up", "stopping"}
  <2>1. CASE hand' = [hand EXCEPT ![h] = Idle]  BY <2>1, IdleTyped
  <2>2. CASE \E s \in {"ingest", "dedup"} :
               hand' = [hand EXCEPT ![h].pc = s] /\ hand[h].pc \in {"ready", "ingest"}
                 /\ (hand[h].pc = "ready" => life \in {"up", "stopping"})
    <3>1. PICK s \in {"ingest", "dedup"} :
            hand' = [hand EXCEPT ![h].pc = s] /\ hand[h].pc \in {"ready", "ingest"}
              /\ (hand[h].pc = "ready" => life \in {"up", "stopping"})
      BY <2>2
    <3> DEFINE x == [hand[h] EXCEPT !.pc = s]
    <3>2. x \in Deliveries /\ x.pc = s  BY GoesTyped
    <3>3. hand' = [hand EXCEPT ![h] = x]  BY <3>1
    <3> HIDE DEF x
    <3> QED BY <3>1, <3>2, <3>3, HandRuns
  <2> QED BY <2>1, <2>2 DEF Known, Unknown, Enqueued, Deduped
<1>3. hand' \in [Handlers -> Deliveries]  BY <1>2 DEF WakeInv, WakeTypes
<1>4. \A g \in Handlers : \/ hand'[g] = hand[g]
                          \/ /\ hand[g].pc # "set"
                             /\ \/ hand'[g].pc = "idle"
                                \/ hand'[g].pc \in {"ingest", "dedup"} /\ life \in {"up", "stopping"}
  BY <1>1, <1>2 DEF WakeInv, WakeTypes
<1>5. offers' \in [Frames -> Nat]  BY <1>1 DEF WakeInv, WakeTypes
<1> QED BY <1>1, <1>3, <1>4, <1>5, HandKeeps

-----------------------------------------------------------------------------
(* The steps of the stores, the window and the turns.                      *)

\* A snapshot of other markers is queued behind the rest.
LEMMA Persisted ==
  ASSUME WakeInv, NEW m \in Markers, NEW w \in Waiters, Persist(m, w)
  PROVE  /\ wakes' = m /\ disk' = disk /\ writes' \in Seq(Snapshots)
         /\ Len(writes') = Len(writes) + 1 /\ writes'[Len(writes) + 1] = [wakes |-> m, who |-> w]
         /\ \A i \in DOMAIN writes : writes'[i] = writes[i]
         /\ DOMAIN writes = 1..Len(writes) /\ DOMAIN writes' = 1..(Len(writes) + 1) /\ Len(writes) \in Nat
<1> DEFINE x == [wakes |-> m, who |-> w]
<1>1. x \in Snapshots  BY DEF Snapshots
<1>2. writes \in Seq(Snapshots)  BY DEF WakeInv, WakeTypes
<1>3. writes' = Append(writes, x)  BY DEF Persist
<1> HIDE DEF x
<1>4. /\ writes' \in Seq(Snapshots) /\ Len(writes') = Len(writes) + 1 /\ writes'[Len(writes) + 1] = x
      /\ \A i \in 1..Len(writes) : writes'[i] = writes[i]
      /\ DOMAIN writes = 1..Len(writes) /\ DOMAIN writes' = 1..(Len(writes) + 1) /\ Len(writes) \in Nat
  BY <1>1, <1>2, <1>3, AppendProperties, LenProperties
<1> QED BY <1>4 DEF Persist, x

\* The keys in use after it are those before and those of the new snapshot.
LEMMA PersistUses ==
  ASSUME WakeInv, NEW m \in Markers, NEW w \in Waiters, Persist(m, w), NEW k \in Keys, InUse(k)'
  PROVE  InUse(k) \/ m[k] # {} \/ turn'[k].pc # "none"
<1>1. CASE \E i \in DOMAIN writes' : writes'[i].wakes[k] # {}
  <2>1. PICK i \in DOMAIN writes' : writes'[i].wakes[k] # {}  BY <1>1
  <2>2. /\ writes'[Len(writes) + 1] = [wakes |-> m, who |-> w]
        /\ \A j \in DOMAIN writes : writes'[j] = writes[j]
        /\ DOMAIN writes = 1..Len(writes) /\ DOMAIN writes' = 1..(Len(writes) + 1) /\ Len(writes) \in Nat
    BY Persisted
  <2>3. i \in DOMAIN writes \/ i = Len(writes) + 1  BY <2>1, <2>2
  <2>4. CASE i \in DOMAIN writes  BY <2>1, <2>2, <2>4 DEF InUse
  <2>5. CASE i = Len(writes) + 1
    <3>1. writes'[i].wakes = m  BY <2>2, <2>5
    <3> QED BY <2>1, <3>1
  <2> QED BY <2>3, <2>4, <2>5
<1>2. CASE wakes'[k] # {} \/ disk'[k] # {} \/ turn'[k].pc # "none"
  BY <1>2, Persisted DEF InUse
<1> QED BY <1>1, <1>2 DEF InUse

\* Its waiter is the only one for it.
LEMMA PersistAwaits ==
  ASSUME WakeInv, NEW m \in Markers, NEW w \in Waiters, Persist(m, w),
         \A h \in Handlers : hand'[h] = hand[h] \/ hand[h].pc # "set",
         w # NoOne => hand[w].pc # "set" /\ hand'[w].pc = "set"
  PROVE  Awaited'
<1>1. /\ writes'[Len(writes) + 1] = [wakes |-> m, who |-> w]
      /\ \A j \in DOMAIN writes : writes'[j] = writes[j]
      /\ DOMAIN writes = 1..Len(writes) /\ DOMAIN writes' = 1..(Len(writes) + 1) /\ Len(writes) \in Nat
  BY Persisted
<1>2. \A i \in DOMAIN writes : writes[i].who \in Waiters
  BY SnapshotsTyped DEF WakeInv
<1>3. \A i \in DOMAIN writes' : i \in DOMAIN writes \/ (i = Len(writes) + 1 /\ writes'[i].who = w)
  BY <1>1
<1>4. \A i \in DOMAIN writes : writes[i].who # NoOne => writes[i].who # w
  BY <1>2 DEF WakeInv, Awaited
<1>5. \A i \in DOMAIN writes' : writes'[i].who # NoOne => hand'[writes'[i].who].pc = "set"
  BY <1>1, <1>2, <1>3 DEF WakeInv, Awaited, Waiters
<1>6. \A i, j \in DOMAIN writes' : writes'[i].who = writes'[j].who /\ writes'[i].who # NoOne => i = j
  BY <1>1, <1>3, <1>4 DEF WakeInv, Awaited
<1> QED BY <1>5, <1>6 DEF Awaited

\* bufferWake, in a runtime that runs.
LEMMA BufferKeeps ==
  ASSUME WakeInv, NEW id \in SUBSET Frames, NEW w \in Waiters, Buffer(id, w),
         life \in {"up", "stopping"}, UNCHANGED <<fresh, starts, life, offers, turn, runs>>,
         hand' \in [Handlers -> Deliveries],
         \A h \in Handlers : /\ hand'[h].pc = "set" => fresh
                             /\ (hand'[h] = hand[h] \/ hand[h].pc # "set"),
         w # NoOne => hand[w].pc # "set" /\ hand'[w].pc = "set"
  PROVE  WakeInv'
<1> DEFINE v == IF window.phase # "none" THEN [window EXCEPT !.frames = @ \cup id]
                ELSE [phase |-> "leading", start |-> next, frames |-> id]
<1>1. window \in Windows /\ next \in Nat \ {0}  BY DEF WakeInv, WakeTypes
<1>2. /\ v \in Windows /\ v.phase \in Phases /\ id \subseteq v.frames
      /\ window.phase # "none" => v.phase = window.phase /\ v.start = window.start
                                   /\ window.frames \subseteq v.frames
      /\ window.phase = "none" => v.phase = "leading" /\ v.start = next
  <2>1. CASE window.phase # "none"
    <3>1. v = [window EXCEPT !.frames = @ \cup id]  BY <2>1
    <3> HIDE DEF v
    <3> QED BY <1>1, <2>1, <3>1 DEF Windows, Phases
  <2>2. CASE window.phase = "none"
    <3>1. v = [phase |-> "leading", start |-> next, frames |-> id]  BY <2>2
    <3> HIDE DEF v
    <3> QED BY <1>1, <2>2, <3>1 DEF Windows, Phases
  <2> QED BY <2>1, <2>2
<1> DEFINE k == <<v.start, v.phase>>
<1> DEFINE m == [wakes EXCEPT ![k] = v.frames]
<1>3. v.start <= MaxWindows /\ window' = v /\ next' = (IF window.phase = "none" THEN next + 1 ELSE next)
      /\ Persist(m, w)
  BY DEF Buffer
<1> HIDE DEF v
<1>4. v.start \in 1..MaxWindows /\ v.start < next'
  <2>1. CASE window.phase # "none"  BY <1>2, <1>3, <2>1 DEF WakeInv, WindowOpen
  <2>2. CASE window.phase = "none"  BY <1>1, <1>2, <1>3, <2>2, BoundsAssumption
  <2> QED BY <2>1, <2>2
<1>5. k \in Keys /\ k[1] = v.start  BY <1>2, <1>4, KeyTyped
<1>6. m \in Markers /\ m[k] = v.frames /\ \A j \in Keys : j # k => m[j] = wakes[j]
  <2>1. v.frames \in SUBSET Frames  BY <1>2 DEF Windows
  <2> QED BY <1>5, <2>1 DEF WakeInv, WakeTypes, Markers
<1> HIDE DEF m
<1>7. wakes' = m /\ disk' = disk /\ writes' \in Seq(Snapshots)  BY <1>3, <1>6, Persisted
<1>8. next' \in Nat \ {0} /\ next <= next'  BY <1>1, <1>3
<1>9. WakeTypes'  BY <1>2, <1>3, <1>6, <1>7, <1>8 DEF WakeInv, WakeTypes
<1>10. Rests' /\ Awaited'  BY <1>3, <1>6, PersistAwaits DEF Rests
<1>11. Opened'
  <2>1. ASSUME NEW j \in Keys, InUse(j)' PROVE j[1] < next'
    <3>1. InUse(j) \/ m[j] # {} \/ turn[j].pc # "none"  BY <1>3, <1>6, <2>1, PersistUses
    <3>2. InUse(j) \/ j = k  BY <1>6, <3>1 DEF InUse
    <3>3. j[1] \in Nat  BY KeyTyped
    <3> QED BY <1>1, <1>4, <1>5, <1>8, <3>2, <3>3 DEF WakeInv, Opened
  <2> QED BY <2>1 DEF Opened
<1>12. window.phase = "none" => \A p \in Phases : ~InUse(<<next, p>>)
  <2>1. ASSUME window.phase = "none", NEW p \in Phases PROVE ~InUse(<<next, p>>)
    <3>1. <<next, p>> \in Keys  BY <1>2, <1>4, <2>1, KeyTyped
    <3>2. ~(next < next)  BY <1>1
    <3> QED BY <3>1, <3>2 DEF WakeInv, Opened
  <2> QED BY <2>1
<1>13. turn[k].pc = "none"
  <2>1. CASE window.phase # "none"  BY <1>2, <2>1 DEF WakeInv, WindowOpen, OpenKey
  <2>2. CASE window.phase = "none"  BY <1>2, <1>12, <2>2 DEF InUse, Phases
  <2> QED BY <2>1, <2>2
<1>14. v.phase = "leading" =>
          turn[<<v.start, "trailing">>].pc = "none" /\ wakes[<<v.start, "trailing">>] = {}
  <2>1. CASE window.phase # "none"  BY <1>2, <2>1 DEF WakeInv, WindowOpen, OpenKey
  <2>2. CASE window.phase = "none"  BY <1>2, <1>12, <2>2 DEF InUse, Phases
  <2> QED BY <2>1, <2>2
<1>15. WindowOpen'
  <2>1. v.phase = "leading" => m[<<v.start, "trailing">>] = {}
    <3>1. ASSUME v.phase = "leading" PROVE <<v.start, "trailing">> \in Keys /\ <<v.start, "trailing">> # k
      BY <1>4, <3>1, KeyTyped DEF Phases
    <3> QED BY <1>6, <1>14, <3>1
  <2> QED BY <1>3, <1>4, <1>6, <1>7, <1>13, <1>14, <2>1 DEF WindowOpen, OpenKey
<1>16. Covered'
  BY <1>6, <1>7, <1>13 DEF WakeInv, Covered, Going
<1>17. OwedIsDue'
  <2>1. ASSUME life = "up", NEW j \in Keys, m[j] # {} PROVE turn[j].pc # "none" \/ k = j
    <3>1. CASE j # k
      <4>1. wakes[j] # {}  BY <1>6, <2>1, <3>1
      <4>2. turn[j].pc # "none" \/ <<window.start, window.phase>> = j
        BY <2>1, <4>1 DEF WakeInv, OwedIsDue, Present
      <4>3. window.phase # "none" => <<window.start, window.phase>> = k  BY <1>2
      <4>4. window.phase = "none" => <<window.start, window.phase>> # j
        BY KeyTyped DEF Phases
      <4> QED BY <3>1, <4>2, <4>3, <4>4
    <3> QED BY <3>1
  <2> QED BY <1>3, <1>7, <2>1 DEF OwedIsDue, Present
<1> QED BY <1>9, <1>10, <1>11, <1>15, <1>16, <1>17 DEF WakeInv

LEMMA BuffersKeep ==
  ASSUME WakeInv, NEW h \in Handlers, NEW b \in BOOLEAN, Ingested(h) \/ (Deduped(h, b) /\ ~fresh)
  PROVE  WakeInv'
<1> DEFINE x == IF fresh THEN [hand[h] EXCEPT !.pc = "set"] ELSE Idle
<1>1. /\ UNCHANGED <<fresh, starts, life, offers, turn, runs>> /\ hand[h].pc \in {"ingest", "dedup"}
      /\ hand' = [hand EXCEPT ![h] = x]
      /\ \E w \in Waiters : Buffer(hand[h].id, w) /\ (w # NoOne => w = h /\ fresh)
  <2>1. CASE Ingested(h)
    <3>1. Buffer(hand[h].id, h) /\ h \in Waiters /\ fresh  BY <2>1 DEF Ingested, Waiters
    <3>2. x = [hand[h] EXCEPT !.pc = "set"]  BY <2>1 DEF Ingested
    <3> HIDE DEF x
    <3> QED BY <2>1, <3>1, <3>2 DEF Ingested, config, kernel, gateway
  <2>2. CASE Deduped(h, b) /\ ~fresh
    <3>1. Buffer(hand[h].id, NoOne) /\ NoOne \in Waiters  BY <2>2 DEF Deduped, Waiters
    <3>2. x = Idle  BY <2>2
    <3> HIDE DEF x
    <3> QED BY <2>2, <3>1, <3>2 DEF Deduped, Ack, config, kernel, gateway
  <2> QED BY <2>1, <2>2
<1>2. hand[h].id \in SUBSET Frames /\ hand \in [Handlers -> Deliveries]
  BY DEF WakeInv, WakeTypes, Deliveries
<1>3. x \in Deliveries /\ (x.pc = "set" <=> fresh)
  <2>1. "set" \in {"ingest", "set", "dedup"}  OBVIOUS
  <2> QED BY <2>1, GoesTyped, IdleTyped
<1> HIDE DEF x
<1>4. hand' \in [Handlers -> Deliveries]  BY <1>1, <1>2, <1>3
<1>5. \A g \in Handlers : /\ hand'[g].pc = "set" => fresh
                         /\ (hand'[g] = hand[g] \/ hand[g].pc # "set")
  BY <1>1, <1>2, <1>3 DEF WakeInv, Rests
<1>6. life \in {"up", "stopping"}
  <2>1. hand[h].pc \in {"ingest", "set", "dedup"}  BY <1>1
  <2> QED BY <2>1, HandRuns
<1>7. PICK w \in Waiters : Buffer(hand[h].id, w) /\ (w # NoOne => w = h /\ fresh)  BY <1>1
<1>8. w # NoOne => hand[w].pc # "set" /\ hand'[w].pc = "set"  BY <1>1, <1>2, <1>3, <1>7
<1> QED BY <1>1, <1>2, <1>4, <1>5, <1>6, <1>7, <1>8, BufferKeeps

\* The queue's first snapshot is the file's, or lost; the others move up.
LEMMA Moved ==
  ASSUME WakeInv, writes # <<>>, writes' = Tail(writes)
  PROVE  /\ writes' \in Seq(Snapshots) /\ Head(writes) \in Snapshots /\ Head(writes) = writes[1]
         /\ 1 \in DOMAIN writes /\ \A i \in DOMAIN writes : i \in Nat \ {0}
         /\ \A i \in DOMAIN writes' : i \in Nat \ {0} /\ i + 1 \in DOMAIN writes /\ writes'[i] = writes[i + 1]
         /\ \A i \in DOMAIN writes : i # 1 => i - 1 \in DOMAIN writes' /\ writes'[i - 1] = writes[i]
<1>1. writes \in Seq(Snapshots)  BY DEF WakeInv, WakeTypes
<1>2. /\ Head(writes) \in Snapshots /\ writes' \in Seq(Snapshots) /\ Len(writes') = Len(writes) - 1
      /\ \A i \in 1..(Len(writes) - 1) : writes'[i] = writes[i + 1]
      /\ Len(writes) \in Nat /\ Len(writes) # 0 /\ Head(writes) = writes[1]
  BY <1>1, HeadTailProperties, EmptySeq, LenProperties
<1>3. DOMAIN writes = 1..Len(writes) /\ DOMAIN writes' = 1..(Len(writes) - 1)
  BY <1>1, <1>2, LenProperties
<1> QED BY <1>2, <1>3

LEMMA WrittenKeeps == ASSUME WakeInv, NEW ok \in BOOLEAN, Written(ok) PROVE WakeInv'
<1> DEFINE w == Head(writes).who
<1>1. /\ UNCHANGED <<fresh, starts, life, offers, window, next, wakes, turn, runs>>
      /\ writes # <<>> /\ writes' = Tail(writes) /\ disk' \in {disk, Head(writes).wakes}
  BY DEF Written, config, kernel, gateway
<1>2. /\ writes' \in Seq(Snapshots) /\ Head(writes) \in Snapshots /\ Head(writes) = writes[1]
      /\ 1 \in DOMAIN writes
      /\ \A i \in DOMAIN writes' : i + 1 \in DOMAIN writes /\ writes'[i] = writes[i + 1]
  BY <1>1, Moved
<1>3. life \in {"merging", "up", "stopping"}  BY <1>1 DEF WakeInv, WakeTypes, Rests
<1>4. /\ hand' \in [Handlers -> Deliveries]
      /\ w # NoOne => w \in Handlers /\ hand'[w].pc \in {"idle", "dedup"} /\ life \in {"up", "stopping"}
      /\ \A h \in Handlers : h # w => hand'[h] = hand[h]
  <2>1. hand \in [Handlers -> Deliveries] /\ w \in Waiters  BY <1>2 DEF WakeInv, WakeTypes, Snapshots
  <2>2. w # NoOne => w \in Handlers /\ hand[w].pc = "set"
    BY <1>2, <2>1 DEF WakeInv, Awaited, Waiters
  <2>3. w # NoOne => life \in {"up", "stopping"}
    <3>1. w # NoOne => hand[w].pc \in {"ingest", "set", "dedup"}  BY <2>2
    <3> HIDE DEF w
    <3> QED BY <2>2, <3>1, HandRuns
  <2>4. CASE w = NoOne
    <3>1. hand' = hand  BY <2>4 DEF Written
    <3> QED BY <2>1, <2>4, <3>1
  <2>5. CASE w # NoOne /\ hand' = [hand EXCEPT ![w] = Idle]
    <3> HIDE DEF w
    <3> QED BY <2>1, <2>2, <2>3, <2>5, IdleTyped
  <2>6. CASE w # NoOne /\ hand' = [hand EXCEPT ![w].pc = "dedup"]
    <3> DEFINE y == [hand[w] EXCEPT !.pc = "dedup"]
    <3>1. y \in Deliveries /\ y.pc = "dedup"
      <4>1. "dedup" \in {"ingest", "set", "dedup"}  OBVIOUS
      <4> HIDE DEF w
      <4> QED BY <2>2, <2>6, <4>1, GoesTyped
    <3>2. hand' = [hand EXCEPT ![w] = y]  BY <2>6
    <3> HIDE DEF w, y
    <3> QED BY <2>1, <2>2, <2>3, <2>6, <3>1, <3>2
  <2> QED BY <2>4, <2>5, <2>6 DEF Written
<1>5. WakeTypes'  BY <1>1, <1>2, <1>4 DEF WakeInv, WakeTypes, Snapshots
<1>6. Rests'
  <2> HIDE DEF w
  <2> QED BY <1>1, <1>3, <1>4 DEF WakeInv, Rests, Waiters, Handlers, NoOne
<1>8. Awaited'
  <2>1. \A i \in DOMAIN writes' : i \in Nat \ {0} /\ i + 1 \in DOMAIN writes /\ writes'[i] = writes[i + 1]
    BY <1>1, Moved
  <2>2. \A i \in DOMAIN writes' : i + 1 # 1  BY <2>1
  <2>3. \A i \in DOMAIN writes' : writes'[i].who # NoOne =>
            /\ hand[writes'[i].who].pc = "set" /\ writes'[i].who # w /\ writes'[i].who \in Handlers
    <3>1. \A i \in DOMAIN writes : writes[i].who \in Waiters
      BY SnapshotsTyped DEF WakeInv
    <3> QED BY <1>2, <2>1, <2>2, <3>1 DEF WakeInv, Awaited, Waiters
  <2>4. \A i, j \in DOMAIN writes' : writes'[i].who = writes'[j].who /\ writes'[i].who # NoOne => i = j
    BY <2>1 DEF WakeInv, Awaited
  <2> HIDE DEF w
  <2> QED BY <1>4, <2>3, <2>4 DEF Awaited
<1>7. Opened'
  <2>1. ASSUME NEW k \in Keys, InUse(k)' PROVE InUse(k)
    <3>1. CASE \E i \in DOMAIN writes' : writes'[i].wakes[k] # {}  BY <1>2, <3>1 DEF InUse
    <3>2. CASE disk'[k] # {}  BY <1>1, <1>2, <3>2 DEF InUse
    <3>3. CASE wakes'[k] # {} \/ turn'[k].pc # "none"  BY <1>1, <3>3 DEF InUse
    <3> QED BY <2>1, <3>1, <3>2, <3>3 DEF InUse
  <2> QED BY <1>1, <2>1 DEF WakeInv, Opened
<1> QED BY <1>1, <1>5, <1>6, <1>7, <1>8 DEF WakeInv, WindowOpen, OpenKey, Covered, OwedIsDue, Present

-----------------------------------------------------------------------------
(* The window's timers.                                                    *)

LEMMA QueuedTyped ==
  ASSUME NEW frames \in SUBSET Frames
  PROVE  LET y == [pc |-> "queued", frames |-> frames] IN
         y \in Turns /\ y.pc = "queued" /\ y.frames = frames
BY DEF Turns

\* A phase ends, with a wake if it has frames.
LEMMA PhaseEnds ==
  ASSUME WakeInv, life = "up", window.phase # "none", window' \in Windows,
         UNCHANGED <<fresh, starts, life, offers, hand, next, store, runs>>,
         \/ turn' = turn /\ window.frames = {}
         \/ Schedule(OpenKey, window.frames),
         \/ window'.phase = "none"
         \/ /\ window.phase = "leading" /\ window'.phase = "trailing"
            /\ window'.start = window.start /\ window'.frames = {}
            /\ Schedule(OpenKey, window.frames)
  PROVE  WakeInv'
<1> DEFINE k == OpenKey
           y == [pc |-> "queued", frames |-> window.frames]
<1>1. window \in Windows /\ window.frames \in SUBSET Frames /\ window.phase \in Phases
  BY DEF WakeInv, WakeTypes, Windows
<1>2. y \in Turns /\ y.pc = "queued" /\ y.frames = window.frames  BY <1>1, QueuedTyped
<1>3. /\ k \in Keys /\ k[1] = window.start /\ window.start \in 1..MaxWindows /\ window.start < next
      /\ turn[k].pc = "none" /\ wakes[k] \subseteq window.frames
      /\ k = <<window.start, window.phase>>
  BY <1>1, KeyTyped DEF WakeInv, WindowOpen, OpenKey
<1>4. UNCHANGED <<wakes, disk, writes>>  BY DEF store
<1>5. \/ turn' = turn /\ window.frames = {}
      \/ turn' = [turn EXCEPT ![k] = y]
  BY DEF Schedule
<1>6. window'.phase # "none" =>
        /\ window.phase = "leading" /\ window'.phase = "trailing"
        /\ window'.start = window.start /\ window'.frames = {}
        /\ turn' = [turn EXCEPT ![k] = y]
  BY DEF Schedule
<1> HIDE DEF k, y
<1>7. turn \in [Keys -> Turns]  BY DEF WakeInv, WakeTypes
<1>8. turn' \in [Keys -> Turns] /\ \A j \in Keys : j # k => turn'[j] = turn[j]
  BY <1>2, <1>3, <1>5, <1>7
<1>9. \/ turn'[k] = turn[k] /\ window.frames = {}
      \/ turn'[k] = y
  BY <1>2, <1>3, <1>5, <1>7
<1>10. WakeTypes'  BY <1>4, <1>8 DEF WakeInv, WakeTypes
<1>11. Rests' /\ Awaited'  BY <1>4 DEF WakeInv, Rests, Awaited
<1>12. Opened'
  <2>1. ASSUME NEW j \in Keys, InUse(j)' PROVE j[1] < next
    <3>1. CASE j = k  BY <1>3, <3>1
    <3>2. CASE j # k  BY <1>4, <1>8, <2>1, <3>2 DEF WakeInv, Opened, InUse
    <3> QED BY <3>1, <3>2
  <2> QED BY <2>1 DEF Opened
<1>13. WindowOpen'
  <2>1. ASSUME window'.phase # "none" PROVE WindowOpen'
    <3> DEFINE j == <<window.start, "trailing">>
    <3>1. j \in Keys /\ j # k  BY <1>3, <1>6, <2>1, KeyTyped DEF Phases
    <3>2. turn[j].pc = "none" /\ wakes[j] = {}  BY <1>6, <2>1 DEF WakeInv, WindowOpen
    <3>3. turn'[j].pc = "none" /\ wakes'[j] = {}  BY <1>4, <1>8, <3>1, <3>2
    <3>4. OpenKey' = j  BY <1>6, <2>1 DEF OpenKey
    <3> HIDE DEF j
    <3> QED BY <1>3, <1>6, <2>1, <3>3, <3>4 DEF WindowOpen
  <2> QED BY <2>1 DEF WindowOpen
<1>14. Covered'
  <2>1. ASSUME NEW j \in Keys, turn'[j].pc \in Going PROVE wakes[j] \subseteq turn'[j].frames
    <3>1. CASE j = k  BY <1>2, <1>3, <1>9, <2>1, <3>1 DEF Going
    <3>2. CASE j # k  BY <1>8, <2>1, <3>2 DEF WakeInv, Covered
    <3> QED BY <3>1, <3>2
  <2> QED BY <1>4, <2>1 DEF Covered
<1>15. OwedIsDue'
  <2>1. ASSUME NEW j \in Keys, wakes[j] # {} PROVE turn'[j].pc # "none"
    <3>1. CASE j = k  BY <1>2, <1>3, <1>9, <2>1, <3>1
    <3>2. CASE j # k  BY <1>3, <1>8, <2>1, <3>2 DEF WakeInv, OwedIsDue, Present
    <3> QED BY <3>1, <3>2
  <2> QED BY <1>4, <2>1 DEF OwedIsDue, Present
<1> QED BY <1>10, <1>11, <1>12, <1>13, <1>14, <1>15 DEF WakeInv

LEMMA FiresKeep == ASSUME WakeInv, LeadingFires \/ TrailingFires PROVE WakeInv'
<1>1. window \in Windows  BY DEF WakeInv, WakeTypes
<1>2. CASE LeadingFires
  <2> DEFINE v == [window EXCEPT !.phase = "trailing", !.frames = {}]
  <2>1. v \in Windows /\ v.phase = "trailing" /\ v.start = window.start /\ v.frames = {}
    BY <1>1 DEF Windows, Phases
  <2>2. window' = v  BY <1>2 DEF LeadingFires
  <2> HIDE DEF v
  <2>3. /\ life = "up" /\ window.phase = "leading" /\ Schedule(OpenKey, window.frames)
        /\ UNCHANGED <<fresh, starts, life, offers, hand, next, store, runs>>
    BY <1>2 DEF LeadingFires, OpenKey, config, kernel, gateway
  <2> QED BY <2>1, <2>2, <2>3, PhaseEnds
<1>3. CASE TrailingFires
  <2>1. Closed \in Windows /\ Closed.phase = "none"  BY DEF Closed, Windows
  <2>2. /\ life = "up" /\ window.phase = "trailing" /\ window' = Closed
        /\ UNCHANGED <<fresh, starts, life, offers, hand, next, store, runs>>
        /\ \/ turn' = turn /\ window.frames = {}
           \/ Schedule(OpenKey, window.frames)
    BY <1>3 DEF TrailingFires, OpenKey, config, kernel, gateway
  <2> QED BY <2>1, <2>2, PhaseEnds
<1> QED BY <1>2, <1>3

-----------------------------------------------------------------------------
(* The turns.                                                              *)

LEMMA MinIn ==
  ASSUME NEW S \in SUBSET Nat, S # {}
  PROVE  Min(S) \in S /\ \A n \in S : Min(S) <= n
<1> DEFINE R == OpToRel(<, Nat)
<1>1. IsWellFoundedOn(R, Nat)  BY NatLessThanWellFounded
<1>2. PICK m \in S : \A n \in S : ~(<<n, m>> \in R)  BY <1>1, WFMin
<1>3. ASSUME NEW a \in Nat, NEW b \in Nat, a < b PROVE <<a, b>> \in R
  <2>1. <<a, b>> \in Nat \X Nat /\ <<a, b>>[1] = a /\ <<a, b>>[2] = b  OBVIOUS
  <2>2. <<a, b>>[1] < <<a, b>>[2]  BY <1>3, <2>1
  <2> QED BY <2>1, <2>2 DEF OpToRel
<1> HIDE DEF R
<1>4. ASSUME NEW n \in S PROVE m <= n
  <2>1. m \in Nat /\ n \in Nat  OBVIOUS
  <2>2. ~(n < m)  BY <1>2, <1>3, <2>1
  <2> QED BY <2>1, <2>2
<1> QED BY <1>4 DEF Min

\* A turn goes on, or is over; then its marker may go.
LEMMA TurnGoes ==
  ASSUME WakeInv, NEW k \in Keys, NEW y \in Turns, turn[k].pc \in Going,
         turn' = [turn EXCEPT ![k] = y], y.pc \in {"post", "pending", "over"},
         y.pc # "over" => y.frames = turn[k].frames,
         UNCHANGED <<fresh, starts, life, offers, hand, window, next>>, runs' \in [Frames -> Nat],
         UNCHANGED store \/ (y.pc = "over" /\ Persist([wakes EXCEPT ![k] = {}], NoOne))
  PROVE  WakeInv'
<1> DEFINE m == [wakes EXCEPT ![k] = {}]
<1>1. turn \in [Keys -> Turns] /\ wakes \in Markers  BY DEF WakeInv, WakeTypes
<1>2. turn' \in [Keys -> Turns] /\ turn'[k] = y /\ \A j \in Keys : j # k => turn'[j] = turn[j]
  BY <1>1
<1>3. m \in Markers /\ m[k] = {} /\ \A j \in Keys : j # k => m[j] = wakes[j]
  BY <1>1 DEF Markers
<1>4. NoOne \in Waiters  BY DEF Waiters
<1> HIDE DEF m
<1>5. CASE UNCHANGED store
  <2>1. UNCHANGED <<wakes, disk, writes>>  BY <1>5 DEF store
  <2>2. WakeTypes'  BY <1>2, <2>1 DEF WakeInv, WakeTypes
  <2>3. Rests' /\ Awaited'
    <3>1. life \notin {"down", "merging"}  BY DEF WakeInv, Rests, Going
    <3> QED BY <2>1, <3>1 DEF WakeInv, Rests, Awaited
  <2>4. Opened'
    <3>1. ASSUME NEW j \in Keys, InUse(j)' PROVE InUse(j)
      <4>1. turn'[j].pc # "none" => turn[j].pc # "none"  BY <1>2 DEF Going
      <4> QED BY <2>1, <3>1, <4>1 DEF InUse
    <3> QED BY <3>1 DEF WakeInv, Opened
  <2>5. WindowOpen'
    <3>1. ASSUME NEW j \in Keys, turn[j].pc = "none" PROVE turn'[j].pc = "none"
      BY <1>2, <3>1 DEF Going
    <3>2. ASSUME window.phase # "none"
          PROVE  OpenKey \in Keys /\ <<window.start, "trailing">> \in Keys
      BY <3>2, KeyTyped DEF WakeInv, WakeTypes, WindowOpen, OpenKey, Windows, Phases
    <3> QED BY <2>1, <3>1, <3>2 DEF WakeInv, WindowOpen, OpenKey
  <2>6. Covered'  BY <1>2, <2>1 DEF WakeInv, Covered, Going
  <2>7. OwedIsDue'  BY <1>2, <2>1 DEF WakeInv, OwedIsDue, Present
  <2> QED BY <2>2, <2>3, <2>4, <2>5, <2>6, <2>7 DEF WakeInv
<1>6. CASE y.pc = "over" /\ Persist(m, NoOne)
  <2>1. wakes' = m /\ disk' = disk /\ writes' \in Seq(Snapshots)  BY <1>3, <1>4, <1>6, Persisted
  <2>2. WakeTypes'  BY <1>2, <1>3, <2>1 DEF WakeInv, WakeTypes
  <2>3. Rests'
    <3>1. life \notin {"down", "merging"}  BY DEF WakeInv, Rests, Going
    <3> QED BY <3>1 DEF WakeInv, Rests
  <2>4. Awaited'  BY <1>3, <1>4, <1>6, PersistAwaits
  <2>5. Opened'
    <3>1. ASSUME NEW j \in Keys, InUse(j)' PROVE InUse(j)
      <4>1. turn'[j].pc # "none" => turn[j].pc # "none"  BY <1>2 DEF Going
      <4>2. InUse(j) \/ m[j] # {} \/ turn'[j].pc # "none"  BY <1>3, <1>4, <1>6, <3>1, PersistUses
      <4> QED BY <1>3, <4>1, <4>2 DEF InUse
    <3> QED BY <3>1 DEF WakeInv, Opened
  <2>6. WindowOpen'
    <3>1. ASSUME NEW j \in Keys, turn[j].pc = "none" PROVE turn'[j].pc = "none" /\ wakes'[j] = wakes[j]
      BY <1>2, <1>3, <2>1, <3>1 DEF Going
    <3>2. ASSUME window.phase # "none"
          PROVE  OpenKey \in Keys /\ <<window.start, "trailing">> \in Keys
      BY <3>2, KeyTyped DEF WakeInv, WakeTypes, WindowOpen, OpenKey, Windows, Phases
    <3> QED BY <3>1, <3>2 DEF WakeInv, WindowOpen, OpenKey
  <2>7. Covered'  BY <1>2, <1>3, <1>6, <2>1 DEF WakeInv, Covered, Going
  <2>8. OwedIsDue'  BY <1>2, <1>3, <1>6, <2>1 DEF WakeInv, OwedIsDue, Present
  <2> QED BY <2>2, <2>3, <2>4, <2>5, <2>6, <2>7, <2>8 DEF WakeInv
<1> QED BY <1>5, <1>6 DEF m

LEMMA SettleTyped ==
  ASSUME WakeInv, NEW k \in Keys, NEW pc \in {"post", "pending", "over"}
  PROVE  LET y == [pc |-> pc, frames |-> IF pc = "over" THEN {} ELSE turn[k].frames] IN
         /\ y \in Turns /\ y.pc = pc /\ (pc # "over" => y.frames = turn[k].frames)
         /\ Settle(k, pc) => turn' = [turn EXCEPT ![k] = y]
<1>1. turn[k] \in Turns  BY DEF WakeInv, WakeTypes
<1> QED BY <1>1 DEF Turns, Settle

LEMMA ReachedTyped ==
  ASSUME WakeInv, NEW k, Reached(k)
  PROVE  runs' \in [Frames -> Nat]
<1>1. \A n \in Frames : Min({runs[n] + 1, 2}) \in Nat
  <2> SUFFICES ASSUME NEW n \in Frames PROVE Min({runs[n] + 1, 2}) \in Nat
    OBVIOUS
  <2>1. {runs[n] + 1, 2} \in SUBSET Nat  BY DEF WakeInv, WakeTypes
  <2> QED BY <2>1, MinIn
<1> QED BY <1>1 DEF Reached, WakeInv, WakeTypes

LEMMA SettlesKeep ==
  ASSUME WakeInv, NEW k \in Keys, NEW pc \in {"post", "pending", "over"}, Settle(k, pc), turn[k].pc \in Going,
         UNCHANGED <<fresh, starts, life, offers, hand, window, next>>,
         UNCHANGED runs \/ Reached(k),
         UNCHANGED store \/ (pc = "over" /\ Forget(k))
  PROVE  WakeInv'
<1> DEFINE y == [pc |-> pc, frames |-> IF pc = "over" THEN {} ELSE turn[k].frames]
<1>1. y \in Turns /\ y.pc = pc /\ (pc # "over" => y.frames = turn[k].frames) /\ turn' = [turn EXCEPT ![k] = y]
  BY SettleTyped
<1> HIDE DEF y
<1>2. runs' \in [Frames -> Nat]  BY ReachedTyped DEF WakeInv, WakeTypes
<1>3. UNCHANGED store \/ (pc = "over" /\ Persist([wakes EXCEPT ![k] = {}], NoOne))
  BY DEF Forget
<1> QED BY <1>1, <1>2, <1>3, TurnGoes

LEMMA TurnsKeep ==
  ASSUME WakeInv, NEW k \in Keys, NEW b \in BOOLEAN, NEW c \in BOOLEAN,
         \/ GaveUp(k) \/ Disclosed(k, b) \/ Tracked(k, b) \/ Admit(k) \/ Pending(k, b)
         \/ Failed(k, b, c) \/ Completes(k)
  PROVE  WakeInv'
<1>1. UNCHANGED <<fresh, starts, life, offers, hand, window, next>> /\ turn[k].pc \in Going
  BY DEF GaveUp, Disclosed, Tracked, Admit, Pending, Failed, Completes, First, Going, config, kernel
<1>2. UNCHANGED runs \/ Reached(k)
  BY DEF GaveUp, Disclosed, Tracked, Admit, Pending, Failed, Completes, gateway
<1>3. PICK pc \in {"post", "pending", "over"} :
         Settle(k, pc) /\ (UNCHANGED store \/ (pc = "over" /\ Forget(k)))
  <2>1. CASE GaveUp(k)  BY <2>1 DEF GaveUp
  <2>2. CASE Disclosed(k, b)  BY <2>2 DEF Disclosed
  <2>3. CASE Tracked(k, b)  BY <2>3 DEF Tracked
  <2>4. CASE Admit(k)  BY <2>4 DEF Admit
  <2>5. CASE Pending(k, b)  BY <2>5 DEF Pending
  <2>6. CASE Failed(k, b, c)  BY <2>6 DEF Failed
  <2>7. CASE Completes(k)  BY <2>7 DEF Completes
  <2> QED BY <2>1, <2>2, <2>3, <2>4, <2>5, <2>6, <2>7
<1> QED BY <1>1, <1>2, <1>3, SettlesKeep

-----------------------------------------------------------------------------
(* The start, which merges what is left.                                   *)

\* The snapshot is of the same frames, under keys of windows that m has.
Keeps(x, m) ==
  /\ x \in Markers /\ AllOf(x) = AllOf(m)
  /\ \A k \in Keys : x[k] # {} => \E j \in Keys : m[j] # {} /\ j[1] = k[1]

LEMMA AllOfIn ==
  ASSUME NEW m \in Markers
  PROVE  \A n : n \in AllOf(m) <=> \E k \in Keys : n \in m[k]
BY DEF AllOf, Markers

LEMMA MergeKeeps ==
  ASSUME NEW m \in Markers
  PROVE  Keeps(m, m) /\ Keeps(Merged(m), m) /\ Keeps(Both(m), m)
<1> DEFINE S == {k[1] : k \in Present(m)}
           key == <<Min(S), "leading">>
           x == Merged(m)
           y == Both(m)
<1>1. Keeps(m, m)  BY DEF Keeps
<1>2. x = [k \in Keys |-> IF Present(m) # {} /\ k = key THEN AllOf(m) ELSE {}]
  BY DEF Merged
<1>3. AllOf(m) \in SUBSET Frames  BY DEF AllOf, Markers
<1>4. y = [k \in Keys |-> IF x[k] # {} THEN x[k] ELSE m[k]]  BY DEF Both
<1>5. Present(m) # {} => key \in Keys /\ \E j \in Keys : m[j] # {} /\ j[1] = key[1]
  <2>1. ASSUME Present(m) # {} PROVE key \in Keys /\ \E j \in Keys : m[j] # {} /\ j[1] = key[1]
    <3>1. S \in SUBSET Nat /\ S # {}
      <4>1. \A k \in Present(m) : k[1] \in Nat  BY KeyTyped DEF Present
      <4> QED BY <2>1, <4>1
    <3>2. Min(S) \in S  BY <3>1, MinIn
    <3>3. PICK j \in Present(m) : Min(S) = j[1]  BY <3>2
    <3>4. j \in Keys /\ m[j] # {} /\ j[1] \in 1..MaxWindows  BY <3>3, KeyTyped DEF Present
    <3>5. key = <<j[1], "leading">> /\ key[1] = j[1]  BY <3>3
    <3>6. <<j[1], "leading">> \in Keys  BY <3>4, KeyTyped DEF Phases
    <3> QED BY <3>4, <3>5, <3>6
  <2> QED BY <2>1
<1> HIDE DEF S, key, x, y
<1>6. x \in Markers /\ \A k \in Keys : x[k] = IF Present(m) # {} /\ k = key THEN AllOf(m) ELSE {}
  BY <1>2, <1>3 DEF Markers
<1>7. y \in Markers /\ \A k \in Keys : y[k] = IF x[k] # {} THEN x[k] ELSE m[k]
  BY <1>4, <1>6 DEF Markers
<1>8. \A k \in Keys : x[k] # {} => \E j \in Keys : m[j] # {} /\ j[1] = k[1]
  BY <1>5, <1>6
<1>9. \A n : n \in AllOf(m) <=> \E k \in Keys : n \in x[k]
  <2>1. ASSUME NEW n, n \in AllOf(m) PROVE \E k \in Keys : n \in x[k]
    <3>1. Present(m) # {}  BY <2>1, AllOfIn DEF Present
    <3> QED BY <1>5, <1>6, <2>1, <3>1
  <2> QED BY <1>6, <2>1
<1>10. AllOf(x) = AllOf(m)  BY <1>6, <1>9, AllOfIn
<1>11. \A n : n \in AllOf(m) <=> \E k \in Keys : n \in y[k]
  <2>1. ASSUME NEW n, n \in AllOf(m) PROVE \E k \in Keys : n \in y[k]
    BY <1>7, <1>9, <2>1
  <2>2. ASSUME NEW n, NEW k \in Keys, n \in y[k] PROVE n \in AllOf(m)
    BY <1>7, <1>9, <2>2, AllOfIn
  <2> QED BY <2>1, <2>2
<1>12. AllOf(y) = AllOf(m)  BY <1>7, <1>11, AllOfIn
<1>13. Keeps(x, m)  BY <1>6, <1>8, <1>10 DEF Keeps
<1>14. Keeps(y, m)  BY <1>7, <1>8, <1>12 DEF Keeps
<1> QED BY <1>1, <1>13, <1>14 DEF x, y

\* What is not too old.
Left(old) == [k \in Keys |-> IF k \in old THEN {} ELSE disk[k]]

LEMMA StartsMerging ==
  ASSUME WakeTypes, Start
  PROVE  \E old \in SUBSET Present(disk) :
           /\ Left(old) \in Markers /\ consumed' = consumed \cup UNION {disk[k] : k \in old}
           /\ wakes' = Merged(Left(old)) /\ writes' \in Seq(Snapshots)
           /\ \A i \in DOMAIN writes' : writes'[i].who = NoOne /\ Keeps(writes'[i].wakes, Left(old))
<1>1. PICK old \in SUBSET Present(disk) :
        LET left == [k \in Keys |-> IF k \in old THEN {} ELSE disk[k]]
            snaps == (IF old = {} THEN <<>> ELSE <<left>>) \o MergeWrites(left)
        IN /\ consumed' = consumed \cup UNION {disk[k] : k \in old}
           /\ wakes' = Merged(left)
           /\ writes' = [i \in DOMAIN snaps |-> [wakes |-> snaps[i], who |-> NoOne]]
  BY DEF Start
<1> DEFINE left == Left(old)
           S == {x \in Markers : Keeps(x, left)}
           first == IF old = {} THEN <<>> ELSE <<left>>
           snaps == first \o MergeWrites(left)
<1>2. /\ consumed' = consumed \cup UNION {disk[k] : k \in old} /\ wakes' = Merged(left)
      /\ writes' = [i \in DOMAIN snaps |-> [wakes |-> snaps[i], who |-> NoOne]]
  BY <1>1 DEF Left
<1>3. left \in Markers  BY DEF Left, WakeTypes, Markers
<1> HIDE DEF left
<1>4. left \in S /\ Merged(left) \in S /\ Both(left) \in S
  BY <1>3, MergeKeeps DEF Keeps
<1> HIDE DEF S
<1>5. first \in Seq(S) /\ MergeWrites(left) \in Seq(S)
  <2>1. <<>> \in Seq(S) /\ <<left>> \in Seq(S) /\ <<Both(left), Merged(left)>> \in Seq(S)
    BY <1>4
  <2> QED BY <2>1 DEF MergeWrites
<1>6. snaps \in Seq(S)  BY <1>5, ConcatProperties
<1> HIDE DEF snaps
<1>7. DOMAIN snaps = 1..Len(snaps) /\ Len(snaps) \in Nat /\ \A i \in DOMAIN snaps : snaps[i] \in S
  BY <1>6, LenProperties, ElementOfSeq
<1>8. \A i \in DOMAIN snaps : [wakes |-> snaps[i], who |-> NoOne] \in Snapshots
  BY <1>7 DEF S, Snapshots, Waiters
<1>9. writes' \in [1..Len(snaps) -> Snapshots]  BY <1>2, <1>7, <1>8
<1>10. writes' \in Seq(Snapshots)  BY <1>7, <1>9, SeqDef
<1>11. \A i \in DOMAIN writes' : writes'[i].who = NoOne /\ Keeps(writes'[i].wakes, left)
  BY <1>2, <1>7 DEF S
<1> QED BY <1>2, <1>3, <1>10, <1>11 DEF left

LEMMA StartKeepsWakes == ASSUME WakeInv, Start PROVE WakeInv'
<1>1. /\ UNCHANGED <<fresh, offers, hand, window, next, turn, runs, disk>>
      /\ starts' = starts + 1 /\ life = "down" /\ life' = "merging"
  BY DEF Start, config, kernel, gateway
<1>2. PICK old \in SUBSET Present(disk) :
        /\ Left(old) \in Markers /\ wakes' = Merged(Left(old)) /\ writes' \in Seq(Snapshots)
        /\ \A i \in DOMAIN writes' : writes'[i].who = NoOne /\ Keeps(writes'[i].wakes, Left(old))
  BY StartsMerging DEF WakeInv
<1>3. Keeps(wakes', Left(old))  BY <1>2, MergeKeeps
<1>4. WakeTypes'  BY <1>1, <1>2, <1>3 DEF WakeInv, WakeTypes, Keeps
<1>5. Rests'  BY <1>1 DEF WakeInv, Rests
<1>6. Awaited'  BY <1>2 DEF Awaited
<1>7. Opened'
  <2>1. ASSUME NEW k \in Keys, Left(old)[k] # {} PROVE k[1] < next
    BY <2>1 DEF Left, WakeInv, Opened, InUse
  <2>2. ASSUME NEW x, Keeps(x, Left(old)), NEW k \in Keys, x[k] # {} PROVE k[1] < next
    BY <2>1, <2>2 DEF Keeps
  <2>3. ASSUME NEW k \in Keys, InUse(k)' PROVE k[1] < next
    <3>1. CASE wakes'[k] # {}  BY <1>3, <2>2, <3>1
    <3>2. CASE \E i \in DOMAIN writes' : writes'[i].wakes[k] # {}  BY <1>2, <2>2, <3>2
    <3>3. CASE disk'[k] # {} \/ turn'[k].pc # "none"
      BY <1>1, <3>3 DEF WakeInv, Opened, InUse
    <3> QED BY <2>3, <3>1, <3>2, <3>3 DEF InUse
  <2> QED BY <1>1, <2>3 DEF Opened
<1>8. WindowOpen' /\ Covered' /\ OwedIsDue'
  BY <1>1 DEF WakeInv, Rests, WindowOpen, Covered, Going, OwedIsDue
<1> QED BY <1>4, <1>5, <1>6, <1>7, <1>8 DEF WakeInv

-----------------------------------------------------------------------------
(* The rest of its life.                                                   *)

LEMMA ReadyKeeps == ASSUME WakeInv, Ready PROVE WakeInv'
<1>1. /\ UNCHANGED <<fresh, starts, offers, hand, window, next, store, runs>>
      /\ life = "merging" /\ life' = "up"
      /\ turn' = [k \in Keys |-> IF wakes[k] = {} THEN NoTurn ELSE [pc |-> "queued", frames |-> wakes[k]]]
  BY DEF Ready, config, kernel, gateway
<1>2. UNCHANGED <<wakes, disk, writes>>  BY <1>1 DEF store
<1>3. ASSUME NEW k \in Keys
      PROVE  /\ turn'[k] \in Turns /\ turn'[k].pc \in {"none", "queued"}
             /\ wakes[k] = {} => turn'[k].pc = "none"
             /\ wakes[k] # {} => turn'[k].pc = "queued" /\ turn'[k].frames = wakes[k]
  <2>1. wakes[k] \in SUBSET Frames  BY DEF WakeInv, WakeTypes, Markers
  <2>2. NoTurn \in Turns /\ NoTurn.pc = "none"  BY DEF NoTurn, Turns
  <2> QED BY <1>1, <2>1, <2>2, QueuedTyped
<1>4. turn' \in [Keys -> Turns]  BY <1>1, <1>3
<1>5. WakeTypes'  BY <1>1, <1>2, <1>4 DEF WakeInv, WakeTypes
<1>6. Rests' /\ Awaited'  BY <1>1, <1>2 DEF WakeInv, Rests, Awaited
<1>7. Opened'
  <2>1. ASSUME NEW k \in Keys, InUse(k)' PROVE InUse(k)
    BY <1>2, <1>3, <2>1 DEF InUse
  <2> QED BY <1>1, <2>1 DEF WakeInv, Opened
<1>8. WindowOpen'  BY <1>1 DEF WakeInv, Rests, WindowOpen
<1>9. Covered' /\ OwedIsDue'  BY <1>2, <1>3 DEF Covered, Going, OwedIsDue, Present
<1> QED BY <1>5, <1>6, <1>7, <1>8, <1>9 DEF WakeInv

LEMMA StopKeepsWakes == ASSUME WakeInv, Stop PROVE WakeInv'
<1>1. /\ UNCHANGED <<fresh, starts, offers, hand, next, store, turn, runs>>
      /\ life = "up" /\ life' = "stopping" /\ window' = Closed
  BY DEF Stop, config, kernel, gateway
<1>2. UNCHANGED <<wakes, disk, writes>>  BY <1>1 DEF store
<1>3. Closed \in Windows /\ Closed.phase = "none"  BY DEF Closed, Windows
<1>4. WakeTypes'  BY <1>1, <1>2, <1>3 DEF WakeInv, WakeTypes
<1>5. Rests' /\ Awaited' /\ Opened'  BY <1>1, <1>2 DEF WakeInv, Rests, Awaited, Opened, InUse
<1>6. WindowOpen' /\ Covered' /\ OwedIsDue'
  BY <1>1, <1>2, <1>3 DEF WakeInv, WindowOpen, Covered, OwedIsDue
<1> QED BY <1>4, <1>5, <1>6 DEF WakeInv

LEMMA ClearedKeeps == ASSUME WakeInv, Cleared, UNCHANGED runs PROVE WakeInv'
<1>1. /\ UNCHANGED <<fresh, starts, offers, next, disk, runs>> /\ life' = "down" /\ window' = Closed
      /\ hand' = [h \in Handlers |-> Idle] /\ wakes' = NoMarkers /\ writes' = <<>>
      /\ turn' = [k \in Keys |-> NoTurn]
  BY DEF Cleared, config, kernel
<1>2. Closed \in Windows /\ Closed.phase = "none"  BY DEF Closed, Windows
<1>3. NoTurn \in Turns /\ NoTurn.pc = "none"  BY DEF NoTurn, Turns
<1>4. <<>> \in Seq(Snapshots) /\ DOMAIN <<>> = {}  OBVIOUS
<1>5. WakeTypes'  BY <1>1, <1>2, <1>3, <1>4, IdleTyped, NoMarkersTyped DEF WakeInv, WakeTypes
<1>6. Rests'  BY <1>1, <1>2, <1>3, IdleTyped DEF Rests
<1>7. Awaited'  BY <1>1, <1>4 DEF Awaited
<1>8. Opened'
  <2>1. ASSUME NEW k \in Keys, InUse(k)' PROVE InUse(k)
    BY <1>1, <1>3, <1>4, <2>1, NoMarkersTyped DEF InUse
  <2> QED BY <1>1, <2>1 DEF WakeInv, Opened
<1>9. WindowOpen' /\ Covered' /\ OwedIsDue'
  BY <1>1, <1>2, <1>3 DEF WindowOpen, Covered, Going, OwedIsDue
<1> QED BY <1>5, <1>6, <1>7, <1>8, <1>9 DEF WakeInv

LEMMA WakeMoves == ASSUME WakeInv, Next \/ UNCHANGED vars PROVE WakeInv'
<1>1. CASE UNCHANGED vars
  BY <1>1 DEF vars, config, kernel, store, gateway, WakeInv, WakeTypes, Rests, Awaited, Opened, InUse,
              WindowOpen, OpenKey, Covered, OwedIsDue, Present
<1>2. CASE \E n \in Frames : Offer(n)  BY <1>2, OfferKeeps
<1>3. ASSUME NEW h \in Handlers, NEW b \in BOOLEAN,
             Unknown(h) \/ Ingested(h) \/ Known(h, b) \/ Enqueued(h, b) \/ Deduped(h, b)
      PROVE  WakeInv'
  BY <1>3, DeliveryKeeps, BuffersKeep
<1>4. CASE \E b \in BOOLEAN : Written(b)  BY <1>4, WrittenKeeps
<1>5. CASE LeadingFires \/ TrailingFires  BY <1>5, FiresKeep
<1>6. ASSUME NEW k \in Keys, NEW b \in BOOLEAN, NEW c \in BOOLEAN,
             \/ GaveUp(k) \/ Disclosed(k, b) \/ Tracked(k, b) \/ Admit(k) \/ Pending(k, b)
             \/ Failed(k, b, c) \/ Completes(k)
      PROVE  WakeInv'
  BY <1>6, TurnsKeep
<1>7. CASE Start \/ Ready \/ Stop  BY <1>7, StartKeepsWakes, ReadyKeeps, StopKeepsWakes
<1>8. CASE Drained \/ Crash  BY <1>8, ClearedKeeps DEF Drained, Crash, gateway
<1> QED BY <1>1, <1>2, <1>3, <1>4, <1>5, <1>6, <1>7, <1>8 DEF Next

\* No owed wake lies idle in a running injector, however windows, writes, turns and
\* restarts interleave.  (bufferWake, stateReady)
THEOREM OwedStaysDue == BothSpec => []OwedIsDue
<1>1. BothInit => WakeInv  BY KernelStarts, WakeStarts
<1>2. WakeInv /\ [BothNext]_allVars => WakeInv'  BY WakeSteps, WakeMoves
<1>3. WakeInv => OwedIsDue  BY DEF WakeInv
<1> QED BY <1>1, <1>2, <1>3, PTL DEF BothSpec

-----------------------------------------------------------------------------
(* What is acknowledged is safe.                                           *)

\* A frame is settled when the gateway has it, or the operator was told.
Settled == admitted \cup inbox \cup consumed

\* What the file, or a snapshot on its way to it, holds is in every later snapshot and
\* in the store, or settled.
Chained ==
  /\ \A i \in DOMAIN writes : AllOf(disk) \subseteq AllOf(writes[i].wakes) \cup Settled
  /\ \A i, j \in DOMAIN writes : i < j => AllOf(writes[i].wakes) \subseteq AllOf(writes[j].wakes) \cup Settled
  /\ life # "down" => /\ \A i \in DOMAIN writes : AllOf(writes[i].wakes) \subseteq AllOf(wakes) \cup Settled
                      /\ AllOf(disk) \subseteq AllOf(wakes) \cup Settled
\* A snapshot has its waiter's frame.
Owing == \A i \in DOMAIN writes :
  writes[i].who # NoOne => hand[writes[i].who].id \subseteq AllOf(writes[i].wakes)
\* What is remembered, or acknowledged, is in the file, or settled.
Safe == AllOf(disk) \cup Settled
Kept == /\ acked \cup seen \cup seenDisk \subseteq Safe
        /\ \A h \in Handlers : hand[h].pc = "dedup" => hand[h].id \subseteq Safe

SafeInv == WakeInv /\ Chained /\ Owing /\ Kept

LEMMA SafeStarts == ASSUME Init PROVE SafeInv
<1>1. WakeInv  BY WakeStarts
<1>2. DOMAIN <<>> = {}  OBVIOUS
<1>3. Chained /\ Owing  BY <1>2 DEF Init, Chained, Owing
<1>4. Kept  BY IdleTyped DEF Init, Kept
<1> QED BY <1>1, <1>3, <1>4 DEF SafeInv

\* A delivery, a window or a turn goes on, and the stores stay.
LEMMA SafeGoes ==
  ASSUME SafeInv, WakeInv', UNCHANGED store, Settled \subseteq Settled',
         life' # "down" => life # "down",
         \A h \in Handlers :
           \/ hand'[h] = hand[h]
           \/ hand[h].pc # "set" /\ (hand'[h].pc = "dedup" => hand'[h].id \subseteq Safe'),
         acked' \cup seen' \cup seenDisk' \subseteq Safe'
  PROVE  SafeInv'
<1>1. UNCHANGED <<wakes, disk, writes>>  BY DEF store
<1>2. Chained'  BY <1>1 DEF SafeInv, Chained
<1>3. \A i \in DOMAIN writes : writes[i].who # NoOne => hand'[writes[i].who] = hand[writes[i].who]
  BY SnapshotsTyped DEF SafeInv, WakeInv, Awaited, Waiters
<1>4. Owing'  BY <1>1, <1>3 DEF SafeInv, Owing
<1>5. Safe \subseteq Safe'  BY <1>1 DEF Safe
<1>6. Kept'  BY <1>5 DEF SafeInv, Kept
<1> QED BY <1>2, <1>4, <1>6 DEF SafeInv

\* A snapshot is queued that has all that the store had, or that is now settled.
LEMMA SafePersists ==
  ASSUME SafeInv, WakeInv', NEW m \in Markers, NEW w \in Waiters, Persist(m, w),
         Settled \subseteq Settled', AllOf(wakes) \subseteq AllOf(m) \cup Settled',
         life # "down", life' = life,
         w # NoOne => hand[w].pc # "set" /\ hand'[w].id \subseteq AllOf(m),
         \A h \in Handlers :
           \/ hand'[h] = hand[h]
           \/ hand[h].pc # "set" /\ (hand'[h].pc = "dedup" => hand'[h].id \subseteq Safe'),
         acked' \cup seen' \cup seenDisk' \subseteq Safe'
  PROVE  SafeInv'
<1> DEFINE n == Len(writes) + 1
<1>1. /\ wakes' = m /\ disk' = disk /\ writes'[n] = [wakes |-> m, who |-> w]
      /\ \A j \in DOMAIN writes : writes'[j] = writes[j]
      /\ DOMAIN writes = 1..Len(writes) /\ DOMAIN writes' = 1..n /\ Len(writes) \in Nat
  BY Persisted DEF SafeInv
<1>2. \A i \in DOMAIN writes' : i \in DOMAIN writes \/ (i = n /\ writes'[i].wakes = m /\ writes'[i].who = w)
  BY <1>1
<1>3. \A i \in DOMAIN writes : i < n  BY <1>1
<1>4. \A i \in DOMAIN writes : ~(n < i)  BY <1>1
<1>5. n \in Nat /\ ~(n < n)  BY <1>1
<1> HIDE DEF n
<1>6. AllOf(disk) \subseteq AllOf(m) \cup Settled'
  BY DEF SafeInv, Chained
<1>7. \A i \in DOMAIN writes : AllOf(writes[i].wakes) \subseteq AllOf(m) \cup Settled'
  BY DEF SafeInv, Chained
<1>8. Chained'
  <2>1. \A i \in DOMAIN writes' : AllOf(disk) \subseteq AllOf(writes'[i].wakes) \cup Settled'
    BY <1>1, <1>2, <1>6 DEF SafeInv, Chained
  <2>2. ASSUME NEW i \in DOMAIN writes', NEW j \in DOMAIN writes', i < j
        PROVE  AllOf(writes'[i].wakes) \subseteq AllOf(writes'[j].wakes) \cup Settled'
    <3>1. i \in DOMAIN writes  BY <1>2, <1>4, <1>5, <2>2
    <3>2. CASE j \in DOMAIN writes  BY <1>1, <2>2, <3>1, <3>2 DEF SafeInv, Chained
    <3>3. CASE j = n  BY <1>1, <1>2, <1>7, <3>1, <3>3
    <3> QED BY <1>2, <3>2, <3>3
  <2>3. \A i \in DOMAIN writes' : AllOf(writes'[i].wakes) \subseteq AllOf(wakes') \cup Settled'
    BY <1>1, <1>2, <1>7
  <2> QED BY <1>1, <1>6, <2>1, <2>2, <2>3 DEF Chained
<1>9. \A i \in DOMAIN writes : writes[i].who # NoOne => hand'[writes[i].who] = hand[writes[i].who]
  BY SnapshotsTyped DEF SafeInv, WakeInv, Awaited, Waiters
<1>10. Owing'  BY <1>1, <1>2, <1>9 DEF SafeInv, Owing
<1>11. Safe \subseteq Safe'  BY <1>1 DEF Safe
<1>12. Kept'  BY <1>11 DEF SafeInv, Kept
<1> QED BY <1>8, <1>10, <1>12 DEF SafeInv

\* The frame joins its window's marker, which loses nothing.
LEMMA BufferGrows ==
  ASSUME WakeInv, NEW id \in SUBSET Frames, NEW w \in Waiters, Buffer(id, w)
  PROVE  \E m \in Markers : Persist(m, w) /\ AllOf(wakes) \subseteq AllOf(m) /\ id \subseteq AllOf(m)
<1> DEFINE v == IF window.phase # "none" THEN [window EXCEPT !.frames = @ \cup id]
                ELSE [phase |-> "leading", start |-> next, frames |-> id]
<1>1. window \in Windows /\ next \in Nat \ {0}  BY DEF WakeInv, WakeTypes
<1>2. /\ v.phase \in Phases /\ id \subseteq v.frames /\ v.frames \in SUBSET Frames /\ v.start \in Nat \ {0}
      /\ window.phase # "none" => <<v.start, v.phase>> = OpenKey /\ window.frames \subseteq v.frames
      /\ window.phase = "none" => v.phase = "leading" /\ v.start = next
  <2>1. CASE window.phase # "none"
    <3>1. v = [window EXCEPT !.frames = @ \cup id]  BY <2>1
    <3>2. window.start \in Nat \ {0}  BY <2>1 DEF WakeInv, WindowOpen
    <3> HIDE DEF v
    <3> QED BY <1>1, <2>1, <3>1, <3>2 DEF Windows, Phases, OpenKey
  <2>2. CASE window.phase = "none"
    <3>1. v = [phase |-> "leading", start |-> next, frames |-> id]  BY <2>2
    <3> HIDE DEF v
    <3> QED BY <1>1, <2>2, <3>1 DEF Windows, Phases
  <2> QED BY <2>1, <2>2
<1> DEFINE k == <<v.start, v.phase>>
           m == [wakes EXCEPT ![k] = v.frames]
<1>3. v.start <= MaxWindows /\ Persist(m, w)  BY DEF Buffer
<1> HIDE DEF v
<1>4. k \in Keys /\ k[1] = v.start
  <2>1. v.start \in 1..MaxWindows  BY <1>2, <1>3, BoundsAssumption
  <2> QED BY <1>2, <2>1, KeyTyped
<1>5. wakes[k] \subseteq v.frames
  <2>1. CASE window.phase # "none"  BY <1>2, <2>1 DEF WakeInv, WindowOpen
  <2>2. CASE window.phase = "none"
    <3>1. ~(next < next)  BY <1>1
    <3> QED BY <1>2, <1>4, <2>2, <3>1 DEF WakeInv, Opened, InUse
  <2> QED BY <2>1, <2>2
<1> HIDE DEF k
<1>6. m \in Markers /\ m[k] = v.frames /\ \A j \in Keys : j # k => m[j] = wakes[j]
  BY <1>2, <1>4 DEF WakeInv, WakeTypes, Markers
<1> HIDE DEF m
<1>7. wakes \in Markers  BY DEF WakeInv, WakeTypes
<1>8. \A j \in Keys : wakes[j] \subseteq m[j]  BY <1>5, <1>6
<1>9. AllOf(wakes) \subseteq AllOf(m)  BY <1>6, <1>7, <1>8, AllOfIn
<1>10. id \subseteq AllOf(m)  BY <1>2, <1>4, <1>6, AllOfIn
<1> QED BY <1>3, <1>6, <1>9, <1>10 DEF m

LEMMA SafeDelivery ==
  ASSUME SafeInv, WakeInv', NEW h \in Handlers, NEW b \in BOOLEAN,
         Known(h, b) \/ Unknown(h) \/ Enqueued(h, b) \/ (Deduped(h, b) /\ fresh)
  PROVE  SafeInv'
<1>1. UNCHANGED <<life, store, admitted, consumed>> /\ hand[h].pc # "set"
  BY DEF Known, Unknown, Enqueued, Deduped
<1>2. disk' = disk  BY <1>1 DEF store
<1>3. hand \in [Handlers -> Deliveries] /\ hand[h] \in Deliveries  BY DEF SafeInv, WakeInv, WakeTypes
<1>4. acked \cup seen \cup seenDisk \subseteq Safe  BY DEF SafeInv, Kept
<1>5. CASE Known(h, b)
  <2>1. /\ UNCHANGED <<inbox, seen, seenDisk>> /\ hand[h].id \subseteq seen
        /\ acked' \subseteq acked \cup hand[h].id /\ hand' = [hand EXCEPT ![h] = Idle]
    BY <1>5 DEF Known, Ack
  <2>2. Safe' = Safe /\ Settled' = Settled  BY <1>1, <1>2, <2>1 DEF Safe, Settled
  <2>3. \A g \in Handlers : hand'[g] = hand[g] \/ (g = h /\ hand'[g].pc = "idle")
    BY <1>3, <2>1, IdleTyped
  <2> QED BY <1>1, <1>4, <2>1, <2>2, <2>3, SafeGoes
<1>6. CASE Unknown(h)
  <2> DEFINE x == [hand[h] EXCEPT !.pc = "ingest"]
  <2>1. UNCHANGED <<inbox, acked, seen, seenDisk>> /\ hand' = [hand EXCEPT ![h] = x]
    BY <1>6 DEF Unknown, kernel
  <2>2. x.pc = "ingest"  BY <1>3 DEF Deliveries
  <2> HIDE DEF x
  <2>3. Safe' = Safe /\ Settled' = Settled  BY <1>1, <1>2, <2>1 DEF Safe, Settled
  <2>4. \A g \in Handlers : hand'[g] = hand[g] \/ (g = h /\ hand'[g].pc = "ingest")
    BY <1>3, <2>1, <2>2
  <2> QED BY <1>1, <1>4, <2>1, <2>3, <2>4, SafeGoes
<1>7. CASE Enqueued(h, b) /\ b
  <2> DEFINE x == [hand[h] EXCEPT !.pc = "dedup"]
  <2>1. /\ UNCHANGED <<acked, seenDisk>> /\ inbox' = inbox \cup hand[h].id /\ seen' = seen \cup hand[h].id
        /\ hand' = [hand EXCEPT ![h] = x]
    BY <1>7 DEF Enqueued, kernel, Remember
  <2>2. x.pc = "dedup" /\ x.id = hand[h].id  BY <1>3 DEF Deliveries
  <2> HIDE DEF x
  <2>3. Safe \subseteq Safe' /\ Settled \subseteq Settled' /\ hand[h].id \subseteq Safe'
    BY <1>1, <1>2, <2>1 DEF Safe, Settled
  <2>4. \A g \in Handlers : hand'[g] = hand[g] \/ (g = h /\ hand'[g].id = hand[h].id)
    BY <1>3, <2>1, <2>2
  <2> QED BY <1>1, <1>4, <2>1, <2>3, <2>4, SafeGoes
<1>8. CASE Enqueued(h, b) /\ ~b
  <2>1. UNCHANGED <<inbox, acked, seen, seenDisk>> /\ hand' = [hand EXCEPT ![h] = Idle]
    BY <1>8 DEF Enqueued, kernel
  <2>2. Safe' = Safe /\ Settled' = Settled  BY <1>1, <1>2, <2>1 DEF Safe, Settled
  <2>3. \A g \in Handlers : hand'[g] = hand[g] \/ (g = h /\ hand'[g].pc = "idle")
    BY <1>3, <2>1, IdleTyped
  <2> QED BY <1>1, <1>4, <2>1, <2>2, <2>3, SafeGoes
<1>9. CASE Deduped(h, b) /\ fresh
  <2>1. /\ UNCHANGED <<inbox, seen>> /\ seenDisk' \subseteq seen \cup seenDisk /\ hand[h].pc = "dedup"
        /\ acked' \subseteq acked \cup hand[h].id /\ hand' = [hand EXCEPT ![h] = Idle]
    BY <1>9 DEF Deduped, Ack
  <2>2. Safe' = Safe /\ Settled' = Settled  BY <1>1, <1>2, <2>1 DEF Safe, Settled
  <2>3. \A g \in Handlers : hand'[g] = hand[g] \/ (g = h /\ hand'[g].pc = "idle")
    BY <1>3, <2>1, IdleTyped
  <2>4. hand[h].id \subseteq Safe  BY <2>1 DEF SafeInv, Kept
  <2> QED BY <1>1, <1>4, <2>1, <2>2, <2>3, <2>4, SafeGoes
<1> QED BY <1>5, <1>6, <1>7, <1>8, <1>9

LEMMA SafeOffer == ASSUME SafeInv, WakeInv', NEW n \in Frames, Offer(n) PROVE SafeInv'
<1>1. UNCHANGED <<life, store, inbox, admitted, consumed, acked, seen, seenDisk>>
  BY DEF Offer
<1>2. UNCHANGED disk  BY <1>1 DEF store
<1> DEFINE x == [pc |-> "ready", id |-> {n}]
<1>3. PICK h \in Handlers : hand[h].pc = "idle" /\ hand' = [hand EXCEPT ![h] = x]
  BY IdleTyped DEF Offer
<1>4. x.pc = "ready"  OBVIOUS
<1> HIDE DEF x
<1>5. \A g \in Handlers : hand'[g] = hand[g] \/ (g = h /\ hand'[g].pc = "ready")
  BY <1>3, <1>4 DEF SafeInv, WakeInv, WakeTypes
<1>6. Safe' = Safe /\ Settled' = Settled  BY <1>1, <1>2 DEF Safe, Settled
<1>7. acked \cup seen \cup seenDisk \subseteq Safe  BY DEF SafeInv, Kept
<1> QED BY <1>1, <1>3, <1>5, <1>6, <1>7, SafeGoes

LEMMA SafeBuffers ==
  ASSUME SafeInv, WakeInv', NEW h \in Handlers, NEW b \in BOOLEAN, Ingested(h) \/ (Deduped(h, b) /\ ~fresh)
  PROVE  SafeInv'
<1>1. UNCHANGED <<life, inbox, admitted, consumed>> /\ hand[h].pc \in {"ingest", "dedup"}
  BY DEF Ingested, Deduped
<1>2. hand \in [Handlers -> Deliveries] /\ hand[h] \in Deliveries /\ hand[h].id \in SUBSET Frames
  BY DEF SafeInv, WakeInv, WakeTypes, Deliveries
<1>3. acked \cup seen \cup seenDisk \subseteq Safe /\ (hand[h].pc = "dedup" => hand[h].id \subseteq Safe)
  BY DEF SafeInv, Kept
<1>4. Settled' = Settled  BY <1>1 DEF Settled
<1>5. life # "down"
  <2>1. hand[h].pc \in {"ingest", "set", "dedup"}  BY <1>1
  <2> QED BY <2>1, HandRuns DEF SafeInv
<1>6. CASE Ingested(h)
  <2> DEFINE x == [hand[h] EXCEPT !.pc = "set"]
  <2>1. /\ UNCHANGED <<acked, seen, seenDisk>> /\ Buffer(hand[h].id, h) /\ h \in Waiters
        /\ hand[h].pc = "ingest" /\ hand' = [hand EXCEPT ![h] = x]
    BY <1>6 DEF Ingested, kernel, Waiters
  <2>2. x.pc = "set" /\ x.id = hand[h].id  BY <1>2 DEF Deliveries
  <2> HIDE DEF x
  <2>3. PICK m \in Markers : Persist(m, h) /\ AllOf(wakes) \subseteq AllOf(m) /\ hand[h].id \subseteq AllOf(m)
    BY <1>2, <2>1, BufferGrows DEF SafeInv
  <2>4. Safe' = Safe  BY <1>4, <2>3 DEF Safe, Persist
  <2>5. hand'[h] = x /\ \A g \in Handlers : hand'[g] = hand[g] \/ (g = h /\ hand'[g].pc = "set")
    BY <1>2, <2>1, <2>2
  <2> QED BY <1>1, <1>3, <1>4, <1>5, <2>1, <2>2, <2>3, <2>4, <2>5, SafePersists
<1>7. CASE Deduped(h, b) /\ ~fresh
  <2>1. /\ UNCHANGED seen /\ seenDisk' \subseteq seen \cup seenDisk /\ acked' \subseteq acked \cup hand[h].id
        /\ Buffer(hand[h].id, NoOne) /\ NoOne \in Waiters /\ hand[h].pc = "dedup"
        /\ hand' = [hand EXCEPT ![h] = Idle]
    BY <1>7 DEF Deduped, Ack, Waiters
  <2>2. PICK m \in Markers : Persist(m, NoOne) /\ AllOf(wakes) \subseteq AllOf(m)
    BY <1>2, <2>1, BufferGrows DEF SafeInv
  <2>3. Safe' = Safe  BY <1>4, <2>2 DEF Safe, Persist
  <2>4. \A g \in Handlers : hand'[g] = hand[g] \/ (g = h /\ hand'[g].pc = "idle")
    BY <1>2, <2>1, IdleTyped
  <2> QED BY <1>1, <1>3, <1>4, <1>5, <2>1, <2>2, <2>3, <2>4, SafePersists
<1> QED BY <1>6, <1>7

\* The file is replaced by a snapshot that has all that it had.
LEMMA SafeWritten == ASSUME SafeInv, WakeInv', NEW ok \in BOOLEAN, Written(ok) PROVE SafeInv'
<1> DEFINE w == Head(writes).who
<1>1. /\ UNCHANGED <<life, wakes, acked, seenDisk, inbox, admitted, consumed>>
      /\ writes # <<>> /\ writes' = Tail(writes)
      /\ disk' = IF ok THEN Head(writes).wakes ELSE disk
  BY DEF Written, kernel
<1>2. /\ Head(writes) = writes[1] /\ 1 \in DOMAIN writes /\ \A i \in DOMAIN writes : i \in Nat \ {0}
      /\ \A i \in DOMAIN writes' : i \in Nat \ {0} /\ i + 1 \in DOMAIN writes /\ writes'[i] = writes[i + 1]
  BY <1>1, Moved DEF SafeInv
<1>3. Settled' = Settled  BY <1>1 DEF Settled
<1>4. AllOf(disk) \subseteq AllOf(writes[1].wakes) \cup Settled  BY <1>2 DEF SafeInv, Chained
<1>5. AllOf(disk) \subseteq AllOf(disk') \cup Settled  BY <1>1, <1>2, <1>4
<1>6. Safe \subseteq Safe'  BY <1>3, <1>5 DEF Safe
<1>7. w \in Waiters /\ (w # NoOne => hand[w].pc = "set" /\ hand[w].id \subseteq AllOf(writes[1].wakes))
  BY <1>2, SnapshotsTyped DEF SafeInv, WakeInv, Awaited, Owing
<1>8. hand \in [Handlers -> Deliveries]  BY DEF SafeInv, WakeInv, WakeTypes
<1>9. /\ \A h \in Handlers : h # w => hand'[h] = hand[h]
      /\ w # NoOne => \/ hand'[w].pc = "idle" /\ seen' = seen
                      \/ /\ hand'[w].pc = "dedup" /\ hand'[w].id = hand[w].id
                         /\ seen' = seen \cup hand[w].id /\ ok
      /\ w = NoOne => seen' = seen
  <2>1. CASE w = NoOne
    <3>1. UNCHANGED <<hand, seen>>  BY <2>1 DEF Written
    <3> QED BY <2>1, <3>1
  <2>2. CASE w # NoOne /\ ok
    <3> DEFINE x == [hand[w] EXCEPT !.pc = "dedup"]
    <3>1. hand' = [hand EXCEPT ![w] = x] /\ seen' = seen \cup hand[w].id
      BY <2>2 DEF Written, Remember
    <3>2. w \in Handlers  BY <1>7, <2>2 DEF Waiters
    <3> HIDE DEF w
    <3>3. x.pc = "dedup" /\ x.id = hand[w].id  BY <1>8, <3>2 DEF Deliveries
    <3> HIDE DEF x
    <3> QED BY <1>8, <2>2, <3>1, <3>2, <3>3
  <2>3. CASE w # NoOne /\ ~ok
    <3>1. hand' = [hand EXCEPT ![w] = Idle] /\ seen' = seen  BY <2>3 DEF Written
    <3>2. w \in Handlers  BY <1>7, <2>3 DEF Waiters
    <3> HIDE DEF w
    <3> QED BY <1>8, <2>3, <3>1, <3>2, IdleTyped
  <2> QED BY <2>1, <2>2, <2>3
<1>10. seen' # seen => w # NoOne /\ seen' = seen \cup hand[w].id /\ hand[w].id \subseteq AllOf(disk')
  <2>1. ok => AllOf(disk') = AllOf(writes[1].wakes)  BY <1>1, <1>2
  <2> HIDE DEF w
  <2> QED BY <1>7, <1>9, <2>1
<1>11. Chained'
  <2>1. ASSUME NEW i \in DOMAIN writes'
        PROVE  AllOf(disk') \subseteq AllOf(writes'[i].wakes) \cup Settled
    <3>1. AllOf(writes[1].wakes) \subseteq AllOf(writes[i + 1].wakes) \cup Settled
      <4>1. 1 < i + 1 /\ i + 1 \in DOMAIN writes  BY <1>2
      <4> QED BY <1>2, <4>1 DEF SafeInv, Chained
    <3>2. AllOf(disk) \subseteq AllOf(writes[i + 1].wakes) \cup Settled  BY <1>2 DEF SafeInv, Chained
    <3> QED BY <1>1, <1>2, <3>1, <3>2
  <2>2. ASSUME NEW i \in DOMAIN writes', NEW j \in DOMAIN writes', i < j
        PROVE  AllOf(writes'[i].wakes) \subseteq AllOf(writes'[j].wakes) \cup Settled
    <3>1. i + 1 < j + 1  BY <1>2, <2>2
    <3> QED BY <1>2, <3>1 DEF SafeInv, Chained
  <2>3. ASSUME life # "down"
        PROVE  /\ \A i \in DOMAIN writes' : AllOf(writes'[i].wakes) \subseteq AllOf(wakes) \cup Settled
               /\ AllOf(disk') \subseteq AllOf(wakes) \cup Settled
    BY <1>1, <1>2, <2>3 DEF SafeInv, Chained
  <2> QED BY <1>1, <1>3, <2>1, <2>2, <2>3 DEF Chained
<1>12. Owing'
  <2>1. ASSUME NEW i \in DOMAIN writes', writes'[i].who # NoOne
        PROVE  hand'[writes'[i].who].id \subseteq AllOf(writes'[i].wakes)
    <3>1. i + 1 \in DOMAIN writes /\ i + 1 # 1 /\ writes'[i] = writes[i + 1]  BY <1>2
    <3>2. writes[i + 1].who \in Handlers
      BY <2>1, <3>1, SnapshotsTyped DEF SafeInv, WakeInv, Waiters
    <3>3. writes[i + 1].who # w  BY <1>2, <2>1, <3>1 DEF SafeInv, WakeInv, Awaited
    <3> HIDE DEF w
    <3>4. hand'[writes[i + 1].who] = hand[writes[i + 1].who]  BY <1>9, <3>2, <3>3
    <3> QED BY <2>1, <3>1, <3>4 DEF SafeInv, Owing
  <2> QED BY <2>1 DEF Owing
<1>13. Kept'
  <2>1. acked' \cup seen' \cup seenDisk' \subseteq Safe'
    BY <1>1, <1>6, <1>10 DEF SafeInv, Kept, Safe
  <2>2. ASSUME NEW h \in Handlers, hand'[h].pc = "dedup" PROVE hand'[h].id \subseteq Safe'
    <3>1. CASE h # w  BY <1>6, <1>9, <2>2, <3>1 DEF SafeInv, Kept
    <3>2. CASE h = w
      <4>1. w # NoOne  BY <3>2 DEF Handlers, NoOne
      <4>2. hand'[w].id = hand[w].id /\ seen' = seen \cup hand[w].id
        <5> HIDE DEF w
        <5> QED BY <1>9, <2>2, <3>2, <4>1
      <4> HIDE DEF w
      <4> QED BY <2>1, <3>2, <4>2
    <3> QED BY <3>1, <3>2
  <2> QED BY <2>1, <2>2 DEF Kept
<1> QED BY <1>11, <1>12, <1>13 DEF SafeInv

LEMMA SafeWindow == ASSUME SafeInv, WakeInv', LeadingFires \/ TrailingFires \/ Ready \/ Stop PROVE SafeInv'
<1>1. UNCHANGED <<hand, store, acked, seen, seenDisk, inbox, admitted, consumed>>
      /\ life # "down"
  BY DEF LeadingFires, TrailingFires, Ready, Stop, kernel
<1>2. UNCHANGED disk  BY <1>1 DEF store
<1>3. Safe' = Safe /\ Settled' = Settled  BY <1>1, <1>2 DEF Safe, Settled
<1>4. acked \cup seen \cup seenDisk \subseteq Safe  BY DEF SafeInv, Kept
<1> QED BY <1>1, <1>3, <1>4, SafeGoes

\* A marker goes when its frames are settled, and they are all that it has.
LEMMA SafeTurns ==
  ASSUME SafeInv, WakeInv', NEW k \in Keys, NEW b \in BOOLEAN, NEW c \in BOOLEAN,
         \/ GaveUp(k) \/ Disclosed(k, b) \/ Tracked(k, b) \/ Admit(k) \/ Pending(k, b)
         \/ Failed(k, b, c) \/ Completes(k)
  PROVE  SafeInv'
<1>1. UNCHANGED <<life, hand, acked, seen, seenDisk, inbox>> /\ turn[k].pc \in Going
  BY DEF GaveUp, Disclosed, Tracked, Admit, Pending, Failed, Completes, First, Going, kernel
<1>2. /\ Settled \subseteq Settled'
      /\ UNCHANGED store \/ (Forget(k) /\ turn[k].frames \subseteq Settled')
  <2>1. CASE GaveUp(k) \/ Tracked(k, b) \/ Pending(k, b) \/ Failed(k, b, c)
    BY <1>1, <2>1 DEF GaveUp, Tracked, Pending, Failed, Settled
  <2>2. CASE Disclosed(k, b)
    <3>1. consumed' = consumed \cup turn[k].frames /\ Forget(k) /\ UNCHANGED admitted
      BY <2>2 DEF Disclosed
    <3> QED BY <1>1, <3>1 DEF Settled
  <2>3. CASE Admit(k) \/ Completes(k)
    <3>1. admitted' = admitted \cup turn[k].frames /\ Forget(k) /\ UNCHANGED consumed
      BY <2>3 DEF Admit, Completes
    <3> QED BY <1>1, <3>1 DEF Settled
  <2> QED BY <2>1, <2>2, <2>3
<1>3. life # "down"  BY <1>1 DEF SafeInv, WakeInv, Rests, Going
<1>4. acked \cup seen \cup seenDisk \subseteq Safe  BY DEF SafeInv, Kept
<1>5. CASE UNCHANGED store
  <2>1. Safe \subseteq Safe'  BY <1>2, <1>5 DEF Safe, store
  <2> QED BY <1>1, <1>2, <1>3, <1>4, <1>5, <2>1, SafeGoes
<1>6. CASE Persist([wakes EXCEPT ![k] = {}], NoOne) /\ turn[k].frames \subseteq Settled'
  <2> DEFINE m == [wakes EXCEPT ![k] = {}]
  <2>1. wakes \in Markers /\ m \in Markers /\ \A j \in Keys : j # k => m[j] = wakes[j]
    BY DEF SafeInv, WakeInv, WakeTypes, Markers
  <2>2. Persist(m, NoOne) /\ NoOne \in Waiters  BY <1>6 DEF Waiters
  <2> HIDE DEF m
  <2>3. wakes[k] \subseteq turn[k].frames  BY <1>1 DEF SafeInv, WakeInv, Covered
  <2>4. AllOf(wakes) \subseteq AllOf(m) \cup Settled'
    <3>1. ASSUME NEW n, n \in AllOf(wakes) PROVE n \in AllOf(m) \cup Settled'
      <4>1. PICK j \in Keys : n \in wakes[j]  BY <2>1, <3>1, AllOfIn
      <4>2. CASE j = k  BY <1>6, <2>3, <4>1, <4>2
      <4>3. CASE j # k  BY <2>1, <4>1, <4>3, AllOfIn
      <4> QED BY <4>2, <4>3
    <3> QED BY <3>1
  <2>5. Safe \subseteq Safe'  BY <1>2, <2>2 DEF Safe, Persist
  <2> QED BY <1>1, <1>2, <1>3, <1>4, <2>1, <2>2, <2>4, <2>5, SafePersists
<1> QED BY <1>2, <1>5, <1>6 DEF Forget

LEMMA SafeStart == ASSUME SafeInv, WakeInv', Start PROVE SafeInv'
<1>1. UNCHANGED <<hand, disk, acked, seenDisk, inbox, admitted>> /\ seen' = seenDisk /\ life = "down"
  BY DEF Start, kernel
<1>2. PICK old \in SUBSET Present(disk) :
        /\ Left(old) \in Markers /\ consumed' = consumed \cup UNION {disk[k] : k \in old}
        /\ wakes' = Merged(Left(old))
        /\ \A i \in DOMAIN writes' : writes'[i].who = NoOne /\ Keeps(writes'[i].wakes, Left(old))
  BY StartsMerging DEF SafeInv, WakeInv
<1>3. AllOf(wakes') = AllOf(Left(old)) /\ \A i \in DOMAIN writes' : AllOf(writes'[i].wakes) = AllOf(Left(old))
  BY <1>2, MergeKeeps DEF Keeps
<1>4. Settled \subseteq Settled' /\ UNION {disk[k] : k \in old} \subseteq Settled'
  BY <1>1, <1>2 DEF Settled
<1>5. AllOf(disk) \subseteq AllOf(Left(old)) \cup Settled'
  <2>1. ASSUME NEW n, n \in AllOf(disk) PROVE n \in AllOf(Left(old)) \cup Settled'
    <3>1. disk \in Markers  BY DEF SafeInv, WakeInv, WakeTypes
    <3>2. PICK k \in Keys : n \in disk[k]  BY <2>1, <3>1, AllOfIn
    <3>3. CASE k \in old  BY <1>4, <3>2, <3>3
    <3>4. CASE k \notin old
      <4>1. n \in Left(old)[k]  BY <3>2, <3>4 DEF Left
      <4> QED BY <1>2, <4>1, AllOfIn
    <3> QED BY <3>3, <3>4
  <2> QED BY <2>1
<1>6. Chained'  BY <1>1, <1>3, <1>5 DEF Chained
<1>7. Owing'  BY <1>2 DEF Owing
<1>8. Kept'  BY <1>1, <1>4 DEF SafeInv, Kept, Safe
<1> QED BY <1>6, <1>7, <1>8 DEF SafeInv

\* What is left of a process is its files.
LEMMA SafeCleared == ASSUME SafeInv, WakeInv', Cleared PROVE SafeInv'
<1>1. /\ UNCHANGED <<disk, acked, seenDisk, inbox, admitted, consumed>> /\ seen' = {} /\ life' = "down"
      /\ hand' = [h \in Handlers |-> Idle] /\ writes' = <<>>
  BY DEF Cleared, kernel
<1>2. DOMAIN writes' = {}  BY <1>1
<1>3. Chained' /\ Owing'  BY <1>1, <1>2 DEF Chained, Owing
<1>4. Safe' = Safe  BY <1>1 DEF Safe, Settled
<1>5. Kept'  BY <1>1, <1>4, IdleTyped DEF SafeInv, Kept
<1> QED BY <1>3, <1>5 DEF SafeInv

LEMMA SafeMoves == ASSUME SafeInv, Next \/ UNCHANGED vars PROVE SafeInv'
<1>1. WakeInv'  BY WakeMoves DEF SafeInv
<1>2. CASE UNCHANGED vars
  BY <1>1, <1>2 DEF vars, kernel, store, SafeInv, Chained, Owing, Kept, Safe, Settled
<1>3. CASE \E n \in Frames : Offer(n)  BY <1>1, <1>3, SafeOffer
<1>4. ASSUME NEW h \in Handlers, NEW b \in BOOLEAN,
             Unknown(h) \/ Ingested(h) \/ Known(h, b) \/ Enqueued(h, b) \/ Deduped(h, b)
      PROVE  SafeInv'
  BY <1>1, <1>4, SafeDelivery, SafeBuffers
<1>5. CASE \E b \in BOOLEAN : Written(b)  BY <1>1, <1>5, SafeWritten
<1>6. CASE LeadingFires \/ TrailingFires \/ Ready \/ Stop  BY <1>1, <1>6, SafeWindow
<1>7. ASSUME NEW k \in Keys, NEW b \in BOOLEAN, NEW c \in BOOLEAN,
             \/ GaveUp(k) \/ Disclosed(k, b) \/ Tracked(k, b) \/ Admit(k) \/ Pending(k, b)
             \/ Failed(k, b, c) \/ Completes(k)
      PROVE  SafeInv'
  BY <1>1, <1>7, SafeTurns
<1>8. CASE Start  BY <1>1, <1>8, SafeStart
<1>9. CASE Drained \/ Crash  BY <1>1, <1>9, SafeCleared DEF Drained, Crash
<1> QED BY <1>2, <1>3, <1>4, <1>5, <1>6, <1>7, <1>8, <1>9 DEF Next

\* What the kernel stops offering is owed on disk, with the gateway, or given up aloud;
\* of reach events, told: whatever write fails and whenever the process dies.
\* (inject, bufferWake, stateReady; processFrame)
THEOREM AcknowledgedIsSafe == BothSpec => []AcksAreSafe
<1>1. BothInit => SafeInv /\ ReachInv  BY KernelStarts, SafeStarts, ReachStarts
<1>2. SafeInv /\ ReachInv /\ [BothNext]_allVars => (SafeInv /\ ReachInv)'
  BY WakeSteps, ReachSteps, SafeMoves, ReachMoves
<1>3. SafeInv /\ ReachInv => AcksAreSafe
  <2>1. ASSUME SafeInv PROVE AckedIsSafe  BY <2>1 DEF SafeInv, Kept, Safe, Settled, AckedIsSafe
  <2>2. ASSUME ReachInv PROVE Reach!AckedIsTold  BY <2>2 DEF ReachInv, OnlyTold, Told, Reach!AckedIsTold
  <2> QED BY <2>1, <2>2 DEF AcksAreSafe
<1> QED BY <1>1, <1>2, <1>3, PTL DEF BothSpec

-----------------------------------------------------------------------------
(* Nothing is woken or told again without need.                            *)

\* Where a frame waits for its wake: with its delivery until that has buffered it, in the
\* open window, in a turn that goes on.
Waits(h, n) == n \in hand[h].id /\ (hand[h].pc \in {"ready", "ingest"} \/ (hand[h].pc = "dedup" /\ ~fresh))
Gathered(n) == window.phase # "none" /\ n \in window.frames
Carried(k, n) == turn[k].pc \in Going /\ n \in turn[k].frames

\* It waits in one place,
InOnePlace(n) ==
  /\ \A g, h \in Handlers : Waits(g, n) /\ Waits(h, n) => g = h
  /\ \A j, k \in Keys : Carried(j, n) /\ Carried(k, n) => j = k
  /\ \A h \in Handlers : Waits(h, n) => ~Gathered(n) /\ \A k \in Keys : ~Carried(k, n)
  /\ Gathered(n) => \A k \in Keys : ~Carried(k, n)
\* and after its run in a turn that the gateway knows, if anywhere.
Spent(n) ==
  /\ runs[n] <= 1
  /\ runs[n] > 0 => /\ \A h \in Handlers : ~Waits(h, n)
                    /\ ~Gathered(n) /\ \A k \in Keys : Carried(k, n) => k \in known
\* One that was not delivered is nowhere.
Unheard(n) == runs[n] = 0 /\ ~Gathered(n) /\ (\A h \in Handlers : ~Waits(h, n)) /\ \A k \in Keys : ~Carried(k, n)

\* The first start finds nothing to merge.
FirstStart ==
  /\ starts = 0 => life = "down" /\ disk = NoMarkers /\ \A n \in Frames : offers[n] = 0
  /\ starts <= 1 /\ life = "merging" => wakes = NoMarkers
Once == starts <= 1 => \A n \in Frames :
          /\ offers[n] <= 1 => InOnePlace(n) /\ Spent(n)
          /\ offers[n] = 0 => Unheard(n)

OnceInv == WakeInv /\ FirstStart /\ Once

LEMMA OnceStarts == ASSUME Init PROVE OnceInv
<1>1. WakeInv  BY WakeStarts
<1>2. FirstStart  BY DEF Init, FirstStart
<1>3. \A h \in Handlers, n \in Frames : ~Waits(h, n)  BY DEF Init, Waits, Idle
<1>4. \A n \in Frames : ~Gathered(n)  BY DEF Init, Gathered, Closed
<1>5. \A k \in Keys, n \in Frames : ~Carried(k, n)  BY DEF Init, Carried, NoTurn, Going
<1>6. \A n \in Frames : runs[n] = 0  BY DEF Init
<1>7. Once  BY <1>3, <1>4, <1>5, <1>6 DEF Once, InOnePlace, Spent, Unheard
<1> QED BY <1>1, <1>2, <1>7 DEF OnceInv

\* What is said of a frame that was delivered at most once.
LEMMA OncePlaced ==
  ASSUME OnceInv, starts <= 1, NEW n \in Frames, offers[n] <= 1
  PROVE  /\ InOnePlace(n) /\ Spent(n) /\ (offers[n] = 0 => Unheard(n))
         /\ offers[n] \in Nat /\ runs[n] \in Nat
BY DEF OnceInv, Once, WakeInv, WakeTypes

\* A frame stays where it was, or leaves, and is not run.
LEMMA OnceFewer ==
  ASSUME OnceInv, WakeInv', FirstStart', UNCHANGED <<offers, runs>>, starts' \in Nat, starts <= starts',
         \A n \in Frames, h \in Handlers : Waits(h, n)' => Waits(h, n),
         \A n \in Frames : Gathered(n)' => Gathered(n),
         \A n \in Frames, k \in Keys : Carried(k, n)' => Carried(k, n) /\ (k \in known => k \in known')
  PROVE  OnceInv'
<1>1. ASSUME starts' <= 1, NEW n \in Frames, offers[n] <= 1
      PROVE  InOnePlace(n)' /\ Spent(n)' /\ (offers[n] = 0 => Unheard(n)')
  <2>1. starts <= 1  BY <1>1 DEF OnceInv, WakeInv, WakeTypes
  <2>2. InOnePlace(n) /\ Spent(n) /\ (offers[n] = 0 => Unheard(n))  BY <1>1, <2>1, OncePlaced
  <2>3. InOnePlace(n)'  BY <2>2 DEF InOnePlace
  <2>4. Spent(n)'  BY <2>2 DEF Spent
  <2>5. offers[n] = 0 => Unheard(n)'  BY <2>2 DEF Unheard
  <2> QED BY <2>3, <2>4, <2>5
<1> QED BY <1>1 DEF OnceInv, Once

\* After the first start, while the injector is not starting, both parts of it hold.
LEMMA FirstStays ==
  ASSUME OnceInv, life # "down", starts' = starts, life' # "merging" \/ (life = "merging" /\ wakes' = wakes)
  PROVE  FirstStart'
BY DEF OnceInv, FirstStart

LEMMA OnceOffers == ASSUME OnceInv, WakeInv', NEW n \in Frames, Offer(n) PROVE OnceInv'
<1>1. /\ UNCHANGED <<fresh, life, starts, window, turn, known, runs, wakes>> /\ life \in {"merging", "up"}
      /\ offers' = [offers EXCEPT ![n] = @ + 1]
  BY DEF Offer, config, store, gateway
<1> DEFINE x == [pc |-> "ready", id |-> {n}]
<1>2. PICK h \in Handlers : hand' = [hand EXCEPT ![h] = x]  BY DEF Offer
<1>3. x.id = {n}  OBVIOUS
<1> HIDE DEF x
<1>4. hand \in [Handlers -> Deliveries] /\ offers \in [Frames -> Nat] /\ runs \in [Frames -> Nat]
  BY DEF OnceInv, WakeInv, WakeTypes
<1>5. hand'[h] = x /\ \A g \in Handlers : g # h => hand'[g] = hand[g]  BY <1>2, <1>4
<1>6. FirstStart'  BY <1>1, FirstStays
<1>7. \A m \in Frames, g \in Handlers : Waits(g, m)' => Waits(g, m) \/ (g = h /\ m = n)
  BY <1>1, <1>3, <1>5 DEF Waits
<1>8. \A m \in Frames : /\ Gathered(m)' <=> Gathered(m)
                       /\ \A k \in Keys : Carried(k, m)' <=> Carried(k, m)
  BY <1>1 DEF Gathered, Carried
<1>9. ASSUME starts <= 1, NEW m \in Frames, offers'[m] <= 1
      PROVE  InOnePlace(m)' /\ Spent(m)' /\ (offers'[m] = 0 => Unheard(m)')
  <2>1. CASE m = n
    <3>1. offers[n] = 0 /\ offers'[n] = 1  BY <1>1, <1>4, <1>9, <2>1
    <3>2. Unheard(n)  BY <1>9, <3>1, OncePlaced
    <3>3. /\ runs'[n] = 0 /\ ~Gathered(n)' /\ \A k \in Keys : ~Carried(k, n)'
          /\ \A g \in Handlers : Waits(g, n)' => g = h
      BY <1>1, <1>7, <1>8, <3>2 DEF Unheard
    <3> QED BY <2>1, <3>1, <3>3 DEF InOnePlace, Spent
  <2>2. CASE m # n
    <3>1. offers'[m] = offers[m]  BY <1>1, <1>4, <2>2
    <3>2. InOnePlace(m) /\ Spent(m) /\ (offers[m] = 0 => Unheard(m))  BY <1>9, <3>1, OncePlaced
    <3>3. \A g \in Handlers : Waits(g, m)' => Waits(g, m)  BY <1>7, <2>2
    <3>4. InOnePlace(m)'  BY <1>8, <3>2, <3>3 DEF InOnePlace
    <3>5. Spent(m)'  BY <1>1, <1>8, <3>2, <3>3 DEF Spent
    <3>6. offers[m] = 0 => Unheard(m)'  BY <1>1, <1>8, <3>2, <3>3 DEF Unheard
    <3> QED BY <3>1, <3>4, <3>5, <3>6
  <2> QED BY <2>1, <2>2
<1> QED BY <1>1, <1>6, <1>9 DEF OnceInv, Once

\* A delivery goes on without the window.
LEMMA OnceDelivery ==
  ASSUME OnceInv, WakeInv', NEW h \in Handlers, NEW b \in BOOLEAN,
         Known(h, b) \/ Unknown(h) \/ Enqueued(h, b) \/ (Deduped(h, b) /\ fresh)
  PROVE  OnceInv'
<1>1. /\ UNCHANGED <<fresh, life, starts, offers, window, wakes, turn, known, runs>>
      /\ hand[h].pc \in {"ready", "ingest", "dedup"}
  BY DEF Known, Unknown, Enqueued, Deduped, Ack, config, kernel, store, gateway
<1>2. hand \in [Handlers -> Deliveries] /\ starts \in Nat  BY DEF OnceInv, WakeInv, WakeTypes
<1>3. life # "down"  BY <1>1 DEF OnceInv, WakeInv, Rests
<1>4. FirstStart'  BY <1>1, <1>3, FirstStays
<1>5. \A g \in Handlers : g # h => hand'[g] = hand[g]
  BY <1>2 DEF Known, Unknown, Enqueued, Deduped
<1>6. \A n \in Frames : Waits(h, n)' => Waits(h, n)
  <2>1. CASE hand' = [hand EXCEPT ![h] = Idle]  BY <1>2, <2>1, IdleTyped DEF Waits
  <2>2. CASE Unknown(h)
    <3> DEFINE x == [hand[h] EXCEPT !.pc = "ingest"]
    <3>1. x.id = hand[h].id  BY <1>2 DEF Deliveries
    <3>2. hand' = [hand EXCEPT ![h] = x] /\ hand[h].pc = "ready"  BY <2>2 DEF Unknown
    <3> HIDE DEF x
    <3> QED BY <1>2, <3>1, <3>2 DEF Waits
  <2>3. CASE Enqueued(h, b) /\ b
    <3> DEFINE x == [hand[h] EXCEPT !.pc = "dedup"]
    <3>1. x.id = hand[h].id  BY <1>2 DEF Deliveries
    <3>2. hand' = [hand EXCEPT ![h] = x] /\ hand[h].pc = "ingest"  BY <2>3 DEF Enqueued
    <3> HIDE DEF x
    <3> QED BY <1>2, <3>1, <3>2 DEF Waits
  <2> QED BY <2>1, <2>2, <2>3 DEF Known, Enqueued, Deduped
<1>7. \A n \in Frames, g \in Handlers : Waits(g, n)' => Waits(g, n)
  BY <1>1, <1>5, <1>6 DEF Waits
<1> QED BY <1>1, <1>2, <1>4, <1>7, OnceFewer DEF Gathered, Carried

\* A delivery's frame goes to the window.
LEMMA OnceBuffers ==
  ASSUME OnceInv, WakeInv', NEW h \in Handlers, NEW b \in BOOLEAN, Ingested(h) \/ (Deduped(h, b) /\ ~fresh)
  PROVE  OnceInv'
<1>1. /\ UNCHANGED <<fresh, life, starts, offers, turn, known, runs>>
      /\ hand[h].pc = "ingest" \/ (hand[h].pc = "dedup" /\ ~fresh)
      /\ \E w \in Waiters : Buffer(hand[h].id, w)
  BY DEF Ingested, Deduped, Ack, config, kernel, gateway, Waiters
<1>2. hand \in [Handlers -> Deliveries] /\ window \in Windows /\ starts \in Nat
  BY DEF OnceInv, WakeInv, WakeTypes
<1>3. life \notin {"down", "merging"}
  <2>1. hand[h].pc \in {"ingest", "set", "dedup"}  BY <1>1
  <2> QED BY <2>1, HandRuns DEF OnceInv
<1>4. FirstStart'  BY <1>1, <1>3, FirstStays
<1>5. \A g \in Handlers : g # h => hand'[g] = hand[g]  BY <1>2 DEF Ingested, Deduped
<1>6. \A n \in Frames : ~Waits(h, n)'
  <2>1. CASE hand' = [hand EXCEPT ![h] = Idle]  BY <1>2, <2>1, IdleTyped DEF Waits
  <2>2. CASE Ingested(h)
    <3> DEFINE x == [hand[h] EXCEPT !.pc = "set"]
    <3>1. x.pc = "set"  BY <1>2 DEF Deliveries
    <3>2. hand' = [hand EXCEPT ![h] = x]  BY <2>2 DEF Ingested
    <3> HIDE DEF x
    <3> QED BY <1>2, <3>1, <3>2 DEF Waits
  <2> QED BY <2>1, <2>2 DEF Deduped
<1>7. \A n \in Frames, g \in Handlers : Waits(g, n)' => Waits(g, n) /\ g # h
  BY <1>1, <1>5, <1>6 DEF Waits
<1>8. \A n \in Frames : Gathered(n)' => Gathered(n) \/ Waits(h, n)
  <2> DEFINE v == [window EXCEPT !.frames = @ \cup hand[h].id]
             u == [phase |-> "leading", start |-> next, frames |-> hand[h].id]
  <2>1. window' = IF window.phase # "none" THEN v ELSE u  BY <1>1 DEF Buffer
  <2>2. v.frames = window.frames \cup hand[h].id /\ u.frames = hand[h].id  BY <1>2 DEF Windows
  <2> HIDE DEF v, u
  <2>3. \A n \in Frames : Gathered(n)' => Gathered(n) \/ n \in hand[h].id  BY <2>1, <2>2 DEF Gathered
  <2> QED BY <1>1, <2>3 DEF Waits
<1>9. \A n \in Frames, k \in Keys : Carried(k, n)' <=> Carried(k, n)  BY <1>1 DEF Carried
<1>10. ASSUME starts <= 1, NEW n \in Frames, offers[n] <= 1
       PROVE  InOnePlace(n)' /\ Spent(n)' /\ (offers[n] = 0 => Unheard(n)')
  <2>1. InOnePlace(n) /\ Spent(n) /\ (offers[n] = 0 => Unheard(n))  BY <1>10, OncePlaced
  <2>2. InOnePlace(n)'  BY <1>7, <1>8, <1>9, <2>1 DEF InOnePlace
  <2>3. Spent(n)'  BY <1>1, <1>7, <1>8, <1>9, <2>1 DEF Spent
  <2>4. offers[n] = 0 => Unheard(n)'  BY <1>1, <1>7, <1>8, <1>9, <2>1 DEF Unheard
  <2> QED BY <2>2, <2>3, <2>4
<1> QED BY <1>1, <1>4, <1>10 DEF OnceInv, Once

\* A delivery whose marker is written has buffered its frame.
LEMMA OnceWritten == ASSUME OnceInv, WakeInv', NEW ok \in BOOLEAN, Written(ok) PROVE OnceInv'
<1> DEFINE w == Head(writes).who
<1>1. UNCHANGED <<fresh, life, starts, offers, window, wakes, turn, known, runs>> /\ writes # <<>>
  BY DEF Written, config, kernel, gateway
<1>2. hand \in [Handlers -> Deliveries] /\ starts \in Nat /\ life \in {"down", "merging", "up", "stopping"}
  BY DEF OnceInv, WakeInv, WakeTypes
<1>3. life # "down"  BY <1>1 DEF OnceInv, WakeInv, Rests
<1>4. FirstStart'  BY <1>1, <1>3, FirstStays
<1>5. w \in Waiters /\ (w # NoOne => w \in Handlers /\ fresh)
  <2>1. Head(writes) \in Snapshots /\ Head(writes) = writes[1] /\ 1 \in DOMAIN writes
    BY <1>1, Moved DEF Written, OnceInv
  <2>2. w \in Waiters  BY <2>1 DEF Snapshots
  <2>3. w # NoOne => hand[w].pc = "set"  BY <2>1 DEF OnceInv, WakeInv, Awaited
  <2> QED BY <2>2, <2>3 DEF OnceInv, WakeInv, Rests, Waiters
<1>6. \A n \in Frames, g \in Handlers : Waits(g, n)' => Waits(g, n)
  <2>1. CASE w = NoOne
    <3>1. hand' = hand  BY <2>1 DEF Written
    <3> QED BY <1>1, <3>1 DEF Waits
  <2>2. CASE w # NoOne
    <3>1. \E x : hand' = [hand EXCEPT ![w] = x] /\ x.pc \in {"idle", "dedup"}
      <4>1. CASE hand' = [hand EXCEPT ![w] = Idle]
        <5> HIDE DEF w
        <5> QED BY <4>1, IdleTyped
      <4>2. CASE hand' = [hand EXCEPT ![w].pc = "dedup"]
        <5> DEFINE x == [hand[w] EXCEPT !.pc = "dedup"]
        <5>1. hand[w] \in Deliveries  BY <1>2, <1>5, <2>2
        <5> HIDE DEF w
        <5>2. x.pc = "dedup"  BY <5>1 DEF Deliveries
        <5>3. hand' = [hand EXCEPT ![w] = x]  BY <4>2
        <5> HIDE DEF x
        <5> QED BY <5>2, <5>3
      <4> QED BY <2>2, <4>1, <4>2 DEF Written
    <3> HIDE DEF w
    <3>2. hand'[w].pc \in {"idle", "dedup"} /\ \A g \in Handlers : g # w => hand'[g] = hand[g]
      BY <1>2, <1>5, <2>2, <3>1
    <3> QED BY <1>1, <1>5, <2>2, <3>2 DEF Waits
  <2> QED BY <2>1, <2>2
<1> QED BY <1>1, <1>2, <1>4, <1>6, OnceFewer DEF Gathered, Carried

\* The window's frames go to its turn.
LEMMA OnceFires == ASSUME OnceInv, WakeInv', LeadingFires \/ TrailingFires PROVE OnceInv'
<1> DEFINE y == [pc |-> "queued", frames |-> window.frames]
<1>1. /\ UNCHANGED <<fresh, life, starts, offers, hand, known, runs>> /\ life = "up"
      /\ window.phase # "none" /\ (turn' = turn \/ turn' = [turn EXCEPT ![OpenKey] = y])
  BY DEF LeadingFires, TrailingFires, Schedule, OpenKey, config, kernel, gateway
<1>2. y.frames = window.frames  OBVIOUS
<1> HIDE DEF y
<1>3. turn \in [Keys -> Turns] /\ window \in Windows /\ starts \in Nat
  BY DEF OnceInv, WakeInv, WakeTypes
<1>4. FirstStart'  BY <1>1, FirstStays
<1>5. \A n \in Frames, h \in Handlers : Waits(h, n)' <=> Waits(h, n)  BY <1>1 DEF Waits
<1>6. \A n \in Frames : ~Gathered(n)'
  <2>1. CASE LeadingFires
    <3> DEFINE v == [window EXCEPT !.phase = "trailing", !.frames = {}]
    <3>1. v.frames = {}  BY <1>3 DEF Windows
    <3>2. window' = v  BY <2>1 DEF LeadingFires
    <3> HIDE DEF v
    <3> QED BY <3>1, <3>2 DEF Gathered
  <2>2. CASE TrailingFires  BY <2>2 DEF TrailingFires, Gathered, Closed
  <2> QED BY <2>1, <2>2
<1>7. \A n \in Frames, k \in Keys : Carried(k, n)' => Carried(k, n) \/ (k = OpenKey /\ Gathered(n))
  <2>1. CASE turn' = turn  BY <2>1 DEF Carried
  <2>2. CASE turn' = [turn EXCEPT ![OpenKey] = y]
    <3>1. \A k \in Keys : turn'[k] = turn[k] \/ (k = OpenKey /\ turn'[k] = y)  BY <1>3, <2>2
    <3> QED BY <1>1, <1>2, <3>1 DEF Carried, Gathered
  <2> QED BY <1>1, <2>1, <2>2
<1>8. ASSUME starts <= 1, NEW n \in Frames, offers[n] <= 1
      PROVE  InOnePlace(n)' /\ Spent(n)' /\ (offers[n] = 0 => Unheard(n)')
  <2>1. InOnePlace(n) /\ Spent(n) /\ (offers[n] = 0 => Unheard(n))  BY <1>8, OncePlaced
  <2>2. InOnePlace(n)'
    <3>1. \A j \in Keys, k \in Keys : Carried(j, n)' /\ Carried(k, n)' => j = k
      BY <1>7, <2>1 DEF InOnePlace
    <3>2. \A h \in Handlers, k \in Keys : ~(Waits(h, n)' /\ Carried(k, n)')
      BY <1>5, <1>7, <2>1 DEF InOnePlace
    <3> QED BY <1>5, <1>6, <2>1, <3>1, <3>2 DEF InOnePlace
  <2>3. Spent(n)'  BY <1>1, <1>5, <1>6, <1>7, <2>1 DEF Spent
  <2>4. offers[n] = 0 => Unheard(n)'  BY <1>1, <1>5, <1>6, <1>7, <2>1 DEF Unheard
  <2> QED BY <2>2, <2>3, <2>4
<1> QED BY <1>1, <1>4, <1>8 DEF OnceInv, Once

\* A turn goes on; the gateway runs its wake if it does not know the key.
LEMMA OnceTurns ==
  ASSUME OnceInv, WakeInv', NEW k \in Keys, NEW b \in BOOLEAN, NEW c \in BOOLEAN,
         \/ GaveUp(k) \/ Disclosed(k, b) \/ Tracked(k, b) \/ Admit(k) \/ Pending(k, b)
         \/ Failed(k, b, c) \/ Completes(k)
  PROVE  OnceInv'
<1>1. UNCHANGED <<fresh, starts, life, offers, hand, window>> /\ turn[k].pc \in Going
  BY DEF GaveUp, Disclosed, Tracked, Admit, Pending, Failed, Completes, First, Going, config, kernel
<1>2. UNCHANGED <<known, runs>> \/ Reached(k)
  BY DEF GaveUp, Disclosed, Tracked, Admit, Pending, Failed, Completes, gateway
<1>3. turn \in [Keys -> Turns] /\ starts \in Nat /\ runs \in [Frames -> Nat]
  BY DEF OnceInv, WakeInv, WakeTypes
<1>4. life \notin {"down", "merging"}  BY <1>1 DEF OnceInv, WakeInv, Rests, Going
<1>5. FirstStart'  BY <1>1, <1>4, FirstStays
<1>6. PICK pc \in {"post", "pending", "over"} : Settle(k, pc)
  BY DEF GaveUp, Disclosed, Tracked, Admit, Pending, Failed, Completes
<1>7. \A n \in Frames, j \in Keys : Carried(j, n)' => Carried(j, n)
  <2> DEFINE y == [pc |-> pc, frames |-> IF pc = "over" THEN {} ELSE turn[k].frames]
  <2>1. turn' = [turn EXCEPT ![k] = y]  BY <1>6, SettleTyped DEF OnceInv
  <2>2. y.frames \subseteq turn[k].frames  OBVIOUS
  <2> HIDE DEF y
  <2>3. \A j \in Keys : turn'[j] = turn[j] \/ (j = k /\ turn'[j] = y)  BY <1>3, <2>1
  <2> QED BY <1>1, <2>2, <2>3 DEF Carried
<1>8. \A n \in Frames : /\ Gathered(n)' <=> Gathered(n)
                       /\ \A h \in Handlers : Waits(h, n)' <=> Waits(h, n)
  BY <1>1 DEF Gathered, Waits
<1>9. CASE UNCHANGED <<known, runs>>
  BY <1>1, <1>3, <1>5, <1>7, <1>8, <1>9, OnceFewer
<1>10. CASE Reached(k)
  <2>1. known' = known \cup {k}  BY <1>10 DEF Reached
  <2>2. ASSUME starts <= 1, NEW n \in Frames, offers[n] <= 1
        PROVE  InOnePlace(n)' /\ Spent(n)' /\ (offers[n] = 0 => Unheard(n)')
    <3>1. InOnePlace(n) /\ Spent(n) /\ (offers[n] = 0 => Unheard(n))  BY <2>2, OncePlaced
    <3>2. InOnePlace(n)'  BY <1>7, <1>8, <3>1 DEF InOnePlace
    <3>3. CASE k \notin known /\ Carried(k, n)
      <4>1. runs[n] = 0  BY <1>3, <3>1, <3>3 DEF Spent
      <4>2. offers[n] # 0  BY <3>1, <3>3 DEF Unheard
      <4>3. runs'[n] = Min({runs[n] + 1, 2})  BY <1>10, <3>3 DEF Reached, Carried
      <4>4. Min({1, 2}) <= 1
        <5>1. {1, 2} \in SUBSET Nat /\ 1 \in {1, 2}  OBVIOUS
        <5> QED BY <5>1, MinIn
      <4>5. runs'[n] <= 1  BY <4>1, <4>3, <4>4
      <4>6. /\ \A h \in Handlers : ~Waits(h, n)'
            /\ ~Gathered(n)' /\ \A j \in Keys : Carried(j, n)' => j \in known'
        BY <1>7, <1>8, <2>1, <3>1, <3>3 DEF InOnePlace
      <4> QED BY <3>2, <4>2, <4>5, <4>6 DEF Spent
    <3>4. CASE ~(k \notin known /\ Carried(k, n))
      <4>1. runs'[n] = runs[n]  BY <1>1, <1>10, <3>4 DEF Reached, Carried
      <4>2. Spent(n)'  BY <1>7, <1>8, <2>1, <3>1, <4>1 DEF Spent
      <4>3. offers[n] = 0 => Unheard(n)'  BY <1>7, <1>8, <3>1, <4>1 DEF Unheard
      <4> QED BY <3>2, <4>2, <4>3
    <3> QED BY <3>3, <3>4
  <2> QED BY <1>1, <1>5, <2>2 DEF OnceInv, Once
<1> QED BY <1>2, <1>9, <1>10

LEMMA OnceStart == ASSUME OnceInv, WakeInv', Start PROVE OnceInv'
<1>1. /\ UNCHANGED <<fresh, offers, hand, window, turn, known, runs>> /\ starts' = starts + 1
      /\ life = "down" /\ life' = "merging"
  BY DEF Start, config, kernel, gateway
<1>2. starts \in Nat  BY DEF OnceInv, WakeInv, WakeTypes
<1>3. ASSUME starts' <= 1 PROVE wakes' = NoMarkers
  <2>1. starts = 0  BY <1>1, <1>2, <1>3
  <2>2. disk = NoMarkers  BY <2>1 DEF OnceInv, FirstStart
  <2>3. PICK old \in SUBSET Present(disk) : Left(old) \in Markers /\ wakes' = Merged(Left(old))
    BY StartsMerging DEF OnceInv, WakeInv
  <2>4. \A k \in Keys : Left(old)[k] = {}  BY <2>2, NoMarkersTyped DEF Left
  <2>5. wakes' \in Markers /\ AllOf(wakes') = AllOf(Left(old))  BY <2>3, MergeKeeps DEF Keeps
  <2>6. \A k \in Keys : wakes'[k] = {}
    <3>1. ASSUME NEW k \in Keys, NEW n, n \in wakes'[k] PROVE FALSE
      <4>1. n \in AllOf(wakes')  BY <2>5, <3>1, AllOfIn
      <4>2. PICK j \in Keys : n \in Left(old)[j]  BY <2>3, <2>5, <4>1, AllOfIn
      <4> QED BY <2>4, <4>2
    <3> QED BY <3>1
  <2> QED BY <2>5, <2>6 DEF NoMarkers, Markers
<1>4. FirstStart'  BY <1>1, <1>2, <1>3 DEF FirstStart
<1> QED BY <1>1, <1>2, <1>4, OnceFewer DEF Waits, Gathered, Carried

\* What the first start found are no turns; later ones are not spoken of.
LEMMA OnceReady == ASSUME OnceInv, WakeInv', Ready PROVE OnceInv'
<1>1. /\ UNCHANGED <<fresh, starts, offers, hand, window, known, runs>> /\ life = "merging" /\ life' = "up"
      /\ turn' = [k \in Keys |-> IF wakes[k] = {} THEN NoTurn ELSE [pc |-> "queued", frames |-> wakes[k]]]
  BY DEF Ready, config, kernel, gateway
<1>2. FirstStart'  BY <1>1, FirstStays
<1>3. starts \in Nat  BY DEF OnceInv, WakeInv, WakeTypes
<1>4. CASE starts <= 1
  <2>1. wakes = NoMarkers  BY <1>1, <1>4 DEF OnceInv, FirstStart
  <2>2. \A k \in Keys : turn'[k] = NoTurn  BY <1>1, <2>1, NoMarkersTyped
  <2>3. \A n \in Frames, k \in Keys : ~Carried(k, n)'  BY <2>2 DEF Carried, NoTurn, Going
  <2> QED BY <1>1, <1>2, <1>3, <2>3, OnceFewer DEF Waits, Gathered
<1>5. CASE ~(starts <= 1)  BY <1>1, <1>2, <1>5 DEF OnceInv, Once
<1> QED BY <1>4, <1>5

LEMMA OnceEnds == ASSUME OnceInv, WakeInv', Stop \/ Drained \/ Crash PROVE OnceInv'
<1>1. UNCHANGED <<fresh, starts, offers, runs>> /\ life # "down" /\ life' \in {"stopping", "down"}
      /\ window' = Closed
  BY DEF Stop, Drained, Crash, Cleared, config, kernel, gateway
<1>2. FirstStart'  BY <1>1, FirstStays
<1>3. starts \in Nat  BY DEF OnceInv, WakeInv, WakeTypes
<1>4. \A n \in Frames : ~Gathered(n)'  BY <1>1 DEF Gathered, Closed
<1>5. CASE Stop
  <2>1. UNCHANGED <<hand, turn, known>>  BY <1>5 DEF Stop, gateway
  <2> QED BY <1>1, <1>2, <1>3, <1>4, <2>1, OnceFewer DEF Waits, Carried
<1>6. CASE Drained \/ Crash
  <2>1. (\A h \in Handlers : hand'[h] = Idle) /\ \A k \in Keys : turn'[k] = NoTurn
    BY <1>6 DEF Drained, Crash, Cleared
  <2>2. \A n \in Frames, h \in Handlers : ~Waits(h, n)'  BY <2>1, IdleTyped DEF Waits
  <2>3. \A n \in Frames, k \in Keys : ~Carried(k, n)'  BY <2>1 DEF Carried, NoTurn, Going
  <2> QED BY <1>1, <1>2, <1>3, <1>4, <2>2, <2>3, OnceFewer
<1> QED BY <1>5, <1>6

LEMMA OnceMoves == ASSUME OnceInv, Next \/ UNCHANGED vars PROVE OnceInv'
<1>1. WakeInv'  BY WakeMoves DEF OnceInv
<1>2. CASE UNCHANGED vars
  BY <1>1, <1>2 DEF vars, config, kernel, store, gateway, OnceInv, FirstStart, Once, InOnePlace, Spent, Unheard,
                    Waits, Gathered, Carried
<1>3. CASE \E n \in Frames : Offer(n)  BY <1>1, <1>3, OnceOffers
<1>4. ASSUME NEW h \in Handlers, NEW b \in BOOLEAN,
             Unknown(h) \/ Ingested(h) \/ Known(h, b) \/ Enqueued(h, b) \/ Deduped(h, b)
      PROVE  OnceInv'
  BY <1>1, <1>4, OnceDelivery, OnceBuffers
<1>5. CASE \E b \in BOOLEAN : Written(b)  BY <1>1, <1>5, OnceWritten
<1>6. CASE LeadingFires \/ TrailingFires  BY <1>1, <1>6, OnceFires
<1>7. ASSUME NEW k \in Keys, NEW b \in BOOLEAN, NEW c \in BOOLEAN,
             \/ GaveUp(k) \/ Disclosed(k, b) \/ Tracked(k, b) \/ Admit(k) \/ Pending(k, b)
             \/ Failed(k, b, c) \/ Completes(k)
      PROVE  OnceInv'
  BY <1>1, <1>7, OnceTurns
<1>8. CASE Start \/ Ready  BY <1>1, <1>8, OnceStart, OnceReady
<1>9. CASE Stop \/ Drained \/ Crash  BY <1>1, <1>9, OnceEnds
<1> QED BY <1>2, <1>3, <1>4, <1>5, <1>6, <1>7, <1>8, <1>9 DEF Next

\* A notification is woken twice only if it was delivered twice or after a restart; a
\* reach event is told again only by a handler that read the file before it was in.
\* (onLeadingFire, postWakeHookWithRetries; NotificationDedupStore)
THEOREM NothingRepeated == BothSpec => []NoRepeat
<1>1. BothInit => OnceInv /\ ReachInv  BY KernelStarts, OnceStarts, ReachStarts
<1>2. OnceInv /\ ReachInv /\ [BothNext]_allVars => (OnceInv /\ ReachInv)'
  BY WakeSteps, ReachSteps, OnceMoves, ReachMoves
<1>3. OnceInv /\ ReachInv => NoRepeat
  <2>1. ASSUME OnceInv PROVE WokenOnce
    <3>1. ASSUME NEW n \in Frames, runs[n] > 1, ~(offers[n] > 1), ~(starts > 1) PROVE FALSE
      <4>1. offers[n] \in Nat /\ starts \in Nat /\ runs[n] \in Nat  BY <2>1 DEF OnceInv, WakeInv, WakeTypes
      <4>2. offers[n] <= 1 /\ starts <= 1  BY <3>1, <4>1
      <4>3. Spent(n)  BY <2>1, <4>2, OncePlaced
      <4> QED BY <3>1, <4>1, <4>3 DEF Spent
    <3> QED BY <3>1 DEF WokenOnce
  <2>2. ASSUME ReachInv PROVE Reach!ToldAgainBlindly
    BY <2>2 DEF ReachInv, ReachTypes, Excused, Reach!ToldAgainBlindly
  <2> QED BY <2>1, <2>2 DEF NoRepeat
<1> QED BY <1>1, <1>2, <1>3, PTL DEF BothSpec

=============================================================================
