--------------------------- MODULE SessionLoopsProofs ---------------------------
(***************************************************************************)
(* The loops of the plugin, for every value of the constants.              *)
(*                                                                         *)
(* LoopTracking: its types, and that the rail agrees with what is open;    *)
(* and, if one reconcile may close a run of every job, that no open loop   *)
(* is orphaned and that none stays blocked once nothing is held for its    *)
(* owner.  SessionInventory, in its composition with the tracker: that the *)
(* tracker is told of the gateway's list as it is, and that history puts   *)
(* on record only what is done with and publishes nothing that is.         *)
(***************************************************************************)
EXTENDS SessionLoops, SequenceTheorems, FiniteSetTheorems, TLAPS

\* What the kernel was told agrees with what is open, in a state of the tracker.
Agrees(t) ==
  \A l \in Loops :
    /\ t.open[l].live => t.told[l] \in {"running", "blocked"}
    /\ t.told[l] \in {"running", "blocked"} => t.open[l].live \/ l \in t.lost
Good(t) == t \in TrackerRecord /\ Agrees(t)

-----------------------------------------------------------------------------
(* The ids and the records.                                                 *)

LEMMA RecordFields ==
  ASSUME NEW t \in TrackerRecord
  PROVE  /\ t.open \in [Loops -> LoopRecord] /\ t.byKey \in [Keys -> Loops \cup {None}]
         /\ t.runs \in [Jobs -> RunLoops \cup {None}]
         /\ t.ended \subseteq Loops /\ t.retired \subseteq Keys
         /\ t.told \in [Loops -> {"nothing", "running", "blocked", "finished"}]
         /\ t.met \subseteq Keys /\ t.lost \subseteq Loops
  BY DEF TrackerRecord

LEMMA TrackerFields ==
  ASSUME NEW open, NEW byKey, NEW runs, NEW over, NEW retired, NEW told, NEW met, NEW lost,
         NEW t, t = Tracker(open, byKey, runs, over, retired, told, met, lost)
  PROVE  /\ t.open = open /\ t.byKey = byKey /\ t.runs = runs /\ t.ended = over
         /\ t.retired = retired /\ t.told = told /\ t.met = met /\ t.lost = lost
  BY DEF Tracker

LEMMA TrackerType ==
  ASSUME NEW open \in [Loops -> LoopRecord], NEW byKey \in [Keys -> Loops \cup {None}],
         NEW runs \in [Jobs -> RunLoops \cup {None}], NEW over \in SUBSET Loops,
         NEW retired \in SUBSET Keys,
         NEW told \in [Loops -> {"nothing", "running", "blocked", "finished"}],
         NEW met \in SUBSET Keys, NEW lost \in SUBSET Loops
  PROVE  Tracker(open, byKey, runs, over, retired, told, met, lost) \in TrackerRecord
  BY DEF Tracker, TrackerRecord

LEMMA Ids ==
  /\ \A x \in SpawnKeys \cup SessionIds : SessionLoop(x) \in Loops
  /\ \A k \in SpawnKeys : SubagentLoop(k) \in Loops
  /\ \A j \in Jobs, r \in 1..MaxRuns : RunLoop(j, r) \in RunLoops
  /\ RunLoops \subseteq Loops /\ None \notin Loops /\ None \notin Keys /\ None \notin SessionIds
  /\ SpawnKeys \subseteq Keys /\ Primary \subseteq SpawnKeys /\ Children \subseteq SpawnKeys
  /\ \A j \in Jobs : RunKey(j) \in Keys
<1>1. \A x \in SpawnKeys \cup SessionIds : SessionLoop(x) \in Loops  BY DEF Loops
<1>2. \A k \in SpawnKeys : SubagentLoop(k) \in Loops  BY DEF Loops
<1>3. \A j \in Jobs, r \in 1..MaxRuns : RunLoop(j, r) \in RunLoops  BY DEF RunLoops
<1>4. RunLoops \subseteq Loops  BY DEF Loops
<1>5. None \notin Loops /\ None \notin Keys /\ None \notin SessionIds  BY LoopAssumption
<1>6. SpawnKeys \subseteq Keys /\ \A j \in Jobs : RunKey(j) \in Keys  BY DEF Keys, SpawnKeys
<1>7. Primary \subseteq SpawnKeys /\ Children \subseteq SpawnKeys  BY DEF SpawnKeys
<1> QED BY <1>1, <1>2, <1>3, <1>4, <1>5, <1>6, <1>7

LEMMA Records ==
  /\ Closed \in LoopRecord /\ ~Closed.live
  /\ \A key \in Keys \cup {None}, parent \in Loops \cup {None}, id \in SessionIds \cup {None} :
       Rec(key, parent, id) \in LoopRecord /\ Rec(key, parent, id).live
  /\ \A x \in LoopRecord, id \in SessionIds \cup {None} :
       Learn(x, id) \in LoopRecord /\ Learn(x, id).live = x.live
  /\ \A x \in LoopRecord, parent \in Loops \cup {None} :
       Adopt(x, parent) \in LoopRecord /\ Adopt(x, parent).live = x.live
  /\ \A x \in LoopRecord, blocked \in BOOLEAN :
       Mark(x, blocked) \in LoopRecord /\ Mark(x, blocked).live = x.live
  BY DEF Closed, Rec, Learn, Adopt, Mark, LoopRec, LoopRecord

-----------------------------------------------------------------------------
(* Each of the tracker's steps keeps a good state good.                     *)

LEMMA TellKeeps ==
  ASSUME NEW t, Good(t), NEW l \in Loops, t.open[l].live, NEW state \in {"running", "blocked"}
  PROVE  Good(Tell(t, l, state))
<1> DEFINE u == Tell(t, l, state)
<1>1. t \in TrackerRecord  BY DEF Good
<1>2. [t.told EXCEPT ![l] = state] \in [Loops -> {"nothing", "running", "blocked", "finished"}]
  BY <1>1, RecordFields
<1>3. u \in TrackerRecord  BY <1>1, <1>2, RecordFields, TrackerType DEF Tell
<1>4. u.open = t.open /\ u.told = [t.told EXCEPT ![l] = state] /\ u.lost = t.lost
  BY TrackerFields DEF Tell
<1>5. Agrees(u)  BY <1>1, <1>4, RecordFields DEF Agrees, Good
<1> QED BY <1>3, <1>5 DEF Good

LEMMA SetLoopKeeps ==
  ASSUME NEW t, Good(t), NEW l \in Loops, NEW x \in LoopRecord, x.live = t.open[l].live
  PROVE  Good(SetLoop(t, l, x)) /\ SetLoop(t, l, x).open[l] = x
<1> DEFINE u == SetLoop(t, l, x)
<1>1. t \in TrackerRecord  BY DEF Good
<1>2. [t.open EXCEPT ![l] = x] \in [Loops -> LoopRecord]  BY <1>1, RecordFields
<1>3. u \in TrackerRecord  BY <1>1, <1>2, RecordFields, TrackerType DEF SetLoop
<1>4. u.open = [t.open EXCEPT ![l] = x] /\ u.told = t.told /\ u.lost = t.lost
  BY TrackerFields DEF SetLoop
<1>5. \A m \in Loops : u.open[m].live = t.open[m].live  BY <1>1, <1>4, RecordFields
<1>6. Agrees(u)  BY <1>4, <1>5 DEF Agrees, Good
<1> QED BY <1>1, <1>3, <1>4, <1>6, RecordFields DEF Good

\* Neither the maps by key and by job nor the sets of ended ids matter to it.
LEMMA OtherPartsKeep ==
  ASSUME NEW t, Good(t), NEW u, u \in TrackerRecord,
         u.open = t.open, u.told = t.told, u.lost = t.lost
  PROVE  Good(u)
  BY DEF Good, Agrees

LEMMA SetRunKeeps ==
  ASSUME NEW t, Good(t), NEW j \in Jobs, NEW l \in RunLoops \cup {None}
  PROVE  /\ Good(SetRun(t, j, l)) /\ SetRun(t, j, l).open = t.open
<1> DEFINE u == SetRun(t, j, l)
<1>1. t \in TrackerRecord  BY DEF Good
<1>2. [t.runs EXCEPT ![j] = l] \in [Jobs -> RunLoops \cup {None}]  BY <1>1, RecordFields
<1>3. u \in TrackerRecord  BY <1>1, <1>2, RecordFields, TrackerType DEF SetRun
<1>4. u.open = t.open /\ u.told = t.told /\ u.lost = t.lost  BY TrackerFields DEF SetRun
<1> QED BY <1>3, <1>4, OtherPartsKeep

LEMMA StartKeeps ==
  ASSUME NEW t, Good(t), NEW l \in Loops, NEW x \in LoopRecord, x.live
  PROVE  Good(Start(t, l, x))
<1> DEFINE u == Tracker([t.open EXCEPT ![l] = x],
               IF x.key = None THEN t.byKey ELSE [t.byKey EXCEPT ![x.key] = l],
               t.runs, t.ended, t.retired \ {x.key}, [t.told EXCEPT ![l] = "running"],
               t.met \cup ({x.key} \ {None}), t.lost \ {l})
<1>1. t \in TrackerRecord  BY DEF Good
<1>2. [t.open EXCEPT ![l] = x] \in [Loops -> LoopRecord]  BY <1>1, RecordFields
<1>3. x.key \in Keys \cup {None}  BY DEF LoopRecord
<1>4. (IF x.key = None THEN t.byKey ELSE [t.byKey EXCEPT ![x.key] = l]) \in [Keys -> Loops \cup {None}]
  BY <1>1, <1>3, RecordFields
<1>5. [t.told EXCEPT ![l] = "running"] \in [Loops -> {"nothing", "running", "blocked", "finished"}]
  BY <1>1, RecordFields
<1>6. t.retired \ {x.key} \in SUBSET Keys /\ t.met \cup ({x.key} \ {None}) \in SUBSET Keys
      /\ t.lost \ {l} \in SUBSET Loops
  BY <1>1, <1>3, RecordFields
<1>7. u \in TrackerRecord  BY <1>1, <1>2, <1>4, <1>5, <1>6, RecordFields, TrackerType
<1>8. /\ u.open = [t.open EXCEPT ![l] = x] /\ u.told = [t.told EXCEPT ![l] = "running"]
      /\ u.lost = t.lost \ {l}
  BY TrackerFields
<1>9. Agrees(u)
  <2> SUFFICES ASSUME NEW m \in Loops
               PROVE  /\ u.open[m].live => u.told[m] \in {"running", "blocked"}
                      /\ u.told[m] \in {"running", "blocked"} => u.open[m].live \/ m \in u.lost
    BY DEF Agrees
  <2> HIDE DEF u
  <2>1. CASE m = l
    <3>1. u.open[m] = x /\ u.told[m] = "running"  BY <1>1, <1>8, <2>1, RecordFields
    <3> QED BY <3>1
  <2>2. CASE m # l
    <3>1. u.open[m] = t.open[m] /\ u.told[m] = t.told[m] /\ (m \in u.lost <=> m \in t.lost)
      BY <1>1, <1>8, <2>2, RecordFields
    <3> QED BY <3>1 DEF Agrees, Good
  <2> QED BY <2>1, <2>2
<1> QED BY <1>7, <1>9 DEF Good, Start

LEMMA FinishAllKeeps ==
  ASSUME NEW t, Good(t), NEW G \in SUBSET Loops, NEW xs \in [G -> LoopRecord],
         NEW publish \in BOOLEAN
  PROVE  Good(FinishAll(t, xs, publish)) /\ FinishAll(t, xs, publish).runs = t.runs
<1> DEFINE gone == DOMAIN xs
           aliases == {SessionLoop(xs[l].session) : l \in {m \in gone : xs[m].session # None}}
           freed == {xs[l].key : l \in {m \in gone : Owns(t, m, xs[m])}}
           open == [l \in Loops |-> IF l \in gone THEN Closed ELSE t.open[l]]
           byKey == [k \in Keys |-> IF k \in freed THEN None ELSE t.byKey[k]]
           told == [l \in Loops |-> IF publish /\ l \in gone THEN "finished" ELSE t.told[l]]
           lost == IF publish THEN t.lost \ gone ELSE t.lost \cup gone
           u == Tracker(open, byKey, t.runs, t.ended \cup gone \cup aliases, t.retired \cup freed,
                        told, t.met, lost)
<1>1. t \in TrackerRecord  BY DEF Good
<1>2. gone = G /\ gone \subseteq Loops  OBVIOUS
<1>3. aliases \subseteq Loops
  <2> SUFFICES ASSUME NEW l \in gone, xs[l].session # None PROVE SessionLoop(xs[l].session) \in Loops
    OBVIOUS
  <2>1. xs[l].session \in SessionIds  BY DEF LoopRecord
  <2> QED BY <2>1, Ids
<1>4. freed \subseteq Keys
  <2> SUFFICES ASSUME NEW l \in gone, Owns(t, l, xs[l]) PROVE xs[l].key \in Keys
    OBVIOUS
  <2>1. xs[l].key \in Keys \cup {None}  BY DEF LoopRecord
  <2> QED BY <2>1 DEF Owns
<1>5. open \in [Loops -> LoopRecord]  BY <1>1, RecordFields, Records
<1>6. byKey \in [Keys -> Loops \cup {None}]
  <2>1. \A k \in Keys : t.byKey[k] \in Loops \cup {None}  BY <1>1, RecordFields
  <2> HIDE DEF freed
  <2> QED BY <2>1
<1>7. told \in [Loops -> {"nothing", "running", "blocked", "finished"}]
  <2>1. \A l \in Loops : t.told[l] \in {"nothing", "running", "blocked", "finished"}
    BY <1>1, RecordFields
  <2> QED BY <2>1
<1>8. lost \subseteq Loops  BY <1>1, <1>2, RecordFields
<1>9. t.ended \cup gone \cup aliases \in SUBSET Loops /\ t.retired \cup freed \in SUBSET Keys
  <2> HIDE DEF aliases, freed
  <2> QED BY <1>1, <1>2, <1>3, <1>4, RecordFields
<1>10. u = FinishAll(t, xs, publish)  BY DEF FinishAll
<1>11. /\ u.open = open /\ u.told = told /\ u.lost = lost /\ u.runs = t.runs
  <2> HIDE DEF open, byKey, aliases, freed, told, lost, gone
  <2> QED BY TrackerFields
<1>12. u \in TrackerRecord
  <2>1. t.runs \in [Jobs -> RunLoops \cup {None}] /\ t.met \in SUBSET Keys /\ lost \in SUBSET Loops
    BY <1>1, <1>8, RecordFields
  <2> HIDE DEF open, byKey, aliases, freed, told, lost, gone
  <2> QED BY <1>5, <1>6, <1>7, <1>9, <2>1, TrackerType
<1>13. Agrees(u)
  <2> SUFFICES ASSUME NEW m \in Loops
               PROVE  /\ u.open[m].live => u.told[m] \in {"running", "blocked"}
                      /\ u.told[m] \in {"running", "blocked"} => u.open[m].live \/ m \in u.lost
    BY DEF Agrees
  <2> HIDE DEF u
  <2>1. CASE m \in gone
    <3>1. u.open[m] = Closed  BY <1>11, <2>1
    <3>2. CASE publish
      <4>1. u.told[m] = "finished"  BY <1>11, <2>1, <3>2
      <4> QED BY <3>1, <4>1, Records
    <3>3. CASE ~publish
      <4>1. m \in u.lost  BY <1>11, <2>1, <3>3
      <4> QED BY <3>1, <4>1, Records
    <3> QED BY <3>2, <3>3
  <2>2. CASE m \notin gone
    <3>1. u.open[m] = t.open[m] /\ u.told[m] = t.told[m] /\ (m \in u.lost <=> m \in t.lost)
      BY <1>11, <2>2
    <3> QED BY <3>1 DEF Agrees, Good
  <2> QED BY <2>1, <2>2
<1> HIDE DEF u
<1> QED BY <1>10, <1>11, <1>12, <1>13 DEF Good

LEMMA FinishKeeps ==
  ASSUME NEW t, Good(t), NEW l \in Loops, NEW x \in LoopRecord, NEW publish \in BOOLEAN
  PROVE  Good(Finish(t, l, x, publish)) /\ Finish(t, l, x, publish).runs = t.runs
<1>1. {l} \in SUBSET Loops /\ [m \in {l} |-> x] \in [{l} -> LoopRecord]  OBVIOUS
<1> QED BY <1>1, FinishAllKeeps DEF Finish

-----------------------------------------------------------------------------
(* So does each handler.                                                    *)

LEMMA KeyFacts ==
  ASSUME NEW t \in TrackerRecord, NEW k \in Keys
  PROVE  /\ LoopFor(t, k) \in Loops \cup {None}
         /\ LoopFor(t, k) # None => t.open[LoopFor(t, k)].live /\ t.open[LoopFor(t, k)] \in LoopRecord
  BY RecordFields DEF LoopFor

LEMMA LoopFacts ==
  ASSUME NEW t \in TrackerRecord, NEW l \in Loops
  PROVE  t.open[l] \in LoopRecord /\ Status(t.open[l]) \in {"running", "blocked"}
  BY RecordFields DEF Status

LEMMA SessionFacts ==
  ASSUME NEW k \in Primary, NEW id \in IdsOf(k)
  PROVE  /\ k \in Keys /\ id \in SessionIds \cup {None} /\ SessionOf(k, id) \in Loops
         /\ Rec(k, None, id) \in LoopRecord /\ Rec(k, None, id).live
<1>1. k \in SpawnKeys /\ k \in Keys  BY Ids
<1>2. id \in SessionIds \cup {None}  BY DEF IdsOf
<1> QED BY <1>1, <1>2, Ids, Records DEF SessionOf

LEMMA SessionStartKeeps ==
  ASSUME Good(tracker), NEW k \in Primary, NEW id \in IdsOf(k), SessionStart(k, id)
  PROVE  Good(tracker')
<1> DEFINE current == LoopFor(tracker, k)
           before == IF current = None THEN tracker
                     ELSE Finish(tracker, current, tracker.open[current], TRUE)
<1>1. tracker \in TrackerRecord  BY DEF Good
<1>2. current \in Loops \cup {None} /\ id \in SessionIds \cup {None}
  BY <1>1, KeyFacts, SessionFacts
<1>3. CASE current # None /\ SameSession(tracker, current, id)
  <2>1. tracker' = SetLoop(tracker, current, Learn(tracker.open[current], id))
    BY <1>3 DEF SessionStart
  <2>2. tracker.open[current] \in LoopRecord  BY <1>1, <1>2, <1>3, LoopFacts
  <2>3. /\ Learn(tracker.open[current], id) \in LoopRecord
        /\ Learn(tracker.open[current], id).live = tracker.open[current].live
    BY <1>2, <2>2, Records
  <2> HIDE DEF current
  <2> QED BY <1>2, <1>3, <2>1, <2>3, SetLoopKeeps
<1>4. CASE ~(current # None /\ SameSession(tracker, current, id))
  <2>1. tracker' = Start(before, SessionOf(k, id), Rec(k, None, id))
    BY <1>4 DEF SessionStart
  <2>2. Good(before)
    <3>1. CASE current = None  BY <3>1
    <3>2. CASE current # None
      <4>1. current \in Loops /\ tracker.open[current] \in LoopRecord  BY <1>1, <1>2, <3>2, LoopFacts
      <4> HIDE DEF current
      <4> QED BY <3>2, <4>1, FinishKeeps
    <3> QED BY <3>1, <3>2
  <2> HIDE DEF before, current
  <2> QED BY <2>1, <2>2, SessionFacts, StartKeeps
<1> QED BY <1>3, <1>4

LEMMA SessionEndKeeps ==
  ASSUME Good(tracker), NEW k \in Primary, NEW id \in IdsOf(k), SessionEnd(k, id)
  PROVE  Good(tracker')
<1> DEFINE mapped == LoopFor(tracker, k)
           l == IF mapped # None /\ SameSession(tracker, mapped, id) THEN mapped ELSE SessionOf(k, id)
           x == IF tracker.open[l].live THEN tracker.open[l] ELSE Rec(k, None, id)
<1>1. tracker \in TrackerRecord  BY DEF Good
<1>2. l \in Loops
  <2>1. mapped \in Loops \cup {None}  BY <1>1, KeyFacts, SessionFacts
  <2> HIDE DEF mapped
  <2> QED BY <2>1, SessionFacts
<1>3. tracker' = Finish(tracker, l, x, TRUE)  BY DEF SessionEnd
<1> HIDE DEF l
<1>4. x \in LoopRecord  BY <1>1, <1>2, LoopFacts, SessionFacts
<1> HIDE DEF x
<1> QED BY <1>2, <1>3, <1>4, FinishKeeps

LEMMA SnapshotKeeps ==
  ASSUME Good(tracker), NEW k \in Primary, NEW id \in IdsOf(k),
         NEW archived \in BOOLEAN, NEW published \in BOOLEAN, Snapshot(k, id, archived, published)
  PROVE  Good(tracker')
<1> DEFINE current == LoopFor(tracker, k)
           replaced == current # None /\ ~SameSession(tracker, current, id)
           t == IF replaced THEN Finish(tracker, current, tracker.open[current], TRUE) ELSE tracker
           mapped == current # None /\ ~replaced
           l == IF mapped THEN current ELSE SessionOf(k, id)
           x == IF mapped THEN Learn(t.open[l], id) ELSE Rec(k, None, id)
           reopened == IF mapped \/ archived THEN t
                       ELSE Tracker(t.open, t.byKey, t.runs, t.ended \ {l}, t.retired \ {k},
                                    t.told, t.met, t.lost)
           learnt == IF mapped THEN SetLoop(reopened, l, x) ELSE reopened
<1>1. tracker' = IF archived
                 THEN IF l \in t.ended THEN learnt ELSE Finish(learnt, l, x, ~published)
                 ELSE IF learnt.open[l].live THEN Tell(learnt, l, Status(x))
                 ELSE Start(learnt, l, x)
  BY DEF Snapshot
<1>2. tracker \in TrackerRecord  BY DEF Good
<1>3. current \in Loops \cup {None}
      /\ (current # None => tracker.open[current].live /\ tracker.open[current] \in LoopRecord)
  BY <1>2, KeyFacts, SessionFacts
<1> HIDE DEF current
<1>4. Good(t)
  <2>1. CASE replaced  BY <1>3, <2>1, FinishKeeps
  <2>2. CASE ~replaced  BY <2>2
  <2> QED BY <2>1, <2>2
<1>5. l \in Loops  BY <1>3, SessionFacts
<1>6. mapped => t = tracker /\ l = current  OBVIOUS
<1>7. x \in LoopRecord /\ x.live
  <2>1. CASE mapped
    <3>1. t.open[l] \in LoopRecord /\ t.open[l].live /\ x = Learn(t.open[l], id)
      BY <1>3, <1>6, <2>1
    <3> HIDE DEF x, t, l, mapped
    <3> QED BY <3>1, SessionFacts, Records
  <2>2. CASE ~mapped  BY <2>2, SessionFacts
  <2> QED BY <2>1, <2>2
<1>8. mapped => t.open[l].live  BY <1>3, <1>6
<1> HIDE DEF t, l, x, mapped
<1>9. Good(reopened) /\ reopened.open = t.open
  <2>1. CASE mapped \/ archived  BY <1>4, <2>1
  <2>2. CASE ~(mapped \/ archived)
    <3>1. t \in TrackerRecord  BY <1>4 DEF Good
    <3>2. reopened = Tracker(t.open, t.byKey, t.runs, t.ended \ {l}, t.retired \ {k},
                             t.told, t.met, t.lost)
      BY <2>2
    <3>3. t.ended \ {l} \in SUBSET Loops /\ t.retired \ {k} \in SUBSET Keys
      BY <3>1, RecordFields
    <3> HIDE DEF reopened
    <3>4. reopened \in TrackerRecord  BY <3>1, <3>2, <3>3, RecordFields, TrackerType
    <3>5. reopened.open = t.open /\ reopened.told = t.told /\ reopened.lost = t.lost
      BY <3>2, TrackerFields
    <3> QED BY <1>4, <3>4, <3>5, OtherPartsKeep
  <2> QED BY <2>1, <2>2
<1> HIDE DEF reopened
<1>10. Good(learnt)
  <2>1. CASE mapped  BY <1>5, <1>7, <1>8, <1>9, <2>1, SetLoopKeeps
  <2>2. CASE ~mapped  BY <1>9, <2>2
  <2> QED BY <2>1, <2>2
<1> HIDE DEF learnt
<1>11. Status(x) \in {"running", "blocked"}  BY DEF Status
<1>12. CASE archived /\ l \in t.ended  BY <1>1, <1>10, <1>12
<1>13. CASE archived /\ l \notin t.ended
  <2>1. tracker' = Finish(learnt, l, x, ~published)  BY <1>1, <1>13
  <2> QED BY <1>5, <1>7, <1>10, <2>1, FinishKeeps
<1>14. CASE ~archived /\ learnt.open[l].live
  <2>1. tracker' = Tell(learnt, l, Status(x))  BY <1>1, <1>14
  <2> QED BY <1>5, <1>10, <1>11, <1>14, <2>1, TellKeeps
<1>15. CASE ~archived /\ ~learnt.open[l].live
  <2>1. tracker' = Start(learnt, l, x)  BY <1>1, <1>15
  <2> QED BY <1>5, <1>7, <1>10, <2>1, StartKeeps
<1> QED BY <1>12, <1>13, <1>14, <1>15

LEMMA ProgressKeeps ==
  ASSUME Good(tracker), NEW l \in Loops, Progress(l)
  PROVE  Good(tracker')
<1>1. Status(tracker.open[l]) \in {"running", "blocked"}  BY DEF Status
<1> QED BY <1>1, TellKeeps DEF Progress

LEMMA WithParentKeeps ==
  ASSUME NEW t, Good(t), NEW requester \in Keys \cup {None}
  PROVE  Good(WithParent(t, requester)) /\ ParentFor(t, requester) \in Loops \cup {None}
<1>1. t \in TrackerRecord  BY DEF Good
<1>2. CASE LazyParent(t, requester)
  <2>1. requester \in Primary  BY <1>2 DEF LazyParent
  <2>2. requester \in Keys /\ SessionLoop(requester) \in Loops  BY <2>1, Ids
  <2>3. Rec(requester, None, None) \in LoopRecord /\ Rec(requester, None, None).live
    BY <2>2, Records
  <2> QED BY <1>2, <2>2, <2>3, StartKeeps DEF WithParent, ParentFor
<1>3. CASE ~LazyParent(t, requester)
  <2>1. requester # None => t.byKey[requester] \in Loops \cup {None}  BY <1>1, RecordFields
  <2> QED BY <1>3, <2>1 DEF WithParent, ParentFor
<1> QED BY <1>2, <1>3

LEMMA SubagentKeeps ==
  ASSUME Good(tracker), SubagentStep
  PROVE  Good(tracker')
<1>1. tracker \in TrackerRecord  BY DEF Good
<1>2. ASSUME NEW c \in Children, NEW requester \in Keys \cup {None}, SubagentSpawned(c, requester)
      PROVE  Good(tracker')
  <2>1. SubagentLoop(c) \in Loops /\ c \in Keys  BY Ids
  <2>2. /\ Rec(c, ParentFor(tracker, requester), None) \in LoopRecord
        /\ Rec(c, ParentFor(tracker, requester), None).live
    BY <2>1, WithParentKeeps, Records
  <2>3. tracker' = Start(WithParent(tracker, requester), SubagentLoop(c),
                         Rec(c, ParentFor(tracker, requester), None))
    BY <1>2 DEF SubagentSpawned
  <2> QED BY <2>1, <2>2, <2>3, WithParentKeeps, StartKeeps
<1>3. ASSUME NEW c \in Children, SubagentProgress(c)  PROVE Good(tracker')
  <2>1. c \in Keys  BY Ids
  <2>2. LoopFor(tracker, c) \in Loops /\ tracker.open[LoopFor(tracker, c)].live
    BY <1>1, <1>3, <2>1, KeyFacts DEF SubagentProgress
  <2> QED BY <1>3, <2>2, TellKeeps DEF SubagentProgress
<1>4. ASSUME NEW c \in Children, SubagentEnded(c)  PROVE Good(tracker')
  <2> DEFINE l == IF LoopFor(tracker, c) = None THEN SubagentLoop(c) ELSE LoopFor(tracker, c)
             x == IF LoopFor(tracker, c) = None THEN Rec(c, None, None) ELSE tracker.open[l]
  <2>1. c \in Keys /\ SubagentLoop(c) \in Loops  BY Ids
  <2>2. l \in Loops  BY <1>1, <2>1, KeyFacts
  <2>3. x \in LoopRecord
    <3>1. Rec(c, None, None) \in LoopRecord  BY <2>1, Records
    <3> HIDE DEF l
    <3> QED BY <1>1, <2>2, <3>1, LoopFacts
  <2>4. tracker' = Finish(tracker, l, x, TRUE)  BY <1>4 DEF SubagentEnded
  <2> HIDE DEF l, x
  <2> QED BY <2>2, <2>3, <2>4, FinishKeeps
<1>5. ASSUME NEW k \in SpawnKeys, NEW parent \in Loops \cup {None}, RegisterSpawn(k, parent)
      PROVE  Good(tracker')
  <2> DEFINE l == IF parent = None THEN SessionLoop(k) ELSE SubagentLoop(k)
             x == tracker.open[l]
  <2>1. k \in Keys /\ l \in Loops  BY Ids
  <2>2. \/ tracker' = Start(tracker, l, Rec(k, parent, None))
        \/ /\ LoopFor(tracker, k) = l
           /\ tracker' = Tell(SetLoop(tracker, l, Adopt(x, parent)), l, "running")
    BY <1>5 DEF RegisterSpawn
  <2>3. Rec(k, parent, None) \in LoopRecord /\ Rec(k, parent, None).live  BY <2>1, Records
  <2> HIDE DEF l
  <2>4. CASE tracker' = Start(tracker, l, Rec(k, parent, None))
    BY <2>1, <2>3, <2>4, StartKeeps
  <2>5. CASE /\ LoopFor(tracker, k) = l
             /\ tracker' = Tell(SetLoop(tracker, l, Adopt(x, parent)), l, "running")
    <3>1. x \in LoopRecord /\ x.live  BY <1>1, <2>1, <2>5, KeyFacts, Ids
    <3>2. Adopt(x, parent) \in LoopRecord /\ Adopt(x, parent).live = tracker.open[l].live
      BY <3>1, Records
    <3>3. /\ Good(SetLoop(tracker, l, Adopt(x, parent)))
          /\ SetLoop(tracker, l, Adopt(x, parent)).open[l].live
      BY <2>1, <3>1, <3>2, SetLoopKeeps
    <3> QED BY <2>1, <2>5, <3>3, TellKeeps
  <2> QED BY <2>2, <2>4, <2>5
<1> QED BY <1>2, <1>3, <1>4, <1>5 DEF SubagentStep

-----------------------------------------------------------------------------
(* Cron.                                                                    *)

LEMMA RunFacts ==
  ASSUME NEW t \in TrackerRecord, NEW j \in Jobs
  PROVE  /\ t.runs[j] \in RunLoops \cup {None} /\ RunOf(t, j) \in Loops \cup {None}
         /\ RunOf(t, j) # None => RunOf(t, j) = t.runs[j] /\ t.open[t.runs[j]].live
<1>1. t.runs[j] \in RunLoops \cup {None}  BY RecordFields
<1> QED BY <1>1, Ids DEF RunOf

LEMMA CronStartedKeeps ==
  ASSUME NEW t, Good(t), NEW j \in Jobs, NEW r \in 1..MaxRuns, NEW key \in Keys \cup {None}
  PROVE  Good(CronStarted(t, j, r, key))
<1> DEFINE l == RunLoop(j, r)
           previous == t.runs[j]
           stale == previous \notin {None, l} /\ t.open[previous].live
           before == IF stale THEN Finish(t, previous, t.open[previous], TRUE) ELSE t
<1>1. t \in TrackerRecord  BY DEF Good
<1>2. l \in RunLoops /\ l \in Loops  BY Ids
<1>3. Rec(key, None, None) \in LoopRecord /\ Rec(key, None, None).live  BY Records
<1>4. CronStarted(t, j, r, key) = Start(SetRun(before, j, l), l, Rec(key, None, None))
  BY DEF CronStarted
<1>5. Good(before)
  <2>1. CASE stale
    <3>1. previous \in Loops  BY <1>1, <2>1, RunFacts, Ids
    <3>2. t.open[previous] \in LoopRecord  BY <1>1, <3>1, LoopFacts
    <3> HIDE DEF previous
    <3> QED BY <2>1, <3>1, <3>2, FinishKeeps
  <2>2. CASE ~stale  BY <2>2
  <2> QED BY <2>1, <2>2
<1> HIDE DEF before, l
<1> QED BY <1>2, <1>3, <1>4, <1>5, SetRunKeeps, StartKeeps

LEMMA CronFinishedKeeps ==
  ASSUME NEW t, Good(t), NEW j \in Jobs, NEW r \in 1..MaxRuns, NEW key \in Keys \cup {None}
  PROVE  Good(CronFinished(t, j, r, key))
<1> DEFINE existing == RunOf(t, j)
           l == IF existing = None THEN RunLoop(j, r) ELSE existing
           x == IF existing = None THEN Rec(key, None, None) ELSE t.open[l]
<1>1. t \in TrackerRecord  BY DEF Good
<1>2. l \in Loops  BY <1>1, RunFacts, Ids
<1>3. Rec(key, None, None) \in LoopRecord  BY Records
<1>4. CronFinished(t, j, r, key) = Finish(SetRun(t, j, None), l, x, TRUE)  BY DEF CronFinished
<1> HIDE DEF l
<1>5. x \in LoopRecord  BY <1>1, <1>2, <1>3, LoopFacts
<1> HIDE DEF x
<1> QED BY <1>2, <1>4, <1>5, SetRunKeeps, FinishKeeps

LEMMA CronRemovedKeeps ==
  ASSUME NEW t, Good(t), NEW j \in Jobs
  PROVE  Good(CronRemoved(t, j))
<1> DEFINE existing == RunOf(t, j)
           after == SetRun(t, j, None)
<1>1. t \in TrackerRecord /\ Good(after)  BY SetRunKeeps DEF Good
<1>2. CASE existing = None  BY <1>1, <1>2 DEF CronRemoved
<1>3. CASE existing # None
  <2>1. existing \in Loops  BY <1>1, <1>3, RunFacts
  <2>2. t.open[existing] \in LoopRecord  BY <1>1, <2>1, LoopFacts
  <2>3. CronRemoved(t, j) = Finish(after, existing, t.open[existing], TRUE)
    BY <1>3 DEF CronRemoved
  <2> HIDE DEF existing, after
  <2> QED BY <1>1, <2>1, <2>2, <2>3, FinishKeeps
<1> QED BY <1>2, <1>3

LEMMA CloseStaleKeeps ==
  ASSUME NEW t, Good(t), NEW closed \in SUBSET {j \in Jobs : RunOf(t, j) # None},
         NEW dropped \in SUBSET Jobs
  PROVE  Good(CloseStale(t, closed, dropped))
<1> DEFINE gone == {t.runs[j] : j \in closed}
           xs == [l \in gone |-> t.open[l]]
           after == FinishAll(t, xs, TRUE)
           runs == [j \in Jobs |-> IF j \in closed \cup dropped THEN None ELSE t.runs[j]]
           u == Tracker(after.open, after.byKey, runs, after.ended, after.retired,
                        after.told, after.met, after.lost)
<1>1. t \in TrackerRecord  BY DEF Good
<1>2. gone \in SUBSET Loops
  <2> SUFFICES ASSUME NEW j \in closed PROVE t.runs[j] \in Loops
    OBVIOUS
  <2> QED BY <1>1, RunFacts
<1> HIDE DEF gone
<1>3. xs \in [gone -> LoopRecord]
  <2>1. \A l \in gone : t.open[l] \in LoopRecord  BY <1>1, <1>2, LoopFacts
  <2> QED BY <2>1
<1>4. u = CloseStale(t, closed, dropped)  BY DEF CloseStale, gone
<1> HIDE DEF xs
<1>5. Good(after) /\ after \in TrackerRecord  BY <1>2, <1>3, FinishAllKeeps DEF Good
<1>6. runs \in [Jobs -> RunLoops \cup {None}]
  <2>1. \A j \in Jobs : t.runs[j] \in RunLoops \cup {None}  BY <1>1, RunFacts
  <2> QED BY <2>1
<1> HIDE DEF after, runs
<1>7. u \in TrackerRecord  BY <1>5, <1>6, RecordFields, TrackerType
<1>8. u.open = after.open /\ u.told = after.told /\ u.lost = after.lost  BY TrackerFields
<1> HIDE DEF u
<1> QED BY <1>4, <1>5, <1>7, <1>8, OtherPartsKeep

LEMMA CloseOrphansKeeps ==
  ASSUME NEW t, Good(t), listing \in Listings,
         NEW jobs \in SUBSET {j \in Jobs : listing.run[j] # 0}
  PROVE  Good(CloseOrphans(t, jobs))
<1> DEFINE gone == {RunLoop(j, listing.run[j]) : j \in jobs}
           xs == [l \in gone |-> Rec(None, None, None)]
<1>1. gone \in SUBSET Loops
  <2> SUFFICES ASSUME NEW j \in jobs PROVE RunLoop(j, listing.run[j]) \in Loops
    OBVIOUS
  <2>1. listing.run[j] \in 1..MaxRuns  BY LoopAssumption DEF Listings
  <2> QED BY <2>1, Ids
<1>2. xs \in [gone -> LoopRecord]
  <2>1. Rec(None, None, None) \in LoopRecord  BY Records
  <2> QED BY <2>1
<1>3. CloseOrphans(t, jobs) = FinishAll(t, xs, TRUE)  BY DEF CloseOrphans
<1> HIDE DEF gone, xs
<1> QED BY <1>1, <1>2, <1>3, FinishAllKeeps

LEMMA ReconcileKeeps ==
  ASSUME Good(tracker), listing \in Listings, Reconcile
  PROVE  Good(tracker')
<1> DEFINE stale == {j \in Jobs : RunOf(tracker, j) # None /\ ~Running(j)}
           hollow == {j \in Jobs : tracker.runs[j] # None /\ RunOf(tracker, j) = None}
           orphans == IF listing.startup THEN {j \in Jobs : listing.run[j] # 0} ELSE {}
<1>1. PICK closed \in SUBSET stale, dropped \in SUBSET stale, found \in SUBSET hollow,
           over \in SUBSET orphans :
        tracker' = CloseOrphans(CloseStale(tracker, closed, dropped \cup found), over)
  BY DEF Reconcile
<1>2. /\ closed \in SUBSET {j \in Jobs : RunOf(tracker, j) # None}
      /\ dropped \cup found \in SUBSET Jobs
      /\ over \in SUBSET {j \in Jobs : listing.run[j] # 0}
  OBVIOUS
<1> HIDE DEF stale, hollow, orphans
<1> QED BY <1>1, <1>2, CloseStaleKeeps, CloseOrphansKeeps

-----------------------------------------------------------------------------
(* The blocker.                                                             *)

LEMMA SetBlockedKeeps ==
  ASSUME NEW t, Good(t), NEW k \in Keys, NEW blocked \in BOOLEAN
  PROVE  Good(SetBlocked(t, k, blocked))
<1> DEFINE l == LoopFor(t, k)
<1>1. CASE l = None  BY <1>1 DEF SetBlocked
<1>2. CASE l # None
  <2>1. l \in Loops /\ t.open[l].live /\ t.open[l] \in LoopRecord
    BY <1>2, KeyFacts DEF Good
  <2>2. Mark(t.open[l], blocked) \in LoopRecord /\ Mark(t.open[l], blocked).live = t.open[l].live
    BY <2>1, Records
  <2>3. SetBlocked(t, k, blocked) = Tell(SetLoop(t, l, Mark(t.open[l], blocked)), l,
                                         IF blocked THEN "blocked" ELSE "running")
    BY <1>2 DEF SetBlocked
  <2> HIDE DEF l
  <2>4. /\ Good(SetLoop(t, l, Mark(t.open[l], blocked)))
        /\ SetLoop(t, l, Mark(t.open[l], blocked)).open[l].live
    BY <2>1, <2>2, SetLoopKeeps
  <2> QED BY <2>1, <2>3, <2>4, TellKeeps
<1> QED BY <1>1, <1>2

\* What the blocker counts for each owner.
Counted == \A k \in Keys : perOwner[k] = Cardinality({a \in Approvals : held[a] = k})
BlockerOK == held \in [Approvals -> Keys \cup {None}] /\ perOwner \in [Keys -> Nat] /\ Counted

LEMMA HoldersFinite ==
  ASSUME NEW k
  PROVE  IsFiniteSet({a \in Approvals : held[a] = k})
  BY LoopAssumption, FS_Subset

LEMMA HoldCounts ==
  ASSUME BlockerOK, NEW a \in Approvals, NEW k \in Keys, Hold(a, k)
  PROVE  BlockerOK'
<1>1. held[a] = None /\ held' = [held EXCEPT ![a] = k] /\ perOwner' = [perOwner EXCEPT ![k] = @ + 1]
  BY DEF Hold
<1>2. held' \in [Approvals -> Keys \cup {None}] /\ perOwner' \in [Keys -> Nat]
  BY <1>1 DEF BlockerOK
<1>3. ASSUME NEW m \in Keys
      PROVE  perOwner'[m] = Cardinality({b \in Approvals : held'[b] = m})
  <2> DEFINE S == {b \in Approvals : held[b] = m}
  <2>1. perOwner[m] = Cardinality(S) /\ IsFiniteSet(S)  BY HoldersFinite DEF BlockerOK, Counted
  <2>2. CASE m = k
    <3>1. {b \in Approvals : held'[b] = m} = S \cup {a} /\ a \notin S
      BY <1>1, <2>2, Ids DEF BlockerOK
    <3>2. Cardinality(S \cup {a}) = Cardinality(S) + 1  BY <2>1, <3>1, FS_AddElement
    <3> QED BY <1>1, <2>1, <2>2, <3>1, <3>2 DEF BlockerOK
  <2>3. CASE m # k
    <3>1. {b \in Approvals : held'[b] = m} = S  BY <1>1, <2>3, Ids DEF BlockerOK
    <3> QED BY <1>1, <2>1, <2>3, <3>1 DEF BlockerOK
  <2> QED BY <2>2, <2>3
<1> QED BY <1>2, <1>3 DEF BlockerOK, Counted

LEMMA ReleaseCounts ==
  ASSUME BlockerOK, NEW a \in Approvals, Release(a)
  PROVE  BlockerOK' /\ held[a] \in Keys
<1> DEFINE k == held[a]
<1>1. k # None /\ held' = [held EXCEPT ![a] = None] /\ perOwner' = [perOwner EXCEPT ![k] = @ - 1]
  BY DEF Release
<1>2. k \in Keys  BY <1>1 DEF BlockerOK
<1>3. ASSUME NEW m \in Keys
      PROVE  perOwner'[m] = Cardinality({b \in Approvals : held'[b] = m}) /\ perOwner'[m] \in Nat
  <2> DEFINE S == {b \in Approvals : held[b] = m}
  <2>1. perOwner[m] = Cardinality(S) /\ IsFiniteSet(S)  BY HoldersFinite DEF BlockerOK, Counted
  <2>2. CASE m = k
    <3>1. {b \in Approvals : held'[b] = m} = S \ {a} /\ a \in S
      BY <1>1, <1>2, <2>2, Ids DEF BlockerOK
    <3>2. Cardinality(S \ {a}) = Cardinality(S) - 1  BY <2>1, <3>1, FS_RemoveElement
    <3>3. Cardinality(S \ {a}) \in Nat  BY <2>1, FS_RemoveElement, FS_CardinalityType
    <3> QED BY <1>1, <2>1, <2>2, <3>1, <3>2, <3>3 DEF BlockerOK
  <2>3. CASE m # k
    <3>1. {b \in Approvals : held'[b] = m} = S  BY <1>1, <2>3, Ids DEF BlockerOK
    <3> QED BY <1>1, <2>1, <2>3, <3>1 DEF BlockerOK
  <2> QED BY <2>2, <2>3
<1>4. held' \in [Approvals -> Keys \cup {None}]  BY <1>1 DEF BlockerOK
<1>5. perOwner' \in [Keys -> Nat]
  <2>1. DOMAIN perOwner' = Keys /\ perOwner' = [m \in Keys |-> perOwner'[m]]
    BY <1>1 DEF BlockerOK
  <2> QED BY <1>3, <2>1
<1> QED BY <1>2, <1>3, <1>4, <1>5 DEF BlockerOK, Counted

-----------------------------------------------------------------------------
(* The cron gateway and its listings.                                       *)

CronOK ==
  /\ marker \in [Jobs -> 0..MaxRuns] /\ runCount \in [Jobs -> 0..MaxRuns] /\ alive \subseteq Jobs
  /\ missed \subseteq RunLoops /\ \A j \in alive : marker[j] # 0
RestOK == booting \in BOOLEAN /\ listing \in Listings /\ crashes \in 0..MaxCrashes
LoopInv == Good(tracker) /\ BlockerOK /\ CronOK /\ RestOK

LEMMA EmptyListing == NoListing \in Listings
  BY LoopAssumption DEF NoListing, Listings

LEMMA RunStartsKeeps ==
  ASSUME LoopInv, NEW j \in Jobs, NEW key \in {None, RunKey(j)}, NEW heard \in BOOLEAN,
         RunStarts(j, key, heard)
  PROVE  Good(tracker') /\ CronOK'
<1> DEFINE r == runCount[j] + 1
<1>1. r \in 1..MaxRuns  BY LoopAssumption DEF RunStarts, LoopInv, CronOK
<1>2. key \in Keys \cup {None}  BY Ids
<1>3. Good(tracker')
  <2>1. CASE heard
    <3>1. tracker' = CronStarted(tracker, j, r, key)  BY <2>1 DEF RunStarts
    <3> HIDE DEF r
    <3> QED BY <1>1, <1>2, <3>1, CronStartedKeeps DEF LoopInv
  <2>2. CASE ~heard  BY <2>2 DEF RunStarts, LoopInv
  <2> QED BY <2>1, <2>2
<1>4. /\ marker' = [marker EXCEPT ![j] = r] /\ runCount' = [runCount EXCEPT ![j] = r]
      /\ alive' = alive \cup {j} /\ missed' = missed
  BY DEF RunStarts
<1> HIDE DEF r
<1>5. CronOK'  BY <1>1, <1>4, LoopAssumption DEF LoopInv, CronOK
<1> QED BY <1>3, <1>5

LEMMA RunEndsKeeps ==
  ASSUME LoopInv, NEW j \in Jobs, NEW key \in {None, RunKey(j)}, NEW heard \in BOOLEAN,
         RunEnds(j, key, heard)
  PROVE  Good(tracker') /\ CronOK'
<1>1. marker[j] \in 1..MaxRuns /\ RunLoop(j, marker[j]) \in RunLoops
  <2>1. marker[j] \in 1..MaxRuns  BY LoopAssumption DEF RunEnds, LoopInv, CronOK
  <2> QED BY <2>1, Ids
<1>2. key \in Keys \cup {None}  BY Ids
<1>3. Good(tracker')
  <2>1. CASE heard
    <3>1. tracker' = CronFinished(tracker, j, marker[j], key)  BY <2>1 DEF RunEnds
    <3> QED BY <1>1, <1>2, <3>1, CronFinishedKeeps DEF LoopInv
  <2>2. CASE ~heard  BY <2>2 DEF RunEnds, LoopInv
  <2> QED BY <2>1, <2>2
<1>4. /\ marker' = [marker EXCEPT ![j] = 0] /\ runCount' = runCount /\ alive' = alive \ {j}
      /\ missed' \in {missed, missed \cup {RunLoop(j, marker[j])}}
  BY DEF RunEnds
<1>5. CronOK'  BY <1>1, <1>4, LoopAssumption DEF LoopInv, CronOK
<1> QED BY <1>3, <1>5

LEMMA CronStepKeeps ==
  ASSUME LoopInv, CronStep
  PROVE  LoopInv'
<1>1. ASSUME NEW j \in Jobs, NEW key \in {None, RunKey(j)}, NEW heard \in BOOLEAN,
             RunStarts(j, key, heard) \/ RunEnds(j, key, heard)
      PROVE  Good(tracker') /\ CronOK'
  BY <1>1, RunStartsKeeps, RunEndsKeeps
<1>2. ASSUME NEW j \in Jobs, JobRemoved(j) PROVE Good(tracker') /\ CronOK'
  <2>1. Good(tracker')  BY <1>2, CronRemovedKeeps DEF JobRemoved, LoopInv
  <2>2. CronOK'  BY <1>2, LoopAssumption DEF JobRemoved, LoopInv, CronOK
  <2> QED BY <2>1, <2>2
<1>3. ASSUME NEW j \in Jobs, ClearMark(j) PROVE Good(tracker') /\ CronOK'
  BY <1>3, LoopAssumption DEF ClearMark, LoopInv, CronOK
<1>4. Good(tracker') /\ CronOK'  BY <1>1, <1>2, <1>3 DEF CronStep
<1>5. UNCHANGED <<blockerVars, booting, listing, crashes>>
  BY DEF CronStep, RunStarts, RunEnds, JobRemoved, ClearMark, OnlyCron
<1> QED BY <1>4, <1>5 DEF LoopInv, BlockerOK, Counted, RestOK, blockerVars

LEMMA ReconcileStepKeeps ==
  ASSUME LoopInv, ReconcileStep
  PROVE  LoopInv'
<1>1. ASSUME NEW enabled \in BOOLEAN, NEW known \in {{}, Jobs}, ListJobs(enabled, known)
      PROVE  Good(tracker') /\ RestOK'
  <2>1. [j \in Jobs |-> IF j \in known THEN marker[j] ELSE 0] \in [Jobs -> 0..MaxRuns]
    BY LoopAssumption DEF LoopInv, CronOK
  <2>2. listing' \in Listings  BY <1>1, <2>1 DEF ListJobs, Listings, LoopInv, RestOK
  <2> QED BY <1>1, <2>2 DEF ListJobs, LoopInv, RestOK
<1>2. CASE Reconcile
  <2>1. Good(tracker')  BY <1>2, ReconcileKeeps DEF LoopInv, RestOK
  <2>2. RestOK'  BY <1>2, EmptyListing DEF Reconcile, LoopInv, RestOK
  <2> QED
    BY <1>2, <2>1, <2>2
    DEF Reconcile, LoopInv, BlockerOK, Counted, CronOK, blockerVars, cronVars
<1>3. CASE ListingAborted
  <2>1. RestOK'  BY <1>3, EmptyListing DEF ListingAborted, LoopInv, RestOK
  <2> QED
    BY <1>3, <2>1 DEF ListingAborted, LoopInv, BlockerOK, Counted, CronOK, blockerVars, cronVars
<1>4. ASSUME NEW enabled \in BOOLEAN, NEW known \in {{}, Jobs}, ListJobs(enabled, known)
      PROVE  LoopInv'
  BY <1>1, <1>4 DEF ListJobs, LoopInv, BlockerOK, Counted, CronOK, blockerVars, cronVars
<1> QED BY <1>2, <1>3, <1>4 DEF ReconcileStep

LEMMA BlockerStepKeeps ==
  ASSUME LoopInv, BlockerStep
  PROVE  LoopInv'
<1>1. ASSUME NEW a \in Approvals, NEW k \in Keys, Hold(a, k) PROVE LoopInv'
  <2>1. BlockerOK'  BY <1>1, HoldCounts DEF LoopInv
  <2>2. tracker' \in {tracker, SetBlocked(tracker, k, TRUE)}  BY <1>1 DEF Hold
  <2>3. Good(tracker')  BY <2>2, SetBlockedKeeps DEF LoopInv
  <2> QED BY <1>1, <2>1, <2>3 DEF Hold, LoopInv, CronOK, RestOK, cronVars
<1>2. ASSUME NEW a \in Approvals, Release(a) PROVE LoopInv'
  <2>1. BlockerOK' /\ held[a] \in Keys  BY <1>2, ReleaseCounts DEF LoopInv
  <2>2. tracker' \in {tracker, SetBlocked(tracker, held[a], FALSE)}  BY <1>2 DEF Release
  <2>3. Good(tracker')  BY <2>1, <2>2, SetBlockedKeeps DEF LoopInv
  <2> QED BY <1>2, <2>1, <2>3 DEF Release, LoopInv, CronOK, RestOK, cronVars
<1> QED BY <1>1, <1>2 DEF BlockerStep

-----------------------------------------------------------------------------
(* The invariant.                                                           *)

LEMMA FreshGood ==
  ASSUME NEW told \in [Loops -> {"nothing", "running", "blocked", "finished"}],
         NEW lost \in SUBSET Loops,
         \A l \in Loops : told[l] \in {"running", "blocked"} => l \in lost
  PROVE  Good(Fresh(told, lost))
<1> DEFINE t == Fresh(told, lost)
<1>1. [l \in Loops |-> Closed] \in [Loops -> LoopRecord]  BY Records
<1>2. t \in TrackerRecord  BY <1>1, TrackerType DEF Fresh
<1>3. t.open = [l \in Loops |-> Closed] /\ t.told = told /\ t.lost = lost  BY TrackerFields DEF Fresh
<1> HIDE DEF t
<1>4. Agrees(t)  BY <1>3, Records DEF Agrees
<1> QED BY <1>2, <1>4 DEF Good, t

\* Nothing is held.
LEMMA NobodyWaits ==
  ASSUME held = [a \in Approvals |-> None], perOwner = [k \in Keys |-> 0]
  PROVE  BlockerOK
<1>1. ASSUME NEW k \in Keys PROVE perOwner[k] = Cardinality({a \in Approvals : held[a] = k})
  <2>1. {a \in Approvals : held[a] = k} = {}  BY Ids
  <2> QED BY <2>1, FS_EmptySet
<1> QED BY <1>1 DEF BlockerOK, Counted

LEMMA LoopInit == Init => LoopInv
<1> SUFFICES ASSUME Init PROVE LoopInv
  OBVIOUS
<1>1. Good(tracker)  BY FreshGood DEF Init
<1>2. BlockerOK  BY NobodyWaits DEF Init
<1>3. CronOK  BY LoopAssumption DEF Init, CronOK
<1>4. RestOK  BY EmptyListing, LoopAssumption DEF Init, RestOK
<1> QED BY <1>1, <1>2, <1>3, <1>4 DEF LoopInv

LEMMA CrashKeeps ==
  ASSUME LoopInv, Crash
  PROVE  LoopInv'
<1>1. Good(tracker')
  <2> DEFINE lost == {l \in Loops : tracker.told[l] \in {"running", "blocked"}}
  <2>1. tracker.told \in [Loops -> {"nothing", "running", "blocked", "finished"}]
    BY RecordFields DEF LoopInv, Good
  <2>2. tracker' = Fresh(tracker.told, lost)  BY DEF Crash
  <2>3. lost \in SUBSET Loops
        /\ \A l \in Loops : tracker.told[l] \in {"running", "blocked"} => l \in lost
    OBVIOUS
  <2> HIDE DEF lost
  <2> QED BY <2>1, <2>2, <2>3, FreshGood
<1>2. BlockerOK'
  <2>1. held' = [a \in Approvals |-> None] /\ perOwner' = [k \in Keys |-> 0]  BY DEF Crash
  <2>2. ASSUME NEW k \in Keys PROVE perOwner'[k] = Cardinality({a \in Approvals : held'[a] = k})
    <3>1. {a \in Approvals : held'[a] = k} = {}  BY <2>1, Ids
    <3> QED BY <2>1, <3>1, FS_EmptySet
  <2> QED BY <2>1, <2>2 DEF BlockerOK, Counted
<1>3. CronOK'  BY DEF Crash, LoopInv, CronOK
<1>4. RestOK'  BY EmptyListing, LoopAssumption DEF Crash, LoopInv, RestOK
<1> QED BY <1>1, <1>2, <1>3, <1>4 DEF LoopInv

LEMMA HookKeeps ==
  ASSUME LoopInv, SessionStep \/ SubagentStep \/ \E l \in Loops : Progress(l)
  PROVE  LoopInv'
<1>1. CASE SessionStep
  <2>1. Good(tracker')
    BY <1>1, SessionStartKeeps, SessionEndKeeps, SnapshotKeeps DEF SessionStep, LoopInv
  <2>2. OnlyTracker
    <3>1. \A k \in Primary : \A id \in IdsOf(k) :
            (SessionStart(k, id) => OnlyTracker) /\ (SessionEnd(k, id) => OnlyTracker)
      BY DEF SessionStart, SessionEnd
    <3>2. ASSUME NEW k \in Primary, NEW id \in IdsOf(k), NEW archived \in BOOLEAN,
                 NEW published \in BOOLEAN, Snapshot(k, id, archived, published)
          PROVE  OnlyTracker
      BY <3>2, Zenon DEF Snapshot
    <3> QED BY <1>1, <3>1, <3>2 DEF SessionStep
  <2> QED BY <2>1, <2>2
    DEF OnlyTracker, LoopInv, BlockerOK, Counted, CronOK, RestOK, blockerVars, cronVars
<1>2. CASE SubagentStep
  <2>1. Good(tracker')  BY <1>2, SubagentKeeps DEF LoopInv
  <2>2. OnlyTracker
    BY <1>2 DEF SubagentStep, SubagentSpawned, SubagentProgress, SubagentEnded, RegisterSpawn
  <2> QED BY <2>1, <2>2
    DEF OnlyTracker, LoopInv, BlockerOK, Counted, CronOK, RestOK, blockerVars, cronVars
<1>3. ASSUME NEW l \in Loops, Progress(l) PROVE LoopInv'
  <2>1. Good(tracker')  BY <1>3, ProgressKeeps DEF LoopInv
  <2> QED BY <1>3, <2>1
    DEF Progress, OnlyTracker, LoopInv, BlockerOK, Counted, CronOK, RestOK, blockerVars, cronVars
<1> QED BY <1>1, <1>2, <1>3

LEMMA LoopNext == LoopInv /\ [Next]_vars => LoopInv'
<1> SUFFICES ASSUME LoopInv, [Next]_vars PROVE LoopInv'
  OBVIOUS
<1>1. CASE SessionStep \/ SubagentStep \/ \E l \in Loops : Progress(l)  BY <1>1, HookKeeps
<1>2. CASE CronStep  BY <1>2, CronStepKeeps
<1>3. CASE ReconcileStep  BY <1>3, ReconcileStepKeeps
<1>4. CASE BlockerStep  BY <1>4, BlockerStepKeeps
<1>5. CASE Crash  BY <1>5, CrashKeeps
<1>6. CASE UNCHANGED vars
  BY <1>6 DEF vars, LoopInv, BlockerOK, Counted, CronOK, RestOK, blockerVars, cronVars
<1> QED BY <1>1, <1>2, <1>3, <1>4, <1>5, <1>6 DEF Next

\* The inductive invariant: types, agreement, and what the blocker has counted.
THEOREM LoopInvariant == Spec => []LoopInv
<1> QED BY LoopInit, LoopNext, PTL DEF Spec

\* Every variable keeps its type, whatever hooks come in whatever order; the
\* count of an owner's approvals is never negative (approval-loop-blocker.ts, 77-113).
THEOREM LoopTypeCorrect == Spec => []TypeOK
<1>1. LoopInv => TypeOK
  BY DEF LoopInv, Good, BlockerOK, CronOK, RestOK, TypeOK
<1> QED BY <1>1, LoopInvariant, PTL

\* The kernel is told that a loop runs exactly while the tracker holds it open,
\* but for what a crash or an archive told earlier leaves behind, for any number
\* of sessions, jobs and crashes (every handler of loop-tracker.ts).
THEOREM RailAgrees == Spec => []ToldAgrees
<1>1. LoopInv => ToldAgrees
  BY DEF LoopInv, Good, Agrees, ToldAgrees, Live, ToldLive
<1> QED BY <1>1, LoopInvariant, PTL

-------------------------------------------------------------------------------

\* The reconcile budget covers a run of every job.  Where it does not, the first
\* run beyond it loses its entry and stays open (closeStaleRuns, 411-412).
EveryJobFits == Cardinality(Jobs) <= MaxEmissions

\* The one session key a loop can have: its id is derived from it.
Home(l) ==
  CASE l[1] = "run" -> RunKey(l[2])
    [] l[1] = "session" /\ l[2] \in SessionIds -> KeyOf[l[2]]
    [] OTHER -> l[2]

\* An open loop has its home key; a run may have been started without one.
AtHome(t) == \A l \in Loops : t.open[l].live =>
  t.open[l].key = Home(l) \/ (t.open[l].key = None /\ l \in RunLoops)

\* A key is mapped to loops at home there; a run it is mapped to is not started again.
Mapped(t) == \A k \in Keys : t.byKey[k] # None =>
  /\ Home(t.byKey[k]) = k
  /\ t.open[t.byKey[k]].live => t.open[t.byKey[k]].key = k
  /\ t.byKey[k] \in RunLoops => t.open[t.byKey[k]].live \/ t.byKey[k] \in t.ended

\* OpenLoopsReachable, of a state of the tracker.
KeyFinds(t) == \A l \in Loops :
  t.open[l].live /\ t.open[l].key # None => t.byKey[t.open[l].key] = l
JobFinds(t) == \A l \in RunLoops : t.open[l].live => t.runs[l[2]] = l

\* Only the loops of the owners in `waiting' are blocked.
OnlyWaiting(t, waiting) == \A l \in Loops :
  t.open[l].live /\ t.open[l].blocked => t.open[l].key \in waiting

Reach(t, waiting) ==
  Good(t) /\ AtHome(t) /\ Mapped(t) /\ KeyFinds(t) /\ JobFinds(t) /\ OnlyWaiting(t, waiting)

Waiting == {k \in Keys : perOwner[k] # 0}

-----------------------------------------------------------------------------
(* Where loops are at home.                                                 *)

LEMMA Homes ==
  /\ \A k \in SpawnKeys : Home(SessionLoop(k)) = k /\ Home(SubagentLoop(k)) = k
  /\ \A id \in SessionIds : Home(SessionLoop(id)) = KeyOf[id]
  /\ \A j \in Jobs, r \in 1..MaxRuns : Home(RunLoop(j, r)) = RunKey(j) /\ RunLoop(j, r)[2] = j
<1>1. SessionIds \cap SpawnKeys = {}  BY LoopAssumption
<1> QED BY <1>1 DEF Home, SessionLoop, SubagentLoop, RunLoop

\* The runs of a job, and no other loops, are at home at its key.
LEMMA RunHomes ==
  /\ \A l \in RunLoops : l[2] \in Jobs /\ Home(l) = RunKey(l[2])
  /\ \A l \in Loops, j \in Jobs : Home(l) = RunKey(j) => l \in RunLoops /\ l[2] = j
<1>1. \A l \in RunLoops : l[2] \in Jobs /\ Home(l) = RunKey(l[2])
  BY Homes DEF RunLoops
<1>2. ASSUME NEW l \in Loops, NEW j \in Jobs, Home(l) = RunKey(j)
      PROVE  l \in RunLoops /\ l[2] = j
  <2>1. RunKey(j) \notin SpawnKeys /\ KeyOf \in [SessionIds -> Primary] /\ Primary \subseteq SpawnKeys
    BY LoopAssumption, Ids
  <2>2. ASSUME NEW x \in SpawnKeys \cup SessionIds PROVE l # SessionLoop(x)
    BY <1>2, <2>1, Homes
  <2>3. ASSUME NEW k \in SpawnKeys PROVE l # SubagentLoop(k)
    BY <1>2, <2>1, Homes
  <2>4. l \in RunLoops  BY <2>2, <2>3 DEF Loops
  <2>5. l[2] = j  BY <1>1, <1>2, <2>4 DEF RunKey
  <2> QED BY <2>4, <2>5
<1> QED BY <1>1, <1>2

LEMMA NoRun ==
  /\ \A x \in SpawnKeys \cup SessionIds : SessionLoop(x) \notin RunLoops
  /\ \A k \in SpawnKeys : SubagentLoop(k) \notin RunLoops
  BY DEF SessionLoop, SubagentLoop, RunLoops, RunLoop

LEMMA SessionHome ==
  ASSUME NEW k \in Primary, NEW id \in IdsOf(k)
  PROVE  Home(SessionOf(k, id)) = k /\ SessionOf(k, id) \notin RunLoops
<1>1. k \in SpawnKeys  BY Ids
<1>2. CASE id = None  BY <1>1, <1>2, Homes, NoRun DEF SessionOf
<1>3. CASE id # None
  <2>1. id \in SessionIds /\ KeyOf[id] = k  BY <1>3 DEF IdsOf
  <2> QED BY <1>3, <2>1, Homes, NoRun DEF SessionOf
<1> QED BY <1>2, <1>3

\* What openLoopForKey answers when every key and its loop know each other.
LEMMA FoundByKey ==
  ASSUME NEW waiting, NEW t, Reach(t, waiting), NEW k \in Keys
  PROVE  /\ LoopFor(t, k) # None => /\ LoopFor(t, k) \in Loops /\ t.open[LoopFor(t, k)].live
                                    /\ t.open[LoopFor(t, k)].key = k
         /\ \A l \in Loops : t.open[l].live /\ t.open[l].key = k => LoopFor(t, k) = l
<1>1. t \in TrackerRecord /\ LoopFor(t, k) \in Loops \cup {None}  BY KeyFacts DEF Reach, Good
<1>2. k # None  BY Ids
<1>3. LoopFor(t, k) # None => LoopFor(t, k) = t.byKey[k] /\ t.open[t.byKey[k]].live
  BY DEF LoopFor
<1>4. \A l \in Loops : t.open[l].live /\ t.open[l].key = k => t.byKey[k] = l /\ l # None
  BY <1>2, Ids DEF Reach, KeyFinds
<1> QED BY <1>1, <1>3, <1>4 DEF LoopFor, Reach, Mapped

-----------------------------------------------------------------------------
(* Each of the tracker's steps keeps it.                                    *)

\* What it says of a state depends on the maps only.
LEMMA SameMaps ==
  ASSUME NEW waiting, NEW t, Reach(t, waiting), NEW u, Good(u),
         u.open = t.open, u.byKey = t.byKey, u.runs = t.runs,
         \A l \in RunLoops : l \in t.ended => l \in u.ended
  PROVE  Reach(u, waiting)
  BY DEF Reach, AtHome, Mapped, KeyFinds, JobFinds, OnlyWaiting

LEMMA TellReaches ==
  ASSUME NEW waiting, NEW t, Reach(t, waiting), NEW l \in Loops, t.open[l].live,
         NEW state \in {"running", "blocked"}
  PROVE  Reach(Tell(t, l, state), waiting)
<1> DEFINE u == Tell(t, l, state)
<1>1. u.open = t.open /\ u.byKey = t.byKey /\ u.runs = t.runs /\ u.ended = t.ended
  BY TrackerFields DEF Tell
<1>2. Good(u)  BY TellKeeps DEF Reach
<1> HIDE DEF u
<1> QED BY <1>1, <1>2, SameMaps DEF u

\* The record of an open loop is replaced; the loop may be blocked or unblocked.
LEMMA SetLoopReaches ==
  ASSUME NEW waiting, NEW before, NEW t, Reach(t, before), NEW l \in Loops,
         NEW x \in LoopRecord,
         t.open[l].live, x.live, x.key = t.open[l].key,
         x.blocked => x.key \in waiting,
         \A m \in Loops : m # l /\ t.open[m].live /\ t.open[m].blocked => t.open[m].key \in waiting
  PROVE  Reach(SetLoop(t, l, x), waiting) /\ SetLoop(t, l, x).open[l] = x
<1> DEFINE u == SetLoop(t, l, x)
<1>1. t.open \in [Loops -> LoopRecord] /\ None \notin Loops
  BY RecordFields, Ids DEF Reach, Good
<1>2. u.open = [t.open EXCEPT ![l] = x] /\ u.byKey = t.byKey /\ u.runs = t.runs /\ u.ended = t.ended
  BY TrackerFields DEF SetLoop
<1>3. Good(u)  BY SetLoopKeeps DEF Reach, LoopRecord
<1>4. /\ \A m \in Loops : u.open[m].live = t.open[m].live /\ u.open[m].key = t.open[m].key
      /\ u.open[l] = x /\ \A m \in Loops : m # l => u.open[m] = t.open[m]
  <2>1. \A m \in Loops : u.open[m] = IF m = l THEN x ELSE t.open[m]  BY <1>1, <1>2
  <2>2. x.live = t.open[l].live  BY <1>1 DEF LoopRecord
  <2> HIDE DEF u
  <2> QED BY <2>1, <2>2
<1> HIDE DEF u
<1>5. AtHome(u)  BY <1>4 DEF Reach, AtHome
<1>6. Mapped(u)
  <2>1. \A k \in Keys : t.byKey[k] \in Loops \cup {None}  BY RecordFields DEF Reach, Good
  <2> QED BY <1>2, <1>4, <2>1 DEF Reach, Mapped
<1>7. KeyFinds(u)  BY <1>2, <1>4 DEF Reach, KeyFinds
<1>8. JobFinds(u)  BY <1>2, <1>4, Ids DEF Reach, JobFinds
<1>9. OnlyWaiting(u, waiting)  BY <1>4 DEF OnlyWaiting
<1> QED BY <1>3, <1>4, <1>5, <1>6, <1>7, <1>8, <1>9 DEF Reach, u

LEMMA SetRunReaches ==
  ASSUME NEW waiting, NEW t, Reach(t, waiting), NEW j \in Jobs, NEW l \in RunLoops \cup {None},
         \A m \in RunLoops : t.open[m].live /\ m[2] = j => m = l
  PROVE  Reach(SetRun(t, j, l), waiting)
<1> DEFINE u == SetRun(t, j, l)
<1>1. t.runs \in [Jobs -> RunLoops \cup {None}]  BY RecordFields DEF Reach, Good
<1>2. /\ u.open = t.open /\ u.byKey = t.byKey /\ u.ended = t.ended
      /\ u.runs = [t.runs EXCEPT ![j] = l]
  BY TrackerFields DEF SetRun
<1>3. Good(u)  BY SetRunKeeps DEF Reach
<1> HIDE DEF u
<1>4. JobFinds(u)  BY <1>1, <1>2, RunHomes DEF Reach, JobFinds
<1>5. AtHome(u) /\ Mapped(u) /\ KeyFinds(u) /\ OnlyWaiting(u, waiting)
  BY <1>2 DEF Reach, AtHome, Mapped, KeyFinds, OnlyWaiting
<1> QED BY <1>3, <1>4, <1>5 DEF Reach, u

\* A loop is started at home, where no other loop is open.
LEMMA StartReaches ==
  ASSUME NEW waiting, NEW t, Reach(t, waiting), NEW l \in Loops, NEW x \in LoopRecord,
         x.live, ~x.blocked,
         x.key = Home(l) \/ (x.key = None /\ l \in RunLoops),
         \A m \in Loops : m # l /\ t.open[m].live /\ t.open[m].key # None => t.open[m].key # x.key,
         l \in RunLoops => t.runs[l[2]] = l
  PROVE  Reach(Start(t, l, x), waiting)
<1>1. CASE t.open[l].live \/ l \in t.ended  BY <1>1 DEF Start
<1>2. CASE ~(t.open[l].live \/ l \in t.ended)
  <2> DEFINE byKey == IF x.key = None THEN t.byKey ELSE [t.byKey EXCEPT ![x.key] = l]
             u == Start(t, l, x)
  <2>1. /\ u.open = [t.open EXCEPT ![l] = x] /\ u.byKey = byKey
        /\ u.runs = t.runs /\ u.ended = t.ended
    BY <1>2, TrackerFields DEF Start
  <2>2. /\ t.open \in [Loops -> LoopRecord] /\ t.byKey \in [Keys -> Loops \cup {None}]
        /\ None \notin Loops /\ x.key \in Keys \cup {None} /\ l # None
    BY RecordFields, Ids DEF Reach, Good, LoopRecord
  <2>3. Good(u)  BY StartKeeps DEF Reach
  <2> HIDE DEF u
  <2>4. u.open[l] = x /\ \A m \in Loops : m # l => u.open[m] = t.open[m]  BY <2>1, <2>2
  <2>5. \A k \in Keys : u.byKey[k] = IF k = x.key THEN l ELSE t.byKey[k]
    <3>1. CASE x.key = None  BY <2>1, <3>1, Ids
    <3>2. CASE x.key # None  BY <2>1, <2>2, <3>2
    <3> QED BY <3>1, <3>2
  <2> HIDE DEF byKey
  <2>6. AtHome(u)  BY <2>4 DEF Reach, AtHome
  <2>7. Mapped(u)
    <3> SUFFICES ASSUME NEW k \in Keys, u.byKey[k] # None
                 PROVE  /\ Home(u.byKey[k]) = k
                        /\ u.open[u.byKey[k]].live => u.open[u.byKey[k]].key = k
                        /\ u.byKey[k] \in RunLoops
                             => u.open[u.byKey[k]].live \/ u.byKey[k] \in u.ended
      BY DEF Mapped
    <3>1. CASE k = x.key
      <4>1. u.byKey[k] = l /\ x.key # None  BY <2>5, <3>1, Ids
      <4> QED BY <2>4, <3>1, <4>1
    <3>2. CASE k # x.key
      <4> DEFINE m == t.byKey[k]
      <4>1. u.byKey[k] = m /\ m \in Loops /\ Home(m) = k  BY <2>2, <2>5, <3>2 DEF Reach, Mapped
      <4>2. m # l
        <5>1. CASE x.key = Home(l)  BY <3>2, <4>1, <5>1
        <5>2. CASE l \in RunLoops
          <6>1. m \in RunLoops => t.open[m].live \/ m \in t.ended  BY <4>1 DEF Reach, Mapped
          <6> QED BY <1>2, <5>2, <6>1
        <5> QED BY <5>1, <5>2
      <4>3. u.open[m] = t.open[m]  BY <2>4, <4>1, <4>2
      <4> QED BY <2>1, <4>1, <4>3 DEF Reach, Mapped
    <3> QED BY <3>1, <3>2
  <2>8. KeyFinds(u)
    <3> SUFFICES ASSUME NEW m \in Loops, u.open[m].live, u.open[m].key # None
                 PROVE  u.byKey[u.open[m].key] = m
      BY DEF KeyFinds
    <3>1. CASE m = l  BY <2>2, <2>4, <2>5, <3>1
    <3>2. CASE m # l
      <4>1. u.open[m] = t.open[m] /\ t.open[m].key \in Keys /\ t.open[m].key # x.key
        BY <2>2, <2>4, <3>2 DEF LoopRecord
      <4> QED BY <2>5, <4>1 DEF Reach, KeyFinds
    <3> QED BY <3>1, <3>2
  <2>9. JobFinds(u)  BY <2>1, <2>4, Ids DEF Reach, JobFinds
  <2>10. OnlyWaiting(u, waiting)  BY <2>4 DEF Reach, OnlyWaiting
  <2> QED BY <2>3, <2>6, <2>7, <2>8, <2>9, <2>10 DEF Reach, u
<1> QED BY <1>1, <1>2

\* Loops are finished: each frees the keys that are its own.
LEMMA FinishAllReaches ==
  ASSUME NEW waiting, NEW t, Reach(t, waiting), NEW G \in SUBSET Loops,
         NEW xs \in [G -> LoopRecord], NEW publish \in BOOLEAN
  PROVE  Reach(FinishAll(t, xs, publish), waiting)
<1> DEFINE freed == {xs[l].key : l \in {m \in DOMAIN xs : Owns(t, m, xs[m])}}
           u == FinishAll(t, xs, publish)
<1>1. /\ t.open \in [Loops -> LoopRecord] /\ t.byKey \in [Keys -> Loops \cup {None}]
      /\ None \notin Loops /\ ~Closed.live
  BY RecordFields, Ids, Records DEF Reach, Good
<1>2. Good(u)  BY FinishAllKeeps DEF Reach
<1>3. /\ u.open = [l \in Loops |-> IF l \in DOMAIN xs THEN Closed ELSE t.open[l]]
      /\ u.byKey = [k \in Keys |-> IF k \in freed THEN None ELSE t.byKey[k]]
      /\ u.runs = t.runs /\ t.ended \subseteq u.ended /\ DOMAIN xs \subseteq u.ended
  BY TrackerFields DEF FinishAll
<1>4. DOMAIN xs = G  OBVIOUS
<1>5. \A k \in freed : \E l \in G : xs[l].key = k /\ k # None /\ t.byKey[k] \in {None, l}
  BY <1>4 DEF Owns
<1> HIDE DEF u, freed
<1>6. \A m \in Loops : u.open[m].live => m \notin G /\ u.open[m] = t.open[m]  BY <1>1, <1>3, <1>4
<1>7. AtHome(u)  BY <1>6 DEF Reach, AtHome
<1>8. Mapped(u)
  <2> SUFFICES ASSUME NEW k \in Keys, u.byKey[k] # None
               PROVE  /\ Home(u.byKey[k]) = k
                      /\ u.open[u.byKey[k]].live => u.open[u.byKey[k]].key = k
                      /\ u.byKey[k] \in RunLoops
                           => u.open[u.byKey[k]].live \/ u.byKey[k] \in u.ended
    BY DEF Mapped
  <2> DEFINE m == t.byKey[k]
  <2>1. u.byKey[k] = m /\ m \in Loops  BY <1>1, <1>3
  <2>2. /\ Home(m) = k /\ (t.open[m].live => t.open[m].key = k)
        /\ (m \in RunLoops => t.open[m].live \/ m \in t.ended)
    BY <2>1, <1>1 DEF Reach, Mapped
  <2> HIDE DEF m
  <2>3. m \in G \/ u.open[m] = t.open[m]  BY <1>3, <1>4, <2>1
  <2> QED BY <1>3, <1>4, <1>6, <2>1, <2>2, <2>3
<1>9. KeyFinds(u)
  <2> SUFFICES ASSUME NEW m \in Loops, u.open[m].live, u.open[m].key # None
               PROVE  u.byKey[u.open[m].key] = m
    BY DEF KeyFinds
  <2> DEFINE k == t.open[m].key
  <2>1. u.open[m] = t.open[m] /\ m \notin G /\ t.byKey[k] = m /\ k \in Keys
    BY <1>1, <1>6 DEF Reach, KeyFinds, LoopRecord
  <2>2. k \notin freed  BY <1>1, <1>5, <2>1
  <2> QED BY <1>3, <2>1, <2>2
<1>10. JobFinds(u)  BY <1>3, <1>6, Ids DEF Reach, JobFinds
<1>11. OnlyWaiting(u, waiting)  BY <1>6 DEF Reach, OnlyWaiting
<1> QED BY <1>2, <1>3, <1>4, <1>7, <1>8, <1>9, <1>10, <1>11 DEF Reach, u

LEMMA StillOpen ==
  ASSUME NEW t, NEW l, NEW x
  PROVE  \A m \in Loops : Finish(t, l, x, TRUE).open[m].live
           => m # l /\ t.open[m].live /\ Finish(t, l, x, TRUE).open[m].key = t.open[m].key
<1> DEFINE u == Finish(t, l, x, TRUE)
<1>1. u.open = [n \in Loops |-> IF n \in {l} THEN Closed ELSE t.open[n]]
  BY TrackerFields DEF Finish, FinishAll
<1>2. \A m \in Loops : u.open[m] = IF m \in {l} THEN Closed ELSE t.open[m]  BY <1>1
<1> QED BY <1>2, Records

LEMMA FinishReaches ==
  ASSUME NEW waiting, NEW t, Reach(t, waiting), NEW l \in Loops, NEW x \in LoopRecord,
         NEW publish \in BOOLEAN
  PROVE  Reach(Finish(t, l, x, publish), waiting)
<1>1. {l} \in SUBSET Loops /\ [m \in {l} |-> x] \in [{l} -> LoopRecord]  OBVIOUS
<1> QED BY <1>1, FinishAllReaches DEF Finish

-----------------------------------------------------------------------------
(* So does each handler.                                                    *)

LEMMA LoopTypes ==
  ASSUME NEW waiting, NEW t, Reach(t, waiting)
  PROVE  \A l \in Loops : t.open[l] \in LoopRecord /\ (t.open[l].live => t.open[l].key \in Keys \cup {None})
  BY RecordFields DEF Reach, Good, LoopRecord

\* A newly started loop of a key that has none is at home and alone there.
LEMMA KeyIsFree ==
  ASSUME NEW waiting, NEW t, Reach(t, waiting), NEW k \in Keys, LoopFor(t, k) = None
  PROVE  \A m \in Loops : t.open[m].live /\ t.open[m].key # None => t.open[m].key # k
  BY FoundByKey, Ids

LEMMA NewRecord ==
  ASSUME NEW k \in Keys \cup {None}, NEW parent \in Loops \cup {None}, NEW id \in SessionIds \cup {None}
  PROVE  /\ Rec(k, parent, id) \in LoopRecord /\ Rec(k, parent, id).live
         /\ Rec(k, parent, id).key = k /\ ~Rec(k, parent, id).blocked
  BY DEF Rec, LoopRec, LoopRecord

LEMMA ChangedRecord ==
  ASSUME NEW x \in LoopRecord, NEW id \in SessionIds \cup {None}, NEW parent \in Loops \cup {None}
  PROVE  /\ Learn(x, id) \in LoopRecord /\ Learn(x, id).live = x.live
         /\ Learn(x, id).key = x.key /\ Learn(x, id).blocked = x.blocked
         /\ Adopt(x, parent) \in LoopRecord /\ Adopt(x, parent).live = x.live
         /\ Adopt(x, parent).key = x.key /\ Adopt(x, parent).blocked = x.blocked
  BY DEF Learn, Adopt, LoopRec, LoopRecord

\* What an open loop's record is changed to without blocking it.
LEMMA ChangeReaches ==
  ASSUME NEW waiting, NEW t, Reach(t, waiting), NEW l \in Loops, NEW x \in LoopRecord,
         t.open[l].live, x.live, x.key = t.open[l].key, x.blocked = t.open[l].blocked
  PROVE  Reach(SetLoop(t, l, x), waiting) /\ SetLoop(t, l, x).open[l] = x
<1>1. \A m \in Loops : t.open[m].live /\ t.open[m].blocked => t.open[m].key \in waiting
  BY DEF Reach, OnlyWaiting
<1> QED BY <1>1, SetLoopReaches

\* A session that takes its key from another one, which is finished first.
LEMMA Superseded ==
  ASSUME NEW waiting, NEW t, Reach(t, waiting), NEW k \in Primary, LoopFor(t, k) # None
  PROVE  LET u == Finish(t, LoopFor(t, k), t.open[LoopFor(t, k)], TRUE) IN
         /\ Reach(u, waiting)
         /\ \A m \in Loops : u.open[m].live /\ u.open[m].key # None => u.open[m].key # k
<1> DEFINE l == LoopFor(t, k)
           x == t.open[l]
           u == Finish(t, l, x, TRUE)
<1>1. k \in Keys  BY Ids
<1>2. /\ l \in Loops /\ x \in LoopRecord
      /\ \A m \in Loops : t.open[m].live /\ t.open[m].key = k => l = m
  BY <1>1, FoundByKey, LoopTypes
<1> HIDE DEF l, x
<1>3. Reach(u, waiting)  BY <1>2, FinishReaches
<1>4. u = Finish(t, l, x, TRUE)  OBVIOUS
<1>5. \A m \in Loops : u.open[m].live
       => m # l /\ t.open[m].live /\ u.open[m].key = t.open[m].key
  BY StillOpen, ZenonT(40)
<1> HIDE DEF u
<1>6. \A m \in Loops : u.open[m].live /\ u.open[m].key # None => u.open[m].key # k
  BY <1>2, <1>5
<1> QED BY <1>3, <1>6 DEF l, x, u

LEMMA SessionStartReaches ==
  ASSUME NEW waiting, Reach(tracker, waiting), NEW k \in Primary, NEW id \in IdsOf(k),
         SessionStart(k, id)
  PROVE  Reach(tracker', waiting)
<1> DEFINE current == LoopFor(tracker, k)
           before == IF current = None THEN tracker
                     ELSE Finish(tracker, current, tracker.open[current], TRUE)
<1>1. k \in Keys /\ id \in SessionIds \cup {None}  BY SessionFacts
<1>2. current # None => current \in Loops /\ tracker.open[current].live
                        /\ tracker.open[current] \in LoopRecord
  BY <1>1, FoundByKey, LoopTypes
<1>3. CASE current # None /\ SameSession(tracker, current, id)
  <2>1. tracker' = SetLoop(tracker, current, Learn(tracker.open[current], id))
    BY <1>3 DEF SessionStart
  <2> HIDE DEF current
  <2> QED BY <1>1, <1>2, <1>3, <2>1, ChangedRecord, ChangeReaches
<1>4. CASE ~(current # None /\ SameSession(tracker, current, id))
  <2>1. tracker' = Start(before, SessionOf(k, id), Rec(k, None, id))
    BY <1>4 DEF SessionStart
  <2>2. /\ Reach(before, waiting)
        /\ \A m \in Loops : before.open[m].live /\ before.open[m].key # None
                              => before.open[m].key # k
    BY <1>1, KeyIsFree, Superseded
  <2> HIDE DEF before
  <2>3. SessionOf(k, id) \in Loops /\ Home(SessionOf(k, id)) = k /\ SessionOf(k, id) \notin RunLoops
    BY SessionFacts, SessionHome
  <2>4. /\ Rec(k, None, id) \in LoopRecord /\ Rec(k, None, id).live
        /\ Rec(k, None, id).key = k /\ ~Rec(k, None, id).blocked
    BY <1>1, NewRecord
  <2> QED BY <2>1, <2>2, <2>3, <2>4, StartReaches
<1> QED BY <1>3, <1>4

LEMMA SessionEndReaches ==
  ASSUME NEW waiting, Reach(tracker, waiting), NEW k \in Primary, NEW id \in IdsOf(k),
         SessionEnd(k, id)
  PROVE  Reach(tracker', waiting)
<1> DEFINE mapped == LoopFor(tracker, k)
           l == IF mapped # None /\ SameSession(tracker, mapped, id) THEN mapped ELSE SessionOf(k, id)
           x == IF tracker.open[l].live THEN tracker.open[l] ELSE Rec(k, None, id)
<1>1. l \in Loops
  <2>1. mapped # None => mapped \in Loops  BY SessionFacts, FoundByKey
  <2> HIDE DEF mapped
  <2> QED BY <2>1, SessionFacts
<1>2. tracker' = Finish(tracker, l, x, TRUE)  BY DEF SessionEnd
<1> HIDE DEF l
<1>3. x \in LoopRecord  BY <1>1, LoopTypes, SessionFacts
<1> HIDE DEF x
<1> QED BY <1>1, <1>2, <1>3, FinishReaches

LEMMA SnapshotReaches ==
  ASSUME NEW waiting, Reach(tracker, waiting), NEW k \in Primary, NEW id \in IdsOf(k),
         NEW archived \in BOOLEAN, NEW published \in BOOLEAN, Snapshot(k, id, archived, published)
  PROVE  Reach(tracker', waiting)
<1> DEFINE current == LoopFor(tracker, k)
           replaced == current # None /\ ~SameSession(tracker, current, id)
           t == IF replaced THEN Finish(tracker, current, tracker.open[current], TRUE) ELSE tracker
           mapped == current # None /\ ~replaced
           l == IF mapped THEN current ELSE SessionOf(k, id)
           x == IF mapped THEN Learn(t.open[l], id) ELSE Rec(k, None, id)
           reopened == IF mapped \/ archived THEN t
                       ELSE Tracker(t.open, t.byKey, t.runs, t.ended \ {l}, t.retired \ {k},
                                    t.told, t.met, t.lost)
           learnt == IF mapped THEN SetLoop(reopened, l, x) ELSE reopened
<1>1. tracker' = IF archived
                 THEN IF l \in t.ended THEN learnt ELSE Finish(learnt, l, x, ~published)
                 ELSE IF learnt.open[l].live THEN Tell(learnt, l, Status(x))
                 ELSE Start(learnt, l, x)
  BY DEF Snapshot
<1>2. k \in Keys /\ id \in SessionIds \cup {None}  BY SessionFacts
<1>3. current # None => current \in Loops /\ tracker.open[current].live
  BY <1>2, FoundByKey
<1>4. /\ Reach(t, waiting)
      /\ ~mapped => \A m \in Loops : t.open[m].live /\ t.open[m].key # None => t.open[m].key # k
  BY <1>2, KeyIsFree, Superseded
<1> HIDE DEF current
<1>5. l \in Loops /\ (~mapped => Home(l) = k /\ l \notin RunLoops)
  BY <1>3, SessionFacts, SessionHome
<1>6. mapped => t = tracker /\ l = current /\ t.open[l].live  BY <1>3
<1> HIDE DEF t, l, mapped
<1>7. /\ x \in LoopRecord /\ x.live
      /\ mapped => x.key = t.open[l].key /\ x.blocked = t.open[l].blocked
      /\ ~mapped => x.key = k /\ ~x.blocked
  <2>1. t.open[l] \in LoopRecord  BY <1>4, <1>5, LoopTypes
  <2> QED BY <1>2, <1>6, <2>1, ChangedRecord, NewRecord
<1> HIDE DEF x
<1>8. Reach(reopened, waiting) /\ reopened.open = t.open
  <2>1. CASE mapped \/ archived  BY <1>4, <2>1
  <2>2. CASE ~(mapped \/ archived)
    <3>1. /\ reopened.open = t.open /\ reopened.byKey = t.byKey /\ reopened.runs = t.runs
          /\ reopened.ended = t.ended \ {l} /\ reopened.told = t.told /\ reopened.lost = t.lost
      BY <2>2, TrackerFields
    <3>2. Good(t) /\ t \in TrackerRecord  BY <1>4 DEF Reach, Good
    <3>3. t.ended \ {l} \in SUBSET Loops /\ t.retired \ {k} \in SUBSET Keys  BY <3>2, RecordFields
    <3>4. reopened \in TrackerRecord  BY <2>2, <3>2, <3>3, RecordFields, TrackerType
    <3> HIDE DEF reopened
    <3>5. Good(reopened)  BY <3>1, <3>2, <3>4, OtherPartsKeep
    <3> QED BY <1>4, <1>5, <2>2, <3>1, <3>5, SameMaps
  <2> QED BY <2>1, <2>2
<1> HIDE DEF reopened
<1>9. /\ Reach(learnt, waiting) /\ (mapped => learnt.open[l] = x)
      /\ ~mapped => learnt.open = t.open
  <2>1. CASE mapped  BY <1>5, <1>6, <1>7, <1>8, <2>1, ChangeReaches
  <2>2. CASE ~mapped  BY <1>8, <2>2
  <2> QED BY <2>1, <2>2
<1> HIDE DEF learnt
<1>10. CASE archived /\ l \in t.ended  BY <1>1, <1>9, <1>10
<1>11. CASE archived /\ l \notin t.ended
  <2>1. tracker' = Finish(learnt, l, x, ~published)  BY <1>1, <1>11
  <2> QED BY <1>5, <1>7, <1>9, <2>1, FinishReaches
<1>12. CASE ~archived /\ learnt.open[l].live
  <2>1. tracker' = Tell(learnt, l, Status(x))  BY <1>1, <1>12
  <2> QED BY <1>5, <1>9, <1>12, <2>1, TellReaches DEF Status
<1>13. CASE ~archived /\ ~learnt.open[l].live
  <2>1. tracker' = Start(learnt, l, x)  BY <1>1, <1>13
  <2>2. ~mapped  BY <1>7, <1>9, <1>13
  <2> QED BY <1>4, <1>5, <1>7, <1>9, <2>1, <2>2, StartReaches
<1> QED BY <1>10, <1>11, <1>12, <1>13

LEMMA ProgressReaches ==
  ASSUME NEW waiting, Reach(tracker, waiting), NEW l \in Loops, Progress(l)
  PROVE  Reach(tracker', waiting)
  BY TellReaches DEF Progress, Status

LEMMA WithParentReaches ==
  ASSUME NEW waiting, NEW t, Reach(t, waiting), NEW requester \in Keys \cup {None}
  PROVE  /\ Reach(WithParent(t, requester), waiting)
         /\ \A c \in Children : LoopFor(t, c) = None
              => \A m \in Loops : WithParent(t, requester).open[m].live
                                  => WithParent(t, requester).open[m].key # c
<1> DEFINE l == SessionLoop(requester)
           x == Rec(requester, None, None)
           u == WithParent(t, requester)
<1>1. \A c \in Children : LoopFor(t, c) = None
        => \A m \in Loops : t.open[m].live => t.open[m].key # c
  BY FoundByKey, Ids
<1>2. CASE LazyParent(t, requester)
  <2>1. requester \in Primary /\ requester \in SpawnKeys /\ requester \in Keys
        /\ LoopFor(t, requester) = None
    BY <1>2, Ids DEF LazyParent, LoopFor
  <2>2. l \in Loops /\ Home(l) = requester /\ l \notin RunLoops  BY <2>1, Ids, Homes, NoRun
  <2>3. x \in LoopRecord /\ x.live /\ x.key = requester /\ ~x.blocked
    <3>1. x \in LoopRecord /\ x.live  BY <2>1, Records
    <3>2. x.key = requester /\ ~x.blocked  BY DEF Rec, LoopRec
    <3> QED BY <3>1, <3>2
  <2>4. u = Start(t, l, x)  BY <1>2 DEF WithParent
  <2> HIDE DEF l, x
  <2>5. Reach(u, waiting)  BY <2>1, <2>2, <2>3, <2>4, KeyIsFree, StartReaches
  <2>6. u.open \in {t.open, [t.open EXCEPT ![l] = x]}
    BY <2>4, TrackerFields DEF Start
  <2> HIDE DEF u
  <2>7. \A m \in Loops : u.open[m] = t.open[m] \/ u.open[m] = x
    BY <2>2, <2>6, RecordFields DEF Reach, Good
  <2>8. requester \notin Children  BY <2>1, LoopAssumption
  <2> QED BY <1>1, <2>3, <2>5, <2>7, <2>8 DEF u
<1>3. CASE ~LazyParent(t, requester)  BY <1>1, <1>3 DEF WithParent
<1> QED BY <1>2, <1>3

\* The job's entry and the loops that are finished are independent.
LEMMA FinishThenSetRun ==
  ASSUME NEW t, NEW j \in Jobs, NEW l \in Loops, NEW x
  PROVE  Finish(SetRun(t, j, None), l, x, TRUE) = SetRun(Finish(t, l, x, TRUE), j, None)
<1> DEFINE u == SetRun(t, j, None)
           v == Finish(t, l, x, TRUE)
<1>1. /\ u.open = t.open /\ u.byKey = t.byKey /\ u.ended = t.ended /\ u.retired = t.retired
      /\ u.told = t.told /\ u.met = t.met /\ u.lost = t.lost /\ u.runs = [t.runs EXCEPT ![j] = None]
  BY TrackerFields DEF SetRun
<1> HIDE DEF u
<1>2. \A m, y : Owns(u, m, y) <=> Owns(t, m, y)  BY <1>1 DEF Owns
<1> DEFINE xs == [m \in {l} |-> x]
           gone == DOMAIN xs
           aliases == {SessionLoop(xs[n].session) : n \in {m \in gone : xs[m].session # None}}
           freed(s) == {xs[n].key : n \in {m \in gone : Owns(s, m, xs[m])}}
<1>3. freed(u) = freed(t)  BY <1>2
<1>4. Finish(u, l, x, TRUE)
        = Tracker([n \in Loops |-> IF n \in gone THEN Closed ELSE t.open[n]],
                  [k \in Keys |-> IF k \in freed(t) THEN None ELSE t.byKey[k]],
                  [t.runs EXCEPT ![j] = None], t.ended \cup gone \cup aliases, t.retired \cup freed(t),
                  [n \in Loops |-> IF n \in gone THEN "finished" ELSE t.told[n]],
                  t.met, t.lost \ gone)
  BY <1>1, <1>3 DEF Finish, FinishAll
<1>5. v = Tracker([n \in Loops |-> IF n \in gone THEN Closed ELSE t.open[n]],
                  [k \in Keys |-> IF k \in freed(t) THEN None ELSE t.byKey[k]],
                  t.runs, t.ended \cup gone \cup aliases, t.retired \cup freed(t),
                  [n \in Loops |-> IF n \in gone THEN "finished" ELSE t.told[n]],
                  t.met, t.lost \ gone)
  BY DEF Finish, FinishAll
<1> HIDE DEF v, aliases, freed, xs, gone
<1>6. /\ v.open = [n \in Loops |-> IF n \in gone THEN Closed ELSE t.open[n]]
      /\ v.byKey = [k \in Keys |-> IF k \in freed(t) THEN None ELSE t.byKey[k]]
      /\ v.runs = t.runs /\ v.ended = t.ended \cup gone \cup aliases
      /\ v.retired = t.retired \cup freed(t)
      /\ v.told = [n \in Loops |-> IF n \in gone THEN "finished" ELSE t.told[n]]
      /\ v.met = t.met /\ v.lost = t.lost \ gone
  BY <1>5, TrackerFields
<1>7. Finish(u, l, x, TRUE) = SetRun(v, j, None)  BY <1>4, <1>6 DEF SetRun
<1> QED BY <1>7 DEF u, v

LEMMA SubagentReaches ==
  ASSUME NEW waiting, Reach(tracker, waiting), SubagentStep
  PROVE  Reach(tracker', waiting)
<1>1. ASSUME NEW c \in Children, NEW requester \in Keys \cup {None}, SubagentSpawned(c, requester)
      PROVE  Reach(tracker', waiting)
  <2> DEFINE l == SubagentLoop(c)
             x == Rec(c, ParentFor(tracker, requester), None)
             before == WithParent(tracker, requester)
  <2>1. c \in Keys /\ l \in Loops /\ Home(l) = c  BY Ids, Homes
  <2>2. x \in LoopRecord /\ x.live /\ x.key = c /\ ~x.blocked
    <3>1. x \in LoopRecord /\ x.live  BY <2>1, WithParentKeeps, Records DEF Reach
    <3>2. x.key = c /\ ~x.blocked  BY DEF Rec, LoopRec
    <3> QED BY <3>1, <3>2
  <2>3. tracker' = Start(before, l, x) /\ LoopFor(tracker, c) = None  BY <1>1 DEF SubagentSpawned
  <2>4. l \notin RunLoops  BY Ids, NoRun
  <2>5. Reach(before, waiting) /\ \A m \in Loops : before.open[m].live => before.open[m].key # c
    BY <2>3, WithParentReaches
  <2> HIDE DEF l, x, before
  <2> QED BY <2>1, <2>2, <2>3, <2>4, <2>5, StartReaches
<1>2. ASSUME NEW c \in Children, SubagentProgress(c)  PROVE Reach(tracker', waiting)
  <2>1. c \in Keys  BY Ids
  <2> QED BY <1>2, <2>1, FoundByKey, TellReaches DEF SubagentProgress
<1>3. ASSUME NEW c \in Children, SubagentEnded(c)  PROVE Reach(tracker', waiting)
  <2> DEFINE l == IF LoopFor(tracker, c) = None THEN SubagentLoop(c) ELSE LoopFor(tracker, c)
             x == IF LoopFor(tracker, c) = None THEN Rec(c, None, None) ELSE tracker.open[l]
  <2>1. c \in Keys /\ SubagentLoop(c) \in Loops  BY Ids
  <2>2. l \in Loops  BY <2>1, FoundByKey
  <2>3. x \in LoopRecord
    <3>1. Rec(c, None, None) \in LoopRecord  BY <2>1, Records
    <3> HIDE DEF l
    <3> QED BY <2>2, <3>1, LoopTypes
  <2>4. tracker' = Finish(tracker, l, x, TRUE)  BY <1>3 DEF SubagentEnded
  <2> HIDE DEF l, x
  <2> QED BY <2>2, <2>3, <2>4, FinishReaches
<1>4. ASSUME NEW k \in SpawnKeys, NEW parent \in Loops \cup {None}, RegisterSpawn(k, parent)
      PROVE  Reach(tracker', waiting)
  <2> DEFINE l == IF parent = None THEN SessionLoop(k) ELSE SubagentLoop(k)
             x == tracker.open[l]
  <2>1. k \in Keys /\ l \in Loops /\ Home(l) = k /\ l \notin RunLoops  BY Ids, Homes, NoRun
  <2>2. \/ LoopFor(tracker, k) = None /\ tracker' = Start(tracker, l, Rec(k, parent, None))
        \/ /\ LoopFor(tracker, k) = l
           /\ tracker' = Tell(SetLoop(tracker, l, Adopt(x, parent)), l, "running")
    BY <1>4 DEF RegisterSpawn
  <2> HIDE DEF l
  <2>3. CASE LoopFor(tracker, k) = None /\ tracker' = Start(tracker, l, Rec(k, parent, None))
    <3>1. /\ Rec(k, parent, None) \in LoopRecord /\ Rec(k, parent, None).live
          /\ Rec(k, parent, None).key = k /\ ~Rec(k, parent, None).blocked
      BY <2>1, NewRecord
    <3> QED BY <2>1, <2>3, <3>1, KeyIsFree, StartReaches
  <2>4. CASE /\ LoopFor(tracker, k) = l
             /\ tracker' = Tell(SetLoop(tracker, l, Adopt(x, parent)), l, "running")
    <3>1. x \in LoopRecord /\ x.live  BY <2>1, <2>4, FoundByKey, LoopTypes, Ids
    <3>2. /\ Adopt(x, parent) \in LoopRecord /\ Adopt(x, parent).live
          /\ Adopt(x, parent).key = x.key /\ Adopt(x, parent).blocked = x.blocked
      <4>1. None \in SessionIds \cup {None}  OBVIOUS
      <4> QED BY <3>1, <4>1, ChangedRecord
    <3>3. /\ Reach(SetLoop(tracker, l, Adopt(x, parent)), waiting)
          /\ SetLoop(tracker, l, Adopt(x, parent)).open[l].live
      BY <2>1, <3>1, <3>2, ChangeReaches
    <3> QED BY <2>1, <2>4, <3>3, TellReaches
  <2> QED BY <2>2, <2>3, <2>4
<1> QED BY <1>1, <1>2, <1>3, <1>4 DEF SubagentStep

-----------------------------------------------------------------------------
(* Cron.                                                                    *)

LEMMA CronStartedReaches ==
  ASSUME NEW waiting, NEW t, Reach(t, waiting), NEW j \in Jobs, NEW r \in 1..MaxRuns,
         NEW key \in {None, RunKey(j)}
  PROVE  Reach(CronStarted(t, j, r, key), waiting)
<1> DEFINE l == RunLoop(j, r)
           previous == t.runs[j]
           stale == previous \notin {None, l} /\ t.open[previous].live
           before == IF stale THEN Finish(t, previous, t.open[previous], TRUE) ELSE t
           marked == SetRun(before, j, l)
           x == Rec(key, None, None)
<1>1. l \in RunLoops /\ l \in Loops /\ Home(l) = RunKey(j) /\ l[2] = j  BY Ids, Homes
<1>2. x \in LoopRecord /\ x.live /\ x.key = key /\ ~x.blocked
  <2>1. x \in LoopRecord /\ x.live  BY Ids, Records
  <2>2. x.key = key /\ ~x.blocked  BY DEF Rec, LoopRec
  <2> QED BY <2>1, <2>2
<1>3. CronStarted(t, j, r, key) = Start(marked, l, x)  BY DEF CronStarted
<1>4. previous \in RunLoops \cup {None} /\ None \notin RunLoops
  BY RecordFields, Ids DEF Reach, Good
<1>5. /\ Reach(before, waiting)
      /\ \A m \in RunLoops : before.open[m].live /\ m[2] = j => m = l
  <2>1. \A m \in RunLoops : t.open[m].live /\ m[2] = j => m = previous
    BY DEF Reach, JobFinds
  <2>2. CASE stale
    <3> DEFINE y == t.open[previous]
    <3>1. previous \in Loops /\ y \in LoopRecord  BY <1>4, <2>2, Ids, LoopTypes
    <3>2. before = Finish(t, previous, y, TRUE)  BY <2>2
    <3> HIDE DEF previous, y, before
    <3>3. Reach(before, waiting)  BY <3>1, <3>2, FinishReaches
    <3>4. \A m \in Loops : before.open[m].live => m # previous /\ t.open[m].live
      BY <3>2, StillOpen
    <3>5. \A m \in RunLoops : before.open[m].live => t.open[m].live /\ m # previous
      BY <3>4, Ids
    <3> QED BY <2>1, <3>3, <3>5
  <2>3. CASE ~stale  BY <1>4, <2>1, <2>3
  <2> QED BY <2>2, <2>3
<1> HIDE DEF previous, stale, before, l, x
<1>6. Reach(marked, waiting)  BY <1>1, <1>5, SetRunReaches
<1>7. marked.open = before.open /\ marked.runs[j] = l
  <2>1. before.runs \in [Jobs -> RunLoops \cup {None}]  BY <1>5, RecordFields DEF Reach, Good
  <2> QED BY <2>1, TrackerFields DEF SetRun
<1> HIDE DEF marked
<1>8. ASSUME NEW m \in Loops, m # l, marked.open[m].live, marked.open[m].key # None
      PROVE  marked.open[m].key # key
  <2>1. SUFFICES ASSUME marked.open[m].key = RunKey(j) PROVE FALSE
    BY <1>8
  <2>2. Home(m) = RunKey(j)  BY <1>6, <1>8, <2>1 DEF Reach, AtHome
  <2>3. m \in RunLoops /\ m[2] = j  BY <2>2, RunHomes
  <2> QED BY <1>5, <1>7, <1>8, <2>3
<1> QED BY <1>1, <1>2, <1>3, <1>6, <1>7, <1>8, StartReaches

LEMMA CronFinishedReaches ==
  ASSUME NEW waiting, NEW t, Reach(t, waiting), NEW j \in Jobs, NEW r \in 1..MaxRuns,
         NEW key \in Keys \cup {None}
  PROVE  Reach(CronFinished(t, j, r, key), waiting)
<1> DEFINE existing == RunOf(t, j)
           l == IF existing = None THEN RunLoop(j, r) ELSE existing
           x == IF existing = None THEN Rec(key, None, None) ELSE t.open[l]
           u == Finish(t, l, x, TRUE)
<1>1. t \in TrackerRecord  BY DEF Reach, Good
<1>2. l \in Loops  BY <1>1, RunFacts, Ids
<1>3. x \in LoopRecord
  <2>1. Rec(key, None, None) \in LoopRecord  BY Records
  <2> HIDE DEF l
  <2> QED BY <1>2, <2>1, LoopTypes
<1>4. CronFinished(t, j, r, key) = SetRun(u, j, None)
  <2>1. CronFinished(t, j, r, key) = Finish(SetRun(t, j, None), l, x, TRUE)  BY DEF CronFinished
  <2> HIDE DEF l, x
  <2> QED BY <1>2, <2>1, FinishThenSetRun, ZenonT(40)
<1>5. \A m \in RunLoops : t.open[m].live /\ m[2] = j => m = l
  <2>1. \A m \in RunLoops : t.open[m].live /\ m[2] = j => t.runs[j] = m /\ m # None
    BY Ids DEF Reach, JobFinds
  <2> QED BY <2>1 DEF RunOf
<1> HIDE DEF l, x
<1>6. Reach(u, waiting)  BY <1>2, <1>3, FinishReaches
<1>7. u = Finish(t, l, x, TRUE)  OBVIOUS
<1>8. \A m \in Loops : u.open[m].live
       => m # l /\ t.open[m].live /\ u.open[m].key = t.open[m].key
  BY StillOpen, ZenonT(40)
<1> HIDE DEF u
<1>9. \A m \in RunLoops : ~(u.open[m].live /\ m[2] = j)  BY <1>5, <1>8, Ids
<1> QED BY <1>4, <1>6, <1>9, SetRunReaches

LEMMA CronRemovedReaches ==
  ASSUME NEW waiting, NEW t, Reach(t, waiting), NEW j \in Jobs
  PROVE  Reach(CronRemoved(t, j), waiting)
<1> DEFINE l == RunOf(t, j)
           x == t.open[l]
           u == Finish(t, l, x, TRUE)
<1>1. \A m \in RunLoops : t.open[m].live /\ m[2] = j => m = l
  <2>1. \A m \in RunLoops : t.open[m].live /\ m[2] = j => t.runs[j] = m /\ m # None
    BY Ids DEF Reach, JobFinds
  <2> QED BY <2>1 DEF RunOf
<1>2. l \in Loops \cup {None}  BY RunFacts DEF Reach, Good
<1>3. CASE l = None
  <2>1. \A m \in RunLoops : ~(t.open[m].live /\ m[2] = j)  BY <1>1, <1>3, Ids
  <2> QED BY <1>3, <2>1, SetRunReaches DEF CronRemoved
<1>4. CASE l # None
  <2>1. CronRemoved(t, j) = SetRun(u, j, None)  BY <1>2, <1>4, FinishThenSetRun, ZenonT(40) DEF CronRemoved
  <2>2. x \in LoopRecord  BY <1>2, <1>4, LoopTypes
  <2> HIDE DEF l, x
  <2>3. Reach(u, waiting)  BY <1>2, <1>4, <2>2, FinishReaches
  <2>4. u = Finish(t, l, x, TRUE)  OBVIOUS
  <2>5. \A m \in Loops : u.open[m].live
          => m # l /\ t.open[m].live /\ u.open[m].key = t.open[m].key
    BY StillOpen, ZenonT(40)
  <2> HIDE DEF u
  <2>6. \A m \in RunLoops : ~(u.open[m].live /\ m[2] = j)  BY <1>1, <2>5, Ids
  <2> QED BY <2>1, <2>3, <2>6, SetRunReaches
<1> QED BY <1>3, <1>4

LEMMA CloseStaleReaches ==
  ASSUME NEW waiting, NEW t, Reach(t, waiting),
         NEW closed \in SUBSET {j \in Jobs : RunOf(t, j) # None},
         NEW hollow \in SUBSET {j \in Jobs : RunOf(t, j) = None}
  PROVE  Reach(CloseStale(t, closed, hollow), waiting)
<1> DEFINE gone == {t.runs[j] : j \in closed}
           xs == [l \in gone |-> t.open[l]]
           after == FinishAll(t, xs, TRUE)
           u == CloseStale(t, closed, hollow)
<1>1. t \in TrackerRecord  BY DEF Reach, Good
<1>2. gone \in SUBSET Loops
  <2> SUFFICES ASSUME NEW j \in closed PROVE t.runs[j] \in Loops
    OBVIOUS
  <2> QED BY <1>1, RunFacts
<1>3. Good(u)  BY CloseStaleKeeps DEF Reach
<1> DEFINE runs == [j \in Jobs |-> IF j \in closed \cup hollow THEN None ELSE t.runs[j]]
<1>4. u.open = after.open /\ u.byKey = after.byKey /\ u.ended = after.ended /\ u.runs = runs
  <2>1. u = Tracker(after.open, after.byKey, runs, after.ended, after.retired,
                    after.told, after.met, after.lost)
    BY DEF CloseStale
  <2> HIDE DEF u, after, runs
  <2> QED BY <2>1, TrackerFields
<1>5. \A l \in RunLoops : t.open[l].live /\ l \notin gone => l[2] \notin closed \cup hollow
  <2>1. \A l \in RunLoops : t.open[l].live => t.runs[l[2]] = l /\ l # None /\ l[2] \in Jobs
    BY Ids, RunHomes DEF Reach, JobFinds
  <2> QED BY <2>1 DEF RunOf
<1> HIDE DEF u, gone
<1>6. xs \in [gone -> LoopRecord]
  <2>1. \A l \in gone : t.open[l] \in LoopRecord  BY <1>2, LoopTypes
  <2> QED BY <2>1
<1>7. after.open = [l \in Loops |-> IF l \in gone THEN Closed ELSE t.open[l]]
  BY TrackerFields DEF FinishAll
<1> HIDE DEF xs
<1>8. Reach(after, waiting)  BY <1>2, <1>6, FinishAllReaches
<1> HIDE DEF after
<1>9. JobFinds(u)
  <2> SUFFICES ASSUME NEW l \in RunLoops, u.open[l].live PROVE u.runs[l[2]] = l
    BY DEF JobFinds
  <2>1. t.open[l].live /\ l \notin gone  BY <1>4, <1>7, Records, Ids
  <2> QED BY <1>4, <1>5, <2>1, RunHomes DEF Reach, JobFinds
<1>10. AtHome(u) /\ Mapped(u) /\ KeyFinds(u) /\ OnlyWaiting(u, waiting)
  BY <1>4, <1>8 DEF Reach, AtHome, Mapped, KeyFinds, OnlyWaiting
<1> QED BY <1>3, <1>9, <1>10 DEF Reach, u

LEMMA CloseOrphansReaches ==
  ASSUME NEW waiting, NEW t, Reach(t, waiting), listing \in Listings,
         NEW jobs \in SUBSET {j \in Jobs : listing.run[j] # 0}
  PROVE  Reach(CloseOrphans(t, jobs), waiting)
<1> DEFINE gone == {RunLoop(j, listing.run[j]) : j \in jobs}
           xs == [l \in gone |-> Rec(None, None, None)]
<1>1. gone \in SUBSET Loops
  <2> SUFFICES ASSUME NEW j \in jobs PROVE RunLoop(j, listing.run[j]) \in Loops
    OBVIOUS
  <2>1. listing.run[j] \in 1..MaxRuns  BY LoopAssumption DEF Listings
  <2> QED BY <2>1, Ids
<1>2. xs \in [gone -> LoopRecord]
  <2>1. Rec(None, None, None) \in LoopRecord  BY Records
  <2> QED BY <2>1
<1>3. CloseOrphans(t, jobs) = FinishAll(t, xs, TRUE)  BY DEF CloseOrphans
<1> HIDE DEF gone, xs
<1> QED BY <1>1, <1>2, <1>3, FinishAllReaches

\* Within the budget every stale run is closed, so no entry of an open loop goes.
LEMMA ReconcileReaches ==
  ASSUME EveryJobFits, NEW waiting, Reach(tracker, waiting), listing \in Listings, Reconcile
  PROVE  Reach(tracker', waiting)
<1> DEFINE stale == {j \in Jobs : RunOf(tracker, j) # None /\ ~Running(j)}
           hollow == {j \in Jobs : tracker.runs[j] # None /\ RunOf(tracker, j) = None}
           orphans == IF listing.startup THEN {j \in Jobs : listing.run[j] # 0} ELSE {}
           UpTo(n, S) == {T \in SUBSET S :
                            Cardinality(T) = IF Cardinality(S) <= n THEN Cardinality(S) ELSE n}
<1>1. PICK closed \in UpTo(MaxEmissions, stale), dropped \in SUBSET Jobs, found \in SUBSET hollow,
           over \in SUBSET orphans :
        /\ dropped \in SUBSET (stale \ closed)
        /\ tracker' = CloseOrphans(CloseStale(tracker, closed, dropped \cup found), over)
  BY DEF Reconcile
<1>2. closed = stale
  <2>1. /\ IsFiniteSet(stale) /\ Cardinality(stale) <= Cardinality(Jobs)
        /\ Cardinality(stale) \in Nat /\ Cardinality(Jobs) \in Nat
    BY LoopAssumption, FS_Subset, FS_CardinalityType
  <2> HIDE DEF stale
  <2>2. closed \in SUBSET stale /\ Cardinality(closed) = Cardinality(stale)
    BY <2>1, LoopAssumption DEF EveryJobFits
  <2> QED BY <2>1, <2>2, FS_Subset
<1>3. /\ closed \in SUBSET {j \in Jobs : RunOf(tracker, j) # None}
      /\ dropped \cup found \in SUBSET {j \in Jobs : RunOf(tracker, j) = None}
      /\ over \in SUBSET {j \in Jobs : listing.run[j] # 0}
  BY <1>1, <1>2
<1> HIDE DEF stale, hollow, orphans, UpTo
<1> QED BY <1>1, <1>3, CloseStaleReaches, CloseOrphansReaches

-----------------------------------------------------------------------------
(* The blocker.                                                             *)

\* The first approval held for an owner blocks its loop, the last one released
\* unblocks it; another owner's loop is left alone.
LEMMA SetBlockedReaches ==
  ASSUME NEW waiting, NEW after, NEW t, Reach(t, waiting), NEW k \in Keys, NEW blocked \in BOOLEAN,
         blocked => k \in after, \A w \in waiting : w # k => w \in after
  PROVE  Reach(SetBlocked(t, k, blocked), after)
<1> DEFINE l == LoopFor(t, k)
           x == Mark(t.open[l], blocked)
           status == IF blocked THEN "blocked" ELSE "running"
<1>1. ASSUME NEW m \in Loops, m # l, t.open[m].live, t.open[m].blocked
      PROVE  t.open[m].key \in after
  <2>1. t.open[m].key \in waiting  BY <1>1 DEF Reach, OnlyWaiting
  <2>2. t.open[m].key # k
    <3>1. t.open[m].key = k => LoopFor(t, k) = m  BY <1>1, FoundByKey
    <3> QED BY <1>1, <3>1
  <2> QED BY <2>1, <2>2
<1>2. CASE l = None
  <2>1. SetBlocked(t, k, blocked) = t  BY <1>2 DEF SetBlocked
  <2>2. OnlyWaiting(t, after)  BY <1>1, <1>2, Ids DEF OnlyWaiting
  <2> QED BY <2>1, <2>2 DEF Reach
<1>3. CASE l # None
  <2>1. l \in Loops /\ t.open[l].live /\ t.open[l].key = k /\ t.open[l] \in LoopRecord
    BY <1>3, FoundByKey, LoopTypes
  <2>2. SetBlocked(t, k, blocked) = Tell(SetLoop(t, l, x), l, status)  BY <1>3 DEF SetBlocked
  <2>3. x \in LoopRecord /\ x.live
    <3>1. Mark(t.open[l], blocked).live = t.open[l].live  BY <2>1, Records
    <3>2. x \in LoopRecord  BY <2>1, Records
    <3> QED BY <2>1, <3>1, <3>2
  <2>4. x.key = k /\ (x.blocked <=> blocked)  BY <2>1 DEF Mark, LoopRec
  <2> HIDE DEF l, x
  <2>5. Reach(SetLoop(t, l, x), after) /\ SetLoop(t, l, x).open[l] = x
    BY <1>1, <2>1, <2>3, <2>4, SetLoopReaches
  <2>6. status \in {"running", "blocked"}  OBVIOUS
  <2> HIDE DEF status
  <2> QED BY <2>1, <2>2, <2>3, <2>5, <2>6, TellReaches
<1> QED BY <1>2, <1>3

ReachInv == LoopInv /\ Reach(tracker, Waiting)

LEMMA HoldReaches ==
  ASSUME ReachInv, NEW a \in Approvals, NEW k \in Keys, Hold(a, k)
  PROVE  Reach(tracker', Waiting')
<1>1. perOwner \in [Keys -> Nat]  BY DEF ReachInv, LoopInv, BlockerOK
<1>2. perOwner' = [perOwner EXCEPT ![k] = @ + 1]  BY DEF Hold
<1>3. k \in Waiting' /\ Waiting \subseteq Waiting'  BY <1>1, <1>2 DEF Waiting
<1>4. tracker' \in {tracker, SetBlocked(tracker, k, TRUE)}  BY DEF Hold
<1>5. Reach(tracker, Waiting')  BY <1>3 DEF ReachInv, Reach, OnlyWaiting
<1>6. Reach(SetBlocked(tracker, k, TRUE), Waiting')
  BY <1>3, SetBlockedReaches DEF ReachInv
<1> QED BY <1>4, <1>5, <1>6

LEMMA ReleaseReaches ==
  ASSUME ReachInv, NEW a \in Approvals, Release(a)
  PROVE  Reach(tracker', Waiting')
<1> DEFINE k == held[a]
<1>1. perOwner \in [Keys -> Nat] /\ perOwner' \in [Keys -> Nat] /\ k \in Keys
  BY ReleaseCounts DEF ReachInv, LoopInv, BlockerOK
<1>2. perOwner' = [perOwner EXCEPT ![k] = @ - 1]  BY DEF Release
<1>3. \A w \in Waiting : w # k => w \in Waiting'  BY <1>1, <1>2 DEF Waiting
<1> HIDE DEF k
<1>4. CASE perOwner'[k] = 0
  <2>1. tracker' = SetBlocked(tracker, k, FALSE)  BY <1>4 DEF Release, k
  <2> QED BY <1>1, <1>3, <2>1, SetBlockedReaches DEF ReachInv
<1>5. CASE perOwner'[k] # 0
  <2>1. tracker' = tracker  BY <1>5 DEF Release, k
  <2>2. Waiting \subseteq Waiting'  BY <1>1, <1>3, <1>5 DEF Waiting
  <2> QED BY <2>1, <2>2 DEF ReachInv, Reach, OnlyWaiting
<1> QED BY <1>4, <1>5

-----------------------------------------------------------------------------
(* The invariant.                                                           *)

LEMMA FreshReaches ==
  ASSUME NEW waiting, NEW told, NEW lost, NEW t, t = Fresh(told, lost), Good(t)
  PROVE  Reach(t, waiting)
<1>1. t.open = [l \in Loops |-> Closed] /\ t.byKey = [k \in Keys |-> None]
  BY TrackerFields DEF Fresh
<1>2. /\ \A l \in Loops : t.open[l] = Closed
      /\ \A k \in Keys : t.byKey[k] = None
  BY <1>1
<1>3. \A l \in Loops : ~t.open[l].live  BY <1>2, Records
<1> QED BY <1>2, <1>3, Ids DEF Reach, AtHome, Mapped, KeyFinds, JobFinds, OnlyWaiting

LEMMA ReachInit == Init => ReachInv
<1> SUFFICES ASSUME Init PROVE ReachInv
  OBVIOUS
<1>1. LoopInv  BY LoopInit
<1>2. Good(tracker)  BY <1>1 DEF LoopInv
<1>3. tracker = Fresh([l \in Loops |-> "nothing"], {})  BY DEF Init
<1>4. Reach(tracker, Waiting)  BY <1>2, <1>3, FreshReaches
<1> QED BY <1>1, <1>4 DEF ReachInv

LEMMA HookReaches ==
  ASSUME ReachInv, SessionStep \/ SubagentStep \/ \E l \in Loops : Progress(l)
  PROVE  Reach(tracker', Waiting')
<1>1. Reach(tracker, Waiting)  BY DEF ReachInv
<1>2. ASSUME NEW k \in Primary, NEW id \in IdsOf(k), SessionStart(k, id) \/ SessionEnd(k, id)
      PROVE  Reach(tracker', Waiting) /\ OnlyTracker
  BY <1>1, <1>2, SessionStartReaches, SessionEndReaches DEF SessionStart, SessionEnd
<1>3. ASSUME NEW k \in Primary, NEW id \in IdsOf(k), NEW archived \in BOOLEAN,
             NEW published \in BOOLEAN, Snapshot(k, id, archived, published)
      PROVE  Reach(tracker', Waiting) /\ OnlyTracker
  <2>1. OnlyTracker  BY <1>3, Zenon DEF Snapshot
  <2> QED BY <1>1, <1>3, <2>1, SnapshotReaches
<1>4. CASE SubagentStep
  <2>1. OnlyTracker
    BY <1>4 DEF SubagentStep, SubagentSpawned, SubagentProgress, SubagentEnded, RegisterSpawn
  <2> QED BY <1>1, <1>4, <2>1, SubagentReaches DEF OnlyTracker, blockerVars, Waiting
<1>5. ASSUME NEW l \in Loops, Progress(l)  PROVE Reach(tracker', Waiting')
  BY <1>1, <1>5, ProgressReaches DEF Progress, OnlyTracker, blockerVars, Waiting
<1>6. CASE SessionStep
  <2>1. Reach(tracker', Waiting) /\ OnlyTracker  BY <1>2, <1>3, <1>6 DEF SessionStep
  <2> QED BY <2>1 DEF OnlyTracker, blockerVars, Waiting
<1> QED BY <1>4, <1>5, <1>6

LEMMA CronReaches ==
  ASSUME ReachInv, CronStep
  PROVE  Reach(tracker', Waiting')
<1>1. Reach(tracker, Waiting) /\ LoopInv  BY DEF ReachInv
<1>2. Waiting' = Waiting
  BY DEF CronStep, RunStarts, RunEnds, JobRemoved, ClearMark, OnlyCron, blockerVars, Waiting
<1>3. ASSUME NEW j \in Jobs, NEW key \in {None, RunKey(j)}, NEW heard \in BOOLEAN,
             RunStarts(j, key, heard)
      PROVE  Reach(tracker', Waiting)
  <2> DEFINE r == runCount[j] + 1
  <2>1. r \in 1..MaxRuns  BY <1>1, <1>3, LoopAssumption DEF RunStarts, LoopInv, CronOK
  <2>2. tracker' \in {tracker, CronStarted(tracker, j, r, key)}  BY <1>3 DEF RunStarts
  <2> HIDE DEF r
  <2> QED BY <1>1, <2>1, <2>2, CronStartedReaches
<1>4. ASSUME NEW j \in Jobs, NEW key \in {None, RunKey(j)}, NEW heard \in BOOLEAN,
             RunEnds(j, key, heard)
      PROVE  Reach(tracker', Waiting)
  <2>1. marker[j] \in 1..MaxRuns  BY <1>1, <1>4, LoopAssumption DEF RunEnds, LoopInv, CronOK
  <2>2. tracker' \in {tracker, CronFinished(tracker, j, marker[j], key)}  BY <1>4 DEF RunEnds
  <2>3. key \in Keys \cup {None}  BY Ids
  <2> QED BY <1>1, <2>1, <2>2, <2>3, CronFinishedReaches
<1>5. ASSUME NEW j \in Jobs, JobRemoved(j) \/ ClearMark(j)  PROVE Reach(tracker', Waiting)
  BY <1>1, <1>5, CronRemovedReaches DEF JobRemoved, ClearMark
<1> QED BY <1>2, <1>3, <1>4, <1>5 DEF CronStep

LEMMA ReachNext ==
  ASSUME EveryJobFits, ReachInv, [Next]_vars
  PROVE  ReachInv'
<1>1. LoopInv'  BY LoopNext DEF ReachInv
<1>2. Reach(tracker', Waiting')
  <2>1. CASE SessionStep \/ SubagentStep \/ \E l \in Loops : Progress(l)  BY <2>1, HookReaches
  <2>2. CASE CronStep  BY <2>2, CronReaches
  <2>3. CASE ReconcileStep
    <3>1. CASE Reconcile
      BY <3>1, ReconcileReaches DEF ReachInv, LoopInv, RestOK, Reconcile, blockerVars, Waiting
    <3>2. CASE ~Reconcile
      BY <2>3, <3>2 DEF ReconcileStep, ListJobs, ListingAborted, blockerVars, Waiting, ReachInv
    <3> QED BY <3>1, <3>2
  <2>4. CASE BlockerStep  BY <2>4, HoldReaches, ReleaseReaches DEF BlockerStep
  <2>5. CASE Crash
    <3>1. Good(tracker')  BY <1>1 DEF LoopInv
    <3> QED BY <2>5, <3>1, FreshReaches DEF Crash
  <2>6. CASE UNCHANGED vars  BY <2>6 DEF vars, blockerVars, Waiting, ReachInv
  <2> QED BY <2>1, <2>2, <2>3, <2>4, <2>5, <2>6 DEF Next
<1> QED BY <1>1, <1>2 DEF ReachInv

\* The inductive invariant.
THEOREM ReachInvariant ==
  ASSUME EveryJobFits
  PROVE  Spec => []ReachInv
<1>1. ReachInv /\ [Next]_vars => ReachInv'  BY ReachNext
<1> QED BY <1>1, ReachInit, PTL DEF Spec

\* No open loop is orphaned: hooks that name its session key or its job find it,
\* whatever hooks come in whatever order, as long as one reconcile may close a
\* run of every job (bySessionKey and cronRuns of loop-tracker.ts, 237-241).
THEOREM NoLoopOrphaned ==
  ASSUME EveryJobFits
  PROVE  Spec => []OpenLoopsReachable
<1>1. ReachInv => OpenLoopsReachable
  BY DEF ReachInv, Reach, KeyFinds, JobFinds, OpenLoopsReachable, Live
<1> QED BY <1>1, ReachInvariant, PTL

\* A loop is blocked only while an approval is held for its owner, and the count
\* of an owner is the number of those held (approval-loop-blocker.ts, 77-113).
THEOREM NoneBlockedForEver ==
  ASSUME EveryJobFits
  PROVE  Spec => []BlockedIsHeld
<1>1. ASSUME ReachInv, NEW l \in Loops, Live(l), tracker.open[l].blocked
      PROVE  \E a \in Approvals : held[a] = tracker.open[l].key
  <2> DEFINE k == tracker.open[l].key
  <2>1. k \in Keys /\ perOwner[k] # 0
    BY <1>1 DEF ReachInv, Reach, OnlyWaiting, Waiting, Live
  <2>2. perOwner[k] = Cardinality({a \in Approvals : held[a] = k})
    BY <1>1, <2>1 DEF ReachInv, LoopInv, BlockerOK, Counted
  <2>3. {a \in Approvals : held[a] = k} # {}  BY <2>1, <2>2, FS_EmptySet
  <2> QED BY <2>3
<1>2. ReachInv => BlockedIsHeld
  BY <1>1 DEF BlockedIsHeld, ReachInv, LoopInv, BlockerOK, Counted
<1> QED BY <1>2, ReachInvariant, PTL

-----------------------------------------------------------------------------
(* The composition.                                                         *)

\* What the hooks do beside the inventory is what they do alone, so what holds of
\* LoopTracking holds of the loops that the inventory shares.  (the tracker's handlers)
THEOREM HooksAsAlone == LoopsSpec => Spec
<1>1. LoopsInit => Init  BY DEF LoopsInit
<1>2. [HookStep \/ InventoryStep]_<<vars, theme, inventoryVars>> => [Next]_vars
  <2> SUFFICES ASSUME [HookStep \/ InventoryStep]_<<vars, theme, inventoryVars>>
               PROVE  [Next]_vars
    OBVIOUS
  <2>1. CASE UNCHANGED vars  BY <2>1
  <2>2. CASE HookStep
    <3>0. /\ Children \subseteq SpawnKeys /\ Primary \subseteq Keys /\ Children \subseteq Keys
          /\ \A j \in Jobs : RunKey(j) \in Keys
      BY Ids
    <3>1. ASSUME NEW theirs \in SUBSET Keys, NEW c \in Children, NEW requester \in Requesters(theirs),
                 SubagentSpawned(c, requester)
          PROVE  Next
      BY <3>0, <3>1 DEF Requesters, Next, SubagentStep
    <3>2. CASE Sessions  BY <2>2, <3>0, <3>1, <3>2 DEF Sessions, Next, SubagentStep
    <3>3. CASE Cron
      <4>1. {RunKey(j) : j \in Jobs} \in SUBSET Keys  BY <3>0
      <4> QED BY <3>1, <3>3, <4>1 DEF Cron, Next
    <3>4. CASE Both
      <4>1. \A k \in Named : k \in Keys  BY <3>0 DEF Named
      <4> QED BY <3>4, <4>1 DEF Both, Next, SubagentStep, BlockerStep
    <3> QED BY <2>2, <3>2, <3>3, <3>4 DEF HookStep
  <2>3. CASE InventoryStep  BY <2>3 DEF InventoryStep
  <2> QED BY <2>1, <2>2, <2>3
<1> QED BY <1>1, <1>2, PTL DEF LoopsSpec, Spec

-----------------------------------------------------------------------------
(* The inventory: what its variables hold.                                  *)

Native == Inventory!Ids
Points == [id : 0..MaxIds, turn : Nat]
Checkpoints == [Native -> [point : Points, archived : BOOLEAN]]
Listed == [SessionKeys -> [id : 0..MaxIds, archived : BOOLEAN]]
PassRecord ==
  [step : {"idle", "load", "list", "rows", "told"}, rows : Listed, left : SUBSET SessionKeys,
   key : SessionKeys \cup {"-"}, ahead : Nat, backfill : SUBSET Native]
CallRecord ==
  [step : {"load", "list", "read", "compare", "walk", "sent"}, loop : Native, auto : BOOLEAN,
   key : SessionKeys \cup {"-"}, id : 0..MaxIds, of : 0..MaxIds, next : Nat, last : Nat, ahead : Nat]
Answered == {"compare", "walk", "sent"}
\* A call knows its key, its identity and its turns from the step on that needs them.
Call ==
  {c \in CallRecord :
     /\ c.step # "load" => c.key \in SessionKeys
     /\ c.step \notin {"load", "list"} => c.id \in Native
     /\ c.step \in Answered => c.of \in Native /\ c.next >= 1}
Looking == rec.step \in {"rows", "told"}
GatewayTypes ==
  /\ row \in [SessionKeys -> Inventory!Row] /\ turns \in [Native -> 0..MaxTurns] /\ ids \in Nat
  /\ conn \in {"down", "asked", "subscribed", "up", "deaf"} /\ event \in BOOLEAN
  /\ disposed \in BOOLEAN
TrackerTypes ==
  loop \in [SessionKeys -> 0..MaxIds] /\ identities \in [SessionKeys -> 0..MaxIds]
FileTypes ==
  loaded \in {"no", "yes", "failed"} /\ mem \in Checkpoints /\ disk \in Checkpoints
SenderTypes == queue \in Seq(Points) /\ Len(queue) <= MaxQueue
PassTypes ==
  /\ rec \in PassRecord /\ seen \in Listed /\ dirty \in BOOLEAN /\ failed \in BOOLEAN
  /\ Looking => rec.rows \in [SessionKeys -> Inventory!Row]
  /\ rec.step = "told" => rec.key \in SessionKeys
CallTypes == chain \in Seq(Call) /\ scheduled \subseteq Native
InventoryTypes ==
  GatewayTypes /\ TrackerTypes /\ FileTypes /\ SenderTypes /\ PassTypes /\ CallTypes

\* A pass has told what it is through with; its list is the gateway's, or another is due.
Covering == Looking /\ ~disposed => \A k \in SessionKeys \ rec.left : seen[k] = rec.rows[k]
Current ==
  conn = "up" /\ ~disposed /\ ~event =>
    /\ rec.step = "idle" /\ ~failed => seen = row
    /\ Looking /\ ~dirty => rec.rows = row

\* The call that runs is the first, at a step of S.
At(S) == chain # <<>> /\ chain[1].step \in S
\* Memory and file agree from the first load on, and only the first call has begun.
OnFile ==
  /\ loaded = "yes" => mem = disk
  /\ rec.step \notin {"idle", "load"} => loaded = "yes"
  /\ \A n \in 1..Len(chain) : chain[n].step # "load" => n = 1 /\ loaded = "yes"

Done == settled \cup outran
Point(i) == disk[i].point
\* Every turn up to a recorded point is settled or outran its window.
Kept == \A i \in Native : \A t \in 1..Point(i).turn : [id |-> Point(i).id, turn |-> t] \in Done
\* A session's turns before the one that the call is at are done with; the one it sent
\* is on its way.
BeforeDone(c, done) == \A t \in 1..(c.next - 1) : [id |-> c.of, turn |-> t] \in done
Sent(c) == [id |-> c.of, turn |-> c.next]
OnItsWay(c, gone, q) == Sent(c) \in gone \/ \E m \in 1..Len(q) : m <= c.ahead /\ q[m] = Sent(c)
CallKept ==
  /\ At(Answered) => BeforeDone(chain[1], Done)
  /\ At({"sent"}) => OnItsWay(chain[1], settled, queue)

\* Sessions are numbered as they come; a key's are its own.
Numbered ==
  /\ \A k \in SessionKeys : row[k].id <= ids /\ identities[k] <= ids /\ rec.rows[k].id <= ids
  /\ \A k, l \in SessionKeys : k # l =>
       row[k].id # row[l].id /\ identities[k] # row[l].id /\ rec.rows[k].id # row[l].id
  /\ \A i \in Native : Point(i).id <= ids /\ (Point(i).id = i => Point(i).turn <= turns[i])
  /\ \A i \in Native : i > ids => Point(i).id = 0
\* The cursor of the session that holds a key is of its own turns.
OwnAt(k) == Point(row[k].id).id = 0 \/ Point(row[k].id).id = row[k].id
Owned == \A k \in SessionKeys : OwnAt(k)
\* A call that began with the session that holds its key read the turns of that one.
NumberedCall(c) ==
  /\ c.id <= ids /\ \A k \in SessionKeys \ {c.key} : c.id # row[k].id
  /\ c.step \in Answered => /\ c.of <= ids /\ c.last <= turns[c.of]
                            /\ c.id = row[c.key].id => c.of = c.id
  /\ c.step = "sent" => c.next <= c.last
CallNumbered == At({"read"} \cup Answered) => NumberedCall(chain[1])
\* A call is ahead of the record of the session that it knows and whose turns it read.
AheadOf(c, file) ==
  LET p == file[c.of].point IN
  c.id = c.of /\ p.id = c.of => IF c.step = "compare" THEN p.turn <= c.last ELSE p.turn < c.next
Ahead == At(Answered) => AheadOf(chain[1], disk)

-----------------------------------------------------------------------------
LEMMA Sizes == \A S : Inventory!Cardinality(S) = Cardinality(S)
  BY DEF Cardinality, Inventory!Cardinality

LEMMA PassStarts ==
  ASSUME NEW step \in {"load", "list"}
  PROVE  /\ Inventory!NoPass \in PassRecord /\ Inventory!NoPass.step = "idle"
         /\ [Inventory!NoPass EXCEPT !.step = step] \in PassRecord
         /\ [Inventory!NoPass EXCEPT !.step = step].step = step
<1> DEFINE rows == [k \in SessionKeys |-> Inventory!Unseen]
<1>1. rows \in Listed  BY InventoryAssumption DEF Listed, Inventory!Unseen
<1> HIDE DEF rows
<1>2. /\ Inventory!NoPass = [step |-> "idle", rows |-> rows, left |-> {}, key |-> "-",
                             ahead |-> 0, backfill |-> {}]
  BY DEF Inventory!NoPass, rows
<1> QED BY <1>1, <1>2 DEF PassRecord

LEMMA Blank ==
  /\ Inventory!Fresh \in [point : Points, archived : BOOLEAN]
  /\ [i \in Inventory!Ids |-> Inventory!Fresh] \in Checkpoints
  /\ Inventory!Note \in Points /\ Native = Inventory!Ids
  /\ [k \in SessionKeys |-> Inventory!Unseen] \in Listed
  /\ [k \in SessionKeys |-> 0] \in [SessionKeys -> 0..MaxIds]
  BY InventoryAssumption DEF Inventory!Fresh, Inventory!NoPoint, Checkpoints, Points, Native,
     Inventory!Ids, Inventory!Note, Listed, Inventory!Unseen

LEMMA InitTypes ==
  ASSUME Inventory!Init
  PROVE  InventoryTypes
<1>1. Cardinality(SessionKeys) \in Nat  BY InventoryAssumption, FS_CardinalityType
<1>2. row \in [SessionKeys -> Inventory!Row]
  BY DEF Inventory!Init, Inventory!Row
<1>3. ids \in Nat  BY <1>1, Sizes DEF Inventory!Init
<1>t. turns \in [Native -> 0..MaxTurns]
  BY InventoryAssumption DEF Inventory!Init, Native
<1>4. GatewayTypes  BY <1>2, <1>3, <1>t DEF Inventory!Init, GatewayTypes
<1>5. TrackerTypes  BY Blank DEF Inventory!Init, TrackerTypes
<1>6. FileTypes  BY Blank DEF Inventory!Init, FileTypes
<1>7. SenderTypes  BY InventoryAssumption DEF Inventory!Init, SenderTypes
<1>8. PassTypes  BY PassStarts, Blank DEF Inventory!Init, PassTypes, Looking
<1>9. CallTypes  BY DEF Inventory!Init, CallTypes
<1> QED BY <1>4, <1>5, <1>6, <1>7, <1>8, <1>9 DEF InventoryTypes

-----------------------------------------------------------------------------
(* The sender. *)

\* What is published goes to the end of the queue or is settled at once.
LEMMA Publishing ==
  ASSUME InventoryTypes, NEW items \in Seq(Points), Inventory!Publishes(items)
  PROVE  /\ queue' \in Seq(Points) /\ Len(queue') <= MaxQueue /\ Len(queue) <= Len(queue')
         /\ \A m \in 1..Len(queue) : queue'[m] = queue[m]
         /\ settled \subseteq settled'
         /\ \A n \in 1..Len(items) : items[n] # Inventory!Note =>
              items[n] \in settled' \/ \E m \in 1..Len(queue') : queue'[m] = items[n]
<1> DEFINE fits == Len(items) <= MaxQueue - Len(queue)
           room == IF fits THEN Len(items) ELSE MaxQueue - Len(queue)
           front == SubSeq(items, 1, room)
           rest == SubSeq(items, room + 1, Len(items))
<1>1. queue \in Seq(Points) /\ Len(queue) <= MaxQueue /\ Len(queue) \in Nat /\ Len(items) \in Nat
  BY LenProperties DEF InventoryTypes, SenderTypes
<1>2. room \in 0..Len(items) /\ Len(queue) + room <= MaxQueue  BY <1>1, InventoryAssumption
<1>3. queue' = queue \o front /\ settled' = settled \cup (Inventory!ToSet(rest) \ {Inventory!Note})
  BY DEF Inventory!Publishes
<1> HIDE DEF room
<1>4. /\ front \in Seq(Points) /\ Len(front) = room
      /\ \A n \in 1..room : front[n] = items[n]
  <2>1. \A n \in 1..room : items[n] \in Points  BY <1>1, <1>2, ElementOfSeq
  <2> QED BY <2>1, <1>2, SubSeqProperties
<1>5. /\ Len(rest) = Len(items) - room /\ rest \in Seq(Points)
      /\ \A n \in 1..(Len(items) - room) : rest[n] = items[room + n]
  <2>1. \A n \in (room + 1)..Len(items) : items[n] \in Points  BY <1>1, <1>2, ElementOfSeq
  <2>2. rest \in Seq(Points) /\ Len(rest) = IF room + 1 <= Len(items) THEN Len(items) - (room + 1) + 1 ELSE 0
    BY <2>1, <1>1, <1>2, SubSeqProperties
  <2>3. \A n \in 1..(Len(items) - (room + 1) + 1) : rest[n] = items[room + 1 + n - 1]
    BY <2>1, <1>1, <1>2, SubSeqProperties
  <2> QED BY <2>2, <2>3, <1>1, <1>2
<1>6. /\ queue' \in Seq(Points) /\ Len(queue') = Len(queue) + room
      /\ \A m \in 1..(Len(queue) + room) : queue'[m] = IF m <= Len(queue) THEN queue[m] ELSE front[m - Len(queue)]
  BY <1>1, <1>3, <1>4, ConcatProperties
<1>7. \A n \in 1..Len(items) : items[n] # Inventory!Note =>
              items[n] \in settled' \/ \E m \in 1..Len(queue') : queue'[m] = items[n]
  <2> SUFFICES ASSUME NEW n \in 1..Len(items), items[n] # Inventory!Note
               PROVE  items[n] \in settled' \/ \E m \in 1..Len(queue') : queue'[m] = items[n]
    OBVIOUS
  <2>1. CASE n <= room
    <3>1. Len(queue) + n \in 1..Len(queue')  BY <2>1, <1>1, <1>2, <1>6
    <3> DEFINE m == Len(queue) + n
    <3>2. m \in 1..(Len(queue) + room) /\ ~(m <= Len(queue)) /\ m - Len(queue) = n /\ n \in 1..room
      BY <2>1, <1>1, <1>2
    <3> HIDE DEF m
    <3>3. queue'[m] = front[n]  BY <3>2, <1>6
    <3>4. queue'[m] = items[n]  BY <3>2, <3>3, <1>4
    <3> QED BY <3>1, <3>4 DEF m
  <2>2. CASE n > room
    <3>0. n - room \in 1..(Len(items) - room) /\ room + (n - room) = n  BY <2>2, <1>1, <1>2
    <3>1. n - room \in 1..(Len(items) - room) /\ rest[n - room] = items[n]  BY <3>0, <1>5
    <3>2. n - room \in DOMAIN rest  BY <3>1, <1>5, LenProperties
    <3>3. items[n] \in Inventory!ToSet(rest)  BY <3>1, <3>2 DEF Inventory!ToSet
    <3> QED BY <3>3, <1>3
  <2> QED BY <2>1, <2>2, <1>1, <1>2
<1>8. \A m \in 1..Len(queue) : queue'[m] = queue[m]  BY <1>1, <1>2, <1>6
<1>9. Len(queue') <= MaxQueue /\ Len(queue) <= Len(queue')  BY <1>1, <1>2, <1>6, InventoryAssumption
<1> QED BY <1>3, <1>6, <1>7, <1>8, <1>9

LEMMA Nearing == \A n \in Nat : Inventory!Nearer(n) \in Nat /\ (n > 0 => Inventory!Nearer(n) = n - 1)
  BY DEF Inventory!Nearer

\* The head leaves the queue, and everyone who waits is one nearer.
LEMMA Sending ==
  ASSUME InventoryTypes, Inventory!Sends
  PROVE  /\ queue' \in Seq(Points) /\ Len(queue') = Len(queue) - 1 /\ Len(queue) > 0
         /\ \A m \in 1..Len(queue') : queue'[m] = queue[m + 1]
         /\ settled \subseteq settled' /\ (queue[1] # Inventory!Note => queue[1] \in settled')
         /\ rec' = [rec EXCEPT !.ahead = Inventory!Nearer(rec.ahead)]
         /\ chain' \in Seq(Call) /\ Len(chain') = Len(chain)
         /\ \A n \in 1..Len(chain) : chain'[n] = [chain[n] EXCEPT !.ahead = Inventory!Nearer(chain[n].ahead)]
         /\ UNCHANGED <<row, turns, ids, conn, event, loop, identities, loaded, mem, disk, dirty, seen, failed,
                        scheduled, disposed, outran>>
<1>1. queue \in Seq(Points) /\ queue # <<>> /\ chain \in Seq(Call)
  BY DEF InventoryTypes, SenderTypes, CallTypes, Inventory!Sends
<1>2. queue' = Tail(queue) /\ settled' = settled \cup ({Head(queue)} \ {Inventory!Note})
  BY DEF Inventory!Sends
<1>3. chain' = [n \in DOMAIN chain |-> [chain[n] EXCEPT !.ahead = Inventory!Nearer(@)]]
  BY DEF Inventory!Sends
<1>4. DOMAIN chain = 1..Len(chain) /\ Len(chain) \in Nat  BY <1>1, LenProperties
<1>5. \A n \in 1..Len(chain) : chain'[n] = [chain[n] EXCEPT !.ahead = Inventory!Nearer(chain[n].ahead)]
  BY <1>3, <1>4
<1>6. \A n \in 1..Len(chain) : chain'[n] \in Call
  <2> TAKE n \in 1..Len(chain)
  <2>1. chain[n] \in Call  BY <1>1, ElementOfSeq
  <2>2. Inventory!Nearer(chain[n].ahead) \in Nat  BY <2>1, Nearing DEF Call, CallRecord
  <2> QED BY <2>1, <2>2, <1>5 DEF Call, CallRecord
<1>7. chain' \in Seq(Call) /\ Len(chain') = Len(chain)  BY <1>3, <1>4, <1>6
<1>8. queue' \in Seq(Points) /\ Len(queue') = Len(queue) - 1 /\ \A m \in 1..Len(queue') : queue'[m] = queue[m + 1]
  BY <1>1, <1>2, HeadTailProperties
<1>9. Len(queue) > 0 /\ Head(queue) = queue[1]  BY <1>1, EmptySeq
<1>10. rec' = [rec EXCEPT !.ahead = Inventory!Nearer(rec.ahead)]  BY DEF Inventory!Sends
<1>11. UNCHANGED <<row, turns, ids, conn, event, loop, identities, loaded, mem, disk, dirty, seen, failed,
                   scheduled, disposed, outran>>
  BY DEF Inventory!Sends, Inventory!gateway, Inventory!link, Inventory!tracker, Inventory!checkpoints
<1> QED BY <1>2, <1>5, <1>7, <1>8, <1>9, <1>10, <1>11

-----------------------------------------------------------------------------
(* The calls of history. *)

LEMMA FirstRuns ==
  ASSUME InventoryTypes, NEW n, NEW step, Inventory!Running(n, step)
  PROVE  /\ n = 1 /\ chain \in Seq(Call) /\ chain # <<>> /\ Len(chain) \in Nat /\ Len(chain) >= 1
         /\ 1 \in DOMAIN chain /\ chain[1] \in Call /\ chain[1].step = step
<1>1. chain \in Seq(Call)  BY DEF InventoryTypes, CallTypes
<1>2. n = 1 /\ n \in DOMAIN chain /\ chain[n].step = step  BY DEF Inventory!Running, Inventory!MyTurn
<1>3. Len(chain) \in Nat /\ DOMAIN chain = 1..Len(chain)  BY <1>1, LenProperties
<1>4. Len(chain) >= 1 /\ chain[1] \in Call /\ chain # <<>>  BY <1>1, <1>2, <1>3, ElementOfSeq
<1> QED BY <1>1, <1>2, <1>3, <1>4

\* A call that goes on is in its place, ...
LEMMA Going ==
  ASSUME InventoryTypes, chain # <<>>, NEW c \in Call, Inventory!Goes(1, c)
  PROVE  /\ chain' \in Seq(Call) /\ Len(chain') = Len(chain) /\ chain'[1] = c /\ scheduled' = scheduled
         /\ \A n \in 2..Len(chain) : chain'[n] = chain[n]
<1>1. chain \in Seq(Call) /\ Len(chain) \in Nat /\ Len(chain) >= 1
  BY EmptySeq, LenProperties DEF InventoryTypes, CallTypes
<1>2. chain' = [chain EXCEPT ![1] = c] /\ scheduled' = scheduled  BY DEF Inventory!Goes
<1>3. 1 \in 1..Len(chain)  BY <1>1
<1>4. /\ chain' \in Seq(Call) /\ Len(chain') = Len(chain)
      /\ \A j \in 1..Len(chain) : chain'[j] = IF j = 1 THEN c ELSE chain[j]
  BY <1>1, <1>2, <1>3, ExceptSeq
<1> QED BY <1>1, <1>2, <1>3, <1>4

\* ... and one that ends makes room for the next.
LEMMA Ending ==
  ASSUME InventoryTypes, chain # <<>>, Inventory!Ends(1)
  PROVE  /\ chain' \in Seq(Call) /\ Len(chain') = Len(chain) - 1 /\ scheduled' \subseteq scheduled
         /\ \A n \in 1..Len(chain') : chain'[n] = chain[n + 1]
<1>1. chain \in Seq(Call) /\ Len(chain) \in Nat /\ Len(chain) >= 1
  BY EmptySeq, LenProperties DEF InventoryTypes, CallTypes
<1>2. chain' = SubSeq(chain, 1, 1 - 1) \o SubSeq(chain, 1 + 1, Len(chain))
  BY DEF Inventory!Ends, Inventory!RemoveAt
<1>3. SubSeq(chain, 1, 1 - 1) = <<>>  BY SubSeqEmpty
<1>4. SubSeq(chain, 1 + 1, Len(chain)) = Tail(chain)  BY <1>1, TailIsSubSeq
<1>5. Tail(chain) \in Seq(Call) /\ Len(Tail(chain)) = Len(chain) - 1
      /\ \A n \in 1..Len(Tail(chain)) : Tail(chain)[n] = chain[n + 1]
  BY <1>1, HeadTailProperties
<1>6. <<>> \o Tail(chain) = Tail(chain)  BY <1>5, ConcatEmptySeq
<1>7. scheduled' \subseteq scheduled  BY DEF Inventory!Ends
<1> QED BY <1>2, <1>3, <1>4, <1>5, <1>6, <1>7

LEMMA Due ==
  ASSUME NEW S \in SUBSET Native
  PROVE  Cardinality(S) \in Nat /\ Inventory!SetToSeq(S) \in [1..Cardinality(S) -> S]
<1>1. IsFiniteSet(Native)  BY InventoryAssumption, FS_Interval DEF Native, Inventory!Ids
<1>2. IsFiniteSet(S)  BY <1>1, FS_Subset
<1>3. Cardinality(S) \in Nat /\ ExistsBijection(1..Cardinality(S), S)  BY <1>2, FS_CardinalityType
<1>4. PICK f \in Bijection(1..Cardinality(S), S) : TRUE  BY <1>3 DEF ExistsBijection
<1>5. f \in [1..Cardinality(S) -> S] /\ \A a, b \in DOMAIN f : f[a] = f[b] => a = b
  BY <1>4 DEF Bijection, Injection, IsInjective
<1>6. f \in [1..Inventory!Cardinality(S) -> S] /\ Inventory!IsInjective(f)
  BY <1>5, Sizes DEF Inventory!IsInjective
<1>7. Inventory!SetToSeq(S) \in [1..Inventory!Cardinality(S) -> S]
  BY <1>6 DEF Inventory!SetToSeq
<1> QED BY <1>3, <1>7, Sizes

LEMMA SequenceOf ==
  ASSUME NEW S, NEW n \in Nat, NEW f \in [1..n -> S]
  PROVE  f \in Seq(S) /\ Len(f) = n
  OBVIOUS

LEMMA NewCall ==
  ASSUME NEW l \in Native, NEW auto \in BOOLEAN
  PROVE  Inventory!CallOf(l, auto) \in Call /\ Inventory!CallOf(l, auto).step = "load"
  BY InventoryAssumption DEF Inventory!CallOf, Call, CallRecord, Answered

\* The calls that a pass starts are at the end, and have not begun.
LEMMA PassEnding ==
  ASSUME InventoryTypes, Inventory!PassEnds
  PROVE  /\ chain' \in Seq(Call) /\ Len(chain') >= Len(chain) /\ Len(chain) \in Nat
         /\ \A n \in 1..Len(chain) : chain'[n] = chain[n]
         /\ \A n \in (Len(chain) + 1)..Len(chain') : chain'[n].step = "load"
<1> DEFINE due == Inventory!SetToSeq(rec.backfill)
           new == [n \in DOMAIN due |-> Inventory!CallOf(due[n], TRUE)]
           size == Cardinality(rec.backfill)
<1>1. chain \in Seq(Call) /\ Len(chain) \in Nat /\ rec.backfill \in SUBSET Native
  BY LenProperties DEF InventoryTypes, CallTypes, PassTypes, PassRecord
<1>2. size \in Nat /\ due \in [1..size -> rec.backfill]  BY <1>1, Due
<1>3. chain' = chain \o new  BY DEF Inventory!PassEnds
<1> HIDE DEF due, size
<1>4. DOMAIN due = 1..size /\ \A n \in 1..size : due[n] \in Native  BY <1>1, <1>2
<1>5. \A n \in 1..size : Inventory!CallOf(due[n], TRUE) \in Call /\ Inventory!CallOf(due[n], TRUE).step = "load"
  BY <1>4, NewCall
<1>6. new \in [1..size -> Call] /\ \A n \in 1..size : new[n].step = "load"  BY <1>4, <1>5
<1> HIDE DEF new
<1>7. new \in Seq(Call) /\ Len(new) = size  BY <1>2, <1>6, SequenceOf
<1>8. /\ chain' \in Seq(Call) /\ Len(chain') = Len(chain) + size
      /\ \A n \in 1..(Len(chain) + size) : chain'[n] = IF n <= Len(chain) THEN chain[n] ELSE new[n - Len(chain)]
  BY <1>1, <1>3, <1>7, ConcatProperties
<1>9. \A n \in 1..Len(chain) : chain'[n] = chain[n]  BY <1>1, <1>2, <1>8
<1>10. \A n \in (Len(chain) + 1)..Len(chain') : chain'[n].step = "load"
  <2> TAKE n \in (Len(chain) + 1)..Len(chain')
  <2>1. n - Len(chain) \in 1..size  BY <1>1, <1>2, <1>8
  <2> QED BY <2>1, <1>1, <1>2, <1>6, <1>8
<1> QED BY <1>1, <1>2, <1>8, <1>9, <1>10

-----------------------------------------------------------------------------
(* The types. *)

LEMMA LoadsTypes ==
  ASSUME InventoryTypes, Inventory!Loads
  PROVE  /\ FileTypes' /\ disk' = disk /\ loaded' # "no"
         /\ loaded = "yes" => loaded' = "yes"
         /\ loaded' = "yes" => (loaded = "yes" /\ mem' = mem) \/ mem' = disk
<1>1. loaded \in {"no", "yes", "failed"} /\ mem \in Checkpoints /\ disk \in Checkpoints
  BY DEF InventoryTypes, FileTypes
<1>2. \/ loaded # "no" /\ UNCHANGED <<loaded, mem, disk>>
      \/ loaded = "no" /\ loaded' = "yes" /\ mem' = disk /\ disk' = disk
      \/ loaded = "no" /\ loaded' = "failed" /\ mem' = mem /\ disk' = disk
  BY DEF Inventory!Loads, Inventory!checkpoints
<1>3. loaded' \in {"no", "yes", "failed"} /\ mem' \in Checkpoints /\ disk' \in Checkpoints
  BY <1>1, <1>2
<1>4. FileTypes'  BY <1>3 DEF FileTypes
<1>5. loaded' # "no" /\ disk' = disk  BY <1>1, <1>2
<1> QED BY <1>1, <1>2, <1>4, <1>5

LEMMA SavesTypes ==
  ASSUME InventoryTypes, NEW i \in Native, NEW p \in [point : Points, archived : BOOLEAN],
         Inventory!Saves(i, p)
  PROVE  FileTypes' /\ mem' = disk' /\ loaded' = loaded /\ mem'[i] = p
         /\ \A j \in Native \ {i} : mem'[j] = mem[j]
  BY DEF InventoryTypes, FileTypes, Inventory!Saves, Checkpoints

LEMMA HistoryTypes ==
  ASSUME InventoryTypes, NEW n \in 1..MaxCalls, Inventory!History(n)
  PROVE  InventoryTypes'
<1> DEFINE Rest == GatewayTypes' /\ TrackerTypes' /\ PassTypes'
<1> USE DEF Inventory!gateway, Inventory!link, Inventory!tracker, Inventory!checkpoints,
            Inventory!pass, Inventory!calls, Inventory!sender
<1>0. Rest
  <2>1. UNCHANGED <<row, turns, ids, conn, event, disposed, loop, identities, rec, seen, dirty, failed>>
    BY DEF Inventory!History, Inventory!Resolves, Inventory!Identifies, Inventory!Reads,
       Inventory!RequestFails, Inventory!Compares, Inventory!Walks, Inventory!Records
  <2> QED BY <2>1 DEF InventoryTypes, GatewayTypes, TrackerTypes, PassTypes, Looking
<1>e. ASSUME chain # <<>>, Inventory!Ends(1)  PROVE CallTypes'
  BY <1>e, Ending DEF InventoryTypes, CallTypes
<1>g. ASSUME chain # <<>>, NEW c \in Call, Inventory!Goes(1, c)  PROVE CallTypes'
  BY <1>g, Going DEF InventoryTypes, CallTypes
<1>f. mem = mem' /\ disk' = disk /\ loaded' = loaded => FileTypes'  BY DEF InventoryTypes, FileTypes
<1>s. queue' = queue => SenderTypes'  BY DEF InventoryTypes, SenderTypes
<1>1. CASE Inventory!Resolves(n)
  <2>1. n = 1 /\ chain # <<>> /\ chain[1] \in Call  BY <1>1, FirstRuns DEF Inventory!Resolves
  <2>2. FileTypes' /\ SenderTypes'  BY <1>1, <1>s, LoadsTypes DEF Inventory!Resolves
  <2>3. CallTypes'
    <3>1. CASE Inventory!Ends(1)  BY <2>1, <3>1, <1>e
    <3>2. CASE ~Inventory!Ends(1)
      <4> DEFINE k == Inventory!KeyHolding(chain[1].loop)
                 c == [chain[1] EXCEPT !.step = IF identities[k] = 0 THEN "list" ELSE "read",
                                       !.key = k, !.id = identities[k]]
      <4>1. Inventory!Goes(1, c) /\ Inventory!IsOpen(chain[1].loop)
        BY <1>1, <2>1, <3>2 DEF Inventory!Resolves
      <4>2. k \in SessionKeys  BY <4>1 DEF Inventory!IsOpen, Inventory!KeyHolding
      <4>3. identities[k] \in 0..MaxIds  BY <4>2 DEF InventoryTypes, TrackerTypes
      <4>4. identities[k] # 0 => identities[k] \in Native
        BY <4>3, InventoryAssumption DEF Native, Inventory!Ids
      <4>5. c \in Call  BY <2>1, <4>2, <4>3, <4>4 DEF Call, CallRecord, Answered
      <4> QED BY <2>1, <4>1, <4>5, <1>g
    <3> QED BY <3>1, <3>2
  <2> QED BY <2>2, <2>3, <1>0 DEF InventoryTypes
<1>r. ASSUME NEW k \in SessionKeys  PROVE row[k].id \in Native /\ row[k].id \in 0..MaxIds
  BY InventoryAssumption DEF InventoryTypes, GatewayTypes, Inventory!Row, Native, Inventory!Ids
<1>2. CASE Inventory!Identifies(n)
  <2>1. n = 1 /\ chain # <<>> /\ chain[1] \in Call /\ chain[1].step = "list"
    BY <1>2, FirstRuns DEF Inventory!Identifies
  <2> DEFINE c == [chain[1] EXCEPT !.step = "read", !.id = row[chain[1].key].id]
  <2>2. chain[1].key \in SessionKeys  BY <2>1 DEF Call
  <2>3. c \in Call  BY <2>1, <2>2, <1>r DEF Call, CallRecord, Answered
  <2>4. Inventory!Goes(1, c)  BY <1>2, <2>1 DEF Inventory!Identifies
  <2>5. CallTypes'  BY <2>1, <2>3, <2>4, <1>g
  <2> QED BY <1>2, <2>5, <1>0, <1>f, <1>s DEF InventoryTypes, Inventory!Identifies
<1>3. CASE Inventory!Reads(n)
  <2>1. n = 1 /\ chain # <<>> /\ chain[1] \in Call /\ chain[1].step = "read"
    BY <1>3, FirstRuns DEF Inventory!Reads
  <2> DEFINE i == row[chain[1].key].id
             c == [chain[1] EXCEPT !.step = "compare", !.of = i, !.last = turns[i],
                                   !.next = Inventory!Oldest(i)]
  <2>2. chain[1].key \in SessionKeys  BY <2>1 DEF Call
  <2>3. i \in Native /\ i \in 0..MaxIds  BY <2>2, <1>r
  <2>4. turns[i] \in Nat  BY <2>3, InventoryAssumption DEF InventoryTypes, GatewayTypes
  <2>5. Inventory!Oldest(i) \in Nat /\ Inventory!Oldest(i) >= 1
    BY <2>4, InventoryAssumption DEF Inventory!Oldest
  <2>6. Inventory!Goes(1, c)  BY <1>3, <2>1 DEF Inventory!Reads
  <2> HIDE DEF i
  <2>7. c \in Call  BY <2>1, <2>3, <2>4, <2>5 DEF Call, CallRecord, Answered
  <2>8. CallTypes'  BY <2>1, <2>6, <2>7, <1>g
  <2> QED BY <1>3, <2>8, <1>0, <1>f, <1>s DEF InventoryTypes, Inventory!Reads
<1>4. CASE Inventory!Compares(n)
  <2>1. n = 1 /\ chain # <<>> /\ chain[1] \in Call /\ chain[1].step = "compare"
    BY <1>4, FirstRuns DEF Inventory!Compares
  <2> DEFINE p == mem[chain[1].id].point
             next == IF p.id = chain[1].of /\ p.turn \in chain[1].next..chain[1].last
                     THEN p.turn + 1 ELSE chain[1].next
             c == [chain[1] EXCEPT !.step = "walk", !.next = next]
  <2>2. chain[1].id \in Native  BY <2>1 DEF Call
  <2>3. p.turn \in Nat  BY <2>2 DEF InventoryTypes, FileTypes, Checkpoints, Points
  <2>4. chain[1].next \in Nat /\ chain[1].next >= 1  BY <2>1 DEF Call, CallRecord, Answered
  <2>5. next \in Nat /\ next >= 1  BY <2>3, <2>4
  <2>6. Inventory!Goes(1, c)  BY <1>4, <2>1 DEF Inventory!Compares
  <2> HIDE DEF next
  <2>7. c \in Call  BY <2>1, <2>5 DEF Call, CallRecord, Answered
  <2>8. CallTypes'  BY <2>1, <2>6, <2>7, <1>g
  <2> QED BY <1>4, <2>8, <1>0, <1>f, <1>s DEF InventoryTypes, Inventory!Compares
<1>5. CASE Inventory!RequestFails(n)
  <2>1. n = 1 /\ chain # <<>>  BY <1>5, FirstRuns DEF Inventory!RequestFails
  <2>2. CallTypes'  BY <1>5, <2>1, <1>e DEF Inventory!RequestFails
  <2> QED BY <1>5, <2>2, <1>0, <1>f, <1>s DEF InventoryTypes, Inventory!RequestFails
<1>6. CASE Inventory!Walks(n)
  <2>1. n = 1 /\ chain # <<>> /\ chain[1] \in Call /\ chain[1].step = "walk"
    BY <1>6, FirstRuns DEF Inventory!Walks
  <2>2. FileTypes'  BY <1>6, <1>f DEF Inventory!Walks
  <2>3. CASE Inventory!Ends(1) /\ UNCHANGED queue
    BY <2>1, <2>2, <2>3, <1>e, <1>0, <1>s DEF InventoryTypes
  <2>4. CASE ~(Inventory!Ends(1) /\ UNCHANGED queue)
    <3> DEFINE o == [id |-> chain[1].of, turn |-> chain[1].next]
               c == [chain[1] EXCEPT !.step = "sent", !.ahead = Len(queue')]
    <3>1. Inventory!Publishes(<<o>>) /\ Inventory!Goes(1, c)
      BY <1>6, <2>1, <2>4 DEF Inventory!Walks
    <3>2. o \in Points  BY <2>1 DEF Call, CallRecord, Points
    <3>3. <<o>> \in Seq(Points)  BY <3>2
    <3> HIDE DEF o
    <3>4. queue' \in Seq(Points) /\ Len(queue') <= MaxQueue  BY <3>1, <3>3, Publishing
    <3>5. Len(queue') \in Nat  BY <3>4, LenProperties
    <3>6. c \in Call  BY <2>1, <3>5 DEF Call, CallRecord, Answered
    <3>7. CallTypes'  BY <2>1, <3>1, <3>6, <1>g
    <3>8. SenderTypes'  BY <3>4 DEF SenderTypes
    <3> QED BY <2>2, <3>7, <3>8, <1>0 DEF InventoryTypes
  <2> QED BY <2>3, <2>4
<1>7. CASE Inventory!Records(n)
  <2>1. n = 1 /\ chain # <<>> /\ chain[1] \in Call /\ chain[1].step = "sent"
    BY <1>7, FirstRuns DEF Inventory!Records
  <2>2. SenderTypes'  BY <1>7, <1>s DEF Inventory!Records
  <2>3. CASE Inventory!SaveFails /\ Inventory!Ends(1)
    <3>1. FileTypes'  BY <2>3, <1>f DEF Inventory!SaveFails
    <3> QED BY <2>1, <2>2, <2>3, <3>1, <1>0, <1>e DEF InventoryTypes
  <2>4. CASE ~(Inventory!SaveFails /\ Inventory!Ends(1))
    <3> DEFINE p == [id |-> chain[1].of, turn |-> chain[1].next]
               saved == [mem[chain[1].id] EXCEPT !.point = p]
               c == [chain[1] EXCEPT !.step = "walk", !.next = chain[1].next + 1, !.ahead = 0]
    <3>1. Inventory!Saves(chain[1].id, saved) /\ Inventory!Goes(1, c)
      BY <1>7, <2>1, <2>4 DEF Inventory!Records
    <3>2. p \in Points /\ chain[1].id \in Native  BY <2>1 DEF Call, CallRecord, Points, Answered
    <3>3. mem[chain[1].id] \in [point : Points, archived : BOOLEAN]
      BY <3>2 DEF InventoryTypes, FileTypes, Checkpoints
    <3> HIDE DEF p
    <3>4. saved \in [point : Points, archived : BOOLEAN]  BY <3>2, <3>3
    <3> HIDE DEF saved
    <3>5. FileTypes'  BY <3>1, <3>2, <3>4, SavesTypes
    <3>6. c \in Call
      <4>1. chain[1].next + 1 \in Nat /\ chain[1].next + 1 >= 1 /\ 0 \in Nat  BY <2>1 DEF Call, CallRecord
      <4> DEFINE next == chain[1].next + 1
                 d == [chain[1] EXCEPT !.step = "walk", !.next = next, !.ahead = 0]
      <4> HIDE DEF next
      <4>2. d \in Call  BY <2>1, <4>1 DEF Call, CallRecord, Answered, next
      <4> QED BY <4>2 DEF next
    <3>7. CallTypes'  BY <2>1, <3>1, <3>6, <1>g
    <3> QED BY <2>2, <3>5, <3>7, <1>0 DEF InventoryTypes
  <2> QED BY <2>3, <2>4
<1> QED BY <1>1, <1>2, <1>3, <1>4, <1>5, <1>6, <1>7 DEF Inventory!History

\* The kernel's side, the sender's, and the process.
LEMMA RefreshesTypes ==
  ASSUME InventoryTypes, Inventory!Refreshes
  PROVE  /\ PassTypes' /\ UNCHANGED <<seen, failed>>
         /\ disposed => UNCHANGED <<rec, dirty>>
         /\ ~disposed /\ rec.step # "idle" => dirty' = TRUE /\ rec' = rec
         /\ ~disposed /\ rec.step = "idle" => rec'.step = "load" /\ rec' = [Inventory!NoPass EXCEPT !.step = "load"]
<1>1. PassTypes  BY DEF InventoryTypes
<1>2. CASE disposed
  <2>1. UNCHANGED <<dirty, rec, seen, failed>>  BY <1>2 DEF Inventory!Refreshes, Inventory!pass
  <2> QED BY <1>1, <1>2, <2>1 DEF PassTypes, Looking
<1>3. CASE ~disposed /\ rec.step # "idle"
  <2>1. dirty' = TRUE /\ UNCHANGED <<rec, seen, failed>>
    BY <1>3 DEF Inventory!Refreshes, Inventory!MarksDirty
  <2> QED BY <1>1, <1>3, <2>1 DEF PassTypes, Looking
<1>4. CASE ~disposed /\ rec.step = "idle"
  <2>1. dirty' = FALSE /\ rec' = [Inventory!NoPass EXCEPT !.step = "load"] /\ UNCHANGED <<seen, failed>>
    BY <1>4 DEF Inventory!Refreshes
  <2>2. rec' \in PassRecord /\ rec'.step = "load"  BY <2>1, PassStarts
  <2> QED BY <1>1, <1>4, <2>1, <2>2 DEF PassTypes, Looking
<1> QED BY <1>2, <1>3, <1>4

LEMMA ClientTypes ==
  ASSUME InventoryTypes, Inventory!Client \/ Inventory!RefreshAsked \/ Inventory!Disconnects
  PROVE  InventoryTypes'
<1> USE DEF Inventory!gateway, Inventory!link, Inventory!tracker, Inventory!checkpoints,
            Inventory!calls, Inventory!sender
<1>1. UNCHANGED <<row, turns, ids, loop, identities, loaded, mem, disk, queue, chain, scheduled, disposed>>
  BY DEF Inventory!Client, Inventory!Event, Inventory!Hello, Inventory!Subscribes, Inventory!Subscribed,
     Inventory!RefreshAsked, Inventory!Disconnects
<1>2. conn' \in {"down", "asked", "subscribed", "up", "deaf"} /\ event' \in BOOLEAN
  BY DEF Inventory!Client, Inventory!Event, Inventory!Hello, Inventory!Subscribes, Inventory!Subscribed,
     Inventory!RefreshAsked, Inventory!Disconnects, InventoryTypes, GatewayTypes
<1>3. Inventory!Refreshes \/ UNCHANGED <<rec, seen, dirty, failed>>
  BY DEF Inventory!Client, Inventory!Event, Inventory!Hello, Inventory!Subscribes, Inventory!Subscribed,
     Inventory!RefreshAsked, Inventory!Disconnects, Inventory!pass
<1>4. PassTypes'  BY <1>3, RefreshesTypes DEF InventoryTypes, PassTypes, Looking
<1> QED BY <1>1, <1>2, <1>4
  DEF InventoryTypes, GatewayTypes, TrackerTypes, FileTypes, SenderTypes, CallTypes

LEMMA RowsTypes ==
  ASSUME InventoryTypes, NEW k \in SessionKeys, Inventory!Reset(k) \/ Inventory!Archives(k) \/ Inventory!Turn(k)
  PROVE  InventoryTypes'
<1> USE DEF Inventory!gateway, Inventory!link, Inventory!tracker, Inventory!checkpoints,
            Inventory!calls, Inventory!sender, Inventory!pass
<1>1. UNCHANGED <<conn, loop, identities, loaded, mem, disk, queue, chain, scheduled, disposed, rec, seen, dirty, failed>>
  BY DEF Inventory!Reset, Inventory!Archives, Inventory!Changes, Inventory!Turn
<1>2. row[k] \in Inventory!Row /\ row[k].id \in Native  BY DEF InventoryTypes, GatewayTypes, Inventory!Row, Native
<1>3. row' \in [SessionKeys -> Inventory!Row] /\ ids' \in Nat
  <2>1. CASE Inventory!Reset(k)
    <3>1. ids + 1 \in Inventory!Ids /\ ids' = ids + 1
      BY <2>1, InventoryAssumption DEF Inventory!Reset, InventoryTypes, GatewayTypes, Inventory!Ids
    <3> QED BY <2>1, <3>1, InventoryAssumption
      DEF Inventory!Reset, Inventory!Changes, InventoryTypes, GatewayTypes, Inventory!Row
  <2>2. CASE Inventory!Archives(k)
    <3>1. [row[k] EXCEPT !.archived = ~row[k].archived] \in Inventory!Row  BY <1>2 DEF Inventory!Row
    <3> QED BY <2>2, <3>1 DEF Inventory!Archives, Inventory!Changes, InventoryTypes, GatewayTypes
  <2>3. CASE Inventory!Turn(k)  BY <2>3 DEF Inventory!Turn, InventoryTypes, GatewayTypes
  <2> QED BY <2>1, <2>2, <2>3
<1>4. turns' \in [Native -> 0..MaxTurns]
  BY <1>2, InventoryAssumption DEF Inventory!Reset, Inventory!Archives, Inventory!Changes, Inventory!Turn, InventoryTypes, GatewayTypes
<1>5. event' \in BOOLEAN
  BY DEF Inventory!Reset, Inventory!Archives, Inventory!Changes, Inventory!Turn, InventoryTypes, GatewayTypes
<1> QED BY <1>1, <1>3, <1>4, <1>5
  DEF InventoryTypes, GatewayTypes, TrackerTypes, FileTypes, SenderTypes, CallTypes, PassTypes, Looking

LEMMA NotesTypes ==
  <<>> \in Seq(Points) /\ <<Inventory!Note>> \in Seq(Points) /\ <<Inventory!Note, Inventory!Note>> \in Seq(Points)
  BY Blank

LEMMA HookTypes ==
  ASSUME InventoryTypes, NEW k \in SessionKeys, Inventory!HookStarts(k) \/ Inventory!HookEnds(k)
  PROVE  InventoryTypes'
<1> USE DEF Inventory!gateway, Inventory!link, Inventory!checkpoints, Inventory!calls, Inventory!pass
<1>1. UNCHANGED <<row, turns, ids, event, conn, identities, loaded, mem, disk, chain, scheduled, disposed,
                  rec, seen, dirty, failed>>
  BY DEF Inventory!HookStarts, Inventory!HookEnds
<1>2. row[k].id \in 0..MaxIds
  BY InventoryAssumption DEF InventoryTypes, GatewayTypes, Inventory!Row, Inventory!Ids
<1>3. loop' \in [SessionKeys -> 0..MaxIds]
  BY <1>2, InventoryAssumption DEF Inventory!HookStarts, Inventory!HookEnds, InventoryTypes, TrackerTypes
<1>4. SenderTypes'
  <2>1. PICK items \in Seq(Points) : Inventory!Publishes(items)
    BY NotesTypes DEF Inventory!HookStarts, Inventory!HookEnds
  <2> QED BY <2>1, Publishing DEF SenderTypes
<1> QED BY <1>1, <1>3, <1>4
  DEF InventoryTypes, GatewayTypes, TrackerTypes, FileTypes, SenderTypes, CallTypes, PassTypes, Looking

LEMMA SendsTypes ==
  ASSUME InventoryTypes, Inventory!Sends
  PROVE  InventoryTypes' /\ rec'.step = rec.step /\ rec'.rows = rec.rows /\ rec'.left = rec.left /\ rec'.key = rec.key
<1>1. rec' = [rec EXCEPT !.ahead = Inventory!Nearer(rec.ahead)] /\ rec \in PassRecord
  BY Sending DEF InventoryTypes, PassTypes
<1>2. rec' \in PassRecord /\ rec'.step = rec.step /\ rec'.rows = rec.rows /\ rec'.left = rec.left /\ rec'.key = rec.key
  BY <1>1, Nearing DEF PassRecord
<1>3. Len(queue') <= MaxQueue  BY Sending, InventoryAssumption, LenProperties DEF InventoryTypes, SenderTypes
<1>4. PassTypes'  BY <1>2, Sending DEF InventoryTypes, PassTypes, Looking
<1> QED BY <1>2, <1>3, <1>4, Sending
  DEF InventoryTypes, GatewayTypes, TrackerTypes, FileTypes, SenderTypes, CallTypes

LEMMA EndsTypes ==
  ASSUME InventoryTypes, Inventory!Dispose \/ Inventory!Crash
  PROVE  InventoryTypes'
<1> USE DEF Inventory!gateway, Inventory!tracker, Inventory!checkpoints, Inventory!sender, Inventory!pass
<1>1. CASE Inventory!Dispose
  <2>1. /\ UNCHANGED <<row, turns, ids, loop, loaded, mem, disk, queue, chain, rec, seen, dirty, failed>>
        /\ conn' = "down" /\ event' = FALSE /\ disposed' = TRUE /\ scheduled' = {}
        /\ identities' = [k \in SessionKeys |-> 0]
    BY <1>1 DEF Inventory!Dispose
  <2> QED BY <2>1, Blank
    DEF InventoryTypes, GatewayTypes, TrackerTypes, FileTypes, SenderTypes, CallTypes, PassTypes, Looking
<1>2. CASE Inventory!Crash
  <2>1. /\ UNCHANGED <<row, turns, ids, disk>> /\ conn' = "down" /\ event' = FALSE /\ disposed' = FALSE
        /\ loop' = [k \in SessionKeys |-> 0] /\ identities' = loop' /\ loaded' = "no"
        /\ mem' = [i \in Inventory!Ids |-> Inventory!Fresh] /\ queue' = <<>> /\ dirty' = FALSE
        /\ rec' = Inventory!NoPass /\ seen' = [k \in SessionKeys |-> Inventory!Unseen] /\ failed' = FALSE
        /\ chain' = <<>> /\ scheduled' = {}
    BY <1>2 DEF Inventory!Crash
  <2>2. PassTypes'  BY <2>1, Blank, PassStarts DEF PassTypes, Looking
  <2>3. SenderTypes'  BY <2>1, InventoryAssumption DEF SenderTypes
  <2>4. CallTypes'  BY <2>1 DEF CallTypes
  <2> QED BY <2>1, <2>2, <2>3, <2>4, Blank DEF InventoryTypes, GatewayTypes, TrackerTypes, FileTypes
<1> QED BY <1>1, <1>2

LEMMA AskedTypes ==
  ASSUME InventoryTypes, NEW l \in Native, Inventory!Asked(l)
  PROVE  /\ InventoryTypes' /\ Len(chain') = Len(chain) + 1 /\ chain' # <<>>
         /\ \A n \in 1..Len(chain) : chain'[n] = chain[n]
         /\ chain'[Len(chain) + 1].step = "load"
<1> USE DEF Inventory!gateway, Inventory!link, Inventory!tracker, Inventory!checkpoints, Inventory!sender,
            Inventory!pass
<1>1. chain \in Seq(Call) /\ Inventory!CallOf(l, FALSE) \in Call /\ Inventory!CallOf(l, FALSE).step = "load"
  BY NewCall DEF InventoryTypes, CallTypes
<1>2. chain' = Append(chain, Inventory!CallOf(l, FALSE)) /\ scheduled' = scheduled  BY DEF Inventory!Asked
<1>3. ASSUME NEW c \in Call
      PROVE  /\ Append(chain, c) \in Seq(Call) /\ Append(chain, c) # <<>> /\ Len(Append(chain, c)) = Len(chain) + 1
             /\ \A n \in 1..Len(chain) : Append(chain, c)[n] = chain[n]
             /\ Append(chain, c)[Len(chain) + 1] = c
  BY <1>1, <1>3, AppendProperties
<1>4. UNCHANGED <<row, turns, ids, event, conn, loop, identities, loaded, mem, disk, queue, disposed,
                  rec, seen, dirty, failed>>
  BY DEF Inventory!Asked
<1> QED BY <1>1, <1>2, <1>3, <1>4
  DEF InventoryTypes, GatewayTypes, TrackerTypes, FileTypes, SenderTypes, CallTypes, PassTypes, Looking

\* What a row that is observed changes.
LEMMA Observing ==
  ASSUME InventoryTypes, NEW k \in SessionKeys, Inventory!Observes(k)
  PROVE  /\ rec.step = "rows" /\ k \in rec.left /\ rec.rows[k] \in Inventory!Row
         /\ UNCHANGED <<row, turns, ids, conn, event, loaded, mem, disk, chain, scheduled, disposed, dirty, failed, outran>>
         /\ disposed => /\ rec' = [rec EXCEPT !.left = {}]
                        /\ UNCHANGED <<seen, loop, identities, queue, settled>>
         /\ ~disposed =>
              /\ seen' = [seen EXCEPT ![k] = rec.rows[k]]
              /\ rec' = [rec EXCEPT !.step = "told", !.key = k, !.ahead = Len(queue'), !.left = rec.left \ {k}]
              /\ identities' = [identities EXCEPT ![k] = rec.rows[k].id]
              /\ loop' = [loop EXCEPT ![k] = IF rec.rows[k].archived THEN 0 ELSE rec.rows[k].id]
              /\ \E items \in Seq(Points) : Inventory!Publishes(items)
<1> USE DEF Inventory!gateway, Inventory!link, Inventory!tracker, Inventory!checkpoints,
            Inventory!sender, Inventory!calls
<1>1. rec.step = "rows" /\ k \in rec.left /\ rec.rows[k] \in Inventory!Row
  BY DEF Inventory!Observes, InventoryTypes, PassTypes, Looking
<1>2. UNCHANGED <<row, turns, ids, conn, event, loaded, mem, disk, chain, scheduled, disposed, dirty, failed, outran>>
  BY DEF Inventory!Observes, Inventory!PassGoes
<1>3. CASE disposed
  BY <1>1, <1>2, <1>3 DEF Inventory!Observes, Inventory!PassGoes
<1>4. CASE ~disposed
  <2>1. /\ seen' = [seen EXCEPT ![k] = rec.rows[k]]
        /\ rec' = [rec EXCEPT !.step = "told", !.key = k, !.ahead = Len(queue'), !.left = rec.left \ {k}]
        /\ identities' = [identities EXCEPT ![k] = rec.rows[k].id]
        /\ Inventory!Snapshot(k, rec.rows[k])
    BY <1>4 DEF Inventory!Observes
  <2>2. loop' = [loop EXCEPT ![k] = IF rec.rows[k].archived THEN 0 ELSE rec.rows[k].id]
    BY <2>1 DEF Inventory!Snapshot
  <2>3. \E items \in Seq(Points) : Inventory!Publishes(items)
    <3>1. PICK old \in {<<>>, <<Inventory!Note>>}, new \in {<<>>, <<Inventory!Note>>} : Inventory!Publishes(old \o new)
      BY <2>1 DEF Inventory!Snapshot
    <3>2. old \in Seq(Points) /\ new \in Seq(Points)  BY NotesTypes
    <3>3. old \o new \in Seq(Points)  BY <3>2, ConcatProperties
    <3> QED BY <3>1, <3>3
  <2> QED BY <1>1, <1>2, <1>4, <2>1, <2>2, <2>3
<1> QED BY <1>3, <1>4

LEMMA ObservesTypes ==
  ASSUME InventoryTypes, NEW k \in SessionKeys, Inventory!Observes(k)
  PROVE  InventoryTypes'
<1>1. rec \in PassRecord /\ seen \in Listed /\ rec.rows \in [SessionKeys -> Inventory!Row]
  BY Observing DEF InventoryTypes, PassTypes, Looking
<1>2. Inventory!Row \subseteq [id : 0..MaxIds, archived : BOOLEAN]
  BY InventoryAssumption DEF Inventory!Row, Inventory!Ids
<1>3. rec.rows[k] \in Inventory!Row /\ rec.rows[k].id \in 0..MaxIds /\ 0 \in 0..MaxIds
  BY <1>1, <1>2, InventoryAssumption DEF Inventory!Row
<1>4. CASE disposed
  <2>1. rec' \in PassRecord /\ rec'.step = "rows" /\ rec'.rows = rec.rows
    BY <1>1, <1>4, Observing DEF PassRecord
  <2>2. PassTypes'  BY <1>1, <1>4, <2>1, Observing DEF InventoryTypes, PassTypes, Looking
  <2> QED BY <1>4, <2>2, Observing
    DEF InventoryTypes, GatewayTypes, TrackerTypes, FileTypes, SenderTypes, CallTypes
<1>5. CASE ~disposed
  <2>1. SenderTypes' /\ Len(queue') \in Nat
    <3>1. PICK items \in Seq(Points) : Inventory!Publishes(items)  BY <1>5, Observing
    <3>2. queue' \in Seq(Points) /\ Len(queue') <= MaxQueue  BY <3>1, Publishing
    <3> QED BY <3>2, LenProperties DEF SenderTypes
  <2>2. rec' = [rec EXCEPT !.step = "told", !.key = k, !.ahead = Len(queue'), !.left = rec.left \ {k}]
    BY <1>5, Observing
  <2>3. rec' \in PassRecord /\ rec'.step = "told" /\ rec'.rows = rec.rows /\ rec'.key = k
    BY <1>1, <2>1, <2>2 DEF PassRecord
  <2>4. seen' \in Listed  BY <1>1, <1>2, <1>3, <1>5, Observing DEF Listed
  <2>5. PassTypes'  BY <1>1, <1>5, <2>3, <2>4, Observing DEF InventoryTypes, PassTypes, Looking
  <2>6. TrackerTypes'
    BY <1>3, <1>5, Observing DEF InventoryTypes, TrackerTypes
  <2> QED BY <2>1, <2>5, <2>6, Observing
    DEF InventoryTypes, GatewayTypes, FileTypes, CallTypes
<1> QED BY <1>4, <1>5

\* What marking a row changes: the row's mark, or nothing, and the pass goes on or fails.
LEMMA Marking ==
  ASSUME InventoryTypes, Inventory!Marks
  PROVE  /\ rec.step = "told" /\ rec.key \in SessionKeys /\ rec.rows[rec.key] \in Inventory!Row
         /\ UNCHANGED <<row, turns, ids, conn, event, loop, identities, queue, settled, chain, scheduled, disposed,
                        seen, dirty, outran, loaded>>
         /\ FileTypes'
         /\ \/ UNCHANGED <<mem, disk>>
            \/ /\ mem' = disk'
               /\ \A i \in Native : mem'[i].point = mem[i].point
         /\ \/ rec' = Inventory!NoPass /\ failed' = TRUE
            \/ /\ rec' \in PassRecord /\ rec'.step = "rows" /\ rec'.rows = rec.rows /\ rec'.left = rec.left
               /\ failed' = failed
<1> USE DEF Inventory!gateway, Inventory!link, Inventory!tracker, Inventory!checkpoints,
            Inventory!sender, Inventory!calls
<1> DEFINE k == rec.key
           r == rec.rows[k]
           next == [rec EXCEPT !.step = "rows", !.backfill =
                    IF r.archived \/ disposed \/ loop[k] \in {0} \cup scheduled THEN rec.backfill
                    ELSE rec.backfill \cup {loop[k]}]
           marked == [mem[r.id] EXCEPT !.archived = r.archived]
<1>1. rec \in PassRecord /\ rec.step = "told" /\ k \in SessionKeys /\ r \in Inventory!Row
  BY DEF Inventory!Marks, InventoryTypes, PassTypes, Looking
<1>2. next \in PassRecord /\ next.step = "rows" /\ next.rows = rec.rows /\ next.left = rec.left
  <2>1. loop[k] \in 0..MaxIds  BY <1>1 DEF InventoryTypes, TrackerTypes
  <2>2. loop[k] # 0 => loop[k] \in Native  BY <2>1, InventoryAssumption DEF Native, Inventory!Ids
  <2> DEFINE due == IF r.archived \/ disposed \/ loop[k] \in {0} \cup scheduled THEN rec.backfill
                    ELSE rec.backfill \cup {loop[k]}
  <2>3. due \in SUBSET Native  BY <1>1, <2>2 DEF PassRecord
  <2>4. next = [rec EXCEPT !.step = "rows", !.backfill = due]  OBVIOUS
  <2> HIDE DEF due
  <2> QED BY <1>1, <2>3, <2>4 DEF PassRecord
<1>3. r.id \in Native /\ r.archived \in BOOLEAN  BY <1>1 DEF Inventory!Row, Native
<1>4. mem[r.id] \in [point : Points, archived : BOOLEAN]
  BY <1>3 DEF InventoryTypes, FileTypes, Checkpoints
<1>5. marked \in [point : Points, archived : BOOLEAN] /\ marked.point = mem[r.id].point  BY <1>3, <1>4
<1>6. UNCHANGED <<row, turns, ids, conn, event, loop, identities, queue, settled, chain, scheduled, disposed,
                  seen, dirty, outran>>
  BY DEF Inventory!Marks, Inventory!PassGoes, Inventory!PassFails
<1>7. \/ Inventory!PassGoes(next) /\ UNCHANGED <<loaded, mem, disk>>
      \/ Inventory!Saves(r.id, marked) /\ Inventory!PassGoes(next)
      \/ Inventory!SaveFails /\ Inventory!PassFails
  BY DEF Inventory!Marks
<1> HIDE DEF marked, next, r
<1>8. Inventory!PassGoes(next) => rec' = next /\ failed' = failed  BY DEF Inventory!PassGoes
<1>9. Inventory!SaveFails /\ Inventory!PassFails =>
        UNCHANGED <<loaded, mem, disk>> /\ rec' = Inventory!NoPass /\ failed' = TRUE
  BY DEF Inventory!PassFails, Inventory!SaveFails
<1>10. UNCHANGED <<loaded, mem, disk>> => FileTypes'  BY DEF InventoryTypes, FileTypes
<1>11. Inventory!Saves(r.id, marked) =>
         FileTypes' /\ mem' = disk' /\ loaded' = loaded /\ \A i \in Native : mem'[i].point = mem[i].point
  <2> SUFFICES ASSUME Inventory!Saves(r.id, marked)
               PROVE  FileTypes' /\ mem' = disk' /\ loaded' = loaded /\ \A i \in Native : mem'[i].point = mem[i].point
    OBVIOUS
  <2>1. FileTypes' /\ mem' = disk' /\ loaded' = loaded /\ mem'[r.id] = marked
        /\ \A j \in Native \ {r.id} : mem'[j] = mem[j]
    BY <1>3, <1>5, SavesTypes
  <2> QED BY <1>5, <2>1
<1>12. CASE Inventory!PassGoes(next) /\ UNCHANGED <<loaded, mem, disk>>
  BY <1>12, <1>1, <1>2, <1>6, <1>8, <1>10 DEF r
<1>13. CASE Inventory!Saves(r.id, marked) /\ Inventory!PassGoes(next)
  BY <1>13, <1>1, <1>2, <1>6, <1>8, <1>11 DEF r
<1>14. CASE Inventory!SaveFails /\ Inventory!PassFails
  BY <1>14, <1>1, <1>6, <1>9, <1>10 DEF r
<1> QED BY <1>7, <1>12, <1>13, <1>14

LEMMA MarksTypes ==
  ASSUME InventoryTypes, Inventory!Marks
  PROVE  InventoryTypes'
<1>1. PassTypes'
  <2>1. rec.rows \in [SessionKeys -> Inventory!Row]  BY Marking DEF InventoryTypes, PassTypes, Looking
  <2>2. CASE rec' = Inventory!NoPass /\ failed' = TRUE
    BY <2>2, Marking, PassStarts DEF InventoryTypes, PassTypes, Looking
  <2>3. CASE rec' \in PassRecord /\ rec'.step = "rows" /\ rec'.rows = rec.rows /\ failed' = failed
    BY <2>1, <2>3, Marking DEF InventoryTypes, PassTypes, Looking
  <2> QED BY <2>2, <2>3, Marking
<1> QED BY <1>1, Marking DEF InventoryTypes, GatewayTypes, TrackerTypes, SenderTypes, CallTypes

\* The other steps of a pass.
LEMMA PassSteps ==
  ASSUME InventoryTypes, Inventory!PassLoads \/ Inventory!Lists \/ Inventory!ListFails \/ Inventory!PassEnds
  PROVE  /\ InventoryTypes'
         /\ UNCHANGED <<row, turns, ids, conn, event, disk, loop, identities, queue, settled, disposed, seen, outran>>
         /\ rec'.step = "rows" => rec.step = "list" /\ rec'.rows = row /\ rec'.left = SessionKeys /\ dirty' = dirty
         /\ rec'.step # "told"
<1> USE DEF Inventory!gateway, Inventory!link, Inventory!tracker, Inventory!checkpoints,
            Inventory!sender, Inventory!calls
<1>1. UNCHANGED <<row, turns, ids, conn, event, disk, loop, identities, queue, settled, disposed, seen, outran>>
  BY DEF Inventory!PassLoads, Inventory!Lists, Inventory!ListFails, Inventory!PassEnds,
     Inventory!Loads, Inventory!PassFails, Inventory!PassGoes
<1>2. FileTypes'
  <2>1. CASE Inventory!PassLoads  BY <2>1, LoadsTypes DEF Inventory!PassLoads
  <2>2. CASE ~Inventory!PassLoads
    BY <2>2 DEF Inventory!Lists, Inventory!ListFails, Inventory!PassEnds, InventoryTypes, FileTypes
  <2> QED BY <2>1, <2>2
<1>3. CallTypes'
  <2>1. CASE Inventory!PassEnds
    BY <2>1, PassEnding DEF Inventory!PassEnds, InventoryTypes, CallTypes, PassTypes, PassRecord
  <2>2. CASE ~Inventory!PassEnds
    BY <2>2 DEF Inventory!Lists, Inventory!ListFails, Inventory!PassLoads, InventoryTypes, CallTypes
  <2> QED BY <2>1, <2>2
<1>4. /\ rec' \in PassRecord /\ rec'.step # "told"
      /\ rec'.step = "rows" => /\ rec.step = "list" /\ rec'.rows = row /\ rec'.left = SessionKeys /\ dirty' = dirty
                               /\ rec'.rows \in [SessionKeys -> Inventory!Row]
      /\ dirty' \in BOOLEAN /\ failed' \in BOOLEAN
  <2>0. rec \in PassRecord /\ dirty \in BOOLEAN /\ failed \in BOOLEAN /\ row \in [SessionKeys -> Inventory!Row]
    BY DEF InventoryTypes, PassTypes, GatewayTypes
  <2>f. Inventory!PassFails => /\ rec' \in PassRecord /\ rec'.step = "idle"
                               /\ dirty' \in BOOLEAN /\ failed' \in BOOLEAN
    BY <2>0, PassStarts DEF Inventory!PassFails
  <2>1. CASE Inventory!PassLoads
    <3>1. [rec EXCEPT !.step = "list"] \in PassRecord /\ [rec EXCEPT !.step = "list"].step = "list"
      BY <2>0 DEF PassRecord
    <3>2. Inventory!PassFails \/ Inventory!PassGoes([rec EXCEPT !.step = "list"])
      BY <2>1 DEF Inventory!PassLoads
    <3> QED BY <2>0, <2>f, <3>1, <3>2 DEF Inventory!PassGoes
  <2>2. CASE Inventory!Lists
    <3> DEFINE r == [rec EXCEPT !.step = "rows", !.rows = row, !.left = SessionKeys]
    <3>1. row \in Listed
      BY <2>0, InventoryAssumption DEF Listed, Inventory!Row, Inventory!Ids
    <3>2. r \in PassRecord /\ r.step = "rows" /\ r.rows = row /\ r.left = SessionKeys
      BY <2>0, <3>1 DEF PassRecord
    <3>3. rec.step = "list" /\ rec' = r /\ dirty' = dirty /\ failed' = failed
      BY <2>2 DEF Inventory!Lists, Inventory!PassGoes
    <3> HIDE DEF r
    <3> QED BY <2>0, <3>2, <3>3
  <2>3. CASE Inventory!ListFails  BY <2>3, <2>f DEF Inventory!ListFails
  <2>4. CASE Inventory!PassEnds
    <3>1. rec' \in PassRecord /\ rec'.step \in {"idle", "load"} /\ dirty' = FALSE /\ failed' = FALSE
      BY <2>4, PassStarts DEF Inventory!PassEnds
    <3> QED BY <3>1
  <2> QED BY <2>1, <2>2, <2>3, <2>4
<1>5. PassTypes'  BY <1>1, <1>4 DEF InventoryTypes, PassTypes, Looking
<1> QED BY <1>1, <1>2, <1>3, <1>4, <1>5 DEF InventoryTypes, GatewayTypes, TrackerTypes, SenderTypes

LEMMA StepTypes ==
  ASSUME InventoryTypes, Inventory!Next
  PROVE  InventoryTypes'
<1>1. CASE Inventory!Pass
  BY <1>1, PassSteps, ObservesTypes, MarksTypes DEF Inventory!Pass
<1>2. CASE Inventory!Client \/ Inventory!RefreshAsked \/ Inventory!Disconnects  BY <1>2, ClientTypes
<1>3. CASE Inventory!Sends  BY <1>3, SendsTypes
<1>4. CASE Inventory!Dispose \/ Inventory!Crash  BY <1>4, EndsTypes
<1>5. CASE Inventory!Resets  BY <1>5, RowsTypes DEF Inventory!Resets
<1>6. CASE Inventory!Rows \/ Inventory!Hooks
  BY <1>6, RowsTypes, HookTypes DEF Inventory!Rows, Inventory!Hooks
<1>7. CASE Inventory!Calls
  BY <1>7, HistoryTypes, AskedTypes, RowsTypes DEF Inventory!Calls, Native
<1> QED BY <1>1, <1>2, <1>3, <1>4, <1>5, <1>6, <1>7 DEF Inventory!Next

\* The kinds of behaviour only leave steps out.
LEMMA StepOfInventory ==
  ASSUME InventoryStep
  PROVE  Inventory!Next
  BY DEF InventoryStep, Inventory!Next

-----------------------------------------------------------------------------
(* The tracker is told of the list as it is.                               *)

\* The inductive invariant.
Coverage == InventoryTypes /\ Covering /\ Current
coverageVars == <<row, conn, event, rec, seen, dirty, failed, disposed>>

LEMMA PassCovers ==
  ASSUME Coverage, Inventory!Pass
  PROVE  Covering' /\ Current'
<1> USE DEF Coverage
<1>0. InventoryTypes'
  BY PassSteps, ObservesTypes, MarksTypes DEF Inventory!Pass
<1>r. rec \in PassRecord /\ rec' \in PassRecord  BY <1>0 DEF InventoryTypes, PassTypes
<1>1. CASE \E k \in SessionKeys : Inventory!Observes(k)
  <2>1. PICK k \in SessionKeys : Inventory!Observes(k)  BY <1>1
  <2>2. CASE disposed
    BY <2>1, <2>2, Observing DEF Covering, Current
  <2>3. CASE ~disposed
    <3>1. /\ rec'.step = "told" /\ rec'.rows = rec.rows /\ rec'.left = rec.left \ {k} /\ k \in rec.left
          /\ rec.step = "rows" /\ UNCHANGED <<row, conn, event, disposed, dirty, failed>>
          /\ seen' = [seen EXCEPT ![k] = rec.rows[k]]
      <4>1. /\ rec' = [rec EXCEPT !.step = "told", !.key = k, !.ahead = Len(queue'), !.left = rec.left \ {k}]
            /\ rec.step = "rows" /\ k \in rec.left /\ seen' = [seen EXCEPT ![k] = rec.rows[k]]
            /\ UNCHANGED <<row, conn, event, disposed, dirty, failed>>
        BY <2>1, <2>3, Observing
      <4> QED BY <1>r, <4>1 DEF PassRecord
    <3>2. seen \in [SessionKeys -> [id : 0..MaxIds, archived : BOOLEAN]]  BY DEF InventoryTypes, PassTypes, Listed
    <3>3. Covering'  BY <2>3, <3>1, <3>2 DEF Covering, Looking
    <3>4. Current'  BY <3>1 DEF Current, Looking
    <3> QED BY <3>3, <3>4
  <2> QED BY <2>2, <2>3
<1>2. CASE Inventory!Marks
  <2>1. UNCHANGED <<row, conn, event, disposed, seen, dirty>> /\ rec.step = "told"  BY <1>2, Marking
  <2>2. CASE rec' = Inventory!NoPass /\ failed' = TRUE
    BY <2>1, <2>2, PassStarts DEF Covering, Current, Looking
  <2>3. CASE rec'.step = "rows" /\ rec'.rows = rec.rows /\ rec'.left = rec.left /\ failed' = failed
    BY <2>1, <2>3 DEF Covering, Current, Looking
  <2> QED BY <1>2, <2>2, <2>3, Marking
<1>3. CASE Inventory!PassEnds
  <2>1. /\ rec.step = "rows" /\ rec.left = {} /\ UNCHANGED <<row, conn, event, disposed, seen>>
        /\ rec' = IF dirty /\ ~disposed THEN [Inventory!NoPass EXCEPT !.step = "load"] ELSE Inventory!NoPass
    BY <1>3, PassSteps DEF Inventory!PassEnds
  <2>2. rec'.step \in {"load", "idle"} /\ (dirty /\ ~disposed => rec'.step = "load")  BY <2>1, PassStarts
  <2>3. ~disposed => seen = rec.rows
    <3>1. seen \in [SessionKeys -> [id : 0..MaxIds, archived : BOOLEAN]]
          /\ rec.rows \in [SessionKeys -> [id : 0..MaxIds, archived : BOOLEAN]]
      BY <1>r DEF InventoryTypes, PassTypes, PassRecord, Listed
    <3>2. ~disposed => \A k \in SessionKeys : seen[k] = rec.rows[k]  BY <2>1 DEF Covering, Looking
    <3> QED BY <3>1, <3>2
  <2> QED BY <2>1, <2>2, <2>3 DEF Covering, Current, Looking
<1>4. CASE Inventory!Lists
  <2>1. /\ rec'.step = "rows" /\ rec'.rows = row /\ rec'.left = SessionKeys
        /\ UNCHANGED <<row, conn, event, disposed, seen, dirty, failed>>
    <3>1. rec' = [rec EXCEPT !.step = "rows", !.rows = row, !.left = SessionKeys] /\ failed' = failed /\ dirty' = dirty
      BY <1>4 DEF Inventory!Lists, Inventory!PassGoes
    <3> QED BY <1>4, <1>r, <3>1, PassSteps DEF PassRecord
  <2> QED BY <2>1 DEF Covering, Current, Looking
<1>5. CASE Inventory!PassLoads \/ Inventory!ListFails
  <2>1. UNCHANGED <<row, conn, event, disposed, seen>>  BY <1>5, PassSteps
  <2>2. (rec'.step = "idle" /\ failed' = TRUE) \/ rec'.step = "list"
    <3>1. Inventory!PassFails \/ rec' = [rec EXCEPT !.step = "list"]
      BY <1>5 DEF Inventory!PassLoads, Inventory!ListFails, Inventory!PassGoes
    <3>2. Inventory!PassFails => rec'.step = "idle" /\ failed' = TRUE  BY PassStarts DEF Inventory!PassFails
    <3> QED BY <1>r, <3>1, <3>2 DEF PassRecord
  <2> QED BY <2>1, <2>2 DEF Covering, Current, Looking
<1> QED BY <1>1, <1>2, <1>3, <1>4, <1>5 DEF Inventory!Pass

LEMMA ClientCovers ==
  ASSUME Coverage, Inventory!Client \/ Inventory!RefreshAsked \/ Inventory!Disconnects
  PROVE  Covering' /\ Current'
<1> USE DEF Coverage, Inventory!gateway, Inventory!pass, Inventory!link
<1>1. CASE Inventory!Event \/ Inventory!Subscribed \/ Inventory!RefreshAsked
  <2>1. Inventory!Refreshes /\ UNCHANGED <<row, disposed>>
    BY <1>1 DEF Inventory!Event, Inventory!Subscribed, Inventory!RefreshAsked
  <2>2. UNCHANGED <<seen, failed>>  BY <2>1, RefreshesTypes
  <2>3. disposed => UNCHANGED <<rec, dirty>>  BY <2>1, RefreshesTypes
  <2>4. ~disposed => (rec.step # "idle" /\ dirty' = TRUE /\ rec' = rec) \/ rec'.step = "load"
    BY <2>1, RefreshesTypes
  <2>5. Covering'  BY <2>1, <2>2, <2>3, <2>4 DEF Covering, Looking
  <2>6. Current'  BY <2>1, <2>2, <2>3, <2>4 DEF Current, Looking
  <2> QED BY <2>5, <2>6
<1>2. CASE Inventory!Hello \/ Inventory!Subscribes \/ Inventory!Disconnects
  <2>1. UNCHANGED <<row, disposed, seen, failed, rec, dirty>> /\ conn' # "up"
    BY <1>2 DEF Inventory!Hello, Inventory!Subscribes, Inventory!Disconnects
  <2> QED BY <2>1 DEF Covering, Current, Looking
<1> QED BY <1>1, <1>2 DEF Inventory!Client

LEMMA RestCovers ==
  ASSUME Coverage, Inventory!Sends \/ Inventory!Dispose \/ Inventory!Crash \/ Inventory!Resets
                     \/ Inventory!Rows \/ Inventory!Hooks \/ Inventory!Calls
  PROVE  Covering' /\ Current'
<1> USE DEF Coverage, Inventory!gateway, Inventory!pass, Inventory!link
<1>1. ASSUME UNCHANGED coverageVars  PROVE Covering' /\ Current'
  BY <1>1 DEF coverageVars, Covering, Current, Looking
<1>2. CASE Inventory!Sends
  <2>1. /\ UNCHANGED <<row, conn, event, seen, dirty, failed, disposed>>
        /\ rec'.step = rec.step /\ rec'.rows = rec.rows /\ rec'.left = rec.left
    BY <1>2, Sending, SendsTypes
  <2> QED BY <2>1 DEF Covering, Current, Looking
<1>3. CASE Inventory!Dispose
  BY <1>3 DEF Inventory!Dispose, Covering, Current, Looking
<1>4. CASE Inventory!Crash
  <2>1. conn' = "down" /\ rec'.step = "idle"  BY <1>4, PassStarts DEF Inventory!Crash
  <2> QED BY <2>1 DEF Covering, Current, Looking
<1>5. ASSUME NEW k \in SessionKeys, NEW r, Inventory!Changes(k, r)  PROVE Covering' /\ Current'
  <2>1. UNCHANGED <<conn, rec, seen, dirty, failed, disposed>> /\ (conn = "up" => event')
    BY <1>5 DEF Inventory!Changes
  <2> QED BY <2>1 DEF Covering, Current, Looking
<1>6. CASE Inventory!Resets  BY <1>5, <1>6 DEF Inventory!Resets, Inventory!Reset
<1>7. CASE \E k \in SessionKeys : Inventory!Archives(k)  BY <1>5, <1>7 DEF Inventory!Archives
<1>8. CASE \E k \in SessionKeys : Inventory!HookStarts(k) \/ Inventory!HookEnds(k)
  <2>1. UNCHANGED coverageVars
    BY <1>8 DEF Inventory!HookStarts, Inventory!HookEnds, coverageVars
  <2> QED BY <2>1, <1>1
<1>9. CASE Inventory!Calls
  <2>1. UNCHANGED coverageVars
    BY <1>9 DEF Inventory!Calls, coverageVars, Inventory!Asked, Inventory!Turn, Inventory!History,
      Inventory!Resolves, Inventory!Identifies, Inventory!Reads, Inventory!RequestFails,
      Inventory!Compares, Inventory!Walks, Inventory!Records
  <2> QED BY <2>1, <1>1
<1> QED BY <1>2, <1>3, <1>4, <1>6, <1>7, <1>8, <1>9 DEF Inventory!Rows, Inventory!Hooks

LEMMA Unhooked ==
  ASSUME HookStep
  PROVE  UNCHANGED <<theme, inventoryVars>>
  BY DEF HookStep

\* Once it rests, the inventory has told the tracker of the rows as they are: a
\* change that comes while a pass reads the list, waits for the sender or writes
\* the file is told by the next, for any number of keys, faults and resets.
\* (refresh, reconcile and onConnected of session-inventory.ts)
THEOREM TheListIsTold == LoopsSpec => []RefreshCovers
<1> DEFINE step == HookStep \/ InventoryStep
           all == <<vars, theme, inventoryVars>>
<1>1. LoopsInit => Coverage
  <2> SUFFICES ASSUME LoopsInit  PROVE Coverage
    OBVIOUS
  <2>1. Inventory!Init  BY DEF LoopsInit
  <2>2. InventoryTypes /\ conn = "down" /\ rec.step = "idle"  BY <2>1, InitTypes, PassStarts DEF Inventory!Init
  <2> QED BY <2>2 DEF Coverage, Covering, Current, Looking
<1>2. Coverage /\ [step]_all => Coverage'
  <2> SUFFICES ASSUME Coverage, [step]_all  PROVE Coverage'
    OBVIOUS
  <2>1. CASE UNCHANGED inventoryVars
    BY <2>1 DEF inventoryVars, Coverage, Covering, Current, Looking, InventoryTypes, GatewayTypes, TrackerTypes,
       FileTypes, SenderTypes, CallTypes, PassTypes
  <2>2. CASE InventoryStep
    <3>1. InventoryTypes'  BY <2>2, StepOfInventory, StepTypes DEF Coverage
    <3>2. Covering' /\ Current'  BY <2>2, PassCovers, ClientCovers, RestCovers DEF InventoryStep
    <3> QED BY <3>1, <3>2 DEF Coverage
  <2> QED BY <2>1, <2>2, Unhooked
<1>3. Coverage => RefreshCovers
  BY DEF Coverage, Current, RefreshCovers, Inventory!RefreshCovers
<1> QED BY <1>1, <1>2, <1>3, PTL DEF LoopsSpec

-----------------------------------------------------------------------------
(* What is on record is done with.                                         *)

\* Its part about the sender: what is recorded is done with.
Delivered == OnFile /\ Kept /\ CallKept

\* A quiet step leaves the call that runs, the records and their queue in place.
QueueGrows == Len(queue) <= Len(queue') /\ \A m \in 1..Len(queue) : queue'[m] = queue[m]
CallsStay == \A n \in 1..Len(chain') : chain'[n].step # "load" => n \in 1..Len(chain) /\ chain'[n] = chain[n]
RecordsStay ==
  /\ \A i \in Native : Point(i)' = Point(i)
  /\ loaded = "yes" => loaded' = "yes"
  /\ loaded' = "yes" => mem' = disk'
Quiet ==
  /\ QueueGrows /\ CallsStay /\ RecordsStay /\ settled \subseteq settled' /\ outran \subseteq outran'
  /\ rec'.step \notin {"idle", "load"} => loaded' = "yes"

LEMMA Firsts ==
  ASSUME NEW S, NEW s \in Seq(S)
  PROVE  /\ Len(s) \in Nat /\ \A n \in 1..Len(s) : s[n] \in S
         /\ s # <<>> => 1 \in 1..Len(s)
         /\ Len(s) >= 1 => s # <<>>
  BY LenProperties, EmptySeq, ElementOfSeq

\* The call that runs ran before.
LEMMA SameCall ==
  ASSUME InventoryTypes, InventoryTypes', CallsStay, NEW S, "load" \notin S, At(S)'
  PROVE  At(S) /\ chain'[1] = chain[1] /\ chain[1] \in Call
<1>1. chain \in Seq(Call) /\ chain' \in Seq(Call)  BY DEF InventoryTypes, CallTypes
<1>2. 1 \in 1..Len(chain') /\ chain'[1].step \in S  BY <1>1, Firsts DEF At
<1>3. 1 \in 1..Len(chain) /\ chain'[1] = chain[1]  BY <1>2 DEF CallsStay
<1>4. chain # <<>> /\ chain[1] \in Call  BY <1>1, <1>3, Firsts
<1> QED BY <1>2, <1>3, <1>4 DEF At

LEMMA QuietDelivers ==
  ASSUME InventoryTypes, InventoryTypes', Delivered, Quiet
  PROVE  Delivered'
<1> USE DEF Delivered, Quiet
<1>1. OnFile'  BY DEF OnFile, RecordsStay, CallsStay
<1>2. settled \subseteq settled' /\ Done \subseteq Done'  BY DEF Done
<1>3. Kept'
  <2> SUFFICES ASSUME NEW i \in Native, NEW t \in 1..Point(i)'.turn
               PROVE  [id |-> Point(i)'.id, turn |-> t] \in Done'
    BY DEF Kept
  <2>1. Point(i)' = Point(i)  BY DEF RecordsStay
  <2> QED BY <2>1, <1>2 DEF Kept
<1>4. At(Answered)' => BeforeDone(chain'[1], Done')
  <2> SUFFICES ASSUME At(Answered)'  PROVE BeforeDone(chain'[1], Done')
    OBVIOUS
  <2>1. At(Answered) /\ chain'[1] = chain[1]  BY SameCall DEF Answered
  <2> QED BY <2>1, <1>2 DEF CallKept, BeforeDone
<1>5. At({"sent"})' => OnItsWay(chain'[1], settled', queue')
  <2> SUFFICES ASSUME At({"sent"})'  PROVE OnItsWay(chain'[1], settled', queue')
    OBVIOUS
  <2>1. At({"sent"}) /\ chain'[1] = chain[1]  BY SameCall
  <2>2. queue \in Seq(Points) /\ queue' \in Seq(Points)  BY DEF InventoryTypes, SenderTypes
  <2>3. Len(queue) \in Nat /\ Len(queue') \in Nat  BY <2>2, LenProperties
  <2> QED BY <2>1, <2>3, <1>2 DEF CallKept, OnItsWay, Sent, QueueGrows
<1> QED BY <1>1, <1>3, <1>4, <1>5 DEF CallKept

LEMMA Steady == UNCHANGED queue => QueueGrows
  BY DEF QueueGrows

\* The steps of the pass and of everyone else but the sender, the calls and a crash.
LEMMA QuietPass ==
  ASSUME InventoryTypes, OnFile, Inventory!Pass
  PROVE  Quiet
<1>0. chain \in Seq(Call) /\ Len(chain) \in Nat  BY LenProperties DEF InventoryTypes, CallTypes
<1>c. UNCHANGED chain => CallsStay  BY DEF CallsStay
<1>d. UNCHANGED <<mem, disk, loaded>> => RecordsStay  BY DEF RecordsStay, Point, OnFile
<1>1. CASE \E k \in SessionKeys : Inventory!Observes(k)
  <2>1. PICK k \in SessionKeys : Inventory!Observes(k)  BY <1>1
  <2>2. UNCHANGED <<chain, mem, disk, loaded, outran>> /\ loaded = "yes"  BY <2>1, Observing DEF OnFile
  <2>3. QueueGrows /\ settled \subseteq settled'
    <3>1. CASE disposed  BY <2>1, <3>1, Observing, Steady
    <3>2. CASE ~disposed  BY <2>1, <3>2, Observing, Publishing DEF QueueGrows
    <3> QED BY <3>1, <3>2
  <2> QED BY <2>2, <2>3, <1>c, <1>d DEF Quiet
<1>2. CASE Inventory!Marks
  <2>1. UNCHANGED <<chain, queue, settled, outran, loaded>> /\ loaded = "yes" /\ mem = disk
    BY <1>2, Marking DEF OnFile
  <2>2. RecordsStay  BY <1>2, <2>1, Marking DEF RecordsStay, Point
  <2> QED BY <2>1, <2>2, <1>c, Steady DEF Quiet
<1>3. CASE Inventory!PassLoads \/ Inventory!Lists \/ Inventory!ListFails \/ Inventory!PassEnds
  <2> USE DEF Inventory!checkpoints, Inventory!calls
  <2>1. UNCHANGED <<queue, settled, outran, disk>>  BY <1>3, PassSteps
  <2>2. CallsStay
    <3>1. CASE Inventory!PassEnds
      <4>1. /\ chain' \in Seq(Call) /\ \A n \in 1..Len(chain) : chain'[n] = chain[n]
            /\ \A n \in (Len(chain) + 1)..Len(chain') : chain'[n].step = "load"
        BY <3>1, PassEnding
      <4>2. Len(chain') \in Nat  BY <4>1, LenProperties
      <4> QED BY <1>0, <4>1, <4>2 DEF CallsStay
    <3>2. CASE Inventory!PassLoads \/ Inventory!Lists \/ Inventory!ListFails
      BY <3>2, <1>c DEF Inventory!PassLoads, Inventory!Lists, Inventory!ListFails
    <3> QED BY <1>3, <3>1, <3>2
  <2>3. RecordsStay /\ (rec'.step \notin {"idle", "load"} => loaded' = "yes")
    <3>1. CASE Inventory!PassLoads
      <4>1. disk' = disk /\ (loaded = "yes" => loaded' = "yes" /\ mem' = mem)
            /\ (loaded' = "yes" => (loaded = "yes" /\ mem' = mem) \/ mem' = disk)
        BY <3>1, LoadsTypes DEF Inventory!PassLoads, Inventory!Loads
      <4>2. RecordsStay  BY <4>1 DEF RecordsStay, Point, OnFile
      <4>3. loaded' \in {"yes", "failed"}  BY <3>1, LoadsTypes DEF Inventory!PassLoads, FileTypes
      <4>4. loaded' = "failed" => rec' = Inventory!NoPass  BY <3>1 DEF Inventory!PassLoads, Inventory!PassFails
      <4> QED BY <4>2, <4>3, <4>4, PassStarts
    <3>2. CASE Inventory!Lists \/ Inventory!ListFails \/ Inventory!PassEnds
      <4>1. UNCHANGED <<mem, disk, loaded>> /\ rec.step \in {"list", "rows"}
        BY <3>2 DEF Inventory!Lists, Inventory!ListFails, Inventory!PassEnds
      <4> QED BY <4>1, <1>d DEF OnFile
    <3> QED BY <1>3, <3>1, <3>2
  <2> QED BY <2>1, <2>2, <2>3, Steady DEF Quiet
<1> QED BY <1>1, <1>2, <1>3 DEF Inventory!Pass

LEMMA QuietRest ==
  ASSUME InventoryTypes, OnFile,
         Inventory!Client \/ Inventory!RefreshAsked \/ Inventory!Disconnects \/ Inventory!Dispose
           \/ Inventory!Resets \/ Inventory!Rows \/ Inventory!Hooks \/ \E k \in SessionKeys : Inventory!Turn(k)
  PROVE  Quiet
<1> USE DEF Inventory!gateway, Inventory!link, Inventory!tracker, Inventory!checkpoints, Inventory!sender,
            Inventory!calls, Inventory!pass
<1>1. UNCHANGED <<chain, mem, disk, loaded, outran>>
  BY DEF Inventory!Client, Inventory!Event, Inventory!Hello, Inventory!Subscribes, Inventory!Subscribed,
     Inventory!RefreshAsked, Inventory!Disconnects, Inventory!Dispose, Inventory!Resets, Inventory!Reset,
     Inventory!Changes, Inventory!Rows, Inventory!Archives, Inventory!HookEnds, Inventory!Hooks,
     Inventory!HookStarts, Inventory!Turn
<1>2. QueueGrows /\ settled \subseteq settled'
  <2>1. CASE UNCHANGED <<queue, settled>>  BY <2>1, Steady
  <2>2. CASE \E items \in Seq(Points) : Inventory!Publishes(items)  BY <2>2, Publishing DEF QueueGrows
  <2>3. UNCHANGED <<queue, settled>> \/ \E items \in Seq(Points) : Inventory!Publishes(items)
    BY NotesTypes
    DEF Inventory!Client, Inventory!Event, Inventory!Hello, Inventory!Subscribes, Inventory!Subscribed,
     Inventory!RefreshAsked, Inventory!Disconnects, Inventory!Dispose, Inventory!Resets, Inventory!Reset,
     Inventory!Changes, Inventory!Rows, Inventory!Archives, Inventory!HookEnds, Inventory!Hooks,
     Inventory!HookStarts, Inventory!Turn
  <2> QED BY <2>1, <2>2, <2>3
<1>3. rec'.step \notin {"idle", "load"} => rec.step \notin {"idle", "load"}
  <2>1. rec' = rec \/ Inventory!Refreshes
    BY DEF Inventory!Client, Inventory!Event, Inventory!Hello, Inventory!Subscribes, Inventory!Subscribed,
     Inventory!RefreshAsked, Inventory!Disconnects, Inventory!Dispose, Inventory!Resets, Inventory!Reset,
     Inventory!Changes, Inventory!Rows, Inventory!Archives, Inventory!HookEnds, Inventory!Hooks,
     Inventory!HookStarts, Inventory!Turn
  <2> QED BY <2>1, RefreshesTypes DEF InventoryTypes, GatewayTypes
<1>4. CallsStay /\ RecordsStay  BY <1>1 DEF CallsStay, RecordsStay, Point, OnFile
<1> QED BY <1>1, <1>2, <1>3, <1>4 DEF Quiet, OnFile

-----------------------------------------------------------------------------
(* The calls: who ends or waits is quiet, who goes on is where it says. *)

LEMMA EndIsQuiet ==
  ASSUME InventoryTypes, OnFile, chain # <<>>, Inventory!Ends(1),
         UNCHANGED <<queue, settled, rec>>, outran \subseteq outran', RecordsStay
  PROVE  Quiet
<1>1. /\ chain \in Seq(Call) /\ Len(chain) \in Nat /\ chain' \in Seq(Call) /\ Len(chain') = Len(chain) - 1
      /\ \A n \in 1..Len(chain') : chain'[n] = chain[n + 1]
  BY Ending, LenProperties DEF InventoryTypes, CallTypes
<1>2. CallsStay
  <2> SUFFICES ASSUME NEW n \in 1..Len(chain')  PROVE chain'[n].step = "load"
    BY DEF CallsStay
  <2>1. n + 1 \in 1..Len(chain) /\ n + 1 # 1  BY <1>1
  <2> QED BY <1>1, <2>1 DEF OnFile
<1> QED BY <1>2, Steady DEF Quiet, RecordsStay, OnFile

LEMMA AskedIsQuiet ==
  ASSUME InventoryTypes, OnFile, NEW l \in Native, Inventory!Asked(l)
  PROVE  Quiet
<1>1. UNCHANGED <<queue, settled, outran, mem, disk, loaded, rec>>
  BY DEF Inventory!Asked, Inventory!sender, Inventory!checkpoints, Inventory!pass
<1>2. Len(chain) \in Nat  BY LenProperties DEF InventoryTypes, CallTypes
<1>3. CallsStay  BY <1>2, AskedTypes DEF CallsStay
<1> QED BY <1>1, <1>3, Steady DEF Quiet, RecordsStay, Point, OnFile

\* A call goes on, in its place; the file is there.
Goes(c) ==
  /\ chain # <<>> /\ chain[1] \in Call /\ c \in Call /\ chain'[1] = c /\ Len(chain') = Len(chain)
  /\ \A n \in 2..Len(chain) : chain'[n] = chain[n]
  /\ loaded' = "yes" /\ mem' = disk' /\ rec' = rec

LEMMA GoingOnFile ==
  ASSUME InventoryTypes, OnFile, NEW c, Goes(c)
  PROVE  OnFile'
<1>1. Len(chain) \in Nat  BY LenProperties DEF InventoryTypes, CallTypes
<1> QED BY <1>1 DEF OnFile, Goes

LEMMA GoingDelivers ==
  ASSUME InventoryTypes, Delivered, NEW c, Goes(c), Kept',
         c.step \in Answered => BeforeDone(c, Done'), c.step = "sent" => OnItsWay(c, settled', queue')
  PROVE  Delivered'
<1>1. OnFile'  BY GoingOnFile DEF Delivered
<1>2. CallKept'  BY DEF CallKept, Goes, At, BeforeDone, OnItsWay, Sent
<1> QED BY <1>1, <1>2 DEF Delivered

LEMMA Resolving ==
  ASSUME InventoryTypes, InventoryTypes', OnFile, NEW n \in 1..MaxCalls, Inventory!Resolves(n)
  PROVE  \/ Quiet
         \/ \E k \in SessionKeys :
              /\ loop[k] # 0 /\ UNCHANGED <<disk, settled, queue, outran>>
              /\ Goes([chain[1] EXCEPT !.step = IF identities[k] = 0 THEN "list" ELSE "read",
                                       !.key = k, !.id = identities[k]])
<1> USE DEF Inventory!gateway, Inventory!tracker, Inventory!sender, Inventory!pass
<1>1. n = 1 /\ chain # <<>> /\ chain[1] \in Call /\ 1 \in 1..Len(chain)
  BY FirstRuns, LenProperties DEF Inventory!Resolves
<1>2. UNCHANGED <<settled, queue, outran, rec>> /\ Inventory!Loads  BY DEF Inventory!Resolves
<1>3. disk' = disk /\ (loaded = "yes" => loaded' = "yes" /\ mem' = mem)
      /\ (loaded' = "yes" => (loaded = "yes" /\ mem' = mem) \/ mem' = disk) /\ loaded' \in {"yes", "failed"}
  <2>1. disk' = disk /\ (loaded' = "yes" => (loaded = "yes" /\ mem' = mem) \/ mem' = disk)
        /\ loaded' # "no" /\ FileTypes'
    BY <1>2, LoadsTypes
  <2>2. loaded = "yes" => loaded' = "yes" /\ mem' = mem
    BY <1>2 DEF Inventory!Loads, Inventory!checkpoints
  <2>3. loaded' \in {"yes", "failed"}  BY <2>1 DEF FileTypes
  <2> QED BY <2>1, <2>2, <2>3
<1>4. RecordsStay  BY <1>3 DEF RecordsStay, Point, OnFile
<1>5. CASE Inventory!Ends(1)  BY <1>1, <1>2, <1>4, <1>5, EndIsQuiet
<1>6. CASE ~Inventory!Ends(1)
  <2> DEFINE k == Inventory!KeyHolding(chain[1].loop)
             c == [chain[1] EXCEPT !.step = IF identities[k] = 0 THEN "list" ELSE "read",
                                   !.key = k, !.id = identities[k]]
  <2>1. Inventory!Goes(1, c) /\ Inventory!IsOpen(chain[1].loop) /\ loaded' # "failed"
    BY <1>1, <1>6 DEF Inventory!Resolves
  <2>2. k \in SessionKeys /\ loop[k] = chain[1].loop  BY <2>1 DEF Inventory!IsOpen, Inventory!KeyHolding
  <2>3. loop[k] # 0  BY <1>1, <2>2 DEF Call, CallRecord, Native, Inventory!Ids
  <2>4. c \in Call
    <3>1. identities[k] \in 0..MaxIds  BY <2>2 DEF InventoryTypes, TrackerTypes
    <3>2. identities[k] # 0 => identities[k] \in Native
      BY <3>1, InventoryAssumption DEF Native, Inventory!Ids
    <3> QED BY <1>1, <2>2, <3>1, <3>2 DEF Call, CallRecord, Answered
  <2>5. Goes(c)  BY <1>1, <1>2, <1>3, <1>4, <2>1, <2>4, Going DEF Goes, RecordsStay
  <2> HIDE DEF k
  <2> QED BY <1>2, <1>3, <2>2, <2>3, <2>5
<1> QED BY <1>5, <1>6

LEMMA Runs ==
  ASSUME InventoryTypes, OnFile, NEW n, NEW step \in {"list", "read", "compare", "walk", "sent"},
         Inventory!Running(n, step)
  PROVE  /\ n = 1 /\ chain # <<>> /\ chain[1] \in Call /\ chain[1].step = step
         /\ chain[1].key \in SessionKeys /\ loaded = "yes" /\ mem = disk
         /\ step # "list" => chain[1].id \in Native
         /\ step \in Answered => chain[1].of \in Native
<1>1. n = 1 /\ chain # <<>> /\ chain[1] \in Call /\ chain[1].step = step /\ 1 \in 1..Len(chain)
  BY FirstRuns, LenProperties
<1>2. loaded = "yes" /\ mem = disk  BY <1>1 DEF OnFile
<1>3. chain[1].key \in SessionKeys /\ (step # "list" => chain[1].id \in Native)
      /\ (step \in Answered => chain[1].of \in Native)
  BY <1>1 DEF Call, Answered
<1> QED BY <1>1, <1>2, <1>3

LEMMA Identifying ==
  ASSUME InventoryTypes, OnFile, NEW n, Inventory!Identifies(n)
  PROVE  /\ Goes([chain[1] EXCEPT !.step = "read", !.id = row[chain[1].key].id])
         /\ UNCHANGED <<disk, settled, queue, outran>> /\ chain[1].step = "list"
<1> USE DEF Inventory!checkpoints, Inventory!sender, Inventory!pass
<1> DEFINE c == [chain[1] EXCEPT !.step = "read", !.id = row[chain[1].key].id]
<1>1. /\ n = 1 /\ chain # <<>> /\ chain[1] \in Call /\ chain[1].step = "list"
      /\ chain[1].key \in SessionKeys /\ loaded = "yes" /\ mem = disk
  <2>1. Inventory!Running(n, "list")  BY DEF Inventory!Identifies
  <2> QED BY <2>1, Runs
<1>2. row[chain[1].key].id \in Native /\ row[chain[1].key].id \in 0..MaxIds
  BY <1>1, InventoryAssumption DEF InventoryTypes, GatewayTypes, Inventory!Row, Native, Inventory!Ids
<1>3. c \in Call  BY <1>1, <1>2 DEF Call, CallRecord, Answered
<1>4. Inventory!Goes(1, c) /\ UNCHANGED <<disk, settled, queue, outran, mem, loaded, rec>>
  BY <1>1 DEF Inventory!Identifies
<1> QED BY <1>1, <1>3, <1>4, Going DEF Goes

LEMMA Reading ==
  ASSUME InventoryTypes, OnFile, NEW n, Inventory!Reads(n)
  PROVE  \E i \in Native :
           /\ i = row[chain[1].key].id /\ chain[1].step = "read" /\ turns[i] \in 0..MaxTurns
           /\ Inventory!Oldest(i) \in Nat /\ Inventory!Oldest(i) >= 1
           /\ Goes([chain[1] EXCEPT !.step = "compare", !.of = i, !.last = turns[i], !.next = Inventory!Oldest(i)])
           /\ UNCHANGED <<disk, settled, queue>>
           /\ outran' = outran \cup {o \in Inventory!Outputs : o.id = i /\ o.turn < Inventory!Oldest(i)}
<1> USE DEF Inventory!checkpoints, Inventory!sender, Inventory!pass
<1> DEFINE i == row[chain[1].key].id
           c == [chain[1] EXCEPT !.step = "compare", !.of = i, !.last = turns[i], !.next = Inventory!Oldest(i)]
<1>1. /\ n = 1 /\ chain # <<>> /\ chain[1] \in Call /\ chain[1].step = "read"
      /\ chain[1].key \in SessionKeys /\ loaded = "yes" /\ mem = disk
  <2>1. Inventory!Running(n, "read")  BY DEF Inventory!Reads
  <2> QED BY <2>1, Runs
<1>2. i \in Native /\ i \in 0..MaxIds
  BY <1>1, InventoryAssumption DEF InventoryTypes, GatewayTypes, Inventory!Row, Native, Inventory!Ids
<1>3. turns[i] \in 0..MaxTurns  BY <1>2 DEF InventoryTypes, GatewayTypes
<1>4. Inventory!Oldest(i) \in Nat /\ Inventory!Oldest(i) >= 1
  BY <1>3, InventoryAssumption DEF Inventory!Oldest
<1>5. /\ Inventory!Goes(1, c) /\ UNCHANGED <<disk, settled, queue, mem, loaded, rec>>
      /\ outran' = outran \cup {o \in Inventory!Outputs : o.id = i /\ o.turn < Inventory!Oldest(i)}
  BY <1>1 DEF Inventory!Reads
<1> HIDE DEF i
<1>6. turns[i] \in Nat  BY <1>3, InventoryAssumption
<1>7. c \in Call  BY <1>1, <1>2, <1>4, <1>6 DEF Call, CallRecord, Answered
<1>8. Goes(c)  BY <1>1, <1>5, <1>7, Going DEF Goes
<1> QED BY <1>1, <1>2, <1>3, <1>4, <1>5, <1>8 DEF i

LEMMA Comparing ==
  ASSUME InventoryTypes, OnFile, NEW n, Inventory!Compares(n)
  PROVE  \E next \in Nat :
           /\ Goes([chain[1] EXCEPT !.step = "walk", !.next = next])
           /\ chain[1].step = "compare" /\ UNCHANGED <<disk, settled, queue, outran>>
           /\ LET p == disk[chain[1].id].point IN
              \/ next = p.turn + 1 /\ p.id = chain[1].of /\ p.turn \in chain[1].next..chain[1].last
              \/ next = chain[1].next /\ ~(p.id = chain[1].of /\ p.turn \in chain[1].next..chain[1].last)
<1> USE DEF Inventory!checkpoints, Inventory!sender, Inventory!pass
<1>1. /\ n = 1 /\ chain # <<>> /\ chain[1] \in Call /\ chain[1].step = "compare"
      /\ loaded = "yes" /\ mem = disk /\ chain[1].id \in Native
  <2>1. Inventory!Running(n, "compare")  BY DEF Inventory!Compares
  <2> QED BY <2>1, Runs DEF Answered
<1> DEFINE p == disk[chain[1].id].point
           next == IF p.id = chain[1].of /\ p.turn \in chain[1].next..chain[1].last
                   THEN p.turn + 1 ELSE chain[1].next
           c == [chain[1] EXCEPT !.step = "walk", !.next = next]
<1>2. p.turn \in Nat  BY <1>1 DEF InventoryTypes, FileTypes, Checkpoints, Points
<1>3. chain[1].next \in Nat /\ chain[1].next >= 1  BY <1>1 DEF Call, CallRecord, Answered
<1>4. next \in Nat /\ next >= 1  BY <1>2, <1>3
<1>5. Inventory!Goes(1, c) /\ UNCHANGED <<disk, settled, queue, outran, mem, loaded, rec>>
  BY <1>1 DEF Inventory!Compares
<1>6. \/ next = p.turn + 1 /\ p.id = chain[1].of /\ p.turn \in chain[1].next..chain[1].last
      \/ next = chain[1].next /\ ~(p.id = chain[1].of /\ p.turn \in chain[1].next..chain[1].last)
  OBVIOUS
<1> HIDE DEF next
<1>7. c \in Call  BY <1>1, <1>4 DEF Call, CallRecord, Answered
<1>8. Goes(c)  BY <1>1, <1>5, <1>7, Going DEF Goes
<1> QED BY <1>1, <1>4, <1>5, <1>6, <1>8

LEMMA Walking ==
  ASSUME InventoryTypes, OnFile, NEW n, Inventory!Walks(n)
  PROVE  \/ Quiet
         \/ /\ chain[1].step = "walk" /\ chain[1].next <= chain[1].last
            /\ Goes([chain[1] EXCEPT !.step = "sent", !.ahead = Len(queue')])
            /\ UNCHANGED <<disk, outran>> /\ queue' \in Seq(Points) /\ settled \subseteq settled'
            /\ \/ Sent(chain[1]) \in settled'
               \/ \E m \in 1..Len(queue') : queue'[m] = Sent(chain[1])
<1> USE DEF Inventory!checkpoints, Inventory!pass
<1>1. /\ n = 1 /\ chain # <<>> /\ chain[1] \in Call /\ chain[1].step = "walk"
      /\ loaded = "yes" /\ mem = disk /\ chain[1].of \in Native
  <2>1. Inventory!Running(n, "walk")  BY DEF Inventory!Walks
  <2> QED BY <2>1, Runs DEF Answered
<1>2. UNCHANGED <<disk, outran, mem, loaded, rec>>  BY DEF Inventory!Walks
<1>3. RecordsStay  BY <1>1, <1>2 DEF RecordsStay, Point
<1>4. CASE Inventory!Ends(1) /\ UNCHANGED Inventory!sender
  BY <1>1, <1>2, <1>3, <1>4, EndIsQuiet DEF Inventory!sender
<1>5. CASE ~(Inventory!Ends(1) /\ UNCHANGED Inventory!sender)
  <2> DEFINE o == Sent(chain[1])
             c == [chain[1] EXCEPT !.step = "sent", !.ahead = Len(queue')]
  <2>1. ~(chain[1].next > chain[1].last) /\ Inventory!Publishes(<<o>>) /\ Inventory!Goes(1, c)
    BY <1>1, <1>5 DEF Inventory!Walks, Sent
  <2>2. o \in Points /\ o # Inventory!Note /\ chain[1].next \in Nat /\ chain[1].last \in Nat
    BY <1>1 DEF Call, CallRecord, Points, Sent, Inventory!Note, Native, Inventory!Ids
  <2>3. <<o>> \in Seq(Points) /\ Len(<<o>>) = 1 /\ <<o>>[1] = o  BY <2>2
  <2> HIDE DEF o
  <2>4. queue' \in Seq(Points) /\ settled \subseteq settled'
        /\ (o \in settled' \/ \E m \in 1..Len(queue') : queue'[m] = o)
    <3> DEFINE items == <<o>>
    <3>1. items \in Seq(Points) /\ Inventory!Publishes(items)  BY <2>1, <2>3
    <3>2. 1 \in 1..Len(items) /\ items[1] = o  BY <2>3
    <3> HIDE DEF items
    <3> QED BY <2>2, <3>1, <3>2, Publishing
  <2>5. Len(queue') \in Nat  BY <2>4, LenProperties
  <2>6. c \in Call  BY <1>1, <2>5 DEF Call, CallRecord, Answered
  <2>7. Goes(c)  BY <1>1, <1>2, <2>1, <2>6, Going DEF Goes
  <2> QED BY <1>1, <1>2, <2>1, <2>2, <2>4, <2>7 DEF o
<1> QED BY <1>4, <1>5

LEMMA Recording ==
  ASSUME InventoryTypes, OnFile, NEW n, Inventory!Records(n)
  PROVE  \/ Quiet
         \/ /\ chain[1].step = "sent" /\ chain[1].ahead = 0
            /\ Goes([chain[1] EXCEPT !.step = "walk", !.next = chain[1].next + 1, !.ahead = 0])
            /\ UNCHANGED <<queue, settled, outran>> /\ disk'[chain[1].id].point = Sent(chain[1])
            /\ \A j \in Native \ {chain[1].id} : Point(j)' = Point(j)
<1> USE DEF Inventory!sender, Inventory!pass
<1>1. /\ n = 1 /\ chain # <<>> /\ chain[1] \in Call /\ chain[1].step = "sent"
      /\ loaded = "yes" /\ mem = disk /\ chain[1].id \in Native
  <2>1. Inventory!Running(n, "sent")  BY DEF Inventory!Records
  <2> QED BY <2>1, Runs DEF Answered
<1>2. UNCHANGED <<queue, settled, outran, rec>> /\ chain[1].ahead = 0
  BY <1>1 DEF Inventory!Records, Inventory!Waited
<1>3. CASE Inventory!SaveFails /\ Inventory!Ends(1)
  <2>1. RecordsStay  BY <1>1, <1>3 DEF RecordsStay, Point, Inventory!SaveFails, Inventory!checkpoints
  <2> QED BY <1>1, <1>2, <1>3, <2>1, EndIsQuiet
<1>4. CASE ~(Inventory!SaveFails /\ Inventory!Ends(1))
  <2> DEFINE p == Sent(chain[1])
             saved == [mem[chain[1].id] EXCEPT !.point = p]
             c == [chain[1] EXCEPT !.step = "walk", !.next = chain[1].next + 1, !.ahead = 0]
  <2>1. Inventory!Saves(chain[1].id, saved) /\ Inventory!Goes(1, c)
    BY <1>1, <1>4 DEF Inventory!Records, Sent
  <2>2. p \in Points  BY <1>1 DEF Call, CallRecord, Points, Sent
  <2>3. mem[chain[1].id] \in [point : Points, archived : BOOLEAN]
    BY <1>1 DEF InventoryTypes, FileTypes, Checkpoints
  <2> HIDE DEF p
  <2>4. saved \in [point : Points, archived : BOOLEAN] /\ saved.point = p  BY <2>2, <2>3
  <2> HIDE DEF saved
  <2>5. mem' = disk' /\ loaded' = loaded /\ mem'[chain[1].id] = saved
        /\ \A j \in Native \ {chain[1].id} : mem'[j] = mem[j]
    BY <1>1, <2>1, <2>4, SavesTypes
  <2>6. c \in Call
    <3>1. chain[1].next + 1 \in Nat /\ chain[1].next + 1 >= 1 /\ 0 \in Nat  BY <1>1 DEF Call, CallRecord
    <3> DEFINE next == chain[1].next + 1
               d == [chain[1] EXCEPT !.step = "walk", !.next = next, !.ahead = 0]
    <3> HIDE DEF next
    <3>2. d \in Call  BY <1>1, <3>1 DEF Call, CallRecord, Answered, next
    <3> QED BY <3>2 DEF next
  <2>7. Goes(c)  BY <1>1, <1>2, <2>1, <2>5, <2>6, Going DEF Goes
  <2>8. disk'[chain[1].id].point = Sent(chain[1])  BY <2>4, <2>5 DEF Point, p
  <2>9. \A j \in Native \ {chain[1].id} : Point(j)' = Point(j)  BY <1>1, <2>5 DEF Point
  <2> QED BY <1>1, <1>2, <2>7, <2>8, <2>9
<1> QED BY <1>3, <1>4

LEMMA FailingIsQuiet ==
  ASSUME InventoryTypes, OnFile, NEW n, Inventory!RequestFails(n)
  PROVE  Quiet
<1> USE DEF Inventory!checkpoints, Inventory!sender, Inventory!pass
<1>1. n = 1 /\ chain # <<>>  BY FirstRuns DEF Inventory!RequestFails
<1>2. Inventory!Ends(1) /\ UNCHANGED <<disk, settled, queue, outran, mem, loaded, rec>>
  BY <1>1 DEF Inventory!RequestFails
<1> QED BY <1>1, <1>2, EndIsQuiet DEF RecordsStay, Point, OnFile

-----------------------------------------------------------------------------

LEMMA PointTypes ==
  ASSUME InventoryTypes, NEW i \in Native
  PROVE  Point(i).turn \in Nat /\ Point(i).id \in 0..MaxIds
  BY DEF InventoryTypes, FileTypes, Checkpoints, Points, Point

LEMMA HistoryDelivers ==
  ASSUME InventoryTypes, InventoryTypes', Delivered, NEW n \in 1..MaxCalls, Inventory!History(n)
  PROVE  Delivered'
<1>0. OnFile /\ Kept /\ CallKept  BY DEF Delivered
<1>k. ASSUME UNCHANGED disk, Done \subseteq Done'  PROVE Kept'
  BY <1>0, <1>k DEF Kept, Point
<1>1. CASE Inventory!Resolves(n)
  <2>1. CASE Quiet  BY <2>1, QuietDelivers
  <2>2. CASE \E k \in SessionKeys :
              /\ UNCHANGED <<disk, settled, queue, outran>>
              /\ Goes([chain[1] EXCEPT !.step = IF identities[k] = 0 THEN "list" ELSE "read",
                                       !.key = k, !.id = identities[k]])
    <3>1. PICK k \in SessionKeys :
              /\ UNCHANGED <<disk, settled, queue, outran>>
              /\ Goes([chain[1] EXCEPT !.step = IF identities[k] = 0 THEN "list" ELSE "read",
                                       !.key = k, !.id = identities[k]])
      BY <2>2
    <3> DEFINE c == [chain[1] EXCEPT !.step = IF identities[k] = 0 THEN "list" ELSE "read",
                                     !.key = k, !.id = identities[k]]
    <3>2. c.step \in {"list", "read"}  BY <3>1 DEF Goes, Call, CallRecord
    <3>3. Goes(c) /\ Kept'  BY <3>1, <1>k DEF Done
    <3> HIDE DEF c
    <3> QED BY <3>2, <3>3, GoingDelivers DEF Answered
  <2> QED BY <1>0, <1>1, <2>1, <2>2, Resolving
<1>2. CASE Inventory!Identifies(n)
  <2> DEFINE c == [chain[1] EXCEPT !.step = "read", !.id = row[chain[1].key].id]
  <2>1. Goes(c) /\ UNCHANGED <<disk, settled, queue, outran>>  BY <1>0, <1>2, Identifying
  <2>2. Kept' /\ c.step = "read"  BY <2>1, <1>k DEF Done, Goes, Call, CallRecord
  <2> HIDE DEF c
  <2> QED BY <2>1, <2>2, GoingDelivers DEF Answered
<1>3. CASE Inventory!Reads(n)
  <2>1. PICK i \in Native :
           /\ turns[i] \in 0..MaxTurns /\ Inventory!Oldest(i) \in Nat /\ Inventory!Oldest(i) >= 1
           /\ Goes([chain[1] EXCEPT !.step = "compare", !.of = i, !.last = turns[i], !.next = Inventory!Oldest(i)])
           /\ UNCHANGED <<disk, settled, queue>>
           /\ outran' = outran \cup {o \in Inventory!Outputs : o.id = i /\ o.turn < Inventory!Oldest(i)}
    BY <1>0, <1>3, Reading
  <2> DEFINE c == [chain[1] EXCEPT !.step = "compare", !.of = i, !.last = turns[i], !.next = Inventory!Oldest(i)]
  <2>2. c.step = "compare" /\ c.of = i /\ c.next = Inventory!Oldest(i)
    BY <2>1 DEF Goes, Call, CallRecord
  <2>3. Goes(c) /\ Kept'  BY <2>1, <1>k DEF Done
  <2>4. \A t \in 1..(Inventory!Oldest(i) - 1) : [id |-> i, turn |-> t] \in outran'
    <3> TAKE t \in 1..(Inventory!Oldest(i) - 1)
    <3>1. Inventory!Oldest(i) - 1 <= MaxTurns
      BY <2>1, InventoryAssumption DEF Inventory!Oldest
    <3>2. [id |-> i, turn |-> t] \in Inventory!Outputs
      BY <2>1, <3>1, InventoryAssumption DEF Inventory!Outputs, Native
    <3> QED BY <2>1, <3>2
  <2> HIDE DEF c
  <2>5. BeforeDone(c, Done')
    <3>1. \A t \in 1..(c.next - 1) : [id |-> c.of, turn |-> t] \in outran'  BY <2>2, <2>4
    <3> QED BY <2>3, <3>1 DEF BeforeDone, Done, Goes
  <2> QED BY <2>2, <2>3, <2>5, GoingDelivers
<1>4. CASE Inventory!Compares(n)
  <2>1. PICK next \in Nat :
           /\ Goes([chain[1] EXCEPT !.step = "walk", !.next = next])
           /\ chain[1].step = "compare" /\ UNCHANGED <<disk, settled, queue, outran>>
           /\ LET p == disk[chain[1].id].point IN
              \/ next = p.turn + 1 /\ p.id = chain[1].of
              \/ next = chain[1].next
    BY <1>0, <1>4, Comparing
  <2> DEFINE c == [chain[1] EXCEPT !.step = "walk", !.next = next]
             i == chain[1].id
  <2>2. c.step = "walk" /\ c.of = chain[1].of /\ c.next = next /\ i \in Native
    BY <2>1 DEF Goes, Call, CallRecord
  <2>3. Goes(c) /\ Kept' /\ Done' = Done  BY <2>1, <1>k DEF Done
  <2>4. At(Answered) /\ BeforeDone(chain[1], Done)  BY <1>0, <2>1 DEF Goes, At, Answered, CallKept
  <2>5. \A t \in 1..(next - 1) : [id |-> chain[1].of, turn |-> t] \in Done
    <3>1. CASE next = chain[1].next  BY <2>4, <3>1 DEF BeforeDone
    <3>2. CASE next = Point(i).turn + 1 /\ Point(i).id = chain[1].of
      <4>1. \A t \in 1..Point(i).turn : [id |-> Point(i).id, turn |-> t] \in Done  BY <1>0, <2>2 DEF Kept
      <4>2. Point(i).turn \in Nat  BY <2>2, PointTypes
      <4> QED BY <3>2, <4>1, <4>2
    <3> QED BY <2>1, <3>1, <3>2 DEF Point
  <2> HIDE DEF c
  <2>6. BeforeDone(c, Done')
    <3>1. \A t \in 1..(c.next - 1) : [id |-> c.of, turn |-> t] \in Done'  BY <2>2, <2>3, <2>5
    <3> QED BY <2>3, <3>1 DEF BeforeDone, Goes
  <2> QED BY <2>2, <2>3, <2>6, GoingDelivers
<1>5. CASE Inventory!RequestFails(n)  BY <1>0, <1>5, FailingIsQuiet, QuietDelivers
<1>6. CASE Inventory!Walks(n)
  <2>1. CASE Quiet  BY <2>1, QuietDelivers
  <2>2. CASE /\ chain[1].step = "walk"
             /\ Goes([chain[1] EXCEPT !.step = "sent", !.ahead = Len(queue')])
             /\ UNCHANGED <<disk, outran>> /\ queue' \in Seq(Points) /\ settled \subseteq settled'
             /\ \/ Sent(chain[1]) \in settled'
                \/ \E m \in 1..Len(queue') : queue'[m] = Sent(chain[1])
    <3> DEFINE c == [chain[1] EXCEPT !.step = "sent", !.ahead = Len(queue')]
    <3>1. c.step = "sent" /\ c.of = chain[1].of /\ c.next = chain[1].next /\ c.ahead = Len(queue')
      BY <2>2 DEF Goes, Call, CallRecord
    <3>2. Goes(c)  BY <2>2
    <3>3. Done \subseteq Done' /\ Kept'  BY <2>2, <1>k DEF Done
    <3>4. At(Answered) /\ BeforeDone(chain[1], Done)  BY <1>0, <2>2 DEF Goes, At, Answered, CallKept
    <3> HIDE DEF c
    <3>5. BeforeDone(c, Done')
      <4>1. \A t \in 1..(c.next - 1) : [id |-> c.of, turn |-> t] \in Done'  BY <3>1, <3>3, <3>4 DEF BeforeDone
      <4> QED BY <4>1 DEF BeforeDone
    <3>6. OnItsWay(c, settled', queue')
      <4>1. Sent(c) = Sent(chain[1])  BY <3>1 DEF Sent
      <4>2. \A m \in 1..Len(queue') : m <= c.ahead  BY <2>2, <3>1, LenProperties
      <4>3. Sent(c) \in settled' \/ \E m \in 1..Len(queue') : m <= c.ahead /\ queue'[m] = Sent(c)
        BY <2>2, <4>1, <4>2
      <4> QED BY <4>3 DEF OnItsWay, Sent
    <3> QED BY <3>1, <3>2, <3>3, <3>5, <3>6, GoingDelivers
  <2> QED BY <1>0, <1>6, <2>1, <2>2, Walking
<1>7. CASE Inventory!Records(n)
  <2>1. CASE Quiet  BY <2>1, QuietDelivers
  <2>2. CASE /\ chain[1].step = "sent" /\ chain[1].ahead = 0
             /\ Goes([chain[1] EXCEPT !.step = "walk", !.next = chain[1].next + 1, !.ahead = 0])
             /\ UNCHANGED <<queue, settled, outran>> /\ disk'[chain[1].id].point = Sent(chain[1])
             /\ \A j \in Native \ {chain[1].id} : Point(j)' = Point(j)
    <3> DEFINE c == [chain[1] EXCEPT !.step = "walk", !.next = chain[1].next + 1, !.ahead = 0]
    <3>1. /\ c.step = "walk" /\ c.of = chain[1].of /\ c.next = chain[1].next + 1
          /\ chain[1].next \in Nat /\ chain[1].next >= 1
      BY <2>2 DEF Goes, Call, CallRecord, Answered
    <3>2. Goes(c) /\ Done' = Done  BY <2>2 DEF Done
    <3>3. At(Answered) /\ At({"sent"}) /\ BeforeDone(chain[1], Done) /\ OnItsWay(chain[1], settled, queue)
      BY <1>0, <2>2 DEF Goes, At, Answered, CallKept
    <3>4. Sent(chain[1]) \in settled  BY <2>2, <3>3 DEF OnItsWay
    <3>5. \A t \in 1..chain[1].next : [id |-> chain[1].of, turn |-> t] \in Done
      <4> TAKE t \in 1..chain[1].next
      <4>1. CASE t = chain[1].next  BY <3>4, <4>1 DEF Sent, Done
      <4>2. CASE t # chain[1].next  BY <3>1, <3>3, <4>2 DEF BeforeDone
      <4> QED BY <4>1, <4>2
    <3> HIDE DEF c
    <3>6. BeforeDone(c, Done')
      <4>1. \A t \in 1..(c.next - 1) : [id |-> c.of, turn |-> t] \in Done'  BY <3>1, <3>2, <3>5
      <4> QED BY <4>1 DEF BeforeDone
    <3>7. Kept'
      <4> SUFFICES ASSUME NEW j \in Native, NEW t \in 1..disk'[j].point.turn
                   PROVE  [id |-> disk'[j].point.id, turn |-> t] \in Done'
        BY DEF Kept, Point
      <4>1. CASE j = chain[1].id  BY <2>2, <3>2, <3>5, <4>1 DEF Sent
      <4>2. CASE j # chain[1].id  BY <1>0, <2>2, <3>2, <4>2 DEF Kept, Point
      <4> QED BY <4>1, <4>2
    <3> QED BY <3>1, <3>2, <3>6, <3>7, GoingDelivers
  <2> QED BY <1>0, <1>7, <2>1, <2>2, Recording
<1> QED BY <1>1, <1>2, <1>3, <1>4, <1>5, <1>6, <1>7 DEF Inventory!History

LEMMA SendsDelivers ==
  ASSUME InventoryTypes, InventoryTypes', Delivered, Inventory!Sends
  PROVE  Delivered'
<1>0. OnFile /\ Kept /\ CallKept  BY DEF Delivered
<1>1. /\ UNCHANGED <<mem, disk, loaded, outran>> /\ settled \subseteq settled' /\ rec'.step = rec.step
      /\ Len(chain') = Len(chain) /\ Len(chain) \in Nat
      /\ \A n \in 1..Len(chain) : chain[n] \in Call /\ chain'[n] = [chain[n] EXCEPT !.ahead = Inventory!Nearer(chain[n].ahead)]
  BY Sending, SendsTypes, Firsts DEF InventoryTypes, CallTypes
<1>2. \A n \in 1..Len(chain) :
        /\ chain'[n].step = chain[n].step /\ chain'[n].of = chain[n].of /\ chain'[n].next = chain[n].next
        /\ chain'[n].ahead = Inventory!Nearer(chain[n].ahead) /\ chain[n].ahead \in Nat
  BY <1>1 DEF Call, CallRecord
<1>3. OnFile'  BY <1>0, <1>1, <1>2 DEF OnFile
<1>4. Done \subseteq Done' /\ Kept'  BY <1>0, <1>1 DEF Kept, Point, Done
<1>5. ASSUME NEW S, At(S)'  PROVE 1 \in 1..Len(chain) /\ At(S)
  <2>1. chain \in Seq(Call) /\ chain' \in Seq(Call)  BY DEF InventoryTypes, CallTypes
  <2>2. 1 \in 1..Len(chain)  BY <1>1, <1>5, <2>1, Firsts DEF At
  <2> QED BY <1>2, <1>5, <2>1, <2>2, Firsts DEF At
<1>6. At(Answered)' => BeforeDone(chain'[1], Done')
  <2> SUFFICES ASSUME At(Answered)'  PROVE BeforeDone(chain'[1], Done')
    OBVIOUS
  <2> QED BY <1>0, <1>2, <1>4, <1>5 DEF BeforeDone, CallKept
<1>7. At({"sent"})' => OnItsWay(chain'[1], settled', queue')
  <2> SUFFICES ASSUME At({"sent"})'  PROVE OnItsWay(chain'[1], settled', queue')
    OBVIOUS
  <2> DEFINE c == chain[1]
             o == Sent(c)
  <2>1. 1 \in 1..Len(chain) /\ OnItsWay(c, settled, queue) /\ c.step = "sent" /\ c \in Call
    <3>1. 1 \in 1..Len(chain) /\ At({"sent"})  BY <1>5
    <3> QED BY <3>1, <1>0, <1>1 DEF CallKept, At
  <2>2. Sent(chain'[1]) = o  BY <1>2, <2>1 DEF Sent
  <2>3. o # Inventory!Note
    BY <2>1 DEF Sent, Call, Answered, Inventory!Note, Native, Inventory!Ids
  <2>4. queue \in Seq(Points) /\ queue' \in Seq(Points) /\ Len(queue') = Len(queue) - 1
        /\ \A m \in 1..Len(queue') : queue'[m] = queue[m + 1]
    BY Sending DEF InventoryTypes, SenderTypes
  <2>5. CASE o \in settled  BY <1>1, <2>2, <2>5 DEF OnItsWay
  <2>6. CASE \E m \in 1..Len(queue) : m <= c.ahead /\ queue[m] = o
    <3>1. PICK m \in 1..Len(queue) : m <= c.ahead /\ queue[m] = o  BY <2>6
    <3>2. CASE m = 1
      <4>1. o \in settled'  BY <2>3, <3>1, <3>2, Sending
      <4> QED BY <2>2, <4>1 DEF OnItsWay
    <3>3. CASE m # 1
      <4>1. Len(queue) \in Nat /\ c.ahead \in Nat  BY <1>2, <2>1, <2>4, LenProperties
      <4>2. m - 1 \in 1..Len(queue') /\ queue'[m - 1] = o  BY <2>4, <3>1, <3>3, <4>1
      <4>3. chain'[1].ahead = c.ahead - 1 /\ m - 1 <= chain'[1].ahead
        <5>1. c.ahead > 0 /\ m - 1 <= c.ahead - 1  BY <3>1, <3>3, <4>1
        <5>2. Inventory!Nearer(c.ahead) = c.ahead - 1  BY <5>1, <4>1, Nearing
        <5> QED BY <1>2, <2>1, <5>1, <5>2
      <4> HIDE DEF o
      <4> QED BY <2>2, <4>2, <4>3 DEF OnItsWay
    <3> QED BY <3>2, <3>3
  <2> QED BY <2>1, <2>5, <2>6 DEF OnItsWay
<1> QED BY <1>3, <1>4, <1>6, <1>7 DEF Delivered, CallKept

LEMMA CrashDelivers ==
  ASSUME InventoryTypes, InventoryTypes', Delivered, Inventory!Crash
  PROVE  Delivered'
<1>1. /\ UNCHANGED <<disk, settled, outran>> /\ loaded' = "no" /\ rec' = Inventory!NoPass /\ chain' = <<>>
  BY DEF Inventory!Crash
<1>2. ~(chain' # <<>>) /\ Len(chain') = 0  BY <1>1
<1>3. OnFile'  BY <1>1, <1>2, PassStarts DEF OnFile
<1>4. Kept' /\ CallKept'  BY <1>1, <1>2 DEF Delivered, Kept, Point, Done, CallKept, At
<1> QED BY <1>3, <1>4 DEF Delivered

LEMMA StepDelivers ==
  ASSUME InventoryTypes, Delivered, Inventory!Next
  PROVE  Delivered'
<1>0. InventoryTypes' /\ OnFile  BY StepTypes DEF Delivered
<1>1. CASE Inventory!Pass  BY <1>0, <1>1, QuietPass, QuietDelivers
<1>2. CASE Inventory!Client \/ Inventory!RefreshAsked \/ Inventory!Disconnects \/ Inventory!Dispose
           \/ Inventory!Resets \/ Inventory!Rows \/ Inventory!Hooks
  BY <1>0, <1>2, QuietRest, QuietDelivers
<1>3. CASE Inventory!Sends  BY <1>0, <1>3, SendsDelivers
<1>4. CASE Inventory!Crash  BY <1>0, <1>4, CrashDelivers
<1>5. CASE Inventory!Calls
  <2>1. CASE \E n \in 1..MaxCalls : Inventory!History(n)  BY <1>0, <2>1, HistoryDelivers
  <2>2. CASE \E l \in Inventory!Ids : Inventory!Asked(l)
    BY <1>0, <2>2, AskedIsQuiet, QuietDelivers DEF Native
  <2>3. CASE \E k \in SessionKeys : Inventory!Turn(k)  BY <1>0, <2>3, QuietRest, QuietDelivers
  <2> QED BY <1>5, <2>1, <2>2, <2>3 DEF Inventory!Calls
<1> QED BY <1>1, <1>2, <1>3, <1>4, <1>5 DEF Inventory!Next

-----------------------------------------------------------------------------
(* Nothing on record is published again.                                   *)

\* Its parts about the rows and about the call that runs.
Rows == Numbered /\ Owned
Course == CallNumbered /\ Ahead
Begun == {"list", "read"} \cup Answered

\* A step of others leaves the call that runs as it is, but for its wait.
CallSame ==
  At(Begun)' =>
    /\ At(Begun) /\ chain[1] \in Call /\ chain'[1].step = chain[1].step /\ chain'[1].key = chain[1].key
    /\ chain'[1].id = chain[1].id /\ chain'[1].of = chain[1].of
    /\ chain'[1].next = chain[1].next /\ chain'[1].last = chain[1].last
PointsSame == \A i \in Native : Point(i)' = Point(i)
\* No row changes; who is looked at or known was on the list, or is so still.
Names ==
  /\ UNCHANGED <<row, ids, turns>>
  /\ \A k \in SessionKeys : rec'.rows[k].id \in {rec.rows[k].id, 0, row[k].id}
  /\ \A k \in SessionKeys : identities'[k] \in {identities[k], 0, rec.rows[k].id}

LEMMA IdTypes ==
  ASSUME InventoryTypes, NEW k \in SessionKeys
  PROVE  /\ row[k].id \in Native /\ row[k].id \in Nat \ {0} /\ row[k].archived \in BOOLEAN
         /\ identities[k] \in Nat /\ rec.rows[k].id \in Nat /\ rec.rows[k].archived \in BOOLEAN /\ ids \in Nat
         /\ loop[k] \in 0..MaxIds
<1>1. row[k] \in Inventory!Row /\ ids \in Nat  BY DEF InventoryTypes, GatewayTypes
<1>2. row[k].id \in Native /\ row[k].archived \in BOOLEAN  BY <1>1 DEF Inventory!Row, Native
<1>3. row[k].id \in Nat \ {0}  BY <1>2, InventoryAssumption DEF Native, Inventory!Ids
<1>4. loop[k] \in 0..MaxIds /\ identities[k] \in 0..MaxIds  BY DEF InventoryTypes, TrackerTypes
<1>5. rec.rows \in Listed  BY DEF InventoryTypes, PassTypes, PassRecord
<1>6. rec.rows[k].id \in 0..MaxIds /\ rec.rows[k].archived \in BOOLEAN  BY <1>5 DEF Listed
<1> QED BY <1>1, <1>2, <1>3, <1>4, <1>6, InventoryAssumption

LEMMA TurnTypes ==
  ASSUME InventoryTypes, NEW i \in Native
  PROVE  turns[i] \in Nat
  BY InventoryAssumption DEF InventoryTypes, GatewayTypes

LEMMA QuietSame ==
  ASSUME InventoryTypes, InventoryTypes', Quiet
  PROVE  CallSame /\ PointsSame
<1>1. CallsStay /\ PointsSame  BY DEF Quiet, RecordsStay, PointsSame
<1>2. At(Begun)' => At(Begun) /\ chain'[1] = chain[1] /\ chain[1] \in Call
  BY <1>1, SameCall DEF Begun, Answered
<1> QED BY <1>1, <1>2 DEF CallSame, CallsStay

LEMMA SendsSame ==
  ASSUME InventoryTypes, Inventory!Sends
  PROVE  CallSame /\ PointsSame
<1>1. /\ Len(chain') = Len(chain) /\ Len(chain) \in Nat /\ disk' = disk
      /\ \A n \in 1..Len(chain) : chain[n] \in Call /\ chain'[n] = [chain[n] EXCEPT !.ahead = Inventory!Nearer(chain[n].ahead)]
  BY Sending, Firsts DEF InventoryTypes, CallTypes
<1>2. \A n \in 1..Len(chain) :
        /\ chain'[n].step = chain[n].step /\ chain'[n].of = chain[n].of /\ chain'[n].next = chain[n].next
        /\ chain'[n].id = chain[n].id /\ chain'[n].key = chain[n].key /\ chain'[n].last = chain[n].last
  BY <1>1 DEF Call, CallRecord
<1>3. At(Begun)' => 1 \in 1..Len(chain) /\ At(Begun)
  <2>1. chain \in Seq(Call) /\ chain' \in Seq(Call)  BY Sending DEF InventoryTypes, CallTypes
  <2>2. chain' # <<>> => 1 \in 1..Len(chain) /\ chain # <<>>  BY <1>1, <2>1, Firsts
  <2> QED BY <1>2, <2>2 DEF At
<1> QED BY <1>1, <1>2, <1>3 DEF CallSame, PointsSame, Point

LEMMA NamesNumber ==
  ASSUME InventoryTypes, InventoryTypes', Rows, Names, PointsSame
  PROVE  Rows'
<1>1. /\ Numbered /\ Owned /\ UNCHANGED <<row, ids, turns>>
      /\ \A k \in SessionKeys : rec'.rows[k].id \in {rec.rows[k].id, 0, row[k].id}
      /\ \A k \in SessionKeys : identities'[k] \in {identities[k], 0, rec.rows[k].id}
  BY DEF Rows, Names
<1>2. \A k \in SessionKeys : row[k].id \in Nat \ {0} /\ ids \in Nat  BY IdTypes
<1>3. \A k \in SessionKeys : row'[k].id <= ids' /\ identities'[k] <= ids' /\ rec'.rows[k].id <= ids'
  BY <1>1, <1>2 DEF Numbered
<1>4. \A k, l \in SessionKeys : k # l =>
         row'[k].id # row'[l].id /\ identities'[k] # row'[l].id /\ rec'.rows[k].id # row'[l].id
  BY <1>1, <1>2 DEF Numbered
<1>5. \A i \in Native : /\ Point(i)'.id <= ids' /\ (Point(i)'.id = i => Point(i)'.turn <= turns'[i])
                        /\ i > ids' => Point(i)'.id = 0
  BY <1>1 DEF Numbered, PointsSame
<1>6. \A k \in SessionKeys : OwnAt(k)'
  <2> TAKE k \in SessionKeys
  <2>1. row[k].id \in Native /\ row' = row  BY <1>1, IdTypes
  <2>2. disk'[row'[k].id].point = disk[row[k].id].point  BY <2>1 DEF PointsSame, Point
  <2> QED BY <1>1, <2>1, <2>2 DEF Owned, OwnAt, Point
<1> QED BY <1>3, <1>4, <1>5, <1>6 DEF Rows, Numbered, Owned

\* The calls, where no row changes.
LEMMA NamesCourse ==
  ASSUME InventoryTypes, InventoryTypes', Course, UNCHANGED <<row, ids, turns>>, CallSame, PointsSame
  PROVE  Course'
<1> USE DEF Course
<1>0. ASSUME NEW S \in SUBSET Begun, At(S)'
      PROVE  /\ At(S) /\ chain[1] \in Call /\ chain'[1].step = chain[1].step /\ chain'[1].key = chain[1].key
             /\ chain'[1].id = chain[1].id /\ chain'[1].of = chain[1].of
             /\ chain'[1].next = chain[1].next /\ chain'[1].last = chain[1].last
  BY <1>0 DEF CallSame, At
<1>1. {"read"} \cup Answered \in SUBSET Begun /\ Answered \in SUBSET Begun  BY DEF Begun
<1>2. CallNumbered'
  <2> SUFFICES ASSUME At({"read"} \cup Answered)'  PROVE NumberedCall(chain[1])'
    BY DEF CallNumbered
  <2>1. At({"read"} \cup Answered) /\ NumberedCall(chain[1])  BY <1>0, <1>1 DEF CallNumbered
  <2> QED BY <1>0, <1>1, <2>1 DEF NumberedCall
<1>3. Ahead'
  <2> SUFFICES ASSUME At(Answered)'  PROVE AheadOf(chain'[1], disk')
    BY DEF Ahead
  <2>1. At(Answered) /\ AheadOf(chain[1], disk) /\ chain[1] \in Call  BY <1>0, <1>1 DEF Ahead
  <2>2. chain[1].of \in Native  BY <2>1 DEF At, Call
  <2>3. disk'[chain'[1].of].point = disk[chain[1].of].point
    <3>1. disk'[chain[1].of].point = disk[chain[1].of].point  BY <2>2 DEF PointsSame, Point
    <3> QED BY <3>1, <1>0, <1>1
  <2> QED BY <1>0, <1>1, <2>1, <2>3 DEF AheadOf
<1> QED BY <1>2, <1>3

LEMMA BlankRows ==
  /\ \A k \in SessionKeys : Inventory!NoPass.rows[k].id = 0
  /\ \A k \in SessionKeys : [Inventory!NoPass EXCEPT !.step = "load"].rows[k].id = 0
  BY DEF Inventory!NoPass, Inventory!Unseen

LEMMA PassNames ==
  ASSUME InventoryTypes, InventoryTypes', Inventory!Pass
  PROVE  Names
<1>r. rec \in PassRecord  BY DEF InventoryTypes, PassTypes
<1>1. CASE \E k \in SessionKeys : Inventory!Observes(k)
  <2>1. PICK k \in SessionKeys : Inventory!Observes(k)  BY <1>1
  <2>2. UNCHANGED <<row, ids, turns>>  BY <2>1, Observing
  <2>3. rec'.rows = rec.rows
    <3>1. CASE disposed
      <4>1. rec' = [rec EXCEPT !.left = {}]  BY <2>1, <3>1, Observing
      <4> QED BY <1>r, <4>1 DEF PassRecord
    <3>2. CASE ~disposed
      <4>1. rec' = [rec EXCEPT !.step = "told", !.key = k, !.ahead = Len(queue'), !.left = rec.left \ {k}]
        BY <2>1, <3>2, Observing
      <4> QED BY <1>r, <4>1 DEF PassRecord
    <3> QED BY <3>1, <3>2
  <2>4. \A l \in SessionKeys : identities'[l] \in {identities[l], rec.rows[l].id}
    <3>1. CASE disposed  BY <2>1, <3>1, Observing
    <3>2. CASE ~disposed
      <4>1. identities' = [identities EXCEPT ![k] = rec.rows[k].id]  BY <2>1, <3>2, Observing
      <4>2. identities \in [SessionKeys -> 0..MaxIds]  BY DEF InventoryTypes, TrackerTypes
      <4> QED BY <4>1, <4>2
    <3> QED BY <3>1, <3>2
  <2> QED BY <2>2, <2>3, <2>4 DEF Names
<1>2. CASE Inventory!Marks
  <2>1. UNCHANGED <<row, ids, turns, identities>>  BY <1>2, Marking
  <2>2. rec' = Inventory!NoPass \/ rec'.rows = rec.rows  BY <1>2, Marking
  <2> QED BY <2>1, <2>2, BlankRows DEF Names
<1>3. CASE Inventory!PassLoads \/ Inventory!Lists \/ Inventory!ListFails \/ Inventory!PassEnds
  <2>1. UNCHANGED <<row, ids, turns, identities>>  BY <1>3, PassSteps
  <2>2. \A k \in SessionKeys : rec'.rows[k].id \in {rec.rows[k].id, 0, row[k].id}
    <3>1. Inventory!PassFails => \A k \in SessionKeys : rec'.rows[k].id = 0
      BY BlankRows DEF Inventory!PassFails
    <3>2. CASE Inventory!PassLoads
      <4>1. Inventory!PassFails \/ rec' = [rec EXCEPT !.step = "list"]
        BY <3>2 DEF Inventory!PassLoads, Inventory!PassGoes
      <4>2. [rec EXCEPT !.step = "list"].rows = rec.rows  BY <1>r DEF PassRecord
      <4> QED BY <3>1, <4>1, <4>2
    <3>3. CASE Inventory!Lists
      <4>1. rec' = [rec EXCEPT !.step = "rows", !.rows = row, !.left = SessionKeys]
        BY <3>3 DEF Inventory!Lists, Inventory!PassGoes
      <4>2. rec'.rows = row  BY <1>r, <4>1 DEF PassRecord
      <4> QED BY <4>2
    <3>4. CASE Inventory!ListFails  BY <3>1, <3>4 DEF Inventory!ListFails
    <3>5. CASE Inventory!PassEnds  BY <3>5, BlankRows DEF Inventory!PassEnds
    <3> QED BY <1>3, <3>2, <3>3, <3>4, <3>5
  <2> QED BY <2>1, <2>2 DEF Names
<1> QED BY <1>1, <1>2, <1>3 DEF Inventory!Pass

LEMMA ClientNames ==
  ASSUME InventoryTypes, InventoryTypes', Inventory!Client \/ Inventory!RefreshAsked \/ Inventory!Disconnects
  PROVE  Names
<1> USE DEF Inventory!gateway
<1>1. UNCHANGED <<row, ids, turns, identities>>
  BY DEF Inventory!Client, Inventory!Event, Inventory!Hello, Inventory!Subscribes, Inventory!Subscribed,
     Inventory!RefreshAsked, Inventory!Disconnects
<1>2. rec' = rec \/ rec' = [Inventory!NoPass EXCEPT !.step = "load"]
  <2>1. rec' = rec \/ Inventory!Refreshes
    BY DEF Inventory!Client, Inventory!Event, Inventory!Hello, Inventory!Subscribes, Inventory!Subscribed,
     Inventory!RefreshAsked, Inventory!Disconnects, Inventory!pass
  <2> QED BY <2>1, RefreshesTypes DEF InventoryTypes, GatewayTypes
<1> QED BY <1>1, <1>2, BlankRows DEF Names

LEMMA SendsNames ==
  ASSUME InventoryTypes, Inventory!Sends
  PROVE  Names
<1>1. UNCHANGED <<row, ids, turns, identities>> /\ rec'.rows = rec.rows
  BY Sending, SendsTypes
<1> QED BY <1>1 DEF Names

LEMMA HooksName ==
  ASSUME InventoryTypes, Inventory!Hooks \/ Inventory!Dispose \/ \E k \in SessionKeys : Inventory!HookEnds(k)
  PROVE  Names
<1>1. UNCHANGED <<row, ids, turns, rec>> /\ \A k \in SessionKeys : identities'[k] \in {identities[k], 0}
  BY DEF Inventory!Hooks, Inventory!HookStarts, Inventory!HookEnds, Inventory!Dispose, Inventory!gateway, Inventory!pass
<1> QED BY <1>1 DEF Names

LEMMA CrashNames ==
  ASSUME InventoryTypes, Inventory!Crash
  PROVE  Names /\ chain' = <<>> /\ disk' = disk
<1>1. /\ UNCHANGED <<row, ids, turns, disk>> /\ rec' = Inventory!NoPass /\ chain' = <<>>
      /\ loop' = [k \in SessionKeys |-> 0] /\ identities' = loop'
  BY DEF Inventory!Crash, Inventory!gateway
<1> QED BY <1>1, BlankRows DEF Names

\* The conjunctions that a step keeps, by what it does.
LEMMA NamesKeep ==
  ASSUME InventoryTypes, InventoryTypes', Rows, Course, Names, CallSame, PointsSame
  PROVE  Rows' /\ Course'
BY NamesNumber, NamesCourse DEF Names

LEMMA CrashClears ==
  ASSUME InventoryTypes, InventoryTypes', Rows, Course, Inventory!Crash
  PROVE  Rows' /\ Course'
<1>1. Names /\ chain' = <<>> /\ disk' = disk  BY CrashNames
<1>2. CallSame /\ PointsSame  BY <1>1 DEF CallSame, PointsSame, Point, At
<1> QED BY <1>1, <1>2, NamesKeep

LEMMA OthersLeave ==
  ASSUME InventoryTypes, NEW k \in SessionKeys,
         Inventory!Reset(k) \/ Inventory!Archives(k) \/ Inventory!Turn(k)
  PROVE  UNCHANGED <<chain, disk, disposed, loop, identities, rec>>
  BY DEF Inventory!Reset, Inventory!Archives, Inventory!Changes, Inventory!Turn, Inventory!tracker,
     Inventory!checkpoints, Inventory!calls, Inventory!pass

LEMMA TurnKeeps ==
  ASSUME InventoryTypes, InventoryTypes', Rows, Course, NEW k \in SessionKeys, Inventory!Turn(k)
  PROVE  Rows' /\ Course'
<1>1. UNCHANGED <<chain, disk, disposed, loop, identities, rec>>  BY OthersLeave
<1>2. UNCHANGED <<row, ids>> /\ turns' = [turns EXCEPT ![row[k].id] = turns[row[k].id] + 1]
  BY DEF Inventory!Turn
<1>3. \A i \in Native : turns[i] \in Nat /\ turns[i] <= turns'[i]
  <2> TAKE i \in Native
  <2>1. turns[i] \in Nat /\ turns \in [Native -> 0..MaxTurns]  BY TurnTypes DEF InventoryTypes, GatewayTypes
  <2> QED BY <1>2, <2>1
<1>4. Rows'
  <2>1. \A i \in Native : Point(i).turn \in Nat  BY PointTypes
  <2>2. \A i \in Native : turns'[i] \in Nat  BY <1>3, TurnTypes, InventoryAssumption DEF InventoryTypes, GatewayTypes
  <2>3. Numbered'  BY <1>1, <1>2, <1>3, <2>1, <2>2 DEF Rows, Numbered, Point
  <2>4. Owned'  BY <1>1, <1>2 DEF Rows, Owned, OwnAt, Point
  <2> QED BY <2>3, <2>4 DEF Rows
<1>6. CallNumbered'
  <2> SUFFICES ASSUME At({"read"} \cup Answered)'  PROVE NumberedCall(chain[1])'
    BY DEF CallNumbered
  <2>1. NumberedCall(chain[1]) /\ chain # <<>> /\ chain[1].step \in {"read"} \cup Answered
    BY <1>1 DEF Course, CallNumbered, At
  <2>2. chain[1] \in Call  BY <2>1, Firsts DEF InventoryTypes, CallTypes
  <2>3. chain[1].last \in Nat /\ (chain[1].step \in Answered => chain[1].of \in Native)
    BY <2>2 DEF Call, CallRecord
  <2>4. chain[1].step \in Answered => chain[1].last <= turns'[chain[1].of]
    <3> SUFFICES ASSUME chain[1].step \in Answered  PROVE chain[1].last <= turns'[chain[1].of]
      OBVIOUS
    <3> DEFINE i == chain[1].of
    <3>1. i \in Native /\ chain[1].last <= turns[i]  BY <2>1, <2>3 DEF NumberedCall
    <3> HIDE DEF i
    <3>2. turns'[i] \in Nat  BY <3>1, InventoryAssumption DEF InventoryTypes, GatewayTypes
    <3>3. turns[i] \in Nat /\ turns[i] <= turns'[i]  BY <1>3, <3>1
    <3>4. chain[1].last <= turns'[i]  BY <2>3, <3>1, <3>2, <3>3
    <3> QED BY <3>4 DEF i
  <2> QED BY <1>1, <1>2, <2>1, <2>4 DEF NumberedCall
<1>7. Ahead'  BY <1>1 DEF Course, Ahead, AheadOf, At
<1> QED BY <1>4, <1>6, <1>7 DEF Course

LEMMA ArchivesKeeps ==
  ASSUME InventoryTypes, InventoryTypes', Rows, Course, NEW k \in SessionKeys, Inventory!Archives(k)
  PROVE  Rows' /\ Course'
<1>1. UNCHANGED <<chain, disk, disposed, loop, identities, rec>>  BY OthersLeave
<1>2. UNCHANGED <<turns, ids>> /\ \A l \in SessionKeys : row'[l].id = row[l].id
  <2>1. UNCHANGED <<turns, ids>> /\ row' = [row EXCEPT ![k] = [row[k] EXCEPT !.archived = ~row[k].archived]]
    BY DEF Inventory!Archives, Inventory!Changes
  <2>2. row \in [SessionKeys -> Inventory!Row] /\ row[k] \in Inventory!Row  BY DEF InventoryTypes, GatewayTypes
  <2>3. [row[k] EXCEPT !.archived = ~row[k].archived].id = row[k].id  BY <2>2 DEF Inventory!Row
  <2> QED BY <2>1, <2>2, <2>3
<1>3. Numbered' /\ Owned'  BY <1>1, <1>2 DEF Rows, Numbered, Owned, OwnAt, Point
<1>4. CallNumbered'
  <2> SUFFICES ASSUME At({"read"} \cup Answered)'  PROVE NumberedCall(chain[1])'
    BY DEF CallNumbered
  <2>1. NumberedCall(chain[1]) /\ chain # <<>> /\ chain[1].step \in {"read"} \cup Answered
    BY <1>1 DEF Course, CallNumbered, At
  <2>2. chain[1].key \in SessionKeys  BY <2>1, Firsts DEF InventoryTypes, CallTypes, Call, Answered
  <2> QED BY <1>1, <1>2, <2>1, <2>2 DEF NumberedCall
<1>5. Ahead'  BY <1>1 DEF Course, Ahead, AheadOf, At
<1> QED BY <1>3, <1>4, <1>5 DEF Rows, Course

\* A session that replaces another has a number that nobody knows and no record.
LEMMA ResetKeeps ==
  ASSUME InventoryTypes, InventoryTypes', Rows, Course, NEW k \in SessionKeys, Inventory!Reset(k)
  PROVE  Rows' /\ Course'
<1> DEFINE new == ids + 1
<1>1. UNCHANGED <<chain, disk, disposed, loop, identities, rec>>  BY OthersLeave
<1>2. /\ ids' = new /\ turns' = turns /\ ids < MaxIds /\ row'[k] = [id |-> new, archived |-> FALSE]
      /\ \A l \in SessionKeys \ {k} : row'[l] = row[l]
  <2>1. ids < MaxIds /\ ids' = new /\ turns' = turns /\ row' = [row EXCEPT ![k] = [id |-> new, archived |-> FALSE]]
    BY DEF Inventory!Reset, Inventory!Changes
  <2>2. row \in [SessionKeys -> Inventory!Row]  BY DEF InventoryTypes, GatewayTypes
  <2> QED BY <2>1, <2>2
<1>3. new \in Native /\ ids \in Nat /\ new \in Nat
  BY <1>2, InventoryAssumption DEF InventoryTypes, GatewayTypes, Native, Inventory!Ids
<1>4. \A l \in SessionKeys : /\ row[l].id \in Nat /\ row[l].id <= ids /\ identities[l] \in Nat
                             /\ identities[l] <= ids /\ rec.rows[l].id \in Nat /\ rec.rows[l].id <= ids
  BY IdTypes DEF Rows, Numbered
<1>5. row'[k].id = new  BY <1>2
<1>8. Point(new).id = 0  BY <1>3 DEF Rows, Numbered
<1> HIDE DEF new
<1>6. new > ids /\ \A l \in SessionKeys : row[l].id # new /\ identities[l] # new /\ rec.rows[l].id # new
  BY <1>3, <1>4 DEF new
<1>7. \A i \in Native : Point(i).id \in Nat /\ Point(i).id <= ids
  BY PointTypes, InventoryAssumption DEF Rows, Numbered
<1>9. Numbered'
  <2>1. \A l \in SessionKeys : row'[l].id <= ids' /\ identities'[l] <= ids' /\ rec'.rows[l].id <= ids'
    <3> TAKE l \in SessionKeys
    <3>1. row'[l].id <= new  BY <1>2, <1>3, <1>4, <1>5, <1>6
    <3>2. identities[l] <= new /\ rec.rows[l].id <= new  BY <1>3, <1>4, <1>6
    <3> QED BY <1>1, <1>2, <3>1, <3>2
  <2>2. \A a, b \in SessionKeys : a # b =>
          row'[a].id # row'[b].id /\ identities'[a] # row'[b].id /\ rec'.rows[a].id # row'[b].id
    <3> TAKE a, b \in SessionKeys
    <3>1. CASE b = k  BY <1>1, <1>2, <1>5, <1>6, <3>1
    <3>2. CASE b # k
      <4>1. row'[b] = row[b]  BY <1>2, <3>2
      <4>2. a # b => identities[a] # row[b].id /\ rec.rows[a].id # row[b].id /\ row[a].id # row[b].id
        BY DEF Rows, Numbered
      <4>3. row'[a].id = row[a].id \/ row'[a].id = new  BY <1>2, <1>5
      <4> QED BY <1>1, <1>6, <4>1, <4>2, <4>3
    <3> QED BY <3>1, <3>2
  <2>3. \A i \in Native : /\ Point(i)'.id <= ids' /\ (Point(i)'.id = i => Point(i)'.turn <= turns'[i])
                          /\ i > ids' => Point(i)'.id = 0
    <3> TAKE i \in Native
    <3>1. Point(i)' = Point(i)  BY <1>1 DEF Point
    <3>2. Point(i).id <= new
      <4> DEFINE p == Point(i).id
      <4>1. p \in Nat /\ p <= ids  BY <1>7
      <4> HIDE DEF p
      <4>2. p <= new  BY <1>3, <1>6, <4>1
      <4> QED BY <4>2 DEF p
    <3>3. i > new => i > ids  BY <1>3, <1>6 DEF Native, Inventory!Ids
    <3> QED BY <1>2, <3>1, <3>2, <3>3 DEF Rows, Numbered
  <2> QED BY <2>1, <2>2, <2>3 DEF Numbered
<1>10. Owned'
  <2> SUFFICES ASSUME NEW l \in SessionKeys  PROVE OwnAt(l)'
    BY DEF Owned
  <2>1. CASE l = k  BY <1>1, <1>5, <1>8, <2>1 DEF OwnAt, Point
  <2>2. CASE l # k
    <3>1. row'[l] = row[l]  BY <1>2, <2>2
    <3> QED BY <1>1, <3>1 DEF Rows, Owned, OwnAt, Point
  <2> QED BY <2>1, <2>2
<1>11. ASSUME At({"read"} \cup Answered)'
       PROVE  /\ At({"read"} \cup Answered) /\ chain[1] \in Call /\ chain[1].key \in SessionKeys
              /\ chain[1].id \in Nat /\ chain[1].of \in Nat /\ chain[1].id <= ids /\ NumberedCall(chain[1])
  <2>1. At({"read"} \cup Answered) /\ NumberedCall(chain[1])  BY <1>1, <1>11 DEF At, Course, CallNumbered
  <2>2. chain[1] \in Call  BY <2>1, Firsts DEF InventoryTypes, CallTypes, At
  <2> QED BY <2>1, <2>2, InventoryAssumption DEF Call, CallRecord, At, Answered, NumberedCall
<1>12. CallNumbered'
  <2> SUFFICES ASSUME At({"read"} \cup Answered)'  PROVE NumberedCall(chain[1])'
    BY DEF CallNumbered
  <2> DEFINE c == chain[1]
  <2>1. c.id \in Nat /\ c.of \in Nat /\ c.id <= ids /\ NumberedCall(c) /\ c.key \in SessionKeys  BY <1>11
  <2>2. c.id <= new /\ c.id # new /\ (c.step \in Answered => c.of <= new)
    BY <1>3, <1>6, <2>1 DEF NumberedCall
  <2>3. \A l \in SessionKeys \ {c.key} : c.id # row'[l].id  BY <1>2, <1>5, <2>1, <2>2 DEF NumberedCall
  <2>4. c.step \in Answered => c.last <= turns'[c.of]  BY <1>2, <2>1 DEF NumberedCall
  <2>5. c.step = "sent" => c.next <= c.last  BY <2>1 DEF NumberedCall
  <2>6. c.step \in Answered => (c.id = row'[c.key].id => c.of = c.id)
    <3>1. CASE c.key = k  BY <1>5, <2>2, <3>1
    <3>2. CASE c.key # k
      <4>1. row'[c.key] = row[c.key]  BY <1>2, <2>1, <3>2
      <4> QED BY <2>1, <4>1 DEF NumberedCall
    <3> QED BY <3>1, <3>2
  <2> QED BY <1>1, <1>2, <2>2, <2>3, <2>4, <2>5, <2>6 DEF NumberedCall
<1>13. Ahead'  BY <1>1 DEF Course, Ahead, AheadOf, At
<1> QED BY <1>9, <1>10, <1>12, <1>13 DEF Rows, Course

LEMMA HistoryLeaves ==
  ASSUME NEW n, Inventory!History(n)
  PROVE  UNCHANGED <<row, ids, turns, identities, loop, rec, disposed>>
  BY DEF Inventory!History, Inventory!Resolves, Inventory!Identifies, Inventory!Reads, Inventory!RequestFails,
     Inventory!Compares, Inventory!Walks, Inventory!Records, Inventory!gateway, Inventory!tracker, Inventory!pass

LEMMA LeavesRows ==
  ASSUME InventoryTypes, InventoryTypes', Rows, UNCHANGED <<row, ids, turns, identities, loop, rec, disposed>>
  PROVE  Names /\ (PointsSame => Rows')
<1>1. Names  BY DEF Names
<1> QED BY <1>1, NamesNumber

\* The call that goes on is as the conjunctions say.
LEMMA GoesKeeps ==
  ASSUME InventoryTypes, UNCHANGED <<row, ids, turns, identities, loop, rec, disposed>>, NEW c, Goes(c),
         c.step \in {"read"} \cup Answered => NumberedCall(c),
         c.step \in Answered => AheadOf(c, disk')
  PROVE  Course'
<1>1. chain'[1] = c  BY DEF Goes
<1>2. CallNumbered'
  <2> SUFFICES ASSUME At({"read"} \cup Answered)'  PROVE NumberedCall(chain[1])'
    BY DEF CallNumbered
  <2>1. NumberedCall(c)  BY <1>1 DEF At
  <2> QED BY <1>1, <2>1 DEF NumberedCall
<1>3. Ahead'  BY <1>1 DEF Ahead, At
<1> QED BY <1>2, <1>3 DEF Course

LEMMA HistoryKeeps ==
  ASSUME InventoryTypes, InventoryTypes', OnFile, Rows, Course, NEW n \in 1..MaxCalls, Inventory!History(n)
  PROVE  Rows' /\ Course'
<1>0. UNCHANGED <<row, ids, turns, identities, loop, rec, disposed>>  BY HistoryLeaves
<1>l. Names /\ (PointsSame => Rows')  BY <1>0, LeavesRows
<1>q. Quiet => Rows' /\ Course'  BY <1>l, QuietSame, NamesKeep
<1>d. disk' = disk => Rows'  BY <1>l DEF PointsSame, Point
<1>i. Numbered /\ Owned /\ CallNumbered /\ Ahead  BY DEF Rows, Course
<1>1. CASE Inventory!Resolves(n)
  <2>1. CASE Quiet  BY <1>q, <2>1
  <2>2. CASE \E k \in SessionKeys :
              /\ loop[k] # 0 /\ disk' = disk
              /\ Goes([chain[1] EXCEPT !.step = IF identities[k] = 0 THEN "list" ELSE "read",
                                       !.key = k, !.id = identities[k]])
    <3>1. PICK k \in SessionKeys :
              /\ disk' = disk
              /\ Goes([chain[1] EXCEPT !.step = IF identities[k] = 0 THEN "list" ELSE "read",
                                       !.key = k, !.id = identities[k]])
      BY <2>2
    <3> DEFINE c == [chain[1] EXCEPT !.step = IF identities[k] = 0 THEN "list" ELSE "read",
                                     !.key = k, !.id = identities[k]]
    <3>2. c.step = (IF identities[k] = 0 THEN "list" ELSE "read") /\ c.key = k /\ c.id = identities[k]
      BY <3>1 DEF Goes, Call, CallRecord
    <3>3. Goes(c)  BY <3>1
    <3> HIDE DEF c
    <3>4. c.step \notin Answered  BY <3>2 DEF Answered
    <3>5. NumberedCall(c)  BY <1>i, <3>2, <3>4 DEF NumberedCall, Numbered, Answered
    <3> QED BY <1>0, <1>d, <3>1, <3>3, <3>4, <3>5, GoesKeeps
  <2> QED BY <1>1, <2>1, <2>2, Resolving
<1>2. CASE Inventory!Identifies(n)
  <2> DEFINE c == [chain[1] EXCEPT !.step = "read", !.id = row[chain[1].key].id]
  <2>1. Goes(c) /\ disk' = disk  BY <1>2, Identifying
  <2>2. c.step = "read" /\ c.key = chain[1].key /\ c.id = row[c.key].id /\ c.key \in SessionKeys
    BY <2>1 DEF Goes, Call, CallRecord
  <2> HIDE DEF c
  <2>3. c.step \notin Answered  BY <2>2 DEF Answered
  <2>4. NumberedCall(c)  BY <1>i, <2>2, <2>3 DEF NumberedCall, Numbered
  <2> QED BY <1>0, <1>d, <2>1, <2>3, <2>4, GoesKeeps
<1>3. CASE Inventory!Reads(n)
  <2>1. PICK i \in Native :
           /\ i = row[chain[1].key].id /\ chain[1].step = "read" /\ disk' = disk
           /\ Goes([chain[1] EXCEPT !.step = "compare", !.of = i, !.last = turns[i], !.next = Inventory!Oldest(i)])
    BY <1>3, Reading
  <2> DEFINE c == [chain[1] EXCEPT !.step = "compare", !.of = i, !.last = turns[i], !.next = Inventory!Oldest(i)]
  <2>2. /\ c.step = "compare" /\ c.of = i /\ c.last = turns[i] /\ c.key = chain[1].key /\ c.id = chain[1].id
        /\ i = row[c.key].id /\ chain[1].key \in SessionKeys
    BY <2>1 DEF Goes, Call, CallRecord
  <2>3. At({"read"} \cup Answered) /\ Goes(c)  BY <2>1 DEF At, Goes
  <2>4. NumberedCall(chain[1])  BY <1>i, <2>3 DEF CallNumbered
  <2>5. turns[i] \in Nat /\ i <= ids  BY <1>i, <2>1, <2>2, TurnTypes DEF Numbered
  <2> HIDE DEF c
  <2>6. NumberedCall(c)  BY <2>2, <2>4, <2>5 DEF NumberedCall
  <2>7. AheadOf(c, disk')
    <3>1. Point(i).id = i => Point(i).turn <= turns[i]  BY <1>i DEF Numbered
    <3> QED BY <2>1, <2>2, <3>1 DEF AheadOf, Point
  <2> QED BY <1>0, <1>d, <2>1, <2>3, <2>6, <2>7, GoesKeeps
<1>a. ASSUME chain # <<>>, chain[1].step \in Answered
      PROVE  NumberedCall(chain[1]) /\ AheadOf(chain[1], disk)
  BY <1>a, <1>i DEF At, CallNumbered, Ahead
<1>4. CASE Inventory!Compares(n)
  <2>1. PICK next \in Nat :
           /\ Goes([chain[1] EXCEPT !.step = "walk", !.next = next])
           /\ chain[1].step = "compare" /\ disk' = disk
           /\ LET p == disk[chain[1].id].point IN
              \/ next = p.turn + 1 /\ p.id = chain[1].of /\ p.turn \in chain[1].next..chain[1].last
              \/ next = chain[1].next /\ ~(p.id = chain[1].of /\ p.turn \in chain[1].next..chain[1].last)
    BY <1>4, Comparing
  <2> DEFINE c == [chain[1] EXCEPT !.step = "walk", !.next = next]
             b == chain[1]
  <2>2. /\ c.step = "walk" /\ c.of = b.of /\ c.next = next /\ c.last = b.last /\ c.key = b.key /\ c.id = b.id
        /\ b.id \in Native /\ b.next \in Nat /\ b.last \in Nat /\ b.of \in Native
    BY <2>1 DEF Goes, Call, CallRecord, Answered
  <2>3. Goes(c) /\ chain # <<>> /\ b.step \in Answered  BY <2>1 DEF Goes, Answered
  <2> HIDE DEF c
  <2>4. NumberedCall(c)  BY <1>a, <2>1, <2>2, <2>3 DEF NumberedCall
  <2>5. AheadOf(c, disk')
    <3>1. AheadOf(b, disk)  BY <1>a, <2>3
    <3>2. CASE b.id # b.of  BY <2>2, <3>2 DEF AheadOf
    <3>3. CASE b.id = b.of
      <4> DEFINE p == disk[b.of].point
      <4>1. p.turn \in Nat  BY <2>2, PointTypes DEF Point
      <4>2. p.id = b.of => p.turn <= b.last  BY <2>1, <3>1, <3>3 DEF AheadOf
      <4>3. p.id = b.of => p.turn < next
        <5>1. \/ next = p.turn + 1
              \/ next = b.next /\ ~(p.id = b.of /\ p.turn \in b.next..b.last)
          BY <2>1, <3>3
        <5> HIDE DEF p, b
        <5> QED BY <2>2, <4>1, <4>2, <5>1
      <4> QED BY <2>1, <2>2, <3>3, <4>3 DEF AheadOf
    <3> QED BY <3>2, <3>3
  <2>6. Course'  BY <1>0, <2>3, <2>4, <2>5, GoesKeeps
  <2> QED BY <1>d, <2>1, <2>6
<1>5. CASE Inventory!RequestFails(n)  BY <1>5, <1>q, FailingIsQuiet
<1>6. CASE Inventory!Walks(n)
  <2>1. CASE Quiet  BY <1>q, <2>1
  <2>2. CASE /\ chain[1].step = "walk" /\ chain[1].next <= chain[1].last
             /\ Goes([chain[1] EXCEPT !.step = "sent", !.ahead = Len(queue')]) /\ disk' = disk
    <3> DEFINE c == [chain[1] EXCEPT !.step = "sent", !.ahead = Len(queue')]
               b == chain[1]
    <3>1. c.step = "sent" /\ c.of = b.of /\ c.next = b.next /\ c.last = b.last /\ c.key = b.key /\ c.id = b.id
      BY <2>2 DEF Goes, Call, CallRecord
    <3>2. Goes(c) /\ chain # <<>> /\ b.step \in Answered  BY <2>2 DEF Goes, Answered
    <3> HIDE DEF c
    <3>3. NumberedCall(c)  BY <1>a, <2>2, <3>1, <3>2 DEF NumberedCall
    <3>4. AheadOf(c, disk')  BY <1>a, <2>2, <3>1, <3>2 DEF AheadOf
    <3> QED BY <1>0, <1>d, <2>2, <3>2, <3>3, <3>4, GoesKeeps
  <2> QED BY <1>6, <2>1, <2>2, Walking
<1>7. CASE Inventory!Records(n)
  <2>1. CASE Quiet  BY <1>q, <2>1
  <2>2. CASE /\ chain[1].step = "sent"
             /\ Goes([chain[1] EXCEPT !.step = "walk", !.next = chain[1].next + 1, !.ahead = 0])
             /\ disk'[chain[1].id].point = Sent(chain[1])
             /\ \A j \in Native \ {chain[1].id} : Point(j)' = Point(j)
    <3> DEFINE b == chain[1]
               c == [b EXCEPT !.step = "walk", !.next = b.next + 1, !.ahead = 0]
    <3>1. /\ c.step = "walk" /\ c.of = b.of /\ c.next = b.next + 1 /\ c.last = b.last /\ c.key = b.key /\ c.id = b.id
          /\ b.id \in Native /\ b.of \in Native /\ b.next \in Nat /\ b.last \in Nat /\ b.key \in SessionKeys
      BY <2>2 DEF Goes, Call, CallRecord, Answered
    <3>2. Goes(c) /\ chain # <<>> /\ b.step \in Answered /\ b.step = "sent"  BY <2>2 DEF Goes, Answered
    <3> HIDE DEF c
    <3>3. NumberedCall(c) /\ NumberedCall(b)  BY <1>a, <3>1, <3>2 DEF NumberedCall
    <3>4. disk'[b.id].point.id = b.of /\ disk'[b.id].point.turn = b.next  BY <2>2 DEF Sent
    <3>5. \A j \in Native : j # b.id => disk'[j].point = disk[j].point  BY <2>2 DEF Point
    <3>6. AheadOf(c, disk')  BY <3>1, <3>4 DEF AheadOf
    <3>7. Course'  BY <1>0, <3>2, <3>3, <3>6, GoesKeeps
    <3>8. Numbered'
      <4>1. b.of <= ids /\ b.next <= turns[b.of]
        <5>1. b.of <= ids /\ b.last <= turns[b.of] /\ b.next <= b.last  BY <3>2, <3>3 DEF NumberedCall, Answered
        <5>2. turns[b.of] \in Nat  BY <3>1, TurnTypes
        <5> DEFINE t == turns[b.of]
        <5> HIDE DEF t
        <5>3. b.next <= t  BY <3>1, <5>1, <5>2 DEF t
        <5> QED BY <5>1, <5>3 DEF t
      <4>2. \A i \in Native : /\ disk'[i].point.id <= ids
                              /\ disk'[i].point.id = i => disk'[i].point.turn <= turns[i]
                              /\ i > ids => disk'[i].point.id = 0
        <5> TAKE i \in Native
        <5>1. CASE i = b.id
          <6>1. b.of = i => b.next <= turns[i]  BY <4>1
          <6>2. ~(i > ids)
            <7>1. b.id <= ids /\ b.id \in Nat /\ ids \in Nat
              BY <3>1, <3>3, InventoryAssumption DEF NumberedCall, Native, Inventory!Ids, InventoryTypes, GatewayTypes
            <7> QED BY <5>1, <7>1
          <6> QED BY <3>4, <4>1, <5>1, <6>1, <6>2
        <5>2. CASE i # b.id  BY <1>i, <3>5, <5>2 DEF Numbered, Point
        <5> QED BY <5>1, <5>2
      <4>3. /\ \A k \in SessionKeys : row'[k].id <= ids' /\ identities'[k] <= ids' /\ rec'.rows[k].id <= ids'
            /\ \A k, l \in SessionKeys : k # l =>
                 row'[k].id # row'[l].id /\ identities'[k] # row'[l].id /\ rec'.rows[k].id # row'[l].id
        BY <1>0, <1>i DEF Numbered
      <4> QED BY <1>0, <4>2, <4>3 DEF Numbered, Point
    <3>9. Owned'
      <4> SUFFICES ASSUME NEW k \in SessionKeys
                   PROVE  disk'[row[k].id].point.id = 0 \/ disk'[row[k].id].point.id = row[k].id
        BY <1>0 DEF Owned, OwnAt, Point
      <4>1. row[k].id \in Native  BY IdTypes
      <4>2. CASE row[k].id # b.id  BY <1>i, <3>5, <4>1, <4>2 DEF Owned, OwnAt, Point
      <4>3. CASE row[k].id = b.id
        <5>1. k = b.key  BY <3>3, <4>3 DEF NumberedCall
        <5>2. b.of = b.id  BY <3>2, <3>3, <4>3, <5>1 DEF NumberedCall
        <5> QED BY <3>4, <4>3, <5>2
      <4> QED BY <4>2, <4>3
    <3> QED BY <3>7, <3>8, <3>9 DEF Rows
  <2> QED BY <1>7, <2>1, <2>2, Recording
<1> QED BY <1>1, <1>2, <1>3, <1>4, <1>5, <1>6, <1>7 DEF Inventory!History

LEMMA StepKeeps ==
  ASSUME InventoryTypes, Delivered, Rows, Course, Inventory!Next
  PROVE  Rows' /\ Course'
<1>0. InventoryTypes' /\ OnFile  BY StepTypes DEF Delivered
<1>q. ASSUME Quiet, Names  PROVE Rows' /\ Course'
  BY <1>0, <1>q, QuietSame, NamesKeep
<1>1. CASE Inventory!Pass  BY <1>0, <1>1, <1>q, QuietPass, PassNames
<1>2. CASE Inventory!Client \/ Inventory!RefreshAsked \/ Inventory!Disconnects
  BY <1>0, <1>2, <1>q, QuietRest, ClientNames
<1>3. CASE Inventory!Sends  BY <1>0, <1>3, SendsSame, SendsNames, NamesKeep
<1>4. CASE Inventory!Crash  BY <1>0, <1>4, CrashClears
<1>5. CASE Inventory!Resets  BY <1>0, <1>5, ResetKeeps DEF Inventory!Resets
<1>6. CASE Inventory!Dispose \/ Inventory!Hooks \/ \E k \in SessionKeys : Inventory!HookEnds(k)
  <2>1. Inventory!Dispose \/ Inventory!Hooks \/ Inventory!Rows  BY <1>6 DEF Inventory!Rows
  <2>2. Quiet  BY <1>0, <2>1, QuietRest
  <2>3. Names  BY <1>6, HooksName
  <2> QED BY <1>q, <2>2, <2>3
<1>7. CASE \E k \in SessionKeys : Inventory!Archives(k)  BY <1>0, <1>7, ArchivesKeeps
<1>8. CASE Inventory!Calls
  <2>1. CASE \E n \in 1..MaxCalls : Inventory!History(n)  BY <1>0, <2>1, HistoryKeeps
  <2>2. CASE \E l \in Inventory!Ids : Inventory!Asked(l)
    <3>1. PICK l \in Native : Inventory!Asked(l)  BY <2>2 DEF Native
    <3>2. UNCHANGED <<row, ids, turns, identities, loop, rec, disposed>>
      BY <3>1 DEF Inventory!Asked, Inventory!gateway, Inventory!tracker, Inventory!pass
    <3> QED BY <1>0, <1>q, <3>1, <3>2, AskedIsQuiet, LeavesRows
  <2>3. CASE \E k \in SessionKeys : Inventory!Turn(k)  BY <1>0, <2>3, TurnKeeps
  <2> QED BY <1>8, <2>1, <2>2, <2>3 DEF Inventory!Calls
<1>9. CASE Inventory!Rows  BY <1>6, <1>7, <1>9 DEF Inventory!Rows
<1> QED BY <1>1, <1>2, <1>3, <1>4, <1>5, <1>6, <1>8, <1>9 DEF Inventory!Next

LEMMA AtFirst ==
  ASSUME Inventory!Init
  PROVE  InventoryTypes /\ Delivered /\ Rows /\ Course
<1>2. InventoryTypes /\ rec.step = "idle"  BY InitTypes, PassStarts DEF Inventory!Init
<1>3. /\ chain = <<>> /\ Len(chain) = 0 /\ loaded = "no" /\ mem = disk
      /\ \A k \in SessionKeys : identities[k] = 0 /\ loop[k] = 0 /\ rec.rows[k].id = 0
  BY BlankRows DEF Inventory!Init
<1>4. \A i \in Native : Point(i).id = 0 /\ Point(i).turn = 0
  BY DEF Inventory!Init, Native, Point, Inventory!Fresh, Inventory!NoPoint
<1>5. \A k \in SessionKeys : row[k].id <= ids
  BY DEF Inventory!Init
<1>6. \A k, l \in SessionKeys : k # l => row[k].id # row[l].id
  <2>1. PICK f \in [SessionKeys -> Inventory!Ids] :
          /\ row = [k \in SessionKeys |-> [id |-> f[k], archived |-> FALSE]]
          /\ \A k, l \in SessionKeys : f[k] = f[l] => k = l
    BY DEF Inventory!Init
  <2> QED BY <2>1
<1>7. Delivered
  <2>1. OnFile  BY <1>2, <1>3 DEF OnFile
  <2>2. Kept
    <3> SUFFICES ASSUME NEW i \in Native, NEW t \in 1..Point(i).turn  PROVE FALSE
      BY DEF Kept
    <3>1. t \in 1..0  BY <1>4
    <3> QED BY <3>1
  <2> QED BY <1>3, <2>1, <2>2 DEF Delivered, CallKept, At
<1>8. Numbered
  <2>1. \A k \in SessionKeys : row[k].id \in Nat \ {0} /\ ids \in Nat  BY <1>2, IdTypes
  <2>2. ids \in Nat  BY <1>2 DEF InventoryTypes, GatewayTypes
  <2>3. \A i \in Native : 0 # i /\ 0 <= ids  BY <2>2, InventoryAssumption DEF Native, Inventory!Ids
  <2> QED BY <1>3, <1>4, <1>5, <1>6, <2>1, <2>3 DEF Numbered
<1>9. Owned
  <2> SUFFICES ASSUME NEW k \in SessionKeys  PROVE Point(row[k].id).id = 0
    BY DEF Owned, OwnAt
  <2> QED BY <1>2, <1>4, IdTypes
<1> QED BY <1>2, <1>3, <1>7, <1>8, <1>9 DEF Rows, Course, CallNumbered, Ahead, At

\* The inductive invariant.
History == InventoryTypes /\ Delivered /\ Rows /\ Course

LEMMA HistoryHolds == Inventory!Spec => []History
<1>1. Inventory!Init => History  BY AtFirst DEF History
<1>2. History /\ [Inventory!Next]_(Inventory!vars) => History'
  <2> SUFFICES ASSUME History, [Inventory!Next]_(Inventory!vars)  PROVE History'
    OBVIOUS
  <2>1. CASE UNCHANGED Inventory!vars
    <3>0. UNCHANGED inventoryVars
      BY <2>1 DEF inventoryVars, Inventory!vars, Inventory!gateway, Inventory!link, Inventory!tracker,
         Inventory!checkpoints, Inventory!pass, Inventory!calls, Inventory!sender
    <3>1. InventoryTypes'
      BY <3>0 DEF History, inventoryVars, Looking, InventoryTypes, GatewayTypes, TrackerTypes,
         FileTypes, SenderTypes, CallTypes, PassTypes
    <3>2. Delivered'
      BY <3>0 DEF History, inventoryVars, Delivered, OnFile, Kept, CallKept, Point, Done, At, BeforeDone, OnItsWay
    <3>3. Rows'  BY <3>0 DEF History, inventoryVars, Rows, Numbered, Owned, OwnAt, Point
    <3>4. Course'
      BY <3>0 DEF History, inventoryVars, Course, CallNumbered, NumberedCall, Ahead, AheadOf, At
    <3> QED BY <3>1, <3>2, <3>3, <3>4 DEF History
  <2>2. CASE Inventory!Next  BY <2>2, StepTypes, StepDelivers, StepKeeps DEF History
  <2> QED BY <2>1, <2>2
<1> QED BY <1>1, <1>2, PTL DEF Inventory!Spec

\* A turn on record was delivered, given up or out of the window; the cursor of the
\* session that holds a key is its own; and what goes out of the session that a call
\* knows is not on record.  Here for the inventory alone, where hooks, resets, passes,
\* archivings, turns, calls, lost connections, disposal and crashes meet in any order.
\* (historyChain, publishHistory and reconcile of session-inventory.ts)
THEOREM TurnsGoOutOnceAlone == Inventory!Spec => Inventory!HistoryExact
<1> DEFINE NotAgain == \A n \in DOMAIN chain : ~Inventory!Repeats(n)
<1>1. History => NotAgain
  <2> SUFFICES ASSUME History, NEW n \in DOMAIN chain, Inventory!Running(n, "walk"), chain[n].id = chain[n].of,
                      disk[chain[n].of].point.id = chain[n].of
               PROVE  ~(chain[n].next <= disk[chain[n].of].point.turn)
    BY DEF Inventory!Repeats
  <2>1. n = 1 /\ chain # <<>> /\ chain[1] \in Call /\ chain[1].step = "walk"  BY FirstRuns DEF History
  <2>2. AheadOf(chain[1], disk)  BY <2>1 DEF History, Course, Ahead, At, Answered
  <2>3. chain[1].of \in Native /\ chain[1].next \in Nat  BY <2>1 DEF Call, CallRecord, Answered
  <2>4. disk[chain[1].of].point.turn \in Nat  BY <2>3, PointTypes DEF History, Point
  <2>5. disk[chain[1].of].point.turn < chain[1].next  BY <2>1, <2>2 DEF AheadOf
  <2> QED BY <2>1, <2>3, <2>4, <2>5
<1>2. History' => Inventory!HistoryKept'
  BY DEF History, Delivered, Kept, Point, Done, Native, Inventory!HistoryKept
<1>3. History' => Inventory!CursorsOwn'
  BY DEF History, Rows, Owned, OwnAt, Point, Inventory!CursorsOwn
<1>4. History /\ History' => [Inventory!HistoryKept' /\ Inventory!CursorsOwn' /\ NotAgain]_(Inventory!vars)
  BY <1>1, <1>2, <1>3
<1> QED BY <1>4, HistoryHolds, PTL DEF Inventory!HistoryExact

\* The kinds of behaviour of SessionLoops are behaviours of the inventory.
LEMMA InventoryAsAlone == LoopsSpec => Inventory!Spec
<1>1. LoopsInit => Inventory!Init  BY DEF LoopsInit
<1>2. [HookStep \/ InventoryStep]_<<vars, theme, inventoryVars>> => [Inventory!Next]_(Inventory!vars)
  <2> SUFFICES ASSUME [HookStep \/ InventoryStep]_<<vars, theme, inventoryVars>>
               PROVE  [Inventory!Next]_(Inventory!vars)
    OBVIOUS
  <2>1. UNCHANGED inventoryVars => UNCHANGED Inventory!vars
    BY DEF inventoryVars, Inventory!vars, Inventory!gateway, Inventory!link, Inventory!tracker,
       Inventory!checkpoints, Inventory!pass, Inventory!calls, Inventory!sender
  <2>2. CASE InventoryStep  BY <2>2, StepOfInventory
  <2>3. CASE ~InventoryStep  BY <2>1, <2>3, Unhooked
  <2> QED BY <2>2, <2>3
<1> QED BY <1>1, <1>2, PTL DEF LoopsSpec, Inventory!Spec

\* The same of the loops with their inventory.  (session-inventory.ts)
THEOREM TurnsGoOutOnce == LoopsSpec => HistoryExact
BY InventoryAsAlone, TurnsGoOutOnceAlone DEF HistoryExact
====
