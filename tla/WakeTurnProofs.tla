---------------------------- MODULE WakeTurnProofs ----------------------------
(***************************************************************************)
(* Proofs about WakeTurn: its types and the bounds of its tables, that no  *)
(* wake ends in silence, that nobody is told twice, and that no decision   *)
(* passes the fence, for any number of wakes, targets and reports.         *)
(*                                                                         *)
(* Almost all that a step does it does to one wake, so the invariant is    *)
(* Good(b) for each wake b, besides Tables.                                *)
(***************************************************************************)
EXTENDS WakeTurn, SequenceTheorems, FiniteSetTheorems, TLAPS

Guards == {"none", "on", "stopped", "gone"}
Ends == {"matched", "unmatched", "complete"}
RunStates == {"none", "running", "over"}

WakeTypes ==
  /\ post \in [Wakes -> {"none", "posting", "bound", "failed", "refused"}]
  /\ pending \in Seq(Wakes) /\ routed \in Seq(Wakes)
  /\ expired \in [Wakes -> BOOLEAN] /\ latched \in [Wakes -> BOOLEAN]
  /\ aliased \in [Wakes -> BOOLEAN] /\ effects \in [Wakes -> BOOLEAN]
  /\ retired \in [Wakes -> BOOLEAN] /\ disclosed \in [Wakes -> BOOLEAN]
  /\ child \in [Wakes -> BOOLEAN] /\ kin \in [Wakes -> BOOLEAN]
  /\ failed \in [Wakes -> BOOLEAN] /\ broke \in [Wakes -> BOOLEAN] /\ begun \in [Wakes -> BOOLEAN]
  /\ guard \in [Wakes -> Guards] /\ alerts \in [Wakes -> Nat] /\ reports \in [Wakes -> Nat]
  /\ sent \in [Wakes -> SUBSET Targets] /\ report \in [Wakes -> SUBSET Targets]
  /\ parent \in [Wakes -> Roots \cup {"none"}] /\ run \in [Wakes -> [Runs -> RunStates]]
  /\ call \in [Wakes -> SUBSET Runs] /\ passed \in [Wakes -> SUBSET Runs]
  /\ stray \in [Wakes -> [Targets -> Nat]] /\ told \in [Wakes -> [Targets -> Nat]]
  /\ ending \in [Wakes -> SUBSET Ends]
  /\ report47 \in [Wakes -> {"none", "owed", "sent", "dropped"}]

Once(s) == \A i, j \in 1..Len(s) : s[i] = s[j] => i = j
InHand == {b \in Wakes : guard[b] \in {"on", "stopped"}}
Taken == {"posting", "bound", "failed"}

\* No table has a wake twice, or more of them than it may.
Tables ==
  /\ Once(pending) /\ Once(routed) /\ Len(pending) <= Capacity /\ Len(routed) <= Capacity
  /\ IsFiniteSet(InHand) /\ Cardinality(InHand) <= Capacity

\* A wake that no table took has no history.
Untouched(b) ==
  post[b] \notin Taken =>
    /\ guard[b] = "none" /\ ~Supervised(b) /\ ~Routed(b) /\ ~expired[b] /\ ~retired[b]
    /\ report47[b] = "none" /\ ending[b] = {} /\ call[b] = {} /\ passed[b] = {}
    /\ report[b] = {} /\ sent[b] = {} /\ \A r \in Runs : run[b][r] = "none"
    /\ \A t \in Targets : told[b][t] = 0 /\ stray[b][t] = 0
Guarded(b) == post[b] \in Taken => guard[b] # "none"

\* The latch counts the alert; who is owed a report, or had one, did not expire.
Latched(b) ==
  /\ alerts[b] = IF latched[b] THEN 1 ELSE 0
  /\ expired[b] => latched[b] /\ report47[b] \notin {"owed", "sent"}
\* Whoever is done with a wake, or about to be, finds it out of the supervisor's hands.
LetGo(b) == report47[b] = "sent" \/ guard[b] = "gone" \/ "complete" \in ending[b] => ~Supervised(b)
\* Without a later run, the end that settles a wake is the one the guards know.
NoReply(b) == run[b]["reply"] = "none"
Heard(b) ==
  /\ parent[b] = "reply" => ~NoReply(b)
  /\ NoReply(b) /\ "unmatched" \in ending[b] => ~Supervised(b)
  /\ NoReply(b) /\ (guard[b] = "stopped" \/ "matched" \in ending[b] \/ (Tracked(b) /\ ~Supervised(b)))
       => OutcomeKnown(b)

\* Sends that landed, are astray or under way are of reports that were let in.
Counted(b) ==
  /\ reports[b] <= MaxReports
  /\ \A t \in Targets : told[b][t] + stray[b][t] + (IF t \in report[b] THEN 1 ELSE 0) <= reports[b]
\* While no send failed, a report is one round: to all that have none, or to nobody.
OneRound(b) ==
  ~broke[b] => \A t \in Targets :
    /\ stray[b][t] = 0 /\ told[b][t] <= 1
    /\ t \in sent[b] => told[b][t] = 1
    /\ guard[b] = "on" /\ told[b][t] = 1 => t \in sent[b]
    /\ report[b] # {} => (t \in report[b] <=> told[b][t] = 0)
    /\ report[b] = {} => \A u \in Targets : told[b][u] = told[b][t]
\* The router's wakes are not behind its fence; it knows of a complete report.
Fenced(b) ==
  /\ ~(retired[b] /\ Routed(b))
  /\ ~broke[b] /\ sent[b] = Targets /\ Routed(b) => disclosed[b]

Good(b) ==
  /\ Untouched(b) /\ Guarded(b) /\ Latched(b) /\ LetGo(b) /\ Heard(b)
  /\ Counted(b) /\ OneRound(b) /\ Fenced(b)

TurnInv == WakeTypes /\ Tables /\ \A b \in Wakes : Good(b)

-----------------------------------------------------------------------------
(* The tables, which have a wake once and forget the oldest.               *)

LEMMA Removed ==
  ASSUME NEW s \in Seq(Wakes), Once(s), NEW b
  PROVE  /\ Without(s, b) \in Seq(Wakes) /\ Once(Without(s, b)) /\ Len(Without(s, b)) <= Len(s)
         /\ \A x : Contains(Without(s, b), x) <=> Contains(s, x) /\ x # b
<1> DEFINE u == Without(s, b)
<1>1. CASE ~Contains(s, b)
  <2>1. u = s  BY <1>1 DEF Without
  <2> QED BY <1>1, <2>1, LenProperties DEF Contains
<1>2. CASE Contains(s, b)
  <2> DEFINE i == CHOOSE n \in 1..Len(s) : s[n] = b
             v == SubSeq(s, 1, i - 1)
             w == SubSeq(s, i + 1, Len(s))
  <2>1. i \in 1..Len(s) /\ s[i] = b  BY <1>2 DEF Contains
  <2>2. u = v \o w  BY <1>2 DEF Without, RemoveAt
  <2> HIDE DEF i
  <2>3. Len(s) \in Nat /\ \A n \in 1..Len(s) : s[n] \in Wakes  BY LenProperties, ElementOfSeq
  <2>4. i \in Int /\ i - 1 \in Int /\ i + 1 \in Int /\ Len(s) \in Int /\ 1 \in Int  BY <2>1, <2>3
  <2>5. /\ v \in Seq(Wakes) /\ Len(v) = i - 1 /\ \A n \in 1..(i - 1) : v[n] = s[n]
    <3>1. \A n \in 1..(i - 1) : s[n] \in Wakes  BY <2>1, <2>3
    <3>2. /\ v \in Seq(Wakes) /\ Len(v) = (IF 1 <= i - 1 THEN (i - 1) - 1 + 1 ELSE 0)
          /\ \A n \in 1..((i - 1) - 1 + 1) : v[n] = s[1 + n - 1]
      BY <2>4, <3>1, SubSeqProperties
    <3> HIDE DEF v
    <3>3. (i - 1) - 1 + 1 = i - 1 /\ \A n \in 1..(i - 1) : 1 + n - 1 = n  BY <2>1
    <3> QED BY <2>1, <3>2, <3>3
  <2>6. /\ w \in Seq(Wakes) /\ Len(w) = Len(s) - i /\ \A n \in 1..(Len(s) - i) : w[n] = s[i + n]
    <3>1. \A n \in (i + 1)..Len(s) : s[n] \in Wakes  BY <2>1, <2>3
    <3>2. /\ w \in Seq(Wakes) /\ Len(w) = (IF i + 1 <= Len(s) THEN Len(s) - (i + 1) + 1 ELSE 0)
          /\ \A n \in 1..(Len(s) - (i + 1) + 1) : w[n] = s[(i + 1) + n - 1]
      BY <2>4, <3>1, SubSeqProperties
    <3> HIDE DEF w
    <3>3. Len(s) - (i + 1) + 1 = Len(s) - i /\ \A n \in 1..(Len(s) - i) : (i + 1) + n - 1 = i + n
      BY <2>1, <2>3
    <3>4. Len(w) = Len(s) - i  BY <2>1, <2>3, <3>2
    <3>5. \A n \in 1..(Len(s) - i) : w[n] = s[i + n]  BY <3>2, <3>3
    <3> QED BY <3>2, <3>4, <3>5
  <2> HIDE DEF u, v, w
  <2>7. /\ u \in Seq(Wakes) /\ Len(u) = Len(v) + Len(w)
        /\ \A n \in 1..(Len(v) + Len(w)) : u[n] = IF n <= Len(v) THEN v[n] ELSE w[n - Len(v)]
    BY <2>2, <2>5, <2>6, ConcatProperties
  <2>8. Len(u) = Len(s) - 1  BY <2>1, <2>3, <2>5, <2>6, <2>7
  <2>9. \A n \in 1..Len(u) : u[n] = IF n < i THEN s[n] ELSE s[n + 1]
    <3>1. ASSUME NEW n \in 1..Len(u), n < i PROVE u[n] = s[n]
      BY <2>1, <2>3, <2>5, <2>6, <2>7, <3>1
    <3>2. ASSUME NEW n \in 1..Len(u), ~(n < i) PROVE u[n] = s[n + 1]
      <4>1. n - (i - 1) \in 1..(Len(s) - i) /\ i + (n - (i - 1)) = n + 1
        BY <2>1, <2>3, <2>8, <3>2
      <4>2. u[n] = w[n - (i - 1)]  BY <2>1, <2>3, <2>5, <2>6, <2>7, <3>2
      <4>3. w[n - (i - 1)] = s[n + 1]  BY <2>6, <4>1
      <4> QED BY <4>2, <4>3
    <3> QED BY <3>1, <3>2
  <2>10. Once(u)
    <3>1. ASSUME NEW m \in 1..Len(u), NEW n \in 1..Len(u), u[m] = u[n] PROVE m = n
      <4> DEFINE p == IF m < i THEN m ELSE m + 1
                 q == IF n < i THEN n ELSE n + 1
      <4>1. p \in 1..Len(s) /\ q \in 1..Len(s)  BY <2>1, <2>3, <2>8
      <4>2. u[m] = s[p] /\ u[n] = s[q]  BY <2>9
      <4>3. p = q  BY <3>1, <4>1, <4>2 DEF Once
      <4> QED BY <2>1, <4>3
    <3> QED BY <3>1 DEF Once
  <2>11. ASSUME NEW x, Contains(u, x) PROVE Contains(s, x) /\ x # b
    <3>1. PICK n \in 1..Len(u) : u[n] = x  BY <2>11 DEF Contains
    <3> DEFINE p == IF n < i THEN n ELSE n + 1
    <3>2. p \in 1..Len(s) /\ p # i  BY <2>1, <2>3, <2>8
    <3>3. s[p] = x  BY <2>9, <3>1
    <3> HIDE DEF p
    <3> QED BY <2>1, <3>2, <3>3 DEF Contains, Once
  <2>12. ASSUME NEW x, Contains(s, x), x # b PROVE Contains(u, x)
    <3>1. PICK n \in 1..Len(s) : s[n] = x  BY <2>12 DEF Contains
    <3>2. n # i  BY <2>1, <2>12, <3>1
    <3>3. CASE n < i
      <4>1. n \in 1..Len(u) /\ u[n] = x  BY <2>1, <2>3, <2>8, <2>9, <3>1, <3>3
      <4> QED BY <4>1 DEF Contains
    <3>4. CASE n > i
      <4>1. n - 1 \in 1..Len(u) /\ ~(n - 1 < i) /\ (n - 1) + 1 = n  BY <2>1, <2>3, <2>8, <3>1, <3>4
      <4>2. u[n - 1] = x  BY <2>9, <3>1, <4>1
      <4> QED BY <4>1, <4>2 DEF Contains
    <3> QED BY <2>1, <3>1, <3>2, <3>3, <3>4
  <2> QED BY <2>3, <2>7, <2>8, <2>10, <2>11, <2>12 DEF u
<1> QED BY <1>1, <1>2

\* The oldest makes room.
LEMMA MadeRoom ==
  ASSUME NEW s \in Seq(Wakes), Once(s), Len(s) <= Capacity
  PROVE  LET u == ButOldest(s) IN
         /\ u \in Seq(Wakes) /\ Once(u) /\ Len(u) < Capacity
         /\ Len(s) >= Capacity => Head(s) \in Wakes /\ Contains(s, Head(s))
         /\ \A x : Contains(u, x) <=> Contains(s, x) /\ ~(Len(s) >= Capacity /\ x = Head(s))
<1> DEFINE u == ButOldest(s)
<1>1. Len(s) \in Nat /\ Capacity \in Nat \ {0}  BY LenProperties, CapacityAssumption
<1>2. CASE ~(Len(s) >= Capacity)  BY <1>1, <1>2 DEF ButOldest
<1>3. CASE Len(s) >= Capacity
  <2>1. s # <<>>  BY <1>1, <1>3, EmptySeq
  <2>2. /\ u = Tail(s) /\ Head(s) = s[1] /\ Head(s) \in Wakes /\ u \in Seq(Wakes) /\ Len(u) = Len(s) - 1
        /\ \A i \in 1..Len(u) : u[i] = s[i + 1]
    BY <1>3, <2>1, HeadTailProperties DEF ButOldest
  <2> HIDE DEF u
  <2>3. Once(u)
    <3>1. ASSUME NEW i \in 1..Len(u), NEW j \in 1..Len(u), u[i] = u[j] PROVE i = j
      <4>1. i + 1 \in 1..Len(s) /\ j + 1 \in 1..Len(s) /\ s[i + 1] = s[j + 1]  BY <1>1, <2>2, <3>1
      <4>2. i + 1 = j + 1  BY <4>1 DEF Once
      <4> QED BY <4>2
    <3> QED BY <3>1 DEF Once
  <2>4. 1 \in 1..Len(s)  BY <1>1, <1>3
  <2>5. ASSUME NEW x, Contains(u, x) PROVE Contains(s, x) /\ x # Head(s)
    <3>1. PICK i \in 1..Len(u) : u[i] = x  BY <2>5 DEF Contains
    <3>2. i + 1 \in 1..Len(s) /\ s[i + 1] = x /\ i + 1 # 1  BY <1>1, <2>2, <3>1
    <3> QED BY <2>2, <2>4, <3>2 DEF Contains, Once
  <2>6. ASSUME NEW x, Contains(s, x), x # Head(s) PROVE Contains(u, x)
    <3>1. PICK i \in 1..Len(s) : s[i] = x  BY <2>6 DEF Contains
    <3>2. i # 1  BY <2>2, <2>6, <3>1
    <3>3. i - 1 \in 1..Len(u) /\ (i - 1) + 1 = i  BY <1>1, <2>2, <3>1, <3>2
    <3>4. u[i - 1] = x  BY <2>2, <3>1, <3>3
    <3> QED BY <3>3, <3>4 DEF Contains
  <2>7. Contains(s, Head(s))  BY <2>2, <2>4 DEF Contains
  <2> QED BY <1>1, <1>3, <2>2, <2>3, <2>5, <2>6, <2>7 DEF u
<1> QED BY <1>2, <1>3

LEMMA PutLast ==
  ASSUME NEW s \in Seq(Wakes), Once(s), Len(s) < Capacity, NEW b \in Wakes, ~Contains(s, b)
  PROVE  LET u == Append(s, b) IN
         /\ u \in Seq(Wakes) /\ Once(u) /\ Len(u) <= Capacity
         /\ \A x : Contains(u, x) <=> Contains(s, x) \/ x = b
<1> DEFINE u == Append(s, b)
<1>1. Len(s) \in Nat /\ Capacity \in Nat  BY LenProperties, CapacityAssumption
<1>2. /\ u \in Seq(Wakes) /\ Len(u) = Len(s) + 1 /\ u[Len(s) + 1] = b
      /\ \A i \in 1..Len(s) : u[i] = s[i]
  BY AppendProperties
<1> HIDE DEF u
<1>3. \A i \in 1..Len(u) : i \in 1..Len(s) \/ i = Len(s) + 1  BY <1>1, <1>2
<1>4. \A i \in 1..Len(s) : i \in 1..Len(u) /\ u[i] # b  BY <1>1, <1>2 DEF Contains
<1>5. Len(s) + 1 \in 1..Len(u)  BY <1>1, <1>2
<1>6. Once(u)  BY <1>2, <1>3, <1>4 DEF Once
<1>7. \A x : Contains(u, x) <=> Contains(s, x) \/ x = b
  BY <1>2, <1>3, <1>4, <1>5 DEF Contains
<1> QED BY <1>1, <1>2, <1>6, <1>7 DEF u

-----------------------------------------------------------------------------
(* What a step does to one wake, and to the others.                        *)

\* Nothing of a wake changes that its invariant speaks of, besides the tables.
Same(b) ==
  /\ post'[b] = post[b] /\ expired'[b] = expired[b] /\ latched'[b] = latched[b]
  /\ alerts'[b] = alerts[b] /\ guard'[b] = guard[b] /\ sent'[b] = sent[b]
  /\ retired'[b] = retired[b] /\ disclosed'[b] = disclosed[b] /\ parent'[b] = parent[b]
  /\ run'[b] = run[b] /\ call'[b] = call[b] /\ passed'[b] = passed[b]
  /\ report'[b] = report[b] /\ stray'[b] = stray[b] /\ told'[b] = told[b]
  /\ reports'[b] = reports[b] /\ broke'[b] = broke[b] /\ ending'[b] = ending[b]
  /\ report47'[b] = report47[b]

LEMMA SameGood ==
  ASSUME NEW b \in Wakes, Good(b), Same(b), Supervised(b)' <=> Supervised(b), Routed(b)' <=> Routed(b)
  PROVE  Good(b)'
<1> USE DEF Good, Same
<1>1. Untouched(b)' /\ Guarded(b)'  BY DEF Untouched, Guarded
<1>2. Latched(b)' /\ LetGo(b)'  BY DEF Latched, LetGo
<1>3. Heard(b)'  BY DEF Heard, NoReply, Tracked, OutcomeKnown
<1>4. Counted(b)'  BY DEF Counted
<1>5. OneRound(b)'  BY DEF OneRound
<1>6. Fenced(b)'  BY DEF Fenced
<1> QED BY <1>1, <1>2, <1>3, <1>4, <1>5, <1>6

\* Most steps are of one wake, which leaves tables or stays in them.
LEMMA OneWake ==
  ASSUME TurnInv, NEW b \in Wakes, WakeTypes', Good(b)',
         pending' = pending \/ pending' = Without(pending, b),
         routed' = routed \/ routed' = Without(routed, b),
         InHand' \subseteq InHand, \A x \in Wakes : x # b => Same(x)
  PROVE  TurnInv'
<1>1. pending \in Seq(Wakes) /\ routed \in Seq(Wakes) /\ Capacity \in Nat
  BY CapacityAssumption DEF TurnInv, WakeTypes
<1>2. /\ Once(pending') /\ Len(pending') <= Len(pending)
      /\ \A x : x # b => (Contains(pending', x) <=> Contains(pending, x))
  BY <1>1, Removed, LenProperties DEF TurnInv, Tables
<1>3. /\ Once(routed') /\ Len(routed') <= Len(routed)
      /\ \A x : x # b => (Contains(routed', x) <=> Contains(routed, x))
  BY <1>1, Removed, LenProperties DEF TurnInv, Tables
<1>4. Tables'
  <2>1. IsFiniteSet(InHand') /\ Cardinality(InHand') <= Cardinality(InHand)
        /\ Cardinality(InHand) \in Nat /\ Cardinality(InHand') \in Nat
    BY FS_Subset, FS_CardinalityType DEF TurnInv, Tables
  <2>2. Len(pending) \in Nat /\ Len(routed) \in Nat /\ Len(pending') \in Nat /\ Len(routed') \in Nat
    BY <1>1, LenProperties DEF WakeTypes
  <2> QED BY <1>1, <1>2, <1>3, <2>1, <2>2 DEF TurnInv, Tables
<1>5. ASSUME NEW x \in Wakes, x # b PROVE Good(x)'
  <2>1. (Supervised(x)' <=> Supervised(x)) /\ (Routed(x)' <=> Routed(x))
    BY <1>2, <1>3, <1>5 DEF Supervised, Routed
  <2> QED BY <1>5, <2>1, SameGood DEF TurnInv
<1> QED BY <1>4, <1>5 DEF TurnInv

LEMMA AlertDoes ==
  ASSUME WakeTypes, NEW S, Alert(S)
  PROVE  /\ latched' \in [Wakes -> BOOLEAN] /\ alerts' \in [Wakes -> Nat]
         /\ \A b \in Wakes : /\ b \notin S => latched'[b] = latched[b] /\ alerts'[b] = alerts[b]
                             /\ b \in S => latched'[b] /\ alerts'[b] = alerts[b] + (IF latched[b] THEN 0 ELSE 1)
<1>1. latched \in [Wakes -> BOOLEAN] /\ alerts \in [Wakes -> Nat]  BY DEF WakeTypes
<1>2. /\ latched' = [b \in Wakes |-> latched[b] \/ b \in S]
      /\ alerts' = [b \in Wakes |-> alerts[b] + (IF b \in S /\ ~latched[b] THEN 1 ELSE 0)]
  BY DEF Alert
<1>3. latched' \in [Wakes -> BOOLEAN] /\ alerts' \in [Wakes -> Nat]  BY <1>1, <1>2
<1>4. \A b \in Wakes : b \notin S => latched'[b] = latched[b] /\ alerts'[b] = alerts[b]
  BY <1>1, <1>2
<1>5. \A b \in Wakes : b \in S => latched'[b] /\ alerts'[b] = alerts[b] + (IF latched[b] THEN 0 ELSE 1)
  BY <1>1, <1>2
<1> QED BY <1>3, <1>4, <1>5

LEMMA TripsDo ==
  ASSUME WakeTypes, NEW S \in SUBSET Wakes, Trips(S)
  PROVE  /\ guard' \in [Wakes -> Guards] /\ effects' \in [Wakes -> BOOLEAN] /\ InHand' = InHand
         /\ \A b \in Wakes : guard'[b] = IF b \in S /\ guard[b] = "on" THEN "stopped" ELSE guard[b]
<1>1. guard \in [Wakes -> Guards] /\ effects \in [Wakes -> BOOLEAN]  BY DEF WakeTypes
<1>2. guard' \in [Wakes -> Guards] /\ effects' \in [Wakes -> BOOLEAN]  BY <1>1 DEF Trips, Guards
<1>3. \A b \in Wakes : guard'[b] = IF b \in S /\ guard[b] = "on" THEN "stopped" ELSE guard[b]
  BY DEF Trips
<1>4. InHand' = InHand  BY <1>3 DEF InHand
<1> QED BY <1>2, <1>3, <1>4

\* A stop is told, if the supervisor has the wake.
LEMMA StopDoes ==
  ASSUME WakeTypes, NEW b \in Wakes, Stop(b)
  PROVE  /\ guard' \in [Wakes -> Guards] /\ effects' \in [Wakes -> BOOLEAN]
         /\ latched' \in [Wakes -> BOOLEAN] /\ alerts' \in [Wakes -> Nat]
         /\ InHand' = InHand
         /\ \A x \in Wakes : x # b => guard'[x] = guard[x] /\ latched'[x] = latched[x] /\ alerts'[x] = alerts[x]
         /\ guard'[b] = (IF guard[b] = "on" THEN "stopped" ELSE guard[b])
         /\ latched[b] => latched'[b]
         /\ alerts'[b] = alerts[b] + (IF latched'[b] /\ ~latched[b] THEN 1 ELSE 0)
         /\ guard[b] = "on" /\ Supervised(b) => latched'[b]
<1> DEFINE S == IF guard[b] = "on" /\ Supervised(b) THEN {b} ELSE {}
<1>1. Trips({b}) /\ Alert(S)  BY DEF Stop
<1>2. {b} \in SUBSET Wakes  OBVIOUS
<1>3. (guard[b] = "on" /\ Supervised(b) => b \in S) /\ \A x : x # b => x \notin S  OBVIOUS
<1> HIDE DEF S
<1>4. /\ latched' \in [Wakes -> BOOLEAN] /\ alerts' \in [Wakes -> Nat]
      /\ \A x \in Wakes : /\ x \notin S => latched'[x] = latched[x] /\ alerts'[x] = alerts[x]
                          /\ x \in S => latched'[x] /\ alerts'[x] = alerts[x] + (IF latched[x] THEN 0 ELSE 1)
  BY <1>1, AlertDoes
<1>5. /\ guard' \in [Wakes -> Guards] /\ effects' \in [Wakes -> BOOLEAN] /\ InHand' = InHand
      /\ \A x \in Wakes : guard'[x] = IF x \in {b} /\ guard[x] = "on" THEN "stopped" ELSE guard[x]
  BY <1>1, <1>2, TripsDo
<1>6. latched[b] => latched'[b]  BY <1>4
<1>7. alerts'[b] = alerts[b] + (IF latched'[b] /\ ~latched[b] THEN 1 ELSE 0)
  <2>1. alerts \in [Wakes -> Nat]  BY DEF WakeTypes
  <2> QED BY <1>4, <2>1
<1> QED BY <1>3, <1>4, <1>5, <1>6, <1>7

\* The operator has heard of a wake whose alert is latched.
LEMMA LatchTells == ASSUME NEW b \in Wakes, Latched(b), latched[b] PROVE OutcomeKnown(b)
BY DEF Latched, OutcomeKnown

LEMMA TurnStarts == ASSUME Init PROVE TurnInv
<1>1. WakeTypes
  <2>1. <<>> \in Seq(Wakes)  OBVIOUS
  <2> QED BY <2>1 DEF Init, WakeTypes, Guards, RunStates
<1>2. \A b \in Wakes : ~Supervised(b) /\ ~Routed(b)
  BY EmptySeq DEF Init, Supervised, Routed, Contains
<1>3. Tables
  <2>1. InHand = {}  BY DEF Init, InHand
  <2>2. Len(pending) = 0 /\ Len(routed) = 0  BY EmptySeq DEF Init
  <2> QED BY <2>1, <2>2, FS_EmptySet, CapacityAssumption DEF Tables, Once
<1>4. ASSUME NEW b \in Wakes PROVE Good(b)
  <2>1. Untouched(b) /\ Guarded(b) /\ Latched(b) /\ LetGo(b)
    BY <1>2 DEF Init, Untouched, Guarded, Latched, LetGo, Taken
  <2>2. Heard(b)  BY DEF Init, Heard, NoReply, Tracked, Runs, Roots
  <2>3. Counted(b) /\ OneRound(b)  BY CapacityAssumption DEF Init, Counted, OneRound
  <2>4. Fenced(b)  BY <1>2 DEF Fenced
  <2> QED BY <2>1, <2>2, <2>3, <2>4 DEF Good
<1> QED BY <1>1, <1>3, <1>4 DEF TurnInv

-----------------------------------------------------------------------------
(* Steps of a wake that keep its tables.                                   *)

\* A wake of which anything is going on was taken.
LEMMA TakenWhenOn ==
  ASSUME TurnInv, NEW b \in Wakes,
         \/ guard[b] # "none" \/ Supervised(b) \/ Routed(b) \/ ending[b] # {} \/ call[b] # {}
         \/ passed[b] # {} \/ report[b] # {} \/ (\E r \in Runs : Running(b, r))
         \/ \E t \in Targets : stray[b][t] > 0
  PROVE  post[b] \in Taken /\ guard[b] # "none"
<1>1. Untouched(b) /\ Guarded(b)  BY DEF TurnInv, Good
<1>2. post[b] \in Taken
  <2>1. stray[b] \in [Targets -> Nat]  BY DEF TurnInv, WakeTypes
  <2> QED BY <1>1, <2>1 DEF Untouched, Running
<1> QED BY <1>1, <1>2 DEF Guarded

\* The operator is alerted, or not, and a guard that was on may be stopped, if the
\* outcome is known then; what runs and what is decided may change.
LEMMA AlertedGood ==
  ASSUME TurnInv, NEW b \in Wakes, post[b] \in Taken, post'[b] \in Taken,
         pending' = pending, routed' = routed,
         expired'[b] = expired[b], sent'[b] = sent[b], retired'[b] = retired[b],
         disclosed[b] => disclosed'[b], parent'[b] = parent[b], report'[b] = report[b],
         stray'[b] = stray[b], told'[b] = told[b], reports'[b] = reports[b], broke'[b] = broke[b],
         ending'[b] = ending[b], report47'[b] = report47[b],
         NoReply(b)' => NoReply(b),
         latched[b] => latched'[b],
         alerts'[b] = alerts[b] + (IF latched'[b] /\ ~latched[b] THEN 1 ELSE 0),
         guard'[b] = guard[b] \/ (guard[b] = "on" /\ guard'[b] = "stopped"),
         guard[b] = "on" /\ guard'[b] = "stopped" /\ Supervised(b) => latched'[b]
  PROVE  Good(b)'
<1>1. (Supervised(b)' <=> Supervised(b)) /\ (Routed(b)' <=> Routed(b))  BY DEF Supervised, Routed
<1>2. alerts[b] \in Nat  BY DEF TurnInv, WakeTypes
<1>3. Good(b)  BY DEF TurnInv
<1>4. Untouched(b)'  BY DEF Untouched
<1>5. Guarded(b)'  BY <1>3 DEF Good, Guarded
<1>6. Latched(b)'
  <2>1. alerts'[b] = IF latched'[b] THEN 1 ELSE 0  BY <1>2, <1>3 DEF Good, Latched
  <2> QED BY <1>3, <2>1 DEF Good, Latched
<1>7. LetGo(b)'  BY <1>1, <1>3 DEF Good, LetGo
<1>8. OutcomeKnown(b) => OutcomeKnown(b)'  BY <1>2 DEF OutcomeKnown
<1>9. Heard(b)'
  <2>1. latched'[b] => OutcomeKnown(b)'  BY <1>6 DEF Latched, OutcomeKnown
  <2>2. Tracked(b)  BY DEF Tracked, Taken
  <2>3. ASSUME NoReply(b)', guard'[b] = "stopped" PROVE OutcomeKnown(b)'
    <3>1. CASE guard[b] = "stopped"  BY <1>3, <1>8, <2>3, <3>1 DEF Good, Heard
    <3>2. CASE guard[b] = "on" /\ Supervised(b)  BY <2>1, <2>3, <3>2
    <3>3. CASE ~Supervised(b)  BY <1>3, <1>8, <2>2, <2>3, <3>3 DEF Good, Heard
    <3> QED BY <2>3, <3>1, <3>2, <3>3
  <2> QED BY <1>1, <1>3, <1>8, <2>2, <2>3 DEF Good, Heard
<1>10. Counted(b)'  BY <1>3 DEF Good, Counted
<1>11. OneRound(b)'  BY <1>3 DEF Good, OneRound
<1>12. Fenced(b)'  BY <1>1, <1>3 DEF Good, Fenced
<1> QED BY <1>4, <1>5, <1>6, <1>7, <1>9, <1>10, <1>11, <1>12 DEF Good

LEMMA PostFailsKeeps == ASSUME TurnInv, NEW b \in Wakes, PostFails(b) PROVE TurnInv'
<1> DEFINE S == IF Supervised(b) THEN {b} ELSE {}
<1>1. /\ UNCHANGED <<post, pending, expired, guards, router, work, sends, ending, report47>>
      /\ post[b] = "posting" /\ Alert(S) /\ \A x : x # b => x \notin S
  BY DEF PostFails
<1> HIDE DEF S
<1>2. WakeTypes  BY DEF TurnInv
<1>3. /\ latched' \in [Wakes -> BOOLEAN] /\ alerts' \in [Wakes -> Nat]
      /\ \A x \in Wakes : /\ x \notin S => latched'[x] = latched[x] /\ alerts'[x] = alerts[x]
                          /\ x \in S => latched'[x] /\ alerts'[x] = alerts[x] + (IF latched[x] THEN 0 ELSE 1)
  BY <1>1, <1>2, AlertDoes
<1>4. WakeTypes'  BY <1>1, <1>2, <1>3 DEF WakeTypes, guards, router, work, sends
<1>5. \A x \in Wakes : x # b => Same(x)  BY <1>1, <1>3 DEF Same, guards, router, work, sends
<1>6. Good(b)'
  <2>1. latched[b] => latched'[b]  BY <1>3
  <2>2. alerts'[b] = alerts[b] + (IF latched'[b] /\ ~latched[b] THEN 1 ELSE 0)
    <3>1. alerts[b] \in Nat  BY <1>2 DEF WakeTypes
    <3> QED BY <1>3, <3>1
  <2> QED BY <1>1, <2>1, <2>2, AlertedGood DEF Taken, guards, router, work, sends, NoReply
<1>7. InHand' = InHand  BY <1>1 DEF InHand, guards
<1> QED BY <1>1, <1>4, <1>5, <1>6, <1>7, OneWake DEF router

\* The steps that change neither the tables, nor the alerts, nor the guard.
LEMMA QuietKeeps ==
  ASSUME TurnInv, NEW b \in Wakes,
         \/ Bound(b) \/ Act(b) \/ KidStarts(b) \/ Notice(b)
         \/ \E r \in Runs : RunStarts(b, r)
  PROVE  TurnInv'
<1>1. /\ UNCHANGED <<pending, expired, latched, alerts, guard, sent, routed, retired, parent, passed>>
      /\ UNCHANGED <<report, stray, reports, told, broke, ending, report47>>
  BY DEF Bound, Act, KidStarts, Notice, RunStarts, Alias, supervisor, guards, router,
         work, sends
<1>2. WakeTypes  BY DEF TurnInv
<1>3. /\ post' \in [Wakes -> {"none", "posting", "bound", "failed", "refused"}]
      /\ aliased' \in [Wakes -> BOOLEAN] /\ effects' \in [Wakes -> BOOLEAN]
      /\ disclosed' \in [Wakes -> BOOLEAN] /\ child' \in [Wakes -> BOOLEAN]
      /\ kin' \in [Wakes -> BOOLEAN] /\ failed' \in [Wakes -> BOOLEAN]
      /\ begun' \in [Wakes -> BOOLEAN] /\ run' \in [Wakes -> [Runs -> RunStates]]
      /\ call' \in [Wakes -> SUBSET Runs]
  <2>1. CASE Bound(b)  BY <1>2, <2>1 DEF Bound, WakeTypes, guards, router, work
  <2>3. CASE Act(b)  BY <1>2, <2>3 DEF Act, WakeTypes, guards, router, Runs, Running
  <2>4. CASE KidStarts(b)
    <3>1. Routed(b) \in BOOLEAN /\ (Routed(b) /\ guard[b] = "on") \in BOOLEAN  BY DEF Routed, Contains
    <3>2. aliased' \in [Wakes -> BOOLEAN] /\ child' \in [Wakes -> BOOLEAN] /\ kin' \in [Wakes -> BOOLEAN]
      BY <1>2, <2>4, <3>1 DEF KidStarts, Alias, WakeTypes
    <3>3. run' \in [Wakes -> [Runs -> RunStates]]
      BY <1>2, <2>4 DEF KidStarts, WakeTypes, Runs, RunStates
    <3> QED BY <1>2, <2>4, <3>2, <3>3 DEF KidStarts, WakeTypes
  <2>5. CASE Notice(b)  BY <1>2, <2>5 DEF Notice, WakeTypes, guards, work
  <2>6. CASE \E r \in Runs : RunStarts(b, r)
    BY <1>2, <2>6 DEF RunStarts, WakeTypes, guards, router, RunStates
  <2> QED BY <2>1, <2>3, <2>4, <2>5, <2>6
<1>4. WakeTypes'  BY <1>1, <1>2, <1>3 DEF WakeTypes
<1>5. \A x \in Wakes : x # b => /\ post'[x] = post[x] /\ disclosed'[x] = disclosed[x]
                                /\ run'[x] = run[x] /\ call'[x] = call[x]
  <2>1. CASE Bound(b)  BY <1>2, <2>1 DEF Bound, WakeTypes, guards, router, work
  <2>3. CASE Act(b)  BY <1>2, <2>3 DEF Act, WakeTypes, guards, router
  <2>4. CASE KidStarts(b)  BY <1>2, <2>4 DEF KidStarts, WakeTypes
  <2>5. CASE Notice(b)  BY <1>2, <2>5 DEF Notice, WakeTypes, guards, work
  <2>6. CASE \E r \in Runs : RunStarts(b, r)  BY <1>2, <2>6 DEF RunStarts, WakeTypes, guards, router
  <2> QED BY <2>1, <2>3, <2>4, <2>5, <2>6
<1>6. \A x \in Wakes : x # b => Same(x)  BY <1>1, <1>5 DEF Same
<1>7. /\ post[b] \in Taken /\ post'[b] \in Taken /\ (disclosed[b] => disclosed'[b])
      /\ NoReply(b)' => NoReply(b)
  <2>1. CASE Bound(b)
    BY <1>2, <2>1 DEF Bound, Taken, WakeTypes, guards, router, work, NoReply
  <2>4. CASE Act(b)
    <3>1. post[b] \in Taken  BY <2>4, TakenWhenOn DEF Act
    <3> QED BY <2>4, <3>1 DEF Act, guards, router, NoReply
  <2>5. CASE KidStarts(b)
    <3>1. passed[b] # {}  BY <2>5 DEF KidStarts
    <3>2. post[b] \in Taken  BY <3>1, TakenWhenOn
    <3> QED BY <1>2, <2>5, <3>2 DEF KidStarts, NoReply, WakeTypes
  <2>6. CASE Notice(b)
    <3>1. post[b] \in Taken  BY <2>6, TakenWhenOn DEF Notice
    <3> QED BY <1>2, <2>6, <3>1 DEF Notice, guards, work, NoReply, WakeTypes
  <2>7. CASE \E r \in Runs : RunStarts(b, r)
    <3>1. PICK r \in Runs : RunStarts(b, r)  BY <2>7
    <3>2. post[b] \in Taken  BY <3>1, TakenWhenOn DEF RunStarts
    <3> QED BY <1>2, <3>1, <3>2 DEF RunStarts, guards, router, NoReply, WakeTypes
  <2> QED BY <2>1, <2>4, <2>5, <2>6, <2>7
<1>8. alerts[b] \in Nat  BY <1>2 DEF WakeTypes
<1>9. Good(b)'  BY <1>1, <1>7, <1>8, AlertedGood
<1>10. InHand' = InHand  BY <1>1 DEF InHand
<1> QED BY <1>1, <1>4, <1>6, <1>9, <1>10, OneWake

LEMMA SettleKeeps == ASSUME TurnInv, NEW b \in Wakes, EffectsSettle(b) PROVE TurnInv'
<1>1. /\ UNCHANGED <<post, supervisor, guard, aliased, sent, router, work, sends, ending, report47>>
      /\ effects' = [effects EXCEPT ![b] = FALSE]
  BY DEF EffectsSettle
<1>2. WakeTypes'  BY <1>1 DEF TurnInv, WakeTypes, supervisor, router, work, sends
<1>3. \A x \in Wakes : Same(x)  BY <1>1 DEF Same, supervisor, router, work, sends
<1>4. (Supervised(b)' <=> Supervised(b)) /\ (Routed(b)' <=> Routed(b))
  BY <1>1 DEF Supervised, Routed, supervisor, router
<1>5. Good(b)'  BY <1>3, <1>4, SameGood DEF TurnInv
<1>6. InHand' = InHand  BY <1>1 DEF InHand
<1> QED BY <1>1, <1>2, <1>3, <1>5, <1>6, OneWake DEF supervisor, router

\* A guard that was on stops, or nothing happens but to what is decided.
LEMMA StopKeeps ==
  ASSUME TurnInv, NEW b \in Wakes, post[b] \in Taken, Stop(b),
         UNCHANGED <<post, pending, expired, aliased, sent, router, run, begun, sends, ending, report47>>,
         call' \in [Wakes -> SUBSET Runs], passed' \in [Wakes -> SUBSET Runs],
         \A x \in Wakes : x # b => call'[x] = call[x] /\ passed'[x] = passed[x]
  PROVE  TurnInv'
<1>1. WakeTypes  BY DEF TurnInv
<1>2. /\ guard' \in [Wakes -> Guards] /\ effects' \in [Wakes -> BOOLEAN]
      /\ latched' \in [Wakes -> BOOLEAN] /\ alerts' \in [Wakes -> Nat] /\ InHand' = InHand
      /\ \A x \in Wakes : x # b => guard'[x] = guard[x] /\ latched'[x] = latched[x] /\ alerts'[x] = alerts[x]
      /\ guard'[b] = (IF guard[b] = "on" THEN "stopped" ELSE guard[b])
      /\ latched[b] => latched'[b]
      /\ alerts'[b] = alerts[b] + (IF latched'[b] /\ ~latched[b] THEN 1 ELSE 0)
      /\ guard[b] = "on" /\ Supervised(b) => latched'[b]
  BY <1>1, StopDoes
<1>3. WakeTypes'  BY <1>1, <1>2 DEF WakeTypes, router, sends
<1>4. \A x \in Wakes : x # b => Same(x)  BY <1>2 DEF Same, router, sends
<1>5. Good(b)'  BY <1>2, AlertedGood DEF router, sends, NoReply
<1> QED BY <1>2, <1>3, <1>4, <1>5, OneWake DEF router

LEMMA CallsKeep ==
  ASSUME TurnInv, NEW b \in Wakes, post[b] \in Taken,
         UNCHANGED <<guard, effects, latched, alerts>>,
         UNCHANGED <<post, pending, expired, aliased, sent, router, run, begun, sends, ending, report47>>,
         call' \in [Wakes -> SUBSET Runs], passed' \in [Wakes -> SUBSET Runs],
         \A x \in Wakes : x # b => call'[x] = call[x] /\ passed'[x] = passed[x]
  PROVE  TurnInv'
<1>1. WakeTypes  BY DEF TurnInv
<1>2. WakeTypes'  BY <1>1 DEF WakeTypes, router, sends
<1>3. \A x \in Wakes : x # b => Same(x)  BY DEF Same, router, sends
<1>4. alerts[b] \in Nat  BY <1>1 DEF WakeTypes
<1>5. Good(b)'  BY <1>4, AlertedGood DEF router, sends, NoReply
<1>6. InHand' = InHand  BY DEF InHand
<1> QED BY <1>2, <1>3, <1>5, <1>6, OneWake DEF router

LEMMA TripKeeps ==
  ASSUME TurnInv, NEW b \in Wakes, OutOfLine(b) \/ WrongModel(b) PROVE TurnInv'
<1>1. Trip(b)  BY DEF OutOfLine, WrongModel
<1>2. post[b] \in Taken  BY <1>1, TakenWhenOn DEF Trip
<1>3. call \in [Wakes -> SUBSET Runs] /\ passed \in [Wakes -> SUBSET Runs]  BY DEF TurnInv, WakeTypes
<1> QED BY <1>1, <1>2, <1>3, StopKeeps DEF Trip, work

LEMMA DelegateKeeps ==
  ASSUME TurnInv, NEW b \in Wakes, NEW r \in Runs, Delegate(b, r) PROVE TurnInv'
<1>1. post[b] \in Taken  BY TakenWhenOn DEF Delegate
<1>2. call \in [Wakes -> SUBSET Runs] /\ passed \in [Wakes -> SUBSET Runs]  BY DEF TurnInv, WakeTypes
<1>3. UNCHANGED <<post, pending, expired, aliased, sent, router, run, passed, begun, sends, ending,
                  report47>>
  BY DEF Delegate
<1>4. CASE disclosed[b]
  <2>1. Stop(b) /\ UNCHANGED call  BY <1>4 DEF Delegate
  <2> QED BY <1>1, <1>2, <1>3, <2>1, StopKeeps
<1>5. CASE ~disclosed[b]
  <2>1. call' = [call EXCEPT ![b] = @ \cup {r}] /\ UNCHANGED <<guard, effects, latched, alerts>>
    BY <1>5 DEF Delegate
  <2>2. call' \in [Wakes -> SUBSET Runs] /\ \A x \in Wakes : x # b => call'[x] = call[x]
    BY <1>2, <2>1
  <2> QED BY <1>1, <1>2, <1>3, <2>1, <2>2, CallsKeep
<1> QED BY <1>4, <1>5

LEMMA DecidedKeeps ==
  ASSUME TurnInv, NEW b \in Wakes, NEW r \in Runs, Decided(b, r) PROVE TurnInv'
<1>1. post[b] \in Taken  BY TakenWhenOn DEF Decided
<1>2. call \in [Wakes -> SUBSET Runs] /\ passed \in [Wakes -> SUBSET Runs]  BY DEF TurnInv, WakeTypes
<1>3. UNCHANGED <<post, pending, expired, aliased, sent, router, run, begun, sends, ending, report47>>
  BY DEF Decided
<1>4. call' \in [Wakes -> SUBSET Runs] /\ \A x \in Wakes : x # b => call'[x] = call[x]
  BY <1>2 DEF Decided
<1>5. passed' = passed \/ passed' = [passed EXCEPT ![b] = @ \cup {r}]  BY DEF Decided
<1>6. passed' \in [Wakes -> SUBSET Runs] /\ \A x \in Wakes : x # b => passed'[x] = passed[x]
  BY <1>2, <1>5
<1>7. Stop(b) \/ UNCHANGED <<guard, effects, latched, alerts>>  BY DEF Decided
<1> QED BY <1>1, <1>3, <1>4, <1>6, <1>7, StopKeeps, CallsKeep

-----------------------------------------------------------------------------
(* The sends of a report.                                                  *)

LEMMA SendsKeep ==
  ASSUME TurnInv, NEW b \in Wakes, post[b] \in Taken,
         UNCHANGED <<post, supervisor, guard, aliased, effects, routed, retired, child, kin, parent,
                     failed, work, ending, report47>>,
         sent' \in [Wakes -> SUBSET Targets], report' \in [Wakes -> SUBSET Targets],
         disclosed' \in [Wakes -> BOOLEAN], broke' \in [Wakes -> BOOLEAN],
         reports' \in [Wakes -> Nat],
         stray' \in [Wakes -> [Targets -> Nat]], told' \in [Wakes -> [Targets -> Nat]],
         \A x \in Wakes : x # b =>
           /\ sent'[x] = sent[x] /\ disclosed'[x] = disclosed[x] /\ report'[x] = report[x]
           /\ stray'[x] = stray[x] /\ told'[x] = told[x] /\ reports'[x] = reports[x]
           /\ broke'[x] = broke[x],
         sent[b] \subseteq sent'[b], Counted(b)', OneRound(b)', Fenced(b)'
  PROVE  TurnInv'
<1>1. WakeTypes'  BY DEF TurnInv, WakeTypes, supervisor, work
<1>2. \A x \in Wakes : x # b => Same(x)  BY DEF Same, supervisor, work
<1>3. (Supervised(b)' <=> Supervised(b)) /\ (Routed(b)' <=> Routed(b))
  BY DEF Supervised, Routed, supervisor
<1>4. Good(b)'
  <2>1. Good(b)  BY DEF TurnInv
  <2>2. Untouched(b)'  BY DEF Untouched
  <2>3. Guarded(b)'  BY <2>1 DEF Good, Guarded
  <2>4. Latched(b)' /\ LetGo(b)'  BY <1>3, <2>1 DEF Good, Latched, LetGo, supervisor
  <2>5. OutcomeKnown(b) => OutcomeKnown(b)'
    <3>1. sent[b] \in SUBSET Targets /\ sent'[b] \in SUBSET Targets  BY DEF TurnInv, WakeTypes
    <3> QED BY <3>1 DEF OutcomeKnown, supervisor
  <2>6. Heard(b)'  BY <1>3, <2>1, <2>5 DEF Good, Heard, NoReply, Tracked, supervisor, work
  <2> QED BY <2>1, <2>2, <2>3, <2>4, <2>6 DEF Good
<1>5. InHand' = InHand  BY DEF InHand
<1> QED BY <1>1, <1>2, <1>4, <1>5, OneWake DEF supervisor

LEMMA SendTypes ==
  ASSUME TurnInv
  PROVE  /\ sent \in [Wakes -> SUBSET Targets] /\ report \in [Wakes -> SUBSET Targets]
         /\ disclosed \in [Wakes -> BOOLEAN] /\ broke \in [Wakes -> BOOLEAN]
         /\ reports \in [Wakes -> Nat] /\ guard \in [Wakes -> Guards]
         /\ stray \in [Wakes -> [Targets -> Nat]] /\ told \in [Wakes -> [Targets -> Nat]]
         /\ \A b \in Wakes : Counted(b) /\ OneRound(b) /\ Fenced(b)
BY DEF TurnInv, WakeTypes, Good

\* A report that is let in finds nobody told, unless a send failed.
LEMMA ReportKeeps == ASSUME TurnInv, NEW b \in Wakes, NEW r \in Runs, Report(b, r) PROVE TurnInv'
<1>1. post[b] \in Taken  BY TakenWhenOn DEF Report
<1>2. /\ sent \in [Wakes -> SUBSET Targets] /\ report \in [Wakes -> SUBSET Targets]
      /\ disclosed \in [Wakes -> BOOLEAN] /\ broke \in [Wakes -> BOOLEAN]
      /\ reports \in [Wakes -> Nat]
      /\ stray \in [Wakes -> [Targets -> Nat]] /\ told \in [Wakes -> [Targets -> Nat]]
      /\ Counted(b) /\ OneRound(b) /\ Fenced(b)
  BY SendTypes
<1>3. /\ guard[b] = "on" /\ sent[b] # Targets /\ report[b] = {} /\ reports[b] < MaxReports
      /\ report' = [report EXCEPT ![b] = Targets] /\ reports' = [reports EXCEPT ![b] = @ + 1]
      /\ UNCHANGED <<post, supervisor, guards, router, work, stray, told, broke, ending, report47>>
  BY DEF Report, MayReport, HasReported
<1>4. UNCHANGED <<guard, aliased, effects, sent, routed, retired, disclosed, child, kin, parent, failed>>
  BY <1>3 DEF guards, router
<1>5. report' \in [Wakes -> SUBSET Targets] /\ reports' \in [Wakes -> Nat]  BY <1>2, <1>3
<1>6. report'[b] = Targets /\ reports'[b] = reports[b] + 1 /\ reports[b] \in Nat  BY <1>2, <1>3
<1>7. \A x \in Wakes : x # b => report'[x] = report[x] /\ reports'[x] = reports[x]  BY <1>2, <1>3
<1>8. \A t \in Targets : told[b][t] \in Nat /\ stray[b][t] \in Nat  BY <1>2
<1>9. Counted(b)'
  <2>1. MaxReports \in Nat  BY CapacityAssumption
  <2>2. reports'[b] <= MaxReports  BY <1>3, <1>6, <2>1
  <2>3. \A t \in Targets : told[b][t] + stray[b][t] <= reports[b]
    BY <1>2, <1>3, <1>8 DEF Counted
  <2>4. \A t \in Targets : told[b][t] + stray[b][t] + 1 <= reports'[b]  BY <1>6, <1>8, <2>3
  <2> QED BY <1>3, <1>6, <2>2, <2>4 DEF Counted
<1>10. OneRound(b)'
  <2>1. ASSUME ~broke[b] PROVE \A t \in Targets : told[b][t] = 0
    <3>1. PICK u \in Targets : u \notin sent[b]  BY <1>2, <1>3
    <3>2. told[b][u] # 1 /\ told[b][u] <= 1  BY <1>2, <1>3, <2>1, <3>1 DEF OneRound
    <3>3. told[b][u] = 0  BY <1>8, <3>2
    <3> QED BY <1>2, <1>3, <2>1, <3>3 DEF OneRound
  <2> QED BY <1>2, <1>3, <1>4, <1>6, <2>1, CapacityAssumption DEF OneRound
<1>11. Fenced(b)'  BY <1>2, <1>3, <1>4 DEF Fenced, Routed
<1> QED BY <1>1, <1>2, <1>3, <1>4, <1>5, <1>7, <1>9, <1>10, <1>11, SendsKeep

\* A delivery: the receipt counts while the guard is on, and the last one discloses.
LEMMA LandKeeps == ASSUME TurnInv, NEW b \in Wakes, NEW t \in Targets, Land(b, t) PROVE TurnInv'
<1>1. post[b] \in Taken  BY TakenWhenOn DEF Land
<1>2. /\ sent \in [Wakes -> SUBSET Targets] /\ report \in [Wakes -> SUBSET Targets]
      /\ disclosed \in [Wakes -> BOOLEAN] /\ broke \in [Wakes -> BOOLEAN]
      /\ reports \in [Wakes -> Nat]
      /\ stray \in [Wakes -> [Targets -> Nat]] /\ told \in [Wakes -> [Targets -> Nat]]
      /\ Counted(b) /\ OneRound(b) /\ Fenced(b)
  BY SendTypes
<1>3. /\ t \in report[b]
      /\ report' = [report EXCEPT ![b] = @ \ {t}] /\ told' = [told EXCEPT ![b][t] = @ + 1]
      /\ sent' = IF guard[b] = "on" THEN [sent EXCEPT ![b] = @ \cup {t}] ELSE sent
      /\ disclosed' = [disclosed EXCEPT ![b] = @ \/ (report'[b] = {} /\ Routed(b))]
      /\ UNCHANGED <<post, supervisor, guard, aliased, effects, routed, retired, child, kin, parent,
                     failed, work, stray, reports, broke, ending, report47>>
  BY DEF Land, Receipt
<1>4. /\ report' \in [Wakes -> SUBSET Targets] /\ sent' \in [Wakes -> SUBSET Targets]
      /\ told' \in [Wakes -> [Targets -> Nat]]
  BY <1>2, <1>3
<1>5. disclosed' \in [Wakes -> BOOLEAN] /\ (report'[b] = {} /\ Routed(b) => disclosed'[b])
      /\ (disclosed[b] => disclosed'[b])
  <2>1. Routed(b) \in BOOLEAN /\ disclosed[b] \in BOOLEAN  BY <1>2 DEF Routed, Contains
  <2>2. (disclosed[b] \/ (report'[b] = {} /\ Routed(b))) \in BOOLEAN  OBVIOUS
  <2> QED BY <1>2, <1>3, <2>2
<1>6. /\ report'[b] = report[b] \ {t}
      /\ told'[b][t] = told[b][t] + 1 /\ \A u \in Targets : u # t => told'[b][u] = told[b][u]
      /\ sent'[b] = IF guard[b] = "on" THEN sent[b] \cup {t} ELSE sent[b]
  BY <1>2, <1>3
<1>7. \A x \in Wakes : x # b => /\ sent'[x] = sent[x] /\ disclosed'[x] = disclosed[x]
                                /\ report'[x] = report[x] /\ told'[x] = told[x]
  BY <1>2, <1>3
<1>8. \A u \in Targets : told[b][u] \in Nat /\ stray[b][u] \in Nat  BY <1>2
<1>9. reports[b] \in Nat  BY <1>2
<1>10. Counted(b)'
  <2>1. told'[b][t] + stray[b][t] <= reports[b]
    <3>1. told[b][t] + stray[b][t] + 1 <= reports[b]  BY <1>2, <1>3 DEF Counted
    <3> QED BY <1>6, <1>8, <1>9, <3>1
  <2>2. \A u \in Targets : u \in report'[b] <=> u \in report[b] /\ u # t  BY <1>6
  <2> QED BY <1>2, <1>3, <1>6, <1>8, <1>9, <2>1, <2>2 DEF Counted
<1>11. OneRound(b)'
  <2> SUFFICES ASSUME ~broke[b], NEW u \in Targets
               PROVE  /\ stray[b][u] = 0 /\ told'[b][u] <= 1
                      /\ u \in sent'[b] => told'[b][u] = 1
                      /\ guard[b] = "on" /\ told'[b][u] = 1 => u \in sent'[b]
                      /\ report'[b] # {} => (u \in report'[b] <=> told'[b][u] = 0)
                      /\ report'[b] = {} => \A v \in Targets : told'[b][v] = told'[b][u]
    BY <1>3 DEF OneRound
  <2>1. /\ \A v \in Targets : stray[b][v] = 0 /\ told[b][v] <= 1 /\ (v \in sent[b] => told[b][v] = 1)
                              /\ (guard[b] = "on" /\ told[b][v] = 1 => v \in sent[b])
                              /\ (v \in report[b] <=> told[b][v] = 0)
    BY <1>2, <1>3 DEF OneRound
  <2>2. told[b][t] = 0 /\ told'[b][t] = 1 /\ t \notin sent[b]
    <3>1. told[b][t] = 0  BY <1>3, <2>1
    <3> QED BY <1>6, <2>1, <3>1
  <2>3. \A v \in Targets : v \in report'[b] <=> told'[b][v] = 0
    BY <1>6, <2>1, <2>2
  <2>4. \A v \in Targets : told'[b][v] \in Nat /\ told'[b][v] <= 1  BY <1>6, <1>8, <2>1, <2>2
  <2>5. report'[b] = {} => \A v \in Targets : told'[b][v] = 1  BY <2>3, <2>4
  <2>6. u \in sent'[b] => told'[b][u] = 1  BY <1>6, <2>1, <2>2
  <2>7. guard[b] = "on" /\ told'[b][u] = 1 => u \in sent'[b]  BY <1>6, <2>1
  <2> QED BY <2>1, <2>3, <2>4, <2>5, <2>6, <2>7
<1>12. Fenced(b)'
  <2>1. Routed(b)' <=> Routed(b)  BY <1>3 DEF Routed
  <2>2. ASSUME ~broke[b], sent'[b] = Targets, Routed(b) PROVE disclosed'[b]
    <3>1. \A v \in Targets : told'[b][v] = 1 /\ (report'[b] # {} => (v \in report'[b] <=> told'[b][v] = 0))
      BY <1>3, <1>11, <2>2 DEF OneRound
    <3>2. report'[b] \subseteq Targets  BY <1>4
    <3>3. report'[b] = {}  BY <3>1, <3>2
    <3> QED BY <1>5, <2>2, <3>3
  <2> QED BY <1>2, <1>3, <2>1, <2>2 DEF Fenced
<1>13. /\ UNCHANGED <<post, supervisor, guard, aliased, effects, routed, retired, child, kin, parent,
                       failed, work, ending, report47>>
       /\ UNCHANGED <<stray, reports, broke>>
  BY <1>3
<1>14. sent[b] \subseteq sent'[b]  BY <1>6
<1>15. /\ broke' \in [Wakes -> BOOLEAN] /\ reports' \in [Wakes -> Nat]
       /\ stray' \in [Wakes -> [Targets -> Nat]]
       /\ \A x \in Wakes : stray'[x] = stray[x] /\ reports'[x] = reports[x] /\ broke'[x] = broke[x]
  BY <1>2, <1>13
<1> QED BY <1>1, <1>4, <1>5, <1>7, <1>10, <1>11, <1>12, <1>13, <1>14, <1>15, SendsKeep

LEMMA SendFailsKeeps == ASSUME TurnInv, NEW b \in Wakes, NEW t \in Targets, SendFails(b, t) PROVE TurnInv'
<1>1. post[b] \in Taken  BY TakenWhenOn DEF SendFails
<1>2. /\ sent \in [Wakes -> SUBSET Targets] /\ report \in [Wakes -> SUBSET Targets]
      /\ disclosed \in [Wakes -> BOOLEAN] /\ broke \in [Wakes -> BOOLEAN]
      /\ reports \in [Wakes -> Nat]
      /\ stray \in [Wakes -> [Targets -> Nat]] /\ told \in [Wakes -> [Targets -> Nat]]
      /\ Counted(b) /\ OneRound(b) /\ Fenced(b)
  BY SendTypes
<1> DEFINE f == [x \in Targets |-> stray[b][x] + (IF x \in report[b] \ {t} THEN 1 ELSE 0)]
<1>3. /\ stray' = [stray EXCEPT ![b] = f]
      /\ report' = [report EXCEPT ![b] = {}] /\ broke' = [broke EXCEPT ![b] = TRUE]
      /\ UNCHANGED <<post, supervisor, guards, router, work, reports, told, ending, report47>>
  BY <1>2 DEF SendFails
<1>4. \A x \in Targets : /\ stray[b][x] \in Nat /\ told[b][x] \in Nat
                         /\ f[x] = stray[b][x] + (IF x \in report[b] \ {t} THEN 1 ELSE 0)
  BY <1>2
<1>5. f \in [Targets -> Nat]  BY <1>4
<1> HIDE DEF f
<1>6. UNCHANGED <<guard, aliased, effects, sent, routed, retired, disclosed, child, kin, parent, failed>>
  BY <1>3 DEF guards, router
<1>7. /\ stray' \in [Wakes -> [Targets -> Nat]] /\ report' \in [Wakes -> SUBSET Targets]
      /\ broke' \in [Wakes -> BOOLEAN]
  BY <1>2, <1>3, <1>5
<1>8. stray'[b] = f /\ report'[b] = {} /\ broke'[b]  BY <1>2, <1>3
<1>9. \A x \in Wakes : x # b => stray'[x] = stray[x] /\ report'[x] = report[x] /\ broke'[x] = broke[x]
  BY <1>2, <1>3
<1>10. reports[b] \in Nat  BY <1>2
<1>11. Counted(b)'
  <2>1. \A x \in Targets : told[b][x] + f[x] <= reports[b]
    <3>1. SUFFICES ASSUME NEW x \in Targets PROVE told[b][x] + f[x] <= reports[b]  OBVIOUS
    <3>2. told[b][x] + stray[b][x] + (IF x \in report[b] THEN 1 ELSE 0) <= reports[b]
      BY <1>2 DEF Counted
    <3>3. CASE x \in report[b]  BY <1>4, <1>10, <3>2, <3>3
    <3>4. CASE x \notin report[b]  BY <1>4, <1>10, <3>2, <3>4
    <3> QED BY <3>3, <3>4
  <2>2. \A x \in Targets : told[b][x] + f[x] + 0 <= reports[b]
    <3>1. \A x \in Targets : f[x] \in Nat  BY <1>5
    <3> QED BY <1>4, <1>10, <2>1, <3>1
  <2> QED BY <1>2, <1>3, <1>8, <2>2 DEF Counted
<1>12. OneRound(b)' /\ Fenced(b)'  BY <1>2, <1>6, <1>8 DEF OneRound, Fenced, Routed
<1> QED BY <1>1, <1>2, <1>3, <1>6, <1>7, <1>9, <1>11, <1>12, SendsKeep

\* A send that a failed report left behind arrives.
LEMMA StrayLandsKeeps ==
  ASSUME TurnInv, NEW b \in Wakes, NEW t \in Targets, StrayLands(b, t) PROVE TurnInv'
<1>1. post[b] \in Taken  BY TakenWhenOn DEF StrayLands
<1>2. /\ sent \in [Wakes -> SUBSET Targets] /\ report \in [Wakes -> SUBSET Targets]
      /\ disclosed \in [Wakes -> BOOLEAN] /\ broke \in [Wakes -> BOOLEAN]
      /\ reports \in [Wakes -> Nat]
      /\ stray \in [Wakes -> [Targets -> Nat]] /\ told \in [Wakes -> [Targets -> Nat]]
      /\ Counted(b) /\ OneRound(b) /\ Fenced(b)
  BY SendTypes
<1>3. /\ stray[b][t] > 0
      /\ stray' = [stray EXCEPT ![b][t] = @ - 1] /\ told' = [told EXCEPT ![b][t] = @ + 1]
      /\ sent' = IF guard[b] = "on" THEN [sent EXCEPT ![b] = @ \cup {t}] ELSE sent
      /\ UNCHANGED <<post, supervisor, guard, aliased, effects, router, work, report, reports, broke,
                     ending, report47>>
  BY DEF StrayLands, Receipt
<1>4. UNCHANGED <<routed, retired, disclosed, child, kin, parent, failed>>  BY <1>3 DEF router
<1>5. stray[b][t] \in Nat /\ stray[b][t] - 1 \in Nat /\ told[b][t] \in Nat  BY <1>2, <1>3
<1>6. /\ sent' \in [Wakes -> SUBSET Targets] /\ told' \in [Wakes -> [Targets -> Nat]]
      /\ stray' \in [Wakes -> [Targets -> Nat]]
  BY <1>2, <1>3, <1>5
<1>7. /\ told'[b][t] = told[b][t] + 1 /\ stray'[b][t] = stray[b][t] - 1
      /\ \A u \in Targets : u # t => told'[b][u] = told[b][u] /\ stray'[b][u] = stray[b][u]
  BY <1>2, <1>3
<1>8. \A x \in Wakes : x # b => sent'[x] = sent[x] /\ stray'[x] = stray[x] /\ told'[x] = told[x]
  BY <1>2, <1>3
<1>9. broke[b]  BY <1>2, <1>3 DEF OneRound
<1>10. Counted(b)'
  <2>1. told'[b][t] + stray'[b][t] = told[b][t] + stray[b][t]  BY <1>5, <1>7
  <2> QED BY <1>2, <1>3, <1>7, <2>1 DEF Counted
<1>11. OneRound(b)' /\ Fenced(b)'  BY <1>2, <1>3, <1>4, <1>9 DEF OneRound, Fenced, Routed
<1>12. sent[b] \subseteq sent'[b]  BY <1>2, <1>3
<1> QED BY <1>1, <1>2, <1>3, <1>4, <1>6, <1>8, <1>10, <1>11, <1>12, SendsKeep

-----------------------------------------------------------------------------
(* The timer, and the ends.                                                *)

LEMMA DropDoes ==
  ASSUME WakeTypes, NEW S, DropReport(S)
  PROVE  /\ report47' \in [Wakes -> {"none", "owed", "sent", "dropped"}]
         /\ \A b \in Wakes :
              report47'[b] = IF b \in S /\ report47[b] = "owed" THEN "dropped" ELSE report47[b]
BY DEF WakeTypes, DropReport

LEMMA ExpireKeeps == ASSUME TurnInv, NEW b \in Wakes, Expire(b) PROVE TurnInv'
<1>1. /\ Supervised(b) /\ Alert({b}) /\ Trips({b}) /\ DropReport({b})
      /\ expired' = [expired EXCEPT ![b] = TRUE]
      /\ UNCHANGED <<post, pending, aliased, sent, router, work, sends, ending>>
  BY DEF Expire, Timer
<1>2. WakeTypes /\ Good(b)  BY DEF TurnInv
<1>3. post[b] \in Taken  BY <1>1, TakenWhenOn
<1>4. /\ latched' \in [Wakes -> BOOLEAN] /\ alerts' \in [Wakes -> Nat] /\ latched'[b]
      /\ alerts'[b] = alerts[b] + (IF latched[b] THEN 0 ELSE 1)
      /\ \A x \in Wakes : x # b => latched'[x] = latched[x] /\ alerts'[x] = alerts[x]
  BY <1>1, <1>2, AlertDoes
<1>5. /\ guard' \in [Wakes -> Guards] /\ effects' \in [Wakes -> BOOLEAN] /\ InHand' = InHand
      /\ \A x \in Wakes : guard'[x] = IF x \in {b} /\ guard[x] = "on" THEN "stopped" ELSE guard[x]
  BY <1>1, <1>2, TripsDo
<1>6. /\ report47' \in [Wakes -> {"none", "owed", "sent", "dropped"}]
      /\ \A x \in Wakes :
           report47'[x] = IF x \in {b} /\ report47[x] = "owed" THEN "dropped" ELSE report47[x]
  BY <1>1, <1>2, DropDoes
<1>7. expired' \in [Wakes -> BOOLEAN] /\ expired'[b] /\ \A x \in Wakes : x # b => expired'[x] = expired[x]
  BY <1>1, <1>2 DEF WakeTypes
<1>8. WakeTypes'  BY <1>1, <1>2, <1>4, <1>5, <1>6, <1>7 DEF WakeTypes, router, work, sends
<1>9. \A x \in Wakes : x # b => Same(x)
  BY <1>1, <1>4, <1>5, <1>6, <1>7 DEF Same, router, work, sends
<1>10. Good(b)'
  <2>1. (Supervised(b)' <=> Supervised(b)) /\ (Routed(b)' <=> Routed(b))
    BY <1>1 DEF Supervised, Routed, router
  <2>2. guard'[b] = (IF guard[b] = "on" THEN "stopped" ELSE guard[b])  BY <1>5
  <2>3. report47'[b] = (IF report47[b] = "owed" THEN "dropped" ELSE report47[b])  BY <1>6
  <2>4. Untouched(b)'  BY <1>1, <1>3 DEF Untouched
  <2>5. Guarded(b)'  BY <1>1, <1>2, <2>2 DEF Good, Guarded
  <2>6. LetGo(b)'  BY <1>1, <1>2, <2>1, <2>2, <2>3 DEF Good, LetGo
  <2>7. Latched(b)'
    <3>1. alerts'[b] = 1
      <4>1. alerts[b] = IF latched[b] THEN 1 ELSE 0  BY <1>2 DEF Good, Latched
      <4> QED BY <1>4, <4>1
    <3>2. report47[b] # "sent"  BY <1>1, <1>2 DEF Good, LetGo
    <3> QED BY <1>4, <2>3, <3>1, <3>2 DEF Latched
  <2>8. OutcomeKnown(b)'  BY <1>4, <2>7 DEF Latched, OutcomeKnown
  <2>9. Heard(b)'  BY <1>1, <1>2, <2>1, <2>8 DEF Good, Heard, NoReply, router, work
  <2>10. Counted(b)' /\ OneRound(b)'  BY <1>1, <1>2, <2>2 DEF Good, Counted, OneRound, sends
  <2>11. Fenced(b)'  BY <1>1, <1>2, <2>1 DEF Good, Fenced, router, sends
  <2> QED BY <2>4, <2>5, <2>6, <2>7, <2>9, <2>10, <2>11 DEF Good
<1> QED BY <1>1, <1>5, <1>8, <1>9, <1>10, OneWake DEF router

LEMMA ForgetDoes ==
  ASSUME TurnInv, NEW b \in Wakes, Forget(b)
  PROVE  /\ routed' \in Seq(Wakes) /\ ~Routed(b)' /\ retired' \in [Wakes -> BOOLEAN]
         /\ \A x \in Wakes : x # b => retired'[x] = retired[x]
<1>1. routed \in Seq(Wakes) /\ Once(routed) /\ retired \in [Wakes -> BOOLEAN]
  BY DEF TurnInv, Tables, WakeTypes
<1>2. routed' = Without(routed, b) /\ retired' = [retired EXCEPT ![b] = @ \/ Routed(b)]  BY DEF Forget
<1>3. routed' \in Seq(Wakes) /\ ~Contains(routed', b)  BY <1>1, <1>2, Removed
<1>4. (retired[b] \/ Routed(b)) \in BOOLEAN  OBVIOUS
<1> QED BY <1>1, <1>2, <1>3, <1>4 DEF Routed

LEMMA UnsuperviseDoes ==
  ASSUME TurnInv, NEW b \in Wakes, Unsupervise(b)
  PROVE  pending' \in Seq(Wakes) /\ ~Supervised(b)' /\ pending' = Without(pending, b)
<1>1. pending \in Seq(Wakes) /\ Once(pending) /\ pending' = Without(pending, b)
  BY DEF TurnInv, Tables, WakeTypes, Unsupervise
<1>2. pending' \in Seq(Wakes) /\ ~Contains(pending', b)  BY <1>1, Removed
<1> QED BY <1>1, <1>2 DEF Supervised

\* A wake that the tables let go of; its outcome is known, or a later run began.
LEMMA LeftGood ==
  ASSUME TurnInv, NEW b \in Wakes, post'[b] \in Taken, guard'[b] = "gone", ~Supervised(b)',
         ~Routed(b)', NoReply(b) => OutcomeKnown(b),
         expired'[b] = expired[b], latched'[b] = latched[b], alerts'[b] = alerts[b],
         sent'[b] = sent[b], parent'[b] = parent[b], run'[b] = run[b],
         report'[b] = report[b], stray'[b] = stray[b], told'[b] = told[b],
         reports'[b] = reports[b], broke'[b] = broke[b],
         report47'[b] = (IF report47[b] = "owed" THEN "dropped" ELSE report47[b])
  PROVE  Good(b)'
<1>1. Good(b)  BY DEF TurnInv
<1>2. Untouched(b)' /\ Guarded(b)'  BY DEF Untouched, Guarded
<1>3. Latched(b)'  BY <1>1 DEF Good, Latched
<1>4. LetGo(b)'  BY DEF LetGo
<1>5. Heard(b)'  BY <1>1 DEF Good, Heard, NoReply, OutcomeKnown
<1>6. Counted(b)'  BY <1>1 DEF Good, Counted
<1>7. OneRound(b)'  BY <1>1 DEF Good, OneRound
<1>8. Fenced(b)'  BY DEF Fenced
<1> QED BY <1>2, <1>3, <1>4, <1>5, <1>6, <1>7, <1>8 DEF Good

LEMMA GivesUpKeeps == ASSUME TurnInv, NEW b \in Wakes, GivesUp(b) PROVE TurnInv'
<1>1. /\ latched[b] /\ post' = [post EXCEPT ![b] = "failed"]
      /\ Unsupervise(b) /\ guard' = [guard EXCEPT ![b] = "gone"] /\ Forget(b) /\ DropReport({b})
      /\ UNCHANGED <<expired, latched, alerts, aliased, effects, sent,
                     disclosed, child, kin, parent, failed, work, sends, ending>>
  BY DEF GivesUp, Unguard
<1>2. WakeTypes /\ Good(b)  BY DEF TurnInv
<1>3. /\ routed' \in Seq(Wakes) /\ ~Routed(b)' /\ retired' \in [Wakes -> BOOLEAN]
      /\ \A x \in Wakes : x # b => retired'[x] = retired[x]
  BY <1>1, ForgetDoes
<1>4. pending' \in Seq(Wakes) /\ ~Supervised(b)' /\ pending' = Without(pending, b)
  BY <1>1, UnsuperviseDoes
<1>5. /\ report47' \in [Wakes -> {"none", "owed", "sent", "dropped"}]
      /\ \A x \in Wakes :
           report47'[x] = IF x \in {b} /\ report47[x] = "owed" THEN "dropped" ELSE report47[x]
  BY <1>1, <1>2, DropDoes
<1>6. /\ post' \in [Wakes -> {"none", "posting", "bound", "failed", "refused"}]
      /\ guard' \in [Wakes -> Guards] /\ post'[b] = "failed" /\ guard'[b] = "gone"
      /\ \A x \in Wakes : x # b => post'[x] = post[x] /\ guard'[x] = guard[x]
  BY <1>1, <1>2 DEF WakeTypes, Guards
<1>7. WakeTypes'
  BY <1>1, <1>2, <1>3, <1>4, <1>5, <1>6 DEF WakeTypes, work, sends
<1>8. \A x \in Wakes : x # b => Same(x)  BY <1>1, <1>3, <1>5, <1>6 DEF Same, work, sends
<1>9. Good(b)'
  <2>1. OutcomeKnown(b)  BY <1>1, <1>2, LatchTells DEF Good
  <2>2. post'[b] \in Taken  BY <1>6 DEF Taken
  <2>3. report47'[b] = (IF report47[b] = "owed" THEN "dropped" ELSE report47[b])  BY <1>5
  <2> QED BY <1>1, <1>3, <1>4, <1>6, <2>1, <2>2, <2>3, LeftGood DEF work, sends
<1>10. InHand' \subseteq InHand  BY <1>6 DEF InHand
<1>11. routed' = Without(routed, b)  BY <1>1 DEF Forget
<1> QED BY <1>4, <1>7, <1>8, <1>9, <1>10, <1>11, OneWake

\* The wake's end, once claimed, has left the supervisor.
LEMMA CompleteKeeps == ASSUME TurnInv, NEW b \in Wakes, Complete(b) PROVE TurnInv'
<1>1. /\ "complete" \in ending[b] /\ ending' = [ending EXCEPT ![b] = @ \ {"complete"}]
      /\ guard' = [guard EXCEPT ![b] = "gone"] /\ Forget(b) /\ DropReport({b})
      /\ UNCHANGED <<post, supervisor, aliased, effects, sent, disclosed, child, kin, parent, failed,
                     work, sends>>
  BY DEF Complete, Unguard
<1>2. WakeTypes /\ Good(b)  BY DEF TurnInv
<1>3. /\ routed' \in Seq(Wakes) /\ ~Routed(b)' /\ retired' \in [Wakes -> BOOLEAN]
      /\ \A x \in Wakes : x # b => retired'[x] = retired[x]
  BY <1>1, ForgetDoes
<1>4. /\ report47' \in [Wakes -> {"none", "owed", "sent", "dropped"}]
      /\ \A x \in Wakes :
           report47'[x] = IF x \in {b} /\ report47[x] = "owed" THEN "dropped" ELSE report47[x]
  BY <1>1, <1>2, DropDoes
<1>5. /\ guard' \in [Wakes -> Guards] /\ guard'[b] = "gone"
      /\ ending' \in [Wakes -> SUBSET Ends]
      /\ \A x \in Wakes : x # b => guard'[x] = guard[x] /\ ending'[x] = ending[x]
  BY <1>1, <1>2 DEF WakeTypes, Guards
<1>6. WakeTypes'
  BY <1>1, <1>2, <1>3, <1>4, <1>5 DEF WakeTypes, supervisor, work, sends
<1>7. \A x \in Wakes : x # b => Same(x)
  BY <1>1, <1>3, <1>4, <1>5 DEF Same, supervisor, work, sends
<1>8. ~Supervised(b) /\ ~Supervised(b)'  BY <1>1, <1>2 DEF Good, LetGo, Supervised, supervisor
<1>9. post[b] \in Taken  BY <1>1, TakenWhenOn
<1>10. Good(b)'
  <2>1. NoReply(b) => OutcomeKnown(b)  BY <1>2, <1>8, <1>9 DEF Good, Heard, Tracked, Taken
  <2>2. report47'[b] = (IF report47[b] = "owed" THEN "dropped" ELSE report47[b])  BY <1>4
  <2> QED BY <1>1, <1>3, <1>5, <1>8, <1>9, <2>1, <2>2, LeftGood DEF supervisor, work, sends
<1>11. InHand' \subseteq InHand  BY <1>5 DEF InHand
<1>12. routed' = Without(routed, b) /\ pending' = pending  BY <1>1 DEF Forget, supervisor
<1> QED BY <1>6, <1>7, <1>10, <1>11, <1>12, OneWake

\* The end that claims the wake finds its outcome known, or an earlier end has it.
LEMMA ClaimKeeps ==
  ASSUME TurnInv, NEW b \in Wakes, NEW e \in {"matched", "unmatched"}, NEW large \in BOOLEAN,
         Claim(b, e, large)
  PROVE  TurnInv'
<1> DEFINE S == IF Supervised(b) /\ (failed[b] \/ large) THEN {b} ELSE {}
<1>1. /\ e \in ending[b] /\ ending' = [ending EXCEPT ![b] = (@ \ {e}) \cup {"complete"}]
      /\ guard' = IF e = "matched" THEN [guard EXCEPT ![b] = "gone"] ELSE guard
      /\ Unsupervise(b) /\ Alert(S) /\ Reports(b) /\ \A x : x # b => x \notin S
      /\ UNCHANGED <<post, expired, aliased, effects, sent, router, work, sends>>
  BY DEF Claim
<1> HIDE DEF S
<1>2. WakeTypes /\ Good(b)  BY DEF TurnInv
<1>3. post[b] \in Taken /\ guard[b] # "none"  BY <1>1, TakenWhenOn
<1>4. pending' \in Seq(Wakes) /\ ~Supervised(b)' /\ pending' = Without(pending, b)
  BY <1>1, UnsuperviseDoes
<1>5. /\ latched' \in [Wakes -> BOOLEAN] /\ alerts' \in [Wakes -> Nat]
      /\ \A x \in Wakes : /\ x \notin S => latched'[x] = latched[x] /\ alerts'[x] = alerts[x]
                          /\ x \in S => latched'[x] /\ alerts'[x] = alerts[x] + (IF latched[x] THEN 0 ELSE 1)
  BY <1>1, <1>2, AlertDoes
<1>6. report47 \in [Wakes -> {"none", "owed", "sent", "dropped"}]  BY <1>2 DEF WakeTypes
<1>7. /\ report47' \in [Wakes -> {"none", "owed", "sent", "dropped"}]
      /\ report47'[b] = (IF report47[b] = "owed" THEN "sent" ELSE report47[b])
      /\ \A x \in Wakes : x # b => report47'[x] = report47[x]
  BY <1>1, <1>6 DEF Reports
<1>8. guard \in [Wakes -> Guards]  BY <1>2 DEF WakeTypes
<1>9. /\ guard' \in [Wakes -> Guards] /\ guard'[b] = (IF e = "matched" THEN "gone" ELSE guard[b])
      /\ \A x \in Wakes : x # b => guard'[x] = guard[x]
  BY <1>1, <1>8 DEF Guards
<1>10. ending \in [Wakes -> SUBSET Ends]  BY <1>2 DEF WakeTypes
<1>11. /\ ending' \in [Wakes -> SUBSET Ends] /\ ending'[b] = (ending[b] \ {e}) \cup {"complete"}
       /\ \A x \in Wakes : x # b => ending'[x] = ending[x]
  BY <1>1, <1>10 DEF Ends
<1>12. WakeTypes'
  BY <1>1, <1>2, <1>4, <1>5, <1>7, <1>9, <1>11 DEF WakeTypes, router, work, sends
<1>13. \A x \in Wakes : x # b => Same(x)
  BY <1>1, <1>5, <1>7, <1>9, <1>11 DEF Same, router, work, sends
<1>14. Good(b)'
  <2>1. Untouched(b)' /\ Guarded(b)'  BY <1>1, <1>3, <1>9 DEF Untouched, Guarded
  <2>2. alerts'[b] >= alerts[b] /\ alerts[b] \in Nat /\ alerts'[b] \in Nat
    <3>1. alerts[b] \in Nat  BY <1>2 DEF WakeTypes
    <3> QED BY <1>5, <3>1
  <2>3. Latched(b)'
    <3>1. alerts[b] = IF latched[b] THEN 1 ELSE 0  BY <1>2 DEF Good, Latched
    <3>2. alerts'[b] = IF latched'[b] THEN 1 ELSE 0  BY <1>5, <3>1
    <3>3. latched[b] => latched'[b]  BY <1>5
    <3> QED BY <1>1, <1>2, <1>7, <3>2, <3>3 DEF Good, Latched
  <2>4. LetGo(b)'  BY <1>4 DEF LetGo
  <2>5. OutcomeKnown(b) => OutcomeKnown(b)'  BY <1>1, <2>2 DEF OutcomeKnown
  <2>6. NoReply(b) => OutcomeKnown(b)
    <3>1. CASE e = "matched"  BY <1>1, <1>2, <3>1 DEF Good, Heard
    <3>2. CASE e = "unmatched"  BY <1>1, <1>2, <1>3, <3>2 DEF Good, Heard, Tracked, Taken
    <3> QED BY <3>1, <3>2
  <2>7. Heard(b)'  BY <1>1, <1>2, <1>4, <2>5, <2>6 DEF Good, Heard, NoReply, router, work
  <2>8. Counted(b)'  BY <1>1, <1>2 DEF Good, Counted, sends
  <2>9. OneRound(b)'  BY <1>1, <1>2, <1>9 DEF Good, OneRound, sends
  <2>10. Fenced(b)'  BY <1>1, <1>2 DEF Good, Fenced, router, sends, Routed
  <2> QED BY <2>1, <2>3, <2>4, <2>7, <2>8, <2>9, <2>10 DEF Good
<1>15. InHand' \subseteq InHand  BY <1>9 DEF InHand
<1> QED BY <1>1, <1>4, <1>12, <1>13, <1>14, <1>15, OneWake DEF router

\* A run ends: without a later run, the end that settles the wake is judged by the
\* guards, unless they let go of it before.
LEMMA RunEndsKeeps ==
  ASSUME TurnInv, NEW b \in Wakes, NEW r \in Runs, NEW ok \in BOOLEAN, RunEnds(b, r, ok)
  PROVE  TurnInv'
<1> DEFINE known == Routed(b) /\ (r \in Roots \/ kin[b])
           last == IF r \in Roots THEN r ELSE parent[b]
           settles == known /\ last # "none" /\ ~(child[b] /\ r # "kid")
           matched == last = "turn" /\ guard[b] \in {"on", "stopped"}
           e == IF matched THEN "matched" ELSE "unmatched"
           judged == settles /\ matched /\ Silent(b)
<1>1. /\ Running(b, r)
      /\ run' = [run EXCEPT ![b][r] = "over"] /\ call' = [call EXCEPT ![b] = @ \ {r}]
      /\ parent' = IF known THEN [parent EXCEPT ![b] = last] ELSE parent
      /\ child' = IF known /\ r = "kid" THEN [child EXCEPT ![b] = FALSE] ELSE child
      /\ failed' = IF known THEN [failed EXCEPT ![b] = @ \/ ~ok] ELSE failed
      /\ ending' = IF settles THEN [ending EXCEPT ![b] = @ \cup {e}] ELSE ending
      /\ IF judged THEN Stop(b) ELSE UNCHANGED <<guard, effects, latched, alerts>>
      /\ UNCHANGED <<post, pending, expired, aliased, sent, routed, retired, disclosed, kin, passed,
                     begun, sends, report47>>
  BY DEF RunEnds
<1>2. WakeTypes /\ Good(b)  BY DEF TurnInv
<1>3. post[b] \in Taken /\ guard[b] # "none"  BY <1>1, TakenWhenOn
<1>4. last \in Roots \cup {"none"}  BY <1>2 DEF WakeTypes
<1>5. e \in Ends  BY DEF Ends
<1>6. last = "reply" => r = "reply" \/ parent[b] = "reply"  BY DEF Roots
<1>7. /\ e = "matched" => last = "turn" /\ guard[b] \in {"on", "stopped"}
      /\ e = "unmatched" /\ last = "turn" => guard[b] \notin {"on", "stopped"}
      /\ (judged <=> settles /\ e = "matched" /\ ~HasReported(b))
      /\ settles => last # "none"
  BY DEF Silent
<1> HIDE DEF known, last, settles, matched, e, judged
<1>8. /\ guard' \in [Wakes -> Guards] /\ effects' \in [Wakes -> BOOLEAN]
      /\ latched' \in [Wakes -> BOOLEAN] /\ alerts' \in [Wakes -> Nat] /\ InHand' = InHand
      /\ \A x \in Wakes : x # b => guard'[x] = guard[x] /\ latched'[x] = latched[x] /\ alerts'[x] = alerts[x]
      /\ guard'[b] = (IF judged /\ guard[b] = "on" THEN "stopped" ELSE guard[b])
      /\ latched[b] => latched'[b]
      /\ alerts'[b] = alerts[b] + (IF latched'[b] /\ ~latched[b] THEN 1 ELSE 0)
      /\ judged /\ guard[b] = "on" /\ Supervised(b) => latched'[b]
  <2>1. CASE judged
    <3>1. Stop(b)  BY <1>1, <2>1
    <3> QED BY <1>2, <2>1, <3>1, StopDoes
  <2>2. CASE ~judged
    <3>1. UNCHANGED <<guard, effects, latched, alerts>>  BY <1>1, <2>2
    <3>2. alerts[b] \in Nat  BY <1>2 DEF WakeTypes
    <3>3. InHand' = InHand  BY <3>1 DEF InHand
    <3> QED BY <1>2, <2>2, <3>1, <3>2, <3>3 DEF WakeTypes
  <2> QED BY <2>1, <2>2
<1>9. /\ run' \in [Wakes -> [Runs -> RunStates]] /\ run'[b][r] = "over"
      /\ \A s \in Runs : s # r => run'[b][s] = run[b][s]
      /\ \A x \in Wakes : x # b => run'[x] = run[x]
  BY <1>1, <1>2 DEF WakeTypes, RunStates
<1>10. call' \in [Wakes -> SUBSET Runs] /\ \A x \in Wakes : x # b => call'[x] = call[x]
  BY <1>1, <1>2 DEF WakeTypes
<1>11. parent \in [Wakes -> Roots \cup {"none"}]  BY <1>2 DEF WakeTypes
<1>12. /\ parent' \in [Wakes -> Roots \cup {"none"}] /\ parent'[b] \in {last, parent[b]}
       /\ \A x \in Wakes : x # b => parent'[x] = parent[x]
  BY <1>1, <1>4, <1>11
<1>13. child' \in [Wakes -> BOOLEAN] /\ failed' \in [Wakes -> BOOLEAN]
  <2>1. child \in [Wakes -> BOOLEAN] /\ failed \in [Wakes -> BOOLEAN]  BY <1>2 DEF WakeTypes
  <2>2. child' \in [Wakes -> BOOLEAN]  BY <1>1, <2>1
  <2>3. (failed[b] \/ ~ok) \in BOOLEAN  OBVIOUS
  <2> QED BY <1>1, <2>1, <2>2, <2>3
<1>14. ending \in [Wakes -> SUBSET Ends]  BY <1>2 DEF WakeTypes
<1>15. /\ ending' \in [Wakes -> SUBSET Ends] /\ ending'[b] = (IF settles THEN ending[b] \cup {e} ELSE ending[b])
       /\ \A x \in Wakes : x # b => ending'[x] = ending[x]
  BY <1>1, <1>5, <1>14
<1>16. WakeTypes'
  BY <1>1, <1>2, <1>8, <1>9, <1>10, <1>12, <1>13, <1>15 DEF WakeTypes, sends
<1>17. \A x \in Wakes : x # b => Same(x)
  BY <1>1, <1>8, <1>9, <1>10, <1>12, <1>15 DEF Same, sends
<1>18. (Supervised(b)' <=> Supervised(b)) /\ (Routed(b)' <=> Routed(b))
  BY <1>1 DEF Supervised, Routed
<1>19. NoReply(b)' => NoReply(b) /\ r # "reply" /\ last # "reply"
  <2>1. "reply" \in Runs  BY DEF Runs, Roots
  <2>2. NoReply(b)' => r # "reply"  BY <1>9 DEF NoReply
  <2>3. NoReply(b)' => NoReply(b)  BY <1>9, <2>1, <2>2 DEF NoReply
  <2> QED BY <1>2, <1>6, <2>2, <2>3 DEF Good, Heard
<1>20. alerts[b] \in Nat  BY <1>2 DEF WakeTypes
<1>21. Latched(b)'
  <2>1. alerts[b] = IF latched[b] THEN 1 ELSE 0  BY <1>2 DEF Good, Latched
  <2>2. alerts'[b] = IF latched'[b] THEN 1 ELSE 0  BY <1>8, <2>1
  <2> QED BY <1>1, <1>2, <1>8, <2>2 DEF Good, Latched
<1>22. OutcomeKnown(b) => OutcomeKnown(b)'  BY <1>1, <1>8, <1>20 DEF OutcomeKnown
<1>23. Heard(b)'
  <2>1. parent'[b] = "reply" => ~NoReply(b)'  BY <1>2, <1>12, <1>19 DEF Good, Heard
  <2>2. ASSUME NoReply(b)', "unmatched" \in ending'[b] PROVE ~Supervised(b)
    <3>1. CASE "unmatched" \in ending[b]  BY <1>2, <1>19, <2>2, <3>1 DEF Good, Heard
    <3>2. CASE "unmatched" \notin ending[b]
      <4>1. settles /\ e = "unmatched"  BY <1>15, <2>2, <3>2
      <4>2. last = "turn"  BY <1>4, <1>7, <1>19, <2>2, <4>1 DEF Roots
      <4>3. guard[b] = "gone"
        <5>1. guard[b] \in Guards  BY <1>2 DEF WakeTypes
        <5> QED BY <1>3, <1>7, <4>1, <4>2, <5>1 DEF Guards
      <4> QED BY <1>2, <4>3 DEF Good, LetGo
    <3> QED BY <3>1, <3>2
  <2>3. latched'[b] => OutcomeKnown(b)'  BY <1>21 DEF Latched, OutcomeKnown
  <2>4. NoReply(b) /\ ~Supervised(b) => OutcomeKnown(b)  BY <1>2, <1>3 DEF Good, Heard, Tracked, Taken
  <2>5. ASSUME NoReply(b)', guard'[b] = "stopped" PROVE OutcomeKnown(b)'
    <3>1. CASE guard[b] = "stopped"  BY <1>2, <1>19, <1>22, <2>5, <3>1 DEF Good, Heard
    <3>2. CASE guard[b] # "stopped"  BY <1>8, <1>19, <1>22, <2>3, <2>4, <2>5, <3>2
    <3> QED BY <3>1, <3>2
  <2>6. ASSUME NoReply(b)', "matched" \in ending'[b] PROVE OutcomeKnown(b)'
    <3>1. CASE "matched" \in ending[b]  BY <1>2, <1>19, <1>22, <2>6, <3>1 DEF Good, Heard
    <3>2. CASE "matched" \notin ending[b]
      <4>1. settles /\ e = "matched"  BY <1>15, <2>6, <3>2
      <4>2. CASE HasReported(b)  BY <1>22, <4>2 DEF HasReported, OutcomeKnown
      <4>3. CASE ~HasReported(b)
        <5>1. judged /\ guard[b] \in {"on", "stopped"}  BY <1>7, <4>1, <4>3
        <5> QED BY <1>8, <2>5, <2>6, <5>1
      <4> QED BY <4>2, <4>3
    <3> QED BY <3>1, <3>2
  <2>7. Tracked(b)' <=> Tracked(b)  BY <1>1 DEF Tracked
  <2> QED BY <1>18, <1>19, <1>22, <2>1, <2>2, <2>4, <2>5, <2>6, <2>7 DEF Heard
<1>24. LetGo(b)'
  <2>1. "complete" \in ending'[b] => "complete" \in ending[b]
    <3>1. e # "complete"  BY DEF e
    <3> QED BY <1>15, <3>1
  <2>2. guard'[b] = "gone" => guard[b] = "gone"  BY <1>8
  <2> QED BY <1>1, <1>2, <1>18, <2>1, <2>2 DEF Good, LetGo
<1>25. Good(b)'
  <2>1. Untouched(b)' /\ Guarded(b)'  BY <1>1, <1>3, <1>8 DEF Untouched, Guarded
  <2>2. Counted(b)'  BY <1>1, <1>2 DEF Good, Counted, sends
  <2>3. OneRound(b)'  BY <1>1, <1>2, <1>8 DEF Good, OneRound, sends
  <2>4. Fenced(b)'  BY <1>1, <1>2, <1>18 DEF Good, Fenced, sends
  <2> QED BY <1>21, <1>23, <1>24, <2>1, <2>2, <2>3, <2>4 DEF Good
<1> QED BY <1>1, <1>8, <1>16, <1>17, <1>25, OneWake

-----------------------------------------------------------------------------
(* A wake is tracked, or refused, and the oldest makes room for it.        *)

LEMMA DroppedIs ==
  ASSUME TurnInv
  PROVE  /\ Dropped \in SUBSET Wakes
         /\ \A x \in Dropped : Supervised(x)
         /\ ButOldest(pending) \in Seq(Wakes) /\ Once(ButOldest(pending))
         /\ Len(ButOldest(pending)) < Capacity
         /\ \A x : Contains(ButOldest(pending), x) => Supervised(x)
         /\ \A x \in Wakes : Supervised(x) /\ ~Contains(ButOldest(pending), x) => x \in Dropped \/ expired[x]
<1>1. pending \in Seq(Wakes) /\ Once(pending) /\ Len(pending) <= Capacity
  BY DEF TurnInv, WakeTypes, Tables
<1> DEFINE u == ButOldest(pending)
<1>2. /\ u \in Seq(Wakes) /\ Once(u) /\ Len(u) < Capacity
      /\ Len(pending) >= Capacity => Head(pending) \in Wakes /\ Contains(pending, Head(pending))
      /\ \A x : Contains(u, x) <=> Contains(pending, x) /\ ~(Len(pending) >= Capacity /\ x = Head(pending))
  BY <1>1, MadeRoom
<1> HIDE DEF u
<1>3. \A x : x \in Dropped <=> Len(pending) >= Capacity /\ x = Head(pending) /\ ~expired[x]
  BY DEF Dropped, Oldest
<1> QED BY <1>2, <1>3 DEF Supervised, u

\* The wakes of a set are stopped and told as they are dropped; one leaves the router.
LEMMA EvictedGood ==
  ASSUME TurnInv, NEW x \in Wakes, NEW S, NEW out \in BOOLEAN,
         post'[x] = post[x], sent'[x] = sent[x], disclosed'[x] = disclosed[x],
         parent'[x] = parent[x], run'[x] = run[x], call'[x] = call[x], passed'[x] = passed[x],
         report'[x] = report[x], stray'[x] = stray[x], told'[x] = told[x],
         reports'[x] = reports[x], broke'[x] = broke[x], ending'[x] = ending[x],
         Supervised(x)' => Supervised(x), x \in S => Supervised(x),
         Supervised(x) /\ ~Supervised(x)' => x \in S \/ expired[x],
         out => Routed(x), Routed(x)' <=> Routed(x) /\ ~out, retired'[x] <=> retired[x] \/ out,
         expired'[x] <=> expired[x] \/ x \in S,
         x \notin S => latched'[x] = latched[x] /\ alerts'[x] = alerts[x],
         x \in S => latched'[x] /\ alerts'[x] = alerts[x] + (IF latched[x] THEN 0 ELSE 1),
         guard'[x] = (IF x \in S /\ guard[x] = "on" THEN "stopped" ELSE guard[x]),
         report47'[x] = (IF x \in S /\ report47[x] = "owed" THEN "dropped" ELSE report47[x])
  PROVE  Good(x)'
<1>1. Good(x)  BY DEF TurnInv
<1>2. alerts[x] \in Nat  BY DEF TurnInv, WakeTypes
<1>3. Untouched(x)'
  <2>1. post[x] \notin Taken => x \notin S /\ ~out  BY <1>1 DEF Good, Untouched
  <2> QED BY <1>1, <2>1 DEF Good, Untouched
<1>4. Guarded(x)'  BY <1>1 DEF Good, Guarded
<1>5. Latched(x)'
  <2>1. alerts[x] = IF latched[x] THEN 1 ELSE 0  BY <1>1 DEF Good, Latched
  <2>2. alerts'[x] = IF latched'[x] THEN 1 ELSE 0  BY <2>1
  <2>3. x \in S => report47'[x] \notin {"owed", "sent"}  BY <1>1 DEF Good, LetGo
  <2>4. expired[x] => latched[x] /\ report47[x] \notin {"owed", "sent"}  BY <1>1 DEF Good, Latched
  <2> QED BY <2>2, <2>3, <2>4 DEF Latched
<1>6. LetGo(x)'  BY <1>1 DEF Good, LetGo
<1>7. OutcomeKnown(x) => OutcomeKnown(x)'  BY <1>2 DEF OutcomeKnown
<1>8. (x \in S => OutcomeKnown(x)') /\ (expired[x] => OutcomeKnown(x))
  BY <1>1, <1>5 DEF Good, Latched, OutcomeKnown
<1>9. Heard(x)'
  <2>1. Tracked(x)' <=> Tracked(x)  BY DEF Tracked
  <2>2. NoReply(x)' <=> NoReply(x)  BY DEF NoReply
  <2>3. ASSUME NoReply(x), guard'[x] = "stopped" PROVE OutcomeKnown(x)'
    BY <1>1, <1>7, <1>8, <2>3 DEF Good, Heard
  <2>4. ASSUME NoReply(x), Tracked(x), ~Supervised(x)' PROVE OutcomeKnown(x)'
    BY <1>1, <1>7, <1>8, <2>4 DEF Good, Heard
  <2> QED BY <1>1, <1>7, <2>1, <2>2, <2>3, <2>4 DEF Good, Heard
<1>10. Counted(x)'  BY <1>1 DEF Good, Counted
<1>11. OneRound(x)'  BY <1>1 DEF Good, OneRound
<1>12. Fenced(x)'  BY <1>1 DEF Good, Fenced
<1> QED BY <1>3, <1>4, <1>5, <1>6, <1>9, <1>10, <1>11, <1>12 DEF Good

LEMMA RefusedKeeps == ASSUME TurnInv, NEW b \in Wakes, Refused(b) PROVE TurnInv'
<1> DEFINE S == Dropped
<1>1. /\ post[b] = "none" /\ expired' = [x \in Wakes |-> expired[x] \/ x \in S]
      /\ Trips(S) /\ Alert(S \cup {b}) /\ DropReport(S)
      /\ pending' = ButOldest(pending) /\ post' = [post EXCEPT ![b] = "refused"]
      /\ UNCHANGED <<aliased, sent, router, work, sends, ending>>
  BY DEF Refused, TrackedBy
<1>2. /\ S \in SUBSET Wakes /\ \A x \in S : Supervised(x)
      /\ pending' \in Seq(Wakes) /\ Once(pending') /\ Len(pending') < Capacity
      /\ \A x : Contains(pending', x) => Supervised(x)
      /\ \A x \in Wakes : Supervised(x) /\ ~Contains(pending', x) => x \in S \/ expired[x]
  BY <1>1, DroppedIs
<1> HIDE DEF S
<1>3. WakeTypes /\ Good(b)  BY DEF TurnInv
<1>4. post[b] \notin Taken /\ b \notin S  BY <1>1, <1>2, <1>3 DEF Taken, Good, Untouched
<1>5. /\ latched' \in [Wakes -> BOOLEAN] /\ alerts' \in [Wakes -> Nat]
      /\ \A x \in Wakes : /\ x \notin S \cup {b} => latched'[x] = latched[x] /\ alerts'[x] = alerts[x]
                          /\ x \in S \cup {b} => latched'[x] /\ alerts'[x] = alerts[x] + (IF latched[x] THEN 0 ELSE 1)
  BY <1>1, <1>3, AlertDoes
<1>6. /\ guard' \in [Wakes -> Guards] /\ effects' \in [Wakes -> BOOLEAN] /\ InHand' = InHand
      /\ \A x \in Wakes : guard'[x] = IF x \in S /\ guard[x] = "on" THEN "stopped" ELSE guard[x]
  BY <1>1, <1>2, <1>3, TripsDo
<1>7. /\ report47' \in [Wakes -> {"none", "owed", "sent", "dropped"}]
      /\ \A x \in Wakes :
           report47'[x] = IF x \in S /\ report47[x] = "owed" THEN "dropped" ELSE report47[x]
  BY <1>1, <1>3, DropDoes
<1>8. expired \in [Wakes -> BOOLEAN]  BY <1>3 DEF WakeTypes
<1>9. expired' \in [Wakes -> BOOLEAN] /\ \A x \in Wakes : expired'[x] <=> expired[x] \/ x \in S
  BY <1>1, <1>8
<1>10. /\ post' \in [Wakes -> {"none", "posting", "bound", "failed", "refused"}]
       /\ post'[b] = "refused" /\ \A x \in Wakes : x # b => post'[x] = post[x]
  BY <1>1, <1>3 DEF WakeTypes
<1>11. WakeTypes'
  BY <1>1, <1>2, <1>3, <1>5, <1>6, <1>7, <1>9, <1>10 DEF WakeTypes, router, work, sends
<1>12. Tables'
  <2>1. Len(pending') <= Capacity
    <3>1. Len(pending') \in Nat /\ Capacity \in Nat  BY <1>2, LenProperties, CapacityAssumption
    <3> QED BY <1>2, <3>1
  <2> QED BY <1>1, <1>2, <1>6, <2>1 DEF TurnInv, Tables, router
<1>13. \A x \in Wakes : Routed(x)' <=> Routed(x)  BY <1>1 DEF Routed, router
<1>14. ASSUME NEW x \in Wakes, x # b PROVE Good(x)'
  <2>1. /\ post'[x] = post[x] /\ sent'[x] = sent[x] /\ disclosed'[x] = disclosed[x]
        /\ parent'[x] = parent[x] /\ run'[x] = run[x] /\ call'[x] = call[x] /\ passed'[x] = passed[x]
        /\ report'[x] = report[x] /\ stray'[x] = stray[x] /\ told'[x] = told[x]
        /\ reports'[x] = reports[x] /\ broke'[x] = broke[x] /\ ending'[x] = ending[x]
        /\ (retired'[x] <=> retired[x])
    BY <1>1, <1>10, <1>14 DEF router, work, sends
  <2>2. /\ (Supervised(x)' => Supervised(x)) /\ (x \in S => Supervised(x))
        /\ (Supervised(x) /\ ~Supervised(x)' => x \in S \/ expired[x])
    BY <1>2 DEF Supervised
  <2>3. x \in S \cup {b} <=> x \in S  BY <1>14
  <2>4. /\ x \notin S => latched'[x] = latched[x] /\ alerts'[x] = alerts[x]
        /\ x \in S => latched'[x] /\ alerts'[x] = alerts[x] + (IF latched[x] THEN 0 ELSE 1)
    BY <1>5, <2>3
  <2>5. /\ guard'[x] = (IF x \in S /\ guard[x] = "on" THEN "stopped" ELSE guard[x])
        /\ report47'[x] = (IF x \in S /\ report47[x] = "owed" THEN "dropped" ELSE report47[x])
        /\ (expired'[x] <=> expired[x] \/ x \in S) /\ (Routed(x)' <=> Routed(x))
    BY <1>6, <1>7, <1>9, <1>13
  <2> QED BY <2>1, <2>2, <2>4, <2>5, EvictedGood
<1>15. Good(b)'
  <2>1. /\ guard[b] = "none" /\ ~Supervised(b) /\ ~Routed(b) /\ ~expired[b] /\ ~retired[b]
        /\ report47[b] = "none" /\ ending[b] = {} /\ call[b] = {} /\ passed[b] = {}
        /\ report[b] = {} /\ sent[b] = {} /\ \A r \in Runs : run[b][r] = "none"
        /\ \A t \in Targets : told[b][t] = 0 /\ stray[b][t] = 0
    BY <1>3, <1>4 DEF Good, Untouched
  <2>2. ~Supervised(b)' /\ ~Routed(b)'  BY <1>2, <1>13, <2>1 DEF Supervised
  <2>3. guard'[b] = "none" /\ report47'[b] = "none" /\ ~expired'[b]
    BY <1>4, <1>6, <1>7, <1>9, <2>1
  <2>4. post'[b] \notin Taken  BY <1>10 DEF Taken
  <2>5. Untouched(b)'  BY <1>1, <2>1, <2>2, <2>3 DEF Untouched, router, work, sends
  <2>6. Guarded(b)'  BY <2>4 DEF Guarded
  <2>7. Latched(b)'
    <3>1. alerts[b] = IF latched[b] THEN 1 ELSE 0  BY <1>3 DEF Good, Latched
    <3>2. latched'[b] /\ alerts'[b] = 1  BY <1>5, <3>1
    <3> QED BY <2>3, <3>2 DEF Latched
  <2>8. LetGo(b)'  BY <2>2 DEF LetGo
  <2>9. OutcomeKnown(b)'  BY <1>5, <2>7 DEF Latched, OutcomeKnown
  <2>10. Heard(b)'  BY <1>1, <1>3, <2>2, <2>9 DEF Good, Heard, NoReply, router, work
  <2>11. Counted(b)'  BY <1>1, <1>3 DEF Good, Counted, sends
  <2>12. OneRound(b)'  BY <1>1, <1>3, <2>1, <2>3 DEF Good, OneRound, sends
  <2>13. Fenced(b)'  BY <2>2 DEF Fenced
  <2> QED BY <2>5, <2>6, <2>7, <2>8, <2>10, <2>11, <2>12, <2>13 DEF Good
<1> QED BY <1>11, <1>12, <1>14, <1>15 DEF TurnInv

LEMMA TrackKeeps == ASSUME TurnInv, NEW b \in Wakes, Track(b) PROVE TurnInv'
<1> DEFINE S == Dropped
           w == ButOldest(pending)
           u == ButOldest(routed)
           full == Len(routed) >= Capacity
           h == Head(routed)
<1>1. /\ post[b] = "none" /\ expired' = [x \in Wakes |-> expired[x] \/ x \in S]
      /\ Room /\ Alert(S)
      /\ guard' = [x \in Wakes |-> IF x = b THEN "on"
                    ELSE IF x \in S /\ guard[x] = "on" THEN "stopped" ELSE guard[x]]
      /\ effects' = [x \in Wakes |-> effects[x] \/ (x \in S /\ guard[x] = "on")]
      /\ pending' = Append(w, b) /\ routed' = Append(u, b)
      /\ retired' = IF full THEN [retired EXCEPT ![h] = TRUE] ELSE retired
      /\ post' = [post EXCEPT ![b] = "posting"]
      /\ report47' = [x \in Wakes |-> IF x = b THEN "owed"
                       ELSE IF x \in S /\ report47[x] = "owed" THEN "dropped" ELSE report47[x]]
      /\ UNCHANGED <<aliased, sent, disclosed, child, kin, parent, failed, work, sends, ending>>
  BY DEF Track, TrackedBy, OwesReport
<1>2. /\ S \in SUBSET Wakes /\ \A x \in S : Supervised(x)
      /\ w \in Seq(Wakes) /\ Once(w) /\ Len(w) < Capacity
      /\ \A x : Contains(w, x) => Supervised(x)
      /\ \A x \in Wakes : Supervised(x) /\ ~Contains(w, x) => x \in S \/ expired[x]
  BY DroppedIs
<1>3. routed \in Seq(Wakes) /\ Once(routed) /\ Len(routed) <= Capacity
  BY DEF TurnInv, WakeTypes, Tables
<1>4. /\ u \in Seq(Wakes) /\ Once(u) /\ Len(u) < Capacity
      /\ full => h \in Wakes /\ Contains(routed, h)
      /\ \A x : Contains(u, x) <=> Contains(routed, x) /\ ~(full /\ x = h)
  BY <1>3, MadeRoom
<1> HIDE DEF S, w, u, full, h
<1>5. WakeTypes /\ Good(b)  BY DEF TurnInv
<1>6. post[b] \notin Taken  BY <1>1 DEF Taken
<1>7. /\ guard[b] = "none" /\ ~Supervised(b) /\ ~Routed(b) /\ ~expired[b] /\ ~retired[b]
      /\ report47[b] = "none" /\ ending[b] = {} /\ call[b] = {} /\ passed[b] = {}
      /\ report[b] = {} /\ sent[b] = {} /\ \A r \in Runs : run[b][r] = "none"
      /\ \A t \in Targets : told[b][t] = 0 /\ stray[b][t] = 0
  BY <1>5, <1>6 DEF Good, Untouched
<1>8. b \notin S /\ ~Contains(w, b) /\ ~Contains(u, b) /\ (full => h # b)
  BY <1>2, <1>4, <1>7 DEF Routed
<1>9. /\ pending' \in Seq(Wakes) /\ Once(pending') /\ Len(pending') <= Capacity
      /\ \A x : Contains(pending', x) <=> Contains(w, x) \/ x = b
  BY <1>1, <1>2, <1>8, PutLast
<1>10. /\ routed' \in Seq(Wakes) /\ Once(routed') /\ Len(routed') <= Capacity
       /\ \A x : Contains(routed', x) <=> Contains(u, x) \/ x = b
  BY <1>1, <1>4, <1>8, PutLast
<1>11. /\ latched' \in [Wakes -> BOOLEAN] /\ alerts' \in [Wakes -> Nat]
       /\ \A x \in Wakes : /\ x \notin S => latched'[x] = latched[x] /\ alerts'[x] = alerts[x]
                           /\ x \in S => latched'[x] /\ alerts'[x] = alerts[x] + (IF latched[x] THEN 0 ELSE 1)
  BY <1>1, <1>5, AlertDoes
<1>12. guard \in [Wakes -> Guards] /\ effects \in [Wakes -> BOOLEAN]  BY <1>5 DEF WakeTypes
<1>13. /\ guard' \in [Wakes -> Guards] /\ guard'[b] = "on"
       /\ \A x \in Wakes : x # b =>
            guard'[x] = IF x \in S /\ guard[x] = "on" THEN "stopped" ELSE guard[x]
  BY <1>1, <1>12 DEF Guards
<1>14. effects' \in [Wakes -> BOOLEAN]  BY <1>1, <1>12
<1>15. report47 \in [Wakes -> {"none", "owed", "sent", "dropped"}]  BY <1>5 DEF WakeTypes
<1>16. /\ report47' \in [Wakes -> {"none", "owed", "sent", "dropped"}] /\ report47'[b] = "owed"
       /\ \A x \in Wakes : x # b =>
            report47'[x] = IF x \in S /\ report47[x] = "owed" THEN "dropped" ELSE report47[x]
  BY <1>1, <1>15
<1>17. expired \in [Wakes -> BOOLEAN] /\ retired \in [Wakes -> BOOLEAN]  BY <1>5 DEF WakeTypes
<1>18. expired' \in [Wakes -> BOOLEAN] /\ \A x \in Wakes : expired'[x] <=> expired[x] \/ x \in S
  BY <1>1, <1>17
<1>19. /\ retired' \in [Wakes -> BOOLEAN]
       /\ \A x \in Wakes : retired'[x] <=> retired[x] \/ (full /\ x = h)
  BY <1>1, <1>4, <1>17
<1>20. /\ post' \in [Wakes -> {"none", "posting", "bound", "failed", "refused"}]
       /\ post'[b] = "posting" /\ \A x \in Wakes : x # b => post'[x] = post[x]
  BY <1>1, <1>5 DEF WakeTypes
<1>21. WakeTypes'
  BY <1>1, <1>5, <1>9, <1>10, <1>11, <1>13, <1>14, <1>16, <1>18, <1>19, <1>20 DEF WakeTypes, work, sends
<1>22. Tables'
  <2>1. InHand' = InHand \cup {b}
    <3>1. \A x \in Wakes : guard'[x] \in {"on", "stopped"} <=> guard[x] \in {"on", "stopped"} \/ x = b
      BY <1>13
    <3> QED BY <3>1 DEF InHand
  <2>2. Cardinality(InHand) < Capacity /\ IsFiniteSet(InHand)  BY <1>1 DEF Room, InHand, TurnInv, Tables
  <2>3. b \notin InHand  BY <1>7 DEF InHand
  <2>4. IsFiniteSet(InHand') /\ Cardinality(InHand') = Cardinality(InHand) + 1
    BY <2>1, <2>2, <2>3, FS_AddElement
  <2>5. Cardinality(InHand) \in Nat /\ Capacity \in Nat  BY <2>2, FS_CardinalityType, CapacityAssumption
  <2> QED BY <1>9, <1>10, <2>2, <2>4, <2>5 DEF Tables
<1>23. ASSUME NEW x \in Wakes, x # b PROVE Good(x)'
  <2> DEFINE out == full /\ x = h
  <2>1. /\ post'[x] = post[x] /\ sent'[x] = sent[x] /\ disclosed'[x] = disclosed[x]
        /\ parent'[x] = parent[x] /\ run'[x] = run[x] /\ call'[x] = call[x] /\ passed'[x] = passed[x]
        /\ report'[x] = report[x] /\ stray'[x] = stray[x] /\ told'[x] = told[x]
        /\ reports'[x] = reports[x] /\ broke'[x] = broke[x] /\ ending'[x] = ending[x]
    BY <1>1, <1>20, <1>23 DEF work, sends
  <2>2. /\ (Supervised(x)' => Supervised(x)) /\ (x \in S => Supervised(x))
        /\ (Supervised(x) /\ ~Supervised(x)' => x \in S \/ expired[x])
    BY <1>2, <1>9, <1>23 DEF Supervised
  <2>3. /\ out \in BOOLEAN /\ (out => Routed(x)) /\ (Routed(x)' <=> Routed(x) /\ ~out)
        /\ (retired'[x] <=> retired[x] \/ out)
    <3>1. out \in BOOLEAN  BY DEF full
    <3> QED BY <1>4, <1>10, <1>19, <1>23, <3>1 DEF Routed
  <2> HIDE DEF out
  <2>4. /\ x \notin S => latched'[x] = latched[x] /\ alerts'[x] = alerts[x]
        /\ x \in S => latched'[x] /\ alerts'[x] = alerts[x] + (IF latched[x] THEN 0 ELSE 1)
    BY <1>11
  <2>5. /\ guard'[x] = (IF x \in S /\ guard[x] = "on" THEN "stopped" ELSE guard[x])
        /\ report47'[x] = (IF x \in S /\ report47[x] = "owed" THEN "dropped" ELSE report47[x])
        /\ (expired'[x] <=> expired[x] \/ x \in S)
    BY <1>13, <1>16, <1>18, <1>23
  <2> QED BY <2>1, <2>2, <2>3, <2>4, <2>5, EvictedGood
<1>24. Good(b)'
  <2>1. Supervised(b)' /\ Routed(b)'  BY <1>9, <1>10 DEF Supervised, Routed
  <2>2. ~expired'[b] /\ ~retired'[b] /\ latched'[b] = latched[b] /\ alerts'[b] = alerts[b]
    BY <1>7, <1>8, <1>11, <1>18, <1>19
  <2>3. Untouched(b)' /\ Guarded(b)'  BY <1>13, <1>20 DEF Untouched, Guarded, Taken
  <2>4. Latched(b)'  BY <1>5, <2>2 DEF Good, Latched
  <2>5. LetGo(b)'  BY <1>1, <1>7, <1>13, <1>16 DEF LetGo
  <2>6. Heard(b)'  BY <1>1, <1>5, <1>7, <1>13, <2>1 DEF Good, Heard, NoReply, work
  <2>7. Counted(b)'  BY <1>1, <1>5 DEF Good, Counted, sends
  <2>8. OneRound(b)'  BY <1>1, <1>7 DEF OneRound, sends
  <2>9. Fenced(b)'  BY <1>1, <1>7, <2>2, CapacityAssumption DEF Fenced, sends
  <2> QED BY <2>3, <2>4, <2>5, <2>6, <2>7, <2>8, <2>9 DEF Good
<1> QED BY <1>21, <1>22, <1>23, <1>24 DEF TurnInv

-----------------------------------------------------------------------------
LEMMA TurnStutters == ASSUME TurnInv, UNCHANGED vars PROVE TurnInv'
<1> USE DEF vars, supervisor, guards, router, work, sends
<1>1. WakeTypes'  BY DEF TurnInv, WakeTypes
<1>2. Tables'  BY DEF TurnInv, Tables, InHand
<1>3. ASSUME NEW b \in Wakes PROVE Good(b)'
  <2>1. Same(b)  BY DEF Same
  <2>2. (Supervised(b)' <=> Supervised(b)) /\ (Routed(b)' <=> Routed(b))  BY DEF Supervised, Routed
  <2> QED BY <2>1, <2>2, SameGood DEF TurnInv
<1> QED BY <1>1, <1>2, <1>3 DEF TurnInv

LEMMA TurnMoves == ASSUME TurnInv, [Next]_vars PROVE TurnInv'
<1>1. CASE UNCHANGED vars  BY <1>1, TurnStutters
<1>2. CASE Next
  <2>1. PICK b \in Wakes :
          \/ Track(b) \/ Refused(b) \/ PostFails(b) \/ GivesUp(b) \/ Bound(b)
          \/ Expire(b) \/ EffectsSettle(b)
          \/ Act(b) \/ KidStarts(b) \/ OutOfLine(b) \/ WrongModel(b) \/ Notice(b) \/ Complete(b)
          \/ \E r \in Runs :
               \/ RunStarts(b, r) \/ Delegate(b, r) \/ Decided(b, r) \/ Report(b, r)
               \/ \E ok \in BOOLEAN : RunEnds(b, r, ok)
          \/ \E t \in Targets : Land(b, t) \/ SendFails(b, t) \/ StrayLands(b, t)
          \/ \E e \in {"matched", "unmatched"}, large \in BOOLEAN : Claim(b, e, large)
    BY <1>2 DEF Next
  <2>2. CASE Track(b) \/ Refused(b)  BY <2>2, TrackKeeps, RefusedKeeps
  <2>3. CASE PostFails(b) \/ GivesUp(b)  BY <2>3, PostFailsKeeps, GivesUpKeeps
  <2>4. CASE Expire(b) \/ EffectsSettle(b)  BY <2>4, ExpireKeeps, SettleKeeps
  <2>5. CASE \/ Bound(b) \/ Act(b) \/ KidStarts(b) \/ Notice(b)
             \/ \E r \in Runs : RunStarts(b, r)
    BY <2>5, QuietKeeps
  <2>6. CASE OutOfLine(b) \/ WrongModel(b) \/ Complete(b)  BY <2>6, TripKeeps, CompleteKeeps
  <2>7. CASE \E r \in Runs : Delegate(b, r) \/ Decided(b, r) \/ Report(b, r)
    BY <2>7, DelegateKeeps, DecidedKeeps, ReportKeeps
  <2>8. CASE \E r \in Runs, ok \in BOOLEAN : RunEnds(b, r, ok)  BY <2>8, RunEndsKeeps
  <2>9. CASE \E t \in Targets : Land(b, t) \/ SendFails(b, t) \/ StrayLands(b, t)
    BY <2>9, LandKeeps, SendFailsKeeps, StrayLandsKeeps
  <2>10. CASE \E e \in {"matched", "unmatched"}, large \in BOOLEAN : Claim(b, e, large)
    BY <2>10, ClaimKeeps
  <2> QED BY <2>1, <2>2, <2>3, <2>4, <2>5, <2>6, <2>7, <2>8, <2>9, <2>10
<1> QED BY <1>1, <1>2

\* Only the check lets a decision through.
LEMMA OnlyDecided ==
  ASSUME Next, passed' # passed PROVE \E b \in Wakes, r \in Runs : Decided(b, r)
<1>1. ASSUME NEW b \in Wakes, Track(b) \/ Refused(b) \/ PostFails(b) \/ GivesUp(b) \/ Bound(b)
                               \/ Expire(b) \/ EffectsSettle(b)
      PROVE  passed' = passed
  BY <1>1 DEF Track, Refused, PostFails, GivesUp, Bound, Expire, EffectsSettle, work
<1>2. ASSUME NEW b \in Wakes, Act(b) \/ KidStarts(b) \/ OutOfLine(b) \/ WrongModel(b) \/ Notice(b)
                               \/ Complete(b)
      PROVE  passed' = passed
  BY <1>2 DEF Act, KidStarts, OutOfLine, WrongModel, Trip, Notice, Complete, work
<1>3. ASSUME NEW b \in Wakes, NEW r \in Runs, RunStarts(b, r) \/ Delegate(b, r) \/ Report(b, r)
      PROVE  passed' = passed
  BY <1>3 DEF RunStarts, Delegate, Report, work
<1>4. ASSUME NEW b \in Wakes, NEW r \in Runs, NEW ok \in BOOLEAN, RunEnds(b, r, ok)
      PROVE  passed' = passed
  BY <1>4 DEF RunEnds
<1>5. ASSUME NEW b \in Wakes, NEW t \in Targets, Land(b, t) \/ SendFails(b, t) \/ StrayLands(b, t)
      PROVE  passed' = passed
  BY <1>5 DEF Land, SendFails, StrayLands, work
<1>6. ASSUME NEW b \in Wakes, NEW e \in {"matched", "unmatched"}, NEW large \in BOOLEAN,
             Claim(b, e, large)
      PROVE  passed' = passed
  BY <1>6 DEF Claim, work
<1> QED BY <1>1, <1>2, <1>3, <1>4, <1>5, <1>6 DEF Next

-----------------------------------------------------------------------------
\* In every run, whatever the number of wakes: the tables stay within their
\* capacity, no wake is alerted twice, and reports stay within their bound.
THEOREM WakeTypesHold == Spec => []TypeOK
<1>1. Init => TurnInv  BY TurnStarts
<1>2. TurnInv /\ [Next]_vars => TurnInv'  BY TurnMoves
<1>3. ASSUME TurnInv PROVE TypeOK
  <2>1. WakeTypes /\ Tables /\ \A b \in Wakes : Latched(b) /\ Counted(b)  BY <1>3 DEF TurnInv, Good
  <2>2. alerts \in [Wakes -> {0, 1}]
    <3>1. \A b \in Wakes : alerts[b] \in {0, 1}  BY <2>1 DEF Latched
    <3> QED BY <2>1, <3>1 DEF WakeTypes
  <2>3. reports \in [Wakes -> 0..MaxReports]
    <3>1. \A b \in Wakes : reports[b] \in 0..MaxReports
      BY <2>1, CapacityAssumption DEF WakeTypes, Counted
    <3> QED BY <2>1, <3>1 DEF WakeTypes
  <2>4. stray \in [Wakes -> [Targets -> 0..MaxReports]] /\ told \in [Wakes -> [Targets -> 0..MaxReports]]
    <3>1. ASSUME NEW b \in Wakes, NEW t \in Targets
          PROVE  stray[b][t] \in 0..MaxReports /\ told[b][t] \in 0..MaxReports
      <4>1. stray[b][t] \in Nat /\ told[b][t] \in Nat /\ reports[b] \in 0..MaxReports
        BY <2>1, <2>3 DEF WakeTypes
      <4>2. told[b][t] + stray[b][t] + (IF t \in report[b] THEN 1 ELSE 0) <= reports[b]
        BY <2>1 DEF Counted
      <4>3. told[b][t] + stray[b][t] <= reports[b]
        <5>1. CASE t \in report[b]  BY <4>1, <4>2, <5>1, CapacityAssumption
        <5>2. CASE t \notin report[b]  BY <4>1, <4>2, <5>2, CapacityAssumption
        <5> QED BY <5>1, <5>2
      <4> QED BY <4>1, <4>3, CapacityAssumption
    <3>2. /\ stray \in [Wakes -> [Targets -> Nat]] /\ told \in [Wakes -> [Targets -> Nat]]
      BY <2>1 DEF WakeTypes
    <3>3. \A b \in Wakes : stray[b] \in [Targets -> 0..MaxReports] /\ told[b] \in [Targets -> 0..MaxReports]
      BY <3>1, <3>2
    <3> QED BY <3>2, <3>3
  <2>5. Cardinality({b \in Wakes : guard[b] \in {"on", "stopped"}}) <= Capacity
    BY <2>1 DEF Tables, InHand
  <2> QED BY <2>1, <2>2, <2>3, <2>4, <2>5 DEF TypeOK, WakeTypes, Tables, Guards, Ends, RunStates
<1> QED BY <1>1, <1>2, <1>3, PTL DEF Spec

\* In every run, a wake that no later run joined leaves the supervisor only when
\* every target has its outcome or the operator an alert: the timer, the failed
\* POST, the full table, the stop and the last end may come in any order.
THEOREM NoWakeEndsSilent == Spec => []NoSilentEnd
<1>1. Init => TurnInv  BY TurnStarts
<1>2. TurnInv /\ [Next]_vars => TurnInv'  BY TurnMoves
<1>3. TurnInv => NoSilentEnd  BY DEF TurnInv, Good, Heard, NoReply, NoSilentEnd
<1> QED BY <1>1, <1>2, <1>3, PTL DEF Spec

\* In every run, while no send failed a target is told the outcome once, however
\* many runs report it; and nobody who had the watchdog's alert gets the report of
\* how the turn ended as well.
THEOREM NobodyToldTwice == Spec => []ToldOnce
<1>1. Init => TurnInv  BY TurnStarts
<1>2. TurnInv /\ [Next]_vars => TurnInv'  BY TurnMoves
<1>3. ASSUME TurnInv PROVE ToldOnce
  <2>1. ASSUME NEW b \in Wakes, NEW t \in Targets, told[b][t] > 1 PROVE broke[b]
    <3>1. ~broke[b] => told[b][t] <= 1  BY <1>3 DEF TurnInv, Good, OneRound
    <3>2. told[b][t] \in Nat  BY <1>3 DEF TurnInv, WakeTypes
    <3> QED BY <2>1, <3>1, <3>2
  <2>2. ASSUME NEW b \in Wakes PROVE ~(expired[b] /\ report47[b] = "sent")
    BY <1>3 DEF TurnInv, Good, Latched
  <2> QED BY <2>1, <2>2 DEF ToldOnce
<1> QED BY <1>1, <1>2, <1>3, PTL DEF Spec

\* Whatever happens while a decision waits for its check, it passes only if its
\* wake was not stopped, is not over, and its outcome is not out.
THEOREM FenceIsKept == Spec => FenceHolds
<1> DEFINE Passes(b, r) ==
             r # "reply" /\ (r = "kid" => aliased[b])
               => guard[b] \in {"on", "gone"} /\ ~retired[b] /\ (sent[b] = Targets => broke[b])
<1>1. Init => TurnInv  BY TurnStarts
<1>2. TurnInv /\ [Next]_vars => TurnInv'  BY TurnMoves
<1>3. ASSUME TurnInv, [Next]_vars, NEW b \in Wakes, NEW r \in passed'[b] \ passed[b] PROVE Passes(b, r)
  <2>1. passed \in [Wakes -> SUBSET Runs] /\ passed' \in [Wakes -> SUBSET Runs]
    BY <1>2, <1>3 DEF TurnInv, WakeTypes
  <2>2. PICK x \in Wakes, s \in Runs : Decided(x, s)
    <3>1. passed' # passed  BY <1>3
    <3>2. Next  BY <1>3, <3>1 DEF vars, work
    <3> QED BY <3>1, <3>2, OnlyDecided
  <2>3. /\ s \in call[x]
        /\ passed' = IF StillOpen(x, s) /\ ~Blocked(x, s)
                     THEN [passed EXCEPT ![x] = @ \cup {s}] ELSE passed
    BY <2>2 DEF Decided
  <2>4. x = b /\ s = r /\ StillOpen(b, r) /\ ~Blocked(b, r) /\ call[b] # {}
    BY <1>3, <2>1, <2>3
  <2>5. Routed(b) /\ ~disclosed[b] /\ Good(b)  BY <1>3, <2>4 DEF StillOpen, TurnInv
  <2>6. ~retired[b] /\ (sent[b] = Targets => broke[b])  BY <2>5 DEF Good, Fenced
  <2>7. ASSUME r # "reply", r = "kid" => aliased[b] PROVE guard[b] \in {"on", "gone"}
    <3>1. r = "turn" \/ r = "kid"  BY <2>2, <2>4, <2>7 DEF Runs, Roots
    <3>2. guard[b] # "stopped"  BY <2>4, <2>7, <3>1 DEF Blocked, Matched
    <3>3. guard[b] # "none"  BY <1>3, <2>4, TakenWhenOn
    <3>4. guard[b] \in Guards  BY <1>3 DEF TurnInv, WakeTypes
    <3> QED BY <3>2, <3>3, <3>4 DEF Guards
  <2> QED BY <2>6, <2>7
<1>4. TurnInv /\ [Next]_vars => [\A b \in Wakes : \A r \in passed'[b] \ passed[b] : Passes(b, r)]_vars
  BY <1>3
<1>5. [][\A b \in Wakes : \A r \in passed'[b] \ passed[b] : Passes(b, r)]_vars <=> FenceHolds
  BY DEF FenceHolds
<1> QED BY <1>1, <1>2, <1>4, <1>5, PTL DEF Spec

=============================================================================
