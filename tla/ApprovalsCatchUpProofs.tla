------------------------ MODULE ApprovalsCatchUpProofs ------------------------
(***************************************************************************)
(* Type correctness of ApprovalsCatchUp, and that no cursor passes a       *)
(* decision that is still of use (CursorCovers), for every value of the    *)
(* constants.  The invariant says why: what a sync has read without a      *)
(* deferral is spent, cards only grow, and while rows are read every       *)
(* pending item has its card in the ledger.                                *)
(***************************************************************************)
EXTENDS ApprovalsCatchUp, TLAPS

-----------------------------------------------------------------------------
(* Rows are only appended: what a position refers to stays.                *)

LogKept == Len(log) <= Len(log') /\ \A i \in DOMAIN log : i \in DOMAIN log' /\ log'[i] = log[i]

LEMMA Appended ==
  ASSUME WorldOK, NEW row \in Decisions \cup Noise, log' = Append(log, row)
  PROVE  /\ log' \in Seq(Decisions \cup Noise) /\ LogKept
         /\ Len(log') = Len(log) + 1 /\ log'[Len(log) + 1] = row
  BY DEF WorldOK, LogKept

LEMMA Positional == ASSUME WorldOK PROVE Len(log) \in Nat /\ DOMAIN log = 1..Len(log)
  BY DEF WorldOK

LEMMA GrowthKeepsTypes ==
  ASSUME TypeOK, LogKept, WorldOK',
         UNCHANGED <<ledgerVars, status, cursor, disk, sync, runVars, skipped, restarts>>
  PROVE  TypeOK'
<1>1. /\ Len(log) \in Nat /\ DOMAIN log = 1..Len(log)
      /\ Len(log') \in Nat /\ DOMAIN log' = 1..Len(log')
  BY DEF TypeOK, WorldOK
<1>2. \A i \in DOMAIN log : i \in DOMAIN log' /\ log'[i] = log[i]  BY DEF LogKept
<1>3. LedgerOK'  BY DEF TypeOK, LedgerOK, ledgerVars
<1>4. CursorOK'
  <2>1. 0..Len(log) \subseteq 0..Len(log')  BY <1>1 DEF LogKept
  <2> QED BY <1>2, <2>1 DEF TypeOK, CursorOK
<1>5. ASSUME NEW b \in Bridges PROVE InLog(sync[b])'
  <2>1. /\ sync' = sync /\ InLog(sync[b])
        /\ sync[b].safe \in Nat /\ sync[b].next \in Nat /\ sync[b].fetch \in Nat
    BY DEF TypeOK, SyncOK, SyncRecord, Positions
  <2> QED BY <1>1, <1>2, <2>1 DEF InLog, Decided, LogKept
<1>6. SyncOK'  BY <1>5 DEF TypeOK, SyncOK
<1>7. RunOK'  BY <1>2 DEF TypeOK, RunOK, Decided, runVars
<1> QED BY <1>3, <1>4, <1>6, <1>7 DEF TypeOK

-----------------------------------------------------------------------------
(* What leaves the log alone: the parts of TypeOK one by one.              *)

LEMMA SameSync ==
  ASSUME SyncOK, UNCHANGED <<sync, log>> PROVE SyncOK'
  BY DEF SyncOK, InLog, Decided

LEMMA SameRun ==
  ASSUME RunOK, UNCHANGED <<run, restaged, log>> PROVE RunOK'
  BY DEF RunOK, Decided

LEMMA ListingKeepsTypes ==
  ASSUME WorldOK, LedgerOK, NEW ledger \in [Proposals -> 0..MaxCard], Listing(ledger)
  PROVE  LedgerOK'
  BY DEF WorldOK, LedgerOK, Listing

\* A sync that moves on within the log.
LEMMA SyncMoves ==
  ASSUME SyncOK, NEW b \in Bridges, NEW s \in SyncRecord, sync' = [sync EXCEPT ![b] = s],
         InLog(s), log' = log
  PROVE  SyncOK'
<1>1. ASSUME NEW c \in Bridges PROVE InLog(sync[c])'
  <2>1. CASE c = b
    <3>1. sync'[c] = s  BY <2>1 DEF SyncOK
    <3> QED BY <3>1 DEF InLog, Decided
  <2>2. CASE c # b
    <3>1. sync'[c] = sync[c] /\ InLog(sync[c])  BY <2>2 DEF SyncOK
    <3> QED BY <3>1 DEF InLog, Decided
  <2> QED BY <2>1, <2>2
<1> QED BY <1>1 DEF SyncOK

LEMMA IdleSync ==
  NoSync \in SyncRecord /\ NoSync.st = "idle" /\ NoSync.safe = 0 /\ NoSync.next = 0
  BY CatchUpAssumption DEF NoSync, Sync, SyncRecord, Phases, Positions

\* The same, when only the phase changes.
LEMMA PhaseMoves ==
  ASSUME SyncOK, NEW b \in Bridges, NEW st \in Phases, sync' = [sync EXCEPT ![b].st = st],
         st \notin {"fetch", "scan"},
         st = "await" => sync[b].at \in DOMAIN log /\ Decided(sync[b].at),
         log' = log
  PROVE  SyncOK'
<1>1. /\ sync' \in [Bridges -> SyncRecord] /\ \A c \in Bridges \ {b} : sync'[c] = sync[c]
      /\ sync'[b].st = st /\ sync'[b].safe = sync[b].safe /\ sync'[b].next = sync[b].next
      /\ sync'[b].at = sync[b].at /\ sync'[b].pages = sync[b].pages
  <2>1. sync \in [Bridges -> SyncRecord]  BY DEF SyncOK
  <2> QED BY <2>1 DEF SyncRecord
<1>2. ASSUME NEW c \in Bridges PROVE InLog(sync[c])'
  <2>1. InLog(sync[c])  BY DEF SyncOK
  <2>2. CASE c = b  BY <1>1, <2>1, <2>2 DEF InLog, Decided
  <2>3. CASE c # b  BY <1>1, <2>1, <2>3 DEF InLog, Decided
  <2> QED BY <2>2, <2>3
<1> QED BY <1>1, <1>2 DEF SyncOK

\* A row in hand is a decision of the log, and starting a run for it keeps the types.
LEMMA Starting ==
  ASSUME WorldOK, RunOK, NEW b \in Bridges, NEW i \in DOMAIN log, Decided(i),
         JoinOrStart(b, i), UNCHANGED <<restaged, log>>
  PROVE  RunOK'
<1>1. log[i].p \in Proposals
  <2>1. log[i] \in Decisions \cup Noise  BY DEF WorldOK
  <2> QED BY <2>1 DEF Decided, Decisions, Noise
<1>2. i \in Positions  BY DEF WorldOK, Positions
<1>3. run' \in [Bridges -> [Proposals -> Positions]]
  BY <1>1, <1>2 DEF RunOK, JoinOrStart
<1>4. ASSUME NEW c \in Bridges, NEW q \in Proposals
      PROVE  run'[c][q] = run[c][q] \/ (run'[c][q] = i /\ q = log[i].p)
  BY <1>1 DEF RunOK, JoinOrStart
<1> QED BY <1>3, <1>4 DEF RunOK, Decided

-----------------------------------------------------------------------------
(* The steps. *)

LEMMA WorldSteps ==
  ASSUME TypeOK,
         \/ \E p \in Proposals : Revise(p) \/ Decide(p)
         \/ \E kind \in {"other", "filtered"} : LogNoise(kind)
         \/ Grant
  PROVE  TypeOK'
<1>1. CASE Grant \/ \E p \in Proposals : Revise(p)
  <2>1. WorldOK' /\ log' = log
    <3>1. ASSUME NEW p \in Proposals, Revise(p) PROVE item' \in [Proposals -> 0..MaxCard]
      BY <3>1, CatchUpAssumption DEF Revise, TypeOK, WorldOK
    <3> QED BY <1>1, <3>1 DEF Grant, Revise, TypeOK, WorldOK
  <2>2. LogKept  BY <2>1, Positional DEF LogKept, TypeOK
  <2> QED BY <1>1, <2>1, <2>2, GrowthKeepsTypes DEF Grant, Revise
<1>2. ASSUME NEW p \in Proposals, Decide(p) PROVE TypeOK'
  <2> DEFINE row == [kind |-> "decided", p |-> p, card |-> shown[p]]
  <2>1. row \in Decisions \cup Noise  BY <1>2 DEF Decide, Decisions, Cards, TypeOK, LedgerOK
  <2>2. log' = Append(log, row)  BY <1>2 DEF Decide
  <2> HIDE DEF row
  <2>3. WorldOK' /\ LogKept  BY <1>2, <2>1, <2>2, Appended DEF Decide, TypeOK, WorldOK
  <2> QED BY <1>2, <2>3, GrowthKeepsTypes DEF Decide
<1>3. ASSUME NEW kind \in {"other", "filtered"}, LogNoise(kind) PROVE TypeOK'
  <2>1. [kind |-> kind] \in Decisions \cup Noise  BY DEF Noise
  <2>2. log' = Append(log, [kind |-> kind])  BY <1>3 DEF LogNoise
  <2>3. WorldOK' /\ LogKept  BY <1>3, <2>1, <2>2, Appended DEF LogNoise, TypeOK, WorldOK
  <2> QED BY <1>3, <2>3, GrowthKeepsTypes DEF LogNoise
<1> QED BY <1>1, <1>2, <1>3

LEMMA PublishStep ==
  ASSUME TypeOK, NEW b \in Bridges, Publish(b)
  PROVE  TypeOK'
<1>1. WorldOK' /\ CursorOK'  BY DEF Publish, worldVars, TypeOK, WorldOK, CursorOK
<1>2. LedgerOK'  BY ListingKeepsTypes DEF Publish, TypeOK, LedgerOK
<1>3. SyncOK' /\ RunOK'  BY SameSync, SameRun DEF Publish, worldVars, runVars, TypeOK
<1> QED BY <1>1, <1>2, <1>3 DEF TypeOK

LEMMA DriftStep ==
  ASSUME TypeOK, NEW b \in Bridges, NEW p \in Proposals, RunDrifts(b, p)
  PROVE  TypeOK'
<1>1. WorldOK' /\ CursorOK'  BY DEF RunDrifts, worldVars, TypeOK, WorldOK, CursorOK
<1>2. LedgerOK'
  <2>1. [tracked EXCEPT ![p] = 0] \in [Proposals -> 0..MaxCard]
    BY CatchUpAssumption DEF TypeOK, LedgerOK
  <2> QED BY <2>1, ListingKeepsTypes DEF RunDrifts, TypeOK
<1>3. SyncOK'  BY SameSync DEF RunDrifts, worldVars, TypeOK
<1>4. RunOK'  BY DEF RunDrifts, worldVars, TypeOK, RunOK, Decided
<1> QED BY <1>1, <1>2, <1>3, <1>4 DEF TypeOK

LEMMA PushStep ==
  ASSUME TypeOK, NEW b \in Bridges, NEW i \in DOMAIN log, Push(b, i)
  PROVE  TypeOK'
<1>1. WorldOK' /\ LedgerOK' /\ CursorOK'
  BY DEF Push, worldVars, ledgerVars, TypeOK, WorldOK, LedgerOK, CursorOK
<1>2. SyncOK' /\ RunOK'  BY SameSync, Starting DEF Push, worldVars, TypeOK
<1> QED BY <1>1, <1>2 DEF TypeOK

\* The row looked at is done with.
LEMMA ExaminedKeepsTypes ==
  ASSUME TypeOK, NEW b \in Bridges, sync[b].at \in DOMAIN log, NEW terminal \in BOOLEAN,
         sync' = [sync EXCEPT ![b] = Examined(sync[b], terminal)], log' = log
  PROVE  SyncOK'
<1>1. /\ sync[b] \in SyncRecord /\ InLog(sync[b]) /\ DOMAIN log = 1..Len(log) /\ Len(log) \in Nat
  BY Positional DEF TypeOK, SyncOK
<1> DEFINE s == Examined(sync[b], terminal)
<1>2. s \in SyncRecord /\ InLog(s)
  BY <1>1 DEF SyncRecord, InLog, Examined, Sync, Phases, Positions
<1>3. sync' = [sync EXCEPT ![b] = s]  OBVIOUS
<1> HIDE DEF s
<1> QED BY <1>2, <1>3, SyncMoves DEF TypeOK

LEMMA RunEndsStep ==
  ASSUME TypeOK, NEW b \in Bridges, NEW p \in Proposals, NEW outcome \in Outcomes,
         RunEnds(b, p, outcome)
  PROVE  TypeOK'
<1>1. /\ run[b][p] \in DOMAIN log
      /\ Waits(b, p) => sync[b].at \in DOMAIN log
      /\ Waiters(b, p) \subseteq DOMAIN log
  BY DEF RunEnds, Waits, Waiters, TypeOK, RunOK, SyncOK, InLog
<1>2. /\ item' \in [Proposals -> 0..MaxCard] /\ tracked' \in [Proposals -> 0..MaxCard]
      /\ skipped' \subseteq DOMAIN log /\ unlisted' \in BOOLEAN
  <2>1. item \in [Proposals -> 0..MaxCard] /\ tracked \in [Proposals -> 0..MaxCard]
    BY DEF TypeOK, WorldOK, LedgerOK
  <2>2. skipped \subseteq DOMAIN log /\ unlisted \in BOOLEAN  BY DEF TypeOK, CursorOK, LedgerOK
  <2>3. 0 \in 0..MaxCard  BY CatchUpAssumption
  <2>4. CASE RestagedEffect(b, p, outcome)  BY <1>1, <2>1, <2>2, <2>4 DEF RestagedEffect
  <2>5. CASE RunEffect(b, p, outcome)  BY <1>1, <2>1, <2>2, <2>3, <2>5 DEF RunEffect, SkippedAsGone
  <2> QED BY <2>4, <2>5 DEF RunEnds
<1>3. WorldOK' /\ LedgerOK' /\ CursorOK'
  BY <1>2 DEF RunEnds, TypeOK, WorldOK, LedgerOK, CursorOK
<1>4. SyncOK'
  <2>1. CASE Waits(b, p)
    BY <1>1, <2>1, ExaminedKeepsTypes DEF RunEnds, Answer
  <2>2. CASE ~Waits(b, p)
    BY <2>2, SameSync DEF RunEnds, Answer, TypeOK
  <2> QED BY <2>1, <2>2
<1>5. RunOK'
  <2>1. run' \in [Bridges -> [Proposals -> Positions]]  BY DEF RunEnds, TypeOK, RunOK, Positions
  <2>2. \A c \in Bridges, q \in Proposals : run'[c][q] = run[c][q] \/ run'[c][q] = 0
    BY DEF RunEnds, TypeOK, RunOK
  <2> QED BY <2>1, <2>2 DEF RunEnds, TypeOK, RunOK, Decided
<1> QED BY <1>3, <1>4, <1>5 DEF TypeOK

LEMMA SyncSteps ==
  ASSUME TypeOK, NEW b \in Bridges, StartSync(b) \/ SyncStep(b)
  PROVE  TypeOK'
<1> USE DEF ledgerVars, runVars, syncOnly
<1>1. ASSUME SyncOK', UNCHANGED syncOnly PROVE TypeOK'
  <2>1. UNCHANGED <<worldVars, tracked, shown, unlisted, status, cursor, disk, run, restaged,
                    skipped, restarts>>
    BY <1>1
  <2>2. WorldOK' /\ LedgerOK' /\ CursorOK'
    BY <2>1 DEF worldVars, TypeOK, WorldOK, LedgerOK, CursorOK
  <2> QED BY <1>1, <2>1, <2>2, SameRun DEF TypeOK, worldVars
<1>2. /\ sync[b] \in SyncRecord /\ InLog(sync[b]) /\ DOMAIN log = 1..Len(log) /\ Len(log) \in Nat
      /\ SyncOK
  BY Positional DEF TypeOK, SyncOK
<1>3. CASE StartSync(b) \/ FetchFails(b) \/ \E entitled \in BOOLEAN : Preflight(b, entitled)
  <2>1. PICK st \in {"preflight", "save", "reconcile", "reconcileOnly"} :
          sync' = [sync EXCEPT ![b].st = st]
    BY <1>3 DEF StartSync, FetchFails, Preflight
  <2>2. log' = log  BY <1>3 DEF StartSync, FetchFails, Preflight, worldVars
  <2>3. SyncOK'  BY <1>2, <2>1, <2>2, PhaseMoves DEF Phases
  <2> QED BY <1>1, <1>3, <2>3 DEF StartSync, FetchFails, Preflight
<1>4. CASE Reconcile(b)
  <2>1. /\ cursor[b] \in 0..Len(log) /\ log' = log
    BY <1>4 DEF Reconcile, worldVars, TypeOK, CursorOK
  <2>2. NoSync \in SyncRecord /\ NoSync.st = "idle" /\ NoSync.safe = 0 /\ NoSync.next = 0
    BY IdleSync
  <2> DEFINE s == Sync("fetch", cursor[b], cursor[b], FALSE, 0, 0, 0)
  <2>3. /\ s \in SyncRecord /\ s.st = "fetch" /\ s.safe = cursor[b] /\ s.next = 0 /\ s.pages = 0
        /\ s.fetch = cursor[b]
    BY <1>2, <2>1, CatchUpAssumption DEF Sync, SyncRecord, Phases, Positions
  <2>4. sync' = [sync EXCEPT ![b] = s] \/ sync' = [sync EXCEPT ![b] = NoSync]
    BY <1>4 DEF Reconcile
  <2> HIDE DEF s
  <2>5. SyncOK'  BY <1>2, <2>1, <2>2, <2>3, <2>4, SyncMoves, CatchUpAssumption DEF InLog
  <2>6. LedgerOK'  BY <1>4, ListingKeepsTypes DEF Reconcile, TypeOK, LedgerOK
  <2>7. WorldOK' /\ CursorOK'  BY <1>4 DEF Reconcile, worldVars, TypeOK, WorldOK, CursorOK
  <2>8. RunOK'  BY <1>4, SameRun DEF Reconcile, worldVars, TypeOK
  <2> QED BY <2>5, <2>6, <2>7, <2>8 DEF TypeOK
<1>5. CASE Fetch(b)
  <2> DEFINE end == IF sync[b].fetch + PageSize < Len(log) THEN sync[b].fetch + PageSize ELSE Len(log)
             s == Sync("scan", sync[b].fetch, sync[b].safe, sync[b].blocked,
                       sync[b].pages + 1, sync[b].fetch + 1, end)
  <2>1. end \in Nat /\ end <= Len(log)
    BY <1>2, CatchUpAssumption DEF SyncRecord, Positions
  <2>2. sync[b].pages + 1 \in 0..MaxPages
    BY <1>2, <1>5, CatchUpAssumption DEF Fetch, SyncRecord, InLog
  <2> HIDE DEF end
  <2>3. s \in SyncRecord /\ InLog(s)
    BY <1>2, <1>5, <2>1, <2>2 DEF Fetch, SyncRecord, Sync, Phases, Positions, InLog
  <2>4. sync' = [sync EXCEPT ![b] = s] /\ log' = log  BY <1>5 DEF Fetch, worldVars, end
  <2> HIDE DEF s
  <2>5. SyncOK'  BY <1>2, <2>3, <2>4, SyncMoves
  <2> QED BY <1>1, <1>5, <2>5 DEF Fetch
<1>6. CASE ScanFiltered(b)
  <2>1. sync[b].st = "scan" /\ sync[b].at \in 1..Len(log) /\ log' = log
    BY <1>2, <1>6 DEF ScanFiltered, InPage, InLog, SyncRecord, Positions, worldVars
  <2>2. /\ sync' \in [Bridges -> SyncRecord] /\ \A c \in Bridges \ {b} : sync'[c] = sync[c]
        /\ sync'[b].st = sync[b].st /\ sync'[b].safe = sync[b].safe
        /\ sync'[b].next = sync[b].next /\ sync'[b].at = sync[b].at + 1
    <3>1. sync \in [Bridges -> SyncRecord] /\ sync' = [sync EXCEPT ![b].at = @ + 1]
      BY <1>6 DEF ScanFiltered, TypeOK, SyncOK
    <3> QED BY <3>1 DEF SyncRecord, Positions
  <2>3. InLog(sync[b])'  BY <1>2, <2>1, <2>2 DEF InLog
  <2>4. ASSUME NEW c \in Bridges, c # b PROVE InLog(sync[c])'
    <3>1. InLog(sync[c]) /\ sync'[c] = sync[c]  BY <1>2, <2>2, <2>4 DEF SyncOK
    <3> QED BY <2>1, <3>1 DEF InLog, Decided
  <2>5. SyncOK'  BY <2>2, <2>3, <2>4 DEF SyncOK
  <2> QED BY <1>1, <1>6, <2>5 DEF ScanFiltered
<1>7. CASE ScanDecision(b) \/ ScanOther(b) \/ ScanNoop(b)
  <2>1. sync[b].at \in DOMAIN log
    <3>1. InPage(b)  BY <1>7 DEF ScanDecision, ScanOther, ScanNoop
    <3> QED BY <1>2, <3>1 DEF InPage, InLog, SyncRecord, Positions
  <2>2. log' = log  BY <1>7 DEF ScanDecision, ScanOther, ScanNoop, worldVars
  <2>3. CASE ScanDecision(b)
    <3>1. SyncOK'  BY <1>2, <2>1, <2>2, <2>3, PhaseMoves DEF ScanDecision, Phases
    <3>2. RunOK'  BY <2>1, <2>3, Starting DEF ScanDecision, worldVars, TypeOK
    <3>3. WorldOK' /\ LedgerOK' /\ CursorOK'
      BY <2>3 DEF ScanDecision, worldVars, TypeOK, WorldOK, LedgerOK, CursorOK
    <3> QED BY <3>1, <3>2, <3>3 DEF TypeOK
  <2>4. CASE ScanOther(b)
    <3>1. SyncOK'  BY <2>1, <2>2, <2>4, ExaminedKeepsTypes DEF ScanOther
    <3> QED BY <1>1, <2>4, <3>1 DEF ScanOther
  <2>5. CASE ScanNoop(b)
    <3>1. SyncOK'  BY <2>1, <2>2, <2>5, ExaminedKeepsTypes DEF ScanNoop
    <3>2. RunOK'  BY <2>5, SameRun DEF ScanNoop, worldVars, TypeOK
    <3>3. WorldOK' /\ LedgerOK' /\ CursorOK'
      BY <2>1, <2>5 DEF ScanNoop, SkippedAsGone, worldVars, TypeOK, WorldOK, LedgerOK, CursorOK
    <3> QED BY <3>1, <3>2, <3>3 DEF TypeOK
  <2> QED BY <1>7, <2>3, <2>4, <2>5
<1>8. CASE PageEnds(b)
  <2> DEFINE s == AfterPage(sync[b])
  <2>1. s \in SyncRecord /\ InLog(s)
    BY <1>2, CatchUpAssumption DEF AfterPage, PageRead, Sync, SyncRecord, InLog, Phases, Positions
  <2>2. sync' = [sync EXCEPT ![b] = s] /\ log' = log  BY <1>8 DEF PageEnds, worldVars
  <2> HIDE DEF s
  <2>3. SyncOK'  BY <1>2, <2>1, <2>2, SyncMoves
  <2> QED BY <1>1, <1>8, <2>3 DEF PageEnds
<1>9. CASE Advance(b) \/ WriteCursor(b)
  <2>1. NoSync \in SyncRecord /\ NoSync.st = "idle" /\ NoSync.safe = 0 /\ NoSync.next = 0
    BY IdleSync
  <2>2. log' = log /\ sync[b].safe \in 0..Len(log)
    BY <1>2, <1>9 DEF Advance, WriteCursor, worldVars, InLog, SyncRecord, Positions
  <2>3. sync' = [sync EXCEPT ![b] = NoSync] \/ sync' = [sync EXCEPT ![b].st = "write"]
    BY <1>9 DEF Advance, WriteCursor
  <2>4. SyncOK'  BY <1>2, <2>1, <2>2, <2>3, SyncMoves, PhaseMoves DEF Phases, InLog
  <2>5. CursorOK'
    BY <1>9, <2>2 DEF Advance, WriteCursor, TypeOK, CursorOK
  <2>6. WorldOK' /\ LedgerOK'
    BY <1>9 DEF Advance, WriteCursor, worldVars, TypeOK, WorldOK, LedgerOK
  <2>7. RunOK'  BY <1>9, SameRun DEF Advance, WriteCursor, worldVars, TypeOK
  <2> QED BY <2>4, <2>5, <2>6, <2>7 DEF TypeOK
<1> QED BY <1>3, <1>4, <1>5, <1>6, <1>7, <1>8, <1>9 DEF SyncStep

LEMMA RestartSteps ==
  ASSUME TypeOK, NEW b \in Bridges, NEW new \in Bridges, Crash(b) \/ Reload(b, new)
  PROVE  TypeOK'
<1>1. WorldOK' /\ LedgerOK'
  <2>1. 0 \in 0..MaxCard  BY CatchUpAssumption
  <2> QED BY <2>1 DEF Crash, Reload, worldVars, ledgerVars, TypeOK, WorldOK, LedgerOK
<1>2. CursorOK'
  <2>1. 0 \in 0..Len(log) /\ log' = log
    BY Positional DEF Crash, Reload, worldVars, TypeOK
  <2>2. restarts' \in 0..MaxRestarts
    BY CatchUpAssumption DEF Crash, Reload, Starts, TypeOK, CursorOK
  <2>3. cursor' \in [Bridges -> 0..Len(log)]
    BY <2>1 DEF Crash, Reload, Starts, TypeOK, CursorOK
  <2>4. status' \in [Bridges -> {"off", "on", "disposed"}]
    BY DEF Crash, Reload, Starts, TypeOK, CursorOK
  <2>5. UNCHANGED <<disk, skipped>>  BY DEF Crash, Reload
  <2> QED BY <2>1, <2>2, <2>3, <2>4, <2>5 DEF TypeOK, CursorOK
<1>3. SyncOK' /\ RunOK'
  <2>1. CASE Reload(b, new)  BY <2>1, SameSync, SameRun DEF Reload, worldVars, runVars, TypeOK
  <2>2. CASE Crash(b)
    <3>1. NoSync \in SyncRecord /\ NoSync.st = "idle" /\ NoSync.safe = 0 /\ NoSync.next = 0
      BY IdleSync
    <3>2. Len(log) \in Nat /\ log' = log  BY <2>2, Positional DEF Crash, worldVars, TypeOK
    <3>3. SyncOK'  BY <2>2, <3>1, <3>2 DEF Crash, SyncOK, InLog
    <3> QED BY <2>2, <3>3 DEF Crash, RunOK, Positions
  <2> QED BY <2>1, <2>2
<1> QED BY <1>1, <1>2, <1>3 DEF TypeOK

LEMMA TypeInit == Init => TypeOK
<1> SUFFICES ASSUME Init PROVE TypeOK  OBVIOUS
<1>1. log = <<>> /\ Len(log) = 0  BY DEF Init
<1>2. WorldOK /\ LedgerOK /\ CursorOK
  <2>1. 0 \in 0..MaxCard /\ 1 \in 0..MaxCard /\ 0 \in 0..MaxRestarts  BY CatchUpAssumption
  <2>2. log \in Seq(Decisions \cup Noise) /\ 0 \in 0..Len(log)  BY <1>1
  <2>3. status \in [Bridges -> {"off", "on", "disposed"}]  BY DEF Init
  <2>4. WorldOK  BY <2>1, <2>2 DEF Init, WorldOK
  <2>5. LedgerOK  BY <2>1 DEF Init, LedgerOK
  <2>6. CursorOK  BY <2>1, <2>2, <2>3 DEF Init, CursorOK
  <2> QED BY <2>4, <2>5, <2>6
<1>3. SyncOK
  <2>1. NoSync \in SyncRecord /\ NoSync.st = "idle" /\ NoSync.safe = 0 /\ NoSync.next = 0
    BY IdleSync
  <2> QED BY <1>1, <2>1 DEF Init, SyncOK, InLog
<1>4. RunOK  BY DEF Init, RunOK, Positions
<1> QED BY <1>2, <1>3, <1>4 DEF TypeOK

LEMMA TypeStep == TypeOK /\ [Next]_vars => TypeOK'
<1> SUFFICES ASSUME TypeOK, [Next]_vars PROVE TypeOK'  OBVIOUS
<1>1. CASE UNCHANGED vars
  <2>1. UNCHANGED <<worldVars, ledgerVars, status, cursor, disk, sync, run, restaged, skipped, restarts>>
    BY <1>1 DEF vars, runVars
  <2>2. WorldOK' /\ LedgerOK' /\ CursorOK'
    BY <2>1 DEF worldVars, ledgerVars, TypeOK, WorldOK, LedgerOK, CursorOK
  <2> QED BY <2>1, <2>2, SameSync, SameRun DEF worldVars, TypeOK
<1> QED BY <1>1, WorldSteps, PublishStep, DriftStep, PushStep, RunEndsStep, SyncSteps,
           RestartSteps DEF Next

\* Every variable of the catch-up keeps its type, and every position a sync, a
\* run or a cursor holds is one of the log, for any number of bridges and rows.
THEOREM CatchUpTypeCorrect == Spec => []TypeOK
<1> QED BY TypeInit, TypeStep, PTL DEF Spec

-------------------------------------------------------------------------------

\* The row is no decision, or one of a card the item has left behind, or was
\* answered without effect.  Unlike Covered it says the card lies behind.
Spent(i) == Decided(i) =>
  \/ item[log[i].p] = 0
  \/ log[i].card < item[log[i].p]
  \/ i \in skipped
SpentTo(n) == \A i \in DOMAIN log : i <= n => Spent(i)

CursorsSpent == SpentTo(disk) /\ \A b \in Bridges : SpentTo(cursor[b])

\* Until a row is deferred, everything before the one looked at is spent.
SyncSpent(s) ==
  /\ SpentTo(s.safe)
  /\ ~s.blocked /\ s.st = "fetch" => SpentTo(s.fetch)
  /\ ~s.blocked /\ s.st \in {"scan", "await"} => SpentTo(s.at - 1)
SyncsSpent == \A b \in Bridges : SyncSpent(sync[b])

\* A tracked card is the newest one shown, none is ahead of the pending
\* revision, and none was decided that was not shown.
CardOrder ==
  /\ \A p \in Proposals : tracked[p] \in {0, shown[p]} /\ (item[p] = 0 \/ shown[p] <= item[p])
  /\ \A i \in DOMAIN log : Decided(i) => log[i].card <= shown[log[i].p]

AllTracked == \A p \in Proposals : tracked[p] # 0 \/ item[p] = 0

\* Rows are read only after a listing that gave every pending item its card.
Reading(b) == sync[b].st \in {"fetch", "scan", "await"}
Listed == (~unlisted /\ \E b \in Bridges : Reading(b)) => AllTracked

\* The active bridge has its runs' items tracked, unless one has lost its card;
\* a restaged item has moved on.
RunsTracked == \A b \in Bridges, p \in Proposals :
  status[b] = "on" /\ run[b][p] # 0 /\ <<b, p>> \notin restaged
    => unlisted \/ tracked[p] # 0 \/ item[p] = 0
RunsRestaged == \A b \in Bridges, p \in Proposals : <<b, p>> \in restaged =>
  run[b][p] # 0 /\ (item[p] = 0 \/ log[run[b][p]].card < item[p])
OneOn == \A b, c \in Bridges : status[b] = "on" /\ status[c] = "on" => b = c

Inv == /\ TypeOK /\ CursorsSpent /\ SyncsSpent /\ CardOrder /\ Listed
       /\ RunsTracked /\ RunsRestaged /\ OneOn

-----------------------------------------------------------------------------
(* Items, the log and the set of skipped rows only grow, so a spent row    *)
(* stays spent.                                                            *)

ItemsGrow == \A p \in Proposals : item'[p] = item[p] \/ item'[p] = 0
                                  \/ (item[p] # 0 /\ item[p] < item'[p])
Grows == LogKept /\ skipped \subseteq skipped' /\ ItemsGrow

LEMMA RowsAre ==
  ASSUME WorldOK, NEW i \in DOMAIN log, Decided(i)
  PROVE  log[i].p \in Proposals /\ log[i].card \in 1..MaxCard
<1>1. log[i] \in Decisions \cup Noise  BY DEF WorldOK
<1> QED BY <1>1 DEF Decided, Decisions, Noise, Cards

LEMMA SameLogKept == ASSUME WorldOK, log' = log PROVE LogKept
  BY DEF WorldOK, LogKept

LEMMA DecideGrows ==
  ASSUME TypeOK, NEW p \in Proposals, Decide(p)
  PROVE  /\ LogKept /\ Len(log') = Len(log) + 1
         /\ log'[Len(log) + 1] = [kind |-> "decided", p |-> p, card |-> shown[p]]
<1> DEFINE row == [kind |-> "decided", p |-> p, card |-> shown[p]]
<1>1. row \in Decisions \cup Noise  BY DEF Decide, Decisions, Cards, TypeOK, LedgerOK
<1>2. log' = Append(log, row)  BY DEF Decide
<1> HIDE DEF row
<1>3. LogKept /\ Len(log') = Len(log) + 1 /\ log'[Len(log) + 1] = row
  BY <1>1, <1>2, Appended DEF TypeOK
<1> QED BY <1>3 DEF row

LEMMA NoiseGrows ==
  ASSUME TypeOK, NEW kind \in {"other", "filtered"}, LogNoise(kind)
  PROVE  LogKept /\ Len(log') = Len(log) + 1 /\ log'[Len(log) + 1] = [kind |-> kind]
<1>1. [kind |-> kind] \in Decisions \cup Noise /\ log' = Append(log, [kind |-> kind])
  BY DEF Noise, LogNoise
<1> QED BY <1>1, Appended DEF TypeOK

LEMMA StepGrows == TypeOK /\ [Next]_vars => Grows
<1> SUFFICES ASSUME TypeOK, [Next]_vars PROVE Grows  OBVIOUS
<1>1. ASSUME NEW p \in Proposals, Revise(p) PROVE Grows
  <2>1. ItemsGrow /\ log' = log /\ skipped' = skipped
    BY <1>1, CatchUpAssumption DEF Revise, ItemsGrow, TypeOK, WorldOK
  <2> QED BY <2>1, SameLogKept DEF Grows, TypeOK
<1>2. ASSUME NEW p \in Proposals, Decide(p) PROVE Grows
  BY <1>2, DecideGrows DEF Decide, Grows, ItemsGrow
<1>3. ASSUME NEW kind \in {"other", "filtered"}, LogNoise(kind) PROVE Grows
  BY <1>3, NoiseGrows DEF LogNoise, Grows, ItemsGrow
<1>4. ASSUME NEW b \in Bridges, NEW p \in Proposals, NEW outcome \in Outcomes,
             RunEnds(b, p, outcome)
      PROVE  Grows
  <2>1. ItemsGrow
    BY <1>4 DEF RunEnds, RunEffect, RestagedEffect, ItemsGrow, TypeOK, WorldOK
  <2>2. skipped \subseteq skipped' /\ log' = log
    BY <1>4 DEF RunEnds, RunEffect, RestagedEffect, SkippedAsGone
  <2> QED BY <2>1, <2>2, SameLogKept DEF Grows, TypeOK
<1>5. CASE UNCHANGED <<item, log>> /\ skipped \subseteq skipped'
  BY <1>5, SameLogKept DEF Grows, ItemsGrow, TypeOK
<1>6. CASE Grant \/ UNCHANGED vars
  BY <1>5, <1>6 DEF Grant, vars, worldVars
<1>7. ASSUME NEW b \in Bridges, Publish(b) \/ StartSync(b) \/ SyncStep(b) \/ Crash(b)
      PROVE  Grows
  BY <1>5, <1>7 DEF Publish, StartSync, SyncStep, Preflight, Reconcile, Fetch, FetchFails, ScanFiltered,
     ScanDecision, ScanOther, ScanNoop, SkippedAsGone, PageEnds, Advance, WriteCursor, Crash,
     worldVars, syncOnly
<1>8. ASSUME NEW b \in Bridges, \/ \E i \in DOMAIN log : Push(b, i)
                                \/ \E p \in Proposals : RunDrifts(b, p)
                                \/ \E new \in Bridges : Reload(b, new)
      PROVE  Grows
  BY <1>5, <1>8 DEF Push, RunDrifts, Reload, worldVars
<1> QED BY <1>1, <1>2, <1>3, <1>4, <1>6, <1>7, <1>8 DEF Next

LEMMA SpentStays ==
  ASSUME TypeOK, TypeOK', Grows, NEW i \in DOMAIN log, Spent(i)
  PROVE  Spent(i)'
<1>1. log'[i] = log[i]  BY DEF Grows, LogKept
<1>2. CASE ~Decided(i)  BY <1>1, <1>2 DEF Spent, Decided
<1>3. CASE Decided(i)
  <2>1. log[i].p \in Proposals /\ log[i].card \in Int  BY <1>3, RowsAre, CatchUpAssumption DEF TypeOK
  <2>2. item[log[i].p] \in Int /\ item'[log[i].p] \in Int
    BY <2>1, CatchUpAssumption DEF TypeOK, WorldOK
  <2>3. \/ item'[log[i].p] = item[log[i].p] \/ item'[log[i].p] = 0
        \/ item[log[i].p] # 0 /\ item[log[i].p] < item'[log[i].p]
    BY <2>1 DEF Grows, ItemsGrow
  <2>4. \/ item[log[i].p] = 0 \/ log[i].card < item[log[i].p] \/ i \in skipped
    BY <1>3 DEF Spent
  <2>5. \/ item'[log[i].p] = 0 \/ log[i].card < item'[log[i].p] \/ i \in skipped'
    BY <2>1, <2>2, <2>3, <2>4 DEF Grows
  <2> QED BY <1>1, <2>5 DEF Spent
<1> QED BY <1>2, <1>3

\* Row n is spent after the step; up to n, rows are.
RowSpentThen(n) == \A i \in DOMAIN log' : i = n => Spent(i)'
SpentThen(n) == \A i \in DOMAIN log' : i <= n => Spent(i)'

LEMMA StillSpentTo ==
  ASSUME TypeOK, TypeOK', Grows
  PROVE  \A n \in 0..Len(log) : SpentTo(n) => SpentThen(n)
<1>1. /\ DOMAIN log = 1..Len(log) /\ Len(log) \in Nat
      /\ DOMAIN log' = 1..Len(log') /\ Len(log') \in Nat
  BY DEF TypeOK, WorldOK
<1>2. ASSUME NEW n \in 0..Len(log), SpentTo(n), NEW i \in DOMAIN log', i <= n PROVE Spent(i)'
  <2>1. i \in DOMAIN log  BY <1>1, <1>2
  <2> QED BY <1>2, <2>1, SpentStays DEF SpentTo
<1> QED BY <1>2 DEF SpentThen

SyncSpentThen(s) ==
  /\ SpentThen(s.safe)
  /\ ~s.blocked /\ s.st = "fetch" => SpentThen(s.fetch)
  /\ ~s.blocked /\ s.st \in {"scan", "await"} => SpentThen(s.at - 1)

LEMMA SyncsStay ==
  ASSUME TypeOK, TypeOK', Grows, SyncsSpent, NEW b \in Bridges
  PROVE  SyncSpentThen(sync[b])
<1>1. /\ sync[b] \in SyncRecord /\ InLog(sync[b]) /\ SyncSpent(sync[b])
      /\ Len(log) \in Nat /\ DOMAIN log = 1..Len(log)
  BY Positional DEF TypeOK, SyncOK, SyncsSpent
<1>2. sync[b].safe \in 0..Len(log)  BY <1>1 DEF SyncRecord, Positions, InLog
<1>3. sync[b].st = "fetch" => sync[b].fetch \in 0..Len(log)
  BY <1>1 DEF SyncRecord, Positions, InLog
<1>4. sync[b].st \in {"scan", "await"} => sync[b].at - 1 \in 0..Len(log)
  BY <1>1 DEF SyncRecord, Positions, InLog
<1> QED BY <1>1, <1>2, <1>3, <1>4, StillSpentTo DEF SyncSpent, SyncSpentThen

LEMMA CursorsStay ==
  ASSUME TypeOK, TypeOK', Grows, CursorsSpent
  PROVE  SpentThen(disk) /\ SpentThen(0) /\ \A b \in Bridges : SpentThen(cursor[b])
<1>1. Len(log') \in Nat /\ DOMAIN log' = 1..Len(log')  BY DEF TypeOK, WorldOK
<1>2. SpentThen(0)  BY <1>1 DEF SpentThen
<1> QED BY <1>2, StillSpentTo DEF CursorsSpent, TypeOK, CursorOK

\* Cursors and syncs after a step, from the rigid forms.
LEMMA CursorsThen ==
  ASSUME SpentThen(disk'), \A b \in Bridges : SpentThen(cursor'[b]) PROVE CursorsSpent'
  BY DEF SpentThen, CursorsSpent, SpentTo

LEMMA SyncsThen ==
  ASSUME \A b \in Bridges : SyncSpentThen(sync'[b]) PROVE SyncsSpent'
  BY DEF SyncSpentThen, SpentThen, SyncsSpent, SyncSpent, SpentTo

LEMMA OneSync ==
  ASSUME TypeOK, TypeOK', Grows, SyncsSpent, NEW b \in Bridges, NEW s,
         sync' = [sync EXCEPT ![b] = s], SyncSpentThen(s)
  PROVE  SyncsSpent'
<1>1. ASSUME NEW c \in Bridges PROVE SyncSpentThen(sync'[c])
  <2>1. CASE c = b  BY <2>1 DEF TypeOK, SyncOK
  <2>2. CASE c # b
    <3>1. sync'[c] = sync[c]  BY <2>2 DEF TypeOK, SyncOK
    <3> QED BY <3>1, SyncsStay
  <2> QED BY <2>1, <2>2
<1> QED BY <1>1, SyncsThen

\* A sync that only changes phase, and does not start to read.
LEMMA PhaseSpent ==
  ASSUME TypeOK, TypeOK', Grows, SyncsSpent, NEW b \in Bridges, NEW st,
         sync' = [sync EXCEPT ![b].st = st],
         st \notin {"fetch", "scan", "await"} \/ (st = "await" /\ sync[b].st = "scan")
  PROVE  SyncsSpent'
<1>1. /\ \A c \in Bridges \ {b} : sync'[c] = sync[c]
      /\ sync'[b].st = st /\ sync'[b].safe = sync[b].safe /\ sync'[b].fetch = sync[b].fetch
      /\ sync'[b].at = sync[b].at /\ sync'[b].blocked = sync[b].blocked
  <2>1. sync \in [Bridges -> SyncRecord]  BY DEF TypeOK, SyncOK
  <2> QED BY <2>1 DEF SyncRecord
<1>2. SyncSpentThen(sync[b])  BY SyncsStay
<1>3. SyncSpentThen(sync'[b])  BY <1>1, <1>2 DEF SyncSpentThen
<1>4. \A c \in Bridges \ {b} : SyncSpentThen(sync'[c])  BY <1>1, SyncsStay
<1> QED BY <1>3, <1>4, SyncsThen

\* One more row.
LEMMA Upto ==
  ASSUME NEW n \in Nat, DOMAIN log' \subseteq Nat, SpentThen(n - 1), RowSpentThen(n)
  PROVE  SpentThen(n)
  BY DEF SpentThen, RowSpentThen

\* The row looked at is done with: spent, or deferred.
LEMMA ExaminedSpent ==
  ASSUME TypeOK, TypeOK', Grows, SyncsSpent, NEW b \in Bridges,
         sync[b].st \in {"scan", "await"}, sync[b].at \in DOMAIN log, NEW terminal \in BOOLEAN,
         sync' = [sync EXCEPT ![b] = Examined(sync[b], terminal)],
         terminal => RowSpentThen(sync[b].at)
  PROVE  SyncsSpent'
<1> DEFINE s == Examined(sync[b], terminal)
<1>1. s.st = "scan" /\ s.at = sync[b].at + 1
      /\ s.blocked = (sync[b].blocked \/ ~terminal)
      /\ s.safe = IF sync[b].blocked \/ ~terminal THEN sync[b].safe ELSE sync[b].at
  BY DEF Examined, Sync
<1>2. SyncSpentThen(s)
  <2>1. SyncSpentThen(sync[b]) /\ sync[b].at \in Nat /\ DOMAIN log' \subseteq Nat
    <3>1. sync[b].at \in Nat  BY DEF TypeOK, SyncOK, SyncRecord, Positions
    <3>2. DOMAIN log' = 1..Len(log') /\ Len(log') \in Nat  BY DEF TypeOK, WorldOK
    <3> QED BY <3>1, <3>2, SyncsStay
  <2>2. ASSUME ~sync[b].blocked, terminal PROVE SpentThen(sync[b].at)
    <3>1. SpentThen(sync[b].at - 1) /\ RowSpentThen(sync[b].at)  BY <2>1, <2>2 DEF SyncSpentThen
    <3> QED BY <2>1, <3>1, Upto
  <2> HIDE DEF s
  <2>3. s.at - 1 = sync[b].at  BY <1>1, <2>1
  <2> QED BY <1>1, <2>1, <2>2, <2>3 DEF SyncSpentThen
<1>3. sync' = [sync EXCEPT ![b] = s]  OBVIOUS
<1> HIDE DEF s
<1> QED BY <1>2, <1>3, OneSync

LEMMA SameSyncSpent ==
  ASSUME TypeOK, TypeOK', Grows, SyncsSpent, sync' = sync PROVE SyncsSpent'
  BY SyncsStay, SyncsThen

LEMMA SameCursors ==
  ASSUME TypeOK, TypeOK', Grows, CursorsSpent, UNCHANGED <<cursor, disk>> PROVE CursorsSpent'
  BY CursorsStay, CursorsThen

LEMMA IdleSpent == ASSUME TypeOK, TypeOK', Grows, CursorsSpent PROVE SyncSpentThen(NoSync)
<1>1. NoSync.st = "idle" /\ NoSync.safe = 0  BY IdleSync
<1> QED BY <1>1, CursorsStay DEF SyncSpentThen

\* A listing keeps the order of the cards; one that succeeds tracks every item.
LEMMA ListingOrders ==
  ASSUME TypeOK, CardOrder, UNCHANGED <<item, log>>,
         NEW ledger \in [Proposals -> 0..MaxCard], \A p \in Proposals : ledger[p] \in {0, tracked[p]},
         Listing(ledger)
  PROVE  /\ CardOrder'
         /\ ~unlisted' => AllTracked'
<1>1. /\ item \in [Proposals -> 0..MaxCard] /\ shown \in [Proposals -> 0..MaxCard]
      /\ tracked \in [Proposals -> 0..MaxCard]
  BY DEF TypeOK, WorldOK, LedgerOK
<1> DEFINE stale == {p \in Proposals : ledger[p] = 0 \/ item[p] = 0}
           posted == [p \in Proposals |-> IF p \in stale /\ item[p] # 0 THEN item[p] ELSE shown[p]]
<1>2. \/ /\ tracked' = [p \in Proposals |-> IF p \in stale THEN item[p] ELSE ledger[p]]
         /\ shown' = posted /\ unlisted' = FALSE
      \/ tracked' = ledger /\ shown' \in {shown, posted} /\ unlisted' = TRUE
  BY DEF Listing
<1>3. ASSUME NEW p \in Proposals
      PROVE  /\ tracked'[p] \in {0, shown'[p]}
             /\ item[p] = 0 \/ shown'[p] <= item[p]
             /\ shown[p] <= shown'[p]
             /\ ~unlisted' => tracked'[p] # 0 \/ item[p] = 0
  <2>1. /\ tracked[p] \in {0, shown[p]} /\ (item[p] = 0 \/ shown[p] <= item[p])
        /\ ledger[p] \in {0, tracked[p]}
        /\ item[p] \in 0..MaxCard /\ shown[p] \in 0..MaxCard
    BY <1>1 DEF CardOrder
  <2>2. posted[p] = IF (ledger[p] = 0 \/ item[p] = 0) /\ item[p] # 0 THEN item[p] ELSE shown[p]
    OBVIOUS
  <2> QED BY <1>2, <2>1, <2>2, CatchUpAssumption
<1>4. ASSUME NEW i \in DOMAIN log, Decided(i) PROVE log[i].card <= shown'[log[i].p]
  <2>1. log[i].p \in Proposals /\ log[i].card \in 1..MaxCard  BY <1>4, RowsAre DEF TypeOK
  <2>2. log[i].card <= shown[log[i].p]  BY <1>4 DEF CardOrder
  <2>3. shown[log[i].p] \in 0..MaxCard /\ shown'[log[i].p] \in Int
    <3>1. posted[log[i].p] \in 0..MaxCard  BY <1>1, <2>1
    <3> QED BY <1>1, <1>2, <2>1, <3>1, CatchUpAssumption
  <2> QED BY <1>3, <2>1, <2>2, <2>3, CatchUpAssumption
<1> QED BY <1>3, <1>4 DEF CardOrder, AllTracked, Decided

-----------------------------------------------------------------------------
(* The order of cards, and what is tracked.                                *)

\* The steps that list the source; every one tracks what the ledger tracked,
\* but a drifted item.
Lists(b, ledger) ==
  /\ Listing(ledger) /\ UNCHANGED <<item, log>>
  /\ \/ (Publish(b) \/ Reconcile(b)) /\ ledger = tracked
     \/ \E p \in Proposals : RunDrifts(b, p) /\ ledger = [tracked EXCEPT ![p] = 0]

\* The steps that neither list nor decide anything.
Quiet == /\ UNCHANGED <<item, log, tracked, shown, unlisted>>
         /\ \A b \in Bridges : Reading(b)' => Reading(b)

LEMMA QuietSync ==
  ASSUME TypeOK, NEW b \in Bridges, StartSync(b) \/ SyncStep(b), ~Reconcile(b) \/ status[b] = "disposed"
  PROVE  Quiet
<1>1. sync \in [Bridges -> SyncRecord]  BY DEF TypeOK, SyncOK
<1>2. UNCHANGED <<item, log, tracked, shown, unlisted>>
  BY DEF StartSync, SyncStep, Preflight, Reconcile, Fetch, FetchFails, ScanFiltered, ScanDecision,
     ScanOther, ScanNoop, PageEnds, Advance, WriteCursor, worldVars, ledgerVars, syncOnly
<1>3. \A c \in Bridges \ {b} : sync'[c] = sync[c]
  BY <1>1 DEF StartSync, SyncStep, Preflight, Reconcile, Fetch, FetchFails, ScanFiltered, ScanDecision,
     ScanOther, ScanNoop, PageEnds, Advance, WriteCursor
<1>4. sync'[b].st \in {"fetch", "scan", "await"} => sync[b].st \in {"fetch", "scan", "await"}
  <2>1. CASE \E st \in {"preflight", "reconcile", "reconcileOnly", "save", "write"} :
               sync' = [sync EXCEPT ![b].st = st]
    BY <1>1, <2>1 DEF SyncRecord
  <2>2. CASE sync' = [sync EXCEPT ![b] = NoSync]
    BY <1>1, <2>2, IdleSync
  <2>3. CASE sync[b].st = "scan" \/ sync[b].st = "fetch"
    BY <2>3
  <2> QED BY <2>1, <2>2, <2>3
    DEF StartSync, SyncStep, Preflight, Reconcile, Fetch, FetchFails, ScanFiltered, ScanDecision,
        ScanOther, ScanNoop, InPage, PageEnds, Advance, WriteCursor
<1> QED BY <1>2, <1>3, <1>4 DEF Quiet, Reading

LEMMA Split ==
  ASSUME TypeOK, [Next]_vars
  PROVE  \/ \E p \in Proposals : Revise(p) \/ Decide(p)
         \/ \E kind \in {"other", "filtered"} : LogNoise(kind)
         \/ \E b \in Bridges, p \in Proposals, outcome \in Outcomes : RunEnds(b, p, outcome)
         \/ \E b \in Bridges, ledger \in [Proposals -> 0..MaxCard] : Lists(b, ledger)
         \/ \E b \in Bridges : Crash(b)
         \/ Quiet
<1>1. CASE Grant \/ UNCHANGED vars \/ \E b \in Bridges : \/ \E i \in DOMAIN log : Push(b, i)
                                                         \/ \E new \in Bridges : Reload(b, new)
  <2>1. UNCHANGED <<item, log, tracked, shown, unlisted, sync>>
    BY <1>1 DEF Grant, Push, Reload, vars, worldVars, ledgerVars
  <2> QED BY <2>1 DEF Quiet, Reading
<1>2. ASSUME NEW b \in Bridges, \/ Publish(b) \/ (Reconcile(b) /\ status[b] # "disposed")
                                \/ \E p \in Proposals : RunDrifts(b, p)
      PROVE  \E ledger \in [Proposals -> 0..MaxCard] : Lists(b, ledger)
  <2>1. tracked \in [Proposals -> 0..MaxCard] /\ 0 \in 0..MaxCard
    BY CatchUpAssumption DEF TypeOK, LedgerOK
  <2>2. CASE Publish(b) \/ (Reconcile(b) /\ status[b] # "disposed")
    <3>1. Listing(tracked) /\ UNCHANGED <<item, log>>
      BY <2>2 DEF Publish, Reconcile, worldVars
    <3> QED BY <2>1, <2>2, <3>1 DEF Lists
  <2>3. ASSUME NEW p \in Proposals, RunDrifts(b, p)
        PROVE  \E ledger \in [Proposals -> 0..MaxCard] : Lists(b, ledger)
    <3>1. Listing([tracked EXCEPT ![p] = 0]) /\ UNCHANGED <<item, log>>
      BY <2>3 DEF RunDrifts, worldVars
    <3>2. [tracked EXCEPT ![p] = 0] \in [Proposals -> 0..MaxCard]  BY <2>1
    <3> QED BY <2>3, <3>1, <3>2 DEF Lists
  <2> QED BY <1>2, <2>2, <2>3
<1>3. ASSUME NEW b \in Bridges, StartSync(b) \/ SyncStep(b)
      PROVE  Quiet \/ (Reconcile(b) /\ status[b] # "disposed")
  BY <1>3, QuietSync
<1> QED BY <1>1, <1>2, <1>3 DEF Next

LEMMA ListsOrder ==
  ASSUME TypeOK, CardOrder, NEW b \in Bridges, NEW ledger \in [Proposals -> 0..MaxCard], Lists(b, ledger)
  PROVE  /\ CardOrder'
         /\ ~unlisted' => AllTracked'
<1>1. \A p \in Proposals : ledger[p] \in {0, tracked[p]}
  BY DEF Lists, TypeOK, LedgerOK
<1> QED BY <1>1, ListingOrders DEF Lists

\* What a run takes away.  The active bridge's answers "noop" only when nothing
\* is pending, or counts its rows as skipped.
LEMMA RunTakes ==
  ASSUME Inv, NEW b \in Bridges, NEW p \in Proposals, NEW outcome \in Outcomes,
         RunEnds(b, p, outcome)
  PROVE  /\ \A q \in Proposals \ {p} : item'[q] = item[q] /\ tracked'[q] = tracked[q]
         /\ \/ item'[p] = item[p] /\ tracked'[p] = tracked[p] /\ unlisted' = unlisted
            \/ item'[p] = 0 /\ tracked'[p] = 0 /\ unlisted' = unlisted
            \/ item'[p] = item[p] /\ tracked'[p] = 0 /\ unlisted'
         /\ outcome = "noop" => item'[p] = 0 \/ Waiters(b, p) \subseteq skipped'
<1>1. item \in [Proposals -> 0..MaxCard] /\ tracked \in [Proposals -> 0..MaxCard]
  BY DEF Inv, TypeOK, WorldOK, LedgerOK
<1>2. status[b] = "on" /\ <<b, p>> \notin restaged => unlisted \/ tracked[p] # 0 \/ item[p] = 0
  BY DEF Inv, RunsTracked, RunEnds
<1>3. CASE <<b, p>> \in restaged /\ RestagedEffect(b, p, outcome)
  BY <1>1, <1>3 DEF RestagedEffect
<1>4. CASE <<b, p>> \notin restaged /\ RunEffect(b, p, outcome)
  <2>1. CASE UNCHANGED <<item, tracked, unlisted>>
    BY <1>1, <1>2, <1>4, <2>1 DEF RunEffect, SkippedAsGone
  <2>2. CASE ~UNCHANGED <<item, tracked, unlisted>>
    BY <1>1, <1>2, <1>4, <2>2 DEF RunEffect, SkippedAsGone
  <2> QED BY <2>1, <2>2
<1> QED BY <1>3, <1>4 DEF RunEnds

LEMMA CardOrderStep == Inv /\ [Next]_vars => CardOrder'
<1> SUFFICES ASSUME Inv, [Next]_vars PROVE CardOrder'  OBVIOUS
<1>1. /\ TypeOK /\ CardOrder /\ WorldOK
      /\ item \in [Proposals -> 0..MaxCard] /\ shown \in [Proposals -> 0..MaxCard]
      /\ tracked \in [Proposals -> 0..MaxCard]
  BY DEF Inv, TypeOK, WorldOK, LedgerOK
<1>2. ASSUME NEW p \in Proposals, Revise(p) PROVE CardOrder'
  <2>1. UNCHANGED <<tracked, shown, log>>  BY <1>2 DEF Revise, ledgerVars
  <2>2. ASSUME NEW q \in Proposals PROVE item'[q] = 0 \/ shown'[q] <= item'[q]
    <3>1. /\ item'[q] = item[q] \/ (item[q] # 0 /\ item'[q] = item[q] + 1)
          /\ item[q] = 0 \/ shown[q] <= item[q]
          /\ item[q] \in Nat /\ shown[q] \in Nat
      BY <1>1, <1>2, CatchUpAssumption DEF Revise, CardOrder
    <3> QED BY <2>1, <3>1
  <2> QED BY <1>1, <2>1, <2>2 DEF CardOrder, Decided
<1>3. ASSUME NEW p \in Proposals, Decide(p) PROVE CardOrder'
  <2>1. UNCHANGED <<tracked, shown, item>>  BY <1>3 DEF Decide, ledgerVars
  <2>2. /\ LogKept /\ Len(log') = Len(log) + 1
        /\ log'[Len(log) + 1] = [kind |-> "decided", p |-> p, card |-> shown[p]]
    BY <1>1, <1>3, DecideGrows
  <2>3. DOMAIN log' = 1..Len(log') /\ DOMAIN log = 1..Len(log) /\ Len(log) \in Nat
    BY <1>1, Positional, TypeStep DEF TypeOK, WorldOK
  <2>4. ASSUME NEW i \in DOMAIN log', Decided(i)' PROVE log'[i].card <= shown'[log'[i].p]
    <3>1. CASE i \in DOMAIN log
      BY <1>1, <2>1, <2>2, <2>4, <3>1 DEF LogKept, CardOrder, Decided
    <3>2. CASE i = Len(log) + 1
      <4>1. shown[p] \in Int  BY <1>1, CatchUpAssumption
      <4> QED BY <2>1, <2>2, <3>2, <4>1
    <3> QED BY <2>2, <2>3, <3>1, <3>2
  <2> QED BY <1>1, <2>1, <2>4 DEF CardOrder
<1>4. ASSUME NEW kind \in {"other", "filtered"}, LogNoise(kind) PROVE CardOrder'
  <2>1. UNCHANGED <<tracked, shown, item>>  BY <1>4 DEF LogNoise, ledgerVars
  <2>2. LogKept /\ Len(log') = Len(log) + 1 /\ log'[Len(log) + 1] = [kind |-> kind]
    BY <1>1, <1>4, NoiseGrows
  <2>3. DOMAIN log' = 1..Len(log') /\ DOMAIN log = 1..Len(log) /\ Len(log) \in Nat
    BY <1>1, Positional, TypeStep DEF TypeOK, WorldOK
  <2>4. ASSUME NEW i \in DOMAIN log', Decided(i)' PROVE log'[i].card <= shown'[log'[i].p]
    BY <1>1, <2>1, <2>2, <2>3, <2>4 DEF LogKept, CardOrder, Decided
  <2> QED BY <1>1, <2>1, <2>4 DEF CardOrder
<1>5. ASSUME NEW b \in Bridges, NEW p \in Proposals, NEW outcome \in Outcomes,
             RunEnds(b, p, outcome)
      PROVE  CardOrder'
  <2>1. UNCHANGED <<shown, log>>  BY <1>5 DEF RunEnds
  <2>2. ASSUME NEW q \in Proposals
        PROVE  /\ tracked'[q] = tracked[q] \/ tracked'[q] = 0
               /\ item'[q] = item[q] \/ item'[q] = 0
    BY <1>5, RunTakes
  <2> QED BY <1>1, <2>1, <2>2 DEF CardOrder, Decided
<1>6. ASSUME NEW b \in Bridges, Crash(b) PROVE CardOrder'
  <2>1. UNCHANGED <<item, log, shown>> /\ (tracked' = tracked \/ tracked' = [p \in Proposals |-> 0])
    BY <1>6 DEF Crash, worldVars
  <2> QED BY <1>1, <2>1 DEF CardOrder, Decided
<1>7. CASE Quiet  BY <1>1, <1>7 DEF Quiet, CardOrder, Decided
<1> QED BY <1>1, <1>2, <1>3, <1>4, <1>5, <1>6, <1>7, Split, ListsOrder

LEMMA ListedStep == Inv /\ [Next]_vars => Listed'
<1> SUFFICES ASSUME Inv, [Next]_vars PROVE Listed'  OBVIOUS
<1>1. /\ TypeOK /\ CardOrder /\ Listed
      /\ item \in [Proposals -> 0..MaxCard] /\ tracked \in [Proposals -> 0..MaxCard]
  BY DEF Inv, TypeOK, WorldOK, LedgerOK
<1>2. ASSUME NEW p \in Proposals, Revise(p) PROVE Listed'
  <2>1. UNCHANGED <<tracked, unlisted, sync>>  BY <1>2 DEF Revise, ledgerVars
  <2>2. \A q \in Proposals : item[q] = 0 => item'[q] = 0  BY <1>1, <1>2, CatchUpAssumption DEF Revise
  <2> QED BY <1>1, <2>1, <2>2 DEF Listed, Reading, AllTracked
<1>3. ASSUME UNCHANGED <<item, tracked, unlisted, sync>> PROVE Listed'
  BY <1>1, <1>3 DEF Listed, Reading, AllTracked
<1>4. ASSUME NEW p \in Proposals, Decide(p) PROVE Listed'
  BY <1>3, <1>4 DEF Decide, ledgerVars
<1>5. ASSUME NEW kind \in {"other", "filtered"}, LogNoise(kind) PROVE Listed'
  BY <1>3, <1>5 DEF LogNoise, ledgerVars
<1>6. ASSUME NEW b \in Bridges, NEW p \in Proposals, NEW outcome \in Outcomes,
             RunEnds(b, p, outcome)
      PROVE  Listed'
  <2>1. unlisted' \/ unlisted' = unlisted  BY <1>6, RunTakes
  <2>2. (\E c \in Bridges : Reading(c))' => \E c \in Bridges : Reading(c)
    <3>1. CASE Waits(b, p)  BY <3>1 DEF Waits, Reading
    <3>2. CASE ~Waits(b, p)  BY <1>6, <3>2 DEF RunEnds, Answer, Reading
    <3> QED BY <3>1, <3>2
  <2>3. AllTracked /\ ~unlisted' => AllTracked'  BY <1>6, RunTakes DEF AllTracked
  <2> QED BY <1>1, <2>1, <2>2, <2>3 DEF Listed
<1>7. ASSUME NEW b \in Bridges, Crash(b) PROVE Listed'
  BY <1>7, IdleSync DEF Crash, Listed, Reading
<1>8. CASE Quiet  BY <1>1, <1>8 DEF Quiet, Listed, AllTracked
<1>9. ASSUME NEW b \in Bridges, NEW ledger \in [Proposals -> 0..MaxCard], Lists(b, ledger)
      PROVE  Listed'
  BY <1>1, <1>9, ListsOrder DEF Listed
<1> QED BY <1>1, <1>2, <1>4, <1>5, <1>6, <1>7, <1>8, <1>9, Split

-----------------------------------------------------------------------------
(* The runs. *)

LEMMA OneOnStep == Inv /\ [Next]_vars => OneOn'
<1> SUFFICES ASSUME Inv, [Next]_vars PROVE OneOn'  OBVIOUS
<1>1. status \in [Bridges -> {"off", "on", "disposed"}] /\ OneOn
  BY DEF Inv, TypeOK, CursorOK
<1>2. CASE UNCHANGED status  BY <1>1, <1>2 DEF OneOn
<1>3. ASSUME NEW b \in Bridges, Crash(b) PROVE OneOn'
  BY <1>3 DEF Crash, Starts, OneOn
<1>4. ASSUME NEW b \in Bridges, NEW new \in Bridges, Reload(b, new) PROVE OneOn'
  BY <1>1, <1>4 DEF Reload, Starts, OneOn
<1> QED BY <1>2, <1>3, <1>4
  DEF Next, Revise, Decide, LogNoise, Grant, Publish, Push, RunDrifts, RunEnds, StartSync, SyncStep,
      Preflight, Reconcile, Fetch, FetchFails, ScanFiltered, ScanDecision, ScanOther, ScanNoop,
      PageEnds, Advance, WriteCursor, syncOnly, vars

\* A frame starts a run for its item, of a tracked card.
StartsRun(b, i) ==
  /\ Decided(i) /\ ~AnsweredAtOnce(b, i) /\ JoinOrStart(b, i)
  /\ UNCHANGED <<item, tracked, unlisted, log, status, restaged>>

\* What happens to the runs in a step.
LEMMA RunSteps ==
  ASSUME TypeOK, [Next]_vars
  PROVE  \/ UNCHANGED <<run, restaged, status>>
         \/ \E b \in Bridges, i \in DOMAIN log : StartsRun(b, i)
         \/ \E b \in Bridges, p \in Proposals : RunDrifts(b, p)
         \/ \E b \in Bridges, p \in Proposals, outcome \in Outcomes : RunEnds(b, p, outcome)
         \/ \E b \in Bridges : Crash(b) \/ \E new \in Bridges : Reload(b, new)
<1>1. CASE UNCHANGED <<runVars, status>>  BY <1>1 DEF runVars
<1>2. ASSUME NEW b \in Bridges, \/ Publish(b) \/ StartSync(b)
                                \/ (SyncStep(b) /\ ~ScanDecision(b))
      PROVE  UNCHANGED <<runVars, status>>
  BY <1>2 DEF Publish, StartSync, SyncStep, Preflight, Reconcile, Fetch, FetchFails, ScanFiltered,
     ScanOther, ScanNoop, PageEnds, Advance, WriteCursor, syncOnly
<1>3. ASSUME NEW b \in Bridges, ScanDecision(b) PROVE StartsRun(b, sync[b].at) /\ sync[b].at \in DOMAIN log
  <2>1. sync[b] \in SyncRecord /\ InLog(sync[b]) /\ DOMAIN log = 1..Len(log) /\ Len(log) \in Nat
    BY Positional DEF TypeOK, SyncOK
  <2> QED BY <1>3, <2>1
    DEF ScanDecision, InPage, InLog, SyncRecord, Positions, StartsRun, worldVars, ledgerVars
<1>4. ASSUME NEW b \in Bridges, NEW i \in DOMAIN log, Push(b, i) PROVE StartsRun(b, i)
  BY <1>4 DEF Push, StartsRun, worldVars, ledgerVars
<1>5. CASE UNCHANGED vars \/ Grant \/ (\E p \in Proposals : Revise(p) \/ Decide(p))
           \/ \E kind \in {"other", "filtered"} : LogNoise(kind)
  BY <1>1, <1>5 DEF vars, Grant, Revise, Decide, LogNoise
<1> QED BY <1>1, <1>2, <1>3, <1>4, <1>5 DEF Next

LEMMA RunsTrackedStep == Inv /\ [Next]_vars => RunsTracked'
<1> SUFFICES ASSUME Inv, [Next]_vars,
                    NEW b \in Bridges, NEW p \in Proposals,
                    status'[b] = "on", run'[b][p] # 0, <<b, p>> \notin restaged'
             PROVE  unlisted' \/ tracked'[p] # 0 \/ item'[p] = 0
  BY DEF RunsTracked
<1>1. /\ TypeOK /\ CardOrder /\ RunsTracked /\ OneOn
      /\ item \in [Proposals -> 0..MaxCard] /\ tracked \in [Proposals -> 0..MaxCard]
      /\ run \in [Bridges -> [Proposals -> Positions]]
      /\ status \in [Bridges -> {"off", "on", "disposed"}]
  BY DEF Inv, TypeOK, WorldOK, LedgerOK, RunOK, CursorOK
<1>2. ASSUME unlisted \/ tracked[p] # 0 \/ item[p] = 0,
             ~\E c \in Bridges, q \in Proposals, outcome \in Outcomes : RunEnds(c, q, outcome),
             ~\E c \in Bridges, q \in Proposals : RunDrifts(c, q),
             ~\E c \in Bridges : Crash(c)
      PROVE  unlisted' \/ tracked'[p] # 0 \/ item'[p] = 0
  <2>1. ASSUME NEW q \in Proposals, Revise(q) PROVE unlisted' \/ tracked'[p] # 0 \/ item'[p] = 0
    BY <1>1, <1>2, <2>1, CatchUpAssumption DEF Revise, ledgerVars
  <2>2. ASSUME NEW q \in Proposals, Decide(q) PROVE unlisted' \/ tracked'[p] # 0 \/ item'[p] = 0
    BY <1>2, <2>2 DEF Decide, ledgerVars
  <2>3. ASSUME NEW kind \in {"other", "filtered"}, LogNoise(kind)
        PROVE  unlisted' \/ tracked'[p] # 0 \/ item'[p] = 0
    BY <1>2, <2>3 DEF LogNoise, ledgerVars
  <2>4. ASSUME NEW c \in Bridges, NEW ledger \in [Proposals -> 0..MaxCard], Lists(c, ledger)
        PROVE  unlisted' \/ tracked'[p] # 0 \/ item'[p] = 0
    BY <1>1, <2>4, ListsOrder DEF AllTracked
  <2>5. CASE Quiet  BY <1>2, <2>5 DEF Quiet
  <2> QED BY <1>1, <1>2, <2>1, <2>2, <2>3, <2>4, <2>5, Split
<1>3. CASE UNCHANGED <<run, restaged, status>>
           /\ ~(\E c \in Bridges, q \in Proposals, outcome \in Outcomes : RunEnds(c, q, outcome))
           /\ ~(\E c \in Bridges, q \in Proposals : RunDrifts(c, q))
           /\ ~(\E c \in Bridges : Crash(c))
  BY <1>1, <1>2, <1>3 DEF RunsTracked
<1>4. ASSUME NEW c \in Bridges, NEW i \in DOMAIN log, StartsRun(c, i)
      PROVE  unlisted' \/ tracked'[p] # 0 \/ item'[p] = 0
  <2>1. log[i].p \in Proposals  BY <1>1, <1>4, RowsAre DEF StartsRun, TypeOK
  <2>2. CASE run[b][p] # 0
    BY <1>1, <1>4, <2>2 DEF RunsTracked, StartsRun
  <2>3. CASE run[b][p] = 0
    <3>1. c = b /\ log[i].p = p  BY <1>1, <1>4, <2>1, <2>3 DEF StartsRun, JoinOrStart
    <3> QED BY <1>4, <2>3, <3>1 DEF StartsRun, AnsweredAtOnce
  <2> QED BY <2>2, <2>3
<1>5. ASSUME NEW c \in Bridges, NEW q \in Proposals, RunDrifts(c, q)
      PROVE  unlisted' \/ tracked'[p] # 0 \/ item'[p] = 0
  <2> DEFINE ledger == [tracked EXCEPT ![q] = 0]
  <2>1. ledger \in [Proposals -> 0..MaxCard]  BY <1>1, CatchUpAssumption
  <2>2. Lists(c, ledger)  BY <1>5 DEF Lists, RunDrifts, worldVars
  <2> HIDE DEF ledger
  <2> QED BY <1>1, <2>1, <2>2, ListsOrder DEF AllTracked
<1>6. ASSUME NEW c \in Bridges, NEW q \in Proposals, NEW outcome \in Outcomes,
             RunEnds(c, q, outcome)
      PROVE  unlisted' \/ tracked'[p] # 0 \/ item'[p] = 0
  <2>1. run' = [run EXCEPT ![c][q] = 0] /\ restaged' = restaged \ {<<c, q>>} /\ status' = status
    BY <1>6 DEF RunEnds
  <2>2. run[b][p] # 0 /\ ~(c = b /\ q = p)  BY <1>1, <2>1
  <2>3. unlisted \/ tracked[p] # 0 \/ item[p] = 0  BY <1>1, <2>1, <2>2 DEF RunsTracked
  <2>4. \/ unlisted' \/ item'[p] = 0
        \/ unlisted' = unlisted /\ tracked'[p] = tracked[p] /\ item'[p] = item[p]
    BY <1>6, RunTakes
  <2> QED BY <2>3, <2>4
<1>7. ASSUME NEW c \in Bridges, Crash(c) PROVE unlisted' \/ tracked'[p] # 0 \/ item'[p] = 0
  BY <1>7 DEF Crash
<1>8. ASSUME NEW c \in Bridges, NEW new \in Bridges, Reload(c, new)
      PROVE  unlisted' \/ tracked'[p] # 0 \/ item'[p] = 0
  <2>1. UNCHANGED <<item, tracked, unlisted, run, restaged>>
    BY <1>8 DEF Reload, worldVars, ledgerVars, runVars
  <2>2. b # new  BY <1>8, <2>1 DEF Reload, Busy
  <2>3. status[b] = "on"  BY <1>1, <1>8, <2>2 DEF Reload, Starts
  <2> QED BY <1>1, <2>1, <2>3 DEF RunsTracked
<1> QED BY <1>1, <1>3, <1>4, <1>5, <1>6, <1>7, <1>8, RunSteps

LEMMA RunsRestagedStep == Inv /\ [Next]_vars => RunsRestaged'
<1> SUFFICES ASSUME Inv, [Next]_vars,
                    NEW b \in Bridges, NEW p \in Proposals, <<b, p>> \in restaged'
             PROVE  run'[b][p] # 0 /\ (item'[p] = 0 \/ log'[run'[b][p]].card < item'[p])
  BY DEF RunsRestaged
<1>1. /\ TypeOK /\ CardOrder /\ RunsRestaged /\ TypeOK' /\ Grows
      /\ item \in [Proposals -> 0..MaxCard] /\ tracked \in [Proposals -> 0..MaxCard]
      /\ shown \in [Proposals -> 0..MaxCard] /\ item' \in [Proposals -> 0..MaxCard]
      /\ run \in [Bridges -> [Proposals -> Positions]]
  BY TypeStep, StepGrows DEF Inv, TypeOK, WorldOK, LedgerOK, RunOK
<1>2. ASSUME run[b][p] # 0 PROVE run[b][p] \in DOMAIN log /\ Decided(run[b][p])
                                 /\ log[run[b][p]].p = p /\ log[run[b][p]].card \in 1..MaxCard
  BY <1>1, <1>2, RowsAre DEF TypeOK, RunOK
<1>3. ASSUME <<b, p>> \in restaged, run'[b][p] = run[b][p]
      PROVE  run'[b][p] # 0 /\ (item'[p] = 0 \/ log'[run'[b][p]].card < item'[p])
  <2>1. run[b][p] # 0 /\ (item[p] = 0 \/ log[run[b][p]].card < item[p])
    BY <1>1, <1>3 DEF RunsRestaged
  <2>2. log'[run[b][p]] = log[run[b][p]] /\ log[run[b][p]].card \in 1..MaxCard
    BY <1>1, <1>2, <2>1 DEF Grows, LogKept
  <2>3. item'[p] = item[p] \/ item'[p] = 0 \/ (item[p] # 0 /\ item[p] < item'[p])
    BY <1>1 DEF Grows, ItemsGrow
  <2>4. item[p] \in Int /\ item'[p] \in Int /\ log[run[b][p]].card \in Int
    BY <1>1, <2>2, CatchUpAssumption
  <2> QED BY <1>3, <2>1, <2>2, <2>3, <2>4
<1>4. CASE UNCHANGED <<run, restaged>>  BY <1>3, <1>4
<1>5. ASSUME NEW c \in Bridges, NEW i \in DOMAIN log, StartsRun(c, i)
      PROVE  run'[b][p] # 0 /\ (item'[p] = 0 \/ log'[run'[b][p]].card < item'[p])
  <2>1. <<b, p>> \in restaged /\ run[b][p] # 0  BY <1>1, <1>5 DEF StartsRun, RunsRestaged
  <2>2. run'[b][p] = run[b][p]  BY <1>1, <1>5, <2>1 DEF StartsRun, JoinOrStart
  <2> QED BY <1>3, <2>1, <2>2
<1>6. ASSUME NEW c \in Bridges, NEW q \in Proposals, RunDrifts(c, q)
      PROVE  run'[b][p] # 0 /\ (item'[p] = 0 \/ log'[run'[b][p]].card < item'[p])
  <2>1. UNCHANGED <<run, item, log>> /\ restaged' = restaged \cup {<<c, q>>}
    BY <1>6 DEF RunDrifts, worldVars
  <2>2. CASE <<b, p>> \in restaged  BY <1>3, <2>1, <2>2
  <2>3. CASE c = b /\ q = p
    <3> DEFINE card == log[run[b][p]].card
    <3>1. run[b][p] # 0 /\ (tracked[p] \notin {0, card} \/ item[p] \notin {0, card})
      BY <1>6, <2>3 DEF RunDrifts
    <3>2. card \in 1..MaxCard /\ card <= shown[p]  BY <1>1, <1>2, <3>1 DEF CardOrder
    <3>3. tracked[p] \in {0, shown[p]} /\ (item[p] = 0 \/ shown[p] <= item[p])
      BY <1>1 DEF CardOrder
    <3>4. item[p] \in Int /\ shown[p] \in Int /\ card \in Int
      BY <1>1, <3>2, CatchUpAssumption
    <3>5. item[p] = 0 \/ card < item[p]
      <4> HIDE DEF card
      <4> QED BY <3>1, <3>2, <3>3, <3>4
    <3> QED BY <2>1, <3>1, <3>5
  <2> QED BY <2>1, <2>2, <2>3
<1>7. ASSUME NEW c \in Bridges, NEW q \in Proposals, NEW outcome \in Outcomes,
             RunEnds(c, q, outcome)
      PROVE  run'[b][p] # 0 /\ (item'[p] = 0 \/ log'[run'[b][p]].card < item'[p])
  <2>1. run' = [run EXCEPT ![c][q] = 0] /\ restaged' = restaged \ {<<c, q>>}
    BY <1>7 DEF RunEnds
  <2>2. <<b, p>> \in restaged /\ ~(b = c /\ p = q)  BY <2>1
  <2>3. run'[b][p] = run[b][p]  BY <1>1, <2>1, <2>2
  <2> QED BY <1>3, <2>2, <2>3
<1>8. ASSUME NEW c \in Bridges, Crash(c) PROVE FALSE  BY <1>8 DEF Crash
<1>9. ASSUME NEW c \in Bridges, NEW new \in Bridges, Reload(c, new)
      PROVE  UNCHANGED <<run, restaged>>
  BY <1>9 DEF Reload, runVars
<1> QED BY <1>1, <1>4, <1>5, <1>6, <1>7, <1>8, <1>9, RunSteps

-----------------------------------------------------------------------------
(* What is read is spent. *)

\* The outcome that stops nothing is of a row with nothing left to decide.
LEMMA RunEndsSpent ==
  ASSUME Inv, TypeOK', Grows, NEW b \in Bridges, NEW p \in Proposals, NEW outcome \in Outcomes,
         RunEnds(b, p, outcome)
  PROVE  SyncsSpent'
<1>1. /\ TypeOK /\ SyncsSpent /\ log' = log /\ run[b][p] # 0
      /\ item \in [Proposals -> 0..MaxCard] /\ tracked \in [Proposals -> 0..MaxCard]
  BY DEF Inv, TypeOK, WorldOK, LedgerOK, RunEnds
<1>2. CASE ~Waits(b, p)
  BY <1>1, <1>2, SameSyncSpent DEF RunEnds, Answer
<1>3. CASE Waits(b, p)
  <2> DEFINE i == sync[b].at
             r == run[b][p]
  <2>1. /\ sync[b].st = "await" /\ i \in DOMAIN log /\ Decided(i) /\ log[i].p = p
        /\ r \in DOMAIN log /\ Decided(r) /\ log[r].p = p
        /\ Waiters(b, p) = {r, i}
    BY <1>1, <1>3 DEF Waits, Waiters, TypeOK, SyncOK, InLog, RunOK
  <2> HIDE DEF i, r
  <2>2. ASSUME outcome # "deferred"
        PROVE  item'[p] = 0 \/ log[i].card < item'[p] \/ i \in skipped'
    <3>1. CASE <<b, p>> \in restaged /\ RestagedEffect(b, p, outcome)
      <4>1. item'[p] = item[p] /\ (item[p] = 0 \/ log[r].card < item[p])
        BY <1>1, <3>1 DEF RestagedEffect, Inv, RunsRestaged, r
      <4>2. CASE log[i].card = log[r].card  BY <4>1, <4>2
      <4>3. CASE log[i].card # log[r].card  BY <2>1, <3>1, <4>3 DEF RestagedEffect, r
      <4> QED BY <4>2, <4>3
    <3>2. CASE <<b, p>> \notin restaged /\ RunEffect(b, p, outcome)
      <4>1. outcome = "noop" => item'[p] = 0 \/ Waiters(b, p) \subseteq skipped'  BY RunTakes
      <4> QED BY <1>1, <2>1, <2>2, <3>2, <4>1 DEF RunEffect
    <3> QED BY <3>1, <3>2 DEF RunEnds
  <2>3. outcome # "deferred" => RowSpentThen(i)
    BY <1>1, <2>1, <2>2 DEF RowSpentThen, Spent, Decided
  <2>4. sync' = [sync EXCEPT ![b] = Examined(sync[b], outcome # "deferred")]
    BY <1>3 DEF RunEnds, Answer
  <2> QED BY <1>1, <2>1, <2>3, <2>4, ExaminedSpent DEF i
<1> QED BY <1>2, <1>3

LEMMA SyncStepSpent ==
  ASSUME Inv, TypeOK', Grows, NEW b \in Bridges, StartSync(b) \/ SyncStep(b)
  PROVE  SyncsSpent'
<1>1. /\ TypeOK /\ SyncsSpent /\ CursorsSpent /\ SyncSpentThen(sync[b])
      /\ sync[b] \in SyncRecord /\ InLog(sync[b])
      /\ Len(log) \in Nat /\ DOMAIN log = 1..Len(log)
  BY SyncsStay, Positional DEF Inv, TypeOK, SyncOK
<1>2. CASE StartSync(b) \/ FetchFails(b) \/ \E entitled \in BOOLEAN : Preflight(b, entitled)
  <2>1. PICK st \in {"preflight", "save", "reconcile", "reconcileOnly"} :
          sync' = [sync EXCEPT ![b].st = st]
    BY <1>2 DEF StartSync, FetchFails, Preflight
  <2> QED BY <1>1, <2>1, PhaseSpent
<1>3. CASE Reconcile(b)
  <2> DEFINE s == Sync("fetch", cursor[b], cursor[b], FALSE, 0, 0, 0)
  <2>1. s.st = "fetch" /\ s.safe = cursor[b] /\ s.fetch = cursor[b]  BY DEF Sync
  <2>2. sync' = [sync EXCEPT ![b] = s] \/ sync' = [sync EXCEPT ![b] = NoSync]
    BY <1>3 DEF Reconcile
  <2> HIDE DEF s
  <2>3. SyncSpentThen(s) /\ SyncSpentThen(NoSync)
    BY <1>1, <2>1, CursorsStay, IdleSpent DEF SyncSpentThen
  <2> QED BY <1>1, <2>2, <2>3, OneSync
<1>4. CASE Fetch(b)
  <2> DEFINE end == IF sync[b].fetch + PageSize < Len(log) THEN sync[b].fetch + PageSize ELSE Len(log)
             s == Sync("scan", sync[b].fetch, sync[b].safe, sync[b].blocked,
                       sync[b].pages + 1, sync[b].fetch + 1, end)
  <2>1. /\ s.st = "scan" /\ s.safe = sync[b].safe /\ s.blocked = sync[b].blocked
        /\ s.at = sync[b].fetch + 1
    BY DEF Sync
  <2>2. sync' = [sync EXCEPT ![b] = s] /\ sync[b].st = "fetch"  BY <1>4 DEF Fetch
  <2> HIDE DEF s
  <2>3. s.at - 1 = sync[b].fetch  BY <1>1, <2>1 DEF SyncRecord, Positions
  <2>4. SyncSpentThen(s)  BY <1>1, <2>1, <2>2, <2>3 DEF SyncSpentThen
  <2> QED BY <1>1, <2>2, <2>4, OneSync
<1>5. CASE ScanFiltered(b)
  <2>1. sync[b].st = "scan" /\ sync[b].at \in DOMAIN log /\ ~Decided(sync[b].at) /\ log' = log
    BY <1>1, <1>5 DEF ScanFiltered, InPage, InLog, SyncRecord, Positions, worldVars, syncOnly, Decided
  <2>2. /\ \A c \in Bridges \ {b} : sync'[c] = sync[c]
        /\ sync'[b].st = "scan" /\ sync'[b].safe = sync[b].safe
        /\ sync'[b].blocked = sync[b].blocked /\ sync'[b].at = sync[b].at + 1
    <3>1. sync \in [Bridges -> SyncRecord] /\ sync' = [sync EXCEPT ![b].at = @ + 1]
      BY <1>5 DEF ScanFiltered, Inv, TypeOK, SyncOK
    <3> QED BY <2>1, <3>1 DEF SyncRecord, Positions
  <2>3. sync[b].at \in Nat /\ sync'[b].at - 1 = sync[b].at /\ DOMAIN log' \subseteq Nat
    BY <1>1, <2>1, <2>2
  <2>4. RowSpentThen(sync[b].at)  BY <2>1 DEF RowSpentThen, Spent, Decided
  <2>5. ~sync[b].blocked => SpentThen(sync[b].at)
    <3>1. ~sync[b].blocked => SpentThen(sync[b].at - 1)  BY <1>1, <2>1 DEF SyncSpentThen
    <3> QED BY <2>3, <2>4, <3>1, Upto
  <2>6. SyncSpentThen(sync'[b])  BY <1>1, <2>2, <2>3, <2>5 DEF SyncSpentThen
  <2>7. \A c \in Bridges \ {b} : SyncSpentThen(sync'[c])  BY <1>1, <2>2, SyncsStay
  <2> QED BY <2>6, <2>7, SyncsThen
<1>6. CASE ScanDecision(b)
  BY <1>1, <1>6, PhaseSpent DEF ScanDecision, InPage
<1>7. CASE ScanOther(b) \/ ScanNoop(b)
  <2>1. /\ sync[b].st = "scan" /\ sync[b].at \in DOMAIN log
        /\ sync' = [sync EXCEPT ![b] = Examined(sync[b], TRUE)] /\ log' = log /\ item' = item
    <3>1. InPage(b) /\ sync' = [sync EXCEPT ![b] = Examined(sync[b], TRUE)]
      BY <1>7 DEF ScanOther, ScanNoop
    <3>2. log' = log /\ item' = item
      BY <1>7 DEF ScanOther, ScanNoop, worldVars, syncOnly
    <3>3. sync[b].st = "scan" /\ sync[b].at \in DOMAIN log
      BY <1>1, <3>1 DEF InPage, InLog, SyncRecord, Positions
    <3> QED BY <3>1, <3>2, <3>3
  <2>2. CASE ScanOther(b)
    <3>1. RowSpentThen(sync[b].at)
      BY <2>1, <2>2 DEF ScanOther, RowSpentThen, Spent, Decided
    <3> QED BY <1>1, <2>1, <3>1, ExaminedSpent
  <2>3. CASE ScanNoop(b)
    <3> DEFINE i == sync[b].at
    <3>1. log[i].p \in Proposals /\ Decided(i)
      BY <1>1, <2>1, <2>3, RowsAre DEF ScanNoop, TypeOK
    <3>2. Reading(b)  BY <2>1 DEF Reading
    <3>3. i \in skipped' \/ item[log[i].p] = 0
      <4>1. CASE status[b] = "disposed" \/ unlisted
        BY <2>3, <4>1 DEF ScanNoop, SkippedAsGone
      <4>2. CASE status[b] # "disposed" /\ ~unlisted
        <5>1. tracked[log[i].p] = 0  BY <2>3, <4>2 DEF ScanNoop, AnsweredAtOnce
        <5>2. AllTracked  BY <3>2, <4>2 DEF Inv, Listed
        <5> QED BY <3>1, <5>1, <5>2 DEF AllTracked
      <4> QED BY <4>1, <4>2
    <3> HIDE DEF i
    <3>4. RowSpentThen(i)  BY <2>1, <3>1, <3>3 DEF RowSpentThen, Spent, Decided
    <3> QED BY <1>1, <2>1, <3>4, ExaminedSpent DEF i
  <2> QED BY <1>7, <2>2, <2>3
<1>8. CASE PageEnds(b)
  <2> DEFINE s == AfterPage(sync[b])
  <2>1. /\ s.st \in {"fetch", "save"} /\ s.fetch = sync[b].next /\ s.blocked = sync[b].blocked
        /\ s.safe = IF ~sync[b].blocked /\ sync[b].next > sync[b].safe
                    THEN sync[b].next ELSE sync[b].safe
    BY DEF AfterPage, PageRead, Sync
  <2>2. sync' = [sync EXCEPT ![b] = s] /\ sync[b].st = "scan" /\ sync[b].at > sync[b].next
    BY <1>8 DEF PageEnds
  <2> HIDE DEF s
  <2>3. ~sync[b].blocked => SpentThen(sync[b].next)
    <3>1. ~sync[b].blocked => SpentThen(sync[b].at - 1)  BY <1>1, <2>2 DEF SyncSpentThen
    <3>2. sync[b].at \in Nat /\ sync[b].next \in Nat  BY <1>1 DEF SyncRecord, Positions
    <3>3. DOMAIN log' = 1..Len(log') /\ Len(log') \in Nat  BY DEF TypeOK, WorldOK
    <3> QED BY <2>2, <3>1, <3>2, <3>3 DEF SpentThen
  <2>4. SyncSpentThen(s)  BY <1>1, <2>1, <2>3 DEF SyncSpentThen
  <2> QED BY <1>1, <2>2, <2>4, OneSync
<1>9. CASE Advance(b) \/ WriteCursor(b)
  <2>1. sync' = [sync EXCEPT ![b] = NoSync] \/ sync' = [sync EXCEPT ![b].st = "write"]
    BY <1>9 DEF Advance, WriteCursor
  <2>2. SyncSpentThen(NoSync)  BY <1>1, IdleSpent
  <2> QED BY <1>1, <2>1, <2>2, OneSync, PhaseSpent
<1> QED BY <1>2, <1>3, <1>4, <1>5, <1>6, <1>7, <1>8, <1>9 DEF SyncStep

LEMMA SpentStep == Inv /\ [Next]_vars => SyncsSpent' /\ CursorsSpent'
<1> SUFFICES ASSUME Inv, [Next]_vars PROVE SyncsSpent' /\ CursorsSpent'  OBVIOUS
<1>1. TypeOK /\ TypeOK' /\ Grows /\ SyncsSpent /\ CursorsSpent
  BY TypeStep, StepGrows DEF Inv
<1>2. CASE UNCHANGED <<sync, cursor, disk>>
  BY <1>1, <1>2, SameSyncSpent, SameCursors
<1>3. ASSUME NEW b \in Bridges, StartSync(b) \/ SyncStep(b), ~Advance(b), ~WriteCursor(b)
      PROVE  SyncsSpent' /\ CursorsSpent'
  <2>1. UNCHANGED <<cursor, disk>>
    BY <1>3 DEF StartSync, SyncStep, Preflight, Reconcile, Fetch, FetchFails, ScanFiltered,
       ScanDecision, ScanOther, ScanNoop, PageEnds, syncOnly
  <2> QED BY <1>1, <1>3, <2>1, SyncStepSpent, SameCursors
<1>4. ASSUME NEW b \in Bridges, Advance(b) \/ WriteCursor(b)
      PROVE  SyncsSpent' /\ CursorsSpent'
  <2>1. SyncsSpent'  BY <1>1, <1>4, SyncStepSpent DEF SyncStep
  <2>2. SpentThen(sync[b].safe)  BY <1>1, SyncsStay DEF SyncSpentThen
  <2>3. /\ disk' = disk \/ disk' = sync[b].safe
        /\ \A c \in Bridges : cursor'[c] = cursor[c] \/ cursor'[c] = sync[b].safe
    BY <1>1, <1>4 DEF Advance, WriteCursor, TypeOK, CursorOK
  <2>4. SpentThen(disk') /\ \A c \in Bridges : SpentThen(cursor'[c])
    BY <1>1, <2>2, <2>3, CursorsStay
  <2> QED BY <2>1, <2>4, CursorsThen
<1>5. ASSUME NEW b \in Bridges, NEW p \in Proposals, NEW outcome \in Outcomes,
             RunEnds(b, p, outcome)
      PROVE  SyncsSpent' /\ CursorsSpent'
  <2>1. UNCHANGED <<cursor, disk>>  BY <1>5 DEF RunEnds
  <2> QED BY <1>1, <1>5, <2>1, RunEndsSpent, SameCursors
<1>6. ASSUME NEW b \in Bridges, \/ Crash(b) \/ \E new \in Bridges : Reload(b, new)
      PROVE  SyncsSpent' /\ CursorsSpent'
  <2>1. /\ disk' = disk
        /\ \A c \in Bridges : cursor'[c] \in {cursor[c], disk, 0}
    BY <1>1, <1>6 DEF Crash, Reload, Starts, TypeOK, CursorOK
  <2>2. CursorsSpent'
    <3>1. SpentThen(disk') /\ \A c \in Bridges : SpentThen(cursor'[c])
      BY <1>1, <2>1, CursorsStay
    <3> QED BY <3>1, CursorsThen
  <2>3. CASE Crash(b)
    <3>1. \A c \in Bridges : sync'[c] = NoSync  BY <2>3 DEF Crash
    <3> QED BY <1>1, <2>2, <3>1, IdleSpent, SyncsThen
  <2>4. CASE \E new \in Bridges : Reload(b, new)
    <3>1. sync' = sync  BY <2>4 DEF Reload
    <3> QED BY <1>1, <2>2, <3>1, SameSyncSpent
  <2> QED BY <1>6, <2>3, <2>4
<1> QED BY <1>2, <1>3, <1>4, <1>5, <1>6
  DEF Next, Revise, Decide, LogNoise, Grant, Publish, Push, RunDrifts, vars

-----------------------------------------------------------------------------

LEMMA InvInit == Init => Inv
<1> SUFFICES ASSUME Init PROVE Inv  OBVIOUS
<1>1. TypeOK /\ log = <<>> /\ DOMAIN log = {}  BY TypeInit DEF Init
<1>2. CursorsSpent /\ SyncsSpent
  BY <1>1, IdleSync DEF Init, CursorsSpent, SyncsSpent, SyncSpent, SpentTo
<1>3. CardOrder
  <2>1. \A p \in Proposals : tracked[p] = 0 /\ shown[p] = 0 /\ item[p] = 1  BY DEF Init
  <2> QED BY <1>1, <2>1 DEF CardOrder
<1>4. Listed  BY IdleSync DEF Init, Listed, Reading
<1>5. RunsTracked /\ RunsRestaged /\ OneOn
  BY DEF Init, RunsTracked, RunsRestaged, OneOn
<1> QED BY <1>1, <1>2, <1>3, <1>4, <1>5 DEF Inv

LEMMA InvStep == Inv /\ [Next]_vars => Inv'
  BY TypeStep, SpentStep, CardOrderStep, ListedStep, RunsTrackedStep, RunsRestagedStep, OneOnStep
  DEF Inv

LEMMA InvCovers == Inv => CursorCovers
<1> SUFFICES ASSUME Inv, NEW i \in 1..Len(log), i <= disk \/ \E b \in Bridges : i <= cursor[b],
                    Decided(i)
             PROVE  item[log[i].p] # log[i].card \/ i \in skipped
  BY DEF CursorCovers, Covered
<1>1. WorldOK /\ i \in DOMAIN log  BY Positional DEF Inv, TypeOK
<1>2. Spent(i)  BY <1>1 DEF Inv, CursorsSpent, SpentTo
<1>3. log[i].p \in Proposals /\ log[i].card \in 1..MaxCard  BY <1>1, RowsAre
<1>4. item[log[i].p] \in Int /\ log[i].card \in Int /\ log[i].card # 0
  BY <1>1, <1>3, CatchUpAssumption DEF WorldOK
<1> QED BY <1>2, <1>4 DEF Spent

\* What a cursor has passed, in memory or in the file, is settled, superseded or
\* was answered without effect: no crash, lost file, failed read or second bridge
\* makes runApprovalsCatchUp lose a decision, for any log and any page size.
THEOREM CursorNeverLosesADecision == Spec => []CursorCovers
<1> QED BY InvInit, InvStep, InvCovers, PTL DEF Spec
===============================================================================
