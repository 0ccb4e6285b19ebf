--------------------------- MODULE HorizonSyncProofs ---------------------------
(***************************************************************************)
(* Proofs about HorizonSync: nothing that was planned is lost, and no       *)
(* declaration or completion is told twice, for any number of items,       *)
(* versions, edits and restarts.                                           *)
(*                                                                         *)
(* The argument is a ledger.  What the cursor (with an outbox, its target) *)
(* takes for told is what the envelopes saved so far say, and those are    *)
(* not younger than its time.  A plan is only what the ledger does not     *)
(* have, so it repeats nothing; and it is made only when no outbox would   *)
(* be overwritten.                                                         *)
(***************************************************************************)
EXTENDS HorizonSync, SequenceTheorems, FiniteSetTheorems, TLAPS

Steps == {"idle", "drain", "posted", "receipt", "ack", "diff", "fetch", "reread", "compare", "save"}
Replies == {"none", "ack", "transient", "400", "401", "422"}
Book == [kind : 0..2, version : 0..MaxVersion, finished : BOOLEAN]
Batch == [requests : Seq(Requests), steps : [Items -> Book], at : Nat, on : BOOLEAN]

Scalars ==
  /\ file \in [Items -> ItemRecord] /\ items \in [Items -> ItemRecord]
  /\ raw \in [Items -> ItemRecord]
  /\ own \in [Items -> KernelStates] /\ kernel \in [Items -> KernelStates]
  /\ pc \in Steps /\ reply \in Replies
  /\ stopped \in BOOLEAN /\ aged \in BOOLEAN /\ byHand \subseteq Items
Saved == cursor \in [lastAt : Nat, steps : [Items -> Book], pending : Batch]
History ==
  /\ planned \subseteq Requests /\ wire \subseteq planned /\ refused \subseteq planned
  /\ applied \in Seq(Requests) /\ Applied \subseteq planned
  /\ DeadRequests \subseteq planned /\ Outbox \subseteq planned

\* Every envelope planned is somewhere.
Custody == \A r \in planned : r \in Applied \cup DeadRequests \cup Outbox
\* Where the tick is, and what it may assume there.
Place ==
  /\ pc \in {"posted", "receipt", "ack"} => cursor.pending.on /\ cursor.pending.requests # <<>>
  /\ pc = "posted" /\ reply = "ack" => Head1 \in Applied
  /\ pc = "ack" => Head1 \in Applied \cup DeadRequests
  /\ pc = "diff" => ~cursor.pending.on

\* The target of the outbox, or the cursor without one.
Booked == IF cursor.pending.on THEN cursor.pending.steps ELSE cursor.steps
Now == IF cursor.pending.on THEN cursor.pending.at ELSE cursor.lastAt
\* What the envelopes in P say of item i, up to time at.
Says(i, P, told) ==
  /\ told.kind = 0 => \A r \in P : r.item # i
  /\ told.kind # 0 => /\ \E r \in P : r.item = i /\ r.type = "queued"
                      /\ \E m \in P : /\ m.item = i /\ m.version = told.version
                                      /\ \A r \in P : r.item = i =>
                                           /\ r.at <= m.at
                                           /\ r.at = m.at => r.version = m.version
  /\ told.finished <=> \E r \in P : r.item = i /\ r.type = "finished"
Ledger ==
  /\ \A r \in planned : r.at <= Now
  /\ \A i \in Items : Says(i, planned, Booked[i])
\* No fact but an update is planned twice.
Once == \A r, s \in planned : r.item = s.item /\ r.type = s.type /\ r.type # "updated" => r = s

HInv == Scalars /\ Saved /\ History /\ Custody /\ Place /\ Ledger /\ Once

-----------------------------------------------------------------------------
(* The invariant holds at the start, and it says what was to be shown. *)

LEMMA HorizonInit == Init => HInv
<1> SUFFICES ASSUME Init PROVE HInv
  OBVIOUS
<1> USE HorizonAssumption DEF Init
<1>1. NoFile \in [Items -> ItemRecord]  BY DEF NoFile, Item, ItemRecord, KernelStates
<1>2. NoSteps \in [Items -> KernelStates]  BY DEF NoSteps, KernelStates
<1>3. Scalars
  <2>1. stopped \in BOOLEAN /\ aged \in BOOLEAN  BY Zenon
  <2> QED BY <1>1, <1>2, <2>1 DEF Scalars, Steps, Replies
<1>4. Untold \in Book  BY DEF Untold, Book
<1>5. [i \in Items |-> Untold] \in [Items -> Book]  BY <1>4
<1>6. Empty \in Batch  BY <1>5 DEF Empty, Batch
<1>7. Saved  BY <1>5, <1>6 DEF Saved
<1>8. cursor.pending = Empty /\ ~cursor.pending.on  BY DEF Empty
<1>9. Applied = {} /\ DeadRequests = {} /\ Outbox = {}
  BY <1>8, EmptySeq DEF Applied, DeadRequests, Outbox
<1>10. History /\ Custody  BY <1>9 DEF History, Custody
<1>11. Place  BY DEF Place
<1>12. Ledger /\ Once
  <2>1. Booked = [i \in Items |-> Untold]  BY <1>8 DEF Booked
  <2> QED BY <2>1 DEF Ledger, Once, Says, Untold
<1> QED BY <1>3, <1>7, <1>10, <1>11, <1>12 DEF HInv

LEMMA HorizonTypes == HInv => TypeOK
<1> SUFFICES ASSUME HInv PROVE TypeOK
  OBVIOUS
<1>1. cursor.lastAt \in Nat /\ cursor.pending.at \in Nat /\ cursor.pending.on \in BOOLEAN
  BY DEF HInv, Saved, Batch
<1>2. \A i \in Items : cursor.steps[i] \in Book /\ cursor.pending.steps[i] \in Book
  BY DEF HInv, Saved, Batch
<1> QED BY <1>1, <1>2 DEF HInv, Scalars, History, TypeOK, Book, Steps, Replies

LEMMA LedgerTells == HInv => CursorIsReported
<1> SUFFICES ASSUME HInv PROVE CursorIsReported
  OBVIOUS
<1>1. \A r \in planned : r \in Applied \cup DeadRequests \cup Outbox  BY DEF HInv, Custody
<1>2. ASSUME ~cursor.pending.on, NEW i \in Items
      PROVE  LET told == cursor.steps[i] IN
             /\ (told.kind # 0) <=> (\E r \in Told(i) : r.type = "queued")
             /\ told.kind # 0 => told.version = Latest(i).version
             /\ told.finished <=> (\E r \in Told(i) : r.type = "finished")
  <2> DEFINE told == cursor.steps[i]
  <2>1. Says(i, planned, told)  BY <1>2 DEF HInv, Ledger, Booked
  <2>2. ASSUME told.kind # 0 PROVE told.version = Latest(i).version
    <3>1. PICK m \in planned :
            /\ m.item = i /\ m.version = told.version
            /\ \A r \in planned : r.item = i => r.at <= m.at /\ (r.at = m.at => r.version = m.version)
      BY <2>1, <2>2 DEF Says
    <3>2. m \in Told(i) /\ \A s \in Told(i) : m.at >= s.at
      BY <3>1 DEF HInv, History, Requests, Told
    <3>3. Latest(i) \in Told(i) /\ \A s \in Told(i) : Latest(i).at >= s.at
      BY <3>2 DEF Latest
    <3>4. Latest(i).at = m.at
      BY <3>1, <3>2, <3>3 DEF HInv, History, Requests, Told
    <3> QED BY <3>1, <3>3, <3>4 DEF Told
  <2> QED BY <2>1, <2>2 DEF Says, Told
<1> QED BY <1>1, <1>2 DEF CursorIsReported

LEMMA OnceIsFactOnce == HInv => FactOnce
BY DEF HInv, History, Once, FactOnce

-----------------------------------------------------------------------------
(* The steps that do not plan. *)

LEMMA AppendSet ==
  ASSUME NEW S, NEW q \in Seq(S), NEW x \in S
  PROVE  /\ Append(q, x) \in Seq(S)
         /\ {Append(q, x)[k] : k \in 1..Len(Append(q, x))} = {q[k] : k \in 1..Len(q)} \cup {x}
<1>1. /\ Append(q, x) \in Seq(S) /\ Len(Append(q, x)) = Len(q) + 1
      /\ Append(q, x)[Len(q) + 1] = x
      /\ \A k \in 1..Len(q) : Append(q, x)[k] = q[k]
  BY AppendProperties
<1>2. Len(q) \in Nat  BY LenProperties
<1>3. 1..(Len(q) + 1) = 1..Len(q) \cup {Len(q) + 1}  BY <1>2
<1> QED BY <1>1, <1>2, <1>3

LEMMA TailSet ==
  ASSUME NEW S, NEW q \in Seq(S), q # <<>>
  PROVE  ToSet(q) = ToSet(Tail(q)) \cup {Head(q)}
<1>1. ASSUME NEW x \in ToSet(q) PROVE x \in ToSet(Tail(q)) \cup {Head(q)}
  <2>1. PICK i \in 1..Len(q) : x = q[i]  BY LenProperties DEF ToSet
  <2>2. CASE i = 1  BY <2>1, <2>2
  <2>3. CASE i # 1
    <3>1. i - 1 \in 1..Len(Tail(q)) /\ Tail(q)[i - 1] = q[i]
      BY <2>1, <2>3, HeadTailProperties
    <3> QED BY <3>1, <2>1, HeadTailProperties, LenProperties DEF ToSet
  <2> QED BY <2>2, <2>3
<1>2. ASSUME NEW x \in ToSet(Tail(q)) PROVE x \in ToSet(q)
  <2>1. PICK i \in 1..Len(Tail(q)) : x = Tail(q)[i]
    BY HeadTailProperties, LenProperties DEF ToSet
  <2>2. i + 1 \in 1..Len(q) /\ q[i + 1] = x  BY <2>1, HeadTailProperties
  <2> QED BY <2>2, LenProperties DEF ToSet
<1>3. Head(q) \in ToSet(q)  BY HeadTailProperties, LenProperties, EmptySeq DEF ToSet
<1> QED BY <1>1, <1>2, <1>3

\* What is not changed says the same.
LEMMA BooksUnmoved ==
  ASSUME HInv, UNCHANGED <<cursor, planned>>
  PROVE  Saved' /\ Ledger' /\ Once'
BY DEF HInv, Saved, Ledger, Booked, Now, Once

LEMMA EnvelopesUnmoved ==
  ASSUME HInv, UNCHANGED <<cursor, planned, dead, remote>>
  PROVE  History' /\ Custody'
BY DEF HInv, History, Custody, Applied, DeadRequests, Outbox, remote

LEMMA TickKeeps == ASSUME HInv, Tick PROVE HInv'
<1>1. Scalars'
  BY DEF HInv, Scalars, Steps, Replies, Tick, tick, remote, local, Goto, Failed, Idle
<1>2. Saved' /\ Ledger' /\ Once'  BY BooksUnmoved DEF Tick
<1>3. History' /\ Custody'  BY EnvelopesUnmoved DEF Tick, remote
<1>4. Place'
  BY DEF HInv, Place, Head1, Applied, DeadRequests, Tick, tick, remote, local, Goto, Failed, Idle
<1> QED BY <1>1, <1>2, <1>3, <1>4 DEF HInv

LEMMA DrainedKeeps == ASSUME HInv, Drained PROVE HInv'
<1>1. Scalars'
  BY DEF HInv, Scalars, Steps, Replies, Drained, tick, remote, local, Goto, Failed, Idle
<1>2. Saved' /\ Ledger' /\ Once'  BY BooksUnmoved DEF Drained
<1>3. History' /\ Custody'  BY EnvelopesUnmoved DEF Drained, remote
<1>4. Place'
  BY DEF HInv, Place, Head1, Applied, DeadRequests, Drained, tick, remote, local, Goto, Failed,
     Idle
<1> QED BY <1>1, <1>2, <1>3, <1>4 DEF HInv

LEMMA PostKeeps == ASSUME HInv, Post PROVE HInv'
<1>1. Scalars'
  BY DEF HInv, Scalars, Steps, Replies, Post, tick, remote, local, Goto, Failed, Idle, Draining
<1>2. Saved' /\ Ledger' /\ Once'  BY BooksUnmoved DEF Post
<1>3. History' /\ Custody'
  <2>1. Head1 \in Outbox
    BY HeadTailProperties, LenProperties DEF HInv, Saved, Batch, Post, Draining, Head1, Outbox, ToSet
  <2> QED BY <2>1 DEF HInv, History, Custody, Applied, DeadRequests, Outbox, Post
<1>4. Place'
  BY DEF HInv, Place, Head1, Applied, DeadRequests, Post, tick, remote, local, Goto, Failed, Idle,
     Draining
<1> QED BY <1>1, <1>2, <1>3, <1>4 DEF HInv

LEMMA ReconcileKeeps == ASSUME HInv, Reconcile PROVE HInv'
<1>1. Scalars'
  BY DEF HInv, Scalars, Steps, Replies, Reconcile, tick, remote, local, Goto, Failed, Idle,
     Draining
<1>2. Saved' /\ Ledger' /\ Once'  BY BooksUnmoved DEF Reconcile
<1>3. History' /\ Custody'  BY EnvelopesUnmoved DEF Reconcile, remote
<1>4. Place'
  BY DEF HInv, Place, Head1, Applied, DeadRequests, Reconcile, tick, remote, local, Goto, Failed,
     Idle, Draining
<1> QED BY <1>1, <1>2, <1>3, <1>4 DEF HInv

LEMMA DeliverKeeps == ASSUME HInv, Deliver PROVE HInv'
<1>1. Scalars'
  BY DEF HInv, Scalars, Steps, Replies, Deliver, tick, remote, local, Goto, Failed, Idle, Acks,
     Refusal
<1>2. Saved' /\ Ledger' /\ Once'  BY BooksUnmoved DEF Deliver
<1>3. History' /\ Custody'
  <2>1. Head1 \in planned
    <3>1. Head1 \in Outbox
      BY HeadTailProperties, LenProperties DEF HInv, Saved, Batch, Deliver, Place, Head1, Outbox, ToSet
    <3> QED BY <3>1 DEF HInv, History
  <2>2. DeadRequests' \in {DeadRequests, DeadRequests \cup {Head1}}
    BY DEF Deliver, DeadRequests
  <2> QED BY <2>1, <2>2 DEF HInv, History, Custody, Applied, Outbox, Deliver, remote
<1>4. Place'
  BY DEF HInv, Place, Head1, Applied, DeadRequests, Deliver, tick, remote, local, Goto, Failed,
     Idle, Acks, Refusal
<1> QED BY <1>1, <1>2, <1>3, <1>4 DEF HInv

LEMMA PostFailsKeeps == ASSUME HInv, NEW b \in BOOLEAN, PostFails(b) PROVE HInv'
<1>1. Scalars'
  BY DEF HInv, Scalars, Steps, Replies, PostFails, tick, remote, local, Goto, Failed, Idle
<1>2. Saved' /\ Ledger' /\ Once'  BY BooksUnmoved DEF PostFails
<1>3. History' /\ Custody'
  BY DEF HInv, History, Custody, Applied, DeadRequests, Outbox, PostFails
<1>4. Place'
  BY DEF HInv, Place, Head1, Applied, DeadRequests, PostFails, tick, remote, local, Goto, Failed,
     Idle
<1> QED BY <1>1, <1>2, <1>3, <1>4 DEF HInv

LEMMA ReceiptKeeps == ASSUME HInv, NEW b \in BOOLEAN, Receipt(b) PROVE HInv'
<1>1. Scalars'
  BY DEF HInv, Scalars, Steps, Replies, Receipt, tick, remote, local, Goto, Failed, Idle
<1>2. Saved' /\ Ledger' /\ Once'  BY BooksUnmoved DEF Receipt
<1>3. History' /\ Custody'  BY EnvelopesUnmoved DEF Receipt, remote
<1>4. Place'
  BY DEF HInv, Place, Head1, Applied, DeadRequests, Receipt, tick, remote, local, Goto, Failed,
     Idle
<1> QED BY <1>1, <1>2, <1>3, <1>4 DEF HInv

LEMMA AcknowledgeKeeps == ASSUME HInv, NEW b \in BOOLEAN, Acknowledge(b) PROVE HInv'
<1>a. /\ cursor.pending.on /\ cursor.pending.requests \in Seq(Requests)
      /\ cursor.pending.requests # <<>>
  BY DEF HInv, Saved, Batch, Place, Acknowledge
<1>b. cursor' = cursor \/ cursor' = [cursor EXCEPT !.pending.requests = Tail(@)]
  BY DEF Acknowledge
<1>c. ASSUME cursor' = [cursor EXCEPT !.pending.requests = Tail(@)]
      PROVE  /\ cursor'.pending.requests = Tail(cursor.pending.requests)
             /\ cursor'.pending.on = cursor.pending.on
             /\ cursor'.pending.steps = cursor.pending.steps
             /\ cursor'.pending.at = cursor.pending.at
             /\ Saved'
  <2>1. Tail(cursor.pending.requests) \in Seq(Requests)  BY <1>a, HeadTailProperties
  <2> QED BY <1>c, <2>1 DEF HInv, Saved, Batch
<1>1. Scalars'
  BY DEF HInv, Scalars, Steps, Replies, Acknowledge, tick, remote, local, Goto, Failed, Idle
<1>2. Saved' /\ Ledger' /\ Once'
  <2>1. CASE cursor' = cursor  BY <2>1, BooksUnmoved DEF Acknowledge
  <2>2. CASE cursor' = [cursor EXCEPT !.pending.requests = Tail(@)]
    <3>1. Booked' = Booked /\ Now' = Now  BY <1>a, <1>c, <2>2 DEF Booked, Now
    <3> QED BY <1>c, <2>2, <3>1 DEF HInv, Ledger, Once, Acknowledge
  <2> QED BY <1>b, <2>1, <2>2
<1>3. History' /\ Custody'
  <2>1. CASE cursor' = cursor  BY <2>1, EnvelopesUnmoved DEF Acknowledge
  <2>2. CASE cursor' = [cursor EXCEPT !.pending.requests = Tail(@)]
    <3>1. ToSet(cursor.pending.requests) = ToSet(Tail(cursor.pending.requests)) \cup {Head1}
      BY <1>a, TailSet DEF Head1
    <3>2. Outbox = Outbox' \cup {Head1}  BY <1>a, <1>c, <2>2, <3>1 DEF Outbox
    <3>3. Head1 \in Applied \cup DeadRequests  BY DEF HInv, Place, Acknowledge
    <3> QED BY <3>2, <3>3 DEF HInv, History, Custody, Applied, DeadRequests, Acknowledge, remote
  <2> QED BY <1>b, <2>1, <2>2
<1>4. Place'
  BY DEF HInv, Place, Head1, Applied, DeadRequests, Acknowledge, tick, remote, local, Goto,
     Failed, Idle
<1> QED BY <1>1, <1>2, <1>3, <1>4 DEF HInv

LEMMA CompleteKeeps == ASSUME HInv, Complete PROVE HInv'
<1>a. /\ cursor.pending.on /\ cursor.pending.requests = <<>>
      /\ cursor' = [lastAt |-> cursor.pending.at, steps |-> cursor.pending.steps, pending |-> Empty]
  BY DEF Complete, Draining, Completed
<1>b. Empty \in Batch
  <2>1. Untold \in Book  BY HorizonAssumption DEF Untold, Book
  <2> QED BY <2>1 DEF Empty, Batch
<1>c. ~cursor'.pending.on  BY <1>a DEF Empty
<1>1. Scalars'
  BY DEF HInv, Scalars, Steps, Replies, Complete, tick, remote, local, Goto, Failed, Idle,
     Draining
<1>2. Saved' /\ Ledger' /\ Once'
  <2>1. Saved'  BY <1>a, <1>b DEF HInv, Saved, Batch
  <2>2. Booked' = Booked /\ Now' = Now  BY <1>a, <1>c DEF Booked, Now
  <2> QED BY <2>1, <2>2 DEF HInv, Ledger, Once, Complete
<1>3. History' /\ Custody'
  <2>1. Outbox = {} /\ Outbox' = {}  BY <1>a, <1>c, EmptySeq DEF Outbox, ToSet
  <2> QED BY <2>1 DEF HInv, History, Custody, Applied, DeadRequests, Complete, remote
<1>4. Place'
  BY DEF HInv, Place, Head1, Applied, DeadRequests, Complete, tick, remote, local, Goto, Failed,
     Idle, Draining
<1> QED BY <1>1, <1>2, <1>3, <1>4 DEF HInv

LEMMA Blank == NoFile \in [Items -> ItemRecord] /\ NoSteps \in [Items -> KernelStates]
BY HorizonAssumption DEF NoFile, NoSteps, Item, ItemRecord, KernelStates

LEMMA ProjectedTyped == HInv => Projected \in [Items -> ItemRecord]
<1> SUFFICES ASSUME HInv PROVE Projected \in [Items -> ItemRecord]
  OBVIOUS
<1>1. ASSUME NEW i \in Items PROVE Project(raw[i], own[i]) \in ItemRecord
  <2>1. raw[i] \in ItemRecord /\ own[i] \in KernelStates  BY DEF HInv, Scalars
  <2>2. raw[i].kind \in {1, 2} /\ raw[i].version \in 0..MaxVersion /\ raw[i].zone \in {"near", "done"}
    BY <2>1 DEF ItemRecord
  <2>3. Item(raw[i].kind, raw[i].version, "done", "exited") \in ItemRecord
    BY <2>2 DEF Item, ItemRecord, KernelStates
  <2>4. own[i] # "none" => Item(raw[i].kind, raw[i].version, raw[i].zone, own[i]) \in ItemRecord
    BY <2>1, <2>2 DEF Item, ItemRecord
  <2> QED BY <2>1, <2>3, <2>4 DEF Project
<1> QED BY <1>1 DEF Projected

LEMMA FetchKeeps == ASSUME HInv, Fetch PROVE HInv'
<1>1. Scalars'
  BY Blank, ProjectedTyped DEF HInv, Scalars, Steps, Replies, Fetch, tick, remote, local, Goto,
     Failed, Idle
<1>2. Saved' /\ Ledger' /\ Once'  BY BooksUnmoved DEF Fetch
<1>3. History' /\ Custody'  BY EnvelopesUnmoved DEF Fetch, remote
<1>4. Place'
  BY DEF HInv, Place, Head1, Applied, DeadRequests, Fetch, tick, remote, local, Goto, Failed, Idle
<1> QED BY <1>1, <1>2, <1>3, <1>4 DEF HInv

LEMMA FetchFailsKeeps == ASSUME HInv, FetchFails PROVE HInv'
<1>1. Scalars'
  BY Blank, ProjectedTyped DEF HInv, Scalars, Steps, Replies, FetchFails, tick, remote, local,
     Goto, Failed, Idle
<1>2. Saved' /\ Ledger' /\ Once'  BY BooksUnmoved DEF FetchFails
<1>3. History' /\ Custody'  BY EnvelopesUnmoved DEF FetchFails, remote
<1>4. Place'
  BY DEF HInv, Place, Head1, Applied, DeadRequests, FetchFails, tick, remote, local, Goto, Failed,
     Idle
<1> QED BY <1>1, <1>2, <1>3, <1>4 DEF HInv

LEMMA RereadKeeps == ASSUME HInv, Reread PROVE HInv'
<1>1. Scalars'
  BY Blank, ProjectedTyped DEF HInv, Scalars, Steps, Replies, Reread, tick, remote, local, Goto,
     Failed, Idle
<1>2. Saved' /\ Ledger' /\ Once'  BY BooksUnmoved DEF Reread
<1>3. History' /\ Custody'  BY EnvelopesUnmoved DEF Reread, remote
<1>4. Place'
  BY DEF HInv, Place, Head1, Applied, DeadRequests, Reread, tick, remote, local, Goto, Failed,
     Idle
<1> QED BY <1>1, <1>2, <1>3, <1>4 DEF HInv

LEMMA CompareKeeps == ASSUME HInv, Compare PROVE HInv'
<1>1. Scalars'
  BY Blank, ProjectedTyped DEF HInv, Scalars, Steps, Replies, Compare, tick, remote, local, Goto,
     Failed, Idle
<1>2. Saved' /\ Ledger' /\ Once'  BY BooksUnmoved DEF Compare
<1>3. History' /\ Custody'  BY EnvelopesUnmoved DEF Compare, remote
<1>4. Place'
  BY DEF HInv, Place, Head1, Applied, DeadRequests, Compare, tick, remote, local, Goto, Failed,
     Idle
<1> QED BY <1>1, <1>2, <1>3, <1>4 DEF HInv

LEMMA SaveKeeps == ASSUME HInv, Save PROVE HInv'
<1>1. Scalars'
  BY Blank, ProjectedTyped DEF HInv, Scalars, Steps, Replies, Save, tick, remote, local, Goto,
     Failed, Idle
<1>2. Saved' /\ Ledger' /\ Once'  BY BooksUnmoved DEF Save
<1>3. History' /\ Custody'  BY EnvelopesUnmoved DEF Save, remote
<1>4. Place'
  BY DEF HInv, Place, Head1, Applied, DeadRequests, Save, tick, remote, local, Goto, Failed, Idle
<1> QED BY <1>1, <1>2, <1>3, <1>4 DEF HInv

LEMMA EditKeeps == ASSUME HInv, NEW i \in Items, NEW x \in ItemRecord, Edit(i, x) PROVE HInv'
<1>1. Scalars'
  BY DEF HInv, Scalars, Steps, Replies, Edit, tick, remote, local, Goto, Failed, Idle
<1>2. Saved' /\ Ledger' /\ Once'  BY BooksUnmoved DEF Edit
<1>3. History' /\ Custody'  BY EnvelopesUnmoved DEF Edit, remote
<1>4. Place'
  BY DEF HInv, Place, Head1, Applied, DeadRequests, Edit, tick, remote, local, Goto, Failed, Idle
<1> QED BY <1>1, <1>2, <1>3, <1>4 DEF HInv

LEMMA AgeKeeps == ASSUME HInv, Age PROVE HInv'
<1>1. Scalars'  BY DEF HInv, Scalars, Steps, Replies, Age, tick, remote, local, Goto, Failed, Idle
<1>2. Saved' /\ Ledger' /\ Once'  BY BooksUnmoved DEF Age
<1>3. History' /\ Custody'  BY EnvelopesUnmoved DEF Age, remote
<1>4. Place'
  BY DEF HInv, Place, Head1, Applied, DeadRequests, Age, tick, remote, local, Goto, Failed, Idle
<1> QED BY <1>1, <1>2, <1>3, <1>4 DEF HInv

LEMMA KernelTakesKeeps == ASSUME HInv, NEW r \in wire, KernelTakes(r) PROVE HInv'
<1>a. pc' = pc /\ cursor' = cursor /\ dead' = dead /\ planned' = planned  BY DEF KernelTakes
<1>b. /\ applied' \in {applied, Append(applied, r)}
      /\ refused' \in {refused, refused \cup {r}}
      /\ reply' # reply => pc = "posted" /\ reply = "none" /\ r = Head1
      /\ reply' \in Replies
  BY DEF HInv, Scalars, Replies, KernelTakes, Judge
<1>c. applied \in Seq(Requests) /\ r \in planned /\ r \in Requests  BY DEF HInv, History
<1>d. applied' \in Seq(Requests) /\ (Applied' = Applied \/ Applied' = Applied \cup {r})
  BY <1>b, <1>c, AppendSet DEF Applied
<1>e. (reply' = "ack" /\ reply' # reply) => r \in Applied'
  <2> SUFFICES ASSUME reply' = "ack", reply' # reply PROVE r \in Applied'
    OBVIOUS
  <2>1. r \in Applied \/ applied' = Append(applied, r)  BY DEF KernelTakes, Judge
  <2>2. CASE applied' = Append(applied, r)  BY <1>c, <2>2, AppendSet DEF Applied
  <2> QED BY <2>1, <2>2, <1>d
<1>1. Scalars'
  <2>1. kernel' \in [Items -> KernelStates]
    <3>1. \A i \in Items : kernel'[i] \in KernelStates  BY DEF HInv, Scalars, KernelTakes, KernelStates
    <3> QED BY <3>1 DEF KernelTakes
  <2> QED BY <1>a, <1>b, <2>1 DEF HInv, Scalars, KernelTakes, local
<1>2. Saved' /\ Ledger' /\ Once'  BY BooksUnmoved DEF KernelTakes
<1>3. History' /\ Custody'
  <2>1. Outbox' = Outbox /\ DeadRequests' = DeadRequests  BY <1>a DEF Outbox, DeadRequests
  <2>2. wire' \subseteq planned /\ refused' \subseteq planned
    BY <1>b, <1>c DEF HInv, History, KernelTakes
  <2> QED BY <1>a, <1>c, <1>d, <2>1, <2>2 DEF HInv, History, Custody
<1>4. Place'
  <2>1. Head1' = Head1 /\ DeadRequests' = DeadRequests  BY <1>a DEF Head1, DeadRequests
  <2> QED BY <1>a, <1>b, <1>d, <1>e, <2>1 DEF HInv, Place
<1> QED BY <1>1, <1>2, <1>3, <1>4 DEF HInv

LEMMA KernelExitsKeeps == ASSUME HInv, NEW i \in Items, KernelExits(i) PROVE HInv'
<1>1. Scalars'
  BY DEF HInv, Scalars, Steps, Replies, KernelExits, tick, remote, local, Goto, Failed, Idle,
     KernelStates
<1>2. Saved' /\ Ledger' /\ Once'  BY BooksUnmoved DEF KernelExits
<1>3. History' /\ Custody'
  BY DEF HInv, History, Custody, Applied, DeadRequests, Outbox, KernelExits
<1>4. Place'
  BY DEF HInv, Place, Head1, Applied, DeadRequests, KernelExits, tick, remote, local, Goto,
     Failed, Idle, KernelStates
<1> QED BY <1>1, <1>2, <1>3, <1>4 DEF HInv

LEMMA StopKeeps == ASSUME HInv, Stop PROVE HInv'
<1>1. Scalars'
  BY DEF HInv, Scalars, Steps, Replies, Stop, tick, remote, local, Goto, Failed, Idle
<1>2. Saved' /\ Ledger' /\ Once'  BY BooksUnmoved DEF Stop
<1>3. History' /\ Custody'  BY EnvelopesUnmoved DEF Stop, remote
<1>4. Place'
  BY DEF HInv, Place, Head1, Applied, DeadRequests, Stop, tick, remote, local, Goto, Failed, Idle
<1> QED BY <1>1, <1>2, <1>3, <1>4 DEF HInv

LEMMA StartKeeps == ASSUME HInv, Start PROVE HInv'
<1>1. Scalars'
  BY DEF HInv, Scalars, Steps, Replies, Start, tick, remote, local, Goto, Failed, Idle
<1>2. Saved' /\ Ledger' /\ Once'  BY BooksUnmoved DEF Start
<1>3. History' /\ Custody'  BY EnvelopesUnmoved DEF Start, remote
<1>4. Place'
  BY DEF HInv, Place, Head1, Applied, DeadRequests, Start, tick, remote, local, Goto, Failed, Idle
<1> QED BY <1>1, <1>2, <1>3, <1>4 DEF HInv

LEMMA CrashKeeps == ASSUME HInv, Crash PROVE HInv'
<1>1. Scalars'
  BY Blank DEF HInv, Scalars, Steps, Replies, Crash, tick, remote, local, Goto, Failed, Idle
<1>2. Saved' /\ Ledger' /\ Once'  BY BooksUnmoved DEF Crash
<1>3. History' /\ Custody'  BY EnvelopesUnmoved DEF Crash, remote
<1>4. Place'
  BY DEF HInv, Place, Head1, Applied, DeadRequests, Crash, tick, remote, local, Goto, Failed, Idle
<1> QED BY <1>1, <1>2, <1>3, <1>4 DEF HInv

-----------------------------------------------------------------------------
(* The step that plans. *)

LEMMA PlanTyped ==
  ASSUME HInv, NEW told \in [Items -> Book], NEW at \in Nat
  PROVE  Plan(items, told, at) \subseteq Requests /\ IsFiniteSet(Plan(items, told, at))
<1> DEFINE Facts == UNION {FactsOf(i, items[i], told[i]) : i \in Items}
           Types == {"queued", "updated", "finished"}
           make == [x \in Items \X Types |->
                      [item |-> x[1], type |-> x[2], version |-> items[x[1]].version, at |-> at]]
           Made == {make[x] : x \in Items \X Types}
<1>1. ASSUME NEW f \in Facts
      PROVE  f.item \in Items /\ f.type \in Types /\ f.version = items[f.item].version
  BY DEF FactsOf
<1>2. \A i \in Items : items[i].version \in 0..MaxVersion  BY DEF HInv, Scalars, ItemRecord
<1>3. ASSUME NEW r \in Plan(items, told, at)
      PROVE  r \in Requests /\ r \in Made
  <2>1. PICK f \in Facts :
          r = [item |-> f.item, type |-> f.type, version |-> f.version, at |-> at]
    BY DEF Plan
  <2>2. f.item \in Items /\ f.type \in Types /\ f.version = items[f.item].version  BY <1>1
  <2>3. r \in Requests  BY <1>2, <2>1, <2>2 DEF Requests
  <2>4. r = make[<<f.item, f.type>>]  BY <2>1, <2>2
  <2> QED BY <2>2, <2>3, <2>4
<1>4. IsFiniteSet(Items \X Types)
  <2>1. IsFiniteSet(Items)  BY HorizonAssumption, FS_Interval DEF Items
  <2>2. IsFiniteSet(Types)
    <3>1. IsFiniteSet({"queued"})  BY FS_Singleton
    <3>2. IsFiniteSet({"queued"} \cup {"updated"})  BY <3>1, FS_AddElement
    <3>3. IsFiniteSet({"queued"} \cup {"updated"} \cup {"finished"})  BY <3>2, FS_AddElement
    <3>4. {"queued"} \cup {"updated"} \cup {"finished"} = Types  OBVIOUS
    <3> QED BY <3>3, <3>4
  <2> QED BY <2>1, <2>2, FS_Product
<1>5. IsFiniteSet(Made)
  <2>1. make \in Surjection(Items \X Types, Made)  BY DEF Surjection
  <2> QED BY <1>4, <2>1, FS_Surjection
<1> QED BY <1>3, <1>5, FS_Subset

\* An order of a plan has its facts and no other.
LEMMA OrderedHas ==
  ASSUME NEW plan \in SUBSET Requests, IsFiniteSet(plan), NEW q \in Ordered(plan)
  PROVE  q \in Seq(Requests) /\ ToSet(q) = plan
<1> DEFINE n == Cardinality(plan)
<1>1. n \in Nat /\ IsFiniteSet(1..n) /\ Cardinality(1..n) = n
  BY FS_CardinalityType, FS_Interval
<1>2. q \in [1..n -> plan] /\ \A j, k \in 1..n : j < k => InPlanOrder(q[j], q[k])
  BY DEF Ordered
<1> HIDE DEF n
<1>3. ASSUME NEW j \in 1..n, NEW k \in 1..n, j < k PROVE q[j] # q[k]
  <2>1. q[j] \in Requests /\ InPlanOrder(q[j], q[k])  BY <1>2, <1>3
  <2>2. q[j].item \in Nat /\ Rank(q[j]) \in {1, 2, 3}
    BY <2>1, HorizonAssumption DEF Requests, Items, Rank
  <2> QED BY <2>1, <2>2 DEF InPlanOrder
<1>4. \A j, k \in 1..n : q[j] = q[k] => j = k  BY <1>1, <1>3
<1>5. q \in Injection(1..n, plan)  BY <1>2, <1>4 DEF Injection, IsInjective
<1>6. q \in Surjection(1..n, plan)  BY <1>1, <1>5, FS_Injection DEF n
<1>7. q \in Seq(Requests) /\ DOMAIN q = 1..n  BY <1>1, <1>2
<1> QED BY <1>6, <1>7 DEF Surjection, ToSet

\* What the plan has of an item.
Fresh(x, told) ==
  (IF told.kind = 0 THEN {"queued"} ELSE {})
    \cup (IF told.kind # 0 /\ told.version # x.version THEN {"updated"} ELSE {})
    \cup (IF Finished(x) /\ ~told.finished THEN {"finished"} ELSE {})
Req(i, type, version, at) == [item |-> i, type |-> type, version |-> version, at |-> at]
LEMMA PlanIs ==
  ASSUME NEW xs, NEW told, NEW at, NEW r
  PROVE  r \in Plan(xs, told, at) <=>
           \E i \in Items : \E type \in Fresh(xs[i], told[i]) : r = Req(i, type, xs[i].version, at)
<1>1. ASSUME r \in Plan(xs, told, at)
      PROVE  \E i \in Items : \E type \in Fresh(xs[i], told[i]) : r = Req(i, type, xs[i].version, at)
  <2>1. PICK i \in Items : \E f \in FactsOf(i, xs[i], told[i]) :
          r = [item |-> f.item, type |-> f.type, version |-> f.version, at |-> at]
    BY <1>1 DEF Plan
  <2> PICK f \in FactsOf(i, xs[i], told[i]) :
          r = [item |-> f.item, type |-> f.type, version |-> f.version, at |-> at]
    BY <2>1
  <2>2. f.item = i /\ f.type \in Fresh(xs[i], told[i]) /\ f.version = xs[i].version
    BY <2>1 DEF FactsOf, Fresh
  <2> QED BY <2>1, <2>2 DEF Req
<1>2. ASSUME NEW i \in Items, NEW type \in Fresh(xs[i], told[i]), r = Req(i, type, xs[i].version, at)
      PROVE  r \in Plan(xs, told, at)
  <2> DEFINE f == [type |-> type, item |-> i, version |-> xs[i].version]
  <2>1. f \in FactsOf(i, xs[i], told[i])  BY DEF FactsOf, Fresh
  <2>2. r = [item |-> f.item, type |-> f.type, version |-> f.version, at |-> at]  BY <1>2 DEF Req
  <2> QED BY <2>1, <2>2 DEF Plan
<1> QED BY <1>1, <1>2

\* The plan continues the ledger, and repeats nothing of it.
LEMMA PlanSays ==
  ASSUME HInv, ~cursor.pending.on, ~DeclarationChanged(items, cursor.steps), NEW i \in Items,
         NEW plan, plan = Plan(items, cursor.steps, cursor.lastAt + 1)
  PROVE  /\ Says(i, planned \cup plan, ToldAfter(items[i], cursor.steps[i]))
         /\ \A r \in plan : r.item = i =>
              /\ r.type = "queued" => \A s \in planned : s.item # i
              /\ r.type = "finished" => \A s \in planned : s.item = i => s.type # "finished"
<1> DEFINE told == cursor.steps[i]
           x == items[i]
           at == cursor.lastAt + 1
           after == ToldAfter(x, told)
<1>1. /\ told.kind \in 0..2 /\ told.finished \in BOOLEAN /\ x.kind \in {1, 2} /\ at \in Nat
      /\ told.kind # 0 => told.kind = x.kind
  BY DEF HInv, Saved, Batch, Book, Scalars, ItemRecord, DeclarationChanged
<1>2. Says(i, planned, told) /\ \A r \in planned : r.at < at /\ r.at \in Nat
  BY DEF HInv, Ledger, Booked, Now, History, Requests, Saved
<1>3. ASSUME NEW r \in plan, r.item = i
      PROVE  r.type \in Fresh(x, told) /\ r.version = x.version /\ r.at = at
  <2>1. PICK j \in Items : \E type \in Fresh(items[j], cursor.steps[j]) :
                             r = Req(j, type, items[j].version, at)
    BY PlanIs
  <2> QED BY <1>3, <2>1 DEF Req
<1>4. ASSUME NEW type \in Fresh(x, told)
      PROVE  Req(i, type, x.version, at) \in plan
  BY PlanIs
<1>5. \A type : LET r == Req(i, type, x.version, at) IN
        r.item = i /\ r.type = type /\ r.version = x.version /\ r.at = at
  BY DEF Req
<1>6. after.kind = x.kind /\ after.version = x.version
  BY DEF ToldAfter
<1>7. after.finished <=> told.finished \/ Finished(x)
  BY DEF ToldAfter
<1> HIDE DEF told, x, at, after
<1>8. after.kind # 0  BY <1>1, <1>6
<1>9. \E r \in planned \cup plan : r.item = i /\ r.type = "queued"
  <2>1. CASE told.kind = 0  BY <1>4, <1>5, <2>1 DEF Fresh
  <2>2. CASE told.kind # 0  BY <1>2, <2>2 DEF Says
  <2> QED BY <2>1, <2>2
<1>10. \E m \in planned \cup plan :
         /\ m.item = i /\ m.version = after.version
         /\ \A r \in planned \cup plan : r.item = i =>
              r.at <= m.at /\ (r.at = m.at => r.version = m.version)
  <2>1. CASE Fresh(x, told) = {}
    <3>1. told.kind # 0 /\ told.version = x.version  BY <2>1 DEF Fresh
    <3>2. \A r \in plan : r.item # i  BY <1>3, <2>1
    <3>3. PICK m \in planned : /\ m.item = i /\ m.version = told.version
                               /\ \A r \in planned : r.item = i =>
                                    r.at <= m.at /\ (r.at = m.at => r.version = m.version)
      BY <1>2, <3>1 DEF Says
    <3> QED BY <1>6, <3>1, <3>2, <3>3
  <2>2. CASE Fresh(x, told) # {}
    <3>1. PICK type \in Fresh(x, told) : TRUE  BY <2>2
    <3> DEFINE m == Req(i, type, x.version, at)
    <3>2. m \in plan /\ m.item = i /\ m.version = after.version /\ m.at = at
      BY <1>4, <1>5, <1>6
    <3> HIDE DEF m
    <3> QED BY <1>1, <1>2, <1>3, <1>6, <3>2
  <2> QED BY <2>1, <2>2
<1>11. after.finished <=> \E r \in planned \cup plan : r.item = i /\ r.type = "finished"
  <2>1. told.finished <=> \E r \in planned : r.item = i /\ r.type = "finished"
    BY <1>2 DEF Says
  <2>2. Finished(x) /\ ~told.finished => \E r \in plan : r.item = i /\ r.type = "finished"
    BY <1>4, <1>5 DEF Fresh
  <2>3. (\E r \in plan : r.item = i /\ r.type = "finished") => Finished(x)
    BY <1>3 DEF Fresh
  <2> QED BY <1>7, <2>1, <2>2, <2>3
<1>12. Says(i, planned \cup plan, after)
  BY <1>8, <1>9, <1>10, <1>11 DEF Says
<1>13. ASSUME NEW r \in plan, r.item = i
       PROVE  /\ r.type = "queued" => \A s \in planned : s.item # i
              /\ r.type = "finished" => \A s \in planned : s.item = i => s.type # "finished"
  <2>1. r.type = "queued" => told.kind = 0  BY <1>3, <1>13 DEF Fresh
  <2>2. r.type = "finished" => ~told.finished  BY <1>3, <1>13 DEF Fresh
  <2> QED BY <1>2, <2>1, <2>2 DEF Says
<1> QED BY <1>12, <1>13 DEF after, told, x

LEMMA SaveOutboxKeeps == ASSUME HInv, SaveOutbox PROVE HInv'
<1> DEFINE told == cursor.steps
           plan == Plan(items, told, cursor.lastAt + 1)
<1>1. CASE DeclarationChanged(items, told) \/ plan = {}
  <2>1. UNCHANGED <<cursor, planned, dead, remote>> /\ pc' = "fetch" /\ reply' = "none"
    BY <1>1 DEF SaveOutbox, Failed, Goto
  <2>2. Scalars'
    BY <1>1 DEF HInv, Scalars, Steps, Replies, SaveOutbox, remote, local, Failed, Goto
  <2>3. Place'  BY <2>1 DEF Place
  <2> QED BY <2>1, <2>2, <2>3, BooksUnmoved, EnvelopesUnmoved DEF HInv
<1>2. CASE ~(DeclarationChanged(items, told) \/ plan = {})
  <2>1. PICK requests \in Ordered(plan) :
          cursor' = [cursor EXCEPT !.pending =
            [requests |-> requests, at |-> cursor.lastAt + 1, on |-> TRUE,
             steps |-> [i \in Items |-> ToldAfter(items[i], told[i])]]]
    BY <1>2 DEF SaveOutbox
  <2>2. /\ planned' = planned \cup plan /\ UNCHANGED <<dead, remote, local, stopped>>
        /\ pc' = "drain" /\ reply' = "none" /\ aged' = FALSE /\ UNCHANGED <<items, own, raw>>
    BY <1>2 DEF SaveOutbox, Goto
  <2>3. ~cursor.pending.on  BY DEF HInv, Place, SaveOutbox
  <2>4. told \in [Items -> Book] /\ cursor.lastAt + 1 \in Nat  BY DEF HInv, Saved
  <2>5. plan \subseteq Requests /\ IsFiniteSet(plan)  BY <2>4, PlanTyped
  <2>6. requests \in Seq(Requests) /\ ToSet(requests) = plan  BY <2>1, <2>5, OrderedHas
  <2>7. ASSUME NEW i \in Items PROVE ToldAfter(items[i], told[i]) \in Book
    <3>1. /\ told[i].finished \in BOOLEAN /\ items[i].kind \in {1, 2}
          /\ items[i].version \in 0..MaxVersion
      BY <2>4 DEF HInv, Scalars, ItemRecord, Book
    <3>2. (told[i].finished \/ Finished(items[i])) \in BOOLEAN  BY Zenon
    <3> QED BY <3>1, <3>2 DEF ToldAfter, Book
  <2> DEFINE after == [i \in Items |-> ToldAfter(items[i], told[i])]
             batch == [requests |-> requests, at |-> cursor.lastAt + 1, on |-> TRUE, steps |-> after]
  <2>8. after \in [Items -> Book]  BY <2>7
  <2>9. batch \in Batch  BY <2>4, <2>6, <2>8 DEF Batch
  <2>10. /\ batch.requests = requests /\ batch.at = cursor.lastAt + 1 /\ batch.on
         /\ batch.steps = after
    OBVIOUS
  <2>11. cursor' = [cursor EXCEPT !.pending = batch]  BY <2>1
  <2> HIDE DEF batch, after, plan
  <2>12. cursor'.pending = batch /\ Saved'  BY <2>9, <2>11 DEF HInv, Saved
  <2>13. Outbox = {} /\ Outbox' = plan  BY <2>3, <2>6, <2>10, <2>12 DEF Outbox
  <2>14. Applied' = Applied /\ DeadRequests' = DeadRequests
    BY <2>2 DEF Applied, DeadRequests, remote
  <2>15. History' /\ Custody'
    BY <2>2, <2>5, <2>13, <2>14 DEF HInv, History, Custody, remote
  <2>16. Place'  BY <2>2 DEF Place
  <2>17. Scalars'
    BY <2>2 DEF HInv, Scalars, Steps, Replies, SaveOutbox, remote, local
  <2>18. Booked' = after /\ Now' = cursor.lastAt + 1  BY <2>10, <2>12 DEF Booked, Now
  <2>19. \A r \in plan : r.at = cursor.lastAt + 1 /\ r.item \in Items
    BY PlanIs DEF plan, Req
  <2>20. \A r \in planned : r.at <= cursor.lastAt /\ r.at \in Nat /\ r.item \in Items
    BY <2>3 DEF HInv, Ledger, Now, History, Requests
  <2>21. Ledger'
    <3>1. \A i \in Items : Says(i, planned \cup plan, after[i])
      BY <1>2, <2>3, PlanSays DEF plan, after
    <3>2. \A r \in planned \cup plan : r.at <= cursor.lastAt + 1
      BY <2>19, <2>20 DEF HInv, Saved
    <3> QED BY <2>2, <2>18, <3>1, <3>2 DEF Ledger
  <2>22. ASSUME NEW r \in planned', NEW s \in planned', r.item = s.item, r.type = s.type,
                r.type # "updated"
         PROVE  r = s
    <3>1. CASE r \in planned /\ s \in planned  BY <2>22, <3>1 DEF HInv, Once
    <3>2. CASE r \in plan /\ s \in plan
      <4>1. PICK i \in Items : \E t \in Fresh(items[i], told[i]) :
              r = Req(i, t, items[i].version, cursor.lastAt + 1)
        BY <3>2, PlanIs DEF plan
      <4>2. PICK j \in Items : \E u \in Fresh(items[j], told[j]) :
              s = Req(j, u, items[j].version, cursor.lastAt + 1)
        BY <3>2, PlanIs DEF plan
      <4>3. r.item = i /\ s.item = j /\ i = j  BY <2>22, <4>1, <4>2 DEF Req
      <4>4. /\ r = Req(i, r.type, items[i].version, cursor.lastAt + 1)
            /\ s = Req(j, s.type, items[j].version, cursor.lastAt + 1)
        BY <4>1, <4>2 DEF Req
      <4> QED BY <2>22, <4>3, <4>4
    <3>3. \A v \in plan, w \in planned : v.item = w.item => v.type # w.type \/ v.type = "updated"
      <4> SUFFICES ASSUME NEW v \in plan, NEW w \in planned, v.item = w.item, v.type = w.type
                   PROVE  v.type = "updated"
        OBVIOUS
      <4>1. v.item \in Items /\ v.type \in {"queued", "updated", "finished"}
        BY <2>5 DEF Requests
      <4>2. /\ v.type = "queued" => \A z \in planned : z.item # v.item
            /\ v.type = "finished" => \A z \in planned : z.item = v.item => z.type # "finished"
        BY <1>2, <2>3, <4>1, PlanSays DEF plan
      <4> QED BY <4>1, <4>2
    <3> QED BY <2>2, <2>22, <3>1, <3>2, <3>3
  <2>23. Once'  BY <2>22 DEF Once
  <2> QED BY <2>12, <2>15, <2>16, <2>17, <2>21, <2>23 DEF HInv
<1> QED BY <1>1, <1>2

-----------------------------------------------------------------------------
(* The theorems. *)

LEMMA HorizonMoves == ASSUME HInv, [Next]_vars PROVE HInv'
<1>1. CASE Step
  BY <1>1, DrainedKeeps, PostKeeps, ReconcileKeeps, DeliverKeeps, CompleteKeeps, SaveOutboxKeeps,
     PostFailsKeeps, ReceiptKeeps, AcknowledgeKeeps, FetchKeeps, FetchFailsKeeps, RereadKeeps,
     CompareKeeps, SaveKeeps DEF Step
<1>2. CASE UNCHANGED vars
  <2>1. Scalars' /\ Place'
    BY <1>2 DEF vars, tick, remote, HInv, Scalars, Place, Head1, Applied, DeadRequests
  <2> QED BY <1>2, <2>1, BooksUnmoved, EnvelopesUnmoved DEF vars, HInv
<1> QED BY <1>1, <1>2, TickKeeps, EditKeeps, KernelTakesKeeps, KernelExitsKeeps, AgeKeeps,
           StopKeeps, StartKeeps, CrashKeeps DEF Next

LEMMA HorizonHolds == Spec => []HInv
BY HorizonInit, HorizonMoves, PTL DEF Spec

\* The variables keep their types; what waits, is applied, refused or dead was planned.
THEOREM HorizonTypeCorrect == Spec => []TypeOK
BY HorizonHolds, HorizonTypes, PTL

\* Every envelope ever planned is in the saved outbox, applied by the kernel or a dead
\* letter, whatever write fails, reply is lost or process dies; and what the cursor
\* takes for told is what the envelopes say.  (drain, deliver, saveDeadLetter)
THEOREM NothingPlannedIsLost == Spec => []CursorIsReported
BY HorizonHolds, LedgerTells, PTL

\* No declaration or completion reaches the kernel in two envelopes.  (publish, planDiff)
THEOREM FactToldOnce == Spec => []FactOnce
BY HorizonHolds, OnceIsFactOnce, PTL
=============================================================================
