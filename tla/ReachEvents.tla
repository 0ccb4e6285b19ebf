----------------------------- MODULE ReachEvents -----------------------------
(***************************************************************************)
(* Reach events (reach-events.ts): a stranger's message, or the principal's*)
(* reply, that the kernel offers until it is acknowledged.  One frame at a *)
(* time is verified, put before the agent's session, recorded in a file    *)
(* and acknowledged; a plugin that is registered anew has a handler of its *)
(* own on the same file, while the old one may still be at it.             *)
(*                                                                         *)
(* Abstractions.  A frame that is malformed, wrongly signed or too long to *)
(* be shown changes nothing and is left out; the principal and the target  *)
(* session are configured; the record of the last ids is unbounded.        *)
(***************************************************************************)
EXTENDS Naturals, Sequences

CONSTANTS
  Events,     \* type, principal and reach id of an event
  Replies,    \* those signed by the principal, whose key is looked up
  MaxOffers,  \* bound: frames of an event
  MaxStarts,  \* bound: handlers created
  MaxFaults   \* bound: failed lookups and writes, refusals, lost acknowledgements

VARIABLES
  offers,     \* of each event: frames so far
  acked,      \* the events acknowledged to the kernel
  starts,     \* the handlers so far; the last is the registered one
  handler,    \* of each: its life, whether dedup is loaded, its queue and the step of its head
  mem,        \* of each: dedup
  file,       \* reach-event-dedup.json
  told,       \* of each event: how often the session was given it
  blind,      \* history: how often the file was read without an event that had been told
  faults

Handlers == 1..MaxStarts
Frame == [event : Events, note : BOOLEAN]   \* a notification, or a bus_event
Unborn == [life |-> "none", loaded |-> FALSE, queue |-> <<>>, step |-> "idle"]

ReachTypeOK ==
  /\ offers \in [Events -> 0..MaxOffers] /\ acked \subseteq Events /\ starts \in 0..MaxStarts
  /\ handler \in [Handlers -> [life : {"none", "up", "disposed", "dead"}, loaded : BOOLEAN,
                               queue : UNION {[1..n -> Frame] : n \in 0..(2 * MaxOffers)},
                               step : {"idle", "verify", "ready", "write", "send"}]]
  /\ mem \in [Handlers -> SUBSET Events] /\ file \subseteq Events
  /\ told \in [Events -> Nat] /\ blind \in [Events -> Nat] /\ faults \in 0..MaxFaults
  /\ \A h \in Handlers : handler[h].step # "idle" => handler[h].queue # <<>>

ReachInit ==
  /\ offers = [e \in Events |-> 0] /\ acked = {} /\ starts = 0
  /\ handler = [h \in Handlers |-> Unborn] /\ mem = [h \in Handlers |-> {}] /\ file = {}
  /\ told = [e \in Events |-> 0] /\ blind = [e \in Events |-> 0] /\ faults = 0

Fault == faults < MaxFaults /\ faults' = faults + 1
Set(h, x) == handler' = [handler EXCEPT ![h] = x]
Active(h) == handler[h].life = "up"
Running(h) == handler[h].life \in {"up", "disposed"}
At(h, step) == Running(h) /\ handler[h].step = step
Current(h) == Head(handler[h].queue)
Next(h, step) == Set(h, [handler[h] EXCEPT !.step = step])
Done(h) == Set(h, [handler[h] EXCEPT !.queue = Tail(@), !.step = "idle"])

-----------------------------------------------------------------------------
(* The registrations and the process. *)

\* The registration before it is disposed of.
Starts ==
  /\ starts < MaxStarts /\ starts' = starts + 1
  /\ handler' = [h \in Handlers |->
       CASE h = starts + 1 -> [Unborn EXCEPT !.life = "up"]
         [] Active(h) -> [handler[h] EXCEPT !.life = "disposed"]
         [] OTHER -> handler[h]]
  /\ UNCHANGED <<offers, acked, mem, file, told, blind, faults>>

Loads(h) ==
  /\ Running(h) /\ ~handler[h].loaded /\ Set(h, [handler[h] EXCEPT !.loaded = TRUE])
  /\ mem' = [mem EXCEPT ![h] = file]
  /\ blind' = [e \in Events |-> IF told[e] > 0 /\ e \notin file THEN blind[e] + 1 ELSE blind[e]]
  /\ UNCHANGED <<offers, acked, starts, file, told, faults>>

\* The file is written in place: a write that is under way may leave it unreadable.
Crash ==
  /\ starts < MaxStarts /\ \E h \in Handlers : Running(h)
  /\ handler' = [h \in Handlers |-> IF Running(h) THEN [Unborn EXCEPT !.life = "dead"] ELSE handler[h]]
  /\ file' \in {file} \cup (IF \E h \in Handlers : At(h, "write") THEN {{}} ELSE {})
  /\ UNCHANGED <<offers, acked, starts, mem, told, blind, faults>>

-----------------------------------------------------------------------------
(* handle and processFrame. *)

\* The kernel offers what is not acknowledged, to the socket of the day.
Offers(f) ==
  /\ f.event \notin acked /\ offers[f.event] < MaxOffers
  /\ offers' = [offers EXCEPT ![f.event] = @ + 1]
  /\ starts > 0 /\ Active(starts)
  /\ Set(starts, [handler[starts] EXCEPT !.queue = Append(@, f)])
  /\ UNCHANGED <<acked, starts, mem, file, told, blind, faults>>

Begins(h) ==
  /\ At(h, "idle") /\ handler[h].queue # <<>>
  /\ IF Active(h) THEN Next(h, "verify") ELSE Done(h)
  /\ UNCHANGED <<offers, acked, starts, mem, file, told, blind, faults>>

\* verifiedEvent: a reply whose key is not found is dropped.
Verified(h) ==
  /\ At(h, "verify")
  /\ \/ /\ IF Active(h) THEN Next(h, "ready") ELSE Done(h)
        /\ UNCHANGED faults
     \/ Current(h).event \in Replies /\ Fault /\ Done(h)
  /\ UNCHANGED <<offers, acked, starts, mem, file, told, blind>>

\* Only the registered handler's socket is open, if at all.
Acks(h) ==
  IF Current(h).note
    THEN \/ Active(h) /\ acked' = acked \cup {Current(h).event} /\ UNCHANGED faults
         \/ IF Active(h) THEN Fault /\ UNCHANGED acked ELSE UNCHANGED <<acked, faults>>
    ELSE UNCHANGED <<acked, faults>>

Ready(h) == At(h, "ready") /\ handler[h].loaded

\* What was told before is acknowledged again.
Repeated(h) ==
  /\ Ready(h) /\ Active(h) /\ Current(h).event \in mem[h]
  /\ Acks(h) /\ Done(h)
  /\ UNCHANGED <<offers, starts, mem, file, told, blind>>

\* A refusal is not acknowledged.
Refused(h) == Fault /\ Done(h) /\ UNCHANGED acked

\* Told, and recorded in memory, in one go.
Tells(h) ==
  /\ Ready(h)
  /\ IF ~Active(h) THEN Done(h) /\ UNCHANGED <<acked, mem, told, faults>>
     ELSE /\ Current(h).event \notin mem[h]
          /\ \/ /\ told' = [told EXCEPT ![Current(h).event] = @ + 1]
                /\ mem' = [mem EXCEPT ![h] = @ \cup {Current(h).event}]
                /\ Next(h, "write") /\ UNCHANGED <<acked, faults>>
             \/ Refused(h) /\ UNCHANGED <<mem, told>>
  /\ UNCHANGED <<offers, starts, file, blind>>

\* A failed write, which may leave nothing readable, is logged; the event is
\* acknowledged all the same.
Written(h) ==
  /\ At(h, "write") /\ Acks(h) /\ Next(h, "send")
  /\ file' \in {file, mem[h], {}}
  /\ UNCHANGED <<offers, starts, mem, told, blind>>

\* The escalation to the operator's channel, if any, is waited for.
Sent(h) ==
  /\ At(h, "send") /\ Done(h)
  /\ UNCHANGED <<offers, acked, starts, mem, file, told, blind, faults>>

-----------------------------------------------------------------------------
ReachStep ==
  \/ Starts \/ Crash \/ \E f \in Frame : Offers(f)
  \/ \E h \in Handlers : \/ Loads(h) \/ Begins(h) \/ Verified(h) \/ Repeated(h) \/ Tells(h)
                         \/ Written(h) \/ Sent(h)

-----------------------------------------------------------------------------
\* What the kernel stops offering has been told.  (processFrame: ack)
AckedIsTold == \A e \in acked : told[e] > 0

\* It is told again only by a handler that could not know: each time, one has read
\* the file before the record was in it.  (NotificationDedupStore.add)
ToldAgainBlindly == \A e \in Events : told[e] <= 1 + blind[e]
=============================================================================
