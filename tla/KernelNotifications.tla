------------------------- MODULE KernelNotifications -------------------------
(***************************************************************************)
(* What the kernel offers until it is acknowledged (index.ts): the         *)
(* notifications, which NotificationInjector turns into wakes, and the     *)
(* reach events, which ReachEvents puts before the agent.  They share the  *)
(* socket and nothing else, so a behaviour is about either (theme).        *)
(***************************************************************************)
EXTENDS NotificationInjector

CONSTANTS
  Events, Replies,          \* of ReachEvents, as are its bounds:
  EventOffers,              \* frames of an event
  EventStarts,              \* handlers created
  EventFaults               \* failures

VARIABLES theme, eventOffers, eventsAcked, registrations, handler, mem, file, told, blind, faults

Reach == INSTANCE ReachEvents WITH
  MaxOffers <- EventOffers, MaxStarts <- EventStarts, MaxFaults <- EventFaults,
  offers <- eventOffers, acked <- eventsAcked, starts <- registrations

reach == <<eventOffers, eventsAcked, registrations, handler, mem, file, told, blind, faults>>
allVars == <<vars, theme, reach>>

BothTypeOK == TypeOK /\ Reach!ReachTypeOK

BothInit == theme \in {"wakes", "reach"} /\ Init /\ Reach!ReachInit
BothNext ==
  /\ theme' = theme
  /\ \/ theme = "wakes" /\ UNCHANGED reach /\ Next
     \/ theme = "reach" /\ UNCHANGED vars /\ Reach!ReachStep

BothSpec == BothInit /\ [][BothNext]_allVars

-----------------------------------------------------------------------------
\* The kernel stops offering what it was told of.  By then a notification is owed
\* on disk, admitted, or given up aloud, and a reach event is told, whatever write
\* fails and whenever the process dies.  (inject, bufferWake, stateReady; processFrame)
AcksAreSafe == AckedIsSafe /\ Reach!AckedIsTold

\* A notification is woken twice only if it was delivered twice or after a restart; a
\* reach event is told again only by a handler that read the file before it was in.
\* (onLeadingFire, postWakeHookWithRetries; NotificationDedupStore)
NoRepeat == WokenOnce /\ Reach!ToldAgainBlindly
=============================================================================
