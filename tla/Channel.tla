------------------------------ MODULE Channel ------------------------------
(***************************************************************************)
(* What the non-blocking library promises an application: two queues that  *)
(* neither lose, duplicate nor reorder.  Requests go to Blackadder, events *)
(* to the callback; how many threads, pipes and buffers they pass through  *)
(* does not show.  Only DISCONNECT overtakes the requests.                 *)
(***************************************************************************)
EXTENDS Sequences

CONSTANTS Message, Farewell, Event

VARIABLES requests,  \* issued and not yet received by Blackadder
          received,  \* what Blackadder received, in order
          events,    \* sent by Blackadder and not yet handled
          delivered  \* what the callback was called with, in order

chVars == <<requests, received, events, delivered>>

ChInit == requests = <<>> /\ received = <<>> /\ events = <<>> /\ delivered = <<>>

Issue(m) == requests' = Append(requests, m) /\ UNCHANGED <<received, events, delivered>>

Receive ==
  /\ requests # <<>>
  /\ received' = Append(received, Head(requests))
  /\ requests' = Tail(requests)
  /\ UNCHANGED <<events, delivered>>

Leave(m) == received' = Append(received, m) /\ UNCHANGED <<requests, events, delivered>>

Notify(e) == events' = Append(events, e) /\ UNCHANGED <<requests, received, delivered>>

Handle ==
  /\ events # <<>>
  /\ delivered' = Append(delivered, Head(events))
  /\ events' = Tail(events)
  /\ UNCHANGED <<requests, received>>

ChNext ==
  \/ \E m \in Message : Issue(m)
  \/ Receive
  \/ \E m \in Farewell : Leave(m)
  \/ \E e \in Event : Notify(e)
  \/ Handle

ChSpec == ChInit /\ [][ChNext]_chVars
=============================================================================
