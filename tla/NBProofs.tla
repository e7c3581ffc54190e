------------------------------ MODULE NBProofs ------------------------------
(***************************************************************************)
(* Proofs about the user library, for any number of threads, any queue     *)
(* limit and any number of requests and events.                            *)
(***************************************************************************)
EXTENDS NB_Blackadder, SequenceTheorems, TLAPS

(***************************************************************************)
(* The inductive invariant.  The socket is watched for writing, or a byte  *)
(* is in the pipe, only while a request is queued, and never both; what    *)
(* select() reported ready is still there when the selector comes to it,   *)
(* because no other thread reads from the pipe or from the socket.         *)
(***************************************************************************)
Watched ==
    /\ pipe <= 1
    /\ pipe = 1 => output_queue # <<>> /\ ~write_set
    /\ write_set => output_queue # <<>>

StillReady ==
    /\ selector = "pipe" /\ "pipe" \in ready => pipe = 1
    /\ selector \in {"pipe", "recv"} /\ "sock" \in ready => inbox # <<>>

Inv == TypeOK /\ Watched /\ StillReady

-----------------------------------------------------------------------------
\* What the model does with its queues keeps their types.
LEMMA QueueTypes ==
    ASSUME NEW S
    PROVE  /\ <<>> \in Seq(S)
           /\ \A s \in Seq(S) : s # <<>> => Head(s) \in S /\ Tail(s) \in Seq(S)
           /\ \A s \in Seq(S), x \in S : Append(s, x) \in Seq(S)
  BY HeadTailProperties

\* The library starts in a state that satisfies the invariant.
LEMMA InitInv == Init => Inv
  <1> SUFFICES ASSUME Init PROVE Inv
    OBVIOUS
  <1>1. TypeOK
    <2>1. /\ output_queue \in Seq(Request) /\ event_queue \in Seq(Event)
          /\ inbox \in Seq(Event) /\ handled \in Seq(Event)
          /\ sent \in Seq(Request \cup DISCONNECT)
      BY QueueTypes DEF Init
    <2>2. calls \in [Thread -> 0..MaxCalls] /\ arrived \in 0..MaxEvents /\ pipe \in Nat
      BY NBAssumption DEF Init
    <2> QED
      BY <2>1, <2>2 DEF Init, TypeOK
  <1>2. Watched /\ StillReady
    BY DEF Init, Watched, StillReady
  <1> QED
    BY <1>1, <1>2 DEF Inv

\* The request that push() queues has a number within the bound.
LEMMA NextRequest ==
    ASSUME TypeOK, NEW t \in Thread, calls[t] < MaxCalls
    PROVE  /\ <<t, calls[t] + 1>> \in Request
           /\ calls[t] + 1 \in 0..MaxCalls
  BY NBAssumption DEF TypeOK, Request

\* Every step of every thread keeps the types.
LEMMA NextType == Inv /\ [Next]_vars => TypeOK'
  <1> SUFFICES ASSUME Inv, [Next]_vars PROVE TypeOK'
    OBVIOUS
  <1> USE NBAssumption DEF Inv, TypeOK, selectorVars, workerVars, callerVars, socketVars
  <1>1. ASSUME NEW t \in Thread, push(t) PROVE TypeOK'
    BY <1>1, NextRequest DEF push
  <1>2. ASSUME NEW t \in Thread, disconnect(t) PROVE TypeOK'
    BY <1>2 DEF disconnect, DISCONNECT
  <1>3. CASE pushSpurious
    BY <1>3 DEF pushSpurious
  <1>4. CASE closeSocket
    BY <1>4 DEF closeSocket
  <1>5. CASE select
    <2>1. write_set' \in BOOLEAN /\ ready' \in SUBSET {"pipe", "sock"}
      BY <1>5 DEF select
    <2> QED
      BY <1>5, <2>1 DEF select
  <1>6. CASE readPipe
    <2>1. write_set' \in BOOLEAN
      BY <1>6 DEF readPipe
    <2>2. pipe' \in Nat
      BY <1>6 DEF readPipe, StillReady
    <2> QED
      BY <1>6, <2>1, <2>2 DEF readPipe
  <1>7. CASE recvEvent
    <2>1. event_queue' \in Seq(Event) /\ inbox' \in Seq(Event)
      <3>1. CASE "sock" \in ready
        <4>1. inbox # <<>>
          BY <1>7, <3>1 DEF recvEvent, StillReady
        <4>2. Head(inbox) \in Event /\ Tail(inbox) \in Seq(Event)
          BY <4>1, QueueTypes
        <4>3. Append(event_queue, Head(inbox)) \in Seq(Event)
          BY <4>2, QueueTypes
        <4> QED
          BY <1>7, <3>1, <4>2, <4>3 DEF recvEvent
      <3>2. CASE "sock" \notin ready
        BY <1>7, <3>2 DEF recvEvent
      <3> QED
        BY <3>1, <3>2
    <2>2. worker' \in {"lock", "wait", "run", "cf"}
      BY <1>7 DEF recvEvent
    <2> QED
      BY <1>7, <2>1, <2>2 DEF recvEvent
  <1>8. CASE sendRequest
    <2>1. CASE write_set
      <3>1. output_queue # <<>>
        BY <2>1 DEF Watched
      <3>2. Head(output_queue) \in Request /\ Tail(output_queue) \in Seq(Request)
        BY <3>1, QueueTypes
      <3>3. output_queue' \in Seq(Request) /\ sent' \in Seq(Request \cup DISCONNECT)
        <4>1. Append(sent, Head(output_queue)) \in Seq(Request \cup DISCONNECT)
          BY <3>2, QueueTypes
        <4> QED
          BY <1>8, <2>1, <3>2, <4>1 DEF sendRequest, AfterSend
      <3>4. waiting' \in SUBSET Thread
        BY <1>8, <2>1 DEF sendRequest, signalOverflow
      <3>5. write_set' \in BOOLEAN /\ writable' \in BOOLEAN
        BY <1>8, <2>1 DEF sendRequest, Rearm
      <3> QED
        BY <1>8, <2>1, <3>3, <3>4, <3>5 DEF sendRequest
    <2>2. CASE ~write_set
      BY <1>8, <2>2 DEF sendRequest
    <2> QED
      BY <2>1, <2>2
  <1>9. CASE workerWait
    BY <1>9 DEF workerWait
  <1>10. CASE workerSpurious
    BY <1>10 DEF workerSpurious
  <1>11. CASE workerLoop
    <2>1. event_queue' \in Seq(Event) /\ handled' \in Seq(Event)
      <3>1. CASE event_queue # <<>>
        <4>1. Head(event_queue) \in Event /\ Tail(event_queue) \in Seq(Event)
          BY <3>1, QueueTypes
        <4>2. Append(handled, Head(event_queue)) \in Seq(Event)
          BY <4>1, QueueTypes
        <4> QED
          BY <1>11, <3>1, <4>1, <4>2 DEF workerLoop
      <3>2. CASE event_queue = <<>>
        BY <1>11, <3>2 DEF workerLoop
      <3> QED
        BY <3>1, <3>2
    <2>2. worker' \in {"lock", "wait", "run", "cf"}
      BY <1>11 DEF workerLoop
    <2> QED
      BY <1>11, <2>1, <2>2 DEF workerLoop
  <1>12. CASE callbackReturns
    BY <1>12 DEF callbackReturns
  <1>13. CASE blackadderSends
    BY <1>13 DEF blackadderSends, Event
  <1>14. CASE blackadderReads
    BY <1>14 DEF blackadderReads
  <1>15. CASE UNCHANGED vars
    BY <1>15 DEF vars
  <1> QED
    BY <1>1, <1>2, <1>3, <1>4, <1>5, <1>6, <1>7, <1>8, <1>9, <1>10, <1>11, <1>12,
       <1>13, <1>14, <1>15 DEF Next, Application, Selector, Worker

\* Every step keeps the other two parts of the invariant.
LEMMA NextWatched == Inv /\ [Next]_vars => Watched' /\ StillReady'
  <1> SUFFICES ASSUME Inv, [Next]_vars PROVE Watched' /\ StillReady'
    OBVIOUS
  <1> USE DEF Inv, Watched, StillReady, selectorVars, workerVars, callerVars, socketVars
  <1>1. ASSUME NEW t \in Thread, push(t) PROVE Watched' /\ StillReady'
    BY <1>1 DEF push, MustWakeSelector, TypeOK
  <1>2. ASSUME NEW t \in Thread, disconnect(t) PROVE Watched' /\ StillReady'
    BY <1>2 DEF disconnect
  <1>3. CASE pushSpurious
    BY <1>3 DEF pushSpurious
  <1>4. CASE closeSocket
    BY <1>4 DEF closeSocket
  <1>5. CASE select
    BY <1>5 DEF select, TypeOK
  <1>6. CASE readPipe
    BY <1>6 DEF readPipe, TypeOK
  <1>7. CASE recvEvent
    BY <1>7 DEF recvEvent
  <1>8. CASE sendRequest
    BY <1>8 DEF sendRequest, AfterSend, Rearm
  <1>9. CASE workerWait
    BY <1>9 DEF workerWait
  <1>10. CASE workerSpurious
    BY <1>10 DEF workerSpurious
  <1>11. CASE workerLoop
    BY <1>11 DEF workerLoop
  <1>12. CASE callbackReturns
    BY <1>12 DEF callbackReturns
  <1>13. CASE blackadderSends
    BY <1>13 DEF blackadderSends, TypeOK
  <1>14. CASE blackadderReads
    BY <1>14 DEF blackadderReads
  <1>15. CASE UNCHANGED vars
    BY <1>15 DEF vars
  <1> QED
    BY <1>1, <1>2, <1>3, <1>4, <1>5, <1>6, <1>7, <1>8, <1>9, <1>10, <1>11, <1>12,
       <1>13, <1>14, <1>15 DEF Next, Application, Selector, Worker

-----------------------------------------------------------------------------
\* Every reachable state satisfies the inductive invariant.
LEMMA Invariance == Spec => []Inv
  <1>1. Inv /\ [Next]_vars => Inv'
    BY NextType, NextWatched DEF Inv
  <1> QED
    BY <1>1, InitInv, PTL DEF Spec

\* The types of all variables; in particular the selector never reads from an
\* empty pipe or takes an event from an empty socket.
THEOREM TypeCorrect == Spec => []TypeOK
  BY Invariance, PTL DEF Inv

\* Whatever the threads do and however often the socket fills, output_queue is
\* not empty when the selector takes its front.
THEOREM FrontSafe == Spec => []FrontIsThere
  <1>1. Inv => FrontIsThere
    BY DEF Inv, Watched, FrontIsThere
  <1> QED
    BY <1>1, Invariance, PTL

\* The pipe never holds more than one byte, and holds one only while a request
\* waits that nothing else would make the selector look at.
THEOREM OneByteSuffices == Spec => []OneWakeUp
  <1>1. Inv => OneWakeUp
    BY DEF Inv, Watched, OneWakeUp
  <1> QED
    BY <1>1, Invariance, PTL

-----------------------------------------------------------------------------
(* The order of events *)

\* Moving the head of one queue to the end of the queue before it.
LEMMA MoveHead ==
    ASSUME NEW S, NEW a \in Seq(S), NEW b \in Seq(S), b # <<>>
    PROVE  Append(a, Head(b)) \o Tail(b) = a \o b
  <1>1. Head(b) \in S /\ Tail(b) \in Seq(S) /\ Append(a, Head(b)) \in Seq(S)
    BY QueueTypes
  <1>2. Len(Tail(b)) = Len(b) - 1 /\ \A k \in 1..Len(Tail(b)) : Tail(b)[k] = b[k + 1]
    BY HeadTailProperties
  <1>3. Append(a, Head(b)) \o Tail(b) \in Seq(S) /\ a \o b \in Seq(S)
    BY <1>1, ConcatProperties
  <1>4. Len(Append(a, Head(b)) \o Tail(b)) = Len(a \o b)
    BY <1>1, <1>2
  <1>5. \A k \in 1..Len(a \o b) : (Append(a, Head(b)) \o Tail(b))[k] = (a \o b)[k]
    BY <1>1, <1>2
  <1> QED
    BY <1>3, <1>4, <1>5, SeqEqual

\* Appending to the last of three queues appends to their concatenation.
LEMMA AppendLast ==
    ASSUME NEW S, NEW a \in Seq(S), NEW b \in Seq(S), NEW x \in S
    PROVE  a \o Append(b, x) = Append(a \o b, x)
  <1>1. a \o Append(b, x) \in Seq(S) /\ Append(a \o b, x) \in Seq(S)
    BY ConcatProperties
  <1>2. Len(a \o Append(b, x)) = Len(Append(a \o b, x))
    OBVIOUS
  <1>3. \A k \in 1..Len(a \o Append(b, x)) : (a \o Append(b, x))[k] = Append(a \o b, x)[k]
    OBVIOUS
  <1> QED
    BY <1>1, <1>2, <1>3, SeqEqual

\* The three queues an event passes through are moved along, never rearranged.
LEMMA NextEvents == Inv /\ EventsInOrder /\ [Next]_vars => EventsInOrder'
  <1> SUFFICES ASSUME Inv, EventsInOrder, [Next]_vars PROVE EventsInOrder'
    OBVIOUS
  <1> USE DEF EventsInOrder, selectorVars, workerVars, callerVars, socketVars
  <1>0. /\ handled \in Seq(Event) /\ event_queue \in Seq(Event) /\ inbox \in Seq(Event)
        /\ handled \o event_queue \in Seq(Event)
    BY ConcatProperties DEF Inv, TypeOK
  <1>1. CASE recvEvent /\ "sock" \in ready
    <2>1. inbox # <<>>
      BY <1>1 DEF recvEvent, Inv, StillReady
    <2>2. Head(inbox) \in Event /\ Tail(inbox) \in Seq(Event)
      BY <1>0, <2>1, QueueTypes
    <2>3. handled \o Append(event_queue, Head(inbox)) = Append(handled \o event_queue, Head(inbox))
      BY <1>0, <2>2, AppendLast
    <2>4. Append(handled \o event_queue, Head(inbox)) \o Tail(inbox)
            = handled \o event_queue \o inbox
      BY <1>0, <2>1, MoveHead
    <2> QED
      BY <1>1, <2>3, <2>4 DEF recvEvent
  <1>2. CASE workerLoop /\ event_queue # <<>>
    <2>1. Append(handled, Head(event_queue)) \o Tail(event_queue) = handled \o event_queue
      BY SMTT(30), <1>0, <1>2, MoveHead
    <2> QED
      BY <1>2, <2>1 DEF workerLoop
  <1>3. CASE blackadderSends
    <2>1. arrived \in Nat /\ arrived + 1 \in Event
      BY <1>3, NBAssumption DEF blackadderSends, Inv, TypeOK, Event
    <2>2. handled \o event_queue \o Append(inbox, arrived + 1)
            = Append(handled \o event_queue \o inbox, arrived + 1)
      <3> DEFINE passed == handled \o event_queue
      <3>1. passed \in Seq(Event)
        BY <1>0
      <3> HIDE DEF passed
      <3>2. passed \o Append(inbox, arrived + 1) = Append(passed \o inbox, arrived + 1)
        BY <1>0, <2>1, <3>1, AppendLast
      <3> QED
        BY <3>2 DEF passed
    <2>3. Append([k \in 1..arrived |-> k], arrived + 1) = [k \in 1..(arrived + 1) |-> k]
      BY <2>1
    <2> QED
      BY <1>3, <2>2, <2>3 DEF blackadderSends
  <1>4. CASE UNCHANGED <<handled, event_queue, inbox, arrived>>
    BY <1>4
  <1>5. \/ recvEvent /\ "sock" \in ready
        \/ workerLoop /\ event_queue # <<>>
        \/ blackadderSends
        \/ UNCHANGED <<handled, event_queue, inbox, arrived>>
    BY DEF Next, Application, Selector, Worker, push, disconnect, pushSpurious, closeSocket,
           select, readPipe, recvEvent, sendRequest, workerWait, workerSpurious, workerLoop,
           callbackReturns, blackadderReads, vars
  <1> QED
    BY <1>1, <1>2, <1>3, <1>4, <1>5

\* The application is called back for the events in the order in which
\* Blackadder sent them, each once, and no event is dropped on the way.
THEOREM EventsKeepTheirOrder == Spec => []EventsInOrder
  <1>1. Init => EventsInOrder
    <2> SUFFICES ASSUME Init PROVE EventsInOrder
      OBVIOUS
    <2>1. handled = <<>> /\ event_queue = <<>> /\ inbox = <<>> /\ arrived = 0
      BY DEF Init
    <2>2. <<>> \o <<>> \o <<>> = [k \in 1..0 |-> k]
      OBVIOUS
    <2> QED
      BY <2>1, <2>2 DEF EventsInOrder
  <1> QED
    BY <1>1, NextEvents, Invariance, PTL DEF Spec

-----------------------------------------------------------------------------
(* The refinement *)

\* Taking the head of the first of two queues takes the head of both.
LEMMA HeadOfConcat ==
    ASSUME NEW S, NEW a \in Seq(S), NEW b \in Seq(S), a # <<>>
    PROVE  /\ a \o b # <<>>
           /\ Head(a \o b) = Head(a)
           /\ Tail(a \o b) = Tail(a) \o b
  <1>1. a \o b \in Seq(S) /\ Len(a) > 0 /\ Len(a \o b) = Len(a) + Len(b)
    BY ConcatProperties
  <1>2. a \o b # <<>>
    BY <1>1
  <1>3. Tail(a) \in Seq(S) /\ Tail(a \o b) \in Seq(S) /\ Tail(a) \o b \in Seq(S)
    BY <1>1, <1>2, QueueTypes, ConcatProperties
  <1>4. Len(Tail(a \o b)) = Len(Tail(a) \o b)
    BY <1>1, <1>2, <1>3
  <1>5. \A k \in 1..Len(Tail(a \o b)) : Tail(a \o b)[k] = (Tail(a) \o b)[k]
    BY <1>1, <1>2, <1>3
  <1>6. Tail(a \o b) = Tail(a) \o b
    BY <1>3, <1>4, <1>5, SeqEqual
  <1> QED
    BY <1>1, <1>2, <1>6

\* A step of any thread issues, receives, notifies or handles one message of
\* the abstract channel, sends DISCONNECT past its queue, or does not show.
LEMMA NextChannel == Inv /\ [Next]_vars => [Ch!ChNext]_(Ch!chVars)
  <1> SUFFICES ASSUME Inv, [Next]_vars PROVE Ch!ChNext \/ UNCHANGED Ch!chVars
    OBVIOUS
  <1> USE DEF Ch!ChNext, selectorVars, workerVars, callerVars, socketVars
  <1>0. /\ handled \in Seq(Event) /\ event_queue \in Seq(Event) /\ inbox \in Seq(Event)
        /\ output_queue \in Seq(Request)
    BY DEF Inv, TypeOK
  <1>1. ASSUME NEW t \in Thread, push(t) PROVE Ch!ChNext
    <2>1. <<t, calls[t] + 1>> \in Request
      BY <1>1, NextRequest DEF push, Inv
    <2>2. Ch!Issue(<<t, calls[t] + 1>>)
      BY <1>1 DEF push, Ch!Issue
    <2> QED
      BY <2>1, <2>2
  <1>2. ASSUME NEW t \in Thread, disconnect(t) PROVE Ch!ChNext \/ UNCHANGED Ch!chVars
    <2>1. <<t, 0>> \in DISCONNECT
      BY DEF DISCONNECT
    <2>2. CASE writable
      <3>1. Ch!Leave(<<t, 0>>)
        BY <1>2, <2>2 DEF disconnect, Ch!Leave
      <3> QED
        BY <2>1, <3>1
    <2>3. CASE ~writable
      BY <1>2, <2>3 DEF disconnect, Ch!chVars
    <2> QED
      BY <2>2, <2>3
  <1>3. CASE recvEvent
    <2>1. CASE "sock" \in ready
      <3>1. inbox # <<>>
        BY <1>3, <2>1 DEF recvEvent, Inv, StillReady
      <3>2. Append(event_queue, Head(inbox)) \o Tail(inbox) = event_queue \o inbox
        BY <1>0, <3>1, MoveHead
      <3> QED
        BY <1>3, <2>1, <3>2 DEF recvEvent, Ch!chVars
    <2>2. CASE "sock" \notin ready
      BY <1>3, <2>2 DEF recvEvent, Ch!chVars
    <2> QED
      BY <2>1, <2>2
  <1>4. CASE sendRequest
    <2>1. CASE write_set /\ writable
      <3>1. output_queue # <<>>
        BY <2>1 DEF Inv, Watched
      <3>2. Ch!Receive
        BY <1>4, <2>1, <3>1 DEF sendRequest, AfterSend, Ch!Receive
      <3> QED
        BY <3>2
    <2>2. CASE ~(write_set /\ writable)
      BY <1>4, <2>2 DEF sendRequest, AfterSend, Ch!chVars
    <2> QED
      BY <2>1, <2>2
  <1>5. CASE workerLoop
    <2>1. CASE event_queue # <<>>
      <3>1. /\ event_queue \o inbox # <<>>
            /\ Head(event_queue \o inbox) = Head(event_queue)
            /\ Tail(event_queue \o inbox) = Tail(event_queue) \o inbox
        BY <1>0, <2>1, HeadOfConcat
      <3>2. Ch!Handle
        BY <1>5, <2>1, <3>1 DEF workerLoop, Ch!Handle
      <3> QED
        BY <3>2
    <2>2. CASE event_queue = <<>>
      BY <1>5, <2>2 DEF workerLoop, Ch!chVars
    <2> QED
      BY <2>1, <2>2
  <1>6. CASE blackadderSends
    <2>1. arrived + 1 \in Event
      BY <1>6, NBAssumption DEF blackadderSends, Inv, TypeOK, Event
    <2>2. event_queue \o Append(inbox, arrived + 1) = Append(event_queue \o inbox, arrived + 1)
      BY <1>0, <2>1, AppendLast
    <2>3. Ch!Notify(arrived + 1)
      BY <1>6, <2>2 DEF blackadderSends, Ch!Notify
    <2> QED
      BY <2>1, <2>3
  <1>7. CASE UNCHANGED <<output_queue, sent, event_queue, inbox, handled>>
    BY <1>7 DEF Ch!chVars
  <1>8. \/ \E t \in Thread : push(t) \/ disconnect(t)
        \/ recvEvent \/ sendRequest \/ workerLoop \/ blackadderSends
        \/ UNCHANGED <<output_queue, sent, event_queue, inbox, handled>>
    BY DEF Next, Application, Selector, Worker, pushSpurious, closeSocket, select, readPipe,
           workerWait, workerSpurious, callbackReturns, blackadderReads, vars
  <1> QED
    BY <1>1, <1>2, <1>3, <1>4, <1>5, <1>6, <1>7, <1>8

\* The library implements the channel: with any number of threads and however
\* often the socket fills, an application sees two queues that neither lose,
\* duplicate nor reorder, and the pipe, the buffers and the threads between
\* their ends do not show.
THEOREM ImplementsChannel == Spec => IsChannel
  <1>1. Init => Ch!ChInit
    <2> SUFFICES ASSUME Init PROVE Ch!ChInit
      OBVIOUS
    <2>1. <<>> \o <<>> = <<>>
      OBVIOUS
    <2> QED
      BY <2>1 DEF Init, Ch!ChInit
  <1> QED
    BY <1>1, NextChannel, Invariance, PTL DEF Spec, IsChannel, Ch!ChSpec

=============================================================================
