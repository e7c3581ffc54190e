--------------------------- MODULE NB_Blackadder ---------------------------
(***************************************************************************)
(* The non-blocking user library (src/lib/nb_blackadder.cpp).  Application *)
(* threads queue requests; a selector thread sends them to Blackadder and  *)
(* reads events from the same socket; a worker thread calls the            *)
(* application back for each event.  Application code that runs in the     *)
(* callback issues requests too, from the worker thread.                   *)
(*                                                                         *)
(* A critical section is one step.  The selector's loop body is four       *)
(* steps: select() and the three IFs that follow it.  Requests are         *)
(* numbered per thread, events by arrival; their contents do not matter.   *)
(***************************************************************************)
EXTENDS Integers, Sequences

CONSTANTS Thread,      \* threads that issue requests
          Callback,    \* the worker thread, which is one of them if the callback does
          QueueLimit,  \* output_queue.size() at which push() waits (1000)
          SocketFills, \* may the socket stop being writable for a while?
          MaxCalls,    \* bound: requests per thread
          MaxEvents    \* bound: events that Blackadder sends

ASSUME NBAssumption ==
    /\ QueueLimit \in Nat \ {0}
    /\ SocketFills \in BOOLEAN
    /\ MaxCalls \in Nat /\ MaxEvents \in Nat

VARIABLES
    output_queue, \* requests waiting to be sent
    pipe,         \* bytes in the pipe
    write_set,    \* is the socket in write_set?
    ready,        \* read_set as select() returned it
    selector,     \* the statement the selector thread is at
    event_queue,  \* events waiting for the worker
    worker,       \* where the worker thread is
    calls,        \* thread -> requests it has issued
    waiting,      \* threads waiting on queue_overflow_cond
    conn,         \* the connection: disconnect() closes it in two steps
    writable,     \* environment: the socket accepts another message
    inbox,        \* environment: events in the socket's receive buffer
    arrived,      \* environment: events sent by Blackadder so far
    sent,         \* history: what Blackadder received, in order
    handled       \* history: events the callback was called with, in order

selectorVars == <<write_set, ready, selector>>
workerVars == <<event_queue, worker, handled>>
callerVars == <<calls, waiting, conn>>
socketVars == <<writable, inbox, arrived>>
vars == <<output_queue, pipe, selectorVars, workerVars, callerVars, socketVars, sent>>

\* The k-th request of thread t is <<t, k>>; its DISCONNECT message is <<t, 0>>.
Request == Thread \X (1..MaxCalls)
DISCONNECT == Thread \X {0}
Event == 1..MaxEvents

TypeOK ==
    /\ output_queue \in Seq(Request)
    /\ pipe \in Nat
    /\ write_set \in BOOLEAN
    /\ ready \in SUBSET {"pipe", "sock"}
    /\ selector \in {"select", "pipe", "recv", "send"}
    /\ event_queue \in Seq(Event)
    /\ worker \in {"lock", "wait", "run", "cf"}
    /\ calls \in [Thread -> 0..MaxCalls]
    /\ waiting \in SUBSET Thread
    /\ conn \in {"open", "disconnecting", "closed"}
    /\ writable \in BOOLEAN
    /\ inbox \in Seq(Event)
    /\ arrived \in 0..MaxEvents
    /\ sent \in Seq(Request \cup DISCONNECT)
    /\ handled \in Seq(Event)

Init ==
    /\ output_queue = <<>>
    /\ pipe = 0
    /\ write_set = FALSE
    /\ ready = {}
    /\ selector = "select"
    /\ event_queue = <<>>
    /\ worker = "lock"
    /\ calls = [t \in Thread |-> 0]
    /\ waiting = {}
    /\ conn = "open"
    /\ writable = TRUE
    /\ inbox = <<>>
    /\ arrived = 0
    /\ sent = <<>>
    /\ handled = <<>>

-----------------------------------------------------------------------------
(* Application threads *)

\* A thread runs application code unless it waits in push(); the worker does
\* only while it is inside the callback.
InApplication(t) == t \notin waiting /\ (t = Callback => worker = "cf")

\* Is the message just queued the first one?  (Mutants: a byte for the second
\* one; a byte for every one.)
MustWakeSelectorLate(queue) == Len(queue) = 2
MustWakeSelectorAlways(queue) == TRUE
MustWakeSelector(queue) == Len(queue) = 1

\* push() and publish_data(): queue the message, wake the selector up when it
\* is the first one, wait when the queue has just reached its limit.
push(t) ==
    LET queue == Append(output_queue, <<t, calls[t] + 1>>)
    IN  /\ InApplication(t)
        /\ conn = "open"
        /\ calls[t] < MaxCalls
        /\ calls' = [calls EXCEPT ![t] = @ + 1]
        /\ output_queue' = queue
        /\ pipe' = IF MustWakeSelector(queue) THEN pipe + 1 ELSE pipe
        /\ waiting' = IF Len(queue) = QueueLimit THEN waiting \cup {t} ELSE waiting
        /\ UNCHANGED <<selectorVars, workerVars, conn, socketVars, sent>>

\* pthread_cond_wait() is not in a loop: the call also returns without a signal.
pushSpurious ==
    /\ \E t \in waiting : waiting' = waiting \ {t}
    /\ UNCHANGED <<output_queue, pipe, selectorVars, workerVars, calls, conn,
                   socketVars, sent>>

\* An application issues no requests once one of its threads disconnects.
\* disconnect() does not use the queue: it sends DISCONNECT from the calling
\* thread (a full socket makes that fail), and then closes the socket.
disconnect(t) ==
    /\ InApplication(t)
    /\ conn = "open"
    /\ conn' = "disconnecting"
    /\ sent' = IF writable THEN Append(sent, <<t, 0>>) ELSE sent
    /\ UNCHANGED <<output_queue, pipe, selectorVars, workerVars, calls, waiting, socketVars>>

closeSocket ==
    /\ conn = "disconnecting"
    /\ conn' = "closed"
    /\ UNCHANGED <<output_queue, pipe, selectorVars, workerVars, calls, waiting,
                   socketVars, sent>>

-----------------------------------------------------------------------------
(***************************************************************************)
(* The selector thread.  select() replaces both sets by what is ready; the *)
(* loop body puts the pipe and the socket back into read_set each time,    *)
(* but the socket into write_set only when it has sent something or has    *)
(* read a byte from the pipe.  What happens on a closed socket is not      *)
(* modelled.                                                               *)
(***************************************************************************)
select ==
    LET readable == (IF pipe > 0 THEN {"pipe"} ELSE {})
                      \cup (IF inbox # <<>> THEN {"sock"} ELSE {})
    IN  /\ selector = "select"
        /\ conn # "closed"
        /\ readable # {} \/ (write_set /\ writable)
        /\ ready' = readable
        /\ write_set' = (write_set /\ writable)
        /\ selector' = "pipe"
        /\ UNCHANGED <<output_queue, pipe, workerVars, callerVars, socketVars, sent>>

readPipe ==
    /\ selector = "pipe"
    /\ selector' = "recv"
    /\ IF "pipe" \in ready
       THEN pipe' = pipe - 1 /\ write_set' = TRUE
       ELSE UNCHANGED <<pipe, write_set>>
    /\ UNCHANGED <<output_queue, ready, workerVars, callerVars, socketVars, sent>>

\* A new event is queued and worker_cond signalled: lost unless somebody waits.
recvEvent ==
    /\ selector = "recv"
    /\ conn # "closed"
    /\ selector' = "send"
    /\ IF "sock" \in ready
       THEN /\ event_queue' = Append(event_queue, Head(inbox))
            /\ inbox' = Tail(inbox)
            /\ worker' = IF worker = "wait" THEN "run" ELSE worker
       ELSE UNCHANGED <<event_queue, inbox, worker>>
    /\ UNCHANGED <<output_queue, pipe, write_set, ready, handled, callerVars,
                   writable, arrived, sent>>

\* pthread_cond_signal(&queue_overflow_cond): one of the waiting threads goes on.
\* (Mutant: nobody is signalled.)
signalNobody == UNCHANGED waiting
signalOverflow ==
    IF waiting = {} THEN UNCHANGED waiting
    ELSE \E t \in waiting : waiting' = waiting \ {t}

\* The queue after sendmsg() on its head, which stays when the socket is full,
\* and whether the socket stays in write_set.  (Mutants: the result of sendmsg()
\* is not tested; the set is not cleared.)
PopAlways(queue) == Tail(queue)
AfterSend(queue) == IF writable THEN Tail(queue) ELSE queue
RearmAlways(queue) == TRUE
Rearm(queue) == queue # <<>>

sendRequest ==
    /\ selector = "send"
    /\ conn # "closed"
    /\ selector' = "select"
    /\ IF write_set
       THEN /\ output_queue' = AfterSend(output_queue)
            /\ sent' = IF writable THEN Append(sent, Head(output_queue)) ELSE sent
            /\ write_set' = Rearm(output_queue')
            /\ IF output_queue' = <<>> THEN signalOverflow ELSE UNCHANGED waiting
            /\ \/ UNCHANGED writable
               \/ SocketFills /\ writable' = FALSE
       ELSE UNCHANGED <<output_queue, sent, write_set, waiting, writable>>
    /\ UNCHANGED <<pipe, ready, workerVars, calls, conn, inbox, arrived>>

-----------------------------------------------------------------------------
(* The worker thread *)

\* Lock worker_mutex and wait on worker_cond, without looking at event_queue.
workerWait ==
    /\ worker = "lock"
    /\ worker' = "wait"
    /\ UNCHANGED <<output_queue, pipe, selectorVars, event_queue, handled, callerVars,
                   socketVars, sent>>

\* The wait may also end without a signal.
workerSpurious ==
    /\ worker = "wait"
    /\ worker' = "run"
    /\ UNCHANGED <<output_queue, pipe, selectorVars, event_queue, handled, callerVars,
                   socketVars, sent>>

\* Mutant: the event is not popped.
workerLoopNoPop ==
    /\ worker = "run"
    /\ IF event_queue # <<>>
       THEN worker' = "cf" /\ handled' = Append(handled, Head(event_queue))
       ELSE worker' = "lock" /\ UNCHANGED handled
    /\ UNCHANGED <<event_queue, output_queue, pipe, selectorVars, callerVars, socketVars, sent>>

\* The loop test, with the mutex held: take an event and call cf, or go round.
workerLoop ==
    /\ worker = "run"
    /\ IF event_queue # <<>>
       THEN /\ worker' = "cf"
            /\ handled' = Append(handled, Head(event_queue))
            /\ event_queue' = Tail(event_queue)
       ELSE worker' = "lock" /\ UNCHANGED <<handled, event_queue>>
    /\ UNCHANGED <<output_queue, pipe, selectorVars, callerVars, socketVars, sent>>

\* The callback returns and the mutex is locked again.
callbackReturns ==
    /\ worker = "cf"
    /\ Callback \notin waiting
    /\ worker' = "run"
    /\ UNCHANGED <<output_queue, pipe, selectorVars, event_queue, handled, callerVars,
                   socketVars, sent>>

-----------------------------------------------------------------------------
(* Blackadder, at the other end of the socket *)

blackadderSends ==
    /\ conn # "closed"
    /\ arrived < MaxEvents
    /\ arrived' = arrived + 1
    /\ inbox' = Append(inbox, arrived + 1)
    /\ UNCHANGED <<output_queue, pipe, selectorVars, workerVars, callerVars, writable, sent>>

blackadderReads ==
    /\ ~writable
    /\ writable' = TRUE
    /\ UNCHANGED <<output_queue, pipe, selectorVars, workerVars, callerVars, inbox,
                   arrived, sent>>

Application == \E t \in Thread : push(t) \/ disconnect(t)
Selector == select \/ readPipe \/ recvEvent \/ sendRequest
Worker == workerWait \/ workerLoop \/ callbackReturns

Next ==
    \/ Application \/ pushSpurious \/ closeSocket
    \/ Selector
    \/ Worker \/ workerSpurious
    \/ blackadderSends \/ blackadderReads

Spec == Init /\ [][Next]_vars

\* Running threads make progress; callbacks return; Blackadder reads its socket.
Fairness == WF_vars(Selector) /\ WF_vars(Worker) /\ WF_vars(blackadderReads)

FairSpec == Spec /\ Fairness

\* The library in use: nobody has disconnected.
Connected == conn = "open"

-----------------------------------------------------------------------------
(***************************************************************************)
(* Properties                                                              *)
(***************************************************************************)

\* The selector never calls output_queue.front() on an empty queue, which is
\* undefined: whatever armed write_set, a request is still there.
FrontIsThere == selector = "send" /\ write_set => output_queue # <<>>

\* A push() wakes the selector with at most one byte, and only while nothing
\* else makes it look: the write to the pipe under selector_mutex cannot block.
OneWakeUp ==
    /\ pipe <= 1
    /\ pipe = 1 => output_queue # <<>> /\ ~write_set

\* The callback gets the events in the order Blackadder sent them, none twice,
\* and every other one is still queued or in the socket.
EventsInOrder == handled \o event_queue \o inbox = [k \in 1..arrived |-> k]

\* The library is a channel: what an application issues is what Blackadder
\* receives, what Blackadder sends is what the callback gets, one by one and in
\* order, whichever thread, queue or buffer it is in.
Ch == INSTANCE Channel WITH
        Message <- Request, Farewell <- DISCONNECT,
        requests <- output_queue, received <- sent,
        events <- event_queue \o inbox, delivered <- handled
IsChannel == Ch!ChSpec

\* While the socket stays writable, every request is sent unless the
\* application disconnects.
RequestsAreSent == (output_queue # <<>>) ~> (output_queue = <<>> \/ ~Connected)

\* Threads that wait while requests are pending do not all wait for ever: one
\* of them goes on, at the latest when the selector has emptied the queue, or
\* another one joins them.
WaitersGoOn ==
    \A W \in (SUBSET Thread) \ {{}} :
        (waiting = W /\ output_queue # <<>>) ~> (waiting # W \/ ~Connected)

-----------------------------------------------------------------------------
(***************************************************************************)
(* What the documentation promises and the code does not keep.             *)
(***************************************************************************)

\* "The worker thread unblocks, reads the event from the event_queue and calls
\* the application-defined callback method" (nb_blackadder.hpp).
EventsAreHandled == (event_queue # <<>>) ~> (event_queue = <<>> \/ ~Connected)

=============================================================================
