------------------------------- MODULE Netlink -------------------------------
(***************************************************************************)
(* How applications and a node talk to each other: the blocking library    *)
(* (lib/blackadder.cpp), the socket, and the elements FromNetlink and      *)
(* ToNetlink of Click (src/fromnetlink.cc, src/tonetlink.cc).  In "kernel" *)
(* mode both elements have a queue, a mutex and a task; in "user" mode one *)
(* Click thread waits in select().  LocalProxy, between the two, reads a   *)
(* request and may answer any application it knows.                        *)
(*                                                                         *)
(* A message is a sequence of numbers, one for each field and for each     *)
(* fragment of an identifier; Cut stands for a fragment of the wrong size. *)
(***************************************************************************)
EXTENDS Integers, Sequences, FiniteSets, SequencesExt

CONSTANTS
  App,          \* the applications, by process id
  Separate,     \* those that call getEvent() in a thread of its own
  Setups,       \* [mode, script]: where Click runs, what the applications do
  MaxSocket     \* messages that fit in the receive buffer of a socket

ASSUME SeparateAssumption == Separate \subseteq App /\ MaxSocket \in Nat \ {0}

VARIABLES
  mode,         \* "kernel" or "user"
  script,       \* requests the applications have still to make
  sock,         \* [App -> state of sock_fd]
  calling,      \* [App -> the message its sendmsg() waits with, if any]
  received,     \* [App -> messages in its socket]
  down,         \* down_queue, or the messages in the socket of the node
  up,           \* up_queue, or out_buf_queue
  from,         \* FromNetlink: [sched, bit, pc] of its task
  to,           \* ToNetlink: likewise; sched is SELECT_WRITE in user mode
  pushing,      \* packets LocalProxy is about to push to ToNetlink
  asked, read,  \* [App -> requests accepted by the library, read by LocalProxy]
  told, got,    \* [App -> events LocalProxy pushed, events getEvent() returned]
  lost          \* [App -> number of events its socket did not take]

node == <<down, up, from, to, pushing>>
history == <<asked, read, told, got, lost>>
vars == <<mode, script, sock, calling, received, node, history>>

PUBLISH_SCOPE == 0      PUBLISH_INFO == 1
UNPUBLISH_SCOPE == 2    UNPUBLISH_INFO == 3
SUBSCRIBE_SCOPE == 4    SUBSCRIBE_INFO == 5
UNSUBSCRIBE_SCOPE == 6  UNSUBSCRIBE_INFO == 7
PUBLISH_DATA == 8       DISCONNECT == 13
START_PUBLISH == 100    PUBLISHED_DATA == 104
LINK_LOCAL == 1         DOMAIN_LOCAL == 2
IMPLICIT_RENDEZVOUS == 3
Cut == -1

Kernel == mode = "kernel"
Idle == [sched |-> FALSE, bit |-> FALSE, pc |-> "idle"]

Init ==
  /\ \E s \in Setups : mode = s.mode /\ script = s.script
  /\ sock = [a \in App |-> "none"]
  /\ calling = [a \in App |-> <<>>] /\ received = [a \in App |-> <<>>]
  /\ down = <<>> /\ up = <<>> /\ pushing = <<>>
  /\ from = Idle /\ to = Idle
  /\ asked = [a \in App |-> <<>>] /\ read = asked /\ told = asked /\ got = asked
  /\ lost = [a \in App |-> 0]

-----------------------------------------------------------------------------
(* The library.  A request is [type, id, prefix, strategy, opt, data]; opt *)
(* is <<>> for NULL.  Data come with a forwarding identifier exactly under *)
(* the strategies that take one.                                           *)

HasFID(strategy) == strategy \in {IMPLICIT_RENDEZVOUS, LINK_LOCAL}
Request ==
  {[type |-> DISCONNECT]} \cup
  {r \in [type : Int \ {DISCONNECT}, id : Seq(Int), prefix : Seq(Int), strategy : Int,
          opt : Seq(Int), data : Seq(Int)] :
     IF r.type = PUBLISH_DATA
     THEN r.prefix = <<>> /\ Len(r.opt) = IF HasFID(r.strategy) THEN 1 ELSE 0
     ELSE r.data = <<>>}

ASSUME SetupsAssumption ==
  \A s \in Setups : s.mode \in {"kernel", "user"} /\ s.script \in [App -> Seq(Request)]

ScopeRequests == {UNPUBLISH_SCOPE, SUBSCRIBE_SCOPE, UNSUBSCRIBE_SCOPE}
InfoRequests == {UNPUBLISH_INFO, SUBSCRIBE_INFO, UNSUBSCRIBE_INFO}
Whole(id) == Cut \notin Range(id)

(* The tests of the nine methods before anything is sent. *)
Accepted(r) ==
  \/ r.type = DISCONNECT
  \/ /\ Whole(r.id) /\ Whole(r.prefix)
     /\ \/ r.type = PUBLISH_DATA
        \/ r.type = PUBLISH_SCOPE /\ r.id # <<>>
        \/ r.type = PUBLISH_INFO /\ r.prefix # <<>>
        \/ r.type \in ScopeRequests /\ Len(r.id) = 1
        \/ r.type \in InfoRequests /\ Len(r.id) = 1 /\ r.prefix # <<>>

(* A string of the wrong size is sent with its length divided by           *)
(* PURSUIT_ID_LEN, rounded down.                                           *)
LengthOf(id) == Cardinality({k \in DOMAIN id : id[k] # Cut})

(* create_and_send_buffers(), publish_data() and disconnect() *)
Encode(r) ==
  CASE r.type = DISCONNECT -> <<DISCONNECT>>
    [] r.type = PUBLISH_DATA ->
         <<r.type, LengthOf(r.id)>> \o r.id \o <<r.strategy>> \o r.opt \o r.data
    [] OTHER -> <<r.type, LengthOf(r.id)>> \o r.id
                \o <<LengthOf(r.prefix)>> \o r.prefix \o <<r.strategy>> \o r.opt

(* Instance(): the object is made once, also when it was disconnected. *)
Instance(a) ==
  /\ sock[a] = "none"
  /\ sock' = [sock EXCEPT ![a] = "open"]
  /\ UNCHANGED <<mode, script, calling, received, node, history>>

(* A request is rejected, fails on the closed socket, or goes to sendmsg(). *)
Call(a) ==
  /\ sock[a] # "none" /\ calling[a] = <<>> /\ script[a] # <<>>
  /\ LET r == Head(script[a])
     IN  IF Accepted(r) /\ sock[a] = "open"
         THEN /\ calling' = [calling EXCEPT ![a] = <<Encode(r)>>]
              /\ asked' = [asked EXCEPT ![a] = Append(@, r)]
         ELSE UNCHANGED <<calling, asked>>
  /\ script' = [script EXCEPT ![a] = Tail(@)]
  /\ UNCHANGED <<mode, sock, received, node, read, told, got, lost>>

(* sendmsg() has returned; disconnect() goes on to close the socket. *)
Returns(a) ==
  /\ calling' = [calling EXCEPT ![a] = <<>>]
  /\ IF calling[a][1] = <<DISCONNECT>>
     THEN /\ sock' = [sock EXCEPT ![a] = "closed"]
          /\ received' = [received EXCEPT ![a] = <<>>]
     ELSE UNCHANGED <<sock, received>>

(* getEventIntoBuf(): what ToNetlink sent, without the netlink header *)
Event(w) ==
  LET n == w[2]
  IN  [type |-> w[1], id |-> SubSeq(w, 3, 2 + n),
       data |-> IF w[1] = PUBLISHED_DATA THEN SubSeq(w, 3 + n, Len(w)) ELSE <<>>]

GetEvent(a) ==
  /\ sock[a] = "open" /\ received[a] # <<>>
  /\ a \in Separate \/ calling[a] = <<>>
  /\ got' = [got EXCEPT ![a] = Append(@, Event(Head(received[a])))]
  /\ received' = [received EXCEPT ![a] = Tail(@)]
  /\ UNCHANGED <<mode, script, sock, calling, node, asked, read, told, lost>>

-----------------------------------------------------------------------------
(* The way down.  Queues are filled at the front and emptied at the back.  *)

Packet(a, w) == [pid |-> a, msg |-> w]

\* Mutant: packets are put where they are taken.
PushBack(q, p) == Append(q, p)
PushFront(q, p) == <<p>> \o q

\* Mutant: only the bit is set.
OnlyBit(task) == [task EXCEPT !.bit = TRUE]
(* reschedule() and set_bit() *)
Woken(task) == [task EXCEPT !.sched = TRUE, !.bit = TRUE]

DownMutexFree == from.pc \in {"idle", "clear", "lock"}

(* Kernel: sendmsg() runs nl_callback() in the context of the caller. *)
nl_callback(a) ==
  /\ Kernel /\ calling[a] # <<>> /\ DownMutexFree
  /\ down' = PushFront(down, Packet(a, calling[a][1]))
  /\ from' = Woken(from)
  /\ Returns(a)
  /\ UNCHANGED <<mode, script, up, to, pushing, history>>

(* User: sendmsg() waits for room in the socket of the node. *)
Sendmsg(a) ==
  /\ ~Kernel /\ calling[a] # <<>> /\ Len(down) < MaxSocket
  /\ down' = PushFront(down, Packet(a, calling[a][1]))
  /\ Returns(a)
  /\ UNCHANGED <<mode, script, up, from, to, pushing, history>>

(* LocalProxy::push() on port 0: the request as it is read ... *)
Decode(w) ==
  LET n == w[2]
      id == SubSeq(w, 3, 2 + n)
      m == w[3 + n]
      strategy == w[3 + n]
      rest == SubSeq(w, 4 + n, Len(w))
  IN  CASE w[1] = DISCONNECT -> [type |-> DISCONNECT]
        [] w[1] = PUBLISH_DATA ->
             [type |-> w[1], id |-> id, prefix |-> <<>>, strategy |-> strategy,
              opt |-> IF HasFID(strategy) THEN SubSeq(rest, 1, 1) ELSE <<>>,
              data |-> IF HasFID(strategy) THEN Tail(rest) ELSE rest]
        [] OTHER ->
             [type |-> w[1], id |-> id, prefix |-> SubSeq(rest, 1, m), strategy |-> rest[m + 1],
              opt |-> SubSeq(rest, m + 2, Len(rest)), data |-> <<>>]

(* ... and the event it may lead to, for some application it has heard of  *)
(* and that has not disconnected: pushDataToLocalSubscriber() or           *)
(* sendNotificationLocally().                                              *)
Known(reads) == {b \in App : reads[b] # <<>> /\ Last(reads[b]).type # DISCONNECT}
EventOf(r) ==
  IF r.type = PUBLISH_DATA THEN <<PUBLISHED_DATA, Len(r.id)>> \o r.id \o r.data
  ELSE <<START_PUBLISH, Len(r.id)>> \o r.id

Reads(p) == [read EXCEPT ![p.pid] = Append(@, Decode(p.msg))]
Answers(p) ==
  LET r == Decode(p.msg)
  IN  {<<>>} \cup (IF r.type = DISCONNECT THEN {}
                   ELSE {<<Packet(b, EventOf(r))>> : b \in Known(Reads(p))})

Handle(p, answer) ==
  /\ read' = Reads(p)
  /\ told' = IF answer = <<>> THEN told
             ELSE [told EXCEPT ![answer[1].pid] = Append(@, Event(answer[1].msg))]
  /\ UNCHANGED <<asked, got, lost>>

(* FromNetlink::run_task() *)
FromRun ==
  /\ Kernel /\ from.pc = "idle" /\ from.sched
  /\ from' = [from EXCEPT !.sched = FALSE, !.pc = "clear"]
  /\ UNCHANGED <<mode, script, sock, calling, received, down, up, to, pushing, history>>
FromClear ==
  /\ from.pc = "clear"
  /\ from' = [from EXCEPT !.bit = FALSE, !.pc = "lock"]
  /\ UNCHANGED <<mode, script, sock, calling, received, down, up, to, pushing, history>>
FromLock ==
  /\ from.pc = "lock"
  /\ from' = [from EXCEPT !.pc = "drain"]
  /\ UNCHANGED <<mode, script, sock, calling, received, down, up, to, pushing, history>>
FromDrain ==
  /\ from.pc = "drain" /\ down # <<>>
  /\ down' = Front(down)
  /\ \E answer \in Answers(Last(down)) :
       /\ Handle(Last(down), answer)
       /\ pushing' = answer
       /\ from' = [from EXCEPT !.pc = IF answer = <<>> THEN "drain" ELSE "push"]
  /\ UNCHANGED <<mode, script, sock, calling, received, up, to>>
FromEnd ==
  /\ from.pc = "drain" /\ down = <<>>
  /\ from' = [from EXCEPT !.pc = "idle", !.sched = @ \/ from.bit]
  /\ UNCHANGED <<mode, script, sock, calling, received, down, up, to, pushing, history>>

-----------------------------------------------------------------------------
(* The way up.  ToNetlink::push() in the thread of FromNetlink's task: the *)
(* task of ToNetlink is rescheduled, and the bit set, without the mutex.   *)

PushLocked ==
  /\ from.pc = "push" /\ to.pc # "drain"
  /\ up' = PushFront(up, pushing[1]) /\ pushing' = <<>>
  /\ from' = [from EXCEPT !.pc = "wake"]
  /\ UNCHANGED <<mode, script, sock, calling, received, down, to, history>>

Rescheduled(task) == [task EXCEPT !.sched = TRUE]
PushWakes ==
  /\ from.pc = "wake"
  /\ to' = Rescheduled(to)
  /\ from' = [from EXCEPT !.pc = "bit"]
  /\ UNCHANGED <<mode, script, sock, calling, received, down, up, pushing, history>>
PushMarks ==
  /\ from.pc = "bit"
  /\ to' = [to EXCEPT !.bit = TRUE]
  /\ from' = [from EXCEPT !.pc = "drain"]
  /\ UNCHANGED <<mode, script, sock, calling, received, down, up, pushing, history>>

(* ToNetlink::run_task() *)
ToRun ==
  /\ Kernel /\ to.pc = "idle" /\ to.sched
  /\ to' = [to EXCEPT !.sched = FALSE, !.pc = "clear"]
  /\ UNCHANGED <<mode, script, sock, calling, received, down, up, from, pushing, history>>
ToClear ==
  /\ to.pc = "clear"
  /\ to' = [to EXCEPT !.bit = FALSE, !.pc = "lock"]
  /\ UNCHANGED <<mode, script, sock, calling, received, down, up, from, pushing, history>>
ToLock ==
  /\ to.pc = "lock"
  /\ to' = [to EXCEPT !.pc = "drain"]
  /\ UNCHANGED <<mode, script, sock, calling, received, down, up, from, pushing, history>>

(* A packet reaches its socket or is gone; nobody looks at the result. *)
\* Mutant: a socket has room without end.
AlwaysRoom(p) == sock[p.pid] = "open"
Takes(p) == sock[p.pid] = "open" /\ Len(received[p.pid]) < MaxSocket
Deliver(p) ==
  /\ received' = IF Takes(p) THEN [received EXCEPT ![p.pid] = Append(@, p.msg)] ELSE received
  /\ lost' = IF Takes(p) THEN lost ELSE [lost EXCEPT ![p.pid] = @ + 1]

(* netlink_unicast() does not wait. *)
ToDrain ==
  /\ to.pc = "drain" /\ up # <<>>
  /\ up' = Front(up)
  /\ Deliver(Last(up))
  /\ UNCHANGED <<mode, script, sock, calling, down, from, to, pushing, asked, read, told, got>>
ToUnlock ==
  /\ to.pc = "drain" /\ up = <<>>
  /\ to' = [to EXCEPT !.pc = "test"]
  /\ UNCHANGED <<mode, script, sock, calling, received, down, up, from, pushing, history>>
ToTest ==
  /\ to.pc = "test"
  /\ to' = [to EXCEPT !.pc = "idle", !.sched = @ \/ to.bit]
  /\ UNCHANGED <<mode, script, sock, calling, received, down, up, from, pushing, history>>

-----------------------------------------------------------------------------
(* User space: selected() of both elements, in one thread. *)

Waiting == to.pc = "idle"

FromSelected ==
  /\ ~Kernel /\ Waiting /\ down # <<>>
  /\ down' = Front(down)
  /\ \E answer \in Answers(Last(down)) :
       /\ Handle(Last(down), answer)
       /\ up' = IF answer = <<>> THEN up ELSE PushFront(up, answer[1])
       /\ to' = IF answer = <<>> THEN to ELSE Rescheduled(to)
  /\ UNCHANGED <<mode, script, sock, calling, received, from, pushing>>

ToSelected ==
  /\ ~Kernel /\ Waiting /\ to.sched
  /\ to' = [to EXCEPT !.pc = "sendmsg"]
  /\ UNCHANGED <<mode, script, sock, calling, received, down, up, from, pushing, history>>

\* Mutant: sendmsg() does not wait, and the packet is removed all the same.
NeverWaits(p) == TRUE
(* sendmsg() waits for room, unless nobody has the socket open. *)
CanReturn(p) == Takes(p) \/ sock[p.pid] # "open"

\* Mutant: SELECT_WRITE is given up while there are packets.
StopsSelecting(q) == FALSE
KeepsSelecting(q) == q # <<>>

Sent ==
  /\ to.pc = "sendmsg" /\ CanReturn(Last(up))
  /\ Deliver(Last(up))
  /\ up' = Front(up)
  /\ to' = [to EXCEPT !.pc = "idle", !.sched = KeepsSelecting(Front(up))]
  /\ UNCHANGED <<mode, script, sock, calling, down, from, pushing, asked, read, told, got>>

-----------------------------------------------------------------------------
FromTask == \/ FromRun \/ FromClear \/ FromLock \/ FromDrain \/ FromEnd
            \/ PushLocked \/ PushWakes \/ PushMarks
ToTask == ToRun \/ ToClear \/ ToLock \/ ToDrain \/ ToUnlock \/ ToTest

Next ==
  \/ \E a \in App : Instance(a) \/ Call(a) \/ nl_callback(a) \/ Sendmsg(a) \/ GetEvent(a)
  \/ FromTask \/ ToTask
  \/ FromSelected \/ ToSelected \/ Sent

(* Click runs scheduled tasks and selected() again and again, a sendmsg()  *)
(* that can return does, and applications read their events.               *)
Fairness ==
  /\ WF_vars(FromTask) /\ WF_vars(ToTask)
  /\ WF_vars(FromSelected) /\ WF_vars(ToSelected \/ Sent)
  /\ \A a \in App : WF_vars(nl_callback(a) \/ Sendmsg(a)) /\ WF_vars(GetEvent(a))

Spec == Init /\ [][Next]_vars /\ Fairness

-----------------------------------------------------------------------------
(* Properties *)

TaskType == [sched : BOOLEAN, bit : BOOLEAN,
             pc : {"idle", "clear", "lock", "drain", "push", "wake", "bit", "test", "sendmsg"}]

(* The elements' state is well formed; a socket in user space never holds  *)
(* more than its buffer, and a closed socket nothing.                      *)
TypeOK ==
  /\ from \in TaskType /\ to \in TaskType
  /\ \A a \in App : /\ Len(received[a]) <= (IF sock[a] = "open" THEN MaxSocket ELSE 0)
                     /\ Len(calling[a]) <= 1
  /\ ~Kernel => Len(down) <= MaxSocket /\ from = Idle /\ pushing = <<>>
  /\ from.pc = "push" <=> pushing # <<>>
  /\ Range(down) \cup Range(up) \cup Range(pushing) \subseteq [pid : App, msg : Seq(Int)]

(* The packets of application a in a queue, the one taken first in front. *)
Of(a, q) ==
  LET Oldest[n \in 0 .. Len(q)] ==
        IF n = 0 THEN <<>>
        ELSE LET p == q[Len(q) + 1 - n]
             IN  IF p.pid = a THEN Append(Oldest[n - 1], p) ELSE Oldest[n - 1]
  IN  Oldest[Len(q)]
Read(a, q) == [k \in DOMAIN Of(a, q) |-> Decode(Of(a, q)[k].msg)]
InTransit(a) == [k \in DOMAIN calling[a] |-> Decode(calling[a][k])]

(* Requests of an application are read by LocalProxy in the order in which *)
(* they were made, none is lost or read twice, and with the fields the     *)
(* application gave: what one side writes and the other reads agree.       *)
RequestsArriveAsAsked ==
  \A a \in App : read[a] \o Read(a, down) \o InTransit(a) = asked[a]

Events(q) == [k \in DOMAIN q |-> Event(q[k])]
Up(a) == Events([k \in DOMAIN Of(a, up) |-> Of(a, up)[k].msg])
Pushed(a) == IF from.pc = "push" /\ pushing[1].pid = a THEN <<Event(pushing[1].msg)>> ELSE <<>>

(* Events reach an application in order, without a gap unless its socket   *)
(* did not take one; in user space, where sendmsg() waits, no event of an  *)
(* application that is connected is ever lost.                             *)
EventsAreKept ==
  \A a \in App :
    /\ sock[a] = "open" /\ lost[a] = 0 =>
         got[a] \o Events(received[a]) \o Up(a) \o Pushed(a) = told[a]
    /\ sock[a] = "open" /\ ~Kernel => lost[a] = 0

(* No wakeup is lost: while a queue holds packets its task is scheduled or *)
(* running, or the thread that filled it is about to reschedule it; in     *)
(* user space SELECT_WRITE is asked for exactly while packets wait, so     *)
(* that selected() never finds the queue empty.                            *)
NoLostWakeup ==
  /\ Kernel /\ down # <<>> => from.sched \/ from.pc # "idle"
  /\ Kernel /\ up # <<>> => to.sched \/ to.pc \in {"clear", "lock", "drain"} \/ from.pc = "wake"
  /\ ~Kernel => (to.sched <=> up # <<>>)

(* Everyone waits for everyone: Click for room in the socket of an         *)
(* application that waits for room in Click's socket and has no other      *)
(* thread that would read its events.                                      *)
Stuck ==
  /\ to.pc = "sendmsg" /\ Len(down) = MaxSocket
  /\ LET a == Last(up).pid
     IN  a \notin Separate /\ calling[a] # <<>> /\ Len(received[a]) = MaxSocket

(* Every request the library accepted is read by LocalProxy in the end.    *)
(* The one exception is the wait for each other described above.           *)
RequestsAreRead ==
  \A a \in App : (read[a] # asked[a]) ~> (read[a] = asked[a] \/ Stuck)
=============================================================================
