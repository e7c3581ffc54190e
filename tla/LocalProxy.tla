----------------------------- MODULE LocalProxy -----------------------------
(***************************************************************************)
(* The dispatcher of a Blackadder node (src/src/localproxy.cc): it records *)
(* which local application publishes and subscribes to what, speaks to the *)
(* rendezvous node for all of them together, and picks one of the local    *)
(* publishers of an item when the item has subscribers.                    *)
(*                                                                         *)
(* Click runs every packet to completion, so a request, a notification and *)
(* a disconnection are one action each.  Publishing data changes nothing;  *)
(* where it goes is the operator handleUserPublication.                    *)
(***************************************************************************)
EXTENDS Integers, Sequences, FiniteSets, SequencesExt

CONSTANTS App,        \* applications and Click elements, the LocalHost objects
          ID,         \* identifiers of scopes and items, sequences of fragments
          Item,       \* the items: each is the set of its identifiers
          Kind,       \* <<id, isScope>>: how applications name id in requests
          Strategy,   \* dissemination strategies in use
          FID,        \* forwarding identifiers that notifications carry
          ZERO,       \* the all-zero forwarding identifier
          iLID,       \* gc->iLID, the internal link of this node
          MaxInterest \* bound: publications and subscriptions in force at once

NODE_LOCAL == "node_local"
DOMAIN_LOCAL == "domain_local"
IMPLICIT_RENDEZVOUS == "implicit_rendezvous"

ASSUME LocalProxyAssumption ==
    /\ ID \subseteq Seq(STRING) \ {<<>>}
    /\ Item \subseteq SUBSET ID
    /\ \A i, j \in Item : i = j \/ i \cap j = {}
    /\ Kind \subseteq ID \X BOOLEAN
    /\ Strategy \subseteq {NODE_LOCAL, DOMAIN_LOCAL, IMPLICIT_RENDEZVOUS}
    /\ ZERO \notin FID
    /\ MaxInterest \in Nat

\* Applications agree on what is a scope and what is an item.  The code takes the
\* kind of a removal from the application that makes it.
ASSUME KindAssumption ==
    /\ \A k, l \in Kind : k[1] = l[1] => k[2] = l[2]
    /\ \A i \in Item : \A id \in i : <<id, TRUE>> \notin Kind

VARIABLES
    activePublicationIndex,  \* identifier -> its ActivePublication
    publishers,              \* <<id, a>>: a is in the publishers of id's ActivePublication
    started,                 \* those marked START_PUBLISH, the others STOP_PUBLISH
    activeSubscriptionIndex, \* identifier -> its ActiveSubscription
    subscribers,             \* <<id, a>>: a is in the subscribers of id's ActiveSubscription
    activePublications,      \* <<id, a>>: id is in the LocalHost's activePublications
    activeSubscriptions,     \* <<id, a>>: id is in the LocalHost's activeSubscriptions
    local_pub_sub_Index,     \* applications that have a LocalHost
    requested,               \* history: what the rendezvous node was asked for
    match,                   \* history: item -> FID of its last notification
    defaultRV_dl,            \* GlobalConf: FID of the path to the rendezvous node
    TMFID                    \* GlobalConf: FID of the path to the topology manager

pubVars == <<activePublicationIndex, publishers, started, activePublications>>
subVars == <<activeSubscriptionIndex, subscribers, activeSubscriptions>>
gcVars == <<defaultRV_dl, TMFID>>
vars == <<pubVars, subVars, local_pub_sub_Index, requested, match, gcVars>>

\* The strategies of requests that concern a rendezvous node.
RVStrategy == {NODE_LOCAL, DOMAIN_LOCAL}

ActivePublication ==
    [strategy : Strategy, isScope : BOOLEAN, FID_to_subscribers : FID \cup {ZERO},
     allKnownIDs : SUBSET ID]
ActiveSubscription == [strategy : Strategy, isScope : BOOLEAN]
Request == [type : {"pub", "sub"}, id : ID, isScope : BOOLEAN, strategy : Strategy]

TypeOK ==
    /\ DOMAIN activePublicationIndex \subseteq ID
    /\ \A id \in DOMAIN activePublicationIndex :
         activePublicationIndex[id] \in ActivePublication
    /\ publishers \subseteq ID \X App
    /\ started \subseteq publishers
    /\ DOMAIN activeSubscriptionIndex \subseteq ID
    /\ \A id \in DOMAIN activeSubscriptionIndex :
         activeSubscriptionIndex[id] \in ActiveSubscription
    /\ subscribers \subseteq ID \X App
    /\ activePublications \subseteq ID \X App
    /\ activeSubscriptions \subseteq ID \X App
    /\ local_pub_sub_Index \subseteq App
    /\ requested \subseteq Request
    /\ match \in [Item -> FID \cup {ZERO}]
    /\ defaultRV_dl \in FID
    /\ TMFID \in FID \cup {ZERO}

\* The configuration names the rendezvous node's FID, and may leave out TMFID.
Init ==
    /\ activePublicationIndex = <<>>
    /\ publishers = {}
    /\ started = {}
    /\ activeSubscriptionIndex = <<>>
    /\ subscribers = {}
    /\ activePublications = {}
    /\ activeSubscriptions = {}
    /\ local_pub_sub_Index = {}
    /\ requested = {}
    /\ match = [i \in Item |-> ZERO]
    /\ defaultRV_dl \in FID
    /\ TMFID \in FID \cup {ZERO}

-----------------------------------------------------------------------------
\* HashTable::set of one key, HashTable::erase of a set of keys.
SetKey(table, key, v) == [k \in DOMAIN table \cup {key} |-> IF k = key THEN v ELSE table[k]]
EraseKeys(table, S) == [k \in DOMAIN table \ S |-> table[k]]

\* The applications related to an identifier, the identifiers of an application.
HostsOf(pairs, id) == {p[2] : p \in {q \in pairs : q[1] = id}}
IDsOf(pairs, a) == {p[1] : p \in {q \in pairs : q[2] = a}}

ToRV(type, id, isScope, st) == [type |-> type, id |-> id, isScope |-> isScope, strategy |-> st]

\* The LocalHost of the sender is created before the packet is looked at.
getLocalHost(a) == local_pub_sub_Index' = local_pub_sub_Index \cup {a}

\* A request that is refused, and every publication of data, does only that.
OnlyLocalHost(a) == getLocalHost(a) /\ UNCHANGED <<pubVars, subVars, requested, match, gcVars>>

WithinInterest == Cardinality(publishers) + Cardinality(subscribers) < MaxInterest

-----------------------------------------------------------------------------
(* Requests of applications *)

\* Only the first publication of an identifier goes to the rendezvous node.
storeActivePublication(a, id, st, isScope) ==
    /\ WithinInterest
    /\ st \in RVStrategy
    /\ IF id \notin DOMAIN activePublicationIndex
       THEN /\ activePublicationIndex' =
                 SetKey(activePublicationIndex, id,
                        [strategy |-> st, isScope |-> isScope, FID_to_subscribers |-> ZERO,
                         allKnownIDs |-> {}])
            /\ requested' = requested \cup {ToRV("pub", id, isScope, st)}
       ELSE /\ activePublicationIndex[id].strategy = st
            /\ UNCHANGED <<activePublicationIndex, requested>>
    /\ publishers' = publishers \cup {<<id, a>>}
    /\ activePublications' = activePublications \cup {<<id, a>>}
    /\ getLocalHost(a)
    /\ UNCHANGED <<started, subVars, match, gcVars>>

\* Only the last removal goes to the rendezvous node, as the application put it.
removeActivePublication(a, id, st, isScope) ==
    LET left == HostsOf(publishers, id) \ {a}
    IN  /\ st \in RVStrategy
        /\ id \in DOMAIN activePublicationIndex
        /\ activePublicationIndex[id].strategy = st
        /\ activePublications' = activePublications \ {<<id, a>>}
        /\ publishers' = publishers \ {<<id, a>>}
        /\ started' = started \ {<<id, a>>}
        /\ IF left = {}
           THEN /\ activePublicationIndex' = EraseKeys(activePublicationIndex, {id})
                /\ requested' = requested \ {ToRV("pub", id, isScope, st)}
           ELSE UNCHANGED <<activePublicationIndex, requested>>
        /\ getLocalHost(a)
        /\ UNCHANGED <<subVars, match, gcVars>>

\* Subscriptions are kept for all strategies, and forwarded for two of them.
storeActiveSubscription(a, id, st, isScope) ==
    /\ WithinInterest
    /\ IF id \notin DOMAIN activeSubscriptionIndex
       THEN /\ activeSubscriptionIndex' =
                 SetKey(activeSubscriptionIndex, id, [strategy |-> st, isScope |-> isScope])
            /\ requested' = IF st \in RVStrategy
                            THEN requested \cup {ToRV("sub", id, isScope, st)} ELSE requested
       ELSE /\ activeSubscriptionIndex[id].strategy = st
            /\ UNCHANGED <<activeSubscriptionIndex, requested>>
    /\ subscribers' = subscribers \cup {<<id, a>>}
    /\ activeSubscriptions' = activeSubscriptions \cup {<<id, a>>}
    /\ getLocalHost(a)
    /\ UNCHANGED <<pubVars, match, gcVars>>

removeActiveSubscription(a, id, st, isScope) ==
    LET left == HostsOf(subscribers, id) \ {a}
    IN  /\ id \in DOMAIN activeSubscriptionIndex
        /\ activeSubscriptionIndex[id].strategy = st
        /\ activeSubscriptions' = activeSubscriptions \ {<<id, a>>}
        /\ subscribers' = subscribers \ {<<id, a>>}
        /\ IF left = {}
           THEN /\ activeSubscriptionIndex' = EraseKeys(activeSubscriptionIndex, {id})
                /\ requested' = IF st \in RVStrategy
                                THEN requested \ {ToRV("sub", id, isScope, st)} ELSE requested
           ELSE UNCHANGED <<activeSubscriptionIndex, requested>>
        /\ getLocalHost(a)
        /\ UNCHANGED <<pubVars, match, gcVars>>

handleLocalRequest(a, id, isScope, st) ==
    \/ storeActivePublication(a, id, st, isScope)
    \/ removeActivePublication(a, id, st, isScope)
    \/ storeActiveSubscription(a, id, st, isScope)
    \/ removeActiveSubscription(a, id, st, isScope)

-----------------------------------------------------------------------------
(***************************************************************************)
(* Notifications.  The rendezvous node, or the topology manager, lists all *)
(* identifiers of the item, in any order.                                  *)
(***************************************************************************)

\* Mutant: an entry only learns of identifiers that are published here.
LearnPresent(S, i, fid) ==
    activePublicationIndex' =
        [id \in DOMAIN activePublicationIndex |->
           IF id \in S THEN [activePublicationIndex[id] EXCEPT !.FID_to_subscribers = fid,
                                                               !.allKnownIDs = S]
           ELSE activePublicationIndex[id]]

\* The entries of the identifiers in S learn of the item's identifiers and FID.
Learn(S, i, fid) ==
    activePublicationIndex' =
        [id \in DOMAIN activePublicationIndex |->
           IF id \in S THEN [activePublicationIndex[id] EXCEPT !.FID_to_subscribers = fid,
                                                               !.allKnownIDs = i]
           ELSE activePublicationIndex[id]]

Present(i) == i \cap DOMAIN activePublicationIndex

\* Does an entry have a publisher marked START_PUBLISH?  (Mutant: not looked at.)
NeverStarted(id) == FALSE
IsStarted(id) == HostsOf(started, id) # {}

\* The loop updates one entry after the other until it comes to one with a
\* started publisher, that one included.  (Mutant: it stops before.)
UpdatedBefore(before, s) == before
Updated(before, s) == before \cup {s}

\* If no publisher has been started, the first one that is found is.
startPublish(i, fid) ==
    \/ \E s \in Present(i), before \in SUBSET Present(i) :
         /\ IsStarted(s)
         /\ \A id \in before : ~IsStarted(id)
         /\ Learn(Updated(before, s), i, fid)
         /\ UNCHANGED started
    \/ /\ \A id \in Present(i) : ~IsStarted(id)
       /\ Learn(Present(i), i, fid)
       /\ \E p \in publishers : p[1] \in Present(i) /\ started' = started \cup {p}

stopPublish(i) ==
    /\ Present(i) # {}
    /\ Learn(Present(i), i, ZERO)
    /\ started' = {p \in started : p[1] \notin Present(i)}

\* START_PUBLISH and STOP_PUBLISH of an item.
PublishNotification(i) ==
    /\ \/ stopPublish(i) /\ match' = [match EXCEPT ![i] = ZERO]
       \/ \E fid \in FID : startPublish(i, fid) /\ match' = [match EXCEPT ![i] = fid]
    /\ UNCHANGED <<publishers, activePublications, subVars, local_pub_sub_Index, requested,
                   gcVars>>

\* UPDATE_BA: the topology manager replaces the paths to the rendezvous node and
\* to itself.
UpdateBA(up_RVFID, up_TMFID) ==
    /\ defaultRV_dl' = up_RVFID
    /\ TMFID' = up_TMFID
    /\ UNCHANGED <<pubVars, subVars, local_pub_sub_Index, requested, match>>

\* SCOPE_PUBLISHED and SCOPE_UNPUBLISHED only pass through.
handleRVNotification ==
    \/ \E i \in Item : PublishNotification(i)
    \/ \E up_RVFID, up_TMFID \in FID : UpdateBA(up_RVFID, up_TMFID)

-----------------------------------------------------------------------------
(***************************************************************************)
(* disconnect(): every publication and subscription of the application     *)
(* goes, items before scopes; what it was the last one to have is withdrawn*)
(* at the rendezvous node under the kind the entry has.  An item that it   *)
(* was publishing is handed over to the first of its other publishers.     *)
(***************************************************************************)
\* Mutant: the entries go although other applications have them too.
LastOfAny(S, pairs, a) == S

\* The identifiers of S that no other application has.
LastOf(S, pairs, a) == {id \in S : HostsOf(pairs, id) \ {a} = {}}

\* What is withdrawn at the rendezvous node.  (Mutant: the subscriptions stay.)
WithdrawnPubs(lastPubs, lastSubs) ==
    {ToRV("pub", id, activePublicationIndex[id].isScope,
          activePublicationIndex[id].strategy) : id \in lastPubs}
Withdrawn(lastPubs, lastSubs) ==
    {ToRV("pub", id, activePublicationIndex[id].isScope,
          activePublicationIndex[id].strategy) : id \in lastPubs}
      \cup {ToRV("sub", id, activeSubscriptionIndex[id].isScope,
                 activeSubscriptionIndex[id].strategy) : id \in lastSubs}

\* The marks that remain, and the new ones.  (Mutant: no new ones.)
NoHandOver(gone, next) == started \ gone
HandOver(gone, next) == (started \ gone) \cup {<<id, next[id]>> : id \in DOMAIN next}

disconnect(a) ==
    LET pubIDs == IDsOf(activePublications, a)
        subIDs == IDsOf(activeSubscriptions, a)
        lastPubs == LastOf(pubIDs, publishers, a)
        lastSubs == LastOf(subIDs, subscribers, a)
        orphans == {id \in pubIDs \ lastPubs : /\ <<id, a>> \in started
                                               /\ ~activePublicationIndex[id].isScope}
    IN  /\ a \in local_pub_sub_Index
        /\ local_pub_sub_Index' = local_pub_sub_Index \ {a}
        /\ activePublications' = {p \in activePublications : p[2] # a}
        /\ activeSubscriptions' = {p \in activeSubscriptions : p[2] # a}
        /\ publishers' = publishers \ (pubIDs \X {a})
        /\ subscribers' = subscribers \ (subIDs \X {a})
        /\ activePublicationIndex' = EraseKeys(activePublicationIndex, lastPubs)
        /\ activeSubscriptionIndex' = EraseKeys(activeSubscriptionIndex, lastSubs)
        /\ \E next \in [orphans -> App] :
             /\ \A id \in orphans : next[id] \in HostsOf(publishers', id)
             /\ started' = HandOver(pubIDs \X {a}, next)
        /\ requested' = requested \ Withdrawn(lastPubs, lastSubs)
        /\ UNCHANGED <<match, gcVars>>

-----------------------------------------------------------------------------
Next ==
    \/ \E a \in App :
          \/ OnlyLocalHost(a)
          \/ \E k \in Kind, st \in Strategy : handleLocalRequest(a, k[1], k[2], st)
          \/ disconnect(a)
    \/ handleRVNotification

Spec == Init /\ [][Next]_vars

-----------------------------------------------------------------------------
(***************************************************************************)
(* Where requests and data go.                                             *)
(***************************************************************************)

\* publishReqToRV(): a request of strategy st goes to the RV element of this node
\* or, by this FID, over the network.
RVFID(st) == IF st = DOMAIN_LOCAL THEN defaultRV_dl ELSE ZERO
publishReqToRV(st) == [local |-> RVFID(st) \in {ZERO, iLID}, fid |-> RVFID(st)]

\* findLocalSubscribers(): under one of the identifiers, or the scope above it.
findLocalSubscribers(IDs) ==
    {a \in App : \E id \in IDs : <<id, a>> \in subscribers \/ <<Front(id), a>> \in subscribers}

\* Data that a publishes as id: to the subscribers on this node and, if there is
\* a forwarding identifier, to the network.  A fragment of an item, one level
\* below it, uses the item's.
handleUserPublication(a, id) ==
    LET own == id \in DOMAIN activePublicationIndex
        father == ~own /\ Front(id) \in DOMAIN activePublicationIndex
        ap == activePublicationIndex[IF own THEN id ELSE Front(id)]
    IN  [local |-> CASE own -> findLocalSubscribers(ap.allKnownIDs) \ {a}
                     [] father -> findLocalSubscribers({id}) \ {a}
                     [] OTHER -> {},
         network |-> (own \/ father) /\ ap.FID_to_subscribers \notin {ZERO, iLID}]

\* Data that comes with its FID (IMPLICIT_RENDEZVOUS, LINK_LOCAL, BROADCAST_IF):
\* also under what the father's other identifiers make of the name.  What local
\* applications get is not sent to the topology manager as well.
handleImplicitPublication(a, id, fid) ==
    LET known == IF Front(id) \in DOMAIN activePublicationIndex
                 THEN activePublicationIndex[Front(id)].allKnownIDs ELSE {}
        others == findLocalSubscribers({Append(f, Last(id)) : f \in known} \cup {id}) \ {a}
    IN  [local |-> others, network |-> others = {} \/ fid # TMFID]

-----------------------------------------------------------------------------
(***************************************************************************)
(* Properties                                                              *)
(***************************************************************************)

\* The entries and the LocalHost objects agree on who publishes and subscribes
\* to what, and no entry outlives its last application: disconnect() walks the
\* one and dereferences the other, and a pointer to a deleted LocalHost would
\* get the next notification.
LocalHostsAgree ==
    /\ publishers = activePublications
    /\ subscribers = activeSubscriptions
    /\ DOMAIN activePublicationIndex = {p[1] : p \in publishers}
    /\ DOMAIN activeSubscriptionIndex = {p[1] : p \in subscribers}
    /\ \A p \in publishers \cup subscribers : p[2] \in local_pub_sub_Index

\* The rendezvous node has been asked for exactly what some application of this
\* node still wants: the first request for an identifier goes out, the last
\* removal takes back the same request, whoever made it and in whatever way.
RequestsAgree ==
    requested =
        {ToRV("pub", id, activePublicationIndex[id].isScope, activePublicationIndex[id].strategy) :
            id \in DOMAIN activePublicationIndex}
        \cup {ToRV("sub", id, activeSubscriptionIndex[id].isScope,
                   activeSubscriptionIndex[id].strategy) :
                 id \in {x \in DOMAIN activeSubscriptionIndex :
                           activeSubscriptionIndex[x].strategy \in RVStrategy}}

\* Of all the applications that publish an item, under whichever of its
\* identifiers, one at most is told to publish it.
OneStarted == \A i \in Item : \A p, q \in started : p[1] \in i /\ q[1] \in i => p = q

\* The application that was told to publish an item sends to where the last
\* notification said, although the loop over the identifiers ends early.
StartedUsesLatestFID ==
    \A i \in Item : \A p \in started : p[1] \in i =>
        activePublicationIndex[p[1]].FID_to_subscribers = match[i]

\* An item has one publisher at most on this node, and it sends to the item's
\* current subscribers.
OnePublisher == OneStarted /\ StartedUsesLatestFID

\* When the application that publishes an item disconnects, another one that
\* publishes it under the same identifier takes over.
DisconnectHandsOver ==
    [][\A p \in started :
         /\ p[2] \notin local_pub_sub_Index'
         /\ p[1] \in DOMAIN activePublicationIndex'
         /\ \E i \in Item : p[1] \in i
         => \E b \in App : <<p[1], b>> \in started']_vars

\* Once an item has had a notification, its data reaches all other applications
\* of this node that subscribe to it under any of its identifiers.  A fragment
\* of it that comes with a FID reaches those that subscribe to the item itself.
NotifiedDataIsDelivered ==
    \A i \in Item : \A p \in publishers :
        p[1] \in i /\ activePublicationIndex[p[1]].allKnownIDs # {} =>
            /\ findLocalSubscribers(i) \ {p[2]} \subseteq handleUserPublication(p[2], p[1]).local
            /\ \A id \in i, name \in {Last(x) : x \in ID}, fid \in FID :
                  HostsOf(subscribers, id) \ {p[2]} \subseteq
                      handleImplicitPublication(p[2], Append(p[1], name), fid).local

=============================================================================
