-------------------------- MODULE LocalProxyProofs --------------------------
(***************************************************************************)
(* What holds of the dispatcher for any applications, identifiers, items,  *)
(* strategies and forwarding identifiers.                                  *)
(***************************************************************************)
EXTENDS LocalProxy, TLAPS

-----------------------------------------------------------------------------
(* Relations *)

\* An application is related to an identifier by a pair of the relation.
LEMMA HostsOfFacts ==
    ASSUME NEW R \in SUBSET (ID \X App), NEW id, NEW a
    PROVE  a \in HostsOf(R, id) <=> <<id, a>> \in R
  BY DEF HostsOf

LEMMA FirstsFacts ==
    ASSUME NEW R \in SUBSET (ID \X App), NEW id
    PROVE  id \in {p[1] : p \in R} <=> \E b \in App : <<id, b>> \in R
<1>1. ASSUME NEW p \in R, p[1] = id PROVE \E b \in App : <<id, b>> \in R
  <2>1. p = <<id, p[2]>> /\ p[2] \in App
    BY <1>1
  <2> QED BY <2>1
<1>2. ASSUME NEW b \in App, <<id, b>> \in R PROVE id \in {p[1] : p \in R}
  BY <1>2
<1> QED BY <1>1, <1>2

LEMMA FirstsWithOneMore ==
    ASSUME NEW R, NEW id, NEW a
    PROVE  {p[1] : p \in R \cup {<<id, a>>}} = {p[1] : p \in R} \cup {id}
<1>1. <<id, a>>[1] = id
  OBVIOUS
<1> QED BY <1>1, Zenon

LEMMA IDsOfFacts ==
    ASSUME NEW R \in SUBSET (ID \X App), NEW id, NEW a
    PROVE  id \in IDsOf(R, a) <=> <<id, a>> \in R
  BY DEF IDsOf

-----------------------------------------------------------------------------
(* Type correctness *)

LEMMA InitTypes == Init => TypeOK
  BY LocalProxyAssumption DEF Init, TypeOK

\* Requests of applications keep the types.
LEMMA RequestTypes ==
    ASSUME TypeOK, NEW a \in App, NEW k \in Kind, NEW st \in Strategy,
           handleLocalRequest(a, k[1], k[2], st)
    PROVE  TypeOK'
<1> DEFINE id == k[1]
           isScope == k[2]
<1>1. id \in ID /\ isScope \in BOOLEAN
  BY LocalProxyAssumption
<1>2. <<id, a>> \in ID \X App
  BY <1>1
<1> HIDE DEF id, isScope
<1>3. handleLocalRequest(a, id, isScope, st)
  BY DEF id, isScope
<1>4. CASE storeActivePublication(a, id, st, isScope)
  <2>1. /\ DOMAIN activePublicationIndex' \subseteq ID
        /\ \A x \in DOMAIN activePublicationIndex' :
             activePublicationIndex'[x] \in ActivePublication
    <3> DEFINE e == [strategy |-> st, isScope |-> isScope, FID_to_subscribers |-> ZERO,
                     allKnownIDs |-> {}]
    <3>1. e \in ActivePublication
      BY <1>1 DEF ActivePublication
    <3>2. CASE id \notin DOMAIN activePublicationIndex
      <4>1. activePublicationIndex' = SetKey(activePublicationIndex, id, e)
        BY <1>4, <3>2 DEF storeActivePublication
      <4> HIDE DEF e
      <4> QED BY <1>1, <3>1, <4>1 DEF TypeOK, SetKey
    <3>3. CASE id \in DOMAIN activePublicationIndex
      BY <1>4, <3>3 DEF TypeOK, storeActivePublication
    <3> QED BY <3>2, <3>3
  <2>2. requested' \subseteq Request
    BY <1>1, <1>4 DEF TypeOK, storeActivePublication, ToRV, Request
  <2> QED BY <1>2, <1>4, <2>1, <2>2
          DEF TypeOK, storeActivePublication, getLocalHost, subVars, gcVars
<1>5. CASE removeActivePublication(a, id, st, isScope)
  <2>1. /\ DOMAIN activePublicationIndex' \subseteq ID
        /\ \A x \in DOMAIN activePublicationIndex' :
             activePublicationIndex'[x] \in ActivePublication
    <3>1. \/ activePublicationIndex' = EraseKeys(activePublicationIndex, {id})
          \/ activePublicationIndex' = activePublicationIndex
      BY <1>5 DEF removeActivePublication
    <3> QED BY <3>1 DEF TypeOK, EraseKeys
  <2>2. requested' \subseteq Request
    BY <1>5 DEF TypeOK, removeActivePublication
  <2> QED BY <1>2, <1>5, <2>1, <2>2
          DEF TypeOK, removeActivePublication, getLocalHost, subVars, gcVars
<1>6. CASE storeActiveSubscription(a, id, st, isScope)
  <2>1. /\ DOMAIN activeSubscriptionIndex' \subseteq ID
        /\ \A x \in DOMAIN activeSubscriptionIndex' :
             activeSubscriptionIndex'[x] \in ActiveSubscription
    <3> DEFINE e == [strategy |-> st, isScope |-> isScope]
    <3>1. e \in ActiveSubscription
      BY <1>1 DEF ActiveSubscription
    <3>2. CASE id \notin DOMAIN activeSubscriptionIndex
      <4>1. activeSubscriptionIndex' = SetKey(activeSubscriptionIndex, id, e)
        BY <1>6, <3>2 DEF storeActiveSubscription
      <4> HIDE DEF e
      <4> QED BY <1>1, <3>1, <4>1 DEF TypeOK, SetKey
    <3>3. CASE id \in DOMAIN activeSubscriptionIndex
      BY <1>6, <3>3 DEF TypeOK, storeActiveSubscription
    <3> QED BY <3>2, <3>3
  <2>2. requested' \subseteq Request
    BY <1>1, <1>6 DEF TypeOK, storeActiveSubscription, ToRV, Request
  <2> QED BY <1>2, <1>6, <2>1, <2>2
          DEF TypeOK, storeActiveSubscription, getLocalHost, pubVars, gcVars
<1>7. CASE removeActiveSubscription(a, id, st, isScope)
  <2>1. /\ DOMAIN activeSubscriptionIndex' \subseteq ID
        /\ \A x \in DOMAIN activeSubscriptionIndex' :
             activeSubscriptionIndex'[x] \in ActiveSubscription
    <3>1. \/ activeSubscriptionIndex' = EraseKeys(activeSubscriptionIndex, {id})
          \/ activeSubscriptionIndex' = activeSubscriptionIndex
      BY <1>7 DEF removeActiveSubscription
    <3> QED BY <3>1 DEF TypeOK, EraseKeys
  <2>2. requested' \subseteq Request
    BY <1>7 DEF TypeOK, removeActiveSubscription
  <2> QED BY <1>2, <1>7, <2>1, <2>2
          DEF TypeOK, removeActiveSubscription, getLocalHost, pubVars, gcVars
<1> QED BY <1>3, <1>4, <1>5, <1>6, <1>7 DEF handleLocalRequest

\* A notification rewrites entries that exist, and what the rest of its action
\* needs to know of them.
LEMMA LearnFacts ==
    ASSUME TypeOK, NEW i \in Item, NEW S \in SUBSET Present(i), NEW fid \in FID \cup {ZERO},
           Learn(S, i, fid)
    PROVE  /\ DOMAIN activePublicationIndex' = DOMAIN activePublicationIndex
           /\ \A x \in DOMAIN activePublicationIndex :
                /\ activePublicationIndex'[x] \in ActivePublication
                /\ activePublicationIndex'[x].isScope = activePublicationIndex[x].isScope
                /\ activePublicationIndex'[x].strategy = activePublicationIndex[x].strategy
<1>1. i \subseteq ID
  BY LocalProxyAssumption
<1>2. \A x \in DOMAIN activePublicationIndex :
        activePublicationIndex'[x] =
            IF x \in S THEN [activePublicationIndex[x] EXCEPT !.FID_to_subscribers = fid,
                                                              !.allKnownIDs = i]
            ELSE activePublicationIndex[x]
  BY DEF Learn
<1>3. DOMAIN activePublicationIndex' = DOMAIN activePublicationIndex
  BY DEF Learn
<1> QED BY <1>1, <1>2, <1>3 DEF TypeOK, ActivePublication

\* The two notifications, as far as they concern entries and marks.
LEMMA NotificationFacts ==
    ASSUME TypeOK, NEW i \in Item, PublishNotification(i)
    PROVE  /\ DOMAIN activePublicationIndex' = DOMAIN activePublicationIndex
           /\ \A x \in DOMAIN activePublicationIndex :
                /\ activePublicationIndex'[x] \in ActivePublication
                /\ activePublicationIndex'[x].isScope = activePublicationIndex[x].isScope
                /\ activePublicationIndex'[x].strategy = activePublicationIndex[x].strategy
           /\ started' \subseteq publishers
<1>1. CASE stopPublish(i)
  BY <1>1, LearnFacts DEF stopPublish, TypeOK
<1>2. ASSUME NEW fid \in FID, startPublish(i, fid)
      PROVE  /\ \E S \in SUBSET Present(i) : Learn(S, i, fid)
             /\ started' \subseteq publishers
  BY <1>2 DEF startPublish, Updated, TypeOK
<1> QED BY <1>1, <1>2, LearnFacts DEF PublishNotification

LEMMA NotificationTypes ==
    ASSUME TypeOK, NEW i \in Item, PublishNotification(i)
    PROVE  TypeOK'
<1>1. match' \in [Item -> FID \cup {ZERO}]
  BY DEF PublishNotification, TypeOK
<1> QED BY <1>1, NotificationFacts DEF PublishNotification, TypeOK, subVars, gcVars

\* Hand-over only ever marks an application that publishes the identifier.
LEMMA DisconnectTypes ==
    ASSUME TypeOK, NEW a \in App, disconnect(a)
    PROVE  TypeOK'
<1> DEFINE pubIDs == IDsOf(activePublications, a)
           lastPubs == LastOf(pubIDs, publishers, a)
           lastSubs == LastOf(IDsOf(activeSubscriptions, a), subscribers, a)
           orphans == {id \in pubIDs \ lastPubs : /\ <<id, a>> \in started
                                                  /\ ~activePublicationIndex[id].isScope}
<1>1. /\ publishers' \subseteq ID \X App
      /\ subscribers' \subseteq ID \X App
      /\ activePublications' \subseteq ID \X App
      /\ activeSubscriptions' \subseteq ID \X App
      /\ local_pub_sub_Index' \subseteq App
      /\ requested' \subseteq Request
      /\ match' = match
      /\ UNCHANGED <<defaultRV_dl, TMFID>>
  BY DEF disconnect, TypeOK, gcVars
<1>2. started' \subseteq publishers'
  <2>1. PICK next \in [orphans -> App] :
          /\ \A id \in orphans : next[id] \in HostsOf(publishers', id)
          /\ started' = HandOver(pubIDs \X {a}, next)
    BY DEF disconnect
  <2>2. \A id \in orphans : <<id, next[id]>> \in publishers'
    BY <1>1, <2>1, HostsOfFacts
  <2>3. publishers' = publishers \ (pubIDs \X {a})
    BY DEF disconnect
  <2>4. started' = (started \ (pubIDs \X {a})) \cup {<<id, next[id]>> : id \in orphans}
    BY <2>1 DEF HandOver
  <2> HIDE DEF pubIDs, orphans
  <2> QED BY <2>2, <2>3, <2>4 DEF TypeOK
<1>3. /\ DOMAIN activePublicationIndex' \subseteq ID
      /\ \A x \in DOMAIN activePublicationIndex' :
           activePublicationIndex'[x] \in ActivePublication
  <2>1. activePublicationIndex' = EraseKeys(activePublicationIndex, lastPubs)
    BY DEF disconnect
  <2> HIDE DEF lastPubs, lastSubs
  <2> QED BY <2>1 DEF TypeOK, EraseKeys
<1>4. /\ DOMAIN activeSubscriptionIndex' \subseteq ID
      /\ \A x \in DOMAIN activeSubscriptionIndex' :
           activeSubscriptionIndex'[x] \in ActiveSubscription
  <2>1. activeSubscriptionIndex' = EraseKeys(activeSubscriptionIndex, lastSubs)
    BY DEF disconnect
  <2> HIDE DEF lastPubs, lastSubs
  <2> QED BY <2>1 DEF TypeOK, EraseKeys
<1> QED BY <1>1, <1>2, <1>3, <1>4 DEF TypeOK

LEMMA StepTypes == TypeOK /\ [Next]_vars => TypeOK'
<1> SUFFICES ASSUME TypeOK, [Next]_vars PROVE TypeOK'
  OBVIOUS
<1>1. ASSUME NEW a \in App, OnlyLocalHost(a) PROVE TypeOK'
  BY <1>1 DEF OnlyLocalHost, getLocalHost, TypeOK, pubVars, subVars, gcVars
<1>2. ASSUME NEW rv \in FID, NEW tm \in FID, UpdateBA(rv, tm) PROVE TypeOK'
  BY <1>2 DEF UpdateBA, TypeOK, pubVars, subVars
<1>3. CASE UNCHANGED vars
  BY <1>3 DEF TypeOK, vars, pubVars, subVars, gcVars
<1> QED BY <1>1, <1>2, <1>3, RequestTypes, DisconnectTypes, NotificationTypes
        DEF Next, handleRVNotification

\* The dispatcher's tables keep their types; in particular only an application
\* that publishes an identifier is ever marked START_PUBLISH for it.
THEOREM TypeCorrect == Spec => []TypeOK
  BY InitTypes, StepTypes, PTL DEF Spec

-----------------------------------------------------------------------------
(***************************************************************************)
(* The entries and the LocalHost objects.  LocalHostsAgree is inductive    *)
(* once the types are known.                                               *)
(***************************************************************************)

\* What the entries and the records say of publications, and of subscriptions.
PublishersAgree ==
    /\ publishers = activePublications
    /\ DOMAIN activePublicationIndex = {p[1] : p \in publishers}
SubscribersAgree ==
    /\ subscribers = activeSubscriptions
    /\ DOMAIN activeSubscriptionIndex = {p[1] : p \in subscribers}
HostsExist == \A p \in publishers \cup subscribers : p[2] \in local_pub_sub_Index

\* Requests of applications change entries and records together.
LEMMA RequestAgrees ==
    ASSUME TypeOK, LocalHostsAgree, NEW a \in App, NEW id \in ID, NEW isScope,
           NEW st \in Strategy, handleLocalRequest(a, id, isScope, st)
    PROVE  LocalHostsAgree'
<1> USE DEF LocalHostsAgree, TypeOK
<1>1. CASE storeActivePublication(a, id, st, isScope)
  <2>1. DOMAIN activePublicationIndex' = DOMAIN activePublicationIndex \cup {id}
    BY <1>1 DEF storeActivePublication, SetKey
  <2>2. publishers' = publishers \cup {<<id, a>>}
    BY <1>1 DEF storeActivePublication
  <2>3. DOMAIN activePublicationIndex' = {p[1] : p \in publishers'}
    <3>1. {p[1] : p \in publishers \cup {<<id, a>>}} = {p[1] : p \in publishers} \cup {id}
      BY FirstsWithOneMore
    <3>2. DOMAIN activePublicationIndex = {p[1] : p \in publishers}
      BY DEF LocalHostsAgree
    <3> QED BY <2>1, <2>2, <3>1, <3>2
  <2> QED BY <1>1, <2>3 DEF storeActivePublication, getLocalHost, subVars
<1>2. CASE removeActivePublication(a, id, st, isScope)
  <2>1. publishers' = publishers \ {<<id, a>>}
    BY <1>2 DEF removeActivePublication
  <2>2. DOMAIN activePublicationIndex' = {p[1] : p \in publishers'}
    <3>1. CASE HostsOf(publishers, id) \ {a} = {}
      <4>1. DOMAIN activePublicationIndex' = DOMAIN activePublicationIndex \ {id}
        BY <1>2, <3>1 DEF removeActivePublication, EraseKeys
      <4>2. \A b \in App : <<id, b>> \in publishers => b = a
        BY <3>1, HostsOfFacts
      <4> QED BY <2>1, <4>1, <4>2
    <3>2. CASE HostsOf(publishers, id) \ {a} # {}
      <4>1. activePublicationIndex' = activePublicationIndex
        BY <1>2, <3>2 DEF removeActivePublication
      <4>2. PICK b : b # a /\ <<id, b>> \in publishers
        BY <3>2, HostsOfFacts
      <4> QED BY <2>1, <4>1, <4>2
    <3> QED BY <3>1, <3>2
  <2> QED BY <1>2, <2>2 DEF removeActivePublication, getLocalHost, subVars
<1>3. CASE storeActiveSubscription(a, id, st, isScope)
  <2>1. DOMAIN activeSubscriptionIndex' = DOMAIN activeSubscriptionIndex \cup {id}
    BY <1>3 DEF storeActiveSubscription, SetKey
  <2>2. subscribers' = subscribers \cup {<<id, a>>}
    BY <1>3 DEF storeActiveSubscription
  <2>3. DOMAIN activeSubscriptionIndex' = {p[1] : p \in subscribers'}
    <3>1. {p[1] : p \in subscribers \cup {<<id, a>>}} = {p[1] : p \in subscribers} \cup {id}
      BY FirstsWithOneMore
    <3>2. DOMAIN activeSubscriptionIndex = {p[1] : p \in subscribers}
      BY DEF LocalHostsAgree
    <3> QED BY <2>1, <2>2, <3>1, <3>2
  <2> QED BY <1>3, <2>3 DEF storeActiveSubscription, getLocalHost, pubVars
<1>4. CASE removeActiveSubscription(a, id, st, isScope)
  <2>1. subscribers' = subscribers \ {<<id, a>>}
    BY <1>4 DEF removeActiveSubscription
  <2>2. DOMAIN activeSubscriptionIndex' = {p[1] : p \in subscribers'}
    <3>1. CASE HostsOf(subscribers, id) \ {a} = {}
      <4>1. DOMAIN activeSubscriptionIndex' = DOMAIN activeSubscriptionIndex \ {id}
        BY <1>4, <3>1 DEF removeActiveSubscription, EraseKeys
      <4>2. \A b \in App : <<id, b>> \in subscribers => b = a
        BY <3>1, HostsOfFacts
      <4> QED BY <2>1, <4>1, <4>2
    <3>2. CASE HostsOf(subscribers, id) \ {a} # {}
      <4>1. activeSubscriptionIndex' = activeSubscriptionIndex
        BY <1>4, <3>2 DEF removeActiveSubscription
      <4>2. PICK b : b # a /\ <<id, b>> \in subscribers
        BY <3>2, HostsOfFacts
      <4> QED BY <2>1, <4>1, <4>2
    <3> QED BY <3>1, <3>2
  <2> QED BY <1>4, <2>2 DEF removeActiveSubscription, getLocalHost, pubVars
<1> QED BY <1>1, <1>2, <1>3, <1>4 DEF handleLocalRequest

\* The entries of the identifiers that an application was the last to have go,
\* the others keep somebody else: for publications and subscriptions alike.
LEMMA RemainingIDs ==
    ASSUME NEW R \in SUBSET (ID \X App), NEW a \in App
    PROVE  {p[1] : p \in R} \ LastOf(IDsOf(R, a), R, a) =
              {p[1] : p \in R \ (IDsOf(R, a) \X {a})}
<1> DEFINE Rest == R \ (IDsOf(R, a) \X {a})
<1>1. Rest \in SUBSET (ID \X App)
  OBVIOUS
<1>2. ASSUME NEW id, NEW b \in App PROVE <<id, b>> \in Rest <=> b # a /\ <<id, b>> \in R
  BY IDsOfFacts
<1>3. ASSUME NEW id PROVE id \in LastOf(IDsOf(R, a), R, a) <=>
                            <<id, a>> \in R /\ \A b \in App : <<id, b>> \in R => b = a
  <2>1. id \in IDsOf(R, a) <=> <<id, a>> \in R
    BY IDsOfFacts
  <2>2. HostsOf(R, id) \subseteq App
    BY DEF HostsOf
  <2>3. HostsOf(R, id) \ {a} = {} <=> \A b \in App : <<id, b>> \in R => b = a
    BY <2>2, HostsOfFacts
  <2> QED BY <2>1, <2>3 DEF LastOf
<1> HIDE DEF Rest
<1>4. ASSUME NEW id PROVE id \in {p[1] : p \in Rest} <=>
                            id \in {p[1] : p \in R} \ LastOf(IDsOf(R, a), R, a)
  <2>1. id \in {p[1] : p \in Rest} <=> \E b \in App : <<id, b>> \in Rest
    BY <1>1, FirstsFacts
  <2>2. id \in {p[1] : p \in R} <=> \E b \in App : <<id, b>> \in R
    BY FirstsFacts
  <2> QED BY <1>2, <1>3, <2>1, <2>2
<1>5. {p[1] : p \in Rest} = {p[1] : p \in R} \ LastOf(IDsOf(R, a), R, a)
  BY <1>4
<1> QED BY <1>5 DEF Rest

LEMMA DisconnectAgrees ==
    ASSUME TypeOK, LocalHostsAgree, NEW a \in App, disconnect(a)
    PROVE  LocalHostsAgree'
<1>1. PublishersAgree'
  <2>1. /\ publishers' = publishers \ (IDsOf(publishers, a) \X {a})
        /\ activePublications' = {p \in publishers : p[2] # a}
        /\ activePublicationIndex' =
             EraseKeys(activePublicationIndex, LastOf(IDsOf(publishers, a), publishers, a))
    BY DEF disconnect, LocalHostsAgree
  <2>2. publishers' = activePublications'
    BY <2>1, IDsOfFacts DEF TypeOK
  <2>3. DOMAIN activePublicationIndex' =
          {p[1] : p \in publishers} \ LastOf(IDsOf(publishers, a), publishers, a)
    BY <2>1 DEF EraseKeys, LocalHostsAgree
  <2>4. DOMAIN activePublicationIndex' = {p[1] : p \in publishers'}
    BY <2>1, <2>3, RemainingIDs DEF TypeOK
  <2> QED BY <2>2, <2>4 DEF PublishersAgree
<1>2. SubscribersAgree'
  <2>1. /\ subscribers' = subscribers \ (IDsOf(subscribers, a) \X {a})
        /\ activeSubscriptions' = {p \in subscribers : p[2] # a}
        /\ activeSubscriptionIndex' =
             EraseKeys(activeSubscriptionIndex, LastOf(IDsOf(subscribers, a), subscribers, a))
    BY DEF disconnect, LocalHostsAgree
  <2>2. subscribers' = activeSubscriptions'
    BY <2>1, IDsOfFacts DEF TypeOK
  <2>3. DOMAIN activeSubscriptionIndex' =
          {p[1] : p \in subscribers} \ LastOf(IDsOf(subscribers, a), subscribers, a)
    BY <2>1 DEF EraseKeys, LocalHostsAgree
  <2>4. DOMAIN activeSubscriptionIndex' = {p[1] : p \in subscribers'}
    BY <2>1, <2>3, RemainingIDs DEF TypeOK
  <2> QED BY <2>2, <2>4 DEF SubscribersAgree
<1>3. HostsExist'
  <2>1. /\ publishers' = {p \in publishers : p[2] # a}
        /\ subscribers' = {p \in subscribers : p[2] # a}
    BY <1>1, <1>2 DEF PublishersAgree, SubscribersAgree, disconnect, LocalHostsAgree
  <2>2. local_pub_sub_Index' = local_pub_sub_Index \ {a}
    BY DEF disconnect
  <2> QED BY <2>1, <2>2 DEF HostsExist, LocalHostsAgree
<1> QED BY <1>1, <1>2, <1>3
        DEF LocalHostsAgree, PublishersAgree, SubscribersAgree, HostsExist

LEMMA StepAgrees == TypeOK /\ LocalHostsAgree /\ [Next]_vars => LocalHostsAgree'
<1> SUFFICES ASSUME TypeOK, LocalHostsAgree, [Next]_vars PROVE LocalHostsAgree'
  OBVIOUS
<1>1. ASSUME NEW a \in App, OnlyLocalHost(a) PROVE LocalHostsAgree'
  BY <1>1 DEF OnlyLocalHost, getLocalHost, LocalHostsAgree, pubVars, subVars
<1>2. ASSUME NEW k \in Kind PROVE k[1] \in ID
  BY LocalProxyAssumption
<1>3. ASSUME NEW i \in Item, PublishNotification(i) PROVE LocalHostsAgree'
  BY <1>3, NotificationFacts DEF PublishNotification, LocalHostsAgree, subVars
<1>4. ASSUME NEW rv, NEW tm, UpdateBA(rv, tm) PROVE LocalHostsAgree'
  BY <1>4 DEF UpdateBA, LocalHostsAgree, pubVars, subVars
<1>5. CASE UNCHANGED vars
  BY <1>5 DEF LocalHostsAgree, vars, pubVars, subVars
<1> QED BY <1>1, <1>2, <1>3, <1>4, <1>5, RequestAgrees, DisconnectAgrees
        DEF Next, handleRVNotification

\* The entries and the LocalHost objects always agree, so disconnect() never
\* dereferences an entry that is gone and no entry keeps a deleted LocalHost.
THEOREM HostsAgree == Spec => []LocalHostsAgree
<1>1. Init => LocalHostsAgree
  BY DEF Init, LocalHostsAgree
<1> QED BY <1>1, TypeCorrect, StepAgrees, PTL DEF Spec

-----------------------------------------------------------------------------
(***************************************************************************)
(* The rendezvous node.  An application removes an interest with the kind  *)
(* it uses itself, so RequestsAgree is inductive only together with the    *)
(* fact that entries have the kind that applications agree on.             *)
(***************************************************************************)
EntriesHaveTheirKind ==
    /\ \A id \in DOMAIN activePublicationIndex :
         /\ <<id, activePublicationIndex[id].isScope>> \in Kind
         /\ activePublicationIndex[id].strategy \in RVStrategy
    /\ \A id \in DOMAIN activeSubscriptionIndex :
         <<id, activeSubscriptionIndex[id].isScope>> \in Kind

\* r is what somebody still wants, as a publisher or as a subscriber.
WantedPub(r) ==
    /\ r.type = "pub"
    /\ r.id \in DOMAIN activePublicationIndex
    /\ r.isScope = activePublicationIndex[r.id].isScope
    /\ r.strategy = activePublicationIndex[r.id].strategy
WantedSub(r) ==
    /\ r.type = "sub"
    /\ r.id \in DOMAIN activeSubscriptionIndex
    /\ r.isScope = activeSubscriptionIndex[r.id].isScope
    /\ r.strategy = activeSubscriptionIndex[r.id].strategy
    /\ r.strategy \in RVStrategy

\* RequestsAgree, request by request.
AskedIffWanted == \A r \in Request : r \in requested <=> WantedPub(r) \/ WantedSub(r)

LEMMA RequestsPointwise == TypeOK => (RequestsAgree <=> AskedIffWanted)
<1> SUFFICES ASSUME TypeOK PROVE RequestsAgree <=> AskedIffWanted
  OBVIOUS
<1> DEFINE P == {ToRV("pub", id, activePublicationIndex[id].isScope,
                      activePublicationIndex[id].strategy) : id \in DOMAIN activePublicationIndex}
           Q == {ToRV("sub", id, activeSubscriptionIndex[id].isScope,
                      activeSubscriptionIndex[id].strategy) :
                   id \in {x \in DOMAIN activeSubscriptionIndex :
                             activeSubscriptionIndex[x].strategy \in RVStrategy}}
<1>1. P \subseteq Request /\ Q \subseteq Request
  BY DEF TypeOK, Request, ToRV, ActivePublication, ActiveSubscription
<1>2. \A r \in Request : r \in P <=> WantedPub(r)
  BY DEF TypeOK, Request, ToRV, WantedPub
<1>3. \A r \in Request : r \in Q <=> WantedSub(r)
  BY DEF TypeOK, Request, ToRV, WantedSub
<1>4. RequestsAgree <=> requested = P \cup Q
  BY DEF RequestsAgree
<1> HIDE DEF P, Q
<1> QED BY <1>1, <1>2, <1>3, <1>4 DEF TypeOK, AskedIffWanted

\* A first request adds an entry and its request, a last one removes both, and
\* all others change neither.
LEMMA RequestForwards ==
    ASSUME TypeOK, EntriesHaveTheirKind, AskedIffWanted, NEW a \in App, NEW k \in Kind,
           NEW st \in Strategy, handleLocalRequest(a, k[1], k[2], st)
    PROVE  EntriesHaveTheirKind' /\ AskedIffWanted'
<1> DEFINE id == k[1]
           isScope == k[2]
<1>1. id \in ID /\ isScope \in BOOLEAN /\ <<id, isScope>> \in Kind
  BY LocalProxyAssumption
<1>2. \A x : <<id, x>> \in Kind => x = isScope
  BY <1>1, KindAssumption
<1>3. handleLocalRequest(a, id, isScope, st)
  OBVIOUS
<1> HIDE DEF id, isScope
<1>4. \A type : \A r \in Request : r = ToRV(type, id, isScope, st) <=>
        r.type = type /\ r.id = id /\ r.isScope = isScope /\ r.strategy = st
  BY DEF Request, ToRV
<1>5. CASE storeActivePublication(a, id, st, isScope)
  <2>1. CASE id \in DOMAIN activePublicationIndex
    BY <1>5, <2>1 DEF storeActivePublication, EntriesHaveTheirKind, AskedIffWanted, WantedPub,
                      WantedSub, subVars
  <2>2. CASE id \notin DOMAIN activePublicationIndex
    <3>1. /\ DOMAIN activePublicationIndex' = DOMAIN activePublicationIndex \cup {id}
          /\ activePublicationIndex'[id].isScope = isScope
          /\ activePublicationIndex'[id].strategy = st
          /\ \A x \in DOMAIN activePublicationIndex :
               activePublicationIndex'[x] = activePublicationIndex[x]
      BY <1>5, <2>2 DEF storeActivePublication, SetKey
    <3>2. /\ requested' = requested \cup {ToRV("pub", id, isScope, st)}
          /\ activeSubscriptionIndex' = activeSubscriptionIndex
          /\ st \in RVStrategy
      BY <1>5, <2>2 DEF storeActivePublication, subVars
    <3>3. EntriesHaveTheirKind'
      BY <1>1, <3>1, <3>2 DEF EntriesHaveTheirKind
    <3>4. AskedIffWanted'
      BY <1>4, <2>2, <3>1, <3>2 DEF AskedIffWanted, WantedPub, WantedSub
    <3> QED BY <3>3, <3>4
  <2> QED BY <2>1, <2>2
<1>6. CASE removeActivePublication(a, id, st, isScope)
  <2>1. CASE HostsOf(publishers, id) \ {a} # {}
    BY <1>6, <2>1 DEF removeActivePublication, EntriesHaveTheirKind, AskedIffWanted, WantedPub,
                      WantedSub, subVars
  <2>2. CASE HostsOf(publishers, id) \ {a} = {}
    <3>1. /\ DOMAIN activePublicationIndex' = DOMAIN activePublicationIndex \ {id}
          /\ \A x \in DOMAIN activePublicationIndex \ {id} :
               activePublicationIndex'[x] = activePublicationIndex[x]
      BY <1>6, <2>2 DEF removeActivePublication, EraseKeys
    <3>2. /\ requested' = requested \ {ToRV("pub", id, isScope, st)}
          /\ activeSubscriptionIndex' = activeSubscriptionIndex
          /\ id \in DOMAIN activePublicationIndex
          /\ activePublicationIndex[id].strategy = st
      BY <1>6, <2>2 DEF removeActivePublication, subVars
    <3>3. activePublicationIndex[id].isScope = isScope
      BY <1>2, <3>2 DEF EntriesHaveTheirKind
    <3>4. EntriesHaveTheirKind'
      BY <3>1, <3>2 DEF EntriesHaveTheirKind
    <3>5. AskedIffWanted'
      BY <1>4, <3>1, <3>2, <3>3 DEF AskedIffWanted, WantedPub, WantedSub
    <3> QED BY <3>4, <3>5
  <2> QED BY <2>1, <2>2
<1>7. CASE storeActiveSubscription(a, id, st, isScope)
  <2>1. CASE id \in DOMAIN activeSubscriptionIndex
    BY <1>7, <2>1 DEF storeActiveSubscription, EntriesHaveTheirKind, AskedIffWanted, WantedPub,
                      WantedSub, pubVars
  <2>2. CASE id \notin DOMAIN activeSubscriptionIndex
    <3>1. /\ DOMAIN activeSubscriptionIndex' = DOMAIN activeSubscriptionIndex \cup {id}
          /\ activeSubscriptionIndex'[id].isScope = isScope
          /\ activeSubscriptionIndex'[id].strategy = st
          /\ \A x \in DOMAIN activeSubscriptionIndex :
               activeSubscriptionIndex'[x] = activeSubscriptionIndex[x]
      BY <1>7, <2>2 DEF storeActiveSubscription, SetKey
    <3>2. /\ requested' = IF st \in RVStrategy
                          THEN requested \cup {ToRV("sub", id, isScope, st)} ELSE requested
          /\ activePublicationIndex' = activePublicationIndex
      BY <1>7, <2>2 DEF storeActiveSubscription, pubVars
    <3>3. EntriesHaveTheirKind'
      BY <1>1, <3>1, <3>2 DEF EntriesHaveTheirKind
    <3>4. AskedIffWanted'
      BY <1>4, <2>2, <3>1, <3>2 DEF AskedIffWanted, WantedPub, WantedSub
    <3> QED BY <3>3, <3>4
  <2> QED BY <2>1, <2>2
<1>8. CASE removeActiveSubscription(a, id, st, isScope)
  <2>1. CASE HostsOf(subscribers, id) \ {a} # {}
    BY <1>8, <2>1 DEF removeActiveSubscription, EntriesHaveTheirKind, AskedIffWanted, WantedPub,
                      WantedSub, pubVars
  <2>2. CASE HostsOf(subscribers, id) \ {a} = {}
    <3>1. /\ DOMAIN activeSubscriptionIndex' = DOMAIN activeSubscriptionIndex \ {id}
          /\ \A x \in DOMAIN activeSubscriptionIndex \ {id} :
               activeSubscriptionIndex'[x] = activeSubscriptionIndex[x]
      BY <1>8, <2>2 DEF removeActiveSubscription, EraseKeys
    <3>2. /\ requested' = IF st \in RVStrategy
                          THEN requested \ {ToRV("sub", id, isScope, st)} ELSE requested
          /\ activePublicationIndex' = activePublicationIndex
          /\ id \in DOMAIN activeSubscriptionIndex
          /\ activeSubscriptionIndex[id].strategy = st
      BY <1>8, <2>2 DEF removeActiveSubscription, pubVars
    <3>3. activeSubscriptionIndex[id].isScope = isScope
      BY <1>2, <3>2 DEF EntriesHaveTheirKind
    <3>4. EntriesHaveTheirKind'
      BY <3>1, <3>2 DEF EntriesHaveTheirKind
    <3>5. AskedIffWanted'
      BY <1>4, <3>1, <3>2, <3>3 DEF AskedIffWanted, WantedPub, WantedSub
    <3> QED BY <3>4, <3>5
  <2> QED BY <2>1, <2>2
<1> QED BY <1>3, <1>5, <1>6, <1>7, <1>8 DEF handleLocalRequest

\* A notification changes neither the kind nor the strategy of an entry.
LEMMA NotificationForwards ==
    ASSUME TypeOK, EntriesHaveTheirKind, AskedIffWanted, NEW i \in Item, PublishNotification(i)
    PROVE  EntriesHaveTheirKind' /\ AskedIffWanted'
<1>1. activeSubscriptionIndex' = activeSubscriptionIndex /\ requested' = requested
  BY DEF PublishNotification, subVars
<1> QED BY <1>1, NotificationFacts
        DEF EntriesHaveTheirKind, AskedIffWanted, WantedPub, WantedSub

\* disconnect() withdraws what the entries say, for the entries it deletes.
LEMMA DisconnectForwards ==
    ASSUME TypeOK, LocalHostsAgree, EntriesHaveTheirKind, AskedIffWanted, NEW a \in App,
           disconnect(a)
    PROVE  EntriesHaveTheirKind' /\ AskedIffWanted'
<1> DEFINE lastPubs == LastOf(IDsOf(activePublications, a), publishers, a)
           lastSubs == LastOf(IDsOf(activeSubscriptions, a), subscribers, a)
<1>1. /\ activePublicationIndex' = EraseKeys(activePublicationIndex, lastPubs)
      /\ activeSubscriptionIndex' = EraseKeys(activeSubscriptionIndex, lastSubs)
      /\ requested' = requested \ Withdrawn(lastPubs, lastSubs)
  BY DEF disconnect
<1>2. /\ lastPubs \subseteq DOMAIN activePublicationIndex
      /\ lastSubs \subseteq DOMAIN activeSubscriptionIndex
  BY DEF LastOf, IDsOf, LocalHostsAgree
<1> HIDE DEF lastPubs, lastSubs
<1>3. /\ DOMAIN activePublicationIndex' = DOMAIN activePublicationIndex \ lastPubs
      /\ DOMAIN activeSubscriptionIndex' = DOMAIN activeSubscriptionIndex \ lastSubs
      /\ \A x \in DOMAIN activePublicationIndex' :
           activePublicationIndex'[x] = activePublicationIndex[x]
      /\ \A x \in DOMAIN activeSubscriptionIndex' :
           activeSubscriptionIndex'[x] = activeSubscriptionIndex[x]
  BY <1>1 DEF EraseKeys
<1>4. EntriesHaveTheirKind'
  BY <1>3 DEF EntriesHaveTheirKind
<1>5. AskedIffWanted'
  <2> SUFFICES ASSUME NEW r \in Request
               PROVE  r \in requested' <=> WantedPub(r)' \/ WantedSub(r)'
    BY DEF AskedIffWanted
  <2>1. ASSUME WantedPub(r)
        PROVE  r \in Withdrawn(lastPubs, lastSubs) <=> r.id \in lastPubs
    BY <1>2, <2>1 DEF Withdrawn, ToRV, Request, WantedPub
  <2>2. ASSUME WantedSub(r)
        PROVE  r \in Withdrawn(lastPubs, lastSubs) <=> r.id \in lastSubs
    BY <1>2, <2>2 DEF Withdrawn, ToRV, Request, WantedSub
  <2>3. /\ WantedPub(r)' <=> WantedPub(r) /\ r.id \notin lastPubs
        /\ WantedSub(r)' <=> WantedSub(r) /\ r.id \notin lastSubs
    BY <1>3 DEF WantedPub, WantedSub
  <2>4. r \in requested <=> WantedPub(r) \/ WantedSub(r)
    BY DEF AskedIffWanted
  <2> QED BY <1>1, <2>1, <2>2, <2>3, <2>4
<1> QED BY <1>4, <1>5

LEMMA StepForwards ==
    TypeOK /\ LocalHostsAgree /\ EntriesHaveTheirKind /\ AskedIffWanted /\ [Next]_vars
        => EntriesHaveTheirKind' /\ AskedIffWanted'
<1> SUFFICES ASSUME TypeOK, LocalHostsAgree, EntriesHaveTheirKind, AskedIffWanted,
                    [Next]_vars
             PROVE  EntriesHaveTheirKind' /\ AskedIffWanted'
  OBVIOUS
<1>1. ASSUME NEW a \in App, OnlyLocalHost(a) PROVE EntriesHaveTheirKind' /\ AskedIffWanted'
  BY <1>1 DEF OnlyLocalHost, EntriesHaveTheirKind, AskedIffWanted, WantedPub, WantedSub, pubVars,
              subVars
<1>2. ASSUME NEW rv, NEW tm, UpdateBA(rv, tm) PROVE EntriesHaveTheirKind' /\ AskedIffWanted'
  BY <1>2 DEF UpdateBA, EntriesHaveTheirKind, AskedIffWanted, WantedPub, WantedSub, pubVars,
              subVars
<1>3. CASE UNCHANGED vars
  BY <1>3 DEF EntriesHaveTheirKind, AskedIffWanted, WantedPub, WantedSub, vars, pubVars, subVars
<1> QED BY <1>1, <1>2, <1>3, RequestForwards, NotificationForwards, DisconnectForwards
        DEF Next, handleRVNotification

LEMMA ForwardingInvariant == Spec => [](EntriesHaveTheirKind /\ AskedIffWanted)
<1>1. Init => EntriesHaveTheirKind /\ AskedIffWanted
  BY DEF Init, EntriesHaveTheirKind, AskedIffWanted, WantedPub, WantedSub
<1> QED BY <1>1, TypeCorrect, HostsAgree, StepForwards, PTL DEF Spec

\* The rendezvous node has always been asked for exactly what the applications
\* of this node want, provided they agree on what is a scope and what an item.
THEOREM RequestsAreForwarded == Spec => []RequestsAgree
  BY ForwardingInvariant, TypeCorrect, RequestsPointwise, PTL

-----------------------------------------------------------------------------
(***************************************************************************)
(* Started publishers.  That there is one at most, and that it uses the    *)
(* latest FID, needs that marks are only on entries that exist.            *)
(***************************************************************************)

\* A started publisher belongs to an entry and to an application that is there.
LEMMA StartedFacts ==
    ASSUME TypeOK, LocalHostsAgree, NEW p \in started
    PROVE  /\ p[1] \in DOMAIN activePublicationIndex
           /\ p[2] \in local_pub_sub_Index
           /\ p = <<p[1], p[2]>>
  BY DEF TypeOK, LocalHostsAgree

LEMMA IsStartedFacts ==
    ASSUME TypeOK, NEW id
    PROVE  IsStarted(id) <=> \E p \in started : p[1] = id
  BY DEF TypeOK, IsStarted, HostsOf

\* Requests remove marks, never add any, and leave the entries of the marked
\* identifiers as they are.
LEMMA RequestMarks ==
    ASSUME TypeOK, LocalHostsAgree, NEW a \in App, NEW id \in ID, NEW isScope,
           NEW st \in Strategy, handleLocalRequest(a, id, isScope, st)
    PROVE  /\ started' \subseteq started
           /\ match' = match
           /\ \A p \in started' : activePublicationIndex'[p[1]] = activePublicationIndex[p[1]]
<1>1. CASE storeActivePublication(a, id, st, isScope)
  <2>1. started' = started /\ match' = match
    BY <1>1 DEF storeActivePublication
  <2>2. \A x \in DOMAIN activePublicationIndex :
          activePublicationIndex'[x] = activePublicationIndex[x]
    BY <1>1 DEF storeActivePublication, SetKey
  <2> QED BY <2>1, <2>2, StartedFacts
<1>2. CASE removeActivePublication(a, id, st, isScope)
  <2>1. started' = started \ {<<id, a>>} /\ match' = match
    BY <1>2 DEF removeActivePublication
  <2>2. CASE HostsOf(publishers, id) \ {a} # {}
    BY <1>2, <2>1, <2>2 DEF removeActivePublication
  <2>3. CASE HostsOf(publishers, id) \ {a} = {}
    <3>1. \A x \in DOMAIN activePublicationIndex \ {id} :
            activePublicationIndex'[x] = activePublicationIndex[x]
      BY <1>2, <2>3 DEF removeActivePublication, EraseKeys
    <3>2. \A b : <<id, b>> \in publishers => b = a
      BY <2>3, HostsOfFacts DEF TypeOK
    <3>3. \A p \in started' : p[1] # id
      BY <2>1, <3>2, StartedFacts DEF TypeOK
    <3> QED BY <2>1, <3>1, <3>3, StartedFacts
  <2> QED BY <2>2, <2>3
<1>3. CASE storeActiveSubscription(a, id, st, isScope)
  BY <1>3 DEF storeActiveSubscription, pubVars
<1>4. CASE removeActiveSubscription(a, id, st, isScope)
  BY <1>4 DEF removeActiveSubscription, pubVars
<1> QED BY <1>1, <1>2, <1>3, <1>4 DEF handleLocalRequest

\* disconnect() moves a mark to another application, under the same identifier.
LEMMA DisconnectMarks ==
    ASSUME TypeOK, LocalHostsAgree, NEW a \in App, disconnect(a)
    PROVE  /\ match' = match
           /\ \A p \in started' : /\ activePublicationIndex'[p[1]] = activePublicationIndex[p[1]]
                                  /\ p[2] # a
                                  /\ p \in started \/ <<p[1], a>> \in started
           /\ \A p, q \in started' : p[1] = q[1] /\ p \notin started /\ q \notin started => p = q
<1> DEFINE pubIDs == IDsOf(activePublications, a)
           lastPubs == LastOf(pubIDs, publishers, a)
           orphans == {id \in pubIDs \ lastPubs : /\ <<id, a>> \in started
                                                  /\ ~activePublicationIndex[id].isScope}
<1>1. PICK next \in [orphans -> App] : started' = HandOver(pubIDs \X {a}, next)
  BY DEF disconnect
<1>2. started' = (started \ (pubIDs \X {a})) \cup {<<id, next[id]>> : id \in orphans}
  BY <1>1 DEF HandOver
<1>3. activePublicationIndex' = EraseKeys(activePublicationIndex, lastPubs) /\ match' = match
  BY DEF disconnect
<1>4. \A id \in orphans : <<id, a>> \in started
  OBVIOUS
<1>5. TypeOK' /\ LocalHostsAgree'
  BY DisconnectTypes, DisconnectAgrees
<1>6. \A p \in started' : p[1] \in DOMAIN activePublicationIndex' /\ p[2] # a
  BY <1>5 DEF TypeOK, LocalHostsAgree, disconnect
<1>7. \A x \in DOMAIN activePublicationIndex' :
        activePublicationIndex'[x] = activePublicationIndex[x]
  BY <1>3 DEF EraseKeys
<1> HIDE DEF orphans, pubIDs
<1>8. \A p \in started' : p \in started \/ <<p[1], a>> \in started
  BY <1>2, <1>4
<1>9. \A p, q \in started' : p[1] = q[1] /\ p \notin started /\ q \notin started => p = q
  BY <1>2
<1> QED BY <1>3, <1>6, <1>7, <1>8, <1>9

\* A notification marks a publisher only where none is, and if there is one its
\* entry gets the FID of the notification.
LEMMA NotificationMarks ==
    ASSUME TypeOK, LocalHostsAgree, OneStarted, NEW i \in Item, PublishNotification(i)
    PROVE  /\ \A p \in started' : p[1] \notin i =>
                /\ p \in started
                /\ activePublicationIndex'[p[1]] = activePublicationIndex[p[1]]
           /\ \A p, q \in started' : p[1] \in i /\ q[1] \in i => p = q
           /\ \A p \in started' : p[1] \in i =>
                activePublicationIndex'[p[1]].FID_to_subscribers = match'[i]
           /\ \A j \in Item \ {i} : match'[j] = match[j]
<1>1. \A p \in started : p[1] \in i => p[1] \in Present(i) /\ IsStarted(p[1])
  BY StartedFacts, IsStartedFacts DEF Present
<1>2. \A S, fid : Learn(S, i, fid) =>
        \A x \in DOMAIN activePublicationIndex :
           /\ x \notin S => activePublicationIndex'[x] = activePublicationIndex[x]
           /\ x \in S => activePublicationIndex'[x].FID_to_subscribers = fid
  BY DEF Learn, TypeOK, ActivePublication
<1>3. CASE stopPublish(i) /\ match' = [match EXCEPT ![i] = ZERO]
  <2>1. \A p \in started' : p \in started /\ p[1] \notin i
    BY <1>1, <1>3 DEF stopPublish
  <2>2. Learn(Present(i), i, ZERO) /\ \A j \in Item \ {i} : match'[j] = match[j]
    BY <1>3 DEF stopPublish, TypeOK
  <2>3. \A p \in started' : activePublicationIndex'[p[1]] = activePublicationIndex[p[1]]
    BY <1>2, <2>1, <2>2, StartedFacts DEF Present
  <2> QED BY <2>1, <2>2, <2>3
<1>4. ASSUME NEW fid \in FID, startPublish(i, fid), match' = [match EXCEPT ![i] = fid]
      PROVE  /\ \A p \in started' : p[1] \notin i =>
                  /\ p \in started
                  /\ activePublicationIndex'[p[1]] = activePublicationIndex[p[1]]
             /\ \A p, q \in started' : p[1] \in i /\ q[1] \in i => p = q
             /\ \A p \in started' : p[1] \in i =>
                  activePublicationIndex'[p[1]].FID_to_subscribers = match'[i]
             /\ \A j \in Item \ {i} : match'[j] = match[j]
  <2>1. match'[i] = fid /\ \A j \in Item \ {i} : match'[j] = match[j]
    BY <1>4 DEF TypeOK
  <2>2. ASSUME NEW s \in Present(i), NEW before \in SUBSET Present(i), IsStarted(s),
               Learn(Updated(before, s), i, fid), started' = started
        PROVE  /\ \A p \in started' : p[1] \notin i =>
                    activePublicationIndex'[p[1]] = activePublicationIndex[p[1]]
               /\ \A p \in started' : p[1] \in i =>
                    activePublicationIndex'[p[1]].FID_to_subscribers = fid
    <3>1. PICK p \in started : p[1] = s
      BY <2>2, IsStartedFacts
    <3>2. \A q \in started : q[1] \in i => q[1] \in Updated(before, s)
      BY <3>1 DEF OneStarted, Present, Updated
    <3>3. Updated(before, s) \subseteq i
      BY DEF Updated, Present
    <3> QED BY <1>2, <2>2, <3>2, <3>3, StartedFacts
  <2>3. ASSUME NEW p \in publishers, p[1] \in Present(i), started' = started \cup {p},
               \A id \in Present(i) : ~IsStarted(id), Learn(Present(i), i, fid)
        PROVE  /\ \A q \in started' : q[1] \notin i =>
                    /\ q \in started
                    /\ activePublicationIndex'[q[1]] = activePublicationIndex[q[1]]
               /\ \A q \in started' : q[1] \in i => q = p
               /\ activePublicationIndex'[p[1]].FID_to_subscribers = fid
    <3>1. \A q \in started : q[1] \notin i
      BY <1>1, <2>3
    <3>2. p[1] \in i /\ p[1] \in DOMAIN activePublicationIndex
      BY <2>3 DEF Present
    <3>3. \A q \in started : activePublicationIndex'[q[1]] = activePublicationIndex[q[1]]
      BY <1>2, <2>3, <3>1, StartedFacts DEF Present
    <3>4. activePublicationIndex'[p[1]].FID_to_subscribers = fid
      BY <1>2, <2>3, <3>2
    <3> QED BY <2>3, <3>1, <3>2, <3>3, <3>4
  <2>4. CASE \E s \in Present(i), before \in SUBSET Present(i) :
               /\ IsStarted(s)
               /\ Learn(Updated(before, s), i, fid)
               /\ started' = started
    BY <2>1, <2>2, <2>4 DEF OneStarted
  <2>5. CASE \E p \in publishers : /\ p[1] \in Present(i)
                                   /\ started' = started \cup {p}
                                   /\ \A id \in Present(i) : ~IsStarted(id)
                                   /\ Learn(Present(i), i, fid)
    BY <2>1, <2>3, <2>5
  <2> QED BY <1>4, <2>4, <2>5 DEF startPublish
<1> QED BY <1>3, <1>4 DEF PublishNotification

LEMMA StepMarks ==
    TypeOK /\ LocalHostsAgree /\ OneStarted /\ StartedUsesLatestFID /\ [Next]_vars
        => OneStarted' /\ StartedUsesLatestFID'
<1> SUFFICES ASSUME TypeOK, LocalHostsAgree, OneStarted, StartedUsesLatestFID, [Next]_vars
             PROVE  OneStarted' /\ StartedUsesLatestFID'
  OBVIOUS
<1>1. ASSUME NEW a \in App, OnlyLocalHost(a) PROVE OneStarted' /\ StartedUsesLatestFID'
  BY <1>1 DEF OnlyLocalHost, OneStarted, StartedUsesLatestFID, pubVars
<1>2. ASSUME NEW a \in App, NEW k \in Kind, NEW st \in Strategy,
             handleLocalRequest(a, k[1], k[2], st)
      PROVE  OneStarted' /\ StartedUsesLatestFID'
  <2>1. k[1] \in ID
    BY LocalProxyAssumption
  <2>2. /\ started' \subseteq started
        /\ match' = match
        /\ \A p \in started' : activePublicationIndex'[p[1]] = activePublicationIndex[p[1]]
    BY <1>2, <2>1, RequestMarks
  <2> QED BY <2>2 DEF OneStarted, StartedUsesLatestFID
<1>3. ASSUME NEW a \in App, disconnect(a) PROVE OneStarted' /\ StartedUsesLatestFID'
  <2>1. OneStarted'
    <3> SUFFICES ASSUME NEW i \in Item, NEW p \in started', NEW q \in started',
                        p[1] \in i, q[1] \in i
                 PROVE  p = q
      BY DEF OneStarted
    <3>1. CASE p \in started /\ q \in started
      BY <3>1 DEF OneStarted
    <3>2. CASE p \in started /\ q \notin started
      <4>1. <<q[1], a>> \in started /\ p[2] # a
        BY <1>3, <3>2, DisconnectMarks
      <4>2. p = <<q[1], a>>
        BY <3>2, <4>1 DEF OneStarted
      <4> QED BY <4>1, <4>2
    <3>3. CASE p \notin started /\ q \in started
      <4>1. <<p[1], a>> \in started /\ q[2] # a
        BY <1>3, <3>3, DisconnectMarks
      <4>2. q = <<p[1], a>>
        BY <3>3, <4>1 DEF OneStarted
      <4> QED BY <4>1, <4>2
    <3>4. CASE p \notin started /\ q \notin started
      <4>1. <<p[1], a>> \in started /\ <<q[1], a>> \in started
        BY <1>3, <3>4, DisconnectMarks
      <4>2. <<p[1], a>> = <<q[1], a>>
        BY <4>1 DEF OneStarted
      <4> QED BY <1>3, <3>4, <4>2, DisconnectMarks
    <3> QED BY <3>1, <3>2, <3>3, <3>4
  <2>2. StartedUsesLatestFID'
    BY ZenonT(30), <1>3, DisconnectMarks DEF StartedUsesLatestFID
  <2> QED BY <2>1, <2>2
<1>4. ASSUME NEW i \in Item, PublishNotification(i) PROVE OneStarted' /\ StartedUsesLatestFID'
  <2>1. \A j \in Item : \A x : x \in j /\ x \in i => j = i
    BY LocalProxyAssumption
  <2>2. OneStarted'
    BY <1>4, <2>1, NotificationMarks DEF OneStarted
  <2>3. StartedUsesLatestFID'
    BY <1>4, <2>1, NotificationMarks DEF StartedUsesLatestFID
  <2> QED BY <2>2, <2>3
<1>5. ASSUME NEW rv, NEW tm, UpdateBA(rv, tm) PROVE OneStarted' /\ StartedUsesLatestFID'
  BY <1>5 DEF UpdateBA, OneStarted, StartedUsesLatestFID, pubVars
<1>6. CASE UNCHANGED vars
  BY <1>6 DEF OneStarted, StartedUsesLatestFID, vars, pubVars
<1> QED BY <1>1, <1>2, <1>3, <1>4, <1>5, <1>6 DEF Next, handleRVNotification

LEMMA MarksInvariant == Spec => [](OneStarted /\ StartedUsesLatestFID)
<1>1. Init => OneStarted /\ StartedUsesLatestFID
  BY DEF Init, OneStarted, StartedUsesLatestFID
<1> QED BY <1>1, TypeCorrect, HostsAgree, StepMarks, PTL DEF Spec

\* One application at most is told to publish an item, whatever the order of
\* requests, disconnections and notifications.
THEOREM AtMostOneStarted == Spec => []OneStarted
  BY MarksInvariant, PTL

\* It sends to where the last notification said.
THEOREM StartedIsUpToDate == Spec => []StartedUsesLatestFID
  BY MarksInvariant, PTL

\* Both together: the one publisher of an item on a node, and where it sends.
THEOREM PublisherIsUnique == Spec => []OnePublisher
  BY MarksInvariant, PTL DEF OnePublisher

-----------------------------------------------------------------------------
(* Hand-over *)

\* A step that removes a LocalHost is the disconnection of its application.
LEMMA OnlyDisconnectRemoves ==
    ASSUME [Next]_vars, NEW a \in local_pub_sub_Index, a \notin local_pub_sub_Index'
    PROVE  disconnect(a)
<1>1. CASE UNCHANGED vars
  BY <1>1 DEF vars
<1>2. \A b \in App : ~OnlyLocalHost(b)
  BY DEF OnlyLocalHost, getLocalHost
<1>3. \A b \in App, k \in Kind, st \in Strategy : ~handleLocalRequest(b, k[1], k[2], st)
  BY DEF handleLocalRequest, storeActivePublication, removeActivePublication,
         storeActiveSubscription, removeActiveSubscription, getLocalHost
<1>4. ~handleRVNotification
  BY DEF handleRVNotification, PublishNotification, UpdateBA
<1>5. ASSUME NEW b \in App, disconnect(b) PROVE b = a
  BY <1>5 DEF disconnect
<1> QED BY <1>1, <1>2, <1>3, <1>4, <1>5 DEF Next

LEMMA DisconnectMarksAnother ==
    ASSUME TypeOK, LocalHostsAgree, EntriesHaveTheirKind, NEW a \in App, disconnect(a),
           NEW i \in Item, NEW id \in i, <<id, a>> \in started,
           id \in DOMAIN activePublicationIndex'
    PROVE  \E b \in App : <<id, b>> \in started'
<1> DEFINE pubIDs == IDsOf(activePublications, a)
           lastPubs == LastOf(pubIDs, publishers, a)
           orphans == {x \in pubIDs \ lastPubs : /\ <<x, a>> \in started
                                                 /\ ~activePublicationIndex[x].isScope}
<1>1. PICK next \in [orphans -> App] : started' = HandOver(pubIDs \X {a}, next)
  BY DEF disconnect
<1>2. activePublicationIndex' = EraseKeys(activePublicationIndex, lastPubs)
  BY DEF disconnect
<1>3. id \in pubIDs
  BY IDsOfFacts DEF TypeOK, LocalHostsAgree
<1>4. id \notin lastPubs /\ id \in DOMAIN activePublicationIndex
  BY <1>2 DEF EraseKeys
<1>5. ~activePublicationIndex[id].isScope
  BY <1>4, KindAssumption DEF EntriesHaveTheirKind, TypeOK, ActivePublication
<1>6. id \in orphans
  BY <1>3, <1>4, <1>5
<1> HIDE DEF orphans, pubIDs
<1>7. <<id, next[id]>> \in started' /\ next[id] \in App
  BY <1>1, <1>6 DEF HandOver
<1> QED BY <1>7

\* When the application that was told to publish an item disconnects, another
\* one that publishes it under the same identifier is told to go on.
THEOREM HandOverOnDisconnect == Spec => DisconnectHandsOver
<1> DEFINE HandsOver == \A p \in started :
               /\ p[2] \notin local_pub_sub_Index'
               /\ p[1] \in DOMAIN activePublicationIndex'
               /\ \E i \in Item : p[1] \in i
               => \E b \in App : <<p[1], b>> \in started'
<1>1. TypeOK /\ LocalHostsAgree /\ EntriesHaveTheirKind /\ [Next]_vars => [HandsOver]_vars
  <2> SUFFICES ASSUME TypeOK, LocalHostsAgree, EntriesHaveTheirKind, [Next]_vars,
                      NEW p \in started, p[2] \notin local_pub_sub_Index',
                      p[1] \in DOMAIN activePublicationIndex',
                      NEW i \in Item, p[1] \in i
               PROVE  \E b \in App : <<p[1], b>> \in started'
    OBVIOUS
  <2>1. p[2] \in local_pub_sub_Index /\ p = <<p[1], p[2]>> /\ p[2] \in App
    BY StartedFacts DEF TypeOK
  <2>2. disconnect(p[2])
    BY <2>1, OnlyDisconnectRemoves
  <2> QED BY <2>1, <2>2, DisconnectMarksAnother
<1>2. DisconnectHandsOver <=> [][HandsOver]_vars
  BY DEF DisconnectHandsOver
<1> QED BY <1>1, <1>2, TypeCorrect, HostsAgree, ForwardingInvariant, PTL DEF Spec

-----------------------------------------------------------------------------
(* Delivery on the node *)

\* What an entry knows of the other identifiers is nothing, or all of them.
KnownIDs ==
    \A id \in DOMAIN activePublicationIndex :
        \/ activePublicationIndex[id].allKnownIDs = {}
        \/ activePublicationIndex[id].allKnownIDs \in {i \in Item : id \in i}

\* Entries that a step adds know nothing, those that it keeps are as before.
LEMMA RequestKnows ==
    ASSUME KnownIDs, NEW a, NEW id, NEW isScope, NEW st,
           handleLocalRequest(a, id, isScope, st)
    PROVE  KnownIDs'
<1>1. CASE storeActivePublication(a, id, st, isScope)
  <2>1. CASE id \notin DOMAIN activePublicationIndex
    <3> DEFINE e == [strategy |-> st, isScope |-> isScope, FID_to_subscribers |-> ZERO,
                     allKnownIDs |-> {}]
    <3>1. activePublicationIndex' = SetKey(activePublicationIndex, id, e)
      BY <1>1, <2>1 DEF storeActivePublication
    <3>2. e.allKnownIDs = {}
      OBVIOUS
    <3> HIDE DEF e
    <3> QED BY <3>1, <3>2 DEF KnownIDs, SetKey
  <2>2. CASE id \in DOMAIN activePublicationIndex
    BY <1>1, <2>2 DEF KnownIDs, storeActivePublication
  <2> QED BY <2>1, <2>2
<1>2. CASE removeActivePublication(a, id, st, isScope)
  <2>1. \/ activePublicationIndex' = EraseKeys(activePublicationIndex, {id})
        \/ activePublicationIndex' = activePublicationIndex
    BY <1>2 DEF removeActivePublication
  <2> QED BY <2>1 DEF KnownIDs, EraseKeys
<1>3. CASE storeActiveSubscription(a, id, st, isScope)
  BY <1>3 DEF KnownIDs, storeActiveSubscription, pubVars
<1>4. CASE removeActiveSubscription(a, id, st, isScope)
  BY <1>4 DEF KnownIDs, removeActiveSubscription, pubVars
<1> QED BY <1>1, <1>2, <1>3, <1>4 DEF handleLocalRequest

\* A notification, wherever its loop ends, gives entries the whole list.
LEMMA NotificationKnows ==
    ASSUME TypeOK, KnownIDs, NEW i \in Item, PublishNotification(i)
    PROVE  KnownIDs'
<1>1. ASSUME NEW S \in SUBSET Present(i), NEW fid, Learn(S, i, fid) PROVE KnownIDs'
  <2>1. /\ DOMAIN activePublicationIndex' = DOMAIN activePublicationIndex
        /\ \A x \in DOMAIN activePublicationIndex :
             /\ x \notin S => activePublicationIndex'[x] = activePublicationIndex[x]
             /\ x \in S => activePublicationIndex'[x].allKnownIDs = i
    BY <1>1 DEF Learn, TypeOK, ActivePublication
  <2>2. S \subseteq i
    BY DEF Present
  <2> QED BY <2>1, <2>2 DEF KnownIDs
<1>2. ASSUME NEW fid \in FID, startPublish(i, fid)
      PROVE  \E S \in SUBSET Present(i) : Learn(S, i, fid)
  BY <1>2 DEF startPublish, Updated
<1>3. ASSUME stopPublish(i) PROVE Learn(Present(i), i, ZERO)
  BY <1>3 DEF stopPublish
<1> QED BY <1>1, <1>2, <1>3 DEF PublishNotification

LEMMA StepKnows == TypeOK /\ KnownIDs /\ [Next]_vars => KnownIDs'
<1> SUFFICES ASSUME TypeOK, KnownIDs, [Next]_vars PROVE KnownIDs'
  OBVIOUS
<1>1. ASSUME NEW a \in App, OnlyLocalHost(a) PROVE KnownIDs'
  BY <1>1 DEF OnlyLocalHost, KnownIDs, pubVars
<1>2. ASSUME NEW a \in App, disconnect(a) PROVE KnownIDs'
  <2>1. PICK S : activePublicationIndex' = EraseKeys(activePublicationIndex, S)
    BY <1>2 DEF disconnect
  <2> QED BY <2>1 DEF KnownIDs, EraseKeys
<1>3. ASSUME NEW rv, NEW tm, UpdateBA(rv, tm) PROVE KnownIDs'
  BY <1>3 DEF UpdateBA, KnownIDs, pubVars
<1>4. CASE UNCHANGED vars
  BY <1>4 DEF KnownIDs, vars, pubVars
<1> QED BY <1>1, <1>2, <1>3, <1>4, RequestKnows, NotificationKnows DEF Next, handleRVNotification

\* The data of an item that has had a notification reaches every other
\* application of the node that subscribes to it under any of its identifiers,
\* for all items, although the loop over the entries ends at the first one that
\* has a started publisher.
THEOREM DataIsDelivered == Spec => []NotifiedDataIsDelivered
<1>1. Init => KnownIDs
  BY DEF Init, KnownIDs
<1>2. TypeOK /\ LocalHostsAgree /\ KnownIDs => NotifiedDataIsDelivered
  <2> SUFFICES ASSUME TypeOK, LocalHostsAgree, KnownIDs, NEW i \in Item, NEW p \in publishers,
                      p[1] \in i, activePublicationIndex[p[1]].allKnownIDs # {}
               PROVE  /\ findLocalSubscribers(i) \ {p[2]}
                            \subseteq handleUserPublication(p[2], p[1]).local
                      /\ \A id \in i, name \in {Last(x) : x \in ID}, fid \in FID :
                            HostsOf(subscribers, id) \ {p[2]} \subseteq
                              handleImplicitPublication(p[2], Append(p[1], name), fid).local
    BY DEF NotifiedDataIsDelivered
  <2>1. p[1] \in DOMAIN activePublicationIndex
    BY DEF LocalHostsAgree
  <2>2. activePublicationIndex[p[1]].allKnownIDs = i
    BY <2>1, LocalProxyAssumption DEF KnownIDs
  <2>3. handleUserPublication(p[2], p[1]).local = findLocalSubscribers(i) \ {p[2]}
    BY <2>1, <2>2 DEF handleUserPublication
  <2>4. ASSUME NEW id \in i, NEW name \in {Last(x) : x \in ID}, NEW fid \in FID,
               NEW a \in HostsOf(subscribers, id) \ {p[2]}
        PROVE  a \in handleImplicitPublication(p[2], Append(p[1], name), fid).local
    <3>1. name \in STRING
      BY LocalProxyAssumption DEF Last
    <3>2. \A x \in i : Front(Append(x, name)) = x /\ Last(Append(x, name)) = name
      <4> SUFFICES ASSUME NEW x \in i
                   PROVE  Front(Append(x, name)) = x /\ Last(Append(x, name)) = name
        OBVIOUS
      <4>1. x \in Seq(STRING)
        BY LocalProxyAssumption
      <4> QED BY <3>1, <4>1 DEF Front, Last
    <3>3. PICK q : q = Append(p[1], name)
      OBVIOUS
    <3>4. Front(q) = p[1] /\ Last(q) = name
      BY <3>2, <3>3
    <3>5. a \in App /\ <<id, a>> \in subscribers
      BY DEF HostsOf, TypeOK
    <3>6. a \in findLocalSubscribers({Append(f, name) : f \in i} \cup {q})
      BY <3>2, <3>5 DEF findLocalSubscribers
    <3>7. a \in handleImplicitPublication(p[2], q, fid).local
      BY <2>1, <2>2, <3>4, <3>6 DEF handleImplicitPublication
    <3> QED BY <3>3, <3>7
  <2> QED BY <2>3, <2>4
<1> QED BY <1>1, <1>2, StepKnows, TypeCorrect, HostsAgree, PTL DEF Spec

=============================================================================
