--------------------------- MODULE LocalRVProofs ---------------------------
(***************************************************************************)
(* Proofs about the rendezvous element, for any hosts, fragments, objects  *)
(* and strategies: its tables and its graph agree after every request, and *)
(* what publishers and subscribers were last told is true of the graph.    *)
(***************************************************************************)
EXTENDS LocalRV, SequenceFacts

(***************************************************************************)
(* The parts of TypeOK, one per kind of variable.                          *)
(***************************************************************************)
TableTypes ==
    /\ DOMAIN scopeIndex \subseteq ID
    /\ \A id \in DOMAIN scopeIndex : scopeIndex[id] \in ScopeObj
    /\ DOMAIN pubIndex \subseteq ID
    /\ \A id \in DOMAIN pubIndex : pubIndex[id] \in ItemObj
    /\ Live \subseteq Obj
    /\ \A o \in Live : strategy[o] \in Strategy

GraphTypes ==
    /\ fatherScopes \in [Obj -> SUBSET ScopeObj]
    /\ contents \in [ScopeObj -> SUBSET Obj]
    /\ ids \in [Obj -> SUBSET ID]

Interests == SUBSET (ID \X Host)

PairTypes ==
    /\ pubs \in [Obj -> Interests]
    /\ subs \in [Obj -> Interests]
    /\ published \in Interests
    /\ subscribed \in Interests

Match == [pub : SUBSET Host, sub : SUBSET Host, ids : SUBSET ID]

HistoryTypes == matched \in [ItemObj -> Match] /\ told \in Interests

\* TypeOK is the conjunction of its parts.
LEMMA TypeParts == TypeOK <=> TableTypes /\ GraphTypes /\ PairTypes /\ HistoryTypes
  BY DEF TypeOK, TableTypes, GraphTypes, PairTypes, HistoryTypes, Interests, Match

\* The same in the next state.
LEMMA NextTypeParts ==
    ASSUME TableTypes', GraphTypes', PairTypes', HistoryTypes'
    PROVE  TypeOK'
  BY DEF TypeOK, TableTypes, GraphTypes, PairTypes, HistoryTypes, Interests, Match

-----------------------------------------------------------------------------
(* Facts about the helpers *)

\* Identifiers are built by appending fragments to identifiers.
LEMMA IDFacts ==
    /\ \A s \in Frag : <<s>> \in ID
    /\ \A id \in ID, s \in Frag : Append(id, s) \in ID
    /\ \A id \in ID : Last(id) \in Frag
  <1>1. \A s \in Frag : <<s>> \in ID
    BY DEF ID
  <1>2. ASSUME NEW id \in ID, NEW s \in Frag PROVE Append(id, s) \in ID
    BY DEF ID
  <1>3. ASSUME NEW id \in ID PROVE Last(id) \in Frag
    <2>1. id \in Seq(Frag) /\ Len(id) \in 1..Len(id)
      BY EmptySeq DEF ID
    <2> QED
      BY <2>1, ElementOfSeq DEF Last
  <1> QED
    BY <1>1, <1>2, <1>3

\* IDsUnder() yields identifiers.
LEMMA IDsUnderType ==
    ASSUME GraphTypes, NEW f \in ScopeObj, NEW s \in Frag
    PROVE  IDsUnder(f, s) \in SUBSET ID
  BY IDFacts DEF IDsUnder, GraphTypes, Obj

\* getPublishers() and getSubscribers() yield hosts.
LEMMA HostsOfType ==
    ASSUME NEW P \in Interests
    PROVE  HostsOf(P) \in SUBSET Host
  BY DEF Interests, HostsOf

\* A notification tells hosts about identifiers.
LEMMA NotifyType ==
    ASSUME NEW IDs \in SUBSET ID, NEW st, NEW S \in SUBSET Host
    PROVE  notifySubscribers(IDs, st, S) \in Interests
  BY DEF notifySubscribers, Interests

\* A match has the shape of a match.
LEMMA MatchType ==
    ASSUME NEW st, NEW P \in SUBSET Host, NEW S \in SUBSET Host, NEW I \in SUBSET ID
    PROVE  rendezvous(st, P, S, I) \in Match
  BY LocalRVAssumption DEF rendezvous, Announce, NoMatch, Match

-----------------------------------------------------------------------------
(* Facts about the building blocks of the requests *)

\* Creating an object keeps the types of the tables and of the graph.
LEMMA NewObjectType ==
    ASSUME TypeOK, NEW o \in Obj, NEW st \in Strategy, NEW fathers \in SUBSET ScopeObj,
           NEW newIDs \in SUBSET ID, NewObject(o, st, fathers, newIDs)
    PROVE  TableTypes' /\ GraphTypes'
  <1> USE TypeParts DEF NewObject
  <1>1. GraphTypes'
    BY DEF GraphTypes
  <1>2. /\ DOMAIN scopeIndex' \subseteq ID
        /\ \A id \in DOMAIN scopeIndex' : scopeIndex'[id] \in ScopeObj
    BY DEF TableTypes, SetKeys
  <1>3. /\ DOMAIN pubIndex' \subseteq ID
        /\ \A id \in DOMAIN pubIndex' : pubIndex'[id] \in ItemObj
    BY DEF TableTypes, SetKeys
  <1>4. Live' \subseteq Obj /\ \A x \in Live' : strategy'[x] \in Strategy
    BY DEF TableTypes, Live, SetKeys
  <1> QED
    BY <1>1, <1>2, <1>3, <1>4 DEF TableTypes

\* Recording a publisher or a subscriber keeps the types of the records.
LEMMA UpdateType ==
    ASSUME TypeOK, NEW o \in Obj, NEW id \in ID, NEW h \in Host,
           updatePublishers(o, id, h) \/ updateSubscribers(o, id, h)
    PROVE  PairTypes'
  <1>1. <<id, h>> \in ID \X Host
    OBVIOUS
  <1> QED
    BY <1>1, TypeParts DEF PairTypes, Interests, updatePublishers, updateSubscribers

\* Running rendezvous() for some items keeps the type of the history.
LEMMA RematchType ==
    ASSUME TypeOK, GraphTypes', PairTypes', NEW R, Rematch(R)
    PROVE  matched' \in [ItemObj -> Match]
  <1>1. ASSUME NEW i \in ItemObj PROVE CurrentMatch(i)' \in Match
    <2>1. i \in Obj /\ fatherScopes'[i] \in SUBSET ScopeObj /\ ids'[i] \in SUBSET ID
      BY DEF GraphTypes, Obj
    <2>2. HostsOf(pubs'[i]) \in SUBSET Host /\ HostsOf(subs'[i]) \in SUBSET Host
      BY <2>1, HostsOfType DEF PairTypes
    <2>3. ASSUME NEW f \in fatherScopes'[i] PROVE HostsOf(subs'[f]) \in SUBSET Host
      BY <2>1, HostsOfType DEF PairTypes, Obj
    <2>4. AllSubscribers(i, subs)' \in SUBSET Host
      BY <2>2, <2>3 DEF AllSubscribers
    <2> QED
      BY <2>1, <2>2, <2>4, MatchType DEF CurrentMatch
  <1> QED
    BY <1>1, TypeParts DEF Rematch, HistoryTypes

\* Telling facts keeps the type of the history.
LEMMA TellType ==
    ASSUME NEW facts \in Interests, Tell(facts)
    PROVE  told' \in Interests
  BY DEF Tell, Interests

\* Cutting branches only takes away.
LEMMA CutType ==
    ASSUME TypeOK, NEW edges, NEW P \in [Obj -> Interests], NEW S \in [Obj -> Interests],
           Cut(edges, P, S)
    PROVE  TableTypes' /\ GraphTypes' /\ pubs' \in [Obj -> Interests]
                                      /\ subs' \in [Obj -> Interests]
  <1> USE TypeParts DEF Cut
  <1>1. GraphTypes'
    BY DEF GraphTypes
  <1>2. TableTypes'
    BY DEF TableTypes, Live, EraseKeys
  <1>3. pubs' \in [Obj -> Interests] /\ subs' \in [Obj -> Interests]
    BY DEF Interests
  <1> QED
    BY <1>1, <1>2, <1>3

-----------------------------------------------------------------------------
(* Every request keeps the types *)

\* The names of a request denote objects of the right kind.
LEMMA NamesType ==
    ASSUME TypeOK
    PROVE  /\ \A id \in DOMAIN scopeIndex :
                /\ id \in ID /\ Last(id) \in Frag
                /\ scopeIndex[id] \in ScopeObj /\ scopeIndex[id] \in Obj
                /\ subs[scopeIndex[id]] \in Interests
           /\ \A id \in DOMAIN pubIndex :
                /\ id \in ID /\ Last(id) \in Frag
                /\ pubIndex[id] \in ItemObj /\ pubIndex[id] \in Obj
  BY TypeParts, IDFacts DEF TableTypes, PairTypes, Obj

\* A new inner scope, whoever causes it to be created.
LEMMA NewInnerScopeType ==
    ASSUME TypeOK, NEW o \in ScopeObj, NEW prefixID \in DOMAIN scopeIndex, NEW frag \in Frag,
           NEW st \in Strategy, NewInnerScope(o, prefixID, frag, st)
    PROVE  TableTypes' /\ GraphTypes' /\ HistoryTypes'
  <1> DEFINE father == scopeIndex[prefixID]
             newIDs == IDsUnder(father, frag)
  <1>1. father \in ScopeObj /\ HostsOf(subs[father]) \in SUBSET Host
    BY NamesType, HostsOfType
  <1>2. newIDs \in SUBSET ID
    BY <1>1, IDsUnderType, TypeParts
  <1>3. NewObject(o, st, {father}, newIDs) /\ o \in Obj
    BY DEF NewInnerScope, Obj
  <1>4. TableTypes' /\ GraphTypes'
    BY <1>1, <1>2, <1>3, NewObjectType
  <1>5. told \cup notifySubscribers(newIDs, st, HostsOf(subs[father])) \in Interests
    <2>1. notifySubscribers(newIDs, st, HostsOf(subs[father])) \in Interests
      BY <1>1, <1>2, NotifyType
    <2> QED
      BY <2>1, TypeParts DEF HistoryTypes, Interests
  <1>6. told' \in Interests
    BY <1>5, TellType DEF NewInnerScope
  <1> QED
    BY <1>4, <1>6, TypeParts DEF NewInnerScope, HistoryTypes

\* A new information item.
LEMMA NewItemType ==
    ASSUME TypeOK, NEW o \in ItemObj, NEW prefixID \in DOMAIN scopeIndex, NEW frag \in Frag,
           NEW st \in Strategy, NewItem(o, prefixID, frag, st)
    PROVE  TableTypes' /\ GraphTypes' /\ told' \in Interests
  <1> DEFINE father == scopeIndex[prefixID]
             newIDs == IDsUnder(father, frag)
  <1>1. father \in ScopeObj
    BY NamesType
  <1>2. newIDs \in SUBSET ID
    BY <1>1, IDsUnderType, TypeParts
  <1>3. NewObject(o, st, {father}, newIDs) /\ o \in Obj
    BY DEF NewItem, Obj
  <1>4. TableTypes' /\ GraphTypes'
    BY <1>1, <1>2, <1>3, NewObjectType
  <1> QED
    BY <1>4, TypeParts DEF NewItem, HistoryTypes

\* A new root scope.
LEMMA NewRootScopeType ==
    ASSUME TypeOK, NEW o \in ScopeObj, NEW frag \in Frag, NEW st \in Strategy,
           NewRootScope(o, frag, st)
    PROVE  TableTypes' /\ GraphTypes' /\ HistoryTypes'
  <1>1. {<<frag>>} \in SUBSET ID /\ {} \in SUBSET ScopeObj /\ o \in Obj
    BY IDFacts DEF Obj
  <1>2. NewObject(o, st, {}, {<<frag>>})
    BY DEF NewRootScope
  <1>3. TableTypes' /\ GraphTypes'
    BY <1>1, <1>2, NewObjectType
  <1> QED
    BY <1>3, TypeParts DEF NewRootScope, HistoryTypes

\* PUBLISH_SCOPE for a name without a republication.
LEMMA PublishScopeType ==
    ASSUME TypeOK, NEW h \in Host, NEW st \in Strategy, NEW frag \in Frag,
           \/ publish_root_scope(h, frag, st)
           \/ \E prefixID \in DOMAIN scopeIndex : publish_inner_scope(h, prefixID, frag, st)
    PROVE  TypeOK'
  <1>1. ASSUME NEW o \in ScopeObj, NewRootScope(o, frag, st), updatePublishers(o, <<frag>>, h)
        PROVE  TypeOK'
    <2>1. o \in Obj /\ <<frag>> \in ID
      BY IDFacts DEF Obj
    <2>2. PairTypes'
      BY <1>1, <2>1, UpdateType
    <2> QED
      BY <1>1, <2>2, NewRootScopeType, NextTypeParts
  <1>2. ASSUME NEW prefixID \in DOMAIN scopeIndex, NEW o \in ScopeObj,
               updatePublishers(o, Append(prefixID, frag), h),
               NewInnerScope(o, prefixID, frag, st)
        PROVE  TypeOK'
    <2>1. o \in Obj /\ Append(prefixID, frag) \in ID
      BY IDFacts, NamesType DEF Obj
    <2>2. PairTypes'
      BY <1>2, <2>1, UpdateType
    <2> QED
      BY <1>2, <2>2, NewInnerScopeType, NextTypeParts
  <1>3. ASSUME NEW id \in DOMAIN scopeIndex, updatePublishers(scopeIndex[id], id, h),
               UNCHANGED <<index, graph, matched, told>>
        PROVE  TypeOK'
    <2>1. PairTypes'
      BY <1>3, NamesType, UpdateType
    <2>2. TableTypes' /\ GraphTypes' /\ HistoryTypes'
      BY <1>3, TypeParts DEF TableTypes, GraphTypes, HistoryTypes, index, graph, Live
    <2> QED
      BY <2>1, <2>2, NextTypeParts
  <1> QED
    BY <1>1, <1>2, <1>3 DEF publish_root_scope, publish_inner_scope

\* What republishing a scope adds to its descendants are identifiers.
LEMMA GainedType ==
    ASSUME TypeOK, NEW n \in Obj, NEW e \in Obj, NEW base \in SUBSET ID
    PROVE  recursivelyUpdateIDs(n, e, base) \in SUBSET ID
  <1>1. ASSUME NEW x \in base \X ids[e] \X ids[n]
        PROVE  x[1] \o SubSeq(x[3], Len(x[2]) + 1, Len(x[3])) \in ID
    <2>1. x[1] \in ID /\ x[2] \in ID /\ x[3] \in ID
      BY <1>1, TypeParts DEF GraphTypes
    <2>2. \A k \in Len(x[2]) + 1 .. Len(x[3]) : x[3][k] \in Frag
      BY <2>1, ElementOfSeq, LenProperties DEF ID
    <2>3. SubSeq(x[3], Len(x[2]) + 1, Len(x[3])) \in Seq(Frag)
      BY <2>1, <2>2, SubSeqProperties, LenProperties DEF ID
    <2> QED
      BY <2>1, <2>3, ConcatProperties, ConcatEqualIffEmpty DEF ID
  <1> QED
    BY <1>1 DEF recursivelyUpdateIDs

\* PUBLISH_SCOPE for a scope that exists under another name.
LEMMA RepublishScopeType ==
    ASSUME TypeOK, NEW h \in Host, NEW st \in Strategy, NEW id \in DOMAIN scopeIndex,
           NEW prefixID \in DOMAIN scopeIndex, republish_inner_scope(h, id, prefixID, st)
    PROVE  TypeOK'
  <1> DEFINE fullID == Append(prefixID, Last(id))
             father == scopeIndex[prefixID]
             existing == scopeIndex[id]
             gained(n) == recursivelyUpdateIDs(n, existing, IDsUnder(father, Last(id)))
  <1>1. /\ fullID \in ID /\ father \in ScopeObj /\ existing \in ScopeObj
        /\ existing \in Obj /\ father \in Obj /\ HostsOf(subs[father]) \in SUBSET Host
    BY NamesType, IDFacts, HostsOfType
  <1>2. IDsUnder(father, Last(id)) \in SUBSET ID
    BY <1>1, NamesType, IDsUnderType, TypeParts
  <1>3. \A n \in Obj : gained(n) \in SUBSET ID
    BY <1>1, <1>2, GainedType
  <1> HIDE DEF gained
  <1>4. CASE fullID \notin DOMAIN scopeIndex
    <2>1. /\ fatherScopes' = [fatherScopes EXCEPT ![existing] = @ \cup {father}]
          /\ contents' = [contents EXCEPT ![father] = @ \cup {existing}]
          /\ ids' = [n \in Obj |-> ids[n] \cup gained(n)]
          /\ scopeIndex' = [x \in DOMAIN scopeIndex \cup UNION {gained(n) : n \in ScopeObj} |->
                              IF \E n \in ScopeObj : x \in gained(n)
                              THEN CHOOSE n \in ScopeObj : x \in gained(n)
                              ELSE scopeIndex[x]]
          /\ pubIndex' = [x \in DOMAIN pubIndex \cup UNION {gained(n) : n \in ItemObj} |->
                              IF \E n \in ItemObj : x \in gained(n)
                              THEN CHOOSE n \in ItemObj : x \in gained(n)
                              ELSE pubIndex[x]]
          /\ updatePublishers(existing, fullID, h)
          /\ Tell(told \cup notifySubscribers(ids'[existing] \ {id}, strategy[existing],
                                              HostsOf(subs[father])))
          /\ UNCHANGED <<strategy, matched>>
      BY <1>4 DEF republish_inner_scope, gained
    <2>2. GraphTypes'
      BY <1>1, <1>3, <2>1, TypeParts DEF GraphTypes
    <2>3. /\ DOMAIN scopeIndex' \subseteq ID
          /\ \A x \in DOMAIN scopeIndex' : scopeIndex'[x] \in ScopeObj
      BY <1>3, <2>1, TypeParts DEF TableTypes, Obj
    <2>4. /\ DOMAIN pubIndex' \subseteq ID
          /\ \A x \in DOMAIN pubIndex' : pubIndex'[x] \in ItemObj
      BY <1>3, <2>1, TypeParts DEF TableTypes, Obj
    <2>5. TableTypes'
      BY <2>1, <2>3, <2>4, TypeParts DEF TableTypes, Live
    <2>6. PairTypes'
      BY <1>1, <2>1, UpdateType
    <2>7. told' \in Interests
      <3>1. ids'[existing] \ {id} \in SUBSET ID
        BY <1>1, <2>2 DEF GraphTypes
      <3>2. notifySubscribers(ids'[existing] \ {id}, strategy[existing],
                              HostsOf(subs[father])) \in Interests
        BY <1>1, <3>1, NotifyType
      <3>3. told \cup notifySubscribers(ids'[existing] \ {id}, strategy[existing],
                                        HostsOf(subs[father])) \in Interests
        BY <3>2, TypeParts DEF HistoryTypes, Interests
      <3> QED
        BY <2>1, <3>3, TellType
    <2>8. HistoryTypes'
      BY <2>1, <2>7, TypeParts DEF HistoryTypes
    <2> QED
      BY <2>2, <2>5, <2>6, <2>8, NextTypeParts
  <1>5. CASE fullID \in DOMAIN scopeIndex
    <2>1. /\ updatePublishers(scopeIndex[fullID], fullID, h)
          /\ UNCHANGED <<index, graph, matched, told>>
      BY <1>5 DEF republish_inner_scope
    <2>2. PairTypes'
      BY <1>5, <2>1, NamesType, UpdateType
    <2>3. TableTypes' /\ GraphTypes' /\ HistoryTypes'
      BY <2>1, TypeParts DEF TableTypes, GraphTypes, HistoryTypes, index, graph, Live
    <2> QED
      BY <2>2, <2>3, NextTypeParts
  <1> QED
    BY <1>4, <1>5

\* Nothing but the records and the matches changes.
LEMMA SameGraphType ==
    ASSUME TypeOK, PairTypes', UNCHANGED <<index, graph>>
    PROVE  TableTypes' /\ GraphTypes'
  BY TypeParts DEF TableTypes, GraphTypes, index, graph, Live

\* A new publisher of an item that exists under this name.
LEMMA AddPublisherType ==
    ASSUME TypeOK, NEW h \in Host, NEW st \in Strategy, NEW prefixID, NEW fullID,
           AddPublisher(h, prefixID, fullID, st)
    PROVE  TypeOK'
  <1>1. /\ fullID \in DOMAIN pubIndex
        /\ updatePublishers(pubIndex[fullID], fullID, h)
        /\ UNCHANGED <<index, graph, told>>
        /\ Rematch({pubIndex[fullID]})
    BY DEF AddPublisher
  <1>2. PairTypes'
    BY <1>1, NamesType, UpdateType
  <1>3. TableTypes' /\ GraphTypes'
    BY <1>1, <1>2, SameGraphType
  <1>4. HistoryTypes'
    BY <1>1, <1>2, <1>3, RematchType, TypeParts DEF HistoryTypes
  <1> QED
    BY <1>2, <1>3, <1>4, NextTypeParts

\* PUBLISH_INFO.
LEMMA PublishInfoType ==
    ASSUME TypeOK, NEW h \in Host, NEW st \in Strategy, NEW prefixID \in DOMAIN scopeIndex,
           \/ \E frag \in Frag : advertise_info(h, prefixID, frag, st)
           \/ \E id \in DOMAIN pubIndex : readvertise_info(h, id, prefixID, st)
    PROVE  TypeOK'
  <1>1. ASSUME NEW frag \in Frag, NEW o \in ItemObj, NewItem(o, prefixID, frag, st),
               updatePublishers(o, Append(prefixID, frag), h), Rematch({o})
        PROVE  TypeOK'
    <2>1. o \in Obj /\ Append(prefixID, frag) \in ID
      BY NamesType, IDFacts DEF Obj
    <2>2. PairTypes'
      BY <1>1, <2>1, UpdateType
    <2>3. TableTypes' /\ GraphTypes' /\ told' \in Interests
      BY <1>1, NewItemType
    <2>4. HistoryTypes'
      BY <1>1, <2>2, <2>3, RematchType DEF HistoryTypes
    <2> QED
      BY <2>2, <2>3, <2>4, NextTypeParts
  <1>2. ASSUME NEW id \in DOMAIN pubIndex, readvertise_info(h, id, prefixID, st)
        PROVE  TypeOK'
    <2> DEFINE fullID == Append(prefixID, Last(id))
               father == scopeIndex[prefixID]
               existing == pubIndex[id]
               newIDs == (UNION {IDsUnder(f, Last(id)) : f \in fatherScopes[existing] \cup {father}})
                           \ ids[existing]
    <2>1. /\ fullID \in ID /\ father \in ScopeObj /\ existing \in ItemObj /\ existing \in Obj
          /\ Last(id) \in Frag
      BY NamesType, IDFacts
    <2>2. fatherScopes[existing] \cup {father} \in SUBSET ScopeObj
      BY <2>1, TypeParts DEF GraphTypes
    <2>3. \A f \in fatherScopes[existing] \cup {father} : IDsUnder(f, Last(id)) \in SUBSET ID
      BY <2>1, <2>2, IDsUnderType, TypeParts
    <2>4. newIDs \in SUBSET ID
      BY <2>3
    <2> HIDE DEF newIDs
    <2>5. CASE fullID \notin DOMAIN pubIndex
      <3>1. /\ fatherScopes' = [fatherScopes EXCEPT ![existing] = @ \cup {father}]
            /\ contents' = [contents EXCEPT ![father] = @ \cup {existing}]
            /\ ids' = [ids EXCEPT ![existing] = @ \cup newIDs]
            /\ pubIndex' = SetKeys(pubIndex, newIDs, existing)
            /\ updatePublishers(existing, fullID, h)
            /\ UNCHANGED <<scopeIndex, strategy, told>>
            /\ Rematch({existing})
        BY <1>2, <2>5 DEF readvertise_info, AddPublisher, newIDs
      <3>2. GraphTypes'
        BY <2>1, <2>4, <3>1, TypeParts DEF GraphTypes
      <3>3. TableTypes'
        BY <2>1, <2>4, <3>1, TypeParts DEF TableTypes, Live, SetKeys
      <3>4. PairTypes'
        BY <2>1, <3>1, UpdateType
      <3>5. HistoryTypes'
        BY <3>1, <3>2, <3>4, RematchType, TypeParts DEF HistoryTypes
      <3> QED
        BY <3>2, <3>3, <3>4, <3>5, NextTypeParts
    <2>6. CASE fullID \in DOMAIN pubIndex
      BY <1>2, <2>6, AddPublisherType DEF readvertise_info
    <2> QED
      BY <2>5, <2>6
  <1>3. ASSUME NEW frag \in Frag, advertise_info(h, prefixID, frag, st) PROVE TypeOK'
    BY <1>1, <1>3, AddPublisherType DEF advertise_info
  <1> QED
    BY <1>2, <1>3

\* A new subscriber of a scope that exists.
LEMMA AddScopeSubscriberType ==
    ASSUME TypeOK, NEW h \in Host, NEW st \in Strategy, NEW fullID,
           AddScopeSubscriber(h, fullID, st)
    PROVE  TypeOK'
  <1> DEFINE sc == scopeIndex[fullID]
             facts == UNION {notifySubscribers(ids[c], strategy[c], {h}) :
                               c \in contents[sc] \cap ScopeObj}
  <1>1. /\ fullID \in DOMAIN scopeIndex
        /\ updateSubscribers(sc, fullID, h)
        /\ UNCHANGED <<index, graph>>
        /\ Tell(told \cup facts)
        /\ Rematch(contents[sc] \cap ItemObj)
    BY DEF AddScopeSubscriber
  <1>2. PairTypes'
    BY <1>1, NamesType, UpdateType
  <1>3. TableTypes' /\ GraphTypes'
    BY <1>1, <1>2, SameGraphType
  <1>4. \A c \in ScopeObj : notifySubscribers(ids[c], strategy[c], {h}) \in Interests
    BY NotifyType, TypeParts DEF GraphTypes, Obj
  <1>5. told \cup facts \in Interests
    BY <1>4, TypeParts DEF HistoryTypes, Interests
  <1>6. told' \in Interests
    BY <1>1, <1>5, TellType
  <1>7. HistoryTypes'
    BY <1>1, <1>2, <1>3, <1>6, RematchType DEF HistoryTypes
  <1> QED
    BY <1>2, <1>3, <1>7, NextTypeParts

\* SUBSCRIBE_SCOPE.
LEMMA SubscribeScopeType ==
    ASSUME TypeOK, NEW h \in Host, NEW st \in Strategy, NEW frag \in Frag,
           \/ subscribe_root_scope(h, frag, st)
           \/ \E prefixID \in DOMAIN scopeIndex : subscribe_inner_scope(h, prefixID, frag, st)
    PROVE  TypeOK'
  <1>1. ASSUME NEW o \in ScopeObj, NewRootScope(o, frag, st), updateSubscribers(o, <<frag>>, h)
        PROVE  TypeOK'
    <2>1. o \in Obj /\ <<frag>> \in ID
      BY IDFacts DEF Obj
    <2>2. PairTypes'
      BY <1>1, <2>1, UpdateType
    <2> QED
      BY <1>1, <2>2, NewRootScopeType, NextTypeParts
  <1>2. ASSUME NEW prefixID \in DOMAIN scopeIndex, NEW o \in ScopeObj,
               updateSubscribers(o, Append(prefixID, frag), h),
               NewInnerScope(o, prefixID, frag, st)
        PROVE  TypeOK'
    <2>1. o \in Obj /\ Append(prefixID, frag) \in ID
      BY IDFacts, NamesType DEF Obj
    <2>2. PairTypes'
      BY <1>2, <2>1, UpdateType
    <2> QED
      BY <1>2, <2>2, NewInnerScopeType, NextTypeParts
  <1> QED
    BY <1>1, <1>2, AddScopeSubscriberType DEF subscribe_root_scope, subscribe_inner_scope

\* SUBSCRIBE_INFO.
LEMMA SubscribeInfoType ==
    ASSUME TypeOK, NEW h \in Host, NEW st \in Strategy, NEW frag \in Frag,
           NEW prefixID \in DOMAIN scopeIndex, subscribe_info(h, prefixID, frag, st)
    PROVE  TypeOK'
  <1> DEFINE fullID == Append(prefixID, frag)
  <1>1. ASSUME NEW o \in ItemObj, NewItem(o, prefixID, frag, st),
               updateSubscribers(o, fullID, h), UNCHANGED matched
        PROVE  TypeOK'
    <2>1. o \in Obj /\ fullID \in ID
      BY NamesType, IDFacts DEF Obj
    <2>2. PairTypes'
      BY <1>1, <2>1, UpdateType
    <2>3. TableTypes' /\ GraphTypes' /\ told' \in Interests
      BY <1>1, NewItemType
    <2>4. HistoryTypes'
      BY <1>1, <2>3, TypeParts DEF HistoryTypes
    <2> QED
      BY <2>2, <2>3, <2>4, NextTypeParts
  <1>2. ASSUME fullID \in DOMAIN pubIndex, updateSubscribers(pubIndex[fullID], fullID, h),
               UNCHANGED <<index, graph, told>>, Rematch({pubIndex[fullID]})
        PROVE  TypeOK'
    <2>1. PairTypes'
      BY <1>2, NamesType, UpdateType
    <2>2. TableTypes' /\ GraphTypes'
      BY <1>2, <2>1, SameGraphType
    <2>3. HistoryTypes'
      BY <1>2, <2>1, <2>2, RematchType, TypeParts DEF HistoryTypes
    <2> QED
      BY <2>1, <2>2, <2>3, NextTypeParts
  <1> QED
    BY <1>1, <1>2 DEF subscribe_info

\* Telling the father's subscribers that a scope is gone.
LEMMA NotifyUnpublishedType ==
    ASSUME TypeOK, NEW sc, NEW father, NEW fullID, NotifyUnpublished(sc, father, fullID)
    PROVE  told' \in Interests
  <1>1. PICK facts : facts \subseteq told /\ Tell(facts)
    BY DEF NotifyUnpublished
  <1>2. facts \in Interests
    BY <1>1, TypeParts DEF HistoryTypes, Interests
  <1> QED
    BY <1>1, <1>2, TellType

\* UNPUBLISH_INFO.
LEMMA UnpublishInfoType ==
    ASSUME TypeOK, NEW h, NEW st, NEW fullID, unpublish_info(h, fullID, st)
    PROVE  TypeOK'
  <1> DEFINE i == pubIndex[fullID]
             P == [pubs EXCEPT ![i] = @ \ {<<fullID, h>>}]
  <1>1. P \in [Obj -> Interests] /\ subs \in [Obj -> Interests]
    BY TypeParts DEF PairTypes, Interests
  <1>2. PICK edges : Cut(edges, P, subs)
    BY DEF unpublish_info
  <1>3. /\ published' = published \ {<<fullID, h>>}
        /\ UNCHANGED <<subscribed, told>>
        /\ Rematch({i})
    BY DEF unpublish_info
  <1> HIDE DEF P, i
  <1>4. TableTypes' /\ GraphTypes' /\ pubs' \in [Obj -> Interests] /\ subs' \in [Obj -> Interests]
    BY <1>1, <1>2, CutType
  <1>5. PairTypes'
    BY <1>3, <1>4, TypeParts DEF PairTypes, Interests
  <1>6. HistoryTypes'
    BY <1>3, <1>4, <1>5, RematchType, TypeParts DEF HistoryTypes
  <1> QED
    BY <1>4, <1>5, <1>6, NextTypeParts

\* UNPUBLISH_SCOPE.
LEMMA UnpublishScopeType ==
    ASSUME TypeOK, NEW h, NEW st, NEW fullID, unpublish_scope(h, fullID, st)
    PROVE  TypeOK'
  <1> DEFINE sc == scopeIndex[fullID]
             father == FatherOf(fullID)
             own(i) == {<<Append(id, SuffixID(i)), h>> : id \in ids[sc]}
             P(visited) == [o \in Obj |-> IF o \in visited THEN pubs[o] \ own(o)
                                          ELSE IF o = sc THEN pubs[o] \ {<<fullID, h>>}
                                          ELSE pubs[o]]
  <1>1. PICK visited :
          /\ published' = published \ UNION {pubs[o] \ P(visited)[o] : o \in Obj}
          /\ \E edges : Cut(edges, P(visited), subs)
          /\ UNCHANGED subscribed
          /\ NotifyUnpublished(sc, father, fullID) \/ UNCHANGED told
          /\ \E R : Rematch(R)
    BY Zenon DEF unpublish_scope
  <1>2. P(visited) \in [Obj -> Interests] /\ subs \in [Obj -> Interests]
    BY TypeParts DEF PairTypes, Interests
  <1> HIDE DEF P
  <1>3. TableTypes' /\ GraphTypes' /\ pubs' \in [Obj -> Interests] /\ subs' \in [Obj -> Interests]
    BY <1>1, <1>2, CutType
  <1>4. PairTypes'
    BY <1>1, <1>3, TypeParts DEF PairTypes, Interests
  <1>5. told' \in Interests
    BY <1>1, NotifyUnpublishedType, TypeParts DEF HistoryTypes
  <1>6. HistoryTypes'
    BY <1>1, <1>3, <1>4, <1>5, RematchType DEF HistoryTypes
  <1> QED
    BY <1>3, <1>4, <1>6, NextTypeParts

\* UNSUBSCRIBE_SCOPE.
LEMMA UnsubscribeScopeType ==
    ASSUME TypeOK, NEW h, NEW st, NEW fullID, unsubscribe_scope(h, fullID, st)
    PROVE  TypeOK'
  <1> DEFINE sc == scopeIndex[fullID]
             father == FatherOf(fullID)
             S == [subs EXCEPT ![sc] = @ \ {<<fullID, h>>}]
  <1>1. S \in [Obj -> Interests] /\ pubs \in [Obj -> Interests]
    BY TypeParts DEF PairTypes, Interests
  <1>2. PICK edges : Cut(edges, pubs, S)
    BY DEF unsubscribe_scope
  <1>3. /\ subscribed' = subscribed \ {<<fullID, h>>}
        /\ NotifyUnpublished(sc, father, fullID) \/ Tell(told)
        /\ UNCHANGED published
        /\ Rematch(contents[sc] \cap ItemObj)
    BY DEF unsubscribe_scope
  <1> HIDE DEF S, sc, father
  <1>4. TableTypes' /\ GraphTypes' /\ pubs' \in [Obj -> Interests] /\ subs' \in [Obj -> Interests]
    BY <1>1, <1>2, CutType
  <1>5. PairTypes'
    BY <1>3, <1>4, TypeParts DEF PairTypes, Interests
  <1>6. told' \in Interests
    BY <1>3, NotifyUnpublishedType, TellType, TypeParts DEF HistoryTypes
  <1>7. HistoryTypes'
    BY <1>3, <1>4, <1>5, <1>6, RematchType DEF HistoryTypes
  <1> QED
    BY <1>4, <1>5, <1>7, NextTypeParts

\* UNSUBSCRIBE_INFO.
LEMMA UnsubscribeInfoType ==
    ASSUME TypeOK, NEW h, NEW st, NEW fullID \in DOMAIN pubIndex,
           unsubscribe_info(h, fullID, st)
    PROVE  TypeOK'
  <1> DEFINE i == pubIndex[fullID]
             S == [subs EXCEPT ![i] = @ \ {<<fullID, h>>}]
             match == rendezvous(strategy[i], HostsOf(pubs[i]), AllSubscribers(i, S), ids[i])
  <1>1. S \in [Obj -> Interests] /\ pubs \in [Obj -> Interests]
    BY TypeParts DEF PairTypes, Interests
  <1>2. PICK edges : Cut(edges, pubs, S)
    BY DEF unsubscribe_info
  <1>3. /\ subscribed' = subscribed \ {<<fullID, h>>}
        /\ matched' = [matched EXCEPT ![i] = match]
        /\ UNCHANGED <<published, told>>
    BY DEF unsubscribe_info
  <1>4. i \in ItemObj /\ i \in Obj
    BY NamesType
  <1> HIDE DEF S, i
  <1>5. TableTypes' /\ GraphTypes' /\ pubs' \in [Obj -> Interests] /\ subs' \in [Obj -> Interests]
    BY <1>1, <1>2, CutType
  <1>6. PairTypes'
    BY <1>3, <1>5, TypeParts DEF PairTypes, Interests
  <1>7. match \in Match
    <2>1. fatherScopes[i] \in SUBSET ScopeObj /\ ids[i] \in SUBSET ID
      BY <1>4, TypeParts DEF GraphTypes
    <2>2. HostsOf(pubs[i]) \in SUBSET Host /\ HostsOf(S[i]) \in SUBSET Host
      BY <1>1, <1>4, HostsOfType
    <2>3. ASSUME NEW f \in fatherScopes[i] PROVE HostsOf(S[f]) \in SUBSET Host
      BY <1>1, <2>1, HostsOfType DEF Obj
    <2>4. AllSubscribers(i, S) \in SUBSET Host
      BY <2>2, <2>3 DEF AllSubscribers
    <2> QED
      BY <2>1, <2>2, <2>4, MatchType
  <1> HIDE DEF match
  <1>8. HistoryTypes'
    BY <1>3, <1>4, <1>7, TypeParts DEF HistoryTypes
  <1> QED
    BY <1>5, <1>6, <1>8, NextTypeParts

-----------------------------------------------------------------------------

\* No sequence of requests, of any hosts, takes the tables, the graph, the
\* RemoteHost records or the announced matches out of their types: in
\* particular an index never holds an object of the other kind and an empty
\* identifier never becomes a key.
THEOREM TypeCorrect == Spec => []TypeOK
  <1>1. Init => TypeOK
    BY LocalRVAssumption DEF Init, TypeOK, Live, NoMatch
  <1>2. TypeOK /\ [Next]_vars => TypeOK'
    <2> SUFFICES ASSUME TypeOK, [Next]_vars PROVE TypeOK'
      OBVIOUS
    <2>1. CASE UNCHANGED vars
      BY <2>1 DEF TypeOK, Live, vars, index, graph
    <2>2. ASSUME NEW h \in Host, NEW st \in Strategy, Publish(h, st) PROVE TypeOK'
      BY <2>2, PublishScopeType, RepublishScopeType, PublishInfoType DEF Publish
    <2>3. ASSUME NEW h \in Host, NEW st \in Strategy, Subscribe(h, st) PROVE TypeOK'
      BY <2>3, SubscribeScopeType, SubscribeInfoType DEF Subscribe
    <2>4. ASSUME NEW h \in Host, NEW st \in Strategy, Unpublish(h, st) PROVE TypeOK'
      BY <2>4, UnpublishScopeType, UnpublishInfoType DEF Unpublish
    <2>5. ASSUME NEW h \in Host, NEW st \in Strategy, Unsubscribe(h, st) PROVE TypeOK'
      BY <2>5, UnsubscribeScopeType, UnsubscribeInfoType DEF Unsubscribe
    <2> QED
      BY <2>1, <2>2, <2>3, <2>4, <2>5 DEF Next
  <1> QED
    BY <1>1, <1>2, PTL DEF Spec

(***************************************************************************)
(* The information graph stays sound: LocalRV's invariant GraphAgrees and  *)
(* its action property OthersKeepTheirs, proved for every number of hosts, *)
(* objects and fragments and every depth.                                  *)
(*                                                                         *)
(* GraphInv, the inductive invariant, is GraphAgrees without the types,    *)
(* proved above, and PrefixesExist, which follows.  Each request is one of *)
(* four changes of the graph, and each of these has a lemma:               *)
(*   SameGraphAgrees  a record under a name that exists;                   *)
(*   NewObjectGraph   a new object, under a new name for each name of its  *)
(*                    father;                                              *)
(*   GrowAgrees       an object gets one more father, and it and all that  *)
(*                    is below it gain the names that lead through him;    *)
(*   CutAgrees        links are cut, and what is below them loses the      *)
(*                    names that lead through them.                        *)
(* The last two speak of paths of any length: what an object gains or      *)
(* loses is a prefix replaced or removed in its names, and the lemmas      *)
(* StepBack, StepForward and PrefixNamed move along a name one fragment at *)
(* a time.  The induction over the length of a name is the choice of a     *)
(* least counterexample, which LeastElement provides.                      *)
(***************************************************************************)
-----------------------------------------------------------------------------
(* Facts about identifiers *)

\* Taking an identifier apart at its last fragment.
LEMMA AppendFacts ==
    ASSUME NEW x \in Seq(Frag), NEW s \in Frag
    PROVE  /\ Append(x, s) \in ID /\ Len(Append(x, s)) = Len(x) + 1
           /\ Last(Append(x, s)) = s /\ Front(Append(x, s)) = x
           /\ \A y \in Seq(Frag), t \in Frag : Append(x, s) = Append(y, t) => x = y /\ s = t
  <1>1. /\ Append(x, s) \in Seq(Frag) /\ Append(x, s) # <<>> /\ Len(x) \in Nat
        /\ Len(Append(x, s)) = Len(x) + 1
        /\ \A i \in 1 .. Len(x) : Append(x, s)[i] = x[i]
        /\ Append(x, s)[Len(x) + 1] = s
    BY AppendProperties, LenProperties
  <1>2. Front(Append(x, s)) = x
    <2>1. Front(Append(x, s)) = SubSeq(Append(x, s), 1, Len(x))
      BY <1>1 DEF Front
    <2>2. \A i \in 1 .. Len(x) : x[i] \in Frag
      BY ElementOfSeq
    <2>3. /\ SubSeq(Append(x, s), 1, Len(x)) \in Seq(Frag)
          /\ Len(SubSeq(Append(x, s), 1, Len(x))) = Len(x)
          /\ \A i \in 1 .. Len(x) : SubSeq(Append(x, s), 1, Len(x))[i] = x[i]
      BY <1>1, <2>2, SubSeqProperties
    <2> QED
      BY <2>1, <2>3, SeqEqual
  <1>3. \A y \in Seq(Frag), t \in Frag : Append(x, s) = Append(y, t) => x = y /\ s = t
    BY AppendInjective
  <1> QED
    BY <1>1, <1>2, <1>3 DEF ID, Last

\* Identifiers have a length, and those of one fragment are that fragment.
LEMMA LengthFacts ==
    ASSUME NEW x \in ID
    PROVE  /\ x \in Seq(Frag) /\ x # <<>> /\ Len(x) \in Nat \ {0}
           /\ \E y \in Seq(Frag), s \in Frag : x = Append(y, s)
  BY EmptySeq, SequenceEmptyOrAppend DEF ID

\* Concatenation with a fragment at the end.
LEMMA ConcatAppend ==
    ASSUME NEW x \in Seq(Frag), NEW w \in Seq(Frag), NEW s \in Frag
    PROVE  x \o Append(w, s) = Append(x \o w, s)
  <1>1. <<s>> \in Seq(Frag) /\ x \o w \in Seq(Frag)
    BY ConcatProperties
  <1>2. Append(w, s) = w \o <<s>> /\ Append(x \o w, s) = (x \o w) \o <<s>>
    BY <1>1, AppendIsConcat
  <1> QED
    BY <1>1, <1>2, ConcatAssociative

\* Sequence a is b followed by y.
Splits(a, b, y) == a = b \o y

\* Two ways of splitting one sequence.
LEMMA SplitFacts ==
    ASSUME NEW b \in Seq(Frag), NEW c \in Seq(Frag), NEW y \in Seq(Frag), NEW z \in Seq(Frag),
           NEW a, Splits(a, b, y), Splits(a, c, z), Len(b) <= Len(c)
    PROVE  \E w \in Seq(Frag) : Splits(c, b, w) /\ Splits(y, w, z)
  <1> DEFINE w == SubSeq(c, Len(b) + 1, Len(c))
  <1>0. b \o y = c \o z
    BY DEF Splits
  <1>1. /\ Len(b) \in Nat /\ Len(c) \in Nat /\ Len(y) \in Nat /\ Len(z) \in Nat
        /\ Len(b) + Len(y) = Len(c) + Len(z)
    BY <1>0, ConcatProperties, LenProperties
  <1>2. /\ \A i \in 1 .. Len(b) + Len(y) : (b \o y)[i] = IF i <= Len(b) THEN b[i] ELSE y[i - Len(b)]
        /\ \A i \in 1 .. Len(b) + Len(y) : (b \o y)[i] = IF i <= Len(c) THEN c[i] ELSE z[i - Len(c)]
    BY <1>0, <1>1, ConcatProperties
  <1>3. /\ w \in Seq(Frag) /\ Len(w) = Len(c) - Len(b)
        /\ \A i \in 1 .. Len(c) - Len(b) : w[i] = c[Len(b) + i]
    <2>1. \A i \in Len(b) + 1 .. Len(c) : c[i] \in Frag
      BY <1>1, ElementOfSeq
    <2> QED
      BY <1>1, <2>1, SubSeqProperties
  <1> HIDE DEF w
  <1>4. c = b \o w
    <2>1. /\ b \o w \in Seq(Frag) /\ Len(b \o w) = Len(c)
          /\ \A i \in 1 .. Len(c) : (b \o w)[i] = IF i <= Len(b) THEN b[i] ELSE w[i - Len(b)]
      BY <1>1, <1>3, ConcatProperties
    <2>2. ASSUME NEW i \in 1 .. Len(c) PROVE (b \o w)[i] = c[i]
      <3>1. CASE i <= Len(b)
        <4>1. i \in 1 .. Len(b) + Len(y) /\ i <= Len(c)
          BY <1>1, <3>1
        <4> QED
          BY <1>2, <2>1, <3>1, <4>1
      <3>2. CASE i > Len(b)
        <4>1. i - Len(b) \in 1 .. Len(c) - Len(b) /\ Len(b) + (i - Len(b)) = i /\ ~(i <= Len(b))
          BY <1>1, <3>2
        <4> QED
          BY <1>3, <2>1, <4>1
      <3>3. i <= Len(b) \/ i > Len(b)
        BY <1>1
      <3> QED
        BY <3>1, <3>2, <3>3
    <2> QED
      BY <2>1, <2>2, SeqEqual
  <1>5. y = w \o z
    <2>1. /\ w \o z \in Seq(Frag) /\ Len(w \o z) = Len(y)
          /\ \A i \in 1 .. Len(y) : (w \o z)[i] = IF i <= Len(w) THEN w[i] ELSE z[i - Len(w)]
      BY <1>1, <1>3, ConcatProperties
    <2>2. ASSUME NEW i \in 1 .. Len(y) PROVE (w \o z)[i] = y[i]
      <3>1. i + Len(b) \in 1 .. Len(b) + Len(y)
        BY <1>1
      <3>2. (b \o y)[i + Len(b)] = y[i]
        BY <1>1, <1>2, <3>1
      <3>3. (b \o y)[i + Len(b)] = IF i <= Len(w) THEN w[i] ELSE z[i - Len(w)]
        BY SMTT(30), <1>1, <1>2, <1>3, <3>1
      <3> QED
        BY <2>1, <3>2, <3>3
    <2> QED
      BY <2>1, <2>2, SeqEqual
  <1> QED
    BY <1>3, <1>4, <1>5 DEF Splits

\* A prefix, and what follows it.
LEMMA PrefixFacts ==
    ASSUME NEW x \in Seq(Frag), NEW y \in Seq(Frag)
    PROVE  /\ IsPrefix(x, y) =>
                /\ SubSeq(y, Len(x) + 1, Len(y)) \in Seq(Frag)
                /\ y = x \o SubSeq(y, Len(x) + 1, Len(y))
           /\ \A z \in Seq(Frag) : y = x \o z =>
                IsPrefix(x, y) /\ SubSeq(y, Len(x) + 1, Len(y)) = z
  <1>1. /\ Len(x) \in Nat /\ Len(y) \in Nat
        /\ \A i \in 1 .. Len(x) : x[i] \in Frag
        /\ \A i \in 1 .. Len(y) : y[i] \in Frag
    BY LenProperties, ElementOfSeq
  <1>2. SubSeq(x, 1, Len(x)) = x
    BY SubSeqFull
  <1>3. ASSUME IsPrefix(x, y)
        PROVE  /\ SubSeq(y, Len(x) + 1, Len(y)) \in Seq(Frag)
               /\ y = x \o SubSeq(y, Len(x) + 1, Len(y))
    <2>1. Len(x) <= Len(y) /\ x = SubSeq(y, 1, Len(x))
      BY <1>2, <1>3 DEF IsPrefix
    <2>2. SubSeq(y, 1, Len(x)) \o SubSeq(y, Len(x) + 1, Len(y)) = SubSeq(y, 1, Len(y))
      <3>1. 1 \in 1 .. Len(y) + 1 /\ Len(x) \in 1 - 1 .. Len(y) /\ Len(y) \in Len(x) .. Len(y)
        BY <1>1, <2>1
      <3> QED
        BY <3>1, ConcatAdjacentSubSeq
    <2>3. SubSeq(y, 1, Len(y)) = y
      BY SubSeqFull
    <2>4. SubSeq(y, Len(x) + 1, Len(y)) \in Seq(Frag)
      BY <1>1, SubSeqProperties
    <2> QED
      BY <2>1, <2>2, <2>3, <2>4
  <1>4. ASSUME NEW z \in Seq(Frag), y = x \o z
        PROVE  IsPrefix(x, y) /\ SubSeq(y, Len(x) + 1, Len(y)) = z
    <2>1. /\ Len(z) \in Nat /\ Len(y) = Len(x) + Len(z)
          /\ \A i \in 1 .. Len(x) + Len(z) : y[i] = IF i <= Len(x) THEN x[i] ELSE z[i - Len(x)]
      BY <1>4, ConcatProperties, LenProperties
    <2>2. SubSeq(y, 1, Len(x)) = x
      <3>1. /\ SubSeq(y, 1, Len(x)) \in Seq(Frag) /\ Len(SubSeq(y, 1, Len(x))) = Len(x)
            /\ \A i \in 1 .. Len(x) : SubSeq(y, 1, Len(x))[i] = y[i]
        BY <1>1, <2>1, SubSeqProperties
      <3>2. \A i \in 1 .. Len(x) : y[i] = x[i]
        BY <1>1, <2>1
      <3> QED
        BY <3>1, <3>2, SeqEqual
    <2>3. SubSeq(y, Len(x) + 1, Len(y)) = z
      <3> DEFINE r == SubSeq(y, Len(x) + 1, Len(y))
      <3>1. \A i \in Len(x) + 1 .. Len(y) : y[i] \in Frag
        BY <1>1, <2>1
      <3>2. r \in Seq(Frag) /\ Len(r) = Len(z) /\ \A i \in 1 .. Len(z) : r[i] = y[Len(x) + 1 + i - 1]
        BY <1>1, <2>1, <3>1, SubSeqProperties
      <3>3. ASSUME NEW i \in 1 .. Len(z) PROVE r[i] = z[i]
        <4>1. /\ Len(x) + 1 + i - 1 = Len(x) + i /\ Len(x) + i \in 1 .. Len(x) + Len(z)
              /\ ~(Len(x) + i <= Len(x)) /\ (Len(x) + i) - Len(x) = i
          BY <1>1, <2>1
        <4>2. y[Len(x) + i] = z[i]
          BY <2>1, <4>1
        <4> QED
          BY <3>2, <4>1, <4>2
      <3> QED
        BY <3>2, <3>3, SeqEqual
    <2> QED
      BY <1>1, <1>2, <2>1, <2>2, <2>3 DEF IsPrefix
  <1> QED
    BY <1>3, <1>4

-----------------------------------------------------------------------------
(* Facts about the graph *)

\* The names in the two indexes, and whose they are.
LEMMA IndexFacts ==
    ASSUME TypeOK, IndexesAgree, NamesAreUnique
    PROVE  /\ \A x \in DOMAIN scopeIndex :
                /\ scopeIndex[x] \in ScopeObj /\ scopeIndex[x] \in Obj /\ scopeIndex[x] \in Live
                /\ x \in ids[scopeIndex[x]]
           /\ \A x \in DOMAIN pubIndex :
                /\ pubIndex[x] \in ItemObj /\ pubIndex[x] \in Obj /\ pubIndex[x] \in Live
                /\ x \in ids[pubIndex[x]]
           /\ \A o \in ScopeObj : \A x \in ids[o] : x \in DOMAIN scopeIndex /\ scopeIndex[x] = o
           /\ \A o \in ItemObj : \A x \in ids[o] : x \in DOMAIN pubIndex /\ pubIndex[x] = o
           /\ \A o \in Obj, n \in Obj : \A x : x \in ids[o] /\ x \in ids[n] => o = n
           /\ \A o \in Obj : \A x \in ids[o] : o \in Live /\ x \in ID
  <1>1. /\ \A x \in DOMAIN scopeIndex : scopeIndex[x] \in ScopeObj /\ x \in ids[scopeIndex[x]]
        /\ \A x \in DOMAIN pubIndex : pubIndex[x] \in ItemObj /\ x \in ids[pubIndex[x]]
    BY TypeParts DEF TableTypes, IndexesAgree
  <1>2. /\ \A o \in ScopeObj : \A x \in ids[o] : x \in DOMAIN scopeIndex /\ scopeIndex[x] = o
        /\ \A o \in ItemObj : \A x \in ids[o] : x \in DOMAIN pubIndex /\ pubIndex[x] = o
    BY DEF IndexesAgree
  <1>3. \A o \in Obj : \A x \in ids[o] : o \in Live /\ x \in ID
    BY TypeParts DEF IndexesAgree, GraphTypes
  <1>4. \A o \in Obj, n \in Obj : \A x : x \in ids[o] /\ x \in ids[n] => o = n
    BY <1>2 DEF NamesAreUnique, Obj
  <1>5. \A o : o \in ScopeObj \/ o \in ItemObj => o \in Obj
    BY DEF Obj
  <1> QED
    BY <1>1, <1>2, <1>3, <1>4, <1>5

\* An object's identifiers are what IDsArePaths says, with s its fragment.
PathsEndIn(o, s) ==
    ids[o] = IF fatherScopes[o] = {} THEN {<<s>>}
             ELSE UNION {IDsUnder(f, s) : f \in fatherScopes[o]}

\* x is a path to object o whose fragment is s, when F are the fathers and I
\* the identifiers of the objects.
OnPath(F, I, o, s, x) ==
    IF F[o] = {} THEN x = <<s>> ELSE \E f \in F[o] : \E y \in I[f] : x = Append(y, s)

\* The same as a set.
PathSet(F, I, o, s) ==
    IF F[o] = {} THEN {<<s>>} ELSE UNION {{Append(y, s) : y \in I[f]} : f \in F[o]}

\* A set of paths, read member by member.
LEMMA PathsByMembers ==
    ASSUME NEW F, NEW I, NEW o, NEW s
    PROVE  (\A x : x \in I[o] <=> OnPath(F, I, o, s, x)) <=> I[o] = PathSet(F, I, o, s)
  <1>1. CASE F[o] = {}
    BY <1>1 DEF OnPath, PathSet
  <1>2. CASE F[o] # {}
    <2>1. \A x : x \in UNION {{Append(y, s) : y \in I[f]} : f \in F[o]}
                   <=> \E f \in F[o] : \E y \in I[f] : x = Append(y, s)
      OBVIOUS
    <2> QED
      BY <1>2, <2>1 DEF OnPath, PathSet
  <1> QED
    BY <1>1, <1>2

\* IDsArePaths says that every object has a fragment that ends all its paths.
LEMMA PathMembers ==
    ASSUME IDsArePaths, NEW o \in Live
    PROVE  \E s \in Frag : \A x : x \in ids[o] <=> OnPath(fatherScopes, ids, o, s, x)
  BY PathsByMembers DEF IDsArePaths, IDsUnder, PathSet

\* The same, for the state after a step.
LEMMA NextPathMembers ==
    ASSUME \A o \in Live' : \E s \in Frag :
             \A x : x \in ids'[o] <=> OnPath(fatherScopes', ids', o, s, x)
    PROVE  IDsArePaths'
  <1>1. \A o \in Live' : \E s \in Frag : ids'[o] = PathSet(fatherScopes', ids', o, s)
    BY PathsByMembers
  <1> QED
    BY <1>1, Zenon DEF PathSet, IDsArePaths, IDsUnder

\* The fragment of an object and how its identifiers come about.
LEMMA PathFacts ==
    ASSUME TypeOK, IndexesAgree, LinksAgree, IDsArePaths, NEW o \in Live
    PROVE  /\ o \in Obj /\ SuffixID(o) \in Frag /\ PathsEndIn(o, SuffixID(o))
           /\ \A x \in ids[o] : x \in ID /\ Last(x) = SuffixID(o)
           /\ fatherScopes[o] = {} => ids[o] = {<<SuffixID(o)>>}
           /\ fatherScopes[o] # {} =>
                \A x : x \in ids[o] <=> \E f \in fatherScopes[o] :
                          \E y \in ids[f] : x = Append(y, SuffixID(o))
           /\ \A f \in fatherScopes[o] : /\ f \in ScopeObj /\ f \in Obj /\ f \in Live /\ ids[f] # {}
                                          /\ o \in contents[f]
  <1>1. o \in Obj /\ ids[o] # {} /\ \A x \in ids[o] : x \in ID
    BY TypeParts DEF TableTypes, GraphTypes, IndexesAgree
  <1>2. \A f \in fatherScopes[o] : /\ f \in ScopeObj /\ f \in Obj /\ f \in Live /\ ids[f] # {}
                                   /\ o \in contents[f]
    BY <1>1, TypeParts DEF GraphTypes, IndexesAgree, LinksAgree, Obj
  <1>3. PICK s \in Frag : PathsEndIn(o, s)
    BY DEF IDsArePaths, PathsEndIn
  <1>4. \A f \in fatherScopes[o] : \A y \in ids[f] : y \in Seq(Frag)
    BY <1>2, TypeParts DEF GraphTypes, ID
  <1>5. ASSUME NEW x \in ids[o] PROVE Last(x) = s
    <2>1. CASE fatherScopes[o] = {}
      <3>1. x = <<s>>
        BY <1>3, <2>1 DEF PathsEndIn
      <3> QED
        BY <3>1 DEF Last
    <2>2. CASE fatherScopes[o] # {}
      <3>1. PICK f \in fatherScopes[o] : \E y \in ids[f] : x = Append(y, s)
        BY <1>3, <2>2 DEF PathsEndIn, IDsUnder
      <3> QED
        BY <1>4, <3>1, AppendFacts
    <2> QED
      BY <2>1, <2>2
  <1>6. SuffixID(o) = s
    BY <1>1, <1>5 DEF SuffixID
  <1>7. fatherScopes[o] # {} =>
          \A x : x \in ids[o] <=> \E f \in fatherScopes[o] : \E y \in ids[f] : x = Append(y, s)
    BY <1>3 DEF PathsEndIn, IDsUnder
  <1>8. fatherScopes[o] = {} => ids[o] = {<<s>>}
    BY <1>3 DEF PathsEndIn
  <1> QED
    BY <1>1, <1>2, <1>3, <1>5, <1>6, <1>7, <1>8

(***************************************************************************)
(* The inductive invariant.  PrefixesExist follows from it.                *)
(***************************************************************************)
Structure == IndexesAgree /\ LinksAgree /\ IDsArePaths /\ NamesAreUnique

GraphInv == Structure /\ RemoteHostsAgree

\* An object that has an identifier of two fragments or more is below the
\* scope that the identifier without its last fragment names.
LEMMA FatherFacts ==
    ASSUME TypeOK, Structure, NEW o \in Obj, NEW y \in ID, NEW s \in Frag,
           Append(y, s) \in ids[o]
    PROVE  /\ s = SuffixID(o)
           /\ \E f \in fatherScopes[o] : y \in ids[f]
  <1>1. o \in Live
    BY IndexFacts DEF Structure
  <1>2. y \in Seq(Frag) /\ Len(y) \in Nat \ {0}
    BY LengthFacts
  <1>3. Len(Append(y, s)) = Len(y) + 1
    BY <1>2, AppendFacts
  <1>4. SuffixID(o) \in Frag
    BY <1>1, PathFacts DEF Structure
  <1>5. fatherScopes[o] # {}
    <2>1. fatherScopes[o] = {} => Append(y, s) = <<SuffixID(o)>>
      BY <1>1, PathFacts DEF Structure
    <2> DEFINE one == <<SuffixID(o)>>
    <2>2. Len(one) = 1
      OBVIOUS
    <2>3. Len(y) + 1 # 1
      BY <1>2
    <2> HIDE DEF one
    <2> QED
      BY <1>3, <2>1, <2>2, <2>3 DEF one
  <1>6. PICK f \in fatherScopes[o] : \E z \in ids[f] : Append(y, s) = Append(z, SuffixID(o))
    BY <1>1, <1>5, PathFacts DEF Structure
  <1>7. PICK z \in ids[f] : Append(y, s) = Append(z, SuffixID(o))
    BY <1>6
  <1>8. z \in Seq(Frag)
    <2>1. f \in Obj
      BY <1>1, PathFacts DEF Structure
    <2> QED
      BY <2>1, IndexFacts, LengthFacts DEF Structure
  <1>9. y = z /\ s = SuffixID(o)
    BY <1>2, <1>4, <1>7, <1>8, AppendFacts
  <1> QED
    BY <1>9

\* If a scope's name extended by s is free, so are all its names extended by s.
LEMMA FreshNames ==
    ASSUME TypeOK, Structure, NEW f \in ScopeObj, NEW p \in ids[f], NEW s \in Frag,
           Append(p, s) \notin DOMAIN scopeIndex, Append(p, s) \notin DOMAIN pubIndex
    PROVE  \A x \in ids[f], o \in Obj : Append(x, s) \notin ids[o]
  <1> SUFFICES ASSUME NEW x \in ids[f], NEW o \in Obj, Append(x, s) \in ids[o]
               PROVE  FALSE
    OBVIOUS
  <1>1. f \in Obj /\ x \in ID
    BY IndexFacts DEF Obj, Structure
  <1>2. s = SuffixID(o) /\ \E g \in fatherScopes[o] : x \in ids[g]
    BY <1>1, FatherFacts
  <1>3. o \in Live
    BY IndexFacts DEF Structure
  <1>4. f \in fatherScopes[o]
    <2>1. \A g \in fatherScopes[o] : g \in Obj
      BY <1>3, PathFacts DEF Structure
    <2> QED
      BY <1>1, <1>2, <2>1, IndexFacts DEF Structure
  <1>5. Append(p, s) \in ids[o]
    BY <1>2, <1>3, <1>4, PathFacts DEF Structure
  <1> QED
    BY <1>5, IndexFacts DEF Structure, Obj

\* A publication or subscription under an identifier of the object is added,
\* while the graph only grows.
LEMMA AddedPairAgrees ==
    ASSUME TypeOK, Structure, RemoteHostsAgree, NEW o \in Obj, NEW id, NEW h,
           updatePublishers(o, id, h) \/ updateSubscribers(o, id, h),
           Live \subseteq Live', Live' \subseteq Obj, o \in Live',
           \A n \in Obj : ids[n] \subseteq ids'[n], id \in ids'[o]
    PROVE  RemoteHostsAgree'
  <1>1. /\ pubs \in [Obj -> Interests] /\ subs \in [Obj -> Interests]
        /\ \A n \in Obj : \A p \in pubs[n] \cup subs[n] : p[1] \in ids[n] /\ n \in Live
    BY IndexFacts, TypeParts DEF PairTypes, RemoteHostsAgree, Structure
  <1>2. ASSUME updatePublishers(o, id, h) PROVE RemoteHostsAgree'
    <2>1. /\ pubs' = [pubs EXCEPT ![o] = @ \cup {<<id, h>>}] /\ subs' = subs
          /\ published' = published \cup {<<id, h>>} /\ subscribed' = subscribed
      BY <1>2 DEF updatePublishers
    <2>2. published' = UNION {pubs'[n] : n \in Live'}
      <3>1. \A p \in published' : \E n \in Live' : p \in pubs'[n]
        BY <1>1, <2>1 DEF RemoteHostsAgree
      <3>2. \A n \in Live' : \A p \in pubs'[n] : p \in published'
        BY <1>1, <2>1 DEF RemoteHostsAgree
      <3> QED
        BY <3>1, <3>2
    <2>3. subscribed' = UNION {subs'[n] : n \in Live'}
      BY <1>1, <2>1 DEF RemoteHostsAgree
    <2>4. \A n \in Obj : \A p \in pubs'[n] \cup subs'[n] : p[1] \in ids'[n]
      BY <1>1, <2>1
    <2> QED
      BY <2>2, <2>3, <2>4 DEF RemoteHostsAgree
  <1>3. ASSUME updateSubscribers(o, id, h) PROVE RemoteHostsAgree'
    <2>1. /\ subs' = [subs EXCEPT ![o] = @ \cup {<<id, h>>}] /\ pubs' = pubs
          /\ subscribed' = subscribed \cup {<<id, h>>} /\ published' = published
      BY <1>3 DEF updateSubscribers
    <2>2. subscribed' = UNION {subs'[n] : n \in Live'}
      <3>1. \A p \in subscribed' : \E n \in Live' : p \in subs'[n]
        BY <1>1, <2>1 DEF RemoteHostsAgree
      <3>2. \A n \in Live' : \A p \in subs'[n] : p \in subscribed'
        BY <1>1, <2>1 DEF RemoteHostsAgree
      <3> QED
        BY <3>1, <3>2
    <2>3. published' = UNION {pubs'[n] : n \in Live'}
      BY <1>1, <2>1 DEF RemoteHostsAgree
    <2>4. \A n \in Obj : \A p \in pubs'[n] \cup subs'[n] : p[1] \in ids'[n]
      BY <1>1, <2>1
    <2> QED
      BY <2>2, <2>3, <2>4 DEF RemoteHostsAgree
  <1> QED
    BY <1>2, <1>3

\* Only host h's publications and subscriptions change.
OthersKeep(h) ==
    \A o \in Obj :
        /\ \A p \in pubs[o] \cup pubs'[o] : p[2] # h => p \in pubs[o] /\ p \in pubs'[o]
        /\ \A p \in subs[o] \cup subs'[o] : p[2] # h => p \in subs[o] /\ p \in subs'[o]

\* Recording a publisher or a subscriber is the business of that host.
LEMMA UpdateIsOwn ==
    ASSUME TypeOK, NEW o \in Obj, NEW id, NEW h,
           updatePublishers(o, id, h) \/ updateSubscribers(o, id, h)
    PROVE  OthersKeep(h)
  <1>1. pubs \in [Obj -> Interests] /\ subs \in [Obj -> Interests]
    BY TypeParts DEF PairTypes
  <1> DEFINE q == <<id, h>>
  <1>2. q[2] = h
    OBVIOUS
  <1>3. CASE updatePublishers(o, id, h)
    <2>1. subs' = subs /\ \A n \in Obj : pubs'[n] = IF n = o THEN pubs[n] \cup {q} ELSE pubs[n]
      BY <1>1, <1>3 DEF updatePublishers
    <2> HIDE DEF q
    <2> QED
      BY <1>2, <2>1 DEF OthersKeep
  <1>4. CASE updateSubscribers(o, id, h)
    <2>1. pubs' = pubs /\ \A n \in Obj : subs'[n] = IF n = o THEN subs[n] \cup {q} ELSE subs[n]
      BY <1>1, <1>4 DEF updateSubscribers
    <2> HIDE DEF q
    <2> QED
      BY <1>2, <2>1 DEF OthersKeep
  <1> QED
    BY <1>3, <1>4

-----------------------------------------------------------------------------
(* Growing the graph *)

\* An address that is not in use has no identifiers, fathers or contents.
LEMMA FreeObject ==
    ASSUME TypeOK, Structure, NEW o \in Obj, o \notin Live
    PROVE  /\ ids[o] = {} /\ fatherScopes[o] = {}
           /\ \A f \in ScopeObj : o \notin contents[f]
           /\ \A n \in Obj : o \notin fatherScopes[n]
           /\ o \in ScopeObj => contents[o] = {}
  BY TypeParts DEF Structure, IndexesAgree, LinksAgree, GraphTypes, Obj

\* A new object, under a new name for each of its father's.
LEMMA NewObjectAgrees ==
    ASSUME TypeOK, Structure, NEW o \in Obj, NEW st, NEW fathers \in SUBSET ScopeObj,
           NEW newIDs, NEW s \in Frag, NewObject(o, st, fathers, newIDs),
           \/ fathers = {} /\ newIDs = {<<s>>} /\ o \in ScopeObj
           \/ \E f \in ScopeObj : fathers = {f} /\ f \in Live /\ newIDs = IDsUnder(f, s),
           \A x \in newIDs, n \in Obj : x \notin ids[n]
    PROVE  Structure' /\ Live' = Live \cup {o}
  <1>1. /\ o \notin Live
        /\ strategy' = SetKeys(strategy, {o}, st)
        /\ fatherScopes' = [fatherScopes EXCEPT ![o] = fathers]
        /\ contents' = [f \in ScopeObj |-> IF f \in fathers THEN contents[f] \cup {o}
                                                            ELSE contents[f]]
        /\ ids' = [ids EXCEPT ![o] = newIDs]
        /\ scopeIndex' = IF o \in ScopeObj THEN SetKeys(scopeIndex, newIDs, o) ELSE scopeIndex
        /\ pubIndex' = IF o \in ItemObj THEN SetKeys(pubIndex, newIDs, o) ELSE pubIndex
    BY DEF NewObject
  <1>2. /\ fatherScopes \in [Obj -> SUBSET ScopeObj]
        /\ contents \in [ScopeObj -> SUBSET Obj]
        /\ ids \in [Obj -> SUBSET ID]
    BY TypeParts DEF GraphTypes
  <1>3. /\ ids[o] = {} /\ fatherScopes[o] = {}
        /\ \A f \in ScopeObj : o \notin contents[f]
        /\ \A n \in Obj : o \notin fatherScopes[n]
        /\ o \in ScopeObj => contents[o] = {}
    BY <1>1, FreeObject
  <1>4. /\ \A n \in Obj : ids'[n] = IF n = o THEN newIDs ELSE ids[n]
        /\ \A n \in Obj : fatherScopes'[n] = IF n = o THEN fathers ELSE fatherScopes[n]
        /\ \A f \in ScopeObj : contents'[f] = IF f \in fathers THEN contents[f] \cup {o} ELSE contents[f]
    BY <1>1, <1>2
  <1>5. Live' = Live \cup {o}
    BY <1>1 DEF Live, SetKeys
  <1>6. newIDs # {}
    <2>1. \A f \in ScopeObj : f \in Live => ids[f] # {}
      BY DEF Structure, IndexesAgree, Obj
    <2> QED
      BY <2>1 DEF IDsUnder
  <1>7. /\ \A n \in ScopeObj : n \in Obj /\ n \notin ItemObj
        /\ \A n \in ItemObj : n \in Obj /\ n \notin ScopeObj
        /\ o \in ScopeObj \/ o \in ItemObj
    BY LocalRVAssumption DEF Obj
  <1>8. /\ \A x \in DOMAIN scopeIndex : x \notin newIDs
        /\ \A x \in DOMAIN pubIndex : x \notin newIDs
    BY IndexFacts DEF Structure
  <1>9. /\ DOMAIN scopeIndex' = IF o \in ScopeObj THEN DOMAIN scopeIndex \cup newIDs ELSE DOMAIN scopeIndex
        /\ \A x \in DOMAIN scopeIndex' :
             scopeIndex'[x] = IF o \in ScopeObj /\ x \in newIDs THEN o ELSE scopeIndex[x]
    BY <1>1 DEF SetKeys
  <1>10. /\ DOMAIN pubIndex' = IF o \in ItemObj THEN DOMAIN pubIndex \cup newIDs ELSE DOMAIN pubIndex
         /\ \A x \in DOMAIN pubIndex' :
              pubIndex'[x] = IF o \in ItemObj /\ x \in newIDs THEN o ELSE pubIndex[x]
    BY <1>1 DEF SetKeys
  <1>11. IndexesAgree'
    <2>1. ASSUME NEW n \in ScopeObj, NEW x
          PROVE  x \in ids'[n] <=> x \in DOMAIN scopeIndex' /\ scopeIndex'[x] = n
      <3>1. x \in ids[n] <=> x \in DOMAIN scopeIndex /\ scopeIndex[x] = n
        BY DEF Structure, IndexesAgree
      <3>2. n # o \/ x \notin DOMAIN scopeIndex \/ scopeIndex[x] # o
        BY <1>3, <3>1
      <3> QED
        BY <1>4, <1>7, <1>8, <1>9, <3>1, <3>2
    <2>2. ASSUME NEW n \in ItemObj, NEW x
          PROVE  x \in ids'[n] <=> x \in DOMAIN pubIndex' /\ pubIndex'[x] = n
      <3>1. x \in ids[n] <=> x \in DOMAIN pubIndex /\ pubIndex[x] = n
        BY DEF Structure, IndexesAgree
      <3>2. n # o \/ x \notin DOMAIN pubIndex \/ pubIndex[x] # o
        BY <1>3, <3>1
      <3> QED
        BY <1>4, <1>7, <1>8, <1>10, <3>1, <3>2
    <2>3. \A n \in Obj : n \in Live' <=> ids'[n] # {}
      BY <1>4, <1>5, <1>6 DEF Structure, IndexesAgree
    <2> QED
      BY <2>1, <2>2, <2>3 DEF IndexesAgree
  <1>12. LinksAgree'
    <2>1. \A f \in fathers : f \in Live /\ f # o
      BY <1>1
    <2>2. ASSUME NEW n \in Obj, NEW f \in ScopeObj
          PROVE  /\ f \in fatherScopes'[n] <=> n \in contents'[f]
                 /\ f \in fatherScopes'[n] => f \in Live' /\ n \in Live'
      <3>1. /\ f \in fatherScopes[n] <=> n \in contents[f]
            /\ f \in fatherScopes[n] => f \in Live /\ n \in Live
        BY DEF Structure, LinksAgree
      <3>2. CASE n = o
        BY <1>3, <1>4, <1>5, <2>1, <3>1, <3>2
      <3>3. CASE n # o
        BY ZenonT(30), <1>4, <1>5, <3>1, <3>3
      <3> QED
        BY <3>2, <3>3
    <2>3. \A i \in ItemObj \cap Live' : fatherScopes'[i] # {}
      BY <1>4, <1>5, <1>7 DEF Structure, LinksAgree
    <2> QED
      BY <2>2, <2>3 DEF LinksAgree
  <1>13. IDsArePaths'
    <2> SUFFICES ASSUME NEW n \in Live'
                 PROVE  \E t \in Frag : \A x : x \in ids'[n] <=> OnPath(fatherScopes', ids', n, t, x)
      BY NextPathMembers
    <2>1. CASE n = o
      <3>1. \A f \in fathers : ids'[f] = ids[f]
        BY <1>1, <1>4, <1>7
      <3>2. \A x : x \in newIDs <=> OnPath(fatherScopes', ids', o, s, x)
        BY <1>4, <3>1 DEF OnPath, IDsUnder
      <3> QED
        BY <1>4, <2>1, <3>2
    <2>2. CASE n # o
      <3>1. n \in Live /\ n \in Obj
        BY <1>5, <2>2, TypeParts DEF TableTypes
      <3>2. PICK t \in Frag : \A x : x \in ids[n] <=> OnPath(fatherScopes, ids, n, t, x)
        BY <3>1, PathMembers DEF Structure
      <3>3. /\ ids'[n] = ids[n] /\ fatherScopes'[n] = fatherScopes[n]
            /\ \A f \in fatherScopes[n] : ids'[f] = ids[f]
        BY <1>2, <1>3, <1>4, <1>7, <2>2, <3>1
      <3>4. \A x : x \in ids'[n] <=> OnPath(fatherScopes', ids', n, t, x)
        BY <3>2, <3>3 DEF OnPath
      <3> QED
        BY <3>4
    <2> QED
      BY <2>1, <2>2
  <1>14. NamesAreUnique'
    BY <1>7, <1>8, <1>9, <1>10 DEF Structure, NamesAreUnique
  <1> QED
    BY <1>5, <1>11, <1>12, <1>13, <1>14 DEF Structure

\* A request that adds a publication or subscription under an existing name.
LEMMA SameGraphAgrees ==
    ASSUME TypeOK, GraphInv, NEW o \in Obj, NEW id \in ids[o], NEW h,
           updatePublishers(o, id, h) \/ updateSubscribers(o, id, h),
           UNCHANGED <<index, graph>>
    PROVE  GraphInv'
  <1>1. /\ scopeIndex' = scopeIndex /\ pubIndex' = pubIndex /\ strategy' = strategy
        /\ fatherScopes' = fatherScopes /\ contents' = contents /\ ids' = ids
    BY DEF index, graph
  <1>2. Structure'
    <2>1. IndexesAgree' /\ LinksAgree' /\ NamesAreUnique'
      BY <1>1 DEF GraphInv, Structure, IndexesAgree, LinksAgree, NamesAreUnique, Live
    <2>2. IDsArePaths'
      <3>1. \A n \in Live : \E s \in Frag :
              \A x : x \in ids[n] <=> OnPath(fatherScopes, ids, n, s, x)
        BY PathMembers DEF GraphInv, Structure
      <3>2. Live' = Live
        BY <1>1 DEF Live
      <3>3. \A n \in Live' : \E s \in Frag :
              \A x : x \in ids'[n] <=> OnPath(fatherScopes', ids', n, s, x)
        BY <1>1, <3>1, <3>2
      <3> QED
        BY <3>3, NextPathMembers
    <2> QED
      BY <2>1, <2>2 DEF Structure
  <1>3. Live' = Live /\ Live \subseteq Obj /\ o \in Live
    BY <1>1, IndexFacts, TypeParts DEF Live, GraphInv, Structure, TableTypes
  <1>4. RemoteHostsAgree'
    BY <1>1, <1>3, AddedPairAgrees DEF GraphInv
  <1> QED
    BY <1>2, <1>4 DEF GraphInv

\* A request that adds one under the name of a new object.
LEMMA NewObjectGraph ==
    ASSUME TypeOK, GraphInv, NEW o \in Obj, NEW st, NEW fathers \in SUBSET ScopeObj,
           NEW newIDs, NEW s \in Frag, NewObject(o, st, fathers, newIDs),
           \/ fathers = {} /\ newIDs = {<<s>>} /\ o \in ScopeObj
           \/ \E f \in ScopeObj : fathers = {f} /\ f \in Live /\ newIDs = IDsUnder(f, s),
           \A x \in newIDs, n \in Obj : x \notin ids[n],
           NEW id \in newIDs, NEW h, updatePublishers(o, id, h) \/ updateSubscribers(o, id, h)
    PROVE  GraphInv'
  <1>1. Structure' /\ Live' = Live \cup {o}
    BY NewObjectAgrees DEF GraphInv
  <1>2. Live \subseteq Live' /\ Live' \subseteq Obj /\ o \in Live'
    BY <1>1, TypeParts DEF TableTypes
  <1>3. (\A n \in Obj : ids[n] \subseteq ids'[n]) /\ id \in ids'[o]
    <2>1. ids' = [ids EXCEPT ![o] = newIDs] /\ o \notin Live
      BY DEF NewObject
    <2>2. ids \in [Obj -> SUBSET ID] /\ ids[o] = {}
      BY <2>1, FreeObject, TypeParts DEF GraphTypes, GraphInv
    <2> QED
      BY <2>1, <2>2
  <1>4. RemoteHostsAgree'
    BY <1>2, <1>3, AddedPairAgrees DEF GraphInv
  <1> QED
    BY <1>1, <1>4 DEF GraphInv

\* A new root scope: no item can have its name, which has one fragment only.
LEMMA NewRootScopeAgrees ==
    ASSUME TypeOK, GraphInv, NEW o \in ScopeObj, NEW frag \in Frag, NEW st, NEW h,
           updatePublishers(o, <<frag>>, h) \/ updateSubscribers(o, <<frag>>, h),
           NewRootScope(o, frag, st)
    PROVE  GraphInv'
  <1> DEFINE id == <<frag>>
  <1>1. id \notin DOMAIN scopeIndex /\ NewObject(o, st, {}, {id})
    BY DEF NewRootScope
  <1>2. Len(id) = 1
    OBVIOUS
  <1>3. ASSUME NEW n \in Obj, id \in ids[n] PROVE FALSE
    <2>1. n \in Live
      BY <1>3, IndexFacts DEF GraphInv, Structure
    <2>2. n \in ItemObj
      BY <1>1, <1>3, IndexFacts DEF GraphInv, Structure, Obj
    <2>3. fatherScopes[n] # {}
      BY <2>1, <2>2 DEF GraphInv, Structure, LinksAgree
    <2>4. PICK f \in fatherScopes[n] : \E y \in ids[f] : id = Append(y, SuffixID(n))
      BY <1>3, <2>1, <2>3, PathFacts DEF GraphInv, Structure
    <2>5. PICK y \in ids[f] : id = Append(y, SuffixID(n))
      BY <2>4
    <2>6. f \in Obj /\ SuffixID(n) \in Frag
      BY <2>1, PathFacts DEF GraphInv, Structure
    <2>7. y \in ID
      BY <2>6, IndexFacts DEF GraphInv, Structure
    <2>8. Len(y) \in Nat \ {0} /\ Len(id) = Len(y) + 1
      BY <2>5, <2>6, <2>7, LengthFacts, AppendFacts
    <2> QED
      BY <1>2, <2>8
  <1>4. updatePublishers(o, id, h) \/ updateSubscribers(o, id, h)
    OBVIOUS
  <1>5. {id} = {<<frag>>} /\ o \in Obj /\ id \in {id} /\ {} \in SUBSET ScopeObj
    BY DEF Obj
  <1> HIDE DEF id
  <1>6. \A x \in {id}, n \in Obj : x \notin ids[n]
    BY <1>3
  <1> QED
    BY <1>1, <1>4, <1>5, <1>6, NewObjectGraph

\* A new object below a scope.
LEMMA NewBelowAgrees ==
    ASSUME TypeOK, GraphInv, NEW o \in Obj, NEW p \in DOMAIN scopeIndex, NEW s \in Frag,
           NEW st, NEW h,
           updatePublishers(o, Append(p, s), h) \/ updateSubscribers(o, Append(p, s), h),
           Append(p, s) \notin DOMAIN scopeIndex, Append(p, s) \notin DOMAIN pubIndex,
           NewObject(o, st, {scopeIndex[p]}, IDsUnder(scopeIndex[p], s))
    PROVE  GraphInv'
  <1> DEFINE f == scopeIndex[p]
             newIDs == IDsUnder(f, s)
  <1>1. f \in ScopeObj /\ f \in Live /\ p \in ids[f] /\ f \in Obj
    BY IndexFacts DEF GraphInv, Structure
  <1>2. \A x \in ids[f], n \in Obj : Append(x, s) \notin ids[n]
    BY <1>1, FreshNames DEF GraphInv
  <1>3. /\ \A x \in newIDs, n \in Obj : x \notin ids[n]
        /\ Append(p, s) \in newIDs
    BY <1>1, <1>2 DEF IDsUnder
  <1>4. NewObject(o, st, {f}, newIDs)
    OBVIOUS
  <1>5. {f} \in SUBSET ScopeObj /\ \E g \in ScopeObj : {f} = {g} /\ g \in Live /\ newIDs = IDsUnder(g, s)
    BY <1>1
  <1> HIDE DEF f, newIDs
  <1> QED
    BY <1>3, <1>4, <1>5, NewObjectGraph

\* PUBLISH_SCOPE.
LEMMA PublishScopeAgrees ==
    ASSUME TypeOK, GraphInv, NEW h, NEW st, NEW frag \in Frag,
           \/ publish_root_scope(h, frag, st)
           \/ \E p \in DOMAIN scopeIndex : publish_inner_scope(h, p, frag, st)
    PROVE  GraphInv'
  <1> DEFINE root == <<frag>>
  <1>1. ASSUME NEW o \in ScopeObj, updatePublishers(o, root, h), NewRootScope(o, frag, st)
        PROVE  GraphInv'
    BY <1>1, NewRootScopeAgrees
  <1>2. ASSUME NEW id \in DOMAIN scopeIndex, updatePublishers(scopeIndex[id], id, h),
               UNCHANGED <<index, graph>>
        PROVE  GraphInv'
    <2>1. scopeIndex[id] \in Obj /\ id \in ids[scopeIndex[id]]
      BY IndexFacts DEF GraphInv, Structure
    <2> QED
      BY <1>2, <2>1, SameGraphAgrees
  <1>3. ASSUME NEW p \in DOMAIN scopeIndex, NEW o \in ScopeObj,
               updatePublishers(o, Append(p, frag), h), NewInnerScope(o, p, frag, st)
        PROVE  GraphInv'
    <2>1. o \in Obj
      BY DEF Obj
    <2> QED
      BY <1>3, <2>1, NewBelowAgrees DEF NewInnerScope
  <1> HIDE DEF root
  <1>4. CASE publish_root_scope(h, frag, st)
    BY <1>1, <1>2, <1>4 DEF publish_root_scope, root
  <1>5. ASSUME NEW p \in DOMAIN scopeIndex, publish_inner_scope(h, p, frag, st) PROVE GraphInv'
    BY <1>2, <1>3, <1>5 DEF publish_inner_scope
  <1> QED
    BY <1>4, <1>5

\* SUBSCRIBE_SCOPE.
LEMMA SubscribeScopeAgrees ==
    ASSUME TypeOK, GraphInv, NEW h, NEW st, NEW frag \in Frag,
           \/ subscribe_root_scope(h, frag, st)
           \/ \E p \in DOMAIN scopeIndex : subscribe_inner_scope(h, p, frag, st)
    PROVE  GraphInv'
  <1> DEFINE root == <<frag>>
  <1>1. ASSUME NEW o \in ScopeObj, updateSubscribers(o, root, h), NewRootScope(o, frag, st)
        PROVE  GraphInv'
    BY <1>1, NewRootScopeAgrees
  <1>2. ASSUME NEW id, AddScopeSubscriber(h, id, st) PROVE GraphInv'
    <2>1. id \in DOMAIN scopeIndex /\ updateSubscribers(scopeIndex[id], id, h)
          /\ UNCHANGED <<index, graph>>
      BY <1>2 DEF AddScopeSubscriber
    <2>2. scopeIndex[id] \in Obj /\ id \in ids[scopeIndex[id]]
      BY <2>1, IndexFacts DEF GraphInv, Structure
    <2> QED
      BY <2>1, <2>2, SameGraphAgrees
  <1>3. ASSUME NEW p \in DOMAIN scopeIndex, NEW o \in ScopeObj,
               updateSubscribers(o, Append(p, frag), h), NewInnerScope(o, p, frag, st)
        PROVE  GraphInv'
    <2>1. o \in Obj
      BY DEF Obj
    <2> QED
      BY <1>3, <2>1, NewBelowAgrees DEF NewInnerScope
  <1> HIDE DEF root
  <1>4. CASE subscribe_root_scope(h, frag, st)
    BY <1>1, <1>2, <1>4 DEF subscribe_root_scope, root
  <1>5. ASSUME NEW p \in DOMAIN scopeIndex, subscribe_inner_scope(h, p, frag, st) PROVE GraphInv'
    BY <1>2, <1>3, <1>5 DEF subscribe_inner_scope
  <1> QED
    BY <1>4, <1>5

\* A new item.
LEMMA NewItemAgrees ==
    ASSUME TypeOK, GraphInv, NEW p \in DOMAIN scopeIndex, NEW o \in ItemObj, NEW frag \in Frag,
           NEW st, NEW h,
           updatePublishers(o, Append(p, frag), h) \/ updateSubscribers(o, Append(p, frag), h),
           NewItem(o, p, frag, st)
    PROVE  GraphInv'
  <1>1. o \in Obj
    BY DEF Obj
  <1> QED
    BY <1>1, NewBelowAgrees DEF NewItem

\* A publisher or subscriber of an item that exists.
LEMMA AddToItemAgrees ==
    ASSUME TypeOK, GraphInv, NEW id \in DOMAIN pubIndex, NEW h,
           updatePublishers(pubIndex[id], id, h) \/ updateSubscribers(pubIndex[id], id, h),
           UNCHANGED <<index, graph>>
    PROVE  GraphInv'
  <1>1. pubIndex[id] \in Obj /\ id \in ids[pubIndex[id]]
    BY IndexFacts DEF GraphInv, Structure
  <1> QED
    BY <1>1, SameGraphAgrees

\* PUBLISH_INFO, without the republications, and SUBSCRIBE_INFO.
LEMMA ItemRequestsAgree ==
    ASSUME TypeOK, GraphInv, NEW h, NEW st, NEW frag \in Frag, NEW p \in DOMAIN scopeIndex,
           advertise_info(h, p, frag, st) \/ subscribe_info(h, p, frag, st)
    PROVE  GraphInv'
  <1>1. ASSUME advertise_info(h, p, frag, st) PROVE GraphInv'
    BY <1>1, NewItemAgrees, AddToItemAgrees DEF advertise_info, AddPublisher
  <1>2. ASSUME subscribe_info(h, p, frag, st) PROVE GraphInv'
    BY <1>2, NewItemAgrees, AddToItemAgrees DEF subscribe_info
  <1> QED
    BY <1>1, <1>2

-----------------------------------------------------------------------------
(* Republishing *)

(***************************************************************************)
(* Object e, which has a father, gets another one.  G is what the objects  *)
(* gain: fresh identifiers, no two objects the same, and exactly those of  *)
(* the paths that lead through the new link.                               *)
(***************************************************************************)
GainIsFresh(G) ==
    /\ \A n \in Obj : \A x \in G[n] : n \in Live
    /\ \A n \in Obj, m \in Obj : \A x \in G[n] : x \notin ids[m] /\ (x \in G[m] => n = m)

GainIsPaths(e, father, G) ==
    \A n \in Live : \A x : x \in G[n] <=>
       \/ \E f \in fatherScopes[n] : \E y \in G[f] : x = Append(y, SuffixID(n))
       \/ n = e /\ \E y \in ids[father] \cup G[father] : x = Append(y, SuffixID(n))

IndexGains(table, newTable, objects, G) ==
    /\ \A x : x \in DOMAIN newTable <=> x \in DOMAIN table \/ \E n \in objects : x \in G[n]
    /\ \A n \in objects : \A x \in G[n] : newTable[x] = n
    /\ \A x \in DOMAIN table : newTable[x] = table[x]

LinkTo(e, father, G) ==
    /\ strategy' = strategy
    /\ fatherScopes' = [fatherScopes EXCEPT ![e] = @ \cup {father}]
    /\ contents' = [contents EXCEPT ![father] = @ \cup {e}]
    /\ ids' = [n \in Obj |-> ids[n] \cup G[n]]

\* The indexes take up fresh identifiers.
LEMMA IndexGainsAgree ==
    ASSUME NEW table, NEW newTable, NEW objects, NEW I, NEW G,
           \A n \in objects : \A x : x \in I[n] <=> x \in DOMAIN table /\ table[x] = n,
           \A x \in DOMAIN table : table[x] \in objects,
           IndexGains(table, newTable, objects, G),
           \A n \in objects, m \in objects : \A x \in G[n] : x \notin I[m] /\ (x \in G[m] => n = m)
    PROVE  \A n \in objects : \A x :
              x \in I[n] \cup G[n] <=> x \in DOMAIN newTable /\ newTable[x] = n
  BY DEF IndexGains

\* The graph stays sound.
LEMMA GrowAgrees ==
    ASSUME TypeOK, GraphInv, NEW e \in Live, NEW father \in ScopeObj, father \in Live,
           fatherScopes[e] # {}, NEW G \in [Obj -> SUBSET ID],
           GainIsFresh(G), GainIsPaths(e, father, G), LinkTo(e, father, G),
           IndexGains(scopeIndex, scopeIndex', ScopeObj, G),
           IndexGains(pubIndex, pubIndex', ItemObj, G),
           NEW id \in ids'[e], NEW h, updatePublishers(e, id, h)
    PROVE  GraphInv'
  <1>1. /\ fatherScopes \in [Obj -> SUBSET ScopeObj] /\ contents \in [ScopeObj -> SUBSET Obj]
        /\ ids \in [Obj -> SUBSET ID] /\ Live \subseteq Obj /\ e \in Obj /\ father \in Obj
    BY TypeParts DEF GraphTypes, TableTypes, Obj
  <1>2. /\ \A n \in Obj : fatherScopes'[n] = IF n = e THEN fatherScopes[n] \cup {father}
                                             ELSE fatherScopes[n]
        /\ \A f \in ScopeObj : contents'[f] = IF f = father THEN contents[f] \cup {e} ELSE contents[f]
        /\ \A n \in Obj : ids'[n] = ids[n] \cup G[n]
        /\ Live' = Live
    BY <1>1 DEF Live, LinkTo
  <1>3. /\ \A n \in ScopeObj : n \in Obj /\ n \notin ItemObj
        /\ \A n \in ItemObj : n \in Obj /\ n \notin ScopeObj
        /\ \A n \in Obj : n \in ScopeObj \/ n \in ItemObj
    BY LocalRVAssumption DEF Obj
  <1>4. IndexesAgree'
    <2>1. \A n \in ScopeObj : \A x : x \in ids'[n] <=> x \in DOMAIN scopeIndex' /\ scopeIndex'[x] = n
      <3>1. \A n \in ScopeObj : \A x : x \in ids[n] <=> x \in DOMAIN scopeIndex /\ scopeIndex[x] = n
        BY DEF GraphInv, Structure, IndexesAgree
      <3>2. \A x \in DOMAIN scopeIndex : scopeIndex[x] \in ScopeObj
        BY TypeParts DEF TableTypes
      <3>3. \A n \in ScopeObj, m \in ScopeObj : \A x \in G[n] :
              x \notin ids[m] /\ (x \in G[m] => n = m)
        BY <1>3 DEF GainIsFresh
      <3>4. \A n \in ScopeObj : \A x : x \in ids[n] \cup G[n] <=> x \in DOMAIN scopeIndex' /\ scopeIndex'[x] = n
        BY <3>1, <3>2, <3>3, IndexGainsAgree
      <3> QED
        BY <1>2, <1>3, <3>4
    <2>2. \A n \in ItemObj : \A x : x \in ids'[n] <=> x \in DOMAIN pubIndex' /\ pubIndex'[x] = n
      <3>1. \A n \in ItemObj : \A x : x \in ids[n] <=> x \in DOMAIN pubIndex /\ pubIndex[x] = n
        BY DEF GraphInv, Structure, IndexesAgree
      <3>2. \A x \in DOMAIN pubIndex : pubIndex[x] \in ItemObj
        BY TypeParts DEF TableTypes
      <3>3. \A n \in ItemObj, m \in ItemObj : \A x \in G[n] :
              x \notin ids[m] /\ (x \in G[m] => n = m)
        BY <1>3 DEF GainIsFresh
      <3>4. \A n \in ItemObj : \A x : x \in ids[n] \cup G[n] <=> x \in DOMAIN pubIndex' /\ pubIndex'[x] = n
        BY <3>1, <3>2, <3>3, IndexGainsAgree
      <3> QED
        BY <1>2, <1>3, <3>4
    <2>3. \A n \in Obj : n \in Live' <=> ids'[n] # {}
      BY <1>2 DEF GraphInv, Structure, IndexesAgree, GainIsFresh
    <2> QED
      BY <2>1, <2>2, <2>3 DEF IndexesAgree
  <1>5. LinksAgree'
    <2>1. ASSUME NEW n \in Obj, NEW f \in ScopeObj
          PROVE  /\ f \in fatherScopes'[n] <=> n \in contents'[f]
                 /\ f \in fatherScopes'[n] => f \in Live' /\ n \in Live'
      <3>1. /\ f \in fatherScopes[n] <=> n \in contents[f]
            /\ f \in fatherScopes[n] => f \in Live /\ n \in Live
        BY DEF GraphInv, Structure, LinksAgree
      <3> QED
        BY <1>2, <3>1
    <2>2. ASSUME NEW i \in ItemObj \cap Live' PROVE fatherScopes'[i] # {}
      <3>1. i \in Obj /\ fatherScopes[i] # {}
        BY <1>2, <1>3 DEF GraphInv, Structure, LinksAgree
      <3> QED
        BY <1>2, <3>1
    <2> QED
      BY <2>1, <2>2 DEF LinksAgree
  <1>6. IDsArePaths'
    <2> SUFFICES ASSUME NEW n \in Live
                 PROVE  \E t \in Frag : \A x : x \in ids'[n] <=> OnPath(fatherScopes', ids', n, t, x)
      BY <1>2, NextPathMembers
    <2> DEFINE s == SuffixID(n)
    <2>1. n \in Obj /\ s \in Frag /\ \A f \in fatherScopes[n] : f \in Obj
      BY PathFacts DEF GraphInv, Structure
    <2>2. CASE fatherScopes[n] = {}
      <3>1. fatherScopes'[n] = {} /\ G[n] = {}
        BY <1>2, <2>1, <2>2 DEF GainIsPaths
      <3>2. ids'[n] = {<<s>>}
        BY <1>2, <2>1, <2>2, <3>1, PathFacts DEF GraphInv, Structure
      <3> HIDE DEF s
      <3>3. \A x : x \in ids'[n] <=> OnPath(fatherScopes', ids', n, s, x)
        BY <3>1, <3>2 DEF OnPath
      <3> QED
        BY <2>1, <3>3
    <2>3. CASE fatherScopes[n] # {}
      <3>1. fatherScopes'[n] # {}
        BY <1>2, <2>1, <2>3
      <3>2. \A x : x \in ids[n] <=> \E f \in fatherScopes[n] : \E y \in ids[f] : x = Append(y, s)
        BY <2>3, PathFacts DEF GraphInv, Structure
      <3>3. \A x : x \in G[n] <=>
              \/ \E f \in fatherScopes[n] : \E y \in G[f] : x = Append(y, s)
              \/ n = e /\ \E y \in ids[father] \cup G[father] : x = Append(y, s)
        BY DEF GainIsPaths
      <3>4. /\ \A f \in fatherScopes[n] : ids'[f] = ids[f] \cup G[f]
            /\ ids'[father] = ids[father] \cup G[father] /\ ids'[n] = ids[n] \cup G[n]
            /\ fatherScopes'[n] = IF n = e THEN fatherScopes[n] \cup {father} ELSE fatherScopes[n]
        BY <1>1, <1>2, <2>1
      <3> HIDE DEF s
      <3>5. \A x : x \in ids'[n] <=> \E f \in fatherScopes'[n] : \E y \in ids'[f] : x = Append(y, s)
        BY <3>2, <3>3, <3>4
      <3>6. \A x : x \in ids'[n] <=> OnPath(fatherScopes', ids', n, s, x)
        BY <3>1, <3>5 DEF OnPath
      <3> QED
        BY <2>1, <3>6
    <2> QED
      BY <2>2, <2>3
  <1>7. NamesAreUnique'
    <2> SUFFICES ASSUME NEW x, x \in DOMAIN scopeIndex', x \in DOMAIN pubIndex' PROVE FALSE
      BY DEF NamesAreUnique
    <2>1. x \in DOMAIN scopeIndex => \E n \in Obj : x \in ids[n] /\ n \in ScopeObj
      BY IndexFacts DEF GraphInv, Structure
    <2>2. x \in DOMAIN pubIndex => \E n \in Obj : x \in ids[n] /\ n \in ItemObj
      BY IndexFacts DEF GraphInv, Structure
    <2>3. ~(x \in DOMAIN scopeIndex /\ x \in DOMAIN pubIndex)
      BY DEF GraphInv, Structure, NamesAreUnique
    <2>4. /\ x \in DOMAIN scopeIndex \/ \E n \in ScopeObj : x \in G[n]
          /\ x \in DOMAIN pubIndex \/ \E n \in ItemObj : x \in G[n]
      BY DEF IndexGains
    <2> QED
      BY <1>3, <2>1, <2>2, <2>3, <2>4 DEF GainIsFresh
  <1>8. RemoteHostsAgree'
    BY <1>1, <1>2, AddedPairAgrees DEF GraphInv
  <1> QED
    BY <1>4, <1>5, <1>6, <1>7, <1>8 DEF GraphInv, Structure

\* PUBLISH_INFO with an identifier of several fragments.  The names under the
\* new father are fresh, because the one the request asks for is.
LEMMA ReadvertiseAgrees ==
    ASSUME TypeOK, GraphInv, NEW h, NEW st, NEW id \in DOMAIN pubIndex,
           NEW p \in DOMAIN scopeIndex, readvertise_info(h, id, p, st)
    PROVE  GraphInv'
  <1> DEFINE fullID == Append(p, Last(id))
             father == scopeIndex[p]
             e == pubIndex[id]
             s == Last(id)
             newIDs == (UNION {IDsUnder(f, s) : f \in fatherScopes[e] \cup {father}}) \ ids[e]
             G == [n \in Obj |-> IF n = e THEN IDsUnder(father, s) ELSE {}]
  <1>1. /\ father \in ScopeObj /\ father \in Obj /\ father \in Live /\ p \in ids[father]
        /\ e \in ItemObj /\ e \in Obj /\ e \in Live /\ id \in ids[e]
    BY IndexFacts DEF GraphInv, Structure
  <1>2. s = SuffixID(e) /\ s \in Frag /\ fatherScopes[e] # {}
    <2>1. Last(id) = SuffixID(e) /\ SuffixID(e) \in Frag
      BY <1>1, PathFacts DEF GraphInv, Structure
    <2> QED
      BY <1>1, <2>1 DEF GraphInv, Structure, LinksAgree
  <1>3. CASE AddPublisher(h, p, fullID, st)
    BY <1>3, AddToItemAgrees DEF AddPublisher
  <1>4. CASE /\ fullID \notin DOMAIN scopeIndex /\ fullID \notin DOMAIN pubIndex
             /\ fatherScopes' = [fatherScopes EXCEPT ![e] = @ \cup {father}]
             /\ contents' = [contents EXCEPT ![father] = @ \cup {e}]
             /\ ids' = [ids EXCEPT ![e] = @ \cup newIDs]
             /\ pubIndex' = SetKeys(pubIndex, newIDs, e)
             /\ updatePublishers(e, fullID, h)
             /\ scopeIndex' = scopeIndex /\ strategy' = strategy
    <2>1. \A x \in ids[father], n \in Obj : Append(x, s) \notin ids[n]
      BY <1>1, <1>2, <1>4, FreshNames DEF GraphInv
    <2>2. newIDs = IDsUnder(father, s)
      <3>1. \A x : x \in ids[e] <=> \E f \in fatherScopes[e] : \E y \in ids[f] : x = Append(y, s)
        BY <1>1, <1>2, PathFacts DEF GraphInv, Structure
      <3>2. \A f, x : x \in IDsUnder(f, s) <=> \E y \in ids[f] : x = Append(y, s)
        BY DEF IDsUnder
      <3>3. \A x : x \in newIDs <=> /\ \E f \in fatherScopes[e] \cup {father} : x \in IDsUnder(f, s)
                                    /\ x \notin ids[e]
        OBVIOUS
      <3> HIDE DEF newIDs, father, e, s
      <3>4. \A x \in IDsUnder(father, s) : x \notin ids[e]
        BY <1>1, <2>1 DEF IDsUnder
      <3>5. \A f \in fatherScopes[e] : \A x \in IDsUnder(f, s) : x \in ids[e]
        BY <3>1, <3>2
      <3>6. \A x : x \in newIDs <=> x \in IDsUnder(father, s)
        BY <3>3, <3>4, <3>5
      <3> QED
        BY <3>6 DEF newIDs
    <2>3. IDsUnder(father, s) \in SUBSET ID /\ fullID \in IDsUnder(father, s)
      BY <1>1, <1>2, IDsUnderType, TypeParts DEF IDsUnder
    <2> HIDE DEF fullID, father, e, s, newIDs
    <2>4. G \in [Obj -> SUBSET ID]
      BY <2>3
    <2>5. /\ G[e] = IDsUnder(father, s)
          /\ \A n \in Obj : n # e => G[n] = {}
      BY <1>1
    <2>6. GainIsFresh(G)
      <3>1. \A x \in IDsUnder(father, s), n \in Obj : x \notin ids[n]
        BY <2>1 DEF IDsUnder
      <3> HIDE DEF G
      <3> QED
        BY <1>1, <2>5, <3>1 DEF GainIsFresh
    <2>7. GainIsPaths(e, father, G)
      <3> SUFFICES ASSUME NEW n \in Live, NEW x
                   PROVE  x \in G[n] <=>
                            \/ \E f \in fatherScopes[n] : \E y \in G[f] : x = Append(y, SuffixID(n))
                            \/ n = e /\ \E y \in ids[father] \cup G[father] : x = Append(y, SuffixID(n))
        BY DEF GainIsPaths
      <3>1. n \in Obj /\ \A f \in fatherScopes[n] : f \in ScopeObj /\ f \in Obj
        BY PathFacts DEF GraphInv, Structure
      <3>2. \A f \in ScopeObj : f # e
        BY <1>1, LocalRVAssumption
      <3>3. G[father] = {} /\ \A f \in fatherScopes[n] : G[f] = {}
        BY <1>1, <2>5, <3>1, <3>2
      <3> HIDE DEF G
      <3> QED
        BY <1>2, <2>5, <3>1, <3>3 DEF IDsUnder
    <2>8. LinkTo(e, father, G) /\ fullID \in ids'[e]
      <3>1. ids \in [Obj -> SUBSET ID]
        BY TypeParts DEF GraphTypes
      <3>2. ids' = [n \in Obj |-> ids[n] \cup G[n]]
        BY <1>1, <1>4, <2>2, <2>5, <3>1
      <3> HIDE DEF G
      <3> QED
        BY ZenonT(30), <1>1, <1>4, <2>3, <2>5, <3>2 DEF LinkTo
    <2>9. /\ IndexGains(scopeIndex, scopeIndex', ScopeObj, G)
          /\ IndexGains(pubIndex, pubIndex', ItemObj, G)
      <3>1. \A n \in ScopeObj : G[n] = {}
        BY <1>1, <2>5, LocalRVAssumption DEF Obj
      <3>2. \A n \in ItemObj : n # e => G[n] = {}
        BY <2>5 DEF Obj
      <3>3. /\ DOMAIN pubIndex' = DOMAIN pubIndex \cup G[e]
            /\ \A x \in DOMAIN pubIndex' : pubIndex'[x] = IF x \in G[e] THEN e ELSE pubIndex[x]
        BY <1>4, <2>2, <2>5 DEF SetKeys
      <3>4. \A x \in G[e] : x \notin DOMAIN pubIndex
        BY <2>6, <1>1, IndexFacts DEF GainIsFresh, GraphInv, Structure
      <3> HIDE DEF G
      <3>5. IndexGains(scopeIndex, scopeIndex', ScopeObj, G)
        BY <1>4, <3>1 DEF IndexGains
      <3>6. IndexGains(pubIndex, pubIndex', ItemObj, G)
        BY <1>1, <3>2, <3>3, <3>4 DEF IndexGains
      <3> QED
        BY <3>5, <3>6
    <2> HIDE DEF G
    <2> QED
      BY <1>1, <1>2, <1>4, <2>4, <2>6, <2>7, <2>8, <2>9, GrowAgrees
  <1> QED
    BY <1>3, <1>4 DEF readvertise_info

\* One step back along a path.
LEMMA StepBack ==
    ASSUME TypeOK, Structure, NEW n \in Obj, NEW x \in ID, NEW z \in Seq(Frag),
           x \o z \in ids[n], z # <<>>
    PROVE  \E w \in Seq(Frag), f \in fatherScopes[n] :
              /\ z = Append(w, SuffixID(n)) /\ Len(z) = Len(w) + 1
              /\ x \o w \in ids[f] /\ f \in Obj /\ SuffixID(n) \in Frag
              /\ x \o z = Append(x \o w, SuffixID(n))
  <1>1. PICK w \in Seq(Frag), t \in Frag : z = Append(w, t)
    BY SequenceEmptyOrAppend
  <1>2. x \in Seq(Frag) /\ x # <<>>
    BY LengthFacts
  <1>3. x \o w \in ID
    <2>1. x \o w \in Seq(Frag) /\ Len(x \o w) = Len(x) + Len(w)
      BY <1>2, ConcatProperties
    <2>2. Len(x) \in Nat \ {0} /\ Len(w) \in Nat
      BY LengthFacts, LenProperties
    <2>3. Len(x \o w) # 0
      BY <2>1, <2>2
    <2> QED
      BY <2>1, <2>3, EmptySeq DEF ID
  <1>4. x \o z = Append(x \o w, t)
    BY <1>1, <1>2, ConcatAppend
  <1>5. t = SuffixID(n) /\ \E f \in fatherScopes[n] : x \o w \in ids[f]
    BY <1>3, <1>4, FatherFacts
  <1>6. Len(z) = Len(w) + 1
    BY <1>1, AppendFacts
  <1>7. \A f \in fatherScopes[n] : f \in Obj
    BY TypeParts DEF GraphTypes, Obj
  <1> QED
    BY <1>1, <1>4, <1>5, <1>6, <1>7

\* One step forward.
LEMMA StepForward ==
    ASSUME TypeOK, Structure, NEW n \in Obj, NEW f \in fatherScopes[n],
           NEW x \in ID, NEW w \in Seq(Frag), x \o w \in ids[f]
    PROVE  /\ SuffixID(n) \in Frag
           /\ Append(x \o w, SuffixID(n)) \in ids[n]
           /\ x \o Append(w, SuffixID(n)) = Append(x \o w, SuffixID(n))
  <1>1. n \in Live /\ f \in ScopeObj
    BY TypeParts DEF Structure, LinksAgree, GraphTypes
  <1>2. SuffixID(n) \in Frag
    BY <1>1, PathFacts DEF Structure
  <1>3. Append(x \o w, SuffixID(n)) \in ids[n]
    BY <1>1, PathFacts DEF Structure
  <1>4. x \in Seq(Frag)
    BY LengthFacts
  <1> QED
    BY <1>2, <1>3, <1>4, ConcatAppend

\* The empty continuation.
LEMMA NoContinuation ==
    ASSUME NEW x \in ID
    PROVE  <<>> \in Seq(Frag) /\ Len(<<>>) = 0 /\ x \o <<>> = x
  BY LengthFacts, ConcatEmptySeq, EmptySeq

(***************************************************************************)
(* Every prefix of an identifier is an identifier (of the scope above).    *)
(* Proofs about paths take a shortest path that contradicts the claim and  *)
(* go one step back on it.                                                 *)
(***************************************************************************)
LEMMA PrefixNamed ==
    ASSUME TypeOK, Structure, NEW x \in ID
    PROVE  \A n \in Obj, z \in Seq(Frag) : x \o z \in ids[n] => \E k \in Obj : x \in ids[k]
  <1> DEFINE T == {k \in Nat : \E n \in Obj, z \in Seq(Frag) : x \o z \in ids[n] /\ Len(z) = k}
  <1> SUFFICES ASSUME T # {} PROVE \E k \in Obj : x \in ids[k]
    <2>1. \A z \in Seq(Frag) : Len(z) \in Nat
      BY LenProperties
    <2> QED
      BY <2>1
  <1>1. PICK m \in T : \A k \in T : m <= k
    BY LeastElement
  <1>2. PICK n \in Obj, z \in Seq(Frag) : x \o z \in ids[n] /\ Len(z) = m
    BY <1>1
  <1>3. CASE z = <<>>
    BY <1>2, <1>3, NoContinuation
  <1>4. CASE z # <<>>
    <2>1. PICK w \in Seq(Frag), f \in fatherScopes[n] :
                 Len(z) = Len(w) + 1 /\ x \o w \in ids[f] /\ f \in Obj
      BY <1>2, <1>4, StepBack
    <2>2. Len(w) \in Nat
      BY LenProperties
    <2>3. Len(w) \in T
      BY <2>1, <2>2
    <2>4. m <= Len(w) /\ m = Len(w) + 1
      BY <1>1, <1>2, <2>1, <2>3
    <2> QED
      BY <2>2, <2>4
  <1> QED
    BY <1>3, <1>4

\* A path that leads from one identifier of scope e to an object leads there
\* from every identifier of e.
LEMMA Transport ==
    ASSUME TypeOK, Structure, NEW e \in Obj, NEW x \in ids[e], NEW y \in ids[e]
    PROVE  \A n \in Obj, z \in Seq(Frag) : x \o z \in ids[n] => y \o z \in ids[n]
  <1> DEFINE T == {k \in Nat : \E n \in Obj, z \in Seq(Frag) :
                                 x \o z \in ids[n] /\ y \o z \notin ids[n] /\ Len(z) = k}
  <1> SUFFICES ASSUME T # {} PROVE FALSE
    <2>1. \A z \in Seq(Frag) : Len(z) \in Nat
      BY LenProperties
    <2> QED
      BY <2>1
  <1>1. PICK m \in T : \A k \in T : m <= k
    BY LeastElement
  <1>2. PICK n \in Obj, z \in Seq(Frag) : x \o z \in ids[n] /\ y \o z \notin ids[n] /\ Len(z) = m
    BY <1>1
  <1>3. x \in ID /\ y \in ID
    BY IndexFacts DEF Structure
  <1>4. CASE z = <<>>
    <2>1. x \in ids[n] /\ y \notin ids[n]
      BY <1>2, <1>3, <1>4, NoContinuation
    <2> QED
      BY <2>1, IndexFacts DEF Structure
  <1>5. CASE z # <<>>
    <2>a. x \o z \in ids[n]
      BY <1>2
    <2>1. PICK w \in Seq(Frag), f \in fatherScopes[n] :
                 /\ z = Append(w, SuffixID(n)) /\ Len(z) = Len(w) + 1
                 /\ x \o w \in ids[f] /\ f \in Obj /\ SuffixID(n) \in Frag
                 /\ x \o z = Append(x \o w, SuffixID(n))
      <3> HIDE DEF T
      <3> QED
        BY <1>3, <1>5, <2>a, StepBack
    <2>2. y \o w \notin ids[f]
      <3> HIDE DEF T
      <3>1. ASSUME y \o w \in ids[f] PROVE y \o Append(w, SuffixID(n)) \in ids[n]
        BY <1>3, <3>1, StepForward
      <3> QED
        BY <1>2, <2>1, <3>1
    <2>3. Len(w) \in Nat
      BY LenProperties
    <2>4. Len(w) \in T
      BY <2>1, <2>2, <2>3
    <2>5. m <= Len(w) /\ m = Len(w) + 1
      BY <1>1, <1>2, <2>1, <2>4
    <2> QED
      BY <2>3, <2>5
  <1> QED
    BY <1>4, <1>5

\* Two ways of splitting one sequence are the same, or the longer first part
\* goes on where the other one ends.
LEMMA SplitsDiffer ==
    ASSUME NEW b \in Seq(Frag), NEW c \in Seq(Frag), NEW y \in Seq(Frag), NEW z \in Seq(Frag),
           NEW a, Splits(a, b, y), Splits(a, c, z), Len(b) <= Len(c)
    PROVE  \/ b = c /\ y = z
           \/ \E r \in Seq(Frag), t \in Frag : b \o r \in Seq(Frag) /\ c = Append(b \o r, t)
  <1>1. PICK w \in Seq(Frag) : Splits(c, b, w) /\ Splits(y, w, z)
    BY SplitFacts
  <1>2. CASE w = <<>>
    BY <1>1, <1>2, ConcatEmptySeq DEF Splits
  <1>3. CASE w # <<>>
    <2>1. PICK r \in Seq(Frag), t \in Frag : w = Append(r, t)
      BY <1>3, SequenceEmptyOrAppend
    <2>2. b \o w = Append(b \o r, t)
      BY <2>1, ConcatAppend
    <2>3. b \o r \in Seq(Frag)
      BY ConcatProperties
    <2> QED
      BY <1>1, <2>2, <2>3 DEF Splits
  <1> QED
    BY <1>2, <1>3

\* What recursivelyUpdateIDs() gives object n: the new identifiers of scope e
\* followed by a path from e to n.
Follows(n, e, base, g) ==
    \E b \in base, x \in ids[e], z \in Seq(Frag) : x \o z \in ids[n] /\ g = b \o z

\* Follows says what the code computes.
LEMMA GainedMembers ==
    ASSUME TypeOK, NEW n \in Obj, NEW e \in Obj, NEW base \in SUBSET ID, NEW g
    PROVE  g \in recursivelyUpdateIDs(n, e, base) <=> Follows(n, e, base, g)
  <1>1. /\ \A x \in ids[e] : x \in Seq(Frag)
        /\ \A x \in ids[n] : x \in Seq(Frag)
        /\ \A x \in base : x \in Seq(Frag)
    BY TypeParts DEF GraphTypes, ID
  <1>2. ASSUME g \in recursivelyUpdateIDs(n, e, base)
        PROVE  \E b \in base, x \in ids[e], z \in Seq(Frag) : x \o z \in ids[n] /\ g = b \o z
    <2>1. PICK b \in base, x \in ids[e], y \in ids[n] :
                 IsPrefix(x, y) /\ g = b \o SubSeq(y, Len(x) + 1, Len(y))
      BY <1>2 DEF recursivelyUpdateIDs
    <2>2. /\ SubSeq(y, Len(x) + 1, Len(y)) \in Seq(Frag)
          /\ y = x \o SubSeq(y, Len(x) + 1, Len(y))
      BY <1>1, <2>1, PrefixFacts
    <2> QED
      BY <2>1, <2>2
  <1>3. ASSUME NEW b \in base, NEW x \in ids[e], NEW z \in Seq(Frag),
               x \o z \in ids[n], g = b \o z
        PROVE  g \in recursivelyUpdateIDs(n, e, base)
    <2> DEFINE y == x \o z
    <2>1. y \in ids[n] /\ IsPrefix(x, y) /\ SubSeq(y, Len(x) + 1, Len(y)) = z
      <3>1. y \in Seq(Frag) /\ y = x \o z
        BY <1>1, <1>3
      <3> HIDE DEF y
      <3> QED
        BY <1>1, <1>3, <3>1, PrefixFacts
    <2> DEFINE t == <<b, x, y>>
    <2> HIDE DEF y
    <2>2. t \in base \X ids[e] \X ids[n] /\ t[1] = b /\ t[2] = x /\ t[3] = y
      BY <2>1
    <2> HIDE DEF t
    <2>3. t \in {q \in base \X ids[e] \X ids[n] : IsPrefix(q[2], q[3])}
      BY <2>1, <2>2
    <2>4. g = t[1] \o SubSeq(t[3], Len(t[2]) + 1, Len(t[3]))
      BY <1>3, <2>1, <2>2
    <2> QED
      BY <2>3, <2>4 DEF recursivelyUpdateIDs
  <1> QED
    BY <1>2, <1>3 DEF Follows

(***************************************************************************)
(* The situation in which republish_inner_scope links scope e below        *)
(* father: the name it asks for is free and father is not below e.         *)
(***************************************************************************)
MayLink(e, father) ==
    /\ e \in ScopeObj /\ e \in Live /\ father \in ScopeObj /\ father \in Live
    /\ \A x \in ids[father], n \in Obj : Append(x, SuffixID(e)) \notin ids[n]
    /\ NotBelow(father, e)

Gained(e, father) ==
    [n \in Obj |-> recursivelyUpdateIDs(n, e, IDsUnder(father, SuffixID(e)))]

\* The members of Gained, and the new identifiers of e, which are no prefix of
\* any identifier there is.
LEMMA GainedFacts ==
    ASSUME TypeOK, Structure, NEW e, NEW father, MayLink(e, father)
    PROVE  /\ e \in Obj /\ father \in Obj /\ SuffixID(e) \in Frag
           /\ IDsUnder(father, SuffixID(e)) \in SUBSET ID
           /\ \A n \in Obj : \A g :
                g \in Gained(e, father)[n] <=> Follows(n, e, IDsUnder(father, SuffixID(e)), g)
           /\ \A b \in IDsUnder(father, SuffixID(e)), n \in Obj, z \in Seq(Frag) : b \o z \notin ids[n]
           /\ Gained(e, father) \in [Obj -> SUBSET ID]
  <1> DEFINE s == SuffixID(e)
             base == IDsUnder(father, s)
  <1>1. e \in Obj /\ father \in Obj /\ father \in ScopeObj /\ e \in Live
    BY DEF MayLink, Obj
  <1>2. s \in Frag
    BY <1>1, PathFacts DEF Structure
  <1>3. base \in SUBSET ID
    BY <1>1, <1>2, IDsUnderType, TypeParts
  <1>4. \A b \in base, n \in Obj : b \notin ids[n]
    BY DEF IDsUnder, MayLink
  <1> HIDE DEF s, base
  <1>5. \A b \in base, n \in Obj, z \in Seq(Frag) : b \o z \notin ids[n]
    BY <1>3, <1>4, PrefixNamed
  <1>6. ASSUME NEW n \in Obj, NEW g
        PROVE  g \in Gained(e, father)[n] <=> Follows(n, e, base, g)
    <2>1. Gained(e, father)[n] = recursivelyUpdateIDs(n, e, base)
      BY DEF Gained, s, base
    <2> QED
      BY <1>1, <1>3, <2>1, GainedMembers
  <1>7. \A b \in base, z \in Seq(Frag) : b \o z \in ID
    <2> SUFFICES ASSUME NEW b \in base, NEW z \in Seq(Frag) PROVE b \o z \in ID
      OBVIOUS
    <2>1. b \in ID
      BY <1>3
    <2>2. b \in Seq(Frag) /\ Len(b) \in Nat \ {0} /\ Len(z) \in Nat
      BY <2>1, LengthFacts, LenProperties
    <2>3. b \o z \in Seq(Frag) /\ Len(b \o z) = Len(b) + Len(z)
      BY <2>2, ConcatProperties
    <2>4. Len(b \o z) # 0
      BY <2>2, <2>3
    <2> QED
      BY <2>3, <2>4, EmptySeq DEF ID
  <1>8. ASSUME NEW n \in Obj PROVE Gained(e, father)[n] \in SUBSET ID
    <2>1. ASSUME NEW g \in Gained(e, father)[n] PROVE g \in ID
      <3>1. PICK b \in base, x \in ids[e], z \in Seq(Frag) : x \o z \in ids[n] /\ g = b \o z
        BY <1>6 DEF Follows
      <3> QED
        BY <1>7, <3>1
    <2> QED
      BY <2>1
  <1>9. Gained(e, father) = [n \in Obj |-> Gained(e, father)[n]]
    BY DEF Gained
  <1>10. Gained(e, father) \in [Obj -> SUBSET ID]
    BY <1>8, <1>9
  <1> QED
    BY <1>1, <1>2, <1>3, <1>5, <1>6, <1>10 DEF base, s

\* No two objects gain the same identifier.
LEMMA GainedOnce ==
    ASSUME TypeOK, Structure, NEW e, NEW father, MayLink(e, father), NEW n \in Obj, NEW m \in Obj,
           NEW g, g \in Gained(e, father)[n], g \in Gained(e, father)[m]
    PROVE  n = m
  <1> DEFINE base == IDsUnder(father, SuffixID(e))
  <1>1. /\ e \in Obj /\ father \in Obj /\ SuffixID(e) \in Frag /\ base \in SUBSET ID
        /\ Follows(n, e, base, g) /\ Follows(m, e, base, g)
    BY GainedFacts
  <1>2. \A b \in base, k \in Obj, z \in Seq(Frag) : b \o z \notin ids[k]
    BY GainedFacts, Zenon
  <1>3. \A c \in base : \E q \in ids[father] : c = Append(q, SuffixID(e))
    BY DEF IDsUnder
  <1> HIDE DEF base
  <1>4. ASSUME NEW b \in base, NEW c \in base, NEW r \in Seq(Frag), NEW t \in Frag,
               b \o r \in Seq(Frag), c = Append(b \o r, t)
        PROVE  FALSE
    <2>1. PICK q \in ids[father] : c = Append(q, SuffixID(e))
      BY <1>3
    <2>2. q \in Seq(Frag)
      BY <1>1, IndexFacts, LengthFacts DEF Structure
    <2> DEFINE br == b \o r
    <2>3. br \in Seq(Frag) /\ Append(br, t) = Append(q, SuffixID(e))
      BY <1>4, <2>1
    <2>4. br \notin ids[father]
      BY <1>1, <1>2
    <2> HIDE DEF br
    <2>5. br = q
      BY <1>1, <2>2, <2>3, AppendInjective
    <2> QED
      BY <2>4, <2>5
  <1>5. ASSUME NEW k \in Obj, NEW l \in Obj, NEW b \in base, NEW c \in base,
               NEW x \in ids[e], NEW y \in ids[e], NEW u \in Seq(Frag), NEW v \in Seq(Frag),
               x \o u \in ids[k], y \o v \in ids[l], g = b \o u, g = c \o v, Len(b) <= Len(c)
        PROVE  k = l
    <2>1. b \in Seq(Frag) /\ c \in Seq(Frag)
      BY <1>1, LengthFacts
    <2>2. u = v
      <3>1. Splits(g, b, u) /\ Splits(g, c, v) /\ Len(b) <= Len(c)
        BY <1>5 DEF Splits
      <3>2. \/ b = c /\ u = v
            \/ \E r \in Seq(Frag), t \in Frag : b \o r \in Seq(Frag) /\ c = Append(b \o r, t)
        BY <2>1, <3>1, SplitsDiffer
      <3> QED
        BY <1>4, <3>2
    <2>3. y \o u \in ids[k]
      BY <1>1, <1>5, Transport
    <2> QED
      BY <1>5, <2>2, <2>3, IndexFacts DEF Structure
  <1>6. PICK b \in base, x \in ids[e], u \in Seq(Frag) : x \o u \in ids[n] /\ g = b \o u
    BY <1>1 DEF Follows
  <1>7. PICK c \in base, y \in ids[e], v \in Seq(Frag) : y \o v \in ids[m] /\ g = c \o v
    BY <1>1 DEF Follows
  <1>8. Len(b) \in Nat /\ Len(c) \in Nat
    BY <1>1, LengthFacts
  <1>9. CASE Len(b) <= Len(c)
    BY <1>5, <1>6, <1>7, <1>9
  <1>10. CASE Len(c) <= Len(b)
    BY <1>5, <1>6, <1>7, <1>10
  <1> QED
    BY <1>8, <1>9, <1>10

\* What the objects gain are the paths through the new link.
LEMMA GainedPaths ==
    ASSUME TypeOK, Structure, NEW e, NEW father, MayLink(e, father)
    PROVE  GainIsPaths(e, father, Gained(e, father))
  <1> DEFINE s == SuffixID(e)
             base == IDsUnder(father, s)
             G == Gained(e, father)
  <1>1. /\ e \in Obj /\ father \in Obj /\ s \in Frag /\ base \in SUBSET ID
        /\ \A n \in Obj : \A g : g \in G[n] <=> Follows(n, e, base, g)
    BY GainedFacts
  <1>2. \A y : y \in base <=> \E q \in ids[father] : y = Append(q, s)
    BY DEF IDsUnder
  <1> HIDE DEF s, base, G
  <1>3. \A x \in ids[e] : x \in ID
    BY <1>1, IndexFacts DEF Structure
  <1>4. ASSUME NEW y, y \in G[father] PROVE FALSE
    <2>1. PICK b \in base, x \in ids[e], z \in Seq(Frag) : x \o z \in ids[father] /\ y = b \o z
      <3>1. Follows(father, e, base, y)
        BY <1>1, <1>4
      <3> QED
        BY <3>1 DEF Follows
    <2> DEFINE xz == x \o z
    <2>2. x \in Seq(Frag) /\ xz \in Seq(Frag) /\ xz = x \o z /\ xz \in ids[father]
      BY <1>3, <2>1, LengthFacts, ConcatProperties
    <2> HIDE DEF xz
    <2>3. IsPrefix(x, xz)
      BY <2>2, PrefixFacts
    <2> QED
      BY <2>2, <2>3 DEF MayLink, NotBelow
  <1>5. ASSUME NEW n \in Live, NEW g \in G[n]
        PROVE  \/ \E f \in fatherScopes[n] : \E y \in G[f] : g = Append(y, SuffixID(n))
               \/ n = e /\ \E y \in ids[father] : g = Append(y, SuffixID(n))
    <2>1. n \in Obj
      BY PathFacts DEF Structure
    <2>2. PICK b \in base, x \in ids[e], z \in Seq(Frag) : x \o z \in ids[n] /\ g = b \o z
      <3>1. Follows(n, e, base, g)
        BY <1>1, <1>5, <2>1
      <3> QED
        BY <3>1 DEF Follows
    <2>3. x \in ID /\ b \in ID /\ b \in Seq(Frag)
      BY <1>1, <1>3, LengthFacts
    <2>4. CASE z = <<>>
      <3>1. x \in ids[n] /\ g = b
        BY <2>2, <2>3, <2>4, NoContinuation
      <3>2. n = e
        BY <1>1, <2>1, <3>1, IndexFacts DEF Structure
      <3> QED
        BY <1>2, <3>1, <3>2 DEF s
    <2>5. CASE z # <<>>
      <3>0. x \o z \in ids[n]
        BY <2>2
      <3>1. PICK w \in Seq(Frag), f \in fatherScopes[n] :
                 /\ z = Append(w, SuffixID(n)) /\ Len(z) = Len(w) + 1
                 /\ x \o w \in ids[f] /\ f \in Obj /\ SuffixID(n) \in Frag
                 /\ x \o z = Append(x \o w, SuffixID(n))
        BY <2>1, <2>3, <2>5, <3>0, StepBack
      <3>2. b \o w \in G[f]
        BY <1>1, <3>1 DEF Follows
      <3>3. b \o z = Append(b \o w, SuffixID(n))
        BY <2>3, <3>1, ConcatAppend
      <3>4. g = Append(b \o w, SuffixID(n))
        BY <2>2, <3>3
      <3> QED
        BY <3>2, <3>4
    <2> QED
      BY <2>4, <2>5
  <1>6. ASSUME NEW n \in Live, NEW f \in fatherScopes[n], NEW y \in G[f]
        PROVE  Append(y, SuffixID(n)) \in G[n]
    <2>1. n \in Obj /\ f \in Obj
      BY PathFacts DEF Structure
    <2>2. PICK b \in base, x \in ids[e], w \in Seq(Frag) : x \o w \in ids[f] /\ y = b \o w
      <3>1. Follows(f, e, base, y)
        BY <1>1, <2>1
      <3> QED
        BY <3>1 DEF Follows
    <2>3. x \in ID /\ b \in Seq(Frag)
      BY <1>1, <1>3, LengthFacts
    <2>4. x \o w \in ids[f]
      BY <2>2
    <2>5. /\ SuffixID(n) \in Frag /\ Append(x \o w, SuffixID(n)) \in ids[n]
          /\ x \o Append(w, SuffixID(n)) = Append(x \o w, SuffixID(n))
      BY <2>1, <2>3, <2>4, StepForward
    <2>6. b \o Append(w, SuffixID(n)) = Append(b \o w, SuffixID(n))
      BY <2>3, <2>5, ConcatAppend
    <2> DEFINE z == Append(w, SuffixID(n))
    <2>7. z \in Seq(Frag) /\ x \o z \in ids[n] /\ Append(y, SuffixID(n)) = b \o z
      <3>1. z \in Seq(Frag)
        BY <2>5
      <3> QED
        BY <2>2, <2>5, <2>6, <3>1
    <2> HIDE DEF z
    <2>8. Follows(n, e, base, Append(y, SuffixID(n)))
      BY <2>7 DEF Follows
    <2> QED
      BY <1>1, <2>1, <2>8
  <1>7. ASSUME NEW y \in ids[father] PROVE Append(y, s) \in G[e]
    <2>1. PICK x : x \in ids[e]
      BY <1>1 DEF MayLink, Structure, IndexesAgree
    <2>2. Append(y, s) \in base
      BY <1>2
    <2>3. Append(y, s) \in ID
      BY <1>1, <2>2
    <2> DEFINE b == Append(y, s)
    <2>4. /\ b \in base /\ b \o <<>> = b /\ x \o <<>> = x /\ <<>> \in Seq(Frag)
      BY <1>3, <2>1, <2>2, <2>3, NoContinuation
    <2> HIDE DEF b
    <2>5. Follows(e, e, base, b)
      BY <2>1, <2>4 DEF Follows
    <2> QED
      BY <1>1, <2>5 DEF b
  <1>8. ASSUME NEW n \in Live, NEW g
        PROVE  g \in G[n] <=>
                 \/ \E f \in fatherScopes[n] : \E y \in G[f] : g = Append(y, SuffixID(n))
                 \/ n = e /\ \E y \in ids[father] \cup G[father] : g = Append(y, SuffixID(n))
    <2>1. g \in G[n] =>
            \/ \E f \in fatherScopes[n] : \E y \in G[f] : g = Append(y, SuffixID(n))
            \/ n = e /\ \E y \in ids[father] \cup G[father] : g = Append(y, SuffixID(n))
      BY <1>5
    <2>2. \A f \in fatherScopes[n] : \A y \in G[f] : Append(y, SuffixID(n)) \in G[n]
      BY <1>6
    <2>3. \A y \in ids[father] \cup G[father] : Append(y, SuffixID(e)) \in G[e]
      BY <1>4, <1>7 DEF s
    <2> QED
      BY <2>1, <2>2, <2>3
  <1> QED
    BY <1>8 DEF GainIsPaths, G

\* PUBLISH_SCOPE with an identifier of several fragments: the scope and all
\* that is below it get the identifiers of the paths through the new father.
LEMMA RepublishAgrees ==
    ASSUME TypeOK, GraphInv, NEW h, NEW st, NEW id \in DOMAIN scopeIndex,
           NEW p \in DOMAIN scopeIndex, republish_inner_scope(h, id, p, st)
    PROVE  GraphInv'
  <1> DEFINE s == Last(id)
             fullID == Append(p, s)
             father == scopeIndex[p]
             e == scopeIndex[id]
             gained(n) == recursivelyUpdateIDs(n, e, IDsUnder(father, s))
             G == Gained(e, father)
  <1>1. /\ father \in ScopeObj /\ father \in Obj /\ father \in Live /\ p \in ids[father]
        /\ e \in ScopeObj /\ e \in Obj /\ e \in Live /\ id \in ids[e]
    BY IndexFacts DEF GraphInv, Structure
  <1>2. s = SuffixID(e) /\ SuffixID(e) \in Frag
    BY <1>1, PathFacts DEF GraphInv, Structure
  <1>3. CASE fullID \in DOMAIN scopeIndex
    <2>1. /\ updatePublishers(scopeIndex[fullID], fullID, h)
          /\ UNCHANGED <<index, graph>>
      BY <1>3 DEF republish_inner_scope
    <2>2. scopeIndex[fullID] \in Obj /\ fullID \in ids[scopeIndex[fullID]]
      BY <1>3, IndexFacts DEF GraphInv, Structure
    <2> HIDE DEF fullID
    <2> QED
      BY <2>1, <2>2, SameGraphAgrees
  <1>4. CASE fullID \notin DOMAIN scopeIndex
    <2>1. /\ Len(id) > 1 /\ fullID \notin DOMAIN pubIndex
          /\ updatePublishers(e, fullID, h) /\ NotBelow(father, e)
          /\ fatherScopes' = [fatherScopes EXCEPT ![e] = @ \cup {father}]
          /\ contents' = [contents EXCEPT ![father] = @ \cup {e}]
          /\ ids' = [n \in Obj |-> ids[n] \cup gained(n)]
          /\ scopeIndex' = [x \in DOMAIN scopeIndex \cup UNION {gained(n) : n \in ScopeObj} |->
                              IF \E n \in ScopeObj : x \in gained(n)
                              THEN CHOOSE n \in ScopeObj : x \in gained(n) ELSE scopeIndex[x]]
          /\ pubIndex' = [x \in DOMAIN pubIndex \cup UNION {gained(n) : n \in ItemObj} |->
                              IF \E n \in ItemObj : x \in gained(n)
                              THEN CHOOSE n \in ItemObj : x \in gained(n) ELSE pubIndex[x]]
          /\ strategy' = strategy
      BY <1>4 DEF republish_inner_scope
    <2>2. \A n \in Obj : gained(n) = G[n]
      BY <1>2 DEF Gained
    <2>3. \A x \in ids[father], n \in Obj : Append(x, s) \notin ids[n]
      BY <1>1, <1>2, <1>4, <2>1, FreshNames DEF GraphInv
    <2>4. fatherScopes[e] # {}
      <3> DEFINE one == <<s>>
      <3>1. fatherScopes[e] = {} => id = one
        BY <1>1, <1>2, PathFacts DEF GraphInv, Structure
      <3>2. Len(one) = 1
        OBVIOUS
      <3>3. Len(id) # 1
        <4>1. Len(id) > 1 /\ Len(id) \in Nat
          <5>1. id \in ID
            BY TypeParts DEF TableTypes
          <5> QED
            BY <2>1, <5>1, LengthFacts
        <4>2. \A k \in Nat : k > 1 => k # 1
          OBVIOUS
        <4> HIDE DEF one, e, s, fullID, father, gained, G
        <4> QED
          BY <4>1, <4>2
      <3> HIDE DEF one, e, s
      <3> QED
        BY <3>1, <3>2, <3>3
    <2>5. MayLink(e, father)
      BY <1>1, <1>2, <2>1, <2>3 DEF MayLink
    <2> HIDE DEF s, fullID, father, e, gained, G
    <2>6. Structure
      BY DEF GraphInv
    <2>7. /\ G \in [Obj -> SUBSET ID]
          /\ \A n \in Obj : \A g : g \in G[n] <=> Follows(n, e, IDsUnder(father, SuffixID(e)), g)
      BY <2>5, <2>6, GainedFacts DEF G
    <2>8. GainIsPaths(e, father, G)
      BY <2>5, <2>6, GainedPaths DEF G
    <2>9. \A n \in Obj, m \in Obj : \A x \in G[n] : x \notin ids[m] /\ (x \in G[m] => n = m)
      <3> SUFFICES ASSUME NEW n \in Obj, NEW m \in Obj, NEW x \in G[n]
                   PROVE  x \notin ids[m] /\ (x \in G[m] => n = m)
        OBVIOUS
      <3>1. Follows(n, e, IDsUnder(father, SuffixID(e)), x)
        BY <2>7
      <3>2. \A b \in IDsUnder(father, SuffixID(e)), z \in Seq(Frag) : b \o z \notin ids[m]
        BY <2>5, <2>6, GainedFacts, Zenon
      <3>3. x \notin ids[m]
        BY <3>1, <3>2 DEF Follows
      <3>4. x \in G[m] => n = m
        BY <2>5, <2>6, GainedOnce DEF G
      <3> QED
        BY <3>3, <3>4
    <2>10. GainIsFresh(G)
      <3>1. ASSUME NEW n \in Obj, NEW x \in G[n] PROVE n \in Live
        <4>1. Follows(n, e, IDsUnder(father, SuffixID(e)), x)
          BY <2>7
        <4>2. ids[n] # {}
          BY <4>1 DEF Follows
        <4> QED
          BY <2>6, <4>2 DEF Structure, IndexesAgree
      <3> QED
        BY <2>9, <3>1 DEF GainIsFresh
    <2>11. LinkTo(e, father, G)
      <3>1. ids' = [n \in Obj |-> ids[n] \cup G[n]]
        BY <2>1, <2>2
      <3> QED
        BY <2>1, <3>1 DEF LinkTo
    <2>12. fullID \in ids'[e]
      <3>1. fullID \in G[e]
        <4>1. fullID = Append(p, SuffixID(e))
          BY <1>2 DEF fullID
        <4> QED
          BY <1>1, <2>8, <4>1 DEF GainIsPaths
      <3> QED
        BY <1>1, <2>11, <3>1 DEF LinkTo
    <2>13. IndexGains(scopeIndex, scopeIndex', ScopeObj, G)
      <3>1. \A n \in ScopeObj : n \in Obj /\ gained(n) = G[n]
        BY <2>2 DEF Obj
      <3>2. \A x : x \in DOMAIN scopeIndex' <=> x \in DOMAIN scopeIndex \/ \E n \in ScopeObj : x \in G[n]
        BY <2>1, <3>1
      <3>3. ASSUME NEW n \in ScopeObj, NEW x \in G[n] PROVE scopeIndex'[x] = n
        <4>1. x \in DOMAIN scopeIndex' /\ \E m \in ScopeObj : x \in gained(m)
          BY <3>1, <3>2
        <4>2. scopeIndex'[x] = CHOOSE m \in ScopeObj : x \in gained(m)
          BY <2>1, <4>1
        <4>3. scopeIndex'[x] \in ScopeObj /\ x \in gained(scopeIndex'[x])
          BY <4>1, <4>2
        <4> QED
          BY <2>9, <3>1, <4>3
      <3>4. ASSUME NEW x \in DOMAIN scopeIndex PROVE scopeIndex'[x] = scopeIndex[x]
        <4>1. ~ \E n \in ScopeObj : x \in gained(n)
          BY <2>6, <2>9, <3>1, IndexFacts DEF Structure
        <4> QED
          BY <2>1, <4>1
      <3> QED
        BY <3>2, <3>3, <3>4 DEF IndexGains
    <2>14. IndexGains(pubIndex, pubIndex', ItemObj, G)
      <3>1. \A n \in ItemObj : n \in Obj /\ gained(n) = G[n]
        BY <2>2 DEF Obj
      <3>2. \A x : x \in DOMAIN pubIndex' <=> x \in DOMAIN pubIndex \/ \E n \in ItemObj : x \in G[n]
        BY <2>1, <3>1
      <3>3. ASSUME NEW n \in ItemObj, NEW x \in G[n] PROVE pubIndex'[x] = n
        <4>1. x \in DOMAIN pubIndex' /\ \E m \in ItemObj : x \in gained(m)
          BY <3>1, <3>2
        <4>2. pubIndex'[x] = CHOOSE m \in ItemObj : x \in gained(m)
          BY <2>1, <4>1
        <4>3. pubIndex'[x] \in ItemObj /\ x \in gained(pubIndex'[x])
          BY <4>1, <4>2
        <4> QED
          BY <2>9, <3>1, <4>3
      <3>4. ASSUME NEW x \in DOMAIN pubIndex PROVE pubIndex'[x] = pubIndex[x]
        <4>1. ~ \E n \in ItemObj : x \in gained(n)
          BY <2>6, <2>9, <3>1, IndexFacts DEF Structure
        <4> QED
          BY <2>1, <4>1
      <3> QED
        BY <3>2, <3>3, <3>4 DEF IndexGains
    <2> QED
      BY <1>1, <2>1, <2>4, <2>7, <2>8, <2>10, <2>11, <2>12, <2>13, <2>14, GrowAgrees
  <1> QED
    BY <1>3, <1>4

-----------------------------------------------------------------------------
(* Cutting branches *)

Fathers == ScopeObj \cup {NULL}

(***************************************************************************)
(* What the requests that remove something may cut: links that exist (or   *)
(* the root, which has none), one per object, and of a scope only together *)
(* with the links of everything below it.                                  *)
(***************************************************************************)
MayCut(edges) ==
    /\ edges \in SUBSET (Live \X Fathers)
    /\ \A n \in Live, f \in Fathers : <<n, f>> \in edges =>
         f \in fatherScopes[n] \/ (f = NULL /\ fatherScopes[n] = {})
    /\ \A n \in Live, f \in Fathers, g \in Fathers :
         <<n, f>> \in edges /\ <<n, g>> \in edges => f = g
    /\ \A n \in ScopeObj, f \in Fathers : <<n, f>> \in edges =>
         \A c \in contents[n] : <<c, n>> \in edges

\* The identifiers that go with a cut.
LEMMA CutMembers ==
    ASSUME NEW edges \in SUBSET (Live \X Fathers), NEW n, NEW x
    PROVE  x \in CutIDs(edges, n) <=> \E f \in Fathers : <<n, f>> \in edges /\ x \in BranchIDs(n, f)
  <1>1. ASSUME x \in CutIDs(edges, n)
        PROVE  \E f \in Fathers : <<n, f>> \in edges /\ x \in BranchIDs(n, f)
    <2>1. PICK e \in edges : e[1] = n /\ x \in BranchIDs(n, e[2])
      BY <1>1 DEF CutIDs
    <2>2. e = <<e[1], e[2]>> /\ e[2] \in Fathers
      OBVIOUS
    <2> QED
      BY <2>1, <2>2
  <1>2. ASSUME NEW f \in Fathers, <<n, f>> \in edges, x \in BranchIDs(n, f)
        PROVE  x \in CutIDs(edges, n)
    <2> DEFINE e == <<n, f>>
    <2>1. e \in edges /\ e[1] = n /\ x \in BranchIDs(n, e[2])
      BY <1>2
    <2> HIDE DEF e
    <2> QED
      BY <2>1 DEF CutIDs
  <1> QED
    BY <1>1, <1>2

\* The links of an object, and what is left of its identifiers after a cut.
LEMMA CutFacts ==
    ASSUME TypeOK, Structure, NEW edges, MayCut(edges), NEW n \in Obj
    PROVE  /\ CutIDs(edges, n) \subseteq ids[n]
           /\ (\A f \in Fathers : <<n, f>> \notin edges) => CutIDs(edges, n) = {}
           /\ \A f \in Fathers : <<n, f>> \in edges =>
                /\ n \in Live
                /\ LastBranch(n, f) => CutIDs(edges, n) = ids[n] /\ \A g \in fatherScopes[n] : g = f
                /\ ~LastBranch(n, f) =>
                     /\ f \in fatherScopes[n] /\ \E g \in fatherScopes[n] : g # f
                     /\ \A x : x \in CutIDs(edges, n) <=> \E y \in ids[f] : x = Append(y, SuffixID(n))
  <1>1. /\ edges \in SUBSET (Live \X Fathers)
        /\ \A f \in Fathers : <<n, f>> \in edges =>
             n \in Live /\ (f \in fatherScopes[n] \/ (f = NULL /\ fatherScopes[n] = {}))
        /\ \A f \in Fathers, g \in Fathers : <<n, f>> \in edges /\ <<n, g>> \in edges => f = g
    BY DEF MayCut
  <1>2. \A x : x \in CutIDs(edges, n) <=> \E f \in Fathers : <<n, f>> \in edges /\ x \in BranchIDs(n, f)
    BY <1>1, CutMembers
  <1>3. (\A f \in Fathers : <<n, f>> \notin edges) => CutIDs(edges, n) = {}
    BY <1>2
  <1>4. ASSUME NEW f \in Fathers, <<n, f>> \in edges
        PROVE  /\ n \in Live
               /\ LastBranch(n, f) => CutIDs(edges, n) = ids[n] /\ \A g \in fatherScopes[n] : g = f
               /\ ~LastBranch(n, f) =>
                    /\ f \in fatherScopes[n] /\ \E g \in fatherScopes[n] : g # f
                    /\ \A x : x \in CutIDs(edges, n) <=> \E y \in ids[f] : x = Append(y, SuffixID(n))
                    /\ CutIDs(edges, n) \subseteq ids[n]
    <2>1. n \in Live /\ (f \in fatherScopes[n] \/ (f = NULL /\ fatherScopes[n] = {}))
      BY <1>1, <1>4
    <2>2. \A x : x \in CutIDs(edges, n) <=> x \in BranchIDs(n, f)
      BY <1>1, <1>2, <1>4
    <2>3. NULL \notin fatherScopes[n]
      BY LocalRVAssumption, TypeParts DEF GraphTypes
    <2>4. CASE LastBranch(n, f)
      <3>1. CutIDs(edges, n) = ids[n]
        BY <2>2, <2>4 DEF BranchIDs
      <3>2. \A g \in fatherScopes[n] : g = f
        BY <2>1, <2>3, <2>4 DEF LastBranch
      <3> QED
        BY <2>1, <2>4, <3>1, <3>2
    <2>5. CASE ~LastBranch(n, f)
      <3>1. f \in fatherScopes[n] /\ \E g \in fatherScopes[n] : g # f
        BY <2>1, <2>5 DEF LastBranch
      <3>2. \A x : x \in CutIDs(edges, n) <=> \E y \in ids[f] : x = Append(y, SuffixID(n))
        BY <2>2, <2>5 DEF BranchIDs, IDsUnder
      <3>3. \A y \in ids[f] : Append(y, SuffixID(n)) \in ids[n]
        BY <2>1, <3>1, PathFacts DEF Structure
      <3> QED
        BY <2>1, <2>5, <3>1, <3>2, <3>3
    <2> QED
      BY <2>4, <2>5
  <1>5. CutIDs(edges, n) \subseteq ids[n]
    BY <1>3, <1>4
  <1> QED
    BY <1>3, <1>4, <1>5

\* The publications or subscriptions P are all under identifiers that stay.
PairsStay(edges, P) ==
    \A n \in Obj : \A p \in P[n] : p[1] \in ids[n] /\ p[1] \notin CutIDs(edges, n)

\* Cutting branches, nobody being left on them, keeps the graph sound.
LEMMA CutAgrees ==
    ASSUME TypeOK, GraphInv, NEW edges, NEW P \in [Obj -> Interests], NEW S \in [Obj -> Interests],
           MayCut(edges), PairsStay(edges, P), PairsStay(edges, S), Cut(edges, P, S),
           published' = UNION {P[n] : n \in Obj}, subscribed' = UNION {S[n] : n \in Obj}
    PROVE  GraphInv' /\ \A n \in Obj : pubs'[n] = P[n] /\ subs'[n] = S[n]
  <1> DEFINE dead == {e[1] : e \in {x \in edges : LastBranch(x[1], x[2])}}
  <1>1. /\ strategy' = EraseKeys(strategy, dead)
        /\ fatherScopes' = [n \in Obj |-> IF n \in dead THEN {}
                               ELSE {f \in fatherScopes[n] : <<n, f>> \notin edges}]
        /\ contents' = [f \in ScopeObj |-> {n \in contents[f] : <<n, f>> \notin edges}]
        /\ ids' = [n \in Obj |-> ids[n] \ CutIDs(edges, n)]
        /\ scopeIndex' = EraseKeys(scopeIndex, UNION {CutIDs(edges, n) : n \in ScopeObj})
        /\ pubIndex' = EraseKeys(pubIndex, UNION {CutIDs(edges, n) : n \in ItemObj})
        /\ pubs' = [n \in Obj |-> {p \in P[n] : p[1] \notin CutIDs(edges, n)}]
        /\ subs' = [n \in Obj |-> {p \in S[n] : p[1] \notin CutIDs(edges, n)}]
    BY DEF Cut
  <1>2. edges \in SUBSET (Live \X Fathers) /\ Live \subseteq Obj
    BY TypeParts DEF MayCut, TableTypes
  <1>3. \A n : n \in dead <=> \E f \in Fathers : <<n, f>> \in edges /\ LastBranch(n, f)
    <2>1. ASSUME NEW n \in dead PROVE \E f \in Fathers : <<n, f>> \in edges /\ LastBranch(n, f)
      <3>1. PICK e \in edges : e[1] = n /\ LastBranch(e[1], e[2])
        OBVIOUS
      <3>2. e = <<e[1], e[2]>> /\ e[2] \in Fathers
        BY <1>2
      <3> QED
        BY <3>1, <3>2
    <2>2. ASSUME NEW n, NEW f \in Fathers, <<n, f>> \in edges, LastBranch(n, f) PROVE n \in dead
      <3> DEFINE e == <<n, f>>
      <3>1. e \in edges /\ e[1] = n /\ LastBranch(e[1], e[2])
        BY <2>2
      <3> HIDE DEF e
      <3> QED
        BY <3>1
    <2> QED
      BY <2>1, <2>2
  <1> HIDE DEF dead
  <1>4. /\ \A n \in Obj : ids'[n] = ids[n] \ CutIDs(edges, n)
        /\ \A n \in Obj : fatherScopes'[n] = IF n \in dead THEN {}
                               ELSE {f \in fatherScopes[n] : <<n, f>> \notin edges}
        /\ \A f \in ScopeObj : contents'[f] = {n \in contents[f] : <<n, f>> \notin edges}
    BY <1>1
  <1>5. Live' = Live \ dead
    BY <1>1 DEF Live, EraseKeys
  <1>6. /\ \A n \in ScopeObj : n \in Obj /\ n \in Fathers
        /\ \A n \in ItemObj : n \in Obj
        /\ fatherScopes \in [Obj -> SUBSET ScopeObj]
        /\ contents \in [ScopeObj -> SUBSET Obj]
    BY TypeParts DEF GraphTypes, Obj, Fathers
  <1>7. \A n \in ScopeObj, f \in Fathers : <<n, f>> \in edges => \A c \in contents[n] : <<c, n>> \in edges
    BY DEF MayCut
  <1>8. Structure
    BY DEF GraphInv
  <1>9. \A n \in Obj : CutIDs(edges, n) \subseteq ids[n]
    BY <1>8, CutFacts
  <1>10. ASSUME NEW n \in Obj, n \in dead PROVE ids'[n] = {} /\ n \in Live /\ fatherScopes'[n] = {}
    <2>1. PICK f \in Fathers : <<n, f>> \in edges /\ LastBranch(n, f)
      BY <1>3, <1>10
    <2>2. CutIDs(edges, n) = ids[n] /\ n \in Live
      BY <1>8, <2>1, CutFacts
    <2> QED
      BY <1>4, <1>10, <2>2
  \* The fathers that stay keep their identifiers.
  <1>11. ASSUME NEW n \in Live, NEW f \in fatherScopes[n], <<n, f>> \notin edges
         PROVE  f \in ScopeObj /\ f \in Obj /\ f \in Live /\ f \notin dead /\ ids'[f] = ids[f]
    <2>1. f \in ScopeObj /\ f \in Obj /\ f \in Live /\ n \in contents[f]
      BY <1>8, PathFacts DEF Structure
    <2>2. \A g \in Fathers : <<f, g>> \notin edges
      BY <1>7, <1>11, <2>1
    <2>3. CutIDs(edges, f) = {}
      BY <1>8, <2>1, <2>2, CutFacts
    <2> QED
      BY <1>3, <1>4, <2>1, <2>2, <2>3
  <1>12. ASSUME NEW n \in Live, n \notin dead
         PROVE  \E t \in Frag : \A x : x \in ids'[n] <=> OnPath(fatherScopes', ids', n, t, x)
    <2> DEFINE t == SuffixID(n)
    <2>1. /\ n \in Obj /\ t \in Frag
          /\ fatherScopes[n] = {} => ids[n] = {<<t>>}
          /\ fatherScopes[n] # {} =>
               \A x : x \in ids[n] <=> \E f \in fatherScopes[n] : \E y \in ids[f] : x = Append(y, t)
      BY <1>8, PathFacts DEF Structure
    <2> HIDE DEF t
    <2>2. fatherScopes'[n] = {f \in fatherScopes[n] : <<n, f>> \notin edges}
      BY <1>4, <1>12, <2>1
    <2>3. CASE \A f \in Fathers : <<n, f>> \notin edges
      <3>1. ids'[n] = ids[n]
        <4>1. CutIDs(edges, n) = {}
          BY <1>8, <2>1, <2>3, CutFacts
        <4> QED
          BY <1>4, <2>1, <4>1
      <3>2. fatherScopes'[n] = fatherScopes[n] /\ \A f \in fatherScopes[n] : ids'[f] = ids[f]
        BY <1>6, <1>11, <2>1, <2>2, <2>3
      <3>3. \A x : x \in ids'[n] <=> OnPath(fatherScopes', ids', n, t, x)
        BY <2>1, <3>1, <3>2 DEF OnPath
      <3> QED
        BY <2>1, <3>3
    <2>4. ASSUME NEW f \in Fathers, <<n, f>> \in edges
          PROVE  \E u \in Frag : \A x : x \in ids'[n] <=> OnPath(fatherScopes', ids', n, u, x)
      <3>1. /\ f \in fatherScopes[n] /\ \E g \in fatherScopes[n] : g # f
            /\ \A x : x \in CutIDs(edges, n) <=> \E y \in ids[f] : x = Append(y, t)
        BY <1>3, <1>8, <1>12, <2>1, <2>4, CutFacts DEF t
      <3>2. \A g \in Fathers : <<n, g>> \in edges => g = f
        BY <2>4 DEF MayCut
      <3>3. /\ \A g : g \in fatherScopes'[n] <=> g \in fatherScopes[n] /\ g # f
            /\ fatherScopes'[n] # {}
            /\ \A g \in fatherScopes[n] : g # f => <<n, g>> \notin edges
        BY <1>6, <2>1, <2>2, <2>4, <3>1, <3>2
      <3>4. \A g \in fatherScopes'[n] : ids'[g] = ids[g]
        BY <1>11, <3>3
      <3>5. ASSUME NEW g \in fatherScopes[n], g # f, NEW y \in ids[g], NEW z \in ids[f],
                   Append(y, t) = Append(z, t)
            PROVE  FALSE
        <4>1. f \in Obj /\ g \in Obj
          BY <1>6, <2>1, <3>1
        <4>2. y \in Seq(Frag) /\ z \in Seq(Frag)
          BY <1>8, <4>1, IndexFacts, LengthFacts DEF Structure
        <4>3. y = z
          BY <2>1, <3>5, <4>2, AppendInjective
        <4> QED
          BY <1>8, <3>5, <4>1, <4>3, IndexFacts DEF Structure
      <3>6. \A x : x \in ids'[n] <=> x \in ids[n] /\ ~ \E z \in ids[f] : x = Append(z, t)
        BY <1>4, <2>1, <3>1
      <3>7. \A x : x \in ids[n] <=> \E g \in fatherScopes[n] : \E y \in ids[g] : x = Append(y, t)
        BY <2>1, <3>1
      <3>8. \A x : x \in ids'[n] <=> \E g \in fatherScopes'[n] : \E y \in ids'[g] : x = Append(y, t)
        BY ZenonT(30), <3>1, <3>3, <3>4, <3>5, <3>6, <3>7
      <3>9. \A x : x \in ids'[n] <=> OnPath(fatherScopes', ids', n, t, x)
        BY <3>3, <3>8 DEF OnPath
      <3> QED
        BY <2>1, <3>9
    <2> QED
      BY <2>3, <2>4
  <1>13. IDsArePaths'
    BY <1>5, <1>12, NextPathMembers
  <1>14. IndexesAgree'
    <2>1. ASSUME NEW n \in ScopeObj, NEW x
          PROVE  x \in ids'[n] <=> x \in DOMAIN scopeIndex' /\ scopeIndex'[x] = n
      <3>1. x \in ids[n] <=> x \in DOMAIN scopeIndex /\ scopeIndex[x] = n
        BY <1>8 DEF Structure, IndexesAgree
      <3>2. /\ x \in DOMAIN scopeIndex' <=> x \in DOMAIN scopeIndex /\ \A m \in ScopeObj : x \notin CutIDs(edges, m)
            /\ x \in DOMAIN scopeIndex' => scopeIndex'[x] = scopeIndex[x]
        BY <1>1 DEF EraseKeys
      <3>3. \A m \in ScopeObj : x \in CutIDs(edges, m) => x \in DOMAIN scopeIndex /\ scopeIndex[x] = m
        BY <1>6, <1>8, <1>9, IndexFacts DEF Structure
      <3> QED
        BY <1>4, <1>6, <3>1, <3>2, <3>3
    <2>2. ASSUME NEW n \in ItemObj, NEW x
          PROVE  x \in ids'[n] <=> x \in DOMAIN pubIndex' /\ pubIndex'[x] = n
      <3>1. x \in ids[n] <=> x \in DOMAIN pubIndex /\ pubIndex[x] = n
        BY <1>8 DEF Structure, IndexesAgree
      <3>2. /\ x \in DOMAIN pubIndex' <=> x \in DOMAIN pubIndex /\ \A m \in ItemObj : x \notin CutIDs(edges, m)
            /\ x \in DOMAIN pubIndex' => pubIndex'[x] = pubIndex[x]
        BY <1>1 DEF EraseKeys
      <3>3. \A m \in ItemObj : x \in CutIDs(edges, m) => x \in DOMAIN pubIndex /\ pubIndex[x] = m
        BY <1>6, <1>8, <1>9, IndexFacts DEF Structure
      <3> QED
        BY <1>4, <1>6, <3>1, <3>2, <3>3
    <2>3. ASSUME NEW n \in Obj PROVE n \in Live' <=> ids'[n] # {}
      <3>1. n \in Live <=> ids[n] # {}
        BY <1>8 DEF Structure, IndexesAgree
      <3>2. ASSUME n \in Live, n \notin dead PROVE ids'[n] # {}
        <4>1. PICK s \in Frag : \A x : x \in ids'[n] <=> OnPath(fatherScopes', ids', n, s, x)
          BY <1>12, <3>2
        <4>2. CASE fatherScopes'[n] = {}
          BY <4>1, <4>2 DEF OnPath
        <4>3. CASE fatherScopes'[n] # {}
          <5>1. PICK f \in fatherScopes'[n] : f \in fatherScopes[n] /\ <<n, f>> \notin edges
            BY <1>4, <3>2, <4>3
          <5>2. ids'[f] = ids[f] /\ ids[f] # {}
            BY <1>8, <1>11, <3>2, <5>1 DEF Structure, IndexesAgree
          <5>3. PICK y : y \in ids'[f]
            BY <5>2
          <5>4. OnPath(fatherScopes', ids', n, s, Append(y, s))
            BY <4>3, <5>1, <5>3 DEF OnPath
          <5> QED
            BY <4>1, <5>4
        <4> QED
          BY <4>2, <4>3
      <3> QED
        BY <1>4, <1>5, <1>10, <3>1, <3>2
    <2> QED
      BY <2>1, <2>2, <2>3 DEF IndexesAgree
  <1>15. LinksAgree'
    <2>1. ASSUME NEW n \in Obj, NEW f \in ScopeObj
          PROVE  /\ f \in fatherScopes'[n] <=> n \in contents'[f]
                 /\ f \in fatherScopes'[n] => f \in Live' /\ n \in Live'
      <3>1. /\ f \in fatherScopes[n] <=> n \in contents[f]
            /\ f \in fatherScopes[n] => f \in Live /\ n \in Live
        BY <1>8 DEF Structure, LinksAgree
      <3>2. CASE n \in dead
        <4>1. PICK g \in Fathers : <<n, g>> \in edges /\ LastBranch(n, g)
          BY <1>3, <3>2
        <4>2. \A k \in fatherScopes[n] : k = g
          BY <1>8, <4>1, CutFacts
        <4>3. n \notin contents'[f]
          BY <1>4, <3>1, <4>1, <4>2
        <4> QED
          BY <1>10, <3>2, <4>3
      <3>3. CASE n \notin dead
        BY <1>4, <1>5, <1>11, <3>1, <3>3
      <3> QED
        BY <3>2, <3>3
    <2>2. ASSUME NEW i \in ItemObj \cap Live' PROVE fatherScopes'[i] # {}
      <3>1. i \in Obj /\ i \in Live /\ i \notin dead /\ fatherScopes[i] # {}
        BY <1>5, <1>6, <1>8 DEF Structure, LinksAgree
      <3>2. CASE \A f \in Fathers : <<i, f>> \notin edges
        BY <1>4, <1>6, <3>1, <3>2
      <3>3. ASSUME NEW f \in Fathers, <<i, f>> \in edges PROVE fatherScopes'[i] # {}
        <4>1. PICK g \in fatherScopes[i] : g # f
          BY <1>3, <1>8, <3>1, <3>3, CutFacts
        <4>2. g \in Fathers
          BY <1>6, <3>1
        <4>3. <<i, g>> \notin edges
          BY <3>1, <3>3, <4>1, <4>2 DEF MayCut
        <4> QED
          BY <1>4, <3>1, <4>3
      <3> QED
        BY <3>2, <3>3
    <2> QED
      BY <2>1, <2>2 DEF LinksAgree
  <1>16. NamesAreUnique'
    <2>1. DOMAIN scopeIndex' \subseteq DOMAIN scopeIndex /\ DOMAIN pubIndex' \subseteq DOMAIN pubIndex
      BY <1>1 DEF EraseKeys
    <2> QED
      BY <1>8, <2>1 DEF Structure, NamesAreUnique
  <1>17. \A n \in Obj : pubs'[n] = P[n] /\ subs'[n] = S[n]
    BY <1>1 DEF PairsStay
  <1>18. RemoteHostsAgree'
    <2>1. \A n \in Obj : pubs'[n] = P[n] /\ subs'[n] = S[n]
      BY <1>17
    <2>2. \A n \in Obj : \A p \in P[n] \cup S[n] : p[1] \in ids'[n]
      BY <1>4 DEF PairsStay
    <2>3. \A n \in Obj : P[n] \cup S[n] # {} => n \in Live'
      <3>1. \A n \in Obj : n \in Live' <=> ids'[n] # {}
        BY <1>14 DEF IndexesAgree
      <3> QED
        BY <2>2, <3>1
    <2>4. Live' \subseteq Obj
      BY <1>2, <1>5
    <2>5. published' = UNION {pubs'[n] : n \in Live'}
      BY <2>1, <2>3, <2>4
    <2>6. subscribed' = UNION {subs'[n] : n \in Live'}
      BY <2>1, <2>3, <2>4
    <2> QED
      BY <2>1, <2>2, <2>5, <2>6 DEF RemoteHostsAgree
  <1> QED
    BY <1>13, <1>14, <1>15, <1>16, <1>17, <1>18 DEF GraphInv, Structure

\* The father through which an identifier leads.
LEMMA FatherOfFacts ==
    ASSUME TypeOK, Structure, NEW o \in Obj, NEW x \in ids[o]
    PROVE  /\ fatherScopes[o] = {} => FatherOf(x) = NULL
           /\ fatherScopes[o] # {} =>
                /\ Front(x) \in DOMAIN scopeIndex
                /\ scopeIndex[Front(x)] \in fatherScopes[o]
                /\ FatherOf(x) = scopeIndex[Front(x)]
           /\ o \in Live
  <1>1. o \in Live /\ x \in ID
    BY IndexFacts DEF Structure
  <1>2. ASSUME fatherScopes[o] = {} PROVE FatherOf(x) = NULL
    <2>1. PICK s \in Frag : x = <<s>>
      BY <1>1, <1>2, PathFacts DEF Structure
    <2>2. <<>> \in Seq(Frag) /\ <<s>> = Append(<<>>, s)
      OBVIOUS
    <2>3. Front(x) = <<>>
      BY <2>1, <2>2, AppendFacts
    <2>4. Front(x) \notin DOMAIN scopeIndex
      BY <2>3, TypeParts DEF TableTypes, ID
    <2> QED
      BY <2>4 DEF FatherOf
  <1>3. ASSUME fatherScopes[o] # {}
        PROVE  Front(x) \in DOMAIN scopeIndex /\ scopeIndex[Front(x)] \in fatherScopes[o]
    <2>1. PICK f \in fatherScopes[o] : \E y \in ids[f] : x = Append(y, SuffixID(o))
      BY <1>1, <1>3, PathFacts DEF Structure
    <2>2. PICK y \in ids[f] : x = Append(y, SuffixID(o))
      BY <2>1
    <2>3. f \in ScopeObj /\ f \in Obj /\ SuffixID(o) \in Frag
      BY <1>1, PathFacts DEF Structure
    <2>4. y \in Seq(Frag) /\ y \in DOMAIN scopeIndex /\ scopeIndex[y] = f
      BY <2>3, IndexFacts, LengthFacts DEF Structure
    <2>5. Front(x) = y
      BY <2>2, <2>3, <2>4, AppendFacts
    <2> QED
      BY <2>4, <2>5
  <1> QED
    BY <1>1, <1>2, <1>3 DEF FatherOf

\* A branch without publishers and subscribers: nobody uses an identifier that
\* goes when it is cut.
LEMMA BranchIsClear ==
    ASSUME TypeOK, Structure, NEW n \in Live, NEW f,
           f \in fatherScopes[n] \/ (f = NULL /\ fatherScopes[n] = {}),
           NEW P, NEW S, ~checkForOtherPubSub(n, f, P, S), NEW p \in P[n] \cup S[n]
    PROVE  p[1] \notin BranchIDs(n, f)
  <1>1. f # NULL /\ p[1] \notin IDsUnder(f, SuffixID(n))
    BY DEF checkForOtherPubSub
  <1>2. f \in fatherScopes[n]
    BY <1>1
  <1>3. LastBranch(n, f) => \A x \in ids[n] : x \in IDsUnder(f, SuffixID(n))
    BY <1>1, <1>2, PathFacts DEF Structure, LastBranch, IDsUnder
  <1> QED
    BY <1>1, <1>3 DEF BranchIDs

\* The publications or subscriptions in T that are not in R.
Taken(T, R) == UNION {T[n] \ R[n] : n \in Obj}

(***************************************************************************)
(* What unpublishing and unsubscribing have in common: they take away some *)
(* publications or subscriptions, and cut branches that checkForOtherPubSub *)
(* found to be free of others.                                             *)
(***************************************************************************)
LEMMA RemoveAgrees ==
    ASSUME TypeOK, GraphInv, NEW edges, NEW P \in [Obj -> Interests], NEW S \in [Obj -> Interests],
           MayCut(edges), Cut(edges, P, S),
           \A n \in Obj : P[n] \subseteq pubs[n] /\ S[n] \subseteq subs[n],
           \A n \in Live, f \in Fathers : <<n, f>> \in edges => ~checkForOtherPubSub(n, f, P, S),
           published' = published \ Taken(pubs, P),
           subscribed' = subscribed \ Taken(subs, S)
    PROVE  GraphInv' /\ \A n \in Obj : pubs'[n] = P[n] /\ subs'[n] = S[n]
  <1>1. Structure /\ RemoteHostsAgree
    BY DEF GraphInv
  <1>2. \A n \in Obj : \A p \in pubs[n] \cup subs[n] : p[1] \in ids[n] /\ n \in Live
    BY <1>1, IndexFacts DEF RemoteHostsAgree, Structure
  <1>3. \A n \in Obj, m \in Obj : \A p : p[1] \in ids[n] /\ p[1] \in ids[m] => n = m
    BY <1>1, IndexFacts DEF Structure
  <1>4. ASSUME NEW n \in Obj, NEW p \in P[n] \cup S[n] PROVE p[1] \in ids[n] /\ p[1] \notin CutIDs(edges, n)
    <2>1. p[1] \in ids[n] /\ n \in Live
      BY <1>2
    <2>2. ASSUME NEW f \in Fathers, <<n, f>> \in edges PROVE p[1] \notin BranchIDs(n, f)
      <3>1. f \in fatherScopes[n] \/ (f = NULL /\ fatherScopes[n] = {})
        BY <2>1, <2>2 DEF MayCut
      <3>2. ~checkForOtherPubSub(n, f, P, S)
        BY <2>1, <2>2
      <3> QED
        BY <1>1, <2>1, <3>1, <3>2, BranchIsClear
    <2>3. edges \in SUBSET (Live \X Fathers)
      BY DEF MayCut
    <2>4. p[1] \notin CutIDs(edges, n)
      BY <2>2, <2>3, CutMembers
    <2> QED
      BY <2>1, <2>4
  <1>5. PairsStay(edges, P) /\ PairsStay(edges, S)
    BY <1>4 DEF PairsStay
  <1>6. Live \subseteq Obj
    BY TypeParts DEF TableTypes
  <1>7. published' = UNION {P[n] : n \in Obj}
    <2>1. \A q : q \in published <=> \E n \in Live : q \in pubs[n]
      BY <1>1 DEF RemoteHostsAgree
    <2>2. \A q : q \in published' <=> q \in published /\ \A n \in Obj : q \notin pubs[n] \/ q \in P[n]
      BY DEF Taken
    <2>3. \A q : q \in published' <=> \E n \in Obj : q \in P[n]
      BY <1>2, <1>3, <1>6, <2>1, <2>2
    <2> QED
      BY <2>3
  <1>8. subscribed' = UNION {S[n] : n \in Obj}
    <2>1. \A q : q \in subscribed <=> \E n \in Live : q \in subs[n]
      BY <1>1 DEF RemoteHostsAgree
    <2>2. \A q : q \in subscribed' <=> q \in subscribed /\ \A n \in Obj : q \notin subs[n] \/ q \in S[n]
      BY DEF Taken
    <2>3. \A q : q \in subscribed' <=> \E n \in Obj : q \in S[n]
      BY <1>2, <1>3, <1>6, <2>1, <2>2
    <2> QED
      BY <2>3
  <1> QED
    BY <1>5, <1>7, <1>8, CutAgrees

\* Cutting nothing, and cutting an object below which there is nothing.
LEMMA MayCutOne ==
    ASSUME TypeOK, Structure, NEW n \in Live, NEW f \in Fathers,
           f \in fatherScopes[n] \/ (f = NULL /\ fatherScopes[n] = {}),
           n \in ScopeObj => contents[n] = {}
    PROVE  MayCut({}) /\ MayCut({<<n, f>>})
  BY DEF MayCut

\* Taking one publication or subscription away.
TakesOne(T, R, o, q) == R = [T EXCEPT ![o] = @ \ {q}]

\* The result has one record less and nothing else.
LEMMA OneLess ==
    ASSUME NEW T \in [Obj -> Interests], NEW o \in Obj, NEW q \in T[o], NEW R, TakesOne(T, R, o, q)
    PROVE  /\ R \in [Obj -> Interests] /\ \A n \in Obj : R[n] \subseteq T[n]
           /\ Taken(T, R) = {q} /\ \A n \in Obj : \A p \in T[n] : p \in R[n] \/ p = q
  <1>1. \A n \in Obj : R[n] = IF n = o THEN T[o] \ {q} ELSE T[n]
    BY DEF TakesOne
  <1>2. \A n \in Obj : T[n] \ R[n] = IF n = o THEN {q} ELSE {}
    BY <1>1
  <1>3. Taken(T, R) = {q}
    BY <1>2 DEF Taken
  <1>4. R \in [Obj -> Interests]
    BY DEF Interests, TakesOne
  <1> QED
    BY <1>1, <1>3, <1>4

\* Taking none away.
LEMMA NoneLess ==
    ASSUME NEW T
    PROVE  Taken(T, T) = {}
  BY DEF Taken

\* UNPUBLISH_INFO.
LEMMA UnpublishInfoAgrees ==
    ASSUME TypeOK, GraphInv, NEW h, NEW st, NEW fullID \in DOMAIN pubIndex,
           unpublish_info(h, fullID, st)
    PROVE  /\ GraphInv' /\ OthersKeep(h)
           /\ \A n \in Obj : subs'[n] = subs[n] /\ (n # pubIndex[fullID] => pubs'[n] = pubs[n])
  <1> DEFINE i == pubIndex[fullID]
             father == scopeIndex[Front(fullID)]
             P == [pubs EXCEPT ![i] = @ \ {<<fullID, h>>}]
             q == <<fullID, h>>
             edges == IF checkForOtherPubSub(i, father, P, subs) THEN {} ELSE {<<i, father>>}
  <1>1. /\ q \in pubs[i] /\ published' = published \ {q} /\ Cut(edges, P, subs)
        /\ subscribed' = subscribed
    BY DEF unpublish_info
  <1>2. Structure
    BY DEF GraphInv
  <1>3. i \in ItemObj /\ i \in Obj /\ i \in Live /\ fullID \in ids[i]
    BY <1>2, IndexFacts DEF Structure
  <1>4. i \notin ScopeObj /\ fatherScopes[i] # {}
    BY <1>2, <1>3, LocalRVAssumption DEF Structure, LinksAgree
  <1>5. father \in fatherScopes[i] /\ father \in Fathers
    BY <1>2, <1>3, <1>4, FatherOfFacts, TypeParts DEF GraphTypes, Fathers
  <1>6. pubs \in [Obj -> Interests] /\ subs \in [Obj -> Interests]
    BY TypeParts DEF PairTypes
  <1>7. TakesOne(pubs, P, i, q)
    BY DEF TakesOne
  <1> HIDE DEF i, father, q, P
  <1>8. /\ P \in [Obj -> Interests] /\ \A n \in Obj : P[n] \subseteq pubs[n]
        /\ Taken(pubs, P) = {q} /\ \A n \in Obj : \A p \in pubs[n] : p \in P[n] \/ p = q
    BY <1>1, <1>3, <1>6, <1>7, OneLess
  <1>9. MayCut(edges)
    BY <1>2, <1>3, <1>4, <1>5, MayCutOne
  <1>10. \A n \in Live, f \in Fathers : <<n, f>> \in edges => ~checkForOtherPubSub(n, f, P, subs)
    OBVIOUS
  <1>11. /\ published' = published \ Taken(pubs, P)
         /\ subscribed' = subscribed \ Taken(subs, subs)
    <2>1. Taken(subs, subs) = {}
      BY NoneLess
    <2> QED
      BY <1>1, <1>8, <2>1
  <1> HIDE DEF edges
  <1>12. GraphInv' /\ \A n \in Obj : pubs'[n] = P[n] /\ subs'[n] = subs[n]
    BY <1>1, <1>6, <1>8, <1>9, <1>10, <1>11, RemoveAgrees
  <1>13. \A n \in Obj : n # i => P[n] = pubs[n]
    BY <1>7 DEF TakesOne
  <1>14. OthersKeep(h)
    <2>1. q[2] = h
      BY DEF q
    <2> QED
      BY <1>8, <1>12, <2>1 DEF OthersKeep
  <1> QED
    BY <1>12, <1>13, <1>14 DEF i

\* UNSUBSCRIBE_INFO.
LEMMA UnsubscribeInfoAgrees ==
    ASSUME TypeOK, GraphInv, NEW h, NEW st, NEW fullID \in DOMAIN pubIndex,
           unsubscribe_info(h, fullID, st)
    PROVE  /\ GraphInv' /\ OthersKeep(h)
           /\ \A n \in Obj :
                /\ pubs'[n] = pubs[n]
                /\ subs'[n] = [subs EXCEPT ![pubIndex[fullID]] = @ \ {<<fullID, h>>}][n]
  <1> DEFINE i == pubIndex[fullID]
             father == scopeIndex[Front(fullID)]
             S == [subs EXCEPT ![i] = @ \ {<<fullID, h>>}]
             q == <<fullID, h>>
             edges == IF checkForOtherPubSub(i, father, pubs, S) THEN {} ELSE {<<i, father>>}
  <1>1. /\ q \in subs[i] /\ subscribed' = subscribed \ {q} /\ Cut(edges, pubs, S)
        /\ published' = published
    BY DEF unsubscribe_info
  <1>2. Structure
    BY DEF GraphInv
  <1>3. i \in ItemObj /\ i \in Obj /\ i \in Live /\ fullID \in ids[i]
    BY <1>2, IndexFacts DEF Structure
  <1>4. i \notin ScopeObj /\ fatherScopes[i] # {}
    BY <1>2, <1>3, LocalRVAssumption DEF Structure, LinksAgree
  <1>5. father \in fatherScopes[i] /\ father \in Fathers
    BY <1>2, <1>3, <1>4, FatherOfFacts, TypeParts DEF GraphTypes, Fathers
  <1>6. pubs \in [Obj -> Interests] /\ subs \in [Obj -> Interests]
    BY TypeParts DEF PairTypes
  <1>7. TakesOne(subs, S, i, q)
    BY DEF TakesOne
  <1> HIDE DEF i, father, q, S
  <1>8. /\ S \in [Obj -> Interests] /\ \A n \in Obj : S[n] \subseteq subs[n]
        /\ Taken(subs, S) = {q} /\ \A n \in Obj : \A p \in subs[n] : p \in S[n] \/ p = q
    BY <1>1, <1>3, <1>6, <1>7, OneLess
  <1>9. MayCut(edges)
    BY <1>2, <1>3, <1>4, <1>5, MayCutOne
  <1>10. \A n \in Live, f \in Fathers : <<n, f>> \in edges => ~checkForOtherPubSub(n, f, pubs, S)
    OBVIOUS
  <1>11. /\ subscribed' = subscribed \ Taken(subs, S)
         /\ published' = published \ Taken(pubs, pubs)
    <2>1. Taken(pubs, pubs) = {}
      BY NoneLess
    <2> QED
      BY <1>1, <1>8, <2>1
  <1> HIDE DEF edges
  <1>12. GraphInv' /\ \A n \in Obj : pubs'[n] = pubs[n] /\ subs'[n] = S[n]
    BY <1>1, <1>6, <1>8, <1>9, <1>10, <1>11, RemoveAgrees
  <1>13. OthersKeep(h)
    <2>1. q[2] = h
      BY DEF q
    <2> QED
      BY <1>8, <1>12, <2>1 DEF OthersKeep
  <1> QED
    BY <1>12, <1>13 DEF S, i

\* UNSUBSCRIBE_SCOPE.
LEMMA UnsubscribeScopeAgrees ==
    ASSUME TypeOK, GraphInv, NEW h, NEW st, NEW fullID \in DOMAIN scopeIndex,
           unsubscribe_scope(h, fullID, st)
    PROVE  /\ GraphInv' /\ OthersKeep(h)
           /\ \A n \in Obj : pubs'[n] = pubs[n] /\ subs'[n] \subseteq subs[n]
  <1> DEFINE sc == scopeIndex[fullID]
             father == FatherOf(fullID)
             S == [subs EXCEPT ![sc] = @ \ {<<fullID, h>>}]
             q == <<fullID, h>>
             scopeGone == IsEmpty(sc, {}) /\ ~checkForOtherPubSub(sc, father, pubs, S)
             edges == IF scopeGone THEN {<<sc, father>>} ELSE {}
  <1>1. /\ q \in subs[sc] /\ subscribed' = subscribed \ {q} /\ Cut(edges, pubs, S)
        /\ published' = published
    BY DEF unsubscribe_scope
  <1>2. Structure
    BY DEF GraphInv
  <1>3. sc \in ScopeObj /\ sc \in Obj /\ sc \in Live /\ fullID \in ids[sc]
    BY <1>2, IndexFacts DEF Structure
  <1>4. father \in fatherScopes[sc] \/ (father = NULL /\ fatherScopes[sc] = {})
    BY <1>2, <1>3, FatherOfFacts
  <1>5. father \in Fathers
    BY <1>3, <1>4, TypeParts DEF GraphTypes, Fathers
  <1>6. pubs \in [Obj -> Interests] /\ subs \in [Obj -> Interests]
    BY TypeParts DEF PairTypes
  <1>7. TakesOne(subs, S, sc, q)
    BY DEF TakesOne
  <1> HIDE DEF sc, father, q, S
  <1>8. /\ S \in [Obj -> Interests] /\ \A n \in Obj : S[n] \subseteq subs[n]
        /\ Taken(subs, S) = {q} /\ \A n \in Obj : \A p \in subs[n] : p \in S[n] \/ p = q
    BY <1>1, <1>3, <1>6, <1>7, OneLess
  <1>9. MayCut(edges)
    <2>1. scopeGone => contents[sc] = {}
      BY DEF IsEmpty
    <2>2. MayCut({})
      BY DEF MayCut
    <2>3. scopeGone => MayCut({<<sc, father>>})
      BY <1>2, <1>3, <1>4, <1>5, <2>1, MayCutOne
    <2> QED
      BY <2>2, <2>3
  <1>10. \A n \in Live, f \in Fathers : <<n, f>> \in edges => ~checkForOtherPubSub(n, f, pubs, S)
    OBVIOUS
  <1>11. /\ subscribed' = subscribed \ Taken(subs, S)
         /\ published' = published \ Taken(pubs, pubs)
    <2>1. Taken(pubs, pubs) = {}
      BY NoneLess
    <2> QED
      BY <1>1, <1>8, <2>1
  <1> HIDE DEF edges
  <1>12. GraphInv' /\ \A n \in Obj : pubs'[n] = pubs[n] /\ subs'[n] = S[n]
    BY <1>1, <1>6, <1>8, <1>9, <1>10, <1>11, RemoveAgrees
  <1>13. OthersKeep(h)
    <2>1. q[2] = h
      BY DEF q
    <2> QED
      BY <1>8, <1>12, <2>1 DEF OthersKeep
  <1> QED
    BY <1>8, <1>12, <1>13

\* UNPUBLISH_SCOPE: the items below the scope that nobody needs any more go,
\* and with the last of them the scope, when nobody needs it either.
LEMMA UnpublishScopeAgrees ==
    ASSUME TypeOK, GraphInv, NEW h, NEW st, NEW fullID \in DOMAIN scopeIndex,
           unpublish_scope(h, fullID, st)
    PROVE  /\ GraphInv' /\ OthersKeep(h)
           /\ \A n \in Obj : subs'[n] = subs[n]
           /\ \E T : /\ Rematch(T)
                     /\ \A n \in ItemObj : n \notin T => pubs'[n] = pubs[n]
  <1> DEFINE sc == scopeIndex[fullID]
             father == FatherOf(fullID)
             items == contents[sc] \cap ItemObj
             own(i) == {<<Append(id, SuffixID(i)), h>> : id \in ids[sc]}
             P(visited) == [o \in Obj |-> IF o \in visited THEN pubs[o] \ own(o)
                                          ELSE IF o = sc THEN pubs[o] \ {<<fullID, h>>}
                                          ELSE pubs[o]]
             touched(visited) == {i \in visited : P(visited)[i] # pubs[i]}
             gone(visited) == {i \in touched(visited) : ~checkForOtherPubSub(i, sc, P(visited), subs)}
             scopeGone(visited) == /\ <<fullID, h>> \in pubs[sc]
                                   /\ IsEmpty(sc, gone(visited))
                                   /\ ~checkForOtherPubSub(sc, father, P(visited), subs)
             edges(visited) == {<<i, sc>> : i \in gone(visited)}
                                 \cup (IF scopeGone(visited) THEN {<<sc, father>>} ELSE {})
  <1>1. PICK v \in SUBSET items :
               /\ published' = published \ Taken(pubs, P(v))
               /\ Cut(edges(v), P(v), subs)
               /\ subscribed' = subscribed
               /\ Rematch(touched(v))
    BY DEF unpublish_scope, Taken
  <1>2. Structure
    BY DEF GraphInv
  <1>3. sc \in ScopeObj /\ sc \in Obj /\ sc \in Live /\ fullID \in ids[sc]
    BY <1>2, IndexFacts DEF Structure
  <1>4. father \in fatherScopes[sc] \/ (father = NULL /\ fatherScopes[sc] = {})
    BY <1>2, <1>3, FatherOfFacts
  <1>5. father \in Fathers /\ sc \in Fathers
    BY <1>3, <1>4, TypeParts DEF GraphTypes, Fathers
  <1>6. pubs \in [Obj -> Interests] /\ subs \in [Obj -> Interests]
    BY TypeParts DEF PairTypes
  <1> DEFINE Q == P(v)
             G == gone(v)
             E == edges(v)
  <1>7. /\ Q \in [Obj -> Interests] /\ \A n \in Obj : Q[n] \subseteq pubs[n]
        /\ \A n \in Obj : \A p \in pubs[n] : p \in Q[n] \/ p[2] = h
    <2>1. Q \in [Obj -> Interests] /\ \A n \in Obj : Q[n] \subseteq pubs[n]
      BY <1>6 DEF Interests
    <2>2. ASSUME NEW n \in Obj, NEW p \in pubs[n], p \notin Q[n] PROVE p[2] = h
      <3>1. p \in own(n) \/ p = <<fullID, h>>
        BY <2>2
      <3>2. \A r \in own(n) : r[2] = h
        OBVIOUS
      <3> HIDE DEF own
      <3> QED
        BY <3>1, <3>2
    <2> QED
      BY <2>1, <2>2
  <1>8. Rematch(touched(v)) /\ \A n \in Obj : n \notin touched(v) => n = sc \/ Q[n] = pubs[n]
    BY <1>1
  <1>9. \A i \in G : i \in items /\ ~checkForOtherPubSub(i, sc, Q, subs)
    BY <1>1
  <1>10. scopeGone(v) => contents[sc] \subseteq G /\ ~checkForOtherPubSub(sc, father, Q, subs)
    BY DEF IsEmpty
  <1>11. E = {<<i, sc>> : i \in G} \cup (IF scopeGone(v) THEN {<<sc, father>>} ELSE {})
    OBVIOUS
  <1>12. Cut(E, Q, subs) /\ published' = published \ Taken(pubs, Q)
    BY <1>1
  <1> HIDE DEF Q, G, E, P, touched, gone, scopeGone, edges, own
  <1>13. \A i \in G : i \in Live /\ i \in ItemObj /\ i \notin ScopeObj /\ sc \in fatherScopes[i]
    BY <1>2, <1>3, <1>9, LocalRVAssumption DEF Structure, LinksAgree, Obj
  <1> HIDE DEF sc, father, items
  <1>14. \A n, f : <<n, f>> \in E <=> \/ n \in G /\ f = sc
                                      \/ scopeGone(v) /\ n = sc /\ f = father
    BY <1>11
  <1>15. MayCut(E)
    <2>1. E \in SUBSET (Live \X Fathers)
      BY <1>3, <1>5, <1>11, <1>13
    <2>2. \A n \in Live, f \in Fathers : <<n, f>> \in E =>
            f \in fatherScopes[n] \/ (f = NULL /\ fatherScopes[n] = {})
      BY <1>4, <1>13, <1>14
    <2>3. \A n \in Live, f \in Fathers, g \in Fathers : <<n, f>> \in E /\ <<n, g>> \in E => f = g
      BY <1>3, <1>13, <1>14
    <2>4. \A n \in ScopeObj, f \in Fathers : <<n, f>> \in E => \A c \in contents[n] : <<c, n>> \in E
      BY <1>10, <1>13, <1>14
    <2> QED
      BY <2>1, <2>2, <2>3, <2>4 DEF MayCut
  <1>16. \A n \in Live, f \in Fathers : <<n, f>> \in E => ~checkForOtherPubSub(n, f, Q, subs)
    BY <1>9, <1>10, <1>14
  <1>17. subscribed' = subscribed \ Taken(subs, subs)
    <2>1. Taken(subs, subs) = {}
      BY NoneLess
    <2> QED
      BY <1>1, <2>1
  <1>18. GraphInv' /\ \A n \in Obj : pubs'[n] = Q[n] /\ subs'[n] = subs[n]
    BY <1>6, <1>7, <1>12, <1>15, <1>16, <1>17, RemoveAgrees
  <1>19. OthersKeep(h)
    BY <1>7, <1>18 DEF OthersKeep
  <1> QED
    <2>1. \A n \in ItemObj : n \in Obj /\ n # sc
      BY <1>3, LocalRVAssumption DEF Obj
    <2> QED
      BY <1>8, <1>18, <1>19, <2>1

-----------------------------------------------------------------------------

\* The prefix of an identifier names a scope.
LEMMA PrefixesFollow ==
    ASSUME TypeOK, GraphInv
    PROVE  PrefixesExist
  <1>1. Structure
    BY DEF GraphInv
  <1>2. ASSUME NEW x \in DOMAIN scopeIndex, Len(x) > 1 PROVE Front(x) \in DOMAIN scopeIndex
    <2> DEFINE o == scopeIndex[x]
    <2>1. o \in Obj /\ o \in Live /\ x \in ids[o]
      BY <1>1, IndexFacts DEF Structure
    <2> HIDE DEF o
    <2>2. fatherScopes[o] # {}
      <3>1. ASSUME fatherScopes[o] = {} PROVE Len(x) = 1
        <4>1. PICK s \in Frag : x = <<s>>
          BY <1>1, <2>1, <3>1, PathFacts DEF Structure
        <4> QED
          BY <4>1
      <3>2. 1 \in Nat /\ ~(1 > 1)
        OBVIOUS
      <3> QED
        BY <1>2, <3>1, <3>2
    <2> QED
      BY <1>1, <2>1, <2>2, FatherOfFacts
  <1>3. ASSUME NEW x \in DOMAIN pubIndex PROVE Front(x) \in DOMAIN scopeIndex
    <2>1. /\ pubIndex[x] \in Obj /\ pubIndex[x] \in ItemObj /\ pubIndex[x] \in Live
          /\ x \in ids[pubIndex[x]]
      BY <1>1, IndexFacts DEF Structure
    <2>2. fatherScopes[pubIndex[x]] # {}
      BY <1>1, <2>1 DEF Structure, LinksAgree
    <2> QED
      BY <1>1, <2>1, <2>2, FatherOfFacts
  <1> QED
    BY <1>2, <1>3 DEF PrefixesExist

\* Every request keeps the invariant.
LEMMA GraphInductive ==
    ASSUME TypeOK, GraphInv, [Next]_vars
    PROVE  GraphInv'
  <1>1. CASE UNCHANGED vars
    <2>1. /\ scopeIndex' = scopeIndex /\ pubIndex' = pubIndex /\ strategy' = strategy
          /\ fatherScopes' = fatherScopes /\ contents' = contents /\ ids' = ids
          /\ pubs' = pubs /\ subs' = subs /\ published' = published /\ subscribed' = subscribed
      BY <1>1 DEF vars, index, graph
    <2>2. MayCut({})
      BY DEF MayCut
    <2>3. Live' = Live
      BY <2>1 DEF Live
    <2>4. IndexesAgree' /\ LinksAgree' /\ NamesAreUnique' /\ RemoteHostsAgree'
      BY <2>1, <2>3 DEF GraphInv, Structure, IndexesAgree, LinksAgree, NamesAreUnique,
                        RemoteHostsAgree
    <2>5. IDsArePaths'
      <3>1. \A n \in Live : \E s \in Frag :
              \A x : x \in ids[n] <=> OnPath(fatherScopes, ids, n, s, x)
        BY PathMembers DEF GraphInv, Structure
      <3>2. \A n \in Live' : \E s \in Frag :
              \A x : x \in ids'[n] <=> OnPath(fatherScopes', ids', n, s, x)
        BY <2>1, <2>3, <3>1
      <3> QED
        BY <3>2, NextPathMembers
    <2> QED
      BY <2>4, <2>5 DEF GraphInv, Structure
  <1>2. ASSUME NEW h \in Host, NEW st \in Strategy, Publish(h, st) PROVE GraphInv'
    BY <1>2, PublishScopeAgrees, ItemRequestsAgree, RepublishAgrees, ReadvertiseAgrees DEF Publish
  <1>3. ASSUME NEW h \in Host, NEW st \in Strategy, Subscribe(h, st) PROVE GraphInv'
    BY <1>3, SubscribeScopeAgrees, ItemRequestsAgree DEF Subscribe
  <1>4. ASSUME NEW h \in Host, NEW st \in Strategy, Unpublish(h, st) PROVE GraphInv'
    BY <1>4, UnpublishScopeAgrees, UnpublishInfoAgrees DEF Unpublish
  <1>5. ASSUME NEW h \in Host, NEW st \in Strategy, Unsubscribe(h, st) PROVE GraphInv'
    BY <1>5, UnsubscribeScopeAgrees, UnsubscribeInfoAgrees DEF Unsubscribe
  <1> QED
    BY <1>1, <1>2, <1>3, <1>4, <1>5 DEF Next

\* The rendezvous element starts with an empty graph.
LEMMA GraphInitially == Init => GraphInv
  <1> SUFFICES ASSUME Init PROVE GraphInv
    OBVIOUS
  <1>1. Live = {} /\ DOMAIN scopeIndex = {} /\ DOMAIN pubIndex = {}
    BY DEF Init, Live
  <1>2. IndexesAgree /\ LinksAgree /\ NamesAreUnique /\ RemoteHostsAgree
    BY <1>1 DEF Init, IndexesAgree, LinksAgree, NamesAreUnique, RemoteHostsAgree, Obj
  <1>3. IDsArePaths
    BY <1>1 DEF IDsArePaths
  <1> QED
    BY <1>2, <1>3 DEF GraphInv, Structure

\* No sequence of requests, of any hosts, makes the indexes, the pointers and
\* the identifiers of the information graph, or the records of the hosts,
\* disagree: a lookup never finds a deleted object, ids.get() never returns
\* NULL, and an identifier's prefix names a scope for as long as it exists.
THEOREM GraphIsSound == Spec => []GraphAgrees
  <1>1. TypeOK /\ GraphInv /\ [Next]_vars => GraphInv'
    BY GraphInductive
  <1>2. TypeOK /\ GraphInv => GraphAgrees
    BY PrefixesFollow DEF GraphInv, Structure, GraphAgrees
  <1> QED
    BY <1>1, <1>2, GraphInitially, TypeCorrect, PTL DEF Spec

\* A host's request to publish or to subscribe changes its own interests only.
LEMMA GrowingIsOwn ==
    ASSUME TypeOK, GraphInv, NEW h, NEW st, Publish(h, st) \/ Subscribe(h, st)
    PROVE  OthersKeep(h)
  <1> SUFFICES \E o \in Obj : \E id : updatePublishers(o, id, h) \/ updateSubscribers(o, id, h)
    BY UpdateIsOwn
  <1>1. /\ \A x \in DOMAIN scopeIndex : scopeIndex[x] \in Obj
        /\ \A x \in DOMAIN pubIndex : pubIndex[x] \in Obj
        /\ \A o \in ScopeObj : o \in Obj
        /\ \A o \in ItemObj : o \in Obj
    BY IndexFacts DEF GraphInv, Structure, Obj
  <1>2. ASSUME NEW frag \in Frag, publish_root_scope(h, frag, st) \/ subscribe_root_scope(h, frag, st)
        PROVE  \E o \in Obj : \E id : updatePublishers(o, id, h) \/ updateSubscribers(o, id, h)
    BY <1>1, <1>2 DEF publish_root_scope, subscribe_root_scope, AddScopeSubscriber
  <1>3. ASSUME NEW p \in DOMAIN scopeIndex, NEW frag \in Frag,
               publish_inner_scope(h, p, frag, st) \/ subscribe_inner_scope(h, p, frag, st)
        PROVE  \E o \in Obj : \E id : updatePublishers(o, id, h) \/ updateSubscribers(o, id, h)
    BY <1>1, <1>3 DEF publish_inner_scope, subscribe_inner_scope, AddScopeSubscriber
  <1>4. ASSUME NEW p \in DOMAIN scopeIndex, NEW frag \in Frag,
               advertise_info(h, p, frag, st) \/ subscribe_info(h, p, frag, st)
        PROVE  \E o \in Obj : \E id : updatePublishers(o, id, h) \/ updateSubscribers(o, id, h)
    BY <1>1, <1>4 DEF advertise_info, subscribe_info, AddPublisher
  <1>5. ASSUME NEW id \in DOMAIN scopeIndex, NEW p \in DOMAIN scopeIndex,
               republish_inner_scope(h, id, p, st)
        PROVE  \E o \in Obj : \E x : updatePublishers(o, x, h) \/ updateSubscribers(o, x, h)
    BY <1>1, <1>5 DEF republish_inner_scope
  <1>6. ASSUME NEW id \in DOMAIN pubIndex, NEW p \in DOMAIN scopeIndex,
               readvertise_info(h, id, p, st)
        PROVE  \E o \in Obj : \E x : updatePublishers(o, x, h) \/ updateSubscribers(o, x, h)
    BY <1>1, <1>6 DEF readvertise_info, AddPublisher
  <1> QED
    BY <1>2, <1>3, <1>4, <1>5, <1>6 DEF Publish, Subscribe

\* Whatever a host publishes, subscribes to or gives up, the publications and
\* subscriptions of all others stay: a branch is only cut when checkForOther-
\* PubSub found nobody else on it, and that is all that a cut takes along.
THEOREM OthersKeepTheirsAlways == Spec => OthersKeepTheirs
  <1>1. TypeOK /\ GraphInv /\ [Next]_vars => GraphInv'
    BY GraphInductive
  <1>2. TypeOK /\ GraphInv /\ Next => \E h \in Host : OthersKeep(h)
    <2> SUFFICES ASSUME TypeOK, GraphInv, NEW h \in Host, NEW st \in Strategy,
                        Publish(h, st) \/ Subscribe(h, st) \/ Unpublish(h, st) \/ Unsubscribe(h, st)
                 PROVE  OthersKeep(h)
      BY DEF Next
    <2>1. CASE Publish(h, st) \/ Subscribe(h, st)
      BY <2>1, GrowingIsOwn
    <2>2. CASE Unpublish(h, st)
      BY <2>2, UnpublishScopeAgrees, UnpublishInfoAgrees DEF Unpublish
    <2>3. CASE Unsubscribe(h, st)
      BY <2>3, UnsubscribeScopeAgrees, UnsubscribeInfoAgrees DEF Unsubscribe
    <2> QED
      BY <2>1, <2>2, <2>3
  <1>3. TypeOK /\ GraphInv /\ [Next]_vars =>
          [\E h \in Host : \A o \in Obj :
             /\ \A p \in pubs[o] \cup pubs'[o] : p[2] # h => p \in pubs[o] /\ p \in pubs'[o]
             /\ \A p \in subs[o] \cup subs'[o] : p[2] # h => p \in subs[o] /\ p \in subs'[o]]_vars
    BY <1>2 DEF OthersKeep
  <1> QED
    BY <1>1, <1>3, GraphInitially, TypeCorrect, PTL DEF Spec, OthersKeepTheirs

-----------------------------------------------------------------------------
(***************************************************************************)
(* What publishers and subscribers are told stays current: LocalRV's       *)
(* invariants MatchIsCurrent and SubscopesAreTold, proved for every number *)
(* of hosts, objects and fragments and every depth.                        *)
(*                                                                         *)
(* Both are inductive given the soundness of the graph (GraphInv).  A      *)
(* request either leaves an item as it was, with no subscriber more than   *)
(* before (KeptItem), or announces a match that is no smaller than the     *)
(* item's new state (FreshItem).  A link between two scopes was there      *)
(* before, and what is untold does not concern it (KeptLink), or its       *)
(* subscribers have just been told of it.                                  *)
(***************************************************************************)

(* Identifiers before and after a step *)

\* What the proofs need of the identifiers of an object.
NamesOf(o) ==
    o \in Live =>
      /\ o \in Obj /\ ids[o] # {} /\ SuffixID(o) \in Frag
      /\ \A x \in ids[o] : x \in ID /\ Last(x) = SuffixID(o)
      /\ \A f \in fatherScopes[o] : f \in Obj /\ f \in Live /\ \A y \in ids[f] : Append(y, SuffixID(o)) \in ids[o]

\* It follows from the soundness of the graph, now and after a step.
LEMMA GraphNames == TypeOK /\ GraphInv => \A o : NamesOf(o)
  <1> SUFFICES ASSUME TypeOK, GraphInv, NEW o \in Live
               PROVE  NamesOf(o)
    BY DEF NamesOf
  <1>1. ids[o] # {}
    BY PathFacts DEF GraphInv, Structure, IndexesAgree
  <1>2. /\ o \in Obj /\ SuffixID(o) \in Frag
        /\ \A x \in ids[o] : x \in ID /\ Last(x) = SuffixID(o)
    BY PathFacts DEF GraphInv, Structure
  <1>3. \A f \in fatherScopes[o] : f \in Obj /\ f \in Live /\ \A y \in ids[f] : Append(y, SuffixID(o)) \in ids[o]
    BY PathFacts DEF GraphInv, Structure
  <1> QED
    BY <1>1, <1>2, <1>3 DEF NamesOf

LEMMA NextGraphNames == (TypeOK /\ GraphInv => \A o : NamesOf(o))'
  BY GraphNames, PTL

\* An object keeps its fragment.
LEMMA SuffixKept ==
    ASSUME TypeOK, GraphInv, TypeOK', GraphInv', NEW o, o \in Live, o \in Live',
           ids[o] \subseteq ids'[o] \/ ids'[o] \subseteq ids[o]
    PROVE  SuffixID(o)' = SuffixID(o)
  <1>1. ids[o] # {} /\ \A x \in ids[o] : Last(x) = SuffixID(o)
    BY GraphNames DEF NamesOf
  <1>2. ids'[o] # {} /\ \A x \in ids'[o] : Last(x) = SuffixID(o)'
    BY NextGraphNames DEF NamesOf
  <1> QED
    BY <1>1, <1>2

\* Who has publications or subscriptions recorded under what.
LEMMA RecordFacts == TypeOK /\ GraphInv =>
    \A o \in Obj : \A p \in pubs[o] \cup subs[o] : p[1] \in ids[o] /\ o \in Live
  BY IndexFacts DEF GraphInv, Structure, RemoteHostsAgree

LEMMA NextRecordFacts == (TypeOK /\ GraphInv =>
    \A o \in Obj : \A p \in pubs[o] \cup subs[o] : p[1] \in ids[o] /\ o \in Live)'
  BY RecordFacts, PTL

-----------------------------------------------------------------------------
(* MatchIsCurrent *)

\* The match last announced for an item serves every subscription there is.
\* This holds of unused addresses too: no publisher has been announced.
CurrentFor(i) ==
    /\ matched[i].pub = HostsOf(pubs[i])
    /\ pubs[i] # {} =>
         /\ AllSubscribers(i, subs) \subseteq matched[i].sub
         /\ \A p \in subs[i] : p[1] \in matched[i].ids
         /\ \A f \in fatherScopes[i] : \A p \in subs[f] :
              Append(p[1], SuffixID(i)) \in matched[i].ids

MatchInv == \A i \in ItemObj : CurrentFor(i)

\* A step keeps the item's match, its publishers and at most its subscribers.
KeptItem(i) ==
    /\ matched'[i] = matched[i]
    /\ pubs'[i] = pubs[i]
    /\ pubs[i] # {} =>
         /\ subs'[i] \subseteq subs[i] /\ fatherScopes'[i] \subseteq fatherScopes[i]
         /\ \A f \in fatherScopes'[i] : subs'[f] \subseteq subs[f]
         /\ ids[i] \subseteq ids'[i] \/ ids'[i] \subseteq ids[i]

\* A step announces a match for the item, of at least what there is now.
FreshItem(i) ==
    \E S, I : /\ matched'[i] = rendezvous(strategy'[i], HostsOf(pubs'[i]), S, I)
              /\ AllSubscribers(i, subs)' \subseteq S
              /\ ids'[i] \subseteq I

LEMMA KeptIsCurrent ==
    ASSUME TypeOK, GraphInv, TypeOK', GraphInv', NEW i \in ItemObj, CurrentFor(i), KeptItem(i)
    PROVE  CurrentFor(i)'
  <1>1. matched'[i] = matched[i] /\ pubs'[i] = pubs[i]
    BY DEF KeptItem
  <1>2. HostsOf(pubs[i])' = HostsOf(pubs[i])
    BY <1>1 DEF HostsOf
  <1>3. ASSUME pubs[i] # {}
        PROVE  /\ AllSubscribers(i, subs)' \subseteq matched[i].sub
               /\ \A p \in subs'[i] : p[1] \in matched[i].ids
               /\ \A f \in fatherScopes'[i] : \A p \in subs'[f] :
                    Append(p[1], SuffixID(i)') \in matched[i].ids
    <2>1. /\ subs'[i] \subseteq subs[i] /\ fatherScopes'[i] \subseteq fatherScopes[i]
          /\ \A f \in fatherScopes'[i] : subs'[f] \subseteq subs[f]
          /\ ids[i] \subseteq ids'[i] \/ ids'[i] \subseteq ids[i]
      BY <1>3 DEF KeptItem
    <2>2. /\ AllSubscribers(i, subs) \subseteq matched[i].sub
          /\ \A p \in subs[i] : p[1] \in matched[i].ids
          /\ \A f \in fatherScopes[i] : \A p \in subs[f] :
               Append(p[1], SuffixID(i)) \in matched[i].ids
      BY <1>3 DEF CurrentFor
    <2>3. i \in Live /\ i \in Live'
      BY <1>1, <1>3, RecordFacts, NextRecordFacts DEF Obj
    <2>4. SuffixID(i)' = SuffixID(i)
      BY <2>1, <2>3, SuffixKept
    <2>5. AllSubscribers(i, subs)' \subseteq AllSubscribers(i, subs)
      BY <2>1 DEF AllSubscribers, HostsOf
    <2> QED
      BY <2>1, <2>2, <2>4, <2>5
  <1>4. matched[i].pub = HostsOf(pubs[i])
    BY DEF CurrentFor
  <1> QED
    BY <1>1, <1>2, <1>3, <1>4 DEF CurrentFor

\* Who the subscribers of an item are: hosts on record.
LEMMA SubscribersAre ==
    ASSUME NEW i, NEW h
    PROVE  h \in AllSubscribers(i, subs)
             <=> \E p \in subs[i] \cup UNION {subs[f] : f \in fatherScopes[i]} : p[2] = h
  BY DEF AllSubscribers, HostsOf

\* A node-local item has no publishers and subscribers but the local host.
LocalOnly(i) ==
    i \in Live /\ strategy[i] = NODE_LOCAL =>
      /\ HostsOf(pubs[i]) \subseteq {LocalHost}
      /\ AllSubscribers(i, subs) \subseteq {LocalHost}

LEMMA LocalItems == LocalStaysLocal => \A i : LocalOnly(i)
  <1> SUFFICES ASSUME LocalStaysLocal, NEW i \in Live, strategy[i] = NODE_LOCAL
               PROVE  /\ HostsOf(pubs[i]) \subseteq {LocalHost}
                      /\ AllSubscribers(i, subs) \subseteq {LocalHost}
    BY DEF LocalOnly
  <1>1. \A p \in pubs[i] \cup subs[i] \cup UNION {subs[f] : f \in fatherScopes[i]} : p[2] = LocalHost
    BY DEF LocalStaysLocal
  <1> QED
    BY <1>1, SubscribersAre DEF HostsOf

LEMMA NextLocalItems == (LocalStaysLocal => \A i : LocalOnly(i))'
  BY LocalItems, PTL

LEMMA FreshIsCurrent ==
    ASSUME TypeOK', GraphInv', LocalStaysLocal', NEW i \in ItemObj, FreshItem(i)
    PROVE  CurrentFor(i)'
  <1>1. PICK S, I : /\ matched'[i] = rendezvous(strategy'[i], HostsOf(pubs'[i]), S, I)
                    /\ AllSubscribers(i, subs)' \subseteq S
                    /\ ids'[i] \subseteq I
    BY DEF FreshItem
  <1>2. i \in Obj
    BY DEF Obj
  <1>3. CASE pubs'[i] = {}
    <2>1. HostsOf(pubs'[i]) = {}
      BY <1>3 DEF HostsOf
    <2>2. matched'[i].pub = {}
      BY <1>1, <2>1 DEF rendezvous, NoMatch
    <2> QED
      BY <1>3, <2>1, <2>2 DEF CurrentFor, HostsOf
  <1>4. CASE pubs'[i] # {}
    <2>1. /\ i \in Live' /\ (\A p \in subs'[i] : p[1] \in ids'[i])
          /\ HostsOf(pubs'[i]) # {}
      BY <1>2, <1>4, NextRecordFacts DEF HostsOf
    <2>2. strategy'[i] = NODE_LOCAL => /\ HostsOf(pubs'[i]) \subseteq {LocalHost}
                                       /\ AllSubscribers(i, subs)' \subseteq {LocalHost}
      BY <2>1, NextLocalItems DEF LocalOnly, HostsOf, NODE_LOCAL
    <2>3. /\ matched'[i].pub = HostsOf(pubs'[i])
          /\ AllSubscribers(i, subs)' \subseteq matched'[i].sub
          /\ matched'[i].ids = I
      <3>1. PICK st : st = strategy'[i]
        OBVIOUS
      <3>2. PICK P : P = HostsOf(pubs'[i])
        OBVIOUS
      <3>3. PICK T : T = AllSubscribers(i, subs)'
        OBVIOUS
      <3>4. P # {} /\ T \subseteq S /\ (st = NODE_LOCAL => P \subseteq {LocalHost} /\ T \subseteq {LocalHost})
        BY <1>1, <2>1, <2>2, <3>1, <3>2, <3>3
      <3>5. /\ rendezvous(st, P, S, I).pub = P /\ T \subseteq rendezvous(st, P, S, I).sub
            /\ rendezvous(st, P, S, I).ids = I
        BY <3>4 DEF rendezvous, Announce, NoMatch
      <3>6. matched'[i] = rendezvous(st, P, S, I)
        BY <1>1, <3>1, <3>2, Zenon
      <3> QED
        BY <3>2, <3>3, <3>5, <3>6, Zenon
    <2>4. ASSUME NEW f \in fatherScopes'[i], NEW p \in subs'[f]
          PROVE  Append(p[1], SuffixID(i)') \in ids'[i]
      <3>1. /\ f \in Obj
            /\ \A y \in ids'[f] : Append(y, SuffixID(i)') \in ids'[i]
        BY <2>1, NextGraphNames DEF NamesOf
      <3>2. p[1] \in ids'[f]
        BY <3>1, NextRecordFacts
      <3> QED
        BY <3>1, <3>2
    <2> QED
      BY <1>1, <2>1, <2>3, <2>4 DEF CurrentFor, HostsOf
  <1> QED
    BY <1>3, <1>4

\* Running rendezvous() for the items in R: each of them is fresh.
LEMMA RematchedIsFresh ==
    ASSUME NEW R, Rematch(R), NEW i \in ItemObj
    PROVE  (i \in R => FreshItem(i)) /\ (i \notin R => matched'[i] = matched[i])
  <1>1. i \notin R => matched'[i] = matched[i]
    BY DEF Rematch
  <1>2. ASSUME i \in R PROVE FreshItem(i)
    <2>1. matched'[i] = CurrentMatch(i)'
      BY <1>2 DEF Rematch
    <2>2. CurrentMatch(i)' = rendezvous(strategy'[i], HostsOf(pubs'[i]), AllSubscribers(i, subs)', ids'[i])
      BY DEF CurrentMatch
    <2> QED
      BY <2>1, <2>2 DEF FreshItem
  <1> QED
    BY <1>1, <1>2

-----------------------------------------------------------------------------
(* What the requests do to the items *)

ItemsFollow == \A i \in ItemObj : KeptItem(i) \/ FreshItem(i)

\* A publication or subscription is recorded with another object, and the item
\* gets no father.
LEMMA AddedElsewhere ==
    ASSUME TypeOK, NEW o \in Obj, NEW id, NEW h,
           updatePublishers(o, id, h) \/ updateSubscribers(o, id, h),
           NEW i \in ItemObj, matched'[i] = matched[i], i # o,
           fatherScopes'[i] = fatherScopes[i], ids[i] \subseteq ids'[i],
           o \in fatherScopes[i] => updatePublishers(o, id, h)
    PROVE  KeptItem(i)
  <1>1. /\ pubs \in [Obj -> Interests] /\ subs \in [Obj -> Interests]
        /\ fatherScopes[i] \subseteq Obj /\ i \in Obj
    BY TypeParts DEF PairTypes, GraphTypes, Obj
  <1>2. /\ \A n \in Obj : n # o => pubs'[n] = pubs[n] /\ subs'[n] = subs[n]
        /\ updatePublishers(o, id, h) => subs' = subs
    BY <1>1 DEF updatePublishers, updateSubscribers
  <1>3. /\ pubs'[i] = pubs[i] /\ subs'[i] \subseteq subs[i]
        /\ \A f \in fatherScopes'[i] : subs'[f] \subseteq subs[f]
    BY <1>1, <1>2
  <1> QED
    BY <1>3 DEF KeptItem

\* The graph stays as it is, and the match of every item that the record
\* concerns is announced, or it is a publication of a scope.
LEMMA RecordedItems ==
    ASSUME TypeOK, GraphInv, NEW o \in Obj, NEW id, NEW h,
           updatePublishers(o, id, h) \/ updateSubscribers(o, id, h),
           fatherScopes' = fatherScopes, ids' = ids,
           \/ o \in ScopeObj /\ updatePublishers(o, id, h) /\ matched' = matched
           \/ o \in ItemObj /\ Rematch({o})
           \/ o \in ScopeObj /\ Rematch(contents[o] \cap ItemObj)
    PROVE  ItemsFollow
  <1>1. fatherScopes \in [Obj -> SUBSET ScopeObj] /\ ScopeObj \cap ItemObj = {}
    BY TypeParts, LocalRVAssumption DEF GraphTypes
  <1> SUFFICES ASSUME NEW i \in ItemObj PROVE KeptItem(i) \/ FreshItem(i)
    BY DEF ItemsFollow
  <1>2. i \in Obj /\ fatherScopes'[i] = fatherScopes[i] /\ ids[i] \subseteq ids'[i]
    BY DEF Obj
  <1>3. CASE o \in ScopeObj /\ updatePublishers(o, id, h) /\ matched' = matched
    BY <1>1, <1>2, <1>3, AddedElsewhere
  <1>4. CASE o \in ItemObj /\ Rematch({o})
    <2>1. o \notin fatherScopes[i]
      BY <1>1, <1>2, <1>4
    <2>2. (i = o => FreshItem(i)) /\ (i # o => matched'[i] = matched[i])
      BY <1>4, RematchedIsFresh
    <2> QED
      BY <1>2, <2>1, <2>2, AddedElsewhere
  <1>5. CASE o \in ScopeObj /\ Rematch(contents[o] \cap ItemObj)
    <2>1. o \in fatherScopes[i] => i \in contents[o]
      BY <1>2, <1>5 DEF GraphInv, Structure, LinksAgree
    <2>2. i # o
      BY <1>1, <1>5
    <2>3. (i \in contents[o] => FreshItem(i)) /\ (i \notin contents[o] => matched'[i] = matched[i])
      BY <1>5, RematchedIsFresh
    <2> QED
      BY <1>2, <2>1, <2>2, <2>3, AddedElsewhere
  <1> QED
    BY <1>3, <1>4, <1>5

\* A new object: a scope, an item that is announced, or an item that has no
\* publisher yet.
LEMMA NewObjectItems ==
    ASSUME TypeOK, GraphInv, NEW o \in Obj, NEW st, NEW fathers, NEW newIDs,
           NewObject(o, st, fathers, newIDs), NEW id, NEW h,
           updatePublishers(o, id, h) \/ updateSubscribers(o, id, h),
           \/ o \in ScopeObj /\ matched' = matched
           \/ o \in ItemObj /\ Rematch({o})
           \/ o \in ItemObj /\ updateSubscribers(o, id, h) /\ matched' = matched
    PROVE  ItemsFollow
  <1>1. /\ o \notin Live /\ fatherScopes' = [fatherScopes EXCEPT ![o] = fathers]
        /\ ids' = [ids EXCEPT ![o] = newIDs]
        /\ fatherScopes \in [Obj -> SUBSET ScopeObj] /\ ids \in [Obj -> SUBSET ID]
        /\ ScopeObj \cap ItemObj = {}
    BY TypeParts, LocalRVAssumption DEF NewObject, GraphTypes
  <1> SUFFICES ASSUME NEW i \in ItemObj PROVE KeptItem(i) \/ FreshItem(i)
    BY DEF ItemsFollow
  <1>2. i \in Obj /\ o \notin fatherScopes[i]
    BY <1>1, FreeObject DEF Obj, GraphInv
  <1>3. CASE i # o
    <2>1. fatherScopes'[i] = fatherScopes[i] /\ ids[i] \subseteq ids'[i]
      BY <1>1, <1>2, <1>3
    <2>2. matched'[i] = matched[i]
      BY <1>3, RematchedIsFresh
    <2> QED
      BY <1>2, <1>3, <2>1, <2>2, AddedElsewhere
  <1>4. CASE i = o /\ Rematch({o})
    BY <1>4, RematchedIsFresh
  <1>5. CASE i = o /\ updateSubscribers(o, id, h) /\ matched' = matched
    <2>1. pubs[i] = {}
      BY <1>1, <1>2, <1>5, RecordFacts
    <2>2. pubs' = pubs
      BY <1>5 DEF updateSubscribers
    <2> QED
      BY <1>5, <2>1, <2>2 DEF KeptItem
  <1> QED
    BY <1>1, <1>3, <1>4, <1>5

\* PUBLISH_SCOPE and SUBSCRIBE_SCOPE.
LEMMA ScopeRequestItems ==
    ASSUME TypeOK, GraphInv, NEW h, NEW st, NEW frag,
           \/ publish_root_scope(h, frag, st) \/ subscribe_root_scope(h, frag, st)
           \/ \E p \in DOMAIN scopeIndex :
                publish_inner_scope(h, p, frag, st) \/ subscribe_inner_scope(h, p, frag, st)
    PROVE  ItemsFollow
  <1> DEFINE root == <<frag>>
  <1>1. ASSUME NEW o \in ScopeObj, NEW id, NEW fathers, NEW newIDs,
               updatePublishers(o, id, h) \/ updateSubscribers(o, id, h),
               NewObject(o, st, fathers, newIDs), matched' = matched
        PROVE  ItemsFollow
    <2>1. o \in Obj
      BY DEF Obj
    <2> QED
      BY <1>1, <2>1, NewObjectItems
  <1>2. ASSUME NEW id \in DOMAIN scopeIndex, updatePublishers(scopeIndex[id], id, h),
               UNCHANGED <<index, graph, matched, told>>
        PROVE  ItemsFollow
    <2>1. /\ scopeIndex[id] \in Obj /\ scopeIndex[id] \in ScopeObj
          /\ fatherScopes' = fatherScopes /\ ids' = ids /\ matched' = matched
      BY <1>2, IndexFacts DEF GraphInv, Structure, graph
    <2> QED
      BY <1>2, <2>1, RecordedItems
  <1>3. ASSUME NEW id, AddScopeSubscriber(h, id, st) PROVE ItemsFollow
    <2>1. /\ id \in DOMAIN scopeIndex /\ updateSubscribers(scopeIndex[id], id, h)
          /\ fatherScopes' = fatherScopes /\ ids' = ids
          /\ Rematch(contents[scopeIndex[id]] \cap ItemObj)
      BY <1>3 DEF AddScopeSubscriber, graph
    <2>2. scopeIndex[id] \in Obj /\ scopeIndex[id] \in ScopeObj
      BY <2>1, IndexFacts DEF GraphInv, Structure
    <2> QED
      BY <2>1, <2>2, RecordedItems
  <1> HIDE DEF root
  <1>4. CASE publish_root_scope(h, frag, st)
    BY <1>1, <1>2, <1>4 DEF publish_root_scope, NewRootScope, root
  <1>5. CASE subscribe_root_scope(h, frag, st)
    BY <1>1, <1>3, <1>5 DEF subscribe_root_scope, NewRootScope, root
  <1>6. ASSUME NEW p \in DOMAIN scopeIndex, publish_inner_scope(h, p, frag, st)
        PROVE  ItemsFollow
    BY <1>1, <1>2, <1>6 DEF publish_inner_scope, NewInnerScope
  <1>7. ASSUME NEW p \in DOMAIN scopeIndex, subscribe_inner_scope(h, p, frag, st)
        PROVE  ItemsFollow
    BY <1>1, <1>3, <1>7 DEF subscribe_inner_scope, NewInnerScope
  <1> QED
    BY <1>4, <1>5, <1>6, <1>7

\* PUBLISH_INFO and SUBSCRIBE_INFO.
LEMMA ItemRequestItems ==
    ASSUME TypeOK, GraphInv, NEW h, NEW st, NEW frag, NEW p,
           advertise_info(h, p, frag, st) \/ subscribe_info(h, p, frag, st)
    PROVE  ItemsFollow
  <1>1. ASSUME NEW o \in ItemObj, NEW id,
               updatePublishers(o, id, h) \/ updateSubscribers(o, id, h), NewItem(o, p, frag, st),
               Rematch({o}) \/ (updateSubscribers(o, id, h) /\ matched' = matched)
        PROVE  ItemsFollow
    <2>1. o \in Obj
      BY DEF Obj
    <2> QED
      BY <1>1, <2>1, NewObjectItems DEF NewItem
  <1>2. ASSUME NEW id, id \in DOMAIN pubIndex, UNCHANGED <<index, graph, told>>,
               updatePublishers(pubIndex[id], id, h) \/ updateSubscribers(pubIndex[id], id, h),
               Rematch({pubIndex[id]})
        PROVE  ItemsFollow
    <2>1. /\ pubIndex[id] \in Obj /\ pubIndex[id] \in ItemObj
          /\ fatherScopes' = fatherScopes /\ ids' = ids
      BY <1>2, IndexFacts DEF GraphInv, Structure, graph
    <2> QED
      BY <1>2, <2>1, RecordedItems
  <1>3. CASE advertise_info(h, p, frag, st)
    BY <1>1, <1>2, <1>3 DEF advertise_info, AddPublisher
  <1>4. CASE subscribe_info(h, p, frag, st)
    BY <1>1, <1>2, <1>4 DEF subscribe_info
  <1> QED
    BY <1>3, <1>4

\* PUBLISH_SCOPE of a scope that exists below another father.  The items below
\* it keep the names under which they were announced.
LEMMA RepublishItems ==
    ASSUME TypeOK, GraphInv, NEW h, NEW st, NEW id \in DOMAIN scopeIndex, NEW p,
           republish_inner_scope(h, id, p, st)
    PROVE  ItemsFollow
  <1> DEFINE fullID == Append(p, Last(id))
             e == scopeIndex[id]
  <1>1. e \in Obj /\ e \in ScopeObj
    BY IndexFacts DEF GraphInv, Structure
  <1>2. CASE fullID \in DOMAIN scopeIndex
    <2>1. /\ updatePublishers(scopeIndex[fullID], fullID, h)
          /\ fatherScopes' = fatherScopes /\ ids' = ids /\ matched' = matched
      BY <1>2 DEF republish_inner_scope, graph
    <2>2. scopeIndex[fullID] \in Obj /\ scopeIndex[fullID] \in ScopeObj
      BY <1>2, IndexFacts DEF GraphInv, Structure
    <2> HIDE DEF fullID
    <2> QED
      BY <2>1, <2>2, RecordedItems
  <1>3. CASE fullID \notin DOMAIN scopeIndex
    <2> DEFINE gained(n) == recursivelyUpdateIDs(n, e, IDsUnder(scopeIndex[p], Last(id)))
    <2>1. /\ updatePublishers(e, fullID, h) /\ matched' = matched
          /\ fatherScopes' = [fatherScopes EXCEPT ![e] = @ \cup {scopeIndex[p]}]
          /\ ids' = [n \in Obj |-> ids[n] \cup gained(n)]
      BY <1>3 DEF republish_inner_scope
    <2> HIDE DEF gained, fullID, e
    <2> SUFFICES ASSUME NEW i \in ItemObj PROVE KeptItem(i)
      BY DEF ItemsFollow
    <2>2. i \in Obj /\ i # e /\ fatherScopes \in [Obj -> SUBSET ScopeObj]
      BY <1>1, LocalRVAssumption, TypeParts DEF Obj, GraphTypes
    <2>3. fatherScopes'[i] = fatherScopes[i] /\ ids[i] \subseteq ids'[i] /\ matched'[i] = matched[i]
      BY <2>1, <2>2
    <2> QED
      BY <1>1, <2>1, <2>2, <2>3, AddedElsewhere
  <1> QED
    BY <1>2, <1>3

\* PUBLISH_INFO of an item that exists below another father.
LEMMA ReadvertiseItems ==
    ASSUME TypeOK, GraphInv, NEW h, NEW st, NEW id \in DOMAIN pubIndex, NEW p,
           readvertise_info(h, id, p, st)
    PROVE  ItemsFollow
  <1> DEFINE fullID == Append(p, Last(id))
             e == pubIndex[id]
             new == (UNION {IDsUnder(f, Last(id)) : f \in fatherScopes[e] \cup {scopeIndex[p]}})
                      \ ids[e]
  <1>1. e \in Obj /\ e \in ItemObj
    BY IndexFacts DEF GraphInv, Structure
  <1>2. CASE AddPublisher(h, p, fullID, st)
    <2>1. /\ fullID \in DOMAIN pubIndex /\ updatePublishers(pubIndex[fullID], fullID, h)
          /\ fatherScopes' = fatherScopes /\ ids' = ids /\ Rematch({pubIndex[fullID]})
      BY <1>2 DEF AddPublisher, graph
    <2> HIDE DEF fullID
    <2>2. pubIndex[fullID] \in Obj /\ pubIndex[fullID] \in ItemObj
      BY <2>1, IndexFacts DEF GraphInv, Structure
    <2> QED
      BY <2>1, <2>2, RecordedItems
  <1>3. CASE ~AddPublisher(h, p, fullID, st)
    <2>1. /\ updatePublishers(e, fullID, h) /\ Rematch({e})
          /\ fatherScopes' = [fatherScopes EXCEPT ![e] = @ \cup {scopeIndex[p]}]
          /\ ids' = [ids EXCEPT ![e] = @ \cup new]
      BY <1>3 DEF readvertise_info
    <2> HIDE DEF new, fullID, e
    <2> SUFFICES ASSUME NEW i \in ItemObj PROVE KeptItem(i) \/ FreshItem(i)
      BY DEF ItemsFollow
    <2>2. /\ i \in Obj /\ fatherScopes \in [Obj -> SUBSET ScopeObj] /\ ids \in [Obj -> SUBSET ID]
          /\ e \notin fatherScopes[i]
      BY <1>1, LocalRVAssumption, TypeParts DEF Obj, GraphTypes
    <2>3. i # e => fatherScopes'[i] = fatherScopes[i] /\ ids[i] \subseteq ids'[i]
      BY <2>1, <2>2
    <2>4. (i = e => FreshItem(i)) /\ (i # e => matched'[i] = matched[i])
      BY <2>1, RematchedIsFresh
    <2> QED
      BY <1>1, <2>1, <2>2, <2>3, <2>4, AddedElsewhere
  <1> QED
    BY <1>2, <1>3

\* What a cut takes away.
LEMMA CutShrinks ==
    ASSUME TypeOK, NEW edges, NEW P, NEW S, Cut(edges, P, S)
    PROVE  /\ \A n \in Obj : fatherScopes'[n] \subseteq fatherScopes[n] /\ ids'[n] \subseteq ids[n]
           /\ \A f \in ScopeObj : /\ contents'[f] \subseteq contents[f]
                                  /\ \A n : <<n, f>> \in edges => n \notin contents'[f]
           /\ Live' \subseteq Live /\ \A o \in Live' : strategy'[o] = strategy[o]
           /\ \A n, f : <<n, f>> \in edges /\ LastBranch(n, f) => n \notin Live'
  <1> DEFINE dead == {e[1] : e \in {x \in edges : LastBranch(x[1], x[2])}}
  <1>1. /\ strategy' = EraseKeys(strategy, dead)
        /\ fatherScopes' = [n \in Obj |-> IF n \in dead THEN {}
                               ELSE {f \in fatherScopes[n] : <<n, f>> \notin edges}]
        /\ contents' = [f \in ScopeObj |-> {n \in contents[f] : <<n, f>> \notin edges}]
        /\ ids' = [n \in Obj |-> ids[n] \ CutIDs(edges, n)]
    BY DEF Cut
  <1>2. ASSUME NEW n, NEW f, <<n, f>> \in edges, LastBranch(n, f) PROVE n \in dead
    <2>1. PICK e : e = <<n, f>>
      OBVIOUS
    <2>2. e \in edges /\ e[1] = n /\ e[2] = f
      BY <1>2, <2>1
    <2> QED
      BY <1>2, <2>2
  <1> HIDE DEF dead
  <1>3. \A n \in Obj : fatherScopes'[n] \subseteq fatherScopes[n] /\ ids'[n] \subseteq ids[n]
    BY <1>1
  <1>4. Live' = Live \ dead /\ \A o \in Live' : strategy'[o] = strategy[o]
    BY <1>1 DEF EraseKeys, Live
  <1> QED
    BY <1>1, <1>2, <1>3, <1>4

\* An item that a cut does not touch.
LEMMA CutElsewhere ==
    ASSUME TypeOK, NEW edges, NEW P, NEW S, Cut(edges, P, S),
           \A n \in Obj : subs'[n] \subseteq subs[n],
           NEW i \in ItemObj, pubs'[i] = pubs[i], matched'[i] = matched[i]
    PROVE  KeptItem(i)
  <1>1. i \in Obj /\ fatherScopes[i] \subseteq Obj
    BY TypeParts DEF GraphTypes, Obj
  <1>2. fatherScopes'[i] \subseteq fatherScopes[i] /\ ids'[i] \subseteq ids[i]
    BY <1>1, CutShrinks
  <1> QED
    BY <1>1, <1>2 DEF KeptItem

\* UNPUBLISH_INFO.
LEMMA UnpublishInfoItems ==
    ASSUME TypeOK, GraphInv, NEW h, NEW st, NEW fullID \in DOMAIN pubIndex,
           unpublish_info(h, fullID, st)
    PROVE  ItemsFollow
  <1>1. PICK edges, P : Cut(edges, P, subs) /\ Rematch({pubIndex[fullID]})
    BY DEF unpublish_info
  <1>2. \A n \in Obj : subs'[n] \subseteq subs[n] /\ (n # pubIndex[fullID] => pubs'[n] = pubs[n])
    BY UnpublishInfoAgrees
  <1> SUFFICES ASSUME NEW i \in ItemObj PROVE KeptItem(i) \/ FreshItem(i)
    BY DEF ItemsFollow
  <1>3. CASE i = pubIndex[fullID]
    BY <1>1, <1>3, RematchedIsFresh
  <1>4. CASE i # pubIndex[fullID]
    <2>1. pubs'[i] = pubs[i] /\ matched'[i] = matched[i]
      BY <1>1, <1>2, <1>4, RematchedIsFresh DEF Obj
    <2> QED
      BY <1>1, <1>2, <2>1, CutElsewhere
  <1> QED
    BY <1>3, <1>4

\* UNPUBLISH_SCOPE.
LEMMA UnpublishScopeItems ==
    ASSUME TypeOK, GraphInv, NEW h, NEW st, NEW fullID \in DOMAIN scopeIndex,
           unpublish_scope(h, fullID, st)
    PROVE  ItemsFollow
  <1>1. PICK edges, P : Cut(edges, P, subs)
    BY DEF unpublish_scope
  <1>2. /\ \A n \in Obj : subs'[n] \subseteq subs[n]
        /\ \E T : Rematch(T) /\ \A n \in ItemObj : n \notin T => pubs'[n] = pubs[n]
    BY UnpublishScopeAgrees
  <1>3. PICK T : Rematch(T) /\ \A n \in ItemObj : n \notin T => pubs'[n] = pubs[n]
    BY <1>2
  <1> SUFFICES ASSUME NEW i \in ItemObj PROVE KeptItem(i) \/ FreshItem(i)
    BY DEF ItemsFollow
  <1>4. (i \in T => FreshItem(i)) /\ (i \notin T => matched'[i] = matched[i] /\ pubs'[i] = pubs[i])
    BY <1>3, RematchedIsFresh
  <1>5. i \notin T => KeptItem(i)
    BY <1>1, <1>2, <1>4, CutElsewhere
  <1> QED
    BY <1>4, <1>5

\* UNSUBSCRIBE_SCOPE.
LEMMA UnsubscribeScopeItems ==
    ASSUME TypeOK, GraphInv, NEW h, NEW st, NEW fullID \in DOMAIN scopeIndex,
           unsubscribe_scope(h, fullID, st)
    PROVE  ItemsFollow
  <1>1. PICK edges, S, R : Cut(edges, pubs, S) /\ Rematch(R)
    BY DEF unsubscribe_scope
  <1>2. \A n \in Obj : pubs'[n] = pubs[n] /\ subs'[n] \subseteq subs[n]
    BY UnsubscribeScopeAgrees
  <1> SUFFICES ASSUME NEW i \in ItemObj PROVE KeptItem(i) \/ FreshItem(i)
    BY DEF ItemsFollow
  <1>3. (i \in R => FreshItem(i)) /\ (i \notin R => matched'[i] = matched[i]) /\ i \in Obj
    BY <1>1, RematchedIsFresh DEF Obj
  <1>4. i \notin R => KeptItem(i)
    BY <1>1, <1>2, <1>3, CutElsewhere
  <1> QED
    BY <1>3, <1>4

\* UNSUBSCRIBE_INFO: rendezvous() ran before the branch was cut.  What it
\* announced has names and fathers that are gone, and misses none.
LEMMA UnsubscribeInfoItems ==
    ASSUME TypeOK, GraphInv, TypeOK', GraphInv', NEW h, NEW st, NEW fullID \in DOMAIN pubIndex,
           unsubscribe_info(h, fullID, st)
    PROVE  ItemsFollow
  <1>1. PICK o : o = pubIndex[fullID]
    OBVIOUS
  <1> DEFINE S == [subs EXCEPT ![o] = @ \ {<<fullID, h>>}]
             announced == rendezvous(strategy[o], HostsOf(pubs[o]), AllSubscribers(o, S), ids[o])
  <1>2. matched' = [matched EXCEPT ![o] = announced]
    BY <1>1 DEF unsubscribe_info
  <1>3. PICK edges : Cut(edges, pubs, S)
    BY <1>1 DEF unsubscribe_info
  <1>4. \A n \in Obj : pubs'[n] = pubs[n] /\ subs'[n] = S[n] /\ subs'[n] \subseteq subs[n]
    <2>1. \A n \in Obj : pubs'[n] = pubs[n] /\ subs'[n] = S[n]
      <3> DEFINE S0 == [subs EXCEPT ![pubIndex[fullID]] = @ \ {<<fullID, h>>}]
      <3>1. \A n \in Obj : pubs'[n] = pubs[n] /\ subs'[n] = S0[n]
        BY ZenonT(30), UnsubscribeInfoAgrees
      <3>2. S = S0
        BY <1>1
      <3> HIDE DEF S, S0
      <3> QED
        BY <3>1, <3>2
    <2>2. \A n \in Obj : S[n] \subseteq subs[n]
      BY TypeParts DEF PairTypes
    <2> QED
      BY <2>1, <2>2
  <1>5. o \in ItemObj /\ o \in Obj /\ fatherScopes[o] \subseteq Obj
    BY <1>1, IndexFacts, TypeParts DEF GraphInv, Structure, GraphTypes, Obj
  <1> HIDE DEF S
  <1> SUFFICES ASSUME NEW i \in ItemObj PROVE KeptItem(i) \/ FreshItem(i)
    BY DEF ItemsFollow
  <1>6. i \in Obj /\ matched \in [ItemObj -> Match]
    BY TypeParts DEF HistoryTypes, Obj
  <1>7. CASE i # o
    <2>1. matched'[i] = matched[i] /\ pubs'[i] = pubs[i]
      BY <1>2, <1>4, <1>6, <1>7
    <2> QED
      BY <1>3, <1>4, <2>1, CutElsewhere
  <1>8. CASE i = o
    <2>1. matched'[o] = announced
      BY <1>2, <1>5, <1>6
    <2>2. announced = rendezvous(strategy'[o], HostsOf(pubs'[o]), AllSubscribers(o, S), ids[o])
      <3>1. CASE HostsOf(pubs[o]) = {}
        BY <1>4, <1>5, <3>1 DEF rendezvous
      <3>2. CASE HostsOf(pubs[o]) # {}
        <4>1. pubs'[o] # {}
          BY <1>4, <1>5, <3>2 DEF HostsOf
        <4>2. o \in Live'
          BY <1>5, <4>1, NextRecordFacts
        <4>3. strategy'[o] = strategy[o] /\ pubs'[o] = pubs[o]
          BY <1>3, <1>4, <1>5, <4>2, CutShrinks
        <4> QED
          BY <4>3
      <3> QED
        BY <3>1, <3>2
    <2>3. fatherScopes'[o] \subseteq fatherScopes[o] /\ ids'[o] \subseteq ids[o]
      BY <1>3, <1>5, CutShrinks
    <2>4. AllSubscribers(o, subs)' \subseteq AllSubscribers(o, S)
      BY <1>4, <1>5, <2>3 DEF AllSubscribers, HostsOf
    <2> QED
      BY <1>8, <2>1, <2>2, <2>3, <2>4 DEF FreshItem
  <1> QED
    BY <1>7, <1>8

\* Every request.
LEMMA ItemsStep ==
    ASSUME TypeOK, GraphInv, TypeOK', GraphInv', [Next]_vars
    PROVE  ItemsFollow
  <1>1. CASE UNCHANGED vars
    BY <1>1 DEF vars, index, graph, ItemsFollow, KeptItem
  <1>2. ASSUME NEW h \in Host, NEW st \in Strategy, Publish(h, st) PROVE ItemsFollow
    BY <1>2, ScopeRequestItems, ItemRequestItems, RepublishItems, ReadvertiseItems DEF Publish
  <1>3. ASSUME NEW h \in Host, NEW st \in Strategy, Subscribe(h, st) PROVE ItemsFollow
    BY <1>3, ScopeRequestItems, ItemRequestItems DEF Subscribe
  <1>4. ASSUME NEW h \in Host, NEW st \in Strategy, Unpublish(h, st) PROVE ItemsFollow
    BY <1>4, UnpublishScopeItems, UnpublishInfoItems DEF Unpublish
  <1>5. ASSUME NEW h \in Host, NEW st \in Strategy, Unsubscribe(h, st) PROVE ItemsFollow
    BY <1>5, UnsubscribeScopeItems, UnsubscribeInfoItems DEF Unsubscribe
  <1> QED
    BY <1>1, <1>2, <1>3, <1>4, <1>5 DEF Next

\* The graph is sound in the behaviours of LocalSpec too, and what is
\* node-local stays the local host's.
LEMMA LocalInvariant == LocalSpec => [](TypeOK /\ GraphInv /\ LocalStaysLocal)
  <1>1. Init => LocalStaysLocal
    BY DEF Init, LocalStaysLocal, Live
  <1>2. LocalStaysLocal /\ UNCHANGED vars => LocalStaysLocal'
    BY DEF LocalStaysLocal, vars, graph, index, Live
  <1>3. TypeOK /\ GraphInv /\ [Next]_vars => GraphInv'
    BY GraphInductive
  <1> QED
    BY <1>1, <1>2, <1>3, GraphInitially, TypeCorrect, PTL DEF LocalSpec, Spec

LEMMA MatchInductive ==
    ASSUME TypeOK, GraphInv, TypeOK', GraphInv', LocalStaysLocal', MatchInv, [Next]_vars
    PROVE  MatchInv'
  <1>1. ItemsFollow
    BY ItemsStep
  <1> QED
    BY <1>1, KeptIsCurrent, FreshIsCurrent DEF MatchInv, ItemsFollow

\* The publishers of an item, on whatever nodes, always know whom they have to
\* serve and under which names: no sequence of requests leaves a subscription
\* out of the match announced last, not even one that removes some of the
\* names of an item, or some of its fathers, or that republishes a scope above
\* it without a rendezvous.
THEOREM MatchesStayCurrent == LocalSpec => []MatchIsCurrent
  <1>1. Init => MatchInv
    <2> SUFFICES ASSUME Init, NEW i \in ItemObj PROVE CurrentFor(i)
      BY DEF MatchInv
    <2>1. i \in Obj /\ pubs[i] = {} /\ matched[i].pub = {}
      BY DEF Init, NoMatch, Obj
    <2> QED
      BY <2>1 DEF CurrentFor, HostsOf
  <1>2. MatchInv => MatchIsCurrent
    BY DEF MatchInv, CurrentFor, MatchIsCurrent, MatchServesSubscribers, MatchNamesSubscriptions
  <1> QED
    BY <1>1, <1>2, LocalInvariant, MatchInductive, PTL DEF LocalSpec

-----------------------------------------------------------------------------
(* SubscopesAreTold *)

\* Host p[2] subscribes to scope f as p[1], and scope c is directly below f.
Link(f, c, p) ==
    /\ f \in ScopeObj /\ c \in ScopeObj
    /\ f \in Live /\ c \in contents[f] /\ p \in subs[f]

\* What it is to be told.
Fact(c, p) == <<Append(p[1], SuffixID(c)), p[2]>>

LEMMA LinkFacts == TypeOK /\ GraphInv =>
    \A f, c, p : Link(f, c, p) =>
      /\ f \in Obj /\ c \in Obj /\ c \in Live /\ f \in fatherScopes[c]
      /\ p \in ID \X Host /\ p[1] \in ids[f] /\ p \in subscribed
      /\ SuffixID(c) \in Frag /\ Append(p[1], SuffixID(c)) \in ids[c]
  <1> SUFFICES ASSUME TypeOK, GraphInv, NEW f, NEW c, NEW p, Link(f, c, p)
               PROVE  /\ f \in Obj /\ c \in Obj /\ c \in Live /\ f \in fatherScopes[c]
                      /\ p \in ID \X Host /\ p[1] \in ids[f] /\ p \in subscribed
                      /\ SuffixID(c) \in Frag /\ Append(p[1], SuffixID(c)) \in ids[c]
    OBVIOUS
  <1>1. f \in Obj /\ c \in Obj /\ f \in ScopeObj /\ f \in Live /\ c \in contents[f] /\ p \in subs[f]
    BY DEF Link, Obj
  <1>2. f \in fatherScopes[c] /\ c \in Live
    BY <1>1 DEF GraphInv, Structure, LinksAgree
  <1>3. p \in ID \X Host
    BY <1>1, TypeParts DEF PairTypes, Interests
  <1>4. p[1] \in ids[f] /\ p \in subscribed
    BY <1>1 DEF GraphInv, RemoteHostsAgree
  <1>5. SuffixID(c) \in Frag /\ Append(p[1], SuffixID(c)) \in ids[c]
    BY <1>2, <1>4, GraphNames DEF NamesOf
  <1> QED
    BY <1>1, <1>2, <1>3, <1>4, <1>5

LEMMA NextLinkFacts == (TypeOK /\ GraphInv =>
    \A f, c, p : Link(f, c, p) =>
      /\ f \in Obj /\ c \in Obj /\ c \in Live /\ f \in fatherScopes[c]
      /\ p \in ID \X Host /\ p[1] \in ids[f] /\ p \in subscribed
      /\ SuffixID(c) \in Frag /\ Append(p[1], SuffixID(c)) \in ids[c])'
  BY LinkFacts, PTL

\* What is told of a link is remembered as long as the subscription is there.
LEMMA FactsAreTold ==
    ASSUME TypeOK', GraphInv', NEW facts, Tell(facts) \/ told' = facts,
           \A f, c, p : Link(f, c, p)' => Fact(c, p)' \in facts
    PROVE  SubscopesAreTold'
  <1> SUFFICES ASSUME NEW f, NEW c, NEW p, Link(f, c, p)' PROVE Fact(c, p)' \in told'
    BY DEF SubscopesAreTold, Link, Fact
  <1>1. Fact(c, p)' \in facts
    OBVIOUS
  <1>2. CASE Tell(facts)
    <2>1. p \in ID \X Host /\ p \in subscribed' /\ SuffixID(c)' \in Frag
      BY NextLinkFacts
    <2>2. p[1] \in Seq(Frag) /\ p = <<p[1], p[2]>>
      BY <2>1 DEF ID
    <2>3. Front(Append(p[1], SuffixID(c)')) = p[1]
      BY <2>1, <2>2, AppendFacts
    <2>4. Fact(c, p)'[1] = Append(p[1], SuffixID(c)') /\ Fact(c, p)'[2] = p[2]
      BY DEF Fact
    <2>5. <<Front(Fact(c, p)'[1]), Fact(c, p)'[2]>> \in subscribed'
      BY <2>1, <2>2, <2>3, <2>4
    <2> QED
      BY <1>1, <1>2, <2>5 DEF Tell
  <1> QED
    BY <1>1, <1>2

\* A link that was there before.
LEMMA KeptLink ==
    ASSUME TypeOK, GraphInv, TypeOK', GraphInv', SubscopesAreTold, NEW f, NEW c, NEW p,
           Link(f, c, p), Link(f, c, p)', ids[c] \subseteq ids'[c] \/ ids'[c] \subseteq ids[c]
    PROVE  Fact(c, p)' = Fact(c, p) /\ Fact(c, p) \in told
  <1>1. c \in Live /\ c \in Live'
    BY LinkFacts, NextLinkFacts
  <1>2. SuffixID(c)' = SuffixID(c)
    BY <1>1, SuffixKept
  <1>3. Fact(c, p) \in told
    BY DEF SubscopesAreTold, Link, Fact
  <1> QED
    BY <1>2, <1>3 DEF Fact

\* A notification of the scope's names to the father's subscribers.
LEMMA Notified ==
    ASSUME TypeOK', GraphInv', LocalStaysLocal', NEW f, NEW c, NEW p, Link(f, c, p)',
           NEW I, NEW S, Append(p[1], SuffixID(c)') \in I, p[2] \in S
    PROVE  Fact(c, p)' \in notifySubscribers(I, strategy'[c], S)
  <1>1. c \in Live' /\ f \in fatherScopes'[c] /\ p \in subs'[f]
    BY NextLinkFacts DEF Link
  <1>2. strategy'[c] = NODE_LOCAL => p[2] = LocalHost
    BY <1>1 DEF LocalStaysLocal
  <1> QED
    BY <1>2 DEF notifySubscribers, Fact

\* A new object is at the end of the only links there were not before.
LEMMA NewObjectLinks ==
    ASSUME TypeOK, GraphInv, NEW o \in Obj, NEW st, NEW fathers, NEW newIDs,
           NewObject(o, st, fathers, newIDs), o \notin fathers, NEW id, NEW h,
           updatePublishers(o, id, h) \/ updateSubscribers(o, id, h),
           NEW f, NEW c, NEW p, Link(f, c, p)'
    PROVE  \/ Link(f, c, p) /\ ids[c] \subseteq ids'[c]
           \/ c = o /\ f \in fathers /\ p \in subs[f] /\ ids'[c] = newIDs /\ strategy'[c] = st
  <1>1. /\ o \notin Live /\ strategy' = SetKeys(strategy, {o}, st)
        /\ contents' = [g \in ScopeObj |-> IF g \in fathers THEN contents[g] \cup {o}
                                                           ELSE contents[g]]
        /\ ids' = [ids EXCEPT ![o] = newIDs]
    BY DEF NewObject
  <1>2. /\ f \in ScopeObj /\ c \in ScopeObj /\ f \in Live' /\ c \in contents'[f] /\ p \in subs'[f]
        /\ f \in Obj /\ c \in Obj
    BY DEF Link, Obj
  <1>3. Live' = Live \cup {o} /\ strategy'[o] = st
    BY <1>1 DEF SetKeys, Live
  <1>4. f # o
    <2>1. f = o => contents[o] = {}
      BY <1>1, <1>2, FreeObject DEF GraphInv
    <2> QED
      BY <1>1, <1>2, <2>1
  <1>5. subs'[f] = subs[f]
    BY <1>2, <1>4, TypeParts DEF updatePublishers, updateSubscribers, PairTypes
  <1>6. ids'[o] = newIDs /\ \A n \in Obj : n # o => ids'[n] = ids[n]
    BY <1>1, TypeParts DEF GraphTypes
  <1>7. c \notin contents[f] => c = o /\ f \in fathers
    BY <1>1, <1>2
  <1>8. CASE c \in contents[f]
    <2>1. c # o
      BY <1>1, <1>2, <1>8, FreeObject DEF GraphInv
    <2> QED
      BY <1>2, <1>3, <1>4, <1>5, <1>6, <1>8, <2>1 DEF Link
  <1> QED
    BY <1>2, <1>3, <1>5, <1>6, <1>7, <1>8

\* Nothing is told and no link is added.
LEMMA QuietStep ==
    ASSUME TypeOK, GraphInv, TypeOK', GraphInv', SubscopesAreTold, told' = told,
           \A f, c, p : Link(f, c, p)' =>
             Link(f, c, p) /\ (ids[c] \subseteq ids'[c] \/ ids'[c] \subseteq ids[c])
    PROVE  SubscopesAreTold'
  <1>1. \A f, c, p : Link(f, c, p)' => Fact(c, p)' \in told
    BY KeptLink
  <1> QED
    BY <1>1, FactsAreTold

\* A record in a graph that stays as it is, of a scope's publisher or an item's
\* publisher or subscriber.
LEMMA RecordedLinks ==
    ASSUME TypeOK, GraphInv, TypeOK', GraphInv', SubscopesAreTold, told' = told,
           UNCHANGED graph, \A f \in ScopeObj : subs'[f] = subs[f]
    PROVE  SubscopesAreTold'
  <1>1. \A f, c, p : Link(f, c, p)' => Link(f, c, p) /\ ids[c] \subseteq ids'[c]
    BY DEF Link, graph, Live
  <1> QED
    BY <1>1, QuietStep

LEMMA PublishedLinks ==
    ASSUME TypeOK, GraphInv, TypeOK', GraphInv', SubscopesAreTold, told' = told,
           UNCHANGED graph, NEW o, NEW id, NEW h, updatePublishers(o, id, h)
    PROVE  SubscopesAreTold'
  BY RecordedLinks DEF updatePublishers

\* A new inner scope: the father's subscribers are told its names.
LEMMA NewInnerScopeLinks ==
    ASSUME TypeOK, GraphInv, TypeOK', GraphInv', LocalStaysLocal', SubscopesAreTold,
           NEW o \in ScopeObj, NEW q \in DOMAIN scopeIndex, NEW frag, NEW st, NEW id, NEW h,
           updatePublishers(o, id, h) \/ updateSubscribers(o, id, h),
           NewInnerScope(o, q, frag, st)
    PROVE  SubscopesAreTold'
  <1>1. PICK father : father = scopeIndex[q]
    OBVIOUS
  <1> DEFINE newIDs == IDsUnder(father, frag)
             told2 == notifySubscribers(newIDs, st, HostsOf(subs[father]))
             fathers == {father}
  <1>2. NewObject(o, st, fathers, newIDs) /\ Tell(told \cup told2)
    BY <1>1 DEF NewInnerScope
  <1>3. o \in Obj /\ o \notin fathers
    <2>1. father \in Live
      BY <1>1, IndexFacts DEF GraphInv, Structure
    <2> QED
      BY <1>2, <2>1 DEF NewObject, Obj
  <1>4. \A f : f \in fathers => f = father
    OBVIOUS
  <1> HIDE DEF newIDs, told2, fathers
  <1>5. ASSUME NEW f, NEW c, NEW p, Link(f, c, p)' PROVE Fact(c, p)' \in told \cup told2
    <2>1. CASE Link(f, c, p) /\ ids[c] \subseteq ids'[c]
      BY <1>5, <2>1, KeptLink
    <2>2. CASE c = o /\ f \in fathers /\ p \in subs[f] /\ ids'[c] = newIDs /\ strategy'[c] = st
      <3>1. Append(p[1], SuffixID(c)') \in newIDs
        BY <1>5, <2>2, NextLinkFacts
      <3>2. p[2] \in HostsOf(subs[father])
        BY <1>4, <2>2 DEF HostsOf
      <3> QED
        BY <1>5, <2>2, <3>1, <3>2, Notified DEF told2
    <2> QED
      BY <1>2, <1>3, <1>5, <2>1, <2>2, NewObjectLinks
  <1> QED
    BY <1>2, <1>5, FactsAreTold

\* A new root scope or a new item: no scope has got a scope below it.
LEMMA NewObjectIsQuiet ==
    ASSUME TypeOK, GraphInv, TypeOK', GraphInv', SubscopesAreTold, told' = told,
           NEW o \in Obj, NEW st, NEW fathers, NEW newIDs, NewObject(o, st, fathers, newIDs),
           NEW id, NEW h, updatePublishers(o, id, h) \/ updateSubscribers(o, id, h),
           fathers = {} \/ (o \in ItemObj /\ o \notin fathers)
    PROVE  SubscopesAreTold'
  <1>1. ASSUME NEW f, NEW c, NEW p, Link(f, c, p)'
        PROVE  Link(f, c, p) /\ ids[c] \subseteq ids'[c]
    <2>1. c = o => o \notin ItemObj
      BY <1>1, LocalRVAssumption DEF Link
    <2>2. \/ Link(f, c, p) /\ ids[c] \subseteq ids'[c]
          \/ c = o /\ f \in fathers
      BY <1>1, NewObjectLinks
    <2> QED
      BY <2>1, <2>2
  <1> QED
    BY <1>1, QuietStep

\* A new subscriber of a scope is told of the scopes below it.
LEMMA AddedSubscriberLinks ==
    ASSUME TypeOK, GraphInv, TypeOK', GraphInv', LocalStaysLocal', SubscopesAreTold,
           NEW h, NEW fullID, NEW st, AddScopeSubscriber(h, fullID, st)
    PROVE  SubscopesAreTold'
  <1>1. PICK sc : sc = scopeIndex[fullID]
    OBVIOUS
  <1> DEFINE told2 == UNION {notifySubscribers(ids[c], strategy[c], {h}) : c \in contents[sc] \cap ScopeObj}
             q == <<fullID, h>>
  <1>2. /\ UNCHANGED graph /\ Tell(told \cup told2)
        /\ subs' = [subs EXCEPT ![sc] = @ \cup {q}]
    BY <1>1 DEF AddScopeSubscriber, updateSubscribers
  <1>3. \A f \in Obj : \A p \in subs'[f] : p \in subs[f] \/ (f = sc /\ p = q)
    BY <1>2, TypeParts DEF PairTypes
  <1>4. strategy' = strategy /\ contents' = contents /\ ids' = ids
    BY <1>2 DEF graph
  <1>5. q[2] = h
    OBVIOUS
  <1>6. \A c \in contents[sc] \cap ScopeObj : \A t \in notifySubscribers(ids[c], strategy[c], {h}) : t \in told2
    OBVIOUS
  <1> HIDE DEF told2, q
  <1>7. ASSUME NEW f, NEW c, NEW p, Link(f, c, p)' PROVE Fact(c, p)' \in told \cup told2
    <2>1. /\ f \in ScopeObj /\ c \in ScopeObj /\ f \in Live' /\ c \in contents'[f] /\ p \in subs'[f]
          /\ Live' = Live /\ f \in Obj
      BY <1>4, <1>7 DEF Link, Live, Obj
    <2>2. CASE p \in subs[f]
      <3>1. Link(f, c, p) /\ ids[c] \subseteq ids'[c]
        BY <1>4, <2>1, <2>2 DEF Link
      <3> QED
        BY <1>7, <3>1, KeptLink
    <2>3. CASE f = sc /\ p = q
      <3>1. Append(p[1], SuffixID(c)') \in ids[c]
        BY <1>4, <1>7, NextLinkFacts
      <3>2. Fact(c, p)' \in notifySubscribers(ids[c], strategy'[c], {h})
        BY <1>5, <1>7, <2>3, <3>1, Notified
      <3> QED
        BY <1>4, <1>6, <2>1, <2>3, <3>2
    <2> QED
      BY <1>3, <2>1, <2>2, <2>3
  <1> QED
    BY <1>2, <1>7, FactsAreTold

\* PUBLISH_SCOPE and SUBSCRIBE_SCOPE.
LEMMA ScopeRequestLinks ==
    ASSUME TypeOK, GraphInv, TypeOK', GraphInv', LocalStaysLocal', SubscopesAreTold,
           NEW h, NEW st, NEW frag,
           \/ publish_root_scope(h, frag, st) \/ subscribe_root_scope(h, frag, st)
           \/ \E q \in DOMAIN scopeIndex :
                publish_inner_scope(h, q, frag, st) \/ subscribe_inner_scope(h, q, frag, st)
    PROVE  SubscopesAreTold'
  <1> DEFINE root == <<frag>>
             rootIDs == {root}
  <1>1. ASSUME NEW o \in ScopeObj, NEW id, NewRootScope(o, frag, st),
               updatePublishers(o, id, h) \/ updateSubscribers(o, id, h)
        PROVE  SubscopesAreTold'
    <2>1. NewObject(o, st, {}, rootIDs) /\ told' = told /\ o \in Obj
      BY <1>1 DEF NewRootScope, Obj
    <2> HIDE DEF rootIDs
    <2> QED
      BY <1>1, <2>1, NewObjectIsQuiet
  <1> HIDE DEF root
  <1>2. CASE publish_root_scope(h, frag, st)
    BY <1>1, <1>2, PublishedLinks DEF publish_root_scope, root
  <1>3. CASE subscribe_root_scope(h, frag, st)
    BY <1>1, <1>3, AddedSubscriberLinks DEF subscribe_root_scope, root
  <1>4. ASSUME NEW q \in DOMAIN scopeIndex, publish_inner_scope(h, q, frag, st)
        PROVE  SubscopesAreTold'
    BY <1>4, NewInnerScopeLinks, PublishedLinks DEF publish_inner_scope
  <1>5. ASSUME NEW q \in DOMAIN scopeIndex, subscribe_inner_scope(h, q, frag, st)
        PROVE  SubscopesAreTold'
    BY <1>5, NewInnerScopeLinks, AddedSubscriberLinks DEF subscribe_inner_scope
  <1> QED
    BY <1>2, <1>3, <1>4, <1>5

\* PUBLISH_INFO and SUBSCRIBE_INFO.
LEMMA ItemRequestLinks ==
    ASSUME TypeOK, GraphInv, TypeOK', GraphInv', SubscopesAreTold,
           NEW h, NEW st, NEW frag, NEW q \in DOMAIN scopeIndex,
           advertise_info(h, q, frag, st) \/ subscribe_info(h, q, frag, st)
    PROVE  SubscopesAreTold'
  <1>1. ASSUME NEW o \in ItemObj, NEW id, NewItem(o, q, frag, st),
               updatePublishers(o, id, h) \/ updateSubscribers(o, id, h)
        PROVE  SubscopesAreTold'
    <2>1. PICK father : father = scopeIndex[q]
      OBVIOUS
    <2> DEFINE fathers == {father}
    <2>2. NewObject(o, st, fathers, IDsUnder(father, frag)) /\ told' = told /\ o \in Obj
      BY <1>1, <2>1 DEF NewItem, Obj
    <2>3. o \notin fathers
      BY <1>1, <2>1, IndexFacts, LocalRVAssumption DEF GraphInv, Structure
    <2> HIDE DEF fathers
    <2> QED
      BY <1>1, <2>2, <2>3, NewObjectIsQuiet
  <1>2. ASSUME AddPublisher(h, q, Append(q, frag), st) PROVE SubscopesAreTold'
    BY <1>2, PublishedLinks DEF AddPublisher
  <1>3. CASE advertise_info(h, q, frag, st)
    BY <1>1, <1>2, <1>3 DEF advertise_info
  <1>4. CASE subscribe_info(h, q, frag, st)
    <2>1. ASSUME Append(q, frag) \in DOMAIN pubIndex, UNCHANGED <<index, graph, told>>,
                 updateSubscribers(pubIndex[Append(q, frag)], Append(q, frag), h)
          PROVE  SubscopesAreTold'
      <3>1. pubIndex[Append(q, frag)] \notin ScopeObj
        BY <2>1, IndexFacts, LocalRVAssumption DEF GraphInv, Structure
      <3>2. \A f \in ScopeObj : subs'[f] = subs[f]
        BY <2>1, <3>1, TypeParts DEF updateSubscribers, PairTypes, Obj
      <3> QED
        BY <2>1, <3>2, RecordedLinks
    <2> QED
      BY <1>1, <1>4, <2>1 DEF subscribe_info
  <1> QED
    BY <1>3, <1>4

\* PUBLISH_SCOPE of a scope that exists: the new father's subscribers are told
\* every name of it but the one it was republished by, which is no news.
LEMMA RepublishLinks ==
    ASSUME TypeOK, GraphInv, TypeOK', GraphInv', LocalStaysLocal', SubscopesAreTold,
           NEW h, NEW st, NEW id \in DOMAIN scopeIndex, NEW q \in DOMAIN scopeIndex,
           republish_inner_scope(h, id, q, st)
    PROVE  SubscopesAreTold'
  <1>1. PICK father : father = scopeIndex[q]
    OBVIOUS
  <1>2. PICK e : e = scopeIndex[id]
    OBVIOUS
  <1> DEFINE fullID == Append(q, Last(id))
             gained(n) == recursivelyUpdateIDs(n, e, IDsUnder(father, Last(id)))
             told2 == notifySubscribers(ids'[e] \ {id}, strategy[e], HostsOf(subs[father]))
  <1>3. CASE fullID \in DOMAIN scopeIndex
    <2>1. /\ updatePublishers(scopeIndex[fullID], fullID, h)
          /\ UNCHANGED graph /\ told' = told
      BY <1>3 DEF republish_inner_scope
    <2> HIDE DEF fullID
    <2> QED
      BY <2>1, PublishedLinks
  <1>4. CASE fullID \notin DOMAIN scopeIndex
    <2>1. /\ updatePublishers(e, fullID, h) /\ Tell(told \cup told2)
          /\ contents' = [contents EXCEPT ![father] = @ \cup {e}]
          /\ ids' = [n \in Obj |-> ids[n] \cup gained(n)] /\ strategy' = strategy
          /\ fullID \notin DOMAIN pubIndex
      BY <1>1, <1>2, <1>4 DEF republish_inner_scope
    <2>2. subs' = subs /\ \A n \in Obj : ids[n] \subseteq ids'[n]
      BY <2>1 DEF updatePublishers
    <2>3. \A f \in ScopeObj : \A c \in contents'[f] : c \in contents[f] \/ (f = father /\ c = e)
      BY <2>1, TypeParts DEF GraphTypes
    <2>4. /\ e \in ScopeObj /\ e \in Obj /\ e \in Live /\ id \in ids[e] /\ id \in ID
          /\ father \in ScopeObj /\ father \in Obj /\ q \in ids[father]
      BY <1>1, <1>2, IndexFacts DEF GraphInv, Structure
    <2>5. Last(id) = SuffixID(e) /\ SuffixID(e) \in Frag
      BY <2>4, GraphNames DEF NamesOf
    <2>6. \A x \in ids[father] : Append(x, SuffixID(e)) # id
      BY <1>4, <2>1, <2>4, <2>5, FreshNames DEF GraphInv
    <2> HIDE DEF told2, fullID, gained
    <2>7. ASSUME NEW f, NEW c, NEW p, Link(f, c, p)' PROVE Fact(c, p)' \in told \cup told2
      <3>1. /\ f \in ScopeObj /\ c \in ScopeObj /\ f \in Live' /\ c \in contents'[f] /\ p \in subs'[f]
            /\ Live' = Live /\ f \in Obj /\ c \in Obj
        BY <2>1, <2>7 DEF Link, Live, Obj
      <3>2. CASE c \in contents[f]
        <4>1. Link(f, c, p) /\ ids[c] \subseteq ids'[c]
          BY <2>2, <3>1, <3>2 DEF Link
        <4> QED
          BY <2>7, <4>1, KeptLink
      <3>3. CASE f = father /\ c = e
        <4>1. SuffixID(c)' = SuffixID(e)
          BY <2>2, <2>4, <2>7, <3>3, SuffixKept, NextLinkFacts
        <4>2. Append(p[1], SuffixID(c)') \in ids'[e]
          BY <2>7, <3>3, NextLinkFacts
        <4>3. p[1] \in ids[father] /\ p \in subs[father]
          BY <2>2, <2>4, <3>1, <3>3, RecordFacts
        <4>4. Append(p[1], SuffixID(c)') \in ids'[e] \ {id}
          BY <2>6, <4>1, <4>2, <4>3
        <4>5. p[2] \in HostsOf(subs[father])
          BY <4>3 DEF HostsOf
        <4>6. Fact(c, p)' \in notifySubscribers(ids'[e] \ {id}, strategy'[c], HostsOf(subs[father]))
          BY <2>7, <4>4, <4>5, Notified
        <4> QED
          BY <2>1, <3>3, <4>6 DEF told2
      <3> QED
        BY <2>3, <3>1, <3>2, <3>3
    <2> QED
      BY <2>1, <2>7, FactsAreTold
  <1> QED
    BY <1>3, <1>4

\* PUBLISH_INFO of an item that exists below another father.
LEMMA ReadvertiseLinks ==
    ASSUME TypeOK, GraphInv, TypeOK', GraphInv', SubscopesAreTold,
           NEW h, NEW st, NEW id \in DOMAIN pubIndex, NEW q \in DOMAIN scopeIndex,
           readvertise_info(h, id, q, st)
    PROVE  SubscopesAreTold'
  <1>1. PICK e : e = pubIndex[id]
    OBVIOUS
  <1> DEFINE fullID == Append(q, Last(id))
             new == (UNION {IDsUnder(f, Last(id)) : f \in fatherScopes[e] \cup {scopeIndex[q]}})
                      \ ids[e]
  <1>2. CASE AddPublisher(h, q, fullID, st)
    <2>1. /\ updatePublishers(pubIndex[fullID], fullID, h) /\ UNCHANGED graph /\ told' = told
      BY <1>2 DEF AddPublisher
    <2> HIDE DEF fullID
    <2> QED
      BY <2>1, PublishedLinks
  <1>3. CASE ~AddPublisher(h, q, fullID, st)
    <2>1. /\ updatePublishers(e, fullID, h) /\ strategy' = strategy /\ told' = told
          /\ contents' = [contents EXCEPT ![scopeIndex[q]] = @ \cup {e}]
          /\ ids' = [ids EXCEPT ![e] = @ \cup new]
      BY <1>1, <1>3 DEF readvertise_info
    <2> HIDE DEF new, fullID
    <2>2. e \in ItemObj /\ e \notin ScopeObj /\ e \in Obj
      BY <1>1, IndexFacts, LocalRVAssumption DEF GraphInv, Structure
    <2>3. /\ subs' = subs /\ Live' = Live
          /\ \A n \in Obj : ids[n] \subseteq ids'[n]
          /\ \A f \in ScopeObj : \A c \in contents'[f] : c \in contents[f] \/ c = e
      BY <2>1, TypeParts DEF updatePublishers, Live, GraphTypes
    <2>4. \A f, c, p : Link(f, c, p)' => Link(f, c, p) /\ ids[c] \subseteq ids'[c]
      BY <2>2, <2>3 DEF Link, Obj
    <2> QED
      BY <2>1, <2>4, QuietStep
  <1> QED
    BY <1>2, <1>3

\* A link that a cut leaves.
LEMMA CutLinks ==
    ASSUME TypeOK, GraphInv, TypeOK', GraphInv', NEW edges, NEW P, NEW S, Cut(edges, P, S),
           \A n \in Obj : subs'[n] \subseteq subs[n], NEW f, NEW c, NEW p, Link(f, c, p)'
    PROVE  /\ Link(f, c, p) /\ ids'[c] \subseteq ids[c]
           /\ <<c, f>> \notin edges
           /\ \A g : <<c, g>> \in edges => ~LastBranch(c, g)
  <1>1. /\ f \in ScopeObj /\ c \in ScopeObj /\ f \in Live' /\ c \in contents'[f] /\ p \in subs'[f]
        /\ f \in Obj /\ c \in Obj /\ c \in Live'
    BY NextLinkFacts DEF Link, Obj
  <1>2. f \in Live /\ c \in contents[f] /\ ids'[c] \subseteq ids[c] /\ <<c, f>> \notin edges
    BY <1>1, CutShrinks
  <1>3. \A g : <<c, g>> \in edges => ~LastBranch(c, g)
    BY <1>1, CutShrinks
  <1> QED
    BY <1>1, <1>2, <1>3 DEF Link

\* What SCOPE_UNPUBLISHED takes back is about the branch that has been cut.
LEMMA UntoldElsewhere ==
    ASSUME IteratorsSurviveErase, TypeOK, GraphInv, TypeOK', GraphInv', SubscopesAreTold,
           NEW fullID \in DOMAIN scopeIndex, NEW sc, sc = scopeIndex[fullID],
           NEW father, father = FatherOf(fullID), NotifyUnpublished(sc, father, fullID),
           NEW edges, NEW P, NEW S, Cut(edges, P, S), <<sc, father>> \in edges,
           \A n \in Obj : subs'[n] \subseteq subs[n]
    PROVE  SubscopesAreTold'
  <1>1. PICK rest \in SUBSET (ids[sc] \ {fullID}) :
          /\ LastBranch(sc, father) \/ rest = {}
          /\ Tell(IF father = NULL THEN told
                  ELSE told \ notifySubscribers(rest \cup {fullID}, strategy[sc],
                                                HostsOf(subs[father])))
    BY DEF NotifyUnpublished
  <1> DEFINE names == rest \cup {fullID}
             untold == notifySubscribers(names, strategy[sc], HostsOf(subs[father]))
  <1>2. sc \in Obj /\ fullID \in ids[sc]
    BY IndexFacts DEF GraphInv, Structure
  <1>3. \A x \in names : x \in ids[sc] /\ (x = fullID \/ LastBranch(sc, father))
    BY <1>1, <1>2
  <1>4. Tell(IF father = NULL THEN told ELSE told \ untold)
    BY <1>1
  <1> HIDE DEF names
  <1>5. \A t \in untold : t[1] \in names
    BY DEF notifySubscribers
  <1> HIDE DEF untold
  <1>6. ASSUME NEW f, NEW c, NEW p, Link(f, c, p)'
        PROVE  Fact(c, p)' \in told /\ Fact(c, p)' \notin untold
    <2>1. /\ Link(f, c, p) /\ ids'[c] \subseteq ids[c]
          /\ <<c, f>> \notin edges
          /\ \A g : <<c, g>> \in edges => ~LastBranch(c, g)
      BY <1>6, CutLinks
    <2>2. Fact(c, p)' = Fact(c, p) /\ Fact(c, p) \in told
      BY <1>6, <2>1, KeptLink
    <2>3. ASSUME Fact(c, p) \in untold PROVE FALSE
      <3>1. /\ c \in Obj /\ f \in Obj /\ f \in ScopeObj /\ p[1] \in ids[f]
            /\ SuffixID(c) \in Frag /\ Append(p[1], SuffixID(c)) \in ids[c]
        BY <2>1, LinkFacts DEF Link
      <3>2. Append(p[1], SuffixID(c)) \in names
        BY <1>5, <2>3 DEF Fact
      <3>3. c = sc
        BY <1>2, <1>3, <3>1, <3>2, IndexFacts DEF GraphInv, Structure
      <3>4. ~LastBranch(sc, father)
        BY <2>1, <3>3
      <3>5. Append(p[1], SuffixID(c)) = fullID
        BY <1>3, <3>2, <3>4
      <3>6. p[1] \in Seq(Frag) /\ p[1] \in DOMAIN scopeIndex /\ scopeIndex[p[1]] = f
        BY <3>1, IndexFacts, LengthFacts DEF GraphInv, Structure
      <3>7. Front(fullID) = p[1]
        BY <3>1, <3>5, <3>6, AppendFacts
      <3>8. father = f
        BY <3>6, <3>7 DEF FatherOf
      <3> QED
        BY <2>1, <3>3, <3>8
    <2> QED
      BY <2>2, <2>3
  <1> QED
    BY <1>4, <1>6, FactsAreTold

\* UNSUBSCRIBE_INFO takes subscribers away only.
LEMMA UnsubscribedLess ==
    ASSUME TypeOK, GraphInv, NEW h, NEW st, NEW fullID \in DOMAIN pubIndex,
           unsubscribe_info(h, fullID, st)
    PROVE  \A n \in Obj : subs'[n] \subseteq subs[n]
  <1>0. \A n \in Obj :
          /\ pubs'[n] = pubs[n]
          /\ subs'[n] = [subs EXCEPT ![pubIndex[fullID]] = @ \ {<<fullID, h>>}][n]
    BY ZenonT(60), UnsubscribeInfoAgrees
  <1> DEFINE R == [subs EXCEPT ![pubIndex[fullID]] = @ \ {<<fullID, h>>}]
  <1>1. \A n \in Obj : subs'[n] = R[n]
    BY <1>0
  <1>2. \A n \in Obj : R[n] \subseteq subs[n]
    BY TypeParts DEF PairTypes
  <1> HIDE DEF R
  <1> QED
    BY <1>1, <1>2

\* UNPUBLISH_INFO and UNSUBSCRIBE_INFO.
LEMMA RemovedItemLinks ==
    ASSUME TypeOK, GraphInv, TypeOK', GraphInv', SubscopesAreTold,
           NEW h, NEW st, NEW fullID \in DOMAIN pubIndex,
           unpublish_info(h, fullID, st) \/ unsubscribe_info(h, fullID, st)
    PROVE  SubscopesAreTold'
  <1>1. PICK edges, P, S : Cut(edges, P, S) /\ told' = told
    BY DEF unpublish_info, unsubscribe_info
  <1>2. \A n \in Obj : subs'[n] \subseteq subs[n]
    BY UnpublishInfoAgrees, UnsubscribedLess
  <1>3. \A f, c, p : Link(f, c, p)' => Link(f, c, p) /\ ids'[c] \subseteq ids[c]
    BY <1>1, <1>2, CutLinks
  <1> QED
    BY <1>1, <1>3, QuietStep

\* UNPUBLISH_SCOPE.
LEMMA UnpublishScopeLinks ==
    ASSUME IteratorsSurviveErase, TypeOK, GraphInv, TypeOK', GraphInv', SubscopesAreTold,
           NEW h, NEW st, NEW fullID \in DOMAIN scopeIndex, unpublish_scope(h, fullID, st)
    PROVE  SubscopesAreTold'
  <1>1. PICK sc : sc = scopeIndex[fullID]
    OBVIOUS
  <1>2. PICK father : father = FatherOf(fullID)
    OBVIOUS
  <1>3. PICK edges, P :
          /\ Cut(edges, P, subs)
          /\ \/ <<sc, father>> \in edges /\ NotifyUnpublished(sc, father, fullID)
             \/ told' = told
    <2> DEFINE sc0 == scopeIndex[fullID]
               father0 == FatherOf(fullID)
               items == contents[sc0] \cap ItemObj
               own(i) == {<<Append(id, SuffixID(i)), h>> : id \in ids[sc0]}
               P(visited) == [o \in Obj |-> IF o \in visited THEN pubs[o] \ own(o)
                                            ELSE IF o = sc0 THEN pubs[o] \ {<<fullID, h>>}
                                            ELSE pubs[o]]
               touched(visited) == {i \in visited : P(visited)[i] # pubs[i]}
               gone(visited) == {i \in touched(visited) : ~checkForOtherPubSub(i, sc0, P(visited), subs)}
               scopeGone(visited) == /\ <<fullID, h>> \in pubs[sc0]
                                     /\ IsEmpty(sc0, gone(visited))
                                     /\ ~checkForOtherPubSub(sc0, father0, P(visited), subs)
               edges(visited) == {<<i, sc0>> : i \in gone(visited)}
                                   \cup (IF scopeGone(visited) THEN {<<sc0, father0>>} ELSE {})
    <2>1. PICK v \in SUBSET items :
            /\ Cut(edges(v), P(v), subs)
            /\ IF scopeGone(v) THEN NotifyUnpublished(sc0, father0, fullID) ELSE told' = told
      BY DEF unpublish_scope
    <2>2. scopeGone(v) => <<sc0, father0>> \in edges(v)
      OBVIOUS
    <2>3. sc0 = sc /\ father0 = father
      BY <1>1, <1>2
    <2> HIDE DEF edges, scopeGone, P, sc0, father0
    <2> QED
      BY <2>1, <2>2, <2>3
  <1>4. \A n \in Obj : subs'[n] \subseteq subs[n]
    BY UnpublishScopeAgrees
  <1>5. \A f, c, p : Link(f, c, p)' => Link(f, c, p) /\ ids'[c] \subseteq ids[c]
    BY <1>3, <1>4, CutLinks
  <1> QED
    BY <1>1, <1>2, <1>3, <1>4, <1>5, UntoldElsewhere, QuietStep

\* UNSUBSCRIBE_SCOPE.
LEMMA UnsubscribeScopeLinks ==
    ASSUME IteratorsSurviveErase, TypeOK, GraphInv, TypeOK', GraphInv', SubscopesAreTold,
           NEW h, NEW st, NEW fullID \in DOMAIN scopeIndex, unsubscribe_scope(h, fullID, st)
    PROVE  SubscopesAreTold'
  <1>1. PICK sc : sc = scopeIndex[fullID]
    OBVIOUS
  <1>2. PICK father : father = FatherOf(fullID)
    OBVIOUS
  <1>3. PICK edges, S :
          /\ Cut(edges, pubs, S)
          /\ \/ <<sc, father>> \in edges /\ NotifyUnpublished(sc, father, fullID)
             \/ Tell(told)
    BY <1>1, <1>2 DEF unsubscribe_scope
  <1>4. \A n \in Obj : subs'[n] \subseteq subs[n]
    BY UnsubscribeScopeAgrees
  <1>5. \A f, c, p : Link(f, c, p)' => Fact(c, p)' \in told
    BY ZenonT(30), <1>3, <1>4, CutLinks, KeptLink
  <1>6. Tell(told) => SubscopesAreTold'
    BY <1>5, FactsAreTold
  <1> QED
    BY <1>1, <1>2, <1>3, <1>4, <1>6, UntoldElsewhere

\* Every request.
LEMMA ToldInductive ==
    ASSUME IteratorsSurviveErase, TypeOK, GraphInv, TypeOK', GraphInv', LocalStaysLocal',
           SubscopesAreTold, [Next]_vars
    PROVE  SubscopesAreTold'
  <1>1. CASE UNCHANGED vars
    <2>1. UNCHANGED graph /\ told' = told /\ \A f \in ScopeObj : subs'[f] = subs[f]
      BY <1>1 DEF vars
    <2> QED
      BY <2>1, RecordedLinks
  <1>2. ASSUME NEW h \in Host, NEW st \in Strategy, Publish(h, st) PROVE SubscopesAreTold'
    BY <1>2, ScopeRequestLinks, ItemRequestLinks, RepublishLinks, ReadvertiseLinks DEF Publish
  <1>3. ASSUME NEW h \in Host, NEW st \in Strategy, Subscribe(h, st) PROVE SubscopesAreTold'
    BY <1>3, ScopeRequestLinks, ItemRequestLinks DEF Subscribe
  <1>4. ASSUME NEW h \in Host, NEW st \in Strategy, Unpublish(h, st) PROVE SubscopesAreTold'
    BY <1>4, UnpublishScopeLinks, RemovedItemLinks DEF Unpublish
  <1>5. ASSUME NEW h \in Host, NEW st \in Strategy, Unsubscribe(h, st) PROVE SubscopesAreTold'
    BY <1>5, UnsubscribeScopeLinks, RemovedItemLinks DEF Unsubscribe
  <1> QED
    BY <1>1, <1>2, <1>3, <1>4, <1>5 DEF Next

\* A subscriber of a scope knows every scope directly below it by the name it
\* subscribes through: nothing that is told of another name, another father or
\* a scope that goes is ever mistaken for it.  The walk that takes the other
\* names out of a SCOPE_UNPUBLISHED has to survive its own erasures.
THEOREM SubscopesStayTold ==
    ASSUME IteratorsSurviveErase
    PROVE  LocalSpec => []SubscopesAreTold
  <1>1. Init => SubscopesAreTold
    BY DEF Init, SubscopesAreTold, Live
  <1>2. TypeOK /\ GraphInv /\ TypeOK' /\ GraphInv' /\ LocalStaysLocal' /\ SubscopesAreTold /\ [Next]_vars
          => SubscopesAreTold'
    BY ToldInductive
  <1> QED
    BY <1>1, <1>2, LocalInvariant, PTL DEF LocalSpec

=============================================================================
