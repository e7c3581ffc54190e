------------------------------ MODULE LocalRV ------------------------------
(***************************************************************************)
(* The rendezvous element of a Blackadder node (src/src/localrv.cc with    *)
(* scope.cc, informationitem.cc and remotehost.cc): the information graph, *)
(* its two indexes, and the eight pub/sub requests that change it.         *)
(*                                                                         *)
(* Scopes and information items are heap objects (ScopeObj, ItemObj).  An  *)
(* object has one identifier per path that leads to it from a root scope,  *)
(* so it is reachable under several identifiers once it, or a scope above  *)
(* it, was republished.  Every request runs to completion before the next  *)
(* one is pushed, so each request is one action.  A request that the code  *)
(* rejects changes nothing and is a stuttering step.                       *)
(***************************************************************************)
EXTENDS Integers, Sequences, FiniteSets, SequencesExt

CONSTANTS Host,      \* node labels of the Blackadder nodes that issue requests
          LocalHost, \* gc->nodeID, the node this element runs on (localProxy)
          Frag,      \* identifier fragments of PURSUIT_ID_LEN bytes
          ScopeObj,  \* addresses of Scope objects
          ItemObj,   \* addresses of InformationItem objects
          Strategy,  \* dissemination strategies that reach this element
          NULL,      \* the father of a root scope
          MaxDepth,  \* bound: fragments in an identifier
          MaxInterest, \* bound: publications and subscriptions in force at once
          IteratorsSurviveErase
                     \* does a walk over a Click hash table still visit every
                     \* element when the loop body erases the current one?

NODE_LOCAL == "node_local"
DOMAIN_LOCAL == "domain_local"

ASSUME LocalRVAssumption ==
    /\ LocalHost \in Host
    /\ ScopeObj \cap ItemObj = {}
    /\ NULL \notin ScopeObj
    /\ Strategy \subseteq {NODE_LOCAL, DOMAIN_LOCAL}
    /\ MaxDepth \in Nat /\ MaxInterest \in Nat
    /\ IteratorsSurviveErase \in BOOLEAN

VARIABLES
    scopeIndex,   \* identifier -> Scope object
    pubIndex,     \* identifier -> InformationItem object
    strategy,     \* allocated object -> its dissemination strategy
    fatherScopes, \* object -> scopes it was published under
    contents,     \* scope -> its childrenScopes and informationitems
    ids,          \* object -> keys of its ids table
    pubs,         \* object -> <<id, host>>: host is in the publishers of id
    subs,         \* object -> <<id, host>>: host is in the subscribers of id
    published,    \* <<id, host>>: id is in the RemoteHost's published sets
    subscribed,   \* <<id, host>>: id is in the RemoteHost's subscribed sets
    matched,      \* history: the match last announced for an item with publishers
    told          \* history: <<id, host>>: host knows scope id, below one it subscribes to

index == <<scopeIndex, pubIndex>>
graph == <<strategy, fatherScopes, contents, ids>>
vars == <<index, graph, pubs, subs, published, subscribed, matched, told>>

Obj == ScopeObj \cup ItemObj
ID == Seq(Frag) \ {<<>>}
Live == DOMAIN strategy

(***************************************************************************)
(* What rendezvous() announces: the publishers, the subscribers they are   *)
(* to serve, and the identifiers of the item.  NoMatch: no publishers.     *)
(***************************************************************************)
NoMatch == [pub |-> {}, sub |-> {}, ids |-> {}]

TypeOK ==
    /\ DOMAIN scopeIndex \subseteq ID
    /\ \A id \in DOMAIN scopeIndex : scopeIndex[id] \in ScopeObj
    /\ DOMAIN pubIndex \subseteq ID
    /\ \A id \in DOMAIN pubIndex : pubIndex[id] \in ItemObj
    /\ Live \subseteq Obj
    /\ \A o \in Live : strategy[o] \in Strategy
    /\ fatherScopes \in [Obj -> SUBSET ScopeObj]
    /\ contents \in [ScopeObj -> SUBSET Obj]
    /\ ids \in [Obj -> SUBSET ID]
    /\ pubs \in [Obj -> SUBSET (ID \X Host)]
    /\ subs \in [Obj -> SUBSET (ID \X Host)]
    /\ published \subseteq ID \X Host
    /\ subscribed \subseteq ID \X Host
    /\ matched \in [ItemObj -> [pub : SUBSET Host, sub : SUBSET Host,
                                ids : SUBSET ID]]
    /\ told \subseteq ID \X Host

Init ==
    /\ scopeIndex = <<>>
    /\ pubIndex = <<>>
    /\ strategy = <<>>
    /\ fatherScopes = [o \in Obj |-> {}]
    /\ contents = [o \in ScopeObj |-> {}]
    /\ ids = [o \in Obj |-> {}]
    /\ pubs = [o \in Obj |-> {}]
    /\ subs = [o \in Obj |-> {}]
    /\ published = {}
    /\ subscribed = {}
    /\ matched = [i \in ItemObj |-> NoMatch]
    /\ told = {}

-----------------------------------------------------------------------------
(* Helpers: hash tables, identifiers, the sets the methods collect. *)

\* HashTable::set for every key in S, HashTable::erase for every key in S.
SetKeys(table, S, v) == [k \in DOMAIN table \cup S |-> IF k \in S THEN v ELSE table[k]]
EraseKeys(table, S) == [k \in DOMAIN table \ S |-> table[k]]

\* The last fragment of an object's identifiers, read off (*ids.begin()).first.
SuffixID(o) == Last(CHOOSE id \in ids[o] : TRUE)

\* The identifiers an object with this suffix has through scope f.
IDsUnder(f, suffix) == {Append(id, suffix) : id \in ids[f]}

\* getPublishers() and getSubscribers(): over all identifiers of the object.
HostsOf(pairs) == {p[2] : p \in pairs}

\* The subscribers rendezvous() is called with: the item's and all its fathers'.
AllSubscribers(i, S) ==
    HostsOf(S[i]) \cup UNION {HostsOf(S[f]) : f \in fatherScopes[i]}

\* Mutant: the subscribers of the branch are not looked at.
checkForOtherPub(o, f, P, S) ==
    \E p \in P[o] : f # NULL => p[1] \in IDsUnder(f, SuffixID(o))

\* checkForOtherPubSub(): is there a publisher or subscriber on this branch?
checkForOtherPubSub(o, f, P, S) ==
    \E p \in P[o] \cup S[o] : f # NULL => p[1] \in IDsUnder(f, SuffixID(o))

\* Mutant: one identifier is announced.
AnnounceFirstID(st, P, S, I) ==
    [pub |-> P, sub |-> S, ids |-> {CHOOSE id \in I : TRUE}]

(***************************************************************************)
(* rendezvous() without its early return.  A node-local item is announced  *)
(* to the local publisher only, with START_PUBLISH over the internal link  *)
(* when somebody subscribes and STOP_PUBLISH otherwise; a domain-local one *)
(* is a MATCH_PUB_SUBS request to the topology manager.                    *)
(***************************************************************************)
Announce(st, P, S, I) ==
    IF st = NODE_LOCAL
    THEN [pub |-> {LocalHost}, sub |-> IF S = {} THEN {} ELSE {LocalHost}, ids |-> I]
    ELSE [pub |-> P, sub |-> S, ids |-> I]

rendezvous(st, P, S, I) == IF P = {} THEN NoMatch ELSE Announce(st, P, S, I)

\* The match that rendezvous() announces for item i in the current state, and
\* its effect on the history when it runs, in the new state, for every i in R.
CurrentMatch(i) ==
    rendezvous(strategy[i], HostsOf(pubs[i]), AllSubscribers(i, subs), ids[i])

\* Mutant: rendezvous() runs before the request has taken effect.
RematchBefore(R) ==
    matched' = [i \in ItemObj |-> IF i \in R THEN CurrentMatch(i) ELSE matched[i]]

Rematch(R) ==
    matched' = [i \in ItemObj |-> IF i \in R THEN CurrentMatch(i)' ELSE matched[i]]

\* Mutant: the notification carries one of the identifiers only.
notifyOneID(IDs, st, S) == {CHOOSE id \in IDs : TRUE} \X S

\* notifySubscribers(): the <<id, host>> facts that a notification carries.
notifySubscribers(IDs, st, S) ==
    IDs \X (IF st = NODE_LOCAL THEN S \cap {LocalHost} ELSE S)

\* Its effect on the history.  A subscriber forgets what it was told about the
\* scopes below one it no longer subscribes to.
Tell(facts) == told' = {t \in facts : <<Front(t[1]), t[2]>> \in subscribed'}

\* Node-local requests go to the rendezvous element of their own node.
MayIssue(h, st) == st = NODE_LOCAL => h = LocalHost

-----------------------------------------------------------------------------
(* Publishing and subscribing under a name that does not exist yet. *)

(***************************************************************************)
(* new Scope / new InformationItem, with the father's links and the        *)
(* identifiers that recursivelyUpdateIDs / updateIDs give it.              *)
(***************************************************************************)
NewObject(o, st, fathers, newIDs) ==
    /\ o \notin Live
    /\ strategy' = SetKeys(strategy, {o}, st)
    /\ fatherScopes' = [fatherScopes EXCEPT ![o] = fathers]
    /\ contents' = [f \in ScopeObj |-> IF f \in fathers THEN contents[f] \cup {o}
                                                        ELSE contents[f]]
    /\ ids' = [ids EXCEPT ![o] = newIDs]
    /\ scopeIndex' = IF o \in ScopeObj THEN SetKeys(scopeIndex, newIDs, o) ELSE scopeIndex
    /\ pubIndex' = IF o \in ItemObj THEN SetKeys(pubIndex, newIDs, o) ELSE pubIndex

\* updatePublishers() / updateSubscribers(), and the RemoteHost's own record.
WithinInterest == Cardinality(published) + Cardinality(subscribed) < MaxInterest

updatePublishers(o, id, h) ==
    /\ WithinInterest
    /\ <<id, h>> \notin pubs[o]
    /\ pubs' = [pubs EXCEPT ![o] = @ \cup {<<id, h>>}]
    /\ published' = published \cup {<<id, h>>}
    /\ UNCHANGED <<subs, subscribed>>

updateSubscribers(o, id, h) ==
    /\ WithinInterest
    /\ <<id, h>> \notin subs[o]
    /\ subs' = [subs EXCEPT ![o] = @ \cup {<<id, h>>}]
    /\ subscribed' = subscribed \cup {<<id, h>>}
    /\ UNCHANGED <<pubs, published>>

\* Mutant: the NULL father is inserted into fatherScopes.
NewRootUnderNull(o, frag, st) ==
    /\ <<frag>> \notin DOMAIN scopeIndex
    /\ NewObject(o, st, {NULL}, {<<frag>>})
    /\ UNCHANGED <<matched, told>>

\* A root scope is created without telling anybody.
NewRootScope(o, frag, st) ==
    /\ <<frag>> \notin DOMAIN scopeIndex
    /\ NewObject(o, st, {}, {<<frag>>})
    /\ UNCHANGED <<matched, told>>

\* Mutant: an item with the same identifier goes unnoticed.
NewInnerScopeOverItem(o, prefixID, frag, st) ==
    LET newIDs == IDsUnder(scopeIndex[prefixID], frag)
    IN  /\ Append(prefixID, frag) \notin DOMAIN scopeIndex
        /\ \A id \in newIDs : Len(id) <= MaxDepth
        /\ NewObject(o, st, {scopeIndex[prefixID]}, newIDs)
        /\ UNCHANGED <<matched, told>>

\* Mutant: a scope with the same identifier goes unnoticed.
NewInnerScopeTwice(o, prefixID, frag, st) ==
    LET newIDs == IDsUnder(scopeIndex[prefixID], frag)
    IN  /\ Append(prefixID, frag) \notin DOMAIN pubIndex
        /\ \A id \in newIDs : Len(id) <= MaxDepth
        /\ NewObject(o, st, {scopeIndex[prefixID]}, newIDs)
        /\ UNCHANGED <<matched, told>>

\* An inner scope is created by a publisher or a subscriber; in both cases the
\* subscribers of the father scope are told its identifiers.
NewInnerScope(o, prefixID, frag, st) ==
    LET father == scopeIndex[prefixID]
        newIDs == IDsUnder(father, frag)
    IN  /\ Append(prefixID, frag) \notin DOMAIN pubIndex
        /\ Append(prefixID, frag) \notin DOMAIN scopeIndex
        /\ strategy[father] = st
        /\ \A id \in newIDs : Len(id) <= MaxDepth
        /\ NewObject(o, st, {father}, newIDs)
        /\ Tell(told \cup notifySubscribers(newIDs, st, HostsOf(subs[father])))
        /\ UNCHANGED matched

\* A new item is announced to the subscribers by the rendezvous, not here.
NewItem(o, prefixID, frag, st) ==
    LET father == scopeIndex[prefixID]
        newIDs == IDsUnder(father, frag)
    IN  /\ Append(prefixID, frag) \notin DOMAIN pubIndex
        /\ Append(prefixID, frag) \notin DOMAIN scopeIndex
        /\ strategy[father] = st
        /\ \A id \in newIDs : Len(id) <= MaxDepth
        /\ NewObject(o, st, {father}, newIDs)
        /\ UNCHANGED told

-----------------------------------------------------------------------------
(* PUBLISH_SCOPE *)

publish_root_scope(h, frag, st) ==
    LET id == <<frag>>
    IN  \/ \E o \in ScopeObj : updatePublishers(o, id, h) /\ NewRootScope(o, frag, st)
        \/ /\ id \in DOMAIN scopeIndex
           /\ strategy[scopeIndex[id]] = st
           /\ updatePublishers(scopeIndex[id], id, h)
           /\ UNCHANGED <<index, graph, matched, told>>

publish_inner_scope(h, prefixID, frag, st) ==
    LET fullID == Append(prefixID, frag)
    IN  \/ \E o \in ScopeObj :
              updatePublishers(o, fullID, h) /\ NewInnerScope(o, prefixID, frag, st)
        \/ /\ fullID \notin DOMAIN pubIndex
           /\ fullID \in DOMAIN scopeIndex
           /\ strategy[scopeIndex[fullID]] = st
           /\ updatePublishers(scopeIndex[fullID], fullID, h)
           /\ UNCHANGED <<index, graph, matched, told>>

\* Mutant: the scope's children do not get the new identifiers.
updateIDsOnly(n, e, base) == IF n = e THEN base ELSE {}

(***************************************************************************)
(* recursivelyUpdateIDs(): what object n gains when scope e gets the       *)
(* identifiers in base.  Each path that leads from e to n is followed from *)
(* the new identifiers of e as well.                                       *)
(***************************************************************************)
recursivelyUpdateIDs(n, e, base) ==
    {x[1] \o SubSeq(x[3], Len(x[2]) + 1, Len(x[3])) :
        x \in {y \in base \X ids[e] \X ids[n] : IsPrefix(y[2], y[3])}}

\* Republishing a scope below itself would recurse for ever; no request does.
NotBelow(f, e) == \A x \in ids[f], y \in ids[e] : ~IsPrefix(y, x)

republish_inner_scope(h, id, prefixID, st) ==
    LET fullID == Append(prefixID, Last(id))
        father == scopeIndex[prefixID]
        existing == scopeIndex[id]
        gained(n) == recursivelyUpdateIDs(n, existing, IDsUnder(father, Last(id)))
    IN  /\ Len(id) > 1
        /\ fullID \notin DOMAIN pubIndex
        /\ \/ /\ fullID \notin DOMAIN scopeIndex
              /\ strategy[father] = st
              /\ updatePublishers(existing, fullID, h)
              /\ NotBelow(father, existing)
              /\ \A n \in Obj : \A x \in gained(n) : Len(x) <= MaxDepth
              /\ fatherScopes' = [fatherScopes EXCEPT ![existing] = @ \cup {father}]
              /\ contents' = [contents EXCEPT ![father] = @ \cup {existing}]
              /\ ids' = [n \in Obj |-> ids[n] \cup gained(n)]
              /\ scopeIndex' = [x \in DOMAIN scopeIndex \cup UNION {gained(n) : n \in ScopeObj} |->
                                  IF \E n \in ScopeObj : x \in gained(n)
                                  THEN CHOOSE n \in ScopeObj : x \in gained(n)
                                  ELSE scopeIndex[x]]
              /\ pubIndex' = [x \in DOMAIN pubIndex \cup UNION {gained(n) : n \in ItemObj} |->
                                  IF \E n \in ItemObj : x \in gained(n)
                                  THEN CHOOSE n \in ItemObj : x \in gained(n)
                                  ELSE pubIndex[x]]
              /\ Tell(told \cup notifySubscribers(ids'[existing] \ {id}, strategy[existing],
                                                  HostsOf(subs[father])))
              /\ UNCHANGED <<strategy, matched>>
           \/ /\ fullID \in DOMAIN scopeIndex
              /\ strategy[scopeIndex[fullID]] = st
              /\ updatePublishers(scopeIndex[fullID], fullID, h)
              /\ UNCHANGED <<index, graph, matched, told>>

-----------------------------------------------------------------------------
(* PUBLISH_INFO *)

\* A publisher is added to an item that already has this identifier.
AddPublisher(h, prefixID, fullID, st) ==
    /\ fullID \in DOMAIN pubIndex
    /\ strategy[scopeIndex[prefixID]] = st
    /\ updatePublishers(pubIndex[fullID], fullID, h)
    /\ UNCHANGED <<index, graph, told>>
    /\ Rematch({pubIndex[fullID]})

advertise_info(h, prefixID, frag, st) ==
    \/ \E o \in ItemObj : /\ updatePublishers(o, Append(prefixID, frag), h)
                          /\ NewItem(o, prefixID, frag, st)
                          /\ Rematch({o})
    \/ AddPublisher(h, prefixID, Append(prefixID, frag), st)

readvertise_info(h, id, prefixID, st) ==
    LET fullID == Append(prefixID, Last(id))
        father == scopeIndex[prefixID]
        existing == pubIndex[id]
        newIDs == (UNION {IDsUnder(f, Last(id)) : f \in fatherScopes[existing] \cup {father}})
                    \ ids[existing]
    IN  /\ fullID \notin DOMAIN scopeIndex
        /\ \/ /\ fullID \notin DOMAIN pubIndex
              /\ strategy[father] = st
              /\ \A x \in newIDs : Len(x) <= MaxDepth
              /\ fatherScopes' = [fatherScopes EXCEPT ![existing] = @ \cup {father}]
              /\ contents' = [contents EXCEPT ![father] = @ \cup {existing}]
              /\ ids' = [ids EXCEPT ![existing] = @ \cup newIDs]
              /\ pubIndex' = SetKeys(pubIndex, newIDs, existing)
              /\ updatePublishers(existing, fullID, h)
              /\ UNCHANGED <<scopeIndex, strategy, told>>
              /\ Rematch({existing})
           \/ AddPublisher(h, prefixID, fullID, st)

-----------------------------------------------------------------------------
(* SUBSCRIBE_SCOPE and SUBSCRIBE_INFO *)

\* A subscriber is added to an existing scope: it is told about the subscopes,
\* and every item directly below the scope is matched again.
AddScopeSubscriber(h, fullID, st) ==
    LET sc == scopeIndex[fullID]
    IN  /\ fullID \in DOMAIN scopeIndex
        /\ strategy[sc] = st
        /\ updateSubscribers(sc, fullID, h)
        /\ UNCHANGED <<index, graph>>
        /\ Tell(told \cup UNION {notifySubscribers(ids[c], strategy[c], {h}) :
                                    c \in contents[sc] \cap ScopeObj})
        /\ Rematch(contents[sc] \cap ItemObj)

subscribe_root_scope(h, frag, st) ==
    \/ \E o \in ScopeObj : updateSubscribers(o, <<frag>>, h) /\ NewRootScope(o, frag, st)
    \/ AddScopeSubscriber(h, <<frag>>, st)

subscribe_inner_scope(h, prefixID, frag, st) ==
    LET fullID == Append(prefixID, frag)
    IN  \/ \E o \in ScopeObj :
              updateSubscribers(o, fullID, h) /\ NewInnerScope(o, prefixID, frag, st)
        \/ fullID \notin DOMAIN pubIndex /\ AddScopeSubscriber(h, fullID, st)

subscribe_info(h, prefixID, frag, st) ==
    LET fullID == Append(prefixID, frag)
    IN  \/ \E o \in ItemObj : /\ updateSubscribers(o, fullID, h)
                              /\ NewItem(o, prefixID, frag, st)
                              /\ UNCHANGED matched
        \/ /\ fullID \in DOMAIN pubIndex
           /\ strategy[scopeIndex[prefixID]] = st
           /\ updateSubscribers(pubIndex[fullID], fullID, h)
           /\ UNCHANGED <<index, graph, told>>
           /\ Rematch({pubIndex[fullID]})

-----------------------------------------------------------------------------
(***************************************************************************)
(* Removing branches.  An edge <<n, f>> cuts object n from its father f.   *)
(* With one father (or at a root, where f is NULL) the object is deleted   *)
(* with all its identifiers; otherwise only the identifiers that lead      *)
(* through f go, and their publisher/subscriber pairs with them.           *)
(***************************************************************************)
AlwaysLastBranch(n, f) == TRUE  \* mutant: the object is deleted with a branch
LastBranch(n, f) == f = NULL \/ fatherScopes[n] = {f}

BranchIDs(n, f) == IF LastBranch(n, f) THEN ids[n] ELSE IDsUnder(f, SuffixID(n))

CutIDs(edges, n) == UNION {BranchIDs(n, e[2]) : e \in {x \in edges : x[1] = n}}

Cut(edges, P, S) ==
    LET dead == {e[1] : e \in {x \in edges : LastBranch(x[1], x[2])}}
    IN  /\ strategy' = EraseKeys(strategy, dead)
        /\ fatherScopes' = [n \in Obj |-> IF n \in dead THEN {}
                               ELSE {f \in fatherScopes[n] : <<n, f>> \notin edges}]
        /\ contents' = [f \in ScopeObj |-> {n \in contents[f] : <<n, f>> \notin edges}]
        /\ ids' = [n \in Obj |-> ids[n] \ CutIDs(edges, n)]
        /\ scopeIndex' = EraseKeys(scopeIndex, UNION {CutIDs(edges, n) : n \in ScopeObj})
        /\ pubIndex' = EraseKeys(pubIndex, UNION {CutIDs(edges, n) : n \in ItemObj})
        /\ pubs' = [n \in Obj |-> {p \in P[n] : p[1] \notin CutIDs(edges, n)}]
        /\ subs' = [n \in Obj |-> {p \in S[n] : p[1] \notin CutIDs(edges, n)}]

\* A scope may only go when nothing is left below it (gone: what just went).
HasNoSubscopes(sc, gone) == contents[sc] \cap ScopeObj = {}  \* mutant
IsEmpty(sc, gone) == contents[sc] \subseteq gone

\* The father scope of an identifier, NULL for a root scope.
FatherOf(fullID) ==
    IF Front(fullID) \in DOMAIN scopeIndex THEN scopeIndex[Front(fullID)] ELSE NULL

(***************************************************************************)
(* SCOPE_UNPUBLISHED is sent to the father's subscribers when an edge of   *)
(* scope sc is cut: with all identifiers when the scope is deleted, with   *)
(* fullID alone when other fathers remain.  The loop that removes the      *)
(* others from the set erases under its own iterator.                      *)
(***************************************************************************)
NotifyUnpublished(sc, father, fullID) ==
    \E rest \in SUBSET (ids[sc] \ {fullID}) :
        /\ IF LastBranch(sc, father) THEN rest = ids[sc] \ {fullID}
           ELSE rest = {} \/ (~IteratorsSurviveErase /\ rest # ids[sc] \ {fullID})
        /\ Tell(IF father = NULL THEN told
                ELSE told \ notifySubscribers(rest \cup {fullID}, strategy[sc],
                                              HostsOf(subs[father])))

-----------------------------------------------------------------------------
(* UNPUBLISH_INFO and UNPUBLISH_SCOPE *)

unpublish_info(h, fullID, st) ==
    LET i == pubIndex[fullID]
        father == scopeIndex[Front(fullID)]
        P == [pubs EXCEPT ![i] = @ \ {<<fullID, h>>}]
    IN  /\ strategy[father] = st
        /\ <<fullID, h>> \in pubs[i]
        /\ published' = published \ {<<fullID, h>>}
        /\ Cut(IF checkForOtherPubSub(i, father, P, subs) THEN {} ELSE {<<i, father>>}, P, subs)
        /\ UNCHANGED <<subscribed, told>>
        /\ Rematch({i})

(***************************************************************************)
(* unpublish_scope first unpublishes, for this publisher, the items below  *)
(* the scope under all identifiers of the scope, then the scope.           *)
(* unpublish_info erases an item that goes away from the very set the loop *)
(* walks over; a walk that does not survive this leaves items unvisited.   *)
(***************************************************************************)
unpublish_scope(h, fullID, st) ==
    LET sc == scopeIndex[fullID]
        father == FatherOf(fullID)
        items == contents[sc] \cap ItemObj
        own(i) == {<<Append(id, SuffixID(i)), h>> : id \in ids[sc]}
    IN  /\ strategy[sc] = st
        /\ \E visited \in SUBSET items :
             LET P == [o \in Obj |-> IF o \in visited THEN pubs[o] \ own(o)
                                    ELSE IF o = sc THEN pubs[o] \ {<<fullID, h>>}
                                    ELSE pubs[o]]
                 touched == {i \in visited : P[i] # pubs[i]}
                 gone == {i \in touched : ~checkForOtherPubSub(i, sc, P, subs)}
                 scopeGone == /\ <<fullID, h>> \in pubs[sc]
                              /\ IsEmpty(sc, gone)
                              /\ ~checkForOtherPubSub(sc, father, P, subs)
             IN  /\ P # pubs
                 /\ visited = items \/ (~IteratorsSurviveErase /\ gone # {})
                 /\ published' = published \ UNION {pubs[o] \ P[o] : o \in Obj}
                 /\ Cut({<<i, sc>> : i \in gone}
                           \cup (IF scopeGone THEN {<<sc, father>>} ELSE {}), P, subs)
                 /\ UNCHANGED subscribed
                 /\ IF scopeGone THEN NotifyUnpublished(sc, father, fullID)
                                 ELSE UNCHANGED told
                 /\ Rematch(touched)

-----------------------------------------------------------------------------
(* UNSUBSCRIBE_SCOPE and UNSUBSCRIBE_INFO *)

unsubscribe_scope(h, fullID, st) ==
    LET sc == scopeIndex[fullID]
        father == FatherOf(fullID)
        S == [subs EXCEPT ![sc] = @ \ {<<fullID, h>>}]
        scopeGone == IsEmpty(sc, {}) /\ ~checkForOtherPubSub(sc, father, pubs, S)
    IN  /\ strategy[sc] = st
        /\ <<fullID, h>> \in subs[sc]
        /\ subscribed' = subscribed \ {<<fullID, h>>}
        /\ Cut(IF scopeGone THEN {<<sc, father>>} ELSE {}, pubs, S)
        /\ IF scopeGone THEN NotifyUnpublished(sc, father, fullID) ELSE Tell(told)
        /\ UNCHANGED published
        /\ Rematch(contents[sc] \cap ItemObj)

\* Here rendezvous() runs before the branch is cut.
unsubscribe_info(h, fullID, st) ==
    LET i == pubIndex[fullID]
        father == scopeIndex[Front(fullID)]
        S == [subs EXCEPT ![i] = @ \ {<<fullID, h>>}]
    IN  /\ strategy[father] = st
        /\ <<fullID, h>> \in subs[i]
        /\ subscribed' = subscribed \ {<<fullID, h>>}
        /\ matched' = [matched EXCEPT ![i] = rendezvous(strategy[i], HostsOf(pubs[i]),
                                                        AllSubscribers(i, S), ids[i])]
        /\ Cut(IF checkForOtherPubSub(i, father, pubs, S) THEN {} ELSE {<<i, father>>}, pubs, S)
        /\ UNCHANGED <<published, told>>

-----------------------------------------------------------------------------
(***************************************************************************)
(* push(): the library only lets single fragments through as the ID of a   *)
(* request, except for PUBLISH_SCOPE and PUBLISH_INFO, where an identifier *)
(* of several fragments asks for a republication.                          *)
(***************************************************************************)
Publish(h, st) ==
    \/ \E frag \in Frag : publish_root_scope(h, frag, st)
    \/ \E prefixID \in DOMAIN scopeIndex, frag \in Frag :
          \/ publish_inner_scope(h, prefixID, frag, st)
          \/ advertise_info(h, prefixID, frag, st)
    \/ \E id, prefixID \in DOMAIN scopeIndex : republish_inner_scope(h, id, prefixID, st)
    \/ \E id \in DOMAIN pubIndex, prefixID \in DOMAIN scopeIndex :
          readvertise_info(h, id, prefixID, st)

Subscribe(h, st) ==
    \/ \E frag \in Frag : subscribe_root_scope(h, frag, st)
    \/ \E prefixID \in DOMAIN scopeIndex, frag \in Frag :
          \/ subscribe_inner_scope(h, prefixID, frag, st)
          \/ subscribe_info(h, prefixID, frag, st)

Unpublish(h, st) ==
    \/ \E fullID \in DOMAIN scopeIndex : unpublish_scope(h, fullID, st)
    \/ \E fullID \in DOMAIN pubIndex : unpublish_info(h, fullID, st)

Unsubscribe(h, st) ==
    \/ \E fullID \in DOMAIN scopeIndex : unsubscribe_scope(h, fullID, st)
    \/ \E fullID \in DOMAIN pubIndex : unsubscribe_info(h, fullID, st)

Next ==
    \E h \in Host, st \in Strategy :
        /\ MayIssue(h, st)
        /\ Publish(h, st) \/ Subscribe(h, st) \/ Unpublish(h, st) \/ Unsubscribe(h, st)

Spec == Init /\ [][Next]_vars

(***************************************************************************)
(* Node-local requests are the local host's, but republish_inner_scope and *)
(* readvertise_info compare the strategy of the new father only: they can  *)
(* put a node-local object below a scope of other hosts, or have another   *)
(* host publish it.  What these are to be told is nowhere said.  LocalSpec *)
(* leaves such republications out.                                         *)
(***************************************************************************)
LocalStaysLocal ==
    \A o \in Live : strategy[o] = NODE_LOCAL =>
        \A p \in pubs[o] \cup subs[o] \cup UNION {subs[f] : f \in fatherScopes[o]} :
            p[2] = LocalHost
LocalSpec == Init /\ [][Next /\ LocalStaysLocal']_vars

-----------------------------------------------------------------------------
(***************************************************************************)
(* Correctness of the information graph.                                   *)
(***************************************************************************)

\* Both indexes hold exactly the identifiers of the allocated objects: a
\* lookup finds the object that has the identifier, never a deleted one, and
\* an object cannot be reached once the last of its identifiers is erased.
IndexesAgree ==
    /\ \A o \in ScopeObj : \A id \in DOMAIN scopeIndex \cup ids[o] :
         id \in ids[o] <=> id \in DOMAIN scopeIndex /\ scopeIndex[id] = o
    /\ \A o \in ItemObj : \A id \in DOMAIN pubIndex \cup ids[o] :
         id \in ids[o] <=> id \in DOMAIN pubIndex /\ pubIndex[id] = o
    /\ \A o \in Obj : o \in Live <=> ids[o] # {}

\* Fathers and children point at each other, and only at allocated objects:
\* no step leaves a pointer to a deleted scope or item behind.
LinksAgree ==
    /\ \A o \in Obj, f \in ScopeObj :
         /\ f \in fatherScopes[o] <=> o \in contents[f]
         /\ f \in fatherScopes[o] => f \in Live /\ o \in Live
    /\ \A i \in ItemObj \cap Live : fatherScopes[i] # {}

\* The identifiers of an object are exactly its paths: every identifier of
\* every father extended by the object's own fragment.  The code relies on
\* it whenever it looks up ids.get(father id + suffix) without a NULL test,
\* and when it deletes "all IDs" of an object that has one father left.
IDsArePaths ==
    \A o \in Live : \E s \in Frag :
        ids[o] = IF fatherScopes[o] = {} THEN {<<s>>}
                 ELSE UNION {IDsUnder(f, s) : f \in fatherScopes[o]}

\* No identifier names both a scope and an information item, although a
\* republication adds identifiers the requests' checks never looked at.
NamesAreUnique == DOMAIN scopeIndex \cap DOMAIN pubIndex = {}

\* The scope that the prefix of an identifier names exists for as long as the
\* identifier does: unpublish_info and unsubscribe_info dereference it.
PrefixesExist ==
    /\ \A id \in DOMAIN scopeIndex : Len(id) > 1 => Front(id) \in DOMAIN scopeIndex
    /\ \A id \in DOMAIN pubIndex : Front(id) \in DOMAIN scopeIndex

\* What a RemoteHost object records of its publications and subscriptions is
\* what the graph holds of them, also after a branch was deleted as a whole.
RemoteHostsAgree ==
    /\ published = UNION {pubs[o] : o \in Live}
    /\ subscribed = UNION {subs[o] : o \in Live}
    /\ \A o \in Obj : \A p \in pubs[o] \cup subs[o] : p[1] \in ids[o]

\* Together: no sequence of requests of several hosts makes the indexes, the
\* pointers and the identifiers of the information graph, or the records of
\* the hosts, disagree, nor does one of them refer to what is no object.
GraphAgrees ==
    /\ TypeOK /\ IndexesAgree /\ LinksAgree /\ IDsArePaths
    /\ NamesAreUnique /\ PrefixesExist /\ RemoteHostsAgree

\* A request changes the publications and subscriptions of one host only, and
\* whatever another host published or subscribed to still resolves afterwards.
OthersKeepTheirs ==
    [][\E h \in Host : \A o \in Obj :
         /\ \A p \in pubs[o] \cup pubs'[o] : p[2] # h => p \in pubs[o] /\ p \in pubs'[o]
         /\ \A p \in subs[o] \cup subs'[o] : p[2] # h => p \in subs[o] /\ p \in subs'[o]]_vars

-----------------------------------------------------------------------------
(***************************************************************************)
(* Correctness of what publishers and subscribers are told.                *)
(***************************************************************************)

\* The last match announced for an item names its current publishers and
\* leaves out none of its current subscribers, those of its scopes included:
\* no request changes either set without a rendezvous afterwards.
MatchServesSubscribers ==
    \A i \in Live \cap ItemObj :
        /\ matched[i].pub = HostsOf(pubs[i])
        /\ pubs[i] # {} => AllSubscribers(i, subs) \subseteq matched[i].sub

\* A publisher knows the item by every identifier under which somebody is
\* subscribed, although republishing a scope adds identifiers to all items
\* below it without a rendezvous.
MatchNamesSubscriptions ==
    \A i \in Live \cap ItemObj : pubs[i] # {} =>
        /\ \A p \in subs[i] : p[1] \in matched[i].ids
        /\ \A f \in fatherScopes[i] : \A p \in subs[f] :
             Append(p[1], SuffixID(i)) \in matched[i].ids

\* What publishers were told last serves every subscription there is now.
MatchIsCurrent == MatchServesSubscribers /\ MatchNamesSubscriptions

\* A subscriber of a scope was told about each scope directly below it, under
\* the identifier it subscribed with.
SubscopesAreTold ==
    \A f \in Live \cap ScopeObj : \A c \in contents[f] \cap ScopeObj : \A p \in subs[f] :
        <<Append(p[1], SuffixID(c)), p[2]>> \in told

=============================================================================
