------------------------ MODULE ContactsMemoryEngine ------------------------
(***************************************************************************)
(* The memory engine of the contacts module (QContactMemoryEngine,         *)
(* qcontactmemorybackend.cpp): engines that share one store by its id, and *)
(* the batch operations on contacts, relationships and the self contact,   *)
(* each followed by signals to every engine on the store.                  *)
(*                                                                         *)
(* The store keeps a relationship in up to four places: the list of all,   *)
(* the ordered lists of its two contacts, and the copy inside each stored  *)
(* contact.  A program holds a copy of a contact, and saves it again       *)
(* whenever it likes; an observer of each engine fetches a contact when a  *)
(* signal names it.  A contact is its type and the relationships it        *)
(* carries; other details are left out but for being valid or not.  An     *)
(* asynchronous request is carried out at once by the same operations.     *)
(* Error codes are not kept: an item of a batch that fails changes nothing *)
(* and the others go on.  Where the code indexes the contacts with -1 the  *)
(* program has no defined behaviour and the model goes no further.         *)
(*                                                                         *)
(* A definition that no other one uses is a slip: the definition after it  *)
(* as a wrong edit of the code would have it.  None is part of Next.       *)
(***************************************************************************)
EXTENDS Integers, Sequences, FiniteSets, SequencesExt

CONSTANTS
  Engines,           \* the engines a program may create for the store's id
  ContactTypes,
  RelationshipTypes,
  FirstUris,         \* manager URIs a relationship's first contact is given
  SecondUris,        \* ... and its second: "" for none
  MaxId,             \* bound: the last contact id handed out
  MaxRelationships,  \* bound: relationships stored
  MaxBatch           \* bound: items in one call

Own == "own"         \* managerUri()
ASSUME UrisAssumption == {"", Own} \subseteq SecondUris
ASSUME TypesAssumption == "none" \notin ContactTypes
ASSUME EnginesAssumption == IsFiniteSet(Engines)
ASSUME BoundsAssumption ==
  MaxId \in Nat /\ MaxRelationships \in Nat /\ MaxBatch \in Nat

VARIABLES
  d,          \* the shared data, or NoData
  held,       \* the copy of a contact the program holds, with its id
  views,      \* what the observer of each engine knows
  undefined

vars == <<d, held, views, undefined>>

NoId == 0
LocalIds == 2 .. MaxId     \* ++m_nextContactId, which starts at 1
Absent == [type |-> "none", relationships |-> <<>>]
Nothing == [id |-> NoId, contact |-> Absent]
NoView == [contacts |-> [id \in LocalIds |-> Absent], selfContactId |-> NoId]
NoData == [refCount |-> 0]
EmptyData ==
  [refCount |-> 1, sharedEngines |-> {}, contactIds |-> <<>>, contacts |-> <<>>,
   relationships |-> <<>>, ordered |-> [id \in LocalIds |-> <<>>],
   selfContactId |-> NoId, nextContactId |-> 1]

Alive == d # NoData
Local(id) == [uri |-> Own, id |-> id]
IndexOf(data, id) ==
  IF \E i \in DOMAIN data.contactIds : data.contactIds[i] = id
    THEN CHOOSE i \in DOMAIN data.contactIds : data.contactIds[i] = id
    ELSE -1

\* contact()
Contact(data, id) ==
  LET i == IndexOf(data, id) IN IF i = -1 THEN Absent ELSE data.contacts[i]

\* A loop over a batch: one item of the list after the other, ...
Each(Op(_, _), w, list) ==
  LET after[n \in 0 .. Len(list)] == IF n = 0 THEN w ELSE Op(after[n - 1], list[n])
  IN after[Len(list)]

\* ... as in picking those of a kind.
Among(list, S) == Each(LAMBDA kept, r : IF r \in S THEN Append(kept, r) ELSE kept, <<>>, list)
-----------------------------------------------------------------------------
(* Change sets and signals.                                                *)

\* QContactChangeSet: the ids each kind of signal will name.
NoChanges == [touched |-> {}, removed |-> {}, self |-> <<NoId, NoId>>]
Touched(cs, ids) == [cs EXCEPT !.touched = @ \cup ids]

\* An observer fetches what the signals name and drops what they say is gone.
Observed(view, data, cs) ==
  [contacts |-> [id \in LocalIds |->
     IF id \in cs.touched THEN Contact(data, id)
     ELSE IF id \in cs.removed THEN Absent
     ELSE view.contacts[id]],
   selfContactId |-> IF cs.self[1] # cs.self[2] THEN cs.self[2] ELSE view.selfContactId]

\* emitSharedSignals(): to every engine of the store.  Work in progress is
\* the data, the views and the change set.
EmitToOne(w) ==
  LET first == CHOOSE e \in w.data.sharedEngines : TRUE
  IN [w EXCEPT !.views[first] = Observed(@, w.data, w.cs), !.cs = NoChanges]
EmitSharedSignals(w) ==
  [w EXCEPT !.views = [e \in Engines |->
     IF e \in w.data.sharedEngines THEN Observed(@[e], w.data, w.cs) ELSE @[e]],
   !.cs = NoChanges]

Begin == [data |-> d, views |-> views, cs |-> NoChanges, held |-> held,
          undefined |-> undefined]
Finish(w) ==
  \E x \in {w} : /\ d' = x.data /\ views' = x.views /\ held' = x.held
                 /\ undefined' = x.undefined
-----------------------------------------------------------------------------
(* Contacts.                                                               *)

\* The id of a new contact.
NextId(data) == data.nextContactId + 1

\* saveContact(): the copy given replaces the stored contact, with the
\* relationships it carries; a contact without an id is added; an id that is
\* not here fails, and so does a changed type.
SaveContact(w, draft) ==
  LET i == IndexOf(w.data, draft.id)
      id == NextId(w.data)
      new == [type |-> draft.type, relationships |-> draft.relationships]
  IN CASE ~draft.valid -> w
       [] draft.valid /\ i # -1 ->
            IF w.data.contacts[i].type # draft.type THEN w
            ELSE [w EXCEPT !.data.contacts[i] = new, !.cs = Touched(@, {draft.id}),
                           !.held = [id |-> draft.id, contact |-> new]]
       [] draft.valid /\ i = -1 ->
            IF draft.id # NoId THEN w
            ELSE [w EXCEPT !.data.contacts = Append(@, new),
                           !.data.contactIds = Append(@, id),
                           !.data.nextContactId = @ + 1,
                           !.cs = Touched(@, {id}),
                           !.held = [id |-> id, contact |-> new]]

\* What the program has to save: something new, or the copy as it was fetched,
\* perhaps with another type.
Drafts ==
  {[id |-> NoId, type |-> t, relationships |-> <<>>, valid |-> v] :
     t \in ContactTypes, v \in BOOLEAN}
  \cup {[id |-> h.id, type |-> t, relationships |-> h.contact.relationships, valid |-> TRUE] :
          h \in {held} \ {Nothing}, t \in ContactTypes}

Batches(S) == BoundedSeq(S, MaxBatch) \ {<<>>}

SaveContacts(list) ==
  /\ Alive /\ ~undefined
  /\ d.nextContactId + Len(list) <= MaxId
  /\ Finish(EmitSharedSignals(Each(SaveContact, Begin, list)))

\* contact(), by a program that keeps the copy.
Fetch(id) ==
  /\ Alive /\ ~undefined /\ Contact(d, id) # Absent
  /\ held' = [id |-> id, contact |-> Contact(d, id)]
  /\ UNCHANGED <<d, views, undefined>>
-----------------------------------------------------------------------------
(* Relationships.                                                          *)

\* removeRelationship(): from the list of all, from the ordered lists of both
\* local ids, and from the contacts stored here.
RemoveRelationship(w, r) ==
  LET ordered == [w.data.ordered EXCEPT ![r.first.id] = RemoveFirst(@, r),
                                        ![r.second.id] = RemoveFirst(@, r)]
      i == IndexOf(w.data, r.first.id)
      j == IF r.second.uri = Own THEN IndexOf(w.data, r.second.id) ELSE -1
  IN IF r \notin ToSet(w.data.relationships) THEN w
     ELSE [w EXCEPT
             !.data.relationships = RemoveFirst(@, r),
             !.data.ordered = ordered,
             !.data.contacts = [k \in DOMAIN @ |->
                IF k = j THEN [@[k] EXCEPT !.relationships = ordered[r.second.id]]
                ELSE IF k = i THEN [@[k] EXCEPT !.relationships = ordered[r.first.id]]
                ELSE @[k]],
             !.cs = Touched(@, {r.first.id, r.second.id})]

RemoveAll(w, list) == EmitSharedSignals(Each(RemoveRelationship, w, list))

\* saveRelationship(): the first contact must be here, the second too if it is
\* said to be; what is stored already is left alone.  The second contact's
\* index is used whichever manager it is of.
Accepted(data, r) ==
  LET named == [r EXCEPT !.second.uri = IF @ = "" THEN Own ELSE @]
  IN IF \/ r.first.uri \notin {"", Own} \/ IndexOf(data, r.first.id) = -1
        \/ named.second.uri = Own
           /\ (IndexOf(data, r.second.id) = -1 \/ r.second.id = r.first.id)
        \/ named \in ToSet(data.relationships)
       THEN <<>> ELSE <<named>>

Related(data, r, i, j) ==
  LET first == Append(data.ordered[r.first.id], r)
      second == Append(data.ordered[r.second.id], r)
  IN [data EXCEPT
        !.relationships = Append(@, r),
        !.ordered = [@ EXCEPT ![r.first.id] = first, ![r.second.id] = second],
        !.contacts = [k \in DOMAIN @ |->
           IF k = j THEN [@[k] EXCEPT !.relationships = second]
           ELSE IF k = i THEN [@[k] EXCEPT !.relationships = first]
           ELSE @[k]]]

SaveRelationship(w, r) ==
  LET A == Accepted(w.data, r)
      i == IndexOf(w.data, r.first.id)
      j == IndexOf(w.data, r.second.id)
  IN IF A = <<>> \/ w.undefined THEN w
     ELSE IF j = -1 THEN [w EXCEPT !.undefined = TRUE]
     ELSE [w EXCEPT !.data = Related(@, A[1], i, j),
                    !.cs = Touched(@, {r.first.id, r.second.id})]

Relationships ==
  [first : [uri : FirstUris, id : LocalIds], second : [uri : SecondUris, id : LocalIds],
   type : RelationshipTypes]

SaveRelationships(list) ==
  /\ Alive /\ ~undefined
  /\ Len(d.relationships) + Len(list) <= MaxRelationships
  /\ Finish(EmitSharedSignals(Each(SaveRelationship, Begin, list)))

RemoveRelationships(list) ==
  /\ Alive /\ ~undefined
  /\ Finish(RemoveAll(Begin, list))
-----------------------------------------------------------------------------
(* Removing contacts, the self contact, engines.                           *)

\* relationships() with the contact in either role.
AsFirst(data, id) ==
  Among(data.relationships, {r \in Relationships : r.first = Local(id)})
InEitherRole(data, id) ==
  Among(data.relationships,
        {r \in Relationships : r.first = Local(id) \/ r.second = Local(id)})

\* removeContact(): its relationships go first, with signals of their own.
RemoveContact(w, id) ==
  LET i == IndexOf(w.data, id)
      r == RemoveAll([w EXCEPT !.cs = NoChanges], InEitherRole(w.data, id))
      self == id = w.data.selfContactId
  IN IF i = -1 THEN w
     ELSE [r EXCEPT !.data.contacts = RemoveAt(@, i),
                    !.data.contactIds = RemoveAt(@, i),
                    !.data.selfContactId = IF self THEN NoId ELSE @,
                    !.cs = [w.cs EXCEPT !.removed = @ \cup {id},
                                        !.self = IF self THEN <<id, NoId>> ELSE @]]

\* removeContacts(), and a remove request.
RemoveContacts(list) ==
  /\ Alive /\ ~undefined
  /\ Finish(EmitSharedSignals(Each(RemoveContact, Begin, list)))

SetSelfContactId(id) ==
  /\ Alive /\ ~undefined
  /\ id = NoId \/ IndexOf(d, id) # -1
  /\ Finish(EmitSharedSignals(
       [Begin EXCEPT !.data.selfContactId = id, !.cs.self = <<d.selfContactId, id>>]))

\* createMemoryEngine(): joins the store of that id or makes it; an observer
\* fetches everything.
Create(e) ==
  /\ ~undefined
  /\ Alive => e \notin d.sharedEngines
  /\ LET data == IF Alive THEN [d EXCEPT !.refCount = @ + 1] ELSE EmptyData
     IN /\ d' = [data EXCEPT !.sharedEngines = @ \cup {e}]
        /\ views' = [views EXCEPT ![e] =
             [contacts |-> [id \in LocalIds |-> Contact(data, id)],
              selfContactId |-> data.selfContactId]]
  /\ UNCHANGED <<held, undefined>>

\* ~QContactMemoryEngine(): the last one takes the store with it.
LeftBehind(data, e) == [data EXCEPT !.refCount = @ - 1]
Left(data, e) == [data EXCEPT !.refCount = @ - 1, !.sharedEngines = @ \ {e}]

Destroy(e) ==
  /\ Alive /\ ~undefined /\ e \in d.sharedEngines
  /\ d' = IF d.refCount = 1 THEN NoData ELSE Left(d, e)
  /\ views' = [views EXCEPT ![e] = NoView]
  /\ UNCHANGED <<held, undefined>>

Init ==
  /\ d = NoData
  /\ held = Nothing
  /\ views = [e \in Engines |-> NoView]
  /\ undefined = FALSE

Next ==
  \/ \E list \in Batches(Drafts) : SaveContacts(list)
  \/ \E id \in LocalIds : Fetch(id)
  \/ \E list \in Batches(LocalIds) : RemoveContacts(list)
  \/ \E list \in Batches(Relationships) : SaveRelationships(list)
  \/ Alive /\ \E list \in Batches(ToSet(d.relationships)) : RemoveRelationships(list)
  \/ \E id \in LocalIds \cup {NoId} : SetSelfContactId(id)
  \/ \E e \in Engines : Create(e) \/ Destroy(e)

Spec == Init /\ [][Next]_vars
-----------------------------------------------------------------------------
\* The two parallel lists match, no id is handed out twice, and the store
\* lives as long as an engine uses it.
TypeOK ==
  Alive =>
    /\ Len(d.contacts) = Len(d.contactIds) /\ IsInjective(d.contactIds)
    /\ d.refCount = Cardinality(d.sharedEngines) /\ d.sharedEngines # {}
    /\ \A id \in ToSet(d.contactIds) : id \in LocalIds /\ id <= d.nextContactId

\* An observer of any engine that fetches what the signals name knows every
\* contact as it is stored, its relationships included, and the self contact,
\* also after batches that failed in part.
ObserversUpToDate ==
  Alive /\ ~undefined =>
    \A e \in d.sharedEngines :
      /\ \A id \in LocalIds : views[e].contacts[id] = Contact(d, id)
      /\ views[e].selfContactId = d.selfContactId

Involving(id) == {r \in Relationships : r.first.id = id \/ r.second.id = id}

\* The ordered list of a contact is the list of all, in its order, as far as
\* the contact's id takes part; none is stored twice; no relationship names a
\* contact that was removed ("Remove the contact ... and also removes any
\* relationships in which the contact was involved",
\* qcontactmanagerengine.cpp:1450), and neither does the self contact.
RelationshipsAgree ==
  Alive /\ ~undefined =>
    /\ \A id \in LocalIds :
         d.ordered[id] = Among(d.relationships, Involving(id))
    /\ IsInjective(d.relationships)
    /\ \A r \in ToSet(d.relationships) :
         /\ Contact(d, r.first.id) # Absent
         /\ r.second.uri = Own => Contact(d, r.second.id) # Absent
    /\ d.selfContactId # NoId => Contact(d, d.selfContactId) # Absent

\* A contact fetched now carries the relationships it takes part in ("the
\* relationships that were present when this contact was retrieved from a
\* manager", qcontact.cpp:739).
ContactsCarryRelationships ==
  Alive /\ ~undefined =>
    \A id \in ToSet(d.contactIds) : Contact(d, id).relationships = d.ordered[id]

\* No list is indexed with -1.
AlwaysDefined == ~undefined
=============================================================================
