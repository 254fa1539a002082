------------------------ MODULE TemporaryCollection ------------------------
(***************************************************************************)
(* The backend that keeps collections in memory only: one collection, its   *)
(* items, the jobs clients run on it, and a frontend that learns of changes *)
(* by signals alone. Nothing here is ever locked. Objects are deleted by    *)
(* the event loop (Collect), and until then calls may still reach them.     *)
(***************************************************************************)
EXTENDS Naturals, Sequences, FiniteSets

CONSTANTS
  Ids,        \* item ids
  Attributes, \* sets of attributes an item can have
  Matching,   \* Matching[a]: the sets of attributes a search for a finds
  Labels

\* A search for attributes finds at least the items that have exactly these.
TemporaryAssumption == \A a \in Attributes : a \in Matching[a]

VARIABLES
  there,   \* the collection: "none", "live", "deleted" (not yet collected), "collected"
  items,   \* m_items: a partial function from ids to what they hold
  doomed,  \* ids of items whose deletion waits for the event loop
  view,    \* what a listener knows by signals alone: the collection, and its items as last read
  spent,   \* ids used so far: an id is never given twice
  merged,  \* history: setAttributes gave an item the attributes of another
  revived  \* history: deleted items that were changed since they were last deleted

vars == <<there, items, doomed, view, spent, merged, revived>>

Held == [attributes : Attributes, label : Labels]

Init ==
  /\ there = "none" /\ items = <<>> /\ doomed = {}
  /\ view = [known |-> FALSE, items |-> <<>>]
  /\ spent = {} /\ merged = FALSE /\ revived = {}

With(f, i, held) == [k \in DOMAIN f \cup {i} |-> IF k = i THEN held ELSE f[k]]
Without(f, i) == [k \in DOMAIN f \ {i} |-> f[k]]

\* A call reaches the collection until the event loop has deleted it.
Reached == there \in {"live", "deleted"}

\* TemporaryCreateCollectionJob, and the manager's announcement at its result.
CreateCollection ==
  /\ there = "none"
  /\ there' = "live"
  /\ view' = [view EXCEPT !.known = TRUE]
  /\ UNCHANGED <<items, doomed, spent, merged, revived>>

\* searchItems: the items that have all the attributes, and perhaps more.
FoundBySearch(a) == {i \in DOMAIN items : items[i].attributes \in Matching[a]}

\* Of those found, the ones with no other attributes.
Duplicates(a) == {i \in FoundBySearch(a) : items[i].attributes = a}

\* itemCreated and itemChanged: the listener reads the item again. Slip: the
\* signal is lost to blockSignals.
Unannounced(i, held) == [view EXCEPT !.items = IF i \in DOMAIN @ THEN @ ELSE With(@, i, held)]

Announced(i, held) == [view EXCEPT !.items = With(@, i, held)]

\* createItem: a duplicate is replaced (or, without replace, the call refused and
\* nothing changes); the setters' own signals are blocked, one is sent at the end.
CreateItem(i, held, replace) ==
  /\ Reached
  /\ IF Duplicates(held.attributes) = {} THEN i \notin spent ELSE replace /\ i \in Duplicates(held.attributes)
  /\ items' = With(items, i, held)
  /\ spent' = spent \cup {i}
  /\ view' = Announced(i, held)
  /\ UNCHANGED <<there, doomed, merged, revived>>

\* TemporaryItem::setAttributes, setLabel, setSecret: markAsModified's signal is
\* passed on, by a deleted item that waits for the event loop as well: the frontend
\* then lists it again.
SetItem(i, held) ==
  /\ i \in DOMAIN items \cup doomed
  /\ IF i \in DOMAIN items
     THEN /\ items' = With(items, i, held)
          /\ merged' = (merged \/ \E k \in DOMAIN items \ {i} : items[k].attributes = held.attributes)
          /\ UNCHANGED revived
     ELSE /\ revived' = revived \cup {i}
          /\ UNCHANGED <<items, merged>>
  /\ view' = Announced(i, held)
  /\ UNCHANGED <<there, doomed, spent>>

\* TemporaryDeleteItemJob: deleteLater, and at its result the item tells the
\* collection, which forgets it and tells the listener. It may be called again.
DeleteItem(i) ==
  /\ i \in DOMAIN items \cup doomed
  /\ items' = Without(items, i)
  /\ doomed' = doomed \cup {i}
  /\ view' = [view EXCEPT !.items = Without(@, i)]
  /\ revived' = revived \ {i}
  /\ UNCHANGED <<there, spent, merged>>

\* TemporaryDeleteCollectionJob: deleteLater, and collectionDeleted at its result.
DeleteCollection ==
  /\ there = "live"
  /\ there' = "deleted"
  /\ view' = [view EXCEPT !.known = FALSE]
  /\ UNCHANGED <<items, doomed, spent, merged, revived>>

\* The event loop deletes what waits for it; a collection takes its items along.
Collect ==
  /\ doomed # {} \/ there = "deleted"
  /\ doomed' = {}
  /\ there' = IF there = "deleted" THEN "collected" ELSE there
  /\ items' = IF there = "deleted" THEN <<>> ELSE items
  /\ UNCHANGED <<view, spent, merged, revived>>

Next ==
  \/ CreateCollection \/ DeleteCollection \/ Collect
  \/ \E i \in Ids :
       \/ DeleteItem(i)
       \/ \E held \in Held : SetItem(i, held) \/ \E replace \in BOOLEAN : CreateItem(i, held, replace)

Spec == Init /\ [][Next]_vars

-----------------------------------------------------------------------------
TypeOK ==
  /\ there \in {"none", "live", "deleted", "collected"} /\ merged \in BOOLEAN
  /\ DOMAIN items \cup doomed \cup revived \subseteq spent /\ spent \subseteq Ids
  /\ \A i \in DOMAIN items : items[i] \in Held

\* What a listener that follows the signals (and reads the item each names)
\* believes is what the collection holds, replaced and changed items included -
\* and, besides, exactly the items that a client changed after they were deleted:
\* slotItemDeleted leaves their itemChanged connected, so that they come back to
\* the list, and stay there when the event loop has deleted them.
ViewIsContents ==
  Reached => /\ DOMAIN view.items = DOMAIN items \cup revived
             /\ \A i \in DOMAIN items : view.items[i] = items[i]
             /\ there = "live" <=> view.known

\* Creating items, with replace or without, never leaves two items of the same
\* attributes, which no search could tell apart: only setAttributes does that.
AttributesTellItems ==
  merged \/ \A i, k \in DOMAIN items : items[i].attributes = items[k].attributes => i = k
=============================================================================
