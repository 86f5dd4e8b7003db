---- MODULE StateOwner ----
(***************************************************************************)
(* The state owner of sysc-tray (internal/state/owner.go): one goroutine   *)
(* that holds every tray item, numbers the changes the shell may see and   *)
(* hands each one to the connected presenter, its sink.                    *)
(*                                                                         *)
(* Every exported method is a command run on that goroutine (submit), so   *)
(* one method is one action.  The goroutine calls sink.Send in the same    *)
(* command; here the sink may accept or refuse (it is refined by the       *)
(* module Presenter).  `view` is a history variable: what a presenter that *)
(* applied its snapshot and then every delta its sink accepted would hold. *)
(***************************************************************************)
EXTENDS Naturals, Sequences, FiniteSets

CONSTANTS
    Addresses,      \* (owner, object path) pairs; the reusable half of a key
    Items,          \* item contents that pass Item.Validate
    BadItems,       \* item contents that do not
    Menus,          \* menu trees that pass Menu.Validate
    BadMenus,       \* menu trees that do not
    Sinks,          \* presenter connections
    Absent,         \* no item, or no menu, read yet
    NoSink,         \* the nil Sink
    MaxItems,       \* protocol.MaxItems
    MaxGeneration,  \* bound: largest generation a caller uses
    MaxSequence     \* bound: events published in a run

ASSUME BoundsAssumption ==
    /\ MaxItems \in Nat
    /\ MaxGeneration \in Nat
    /\ MaxSequence \in Nat

ASSUME DistinctAssumption ==
    /\ Absent \notin Items \cup BadItems \cup Menus \cup BadMenus
    /\ NoSink \notin Sinks
    /\ Items \cap BadItems = {}
    /\ Menus \cap BadMenus = {}

ASSUME FiniteAssumption == IsFiniteSet(Addresses)

VARIABLES
    items,      \* live registrations: a map from address to entry
    order,      \* the addresses in order of registration
    sequence,   \* number of events published so far
    sink,       \* the connected presenter, or NoSink
    view,       \* history: what the events told the attached sink
    phase       \* of the goroutine: "running", "stopping", "done"

vars == <<items, order, sequence, sink, view, phase>>

----
(* Keys, entries and what they publish.                                    *)

Generations == 1..MaxGeneration

Keys == [addr: Addresses, gen: Generations]

Entry == [gen: Generations, item: Items \cup {Absent},
          menu: Menus \cup {Absent}, published: BOOLEAN]

Live == DOMAIN items

KeyAt(a) == [addr |-> a, gen |-> items[a].gen]

\* current: the record of a key, if it is still the live generation.
Current(key) == key.addr \in Live /\ items[key.addr].gen = key.gen

PublishedAt(a) == a \in Live /\ items[a].published

\* What a presenter should hold: the published items and, for each, its menu.
Published ==
    {[key |-> KeyAt(a), item |-> items[a].item] :
        a \in {b \in Live : items[b].published}}

PublishedMenus ==
    {[key |-> KeyAt(a), menu |-> items[a].menu] :
        a \in {b \in Live : items[b].menu # Absent}}

\* snapshotLocked: the published items among those `order` lists, at the
\* current sequence.  The snapshot carries no menu.  It is sorted by
\* generation for display; no property depends on the sorting.
Listed == {order[i] : i \in DOMAIN order}

snapshotLocked ==
    [sequence |-> sequence,
     items    |-> {[key |-> KeyAt(a), item |-> items[a].item] :
                      a \in {b \in Listed : PublishedAt(b)}},
     menus    |-> {}]

----
(* The deltas, and what a presenter does with them.                        *)

NoDelta == [kind |-> "none"]
ItemAdded(key, item)   == [kind |-> "item-added",   key |-> key, value |-> item]
ItemChanged(key, item) == [kind |-> "item-changed", key |-> key, value |-> item]
ItemRemoved(key)       == [kind |-> "item-removed", key |-> key, value |-> Absent]
MenuUpdated(key, menu) == [kind |-> "menu-updated", key |-> key, value |-> menu]

Without(entries, key) == {e \in entries : e.key # key}

\* The shell's side of the protocol (external): apply one delta.
ApplyItems(S, d) ==
    CASE d.kind = "item-added"   -> S \cup {[key |-> d.key, item |-> d.value]}
      [] d.kind = "item-changed" ->
            Without(S, d.key) \cup {[key |-> d.key, item |-> d.value]}
      [] d.kind = "item-removed" -> Without(S, d.key)
      [] OTHER -> S

ApplyMenus(S, d) ==
    CASE d.kind = "menu-updated" ->
            Without(S, d.key) \cup {[key |-> d.key, menu |-> d.value]}
      [] d.kind = "item-removed" -> Without(S, d.key)
      [] OTHER -> S

Apply(v, d) ==
    [sequence |-> v.sequence + 1,
     items    |-> ApplyItems(v.items, d),
     menus    |-> ApplyMenus(v.menus, d)]

EmptyView == [sequence |-> 0, items |-> {}, menus |-> {}]

Views == [sequence : 0..MaxSequence,
          items : SUBSET [key : Keys, item : Items],
          menus : SUBSET [key : Keys, menu : Menus]]

----
(* publish: number the event and send it.  A sink that refuses is dropped. *)

\* Faulty variant: a sink that refuses an event is kept for the next one.
publish_Skips(d) ==
    IF d = NoDelta
    THEN UNCHANGED <<sequence, sink, view>>
    ELSE /\ sequence < MaxSequence
         /\ sequence' = sequence + 1
         /\ sink' = sink
         /\ view' = IF sink = NoSink THEN EmptyView ELSE view

publish(d) ==
    IF d = NoDelta
    THEN UNCHANGED <<sequence, sink, view>>
    ELSE /\ sequence < MaxSequence
         /\ sequence' = sequence + 1
         /\ \/ /\ sink # NoSink                    \* Send accepts
               /\ sink' = sink
               /\ view' = Apply(view, d)
            \/ /\ sink' = NoSink                   \* no sink, or Send refuses
               /\ view' = EmptyView

----
(* retire: forget an address, and tell the presenter if it knew of it.     *)

FirstIndex(s, e) ==
    CHOOSE i \in 1..Len(s) : s[i] = e /\ \A j \in 1..(i - 1) : s[j] # e

\* The sequence without its i-th element.
Splice(s, i) ==
    [j \in 1..(Len(s) - 1) |-> IF j < i THEN s[j] ELSE s[j + 1]]

\* Faulty variant: the old listing of a retired address stays behind.
RetireOrder_Kept(a) == order

RetireOrder(a) == Splice(order, FirstIndex(order, a))

RetireDelta(a) == IF items[a].published THEN ItemRemoved(KeyAt(a)) ELSE NoDelta

WithoutItem(a) == [b \in Live \ {a} |-> items[b]]

----
(* The commands.  Each runs while the goroutine still takes commands.      *)

Accepting == phase \in {"running", "stopping"}

NewEntry(gen) ==
    [gen |-> gen, item |-> Absent, menu |-> Absent, published |-> FALSE]

WithItem(f, a, e) == [b \in DOMAIN f \cup {a} |-> IF b = a THEN e ELSE f[b]]

\* Faulty variant: one registration too many.
HasRoom_OffByOne == Cardinality(Live) <= MaxItems

HasRoom == Cardinality(Live) < MaxItems

AddDelta(key) == IF key.addr \in Live THEN RetireDelta(key.addr) ELSE NoDelta

\* A newer generation replaces the one at its address; a new address needs
\* a free slot.
Replaces(key) == key.addr \in Live /\ items[key.addr].gen < key.gen

Fits(key) == key.addr \notin Live /\ HasRoom

Add(key) ==
    /\ Accepting
    /\ \/ /\ Replaces(key)
          /\ order' = Append(RetireOrder(key.addr), key.addr)
       \/ /\ Fits(key)
          /\ order' = Append(order, key.addr)
    /\ items' = WithItem(items, key.addr, NewEntry(key.gen))
    /\ publish(AddDelta(key))
    /\ UNCHANGED phase

UpdateDelta(key, item) ==
    IF items[key.addr].published THEN ItemChanged(key, item) ELSE ItemAdded(key, item)

\* Faulty variants: a malformed reading is stored; a superseded generation's
\* reading is taken for the live one; an unchanged reading is published.
Update_Unvalidated(key, item) ==
    /\ Accepting
    /\ Current(key)
    /\ items[key.addr].item # item
    /\ items' = [items EXCEPT ![key.addr].item = item, ![key.addr].published = TRUE]
    /\ publish(UpdateDelta(key, item))
    /\ UNCHANGED <<order, phase>>

Update_Stale(key, item) ==
    /\ Accepting
    /\ key.addr \in Live
    /\ item \in Items
    /\ items[key.addr].item # item
    /\ items' = [items EXCEPT ![key.addr].item = item, ![key.addr].published = TRUE]
    /\ publish(UpdateDelta(key, item))
    /\ UNCHANGED <<order, phase>>

Update_Repeated(key, item) ==
    /\ Accepting
    /\ Current(key)
    /\ item \in Items
    /\ items' = [items EXCEPT ![key.addr].item = item, ![key.addr].published = TRUE]
    /\ publish(UpdateDelta(key, item))
    /\ UNCHANGED <<order, phase>>

\* Update: a valid reading of the live generation that differs from the
\* published one.
Update(key, item) ==
    /\ Accepting
    /\ Current(key)
    /\ item \in Items
    /\ ~(items[key.addr].published /\ items[key.addr].item = item)
    /\ items' = [items EXCEPT ![key.addr].item = item, ![key.addr].published = TRUE]
    /\ publish(UpdateDelta(key, item))
    /\ UNCHANGED <<order, phase>>

UpdateMenuDelta(key, menu) == MenuUpdated(key, menu)

\* Faulty variant: a menu is published ahead of its item.
UpdateMenu_Unpublished(key, menu) ==
    /\ Accepting
    /\ Current(key)
    /\ menu \in Menus
    /\ items' = [items EXCEPT ![key.addr].menu = menu]
    /\ publish(UpdateMenuDelta(key, menu))
    /\ UNCHANGED <<order, phase>>

\* UpdateMenu: a valid tree for an item the presenter already knows.
UpdateMenu(key, menu) ==
    /\ Accepting
    /\ Current(key)
    /\ items[key.addr].published
    /\ menu \in Menus
    /\ items' = [items EXCEPT ![key.addr].menu = menu]
    /\ publish(UpdateMenuDelta(key, menu))
    /\ UNCHANGED <<order, phase>>

RemoveDelta(key) == RetireDelta(key.addr)

\* Remove: forget the live generation.  A stale removal is ignored.
RemoveItem(key) ==
    /\ Accepting
    /\ Current(key)
    /\ items' = WithoutItem(key.addr)
    /\ order' = RetireOrder(key.addr)
    /\ publish(RemoveDelta(key))
    /\ UNCHANGED phase

\* Attach: install the sink and take its baseline in one command.
Attach(s) ==
    /\ Accepting
    /\ sink' = s
    /\ view' = snapshotLocked
    /\ UNCHANGED <<items, order, sequence, phase>>

\* Detach: forget the sink if it is still the connected one.
Detach(s) ==
    /\ Accepting
    /\ sink = s
    /\ sink' = NoSink
    /\ view' = EmptyView
    /\ UNCHANGED <<items, order, sequence, phase>>

\* Close marks the owner stopped; the goroutine may still take a command that
\* was waiting before it returns.
Close ==
    /\ phase = "running"
    /\ phase' = "stopping"
    /\ UNCHANGED <<items, order, sequence, sink, view>>

Exit ==
    /\ phase = "stopping"
    /\ phase' = "done"
    /\ UNCHANGED <<items, order, sequence, sink, view>>

----
Init ==
    /\ items = [a \in {} |-> NewEntry(1)]
    /\ order = <<>>
    /\ sequence = 0
    /\ sink = NoSink
    /\ view = EmptyView
    /\ phase = "running"

Next ==
    \/ \E key \in Keys :
        \/ Add(key)
        \/ \E item \in Items \cup BadItems : Update(key, item)
        \/ \E menu \in Menus \cup BadMenus : UpdateMenu(key, menu)
        \/ RemoveItem(key)
    \/ \E s \in Sinks : Attach(s) \/ Detach(s)
    \/ Close
    \/ Exit

Spec == Init /\ [][Next]_vars

----
(* Properties.                                                             *)

\* Every variable has its type.
TypeOK ==
    /\ Live \subseteq Addresses
    /\ items \in [Live -> Entry]
    /\ order \in Seq(Addresses)
    /\ sequence \in 0..MaxSequence
    /\ sink \in Sinks \cup {NoSink}
    /\ view \in Views
    /\ phase \in {"running", "stopping", "done"}

\* retire and Add keep `order` an exact list of the live addresses, each
\* once: an address missing from it would vanish from every later snapshot
\* while its deltas went on, and one listed twice would make
\* Snapshot.Validate reject the handshake of every later presenter.
OrderExact ==
    /\ Listed = Live
    /\ \A i, j \in DOMAIN order : order[i] = order[j] => i = j

\* Add refuses past protocol.MaxItems, the limit Snapshot.Validate enforces
\* on the presenter's side; the replacement path never takes an extra slot.
ItemCap == Cardinality(Live) <= MaxItems

\* Attach is atomic with the baseline, publish numbers every event and drops
\* the sink with the first one it refuses: so whoever applies the snapshot
\* and then each delta holds exactly the published items at the current
\* sequence, and no menu that the owner does not hold for that generation.
SinkConverges ==
    sink # NoSink =>
        /\ view.sequence = sequence
        /\ view.items = Published
        /\ view.menus \subseteq PublishedMenus

\* UpdateMenu comes after the item's own event (a menu for an item the shell
\* has not been told about could not be drawn), and an entry is published
\* exactly when an item was read for its generation.
MenuAfterItem ==
    \A a \in Live :
        /\ items[a].published <=> items[a].item # Absent
        /\ items[a].menu # Absent => items[a].published

\* Update's comment: "a read that found nothing new is not an event".  A
\* step numbers an event exactly when it changes what a presenter should
\* hold, or republishes a menu.
EventsAreChanges ==
    [][/\ Published' # Published => sequence' = sequence + 1
       /\ sequence' # sequence =>
            \/ Published' # Published
            \/ \E key \in Keys, menu \in Menus : UpdateMenu(key, menu)]_vars

\* The owner, seen from outside.
F == INSTANCE Feed WITH
    Readers <- Sinks, Nobody <- NoSink,
    content <- Published, number <- sequence, reader <- sink,
    copy <- [sequence |-> view.sequence, items |-> view.items]

\* The owner implements the feed: its maps, its listing, its generations and
\* its deltas amount to one published set that changes one item at a time,
\* and to a reader that has every change at once or is told of none.
ImplementsFeed == F!FeedSpec

====
