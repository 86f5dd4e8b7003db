# A TLA+ verification of sysc-tray

sysc-tray is a Linux session daemon.  It discovers tray items on the session
bus (StatusNotifierItem), reads them and their menus, keeps one authoritative
state and streams it over a Unix socket to one presenter, the shell that draws
the tray.  This directory models the parts of it that are concurrent and
stateful, checks them with TLC on small instances, and proves the central
facts with TLAPS for every value of the constants.

## 1. Inventory

| part | source | state | operations | hard because |
|---|---|---|---|---|
| state owner | `internal/state/owner.go` | items by address, their order, the event sequence, the sink | Add, Update, UpdateMenu, Remove, Attach, Detach, Close | stale generations; two copies of the item set; snapshot and stream must meet exactly |
| presenter connection | `internal/presenter/connection.go` | pending list, bounded queue and its accounts, last sequence and request ID | Send, start, fail, writeLoop, readLoop, reply | three goroutines and the owner share it; overflow; deltas during the handshake |
| presenter server | `internal/presenter/server.go` | current presenter, generation counter | accept, handshake, replace, teardown, Close | overlapping handshakes; shutdown during one |
| watcher server | `internal/watcher/server.go` | registry of addresses, generation counter | Serve, register, owner departure, Close | the observer is called outside the lock |
| watcher attachment | `internal/watcher/attach.go` | the client's registry, the current relationship | Run, serveOnce, attach, add, remove, drain | listing races signals; the watcher leaves or is replaced |
| application | `internal/app/run.go` | table of workers, closing flag, context | ItemAdded, ItemRemoved, dropWorker, onItem, onMenu, Close, unwind | the table and the owner's state have no common lock |
| item proxy | `internal/item/proxy.go` | subscription, wake slot, two goroutines | Start, pump, loop, await, refresh, Close | coalesced signals; timeouts; Close from a callback |
| refresh limiter | `internal/item/model.go` | last refresh, last per item | Reserve, Forget | all proxies race for slots |
| menu proxy | `internal/menu/proxy.go` | published revision, wake slot, two goroutines | Start, pump, handle, loop, refresh, Close, the commands | check, then call; a reader replaced while it holds an answer; superseded layouts skipped |
| menu decoding | `internal/menu/model.go`, `validate.go` | none | convertLayout, Validate | pointers into growing slices; limits counted by several walks |
| pixmap decoding | `internal/item/pixmap.go`, `model.go` | none | decodePixmaps, normalize | one budget spent by four calls |
| process ownership | `internal/ownership`, `app/run.go` | identity of the process behind an item | inspectOwnership, closeable, Terminate, Verify, Signal | the process or its number may change between check and signal |
| protocol | `protocol/` | none | framing, validation | limits |

How they interact.  The watcher calls the application (`ItemAdded`,
`ItemRemoved`) from registration goroutines, from its pump and from `Run`; the
application adds and removes items in the owner and starts or closes a proxy
per item; the proxies call back (`onItem`) from their own goroutines; the owner
runs every command on one goroutine and calls `Send` of its sink, a presenter
connection, from there; the connection's writer feeds the socket, its reader
dispatches commands.  `App.Close` unwinds all of it.

What makes each part correct, and where it is stated: section 4.  The hazards,
with the line at which each bites, are listed in `PROJECT.json`.

## 2. Modules

| module | what it is |
|---|---|
| `Feed` | abstract: what the owner promises whoever subscribes |
| `StateOwner` | the owner: one action per command, the sink left free to refuse; implements `Feed` |
| `Mirror` | abstract: what the presenter server promises a shell; extends `Feed` |
| `Presenter` | server and connections composed with `StateOwner`; implements `Mirror` |
| `Tray` | watcher relationship and application composed with `StateOwner` |
| `Limiter` | the shared refresh limiter and the loop that waits for it |
| `ItemProxy` | one item proxy, its goroutines and its worker's life |
| `Worker` | one worker of the application: the reading loop of its item against its end |
| `Menu` | the menu readers of one worker, their replacement, the menu commands; extends `Worker` |
| `Ownership` | the process identity of one worker's item, and Terminate; extends `Worker` |
| `ItemWorker` | `Menu` and `Ownership` composed on one worker |
| `MenuTree` | the two walks that turn a DBusMenu layout into the published tree |
| `Pixmaps` | the pixmap budget of an item |
| `StateOwnerProofs`, `PresenterProofs`, `TrayProofs`, `LimiterProofs`, `ItemProxyProofs`, `ItemWorkerProofs` | theorems about the module each is named after |
| `DecodeProofs` | theorems about `MenuTree` and `Pixmaps` |
| `InductionFacts` | induction over the naturals and over sequences, stated for sets, and ranks in sets of numbers |
| `MCStateOwner`, `MCPresenter`, `MCTray`, `MCItem`, `MCItemWorker` | small instances for TLC |

Operators whose names end in `_Something` after the name of another operator
are faulty variants of it.  No specification uses them: they record which
mistake in the code each property would catch.

### StateOwner

`items`, `order`, `sequence` and `sink` are the fields of `Owner`; `phase` is
its goroutine.  `submit` runs one command at a time, so one method is one
action; a command that the code leaves early (a stale key, a full table, an
invalid or unchanged reading) has no effect and is simply not enabled.  A key
is an address and a generation; an item or a menu is a model value that
validation accepts (`Items`, `Menus`) or not (`BadItems`, `BadMenus`).  `view` is
a history variable: what a presenter holds that applied its snapshot and every
delta its sink accepted.  `publish` may be refused by the sink at any time.

### Feed and Mirror

`Feed` has no map, no listing, no delta and no command: a set of published items
that an event changes in one key at most, a number per event, and one reader
whose copy is the published set of this moment or who is no longer the reader.
`StateOwner` maps `content` to what is published, `number` to `sequence`, `reader`
to `sink` and `copy` to the history variable `view` without its menus.

`Mirror` adds the way to a shell: whole states travel to it in order, beginning
with the one of the moment it was subscribed, and a shell that is cut is sent
nothing more.  `Presenter` maps the states on their way to the results of
applying, one after the other, every snapshot and delta that is pending, queued
or being written; so that the handshake's backlog, the filter against the
baseline, the queue and its overflow, and the ends of a connection all have to amount to "in order and without a gap, or cut".

### Presenter

`conn[c]` is the connection struct with the program counter of its handler
(`step`) and of its writer; `shell[c]` is the peer, which reads frames in order
and becomes "confused" by one that is out of place.  The owner's command and
the `Send` it makes are one joint action, since `Send` runs on the owner's
goroutine.  The handler is split wherever another goroutine can see it half
done: generation, `Attach`, `start`, the swap of `current`, failing the old
connection, `connectionDone`, `Detach`.  The deadline of the handshake is the
action `HandshakeFails`, which may happen at any time.  `Failed` also forgets
what is queued: nothing of it can be written any more.  A message's size is
abstract: a snapshot grows with its items, and a delta that brings an item or a
menu is larger than one that takes one away.  `SnapshotValid` is the part of
`Snapshot.Validate` that depends on more than one item.

### Tray

Each goroutine is a thread with the rest of its program in `todo[t]`:
`Watcher.Run`, the pump, registration calls, `go dropWorker`, `App.Close`.
Every operation that takes a lock or submits to the owner is a step.  `rel` is
the current relationship, which is either `Server` (mode "owner") or `client`
(mode "attached"), with its signal channel; a closed server keeps its registry
because registration calls may still be in progress.  `proxies` has every proxy
ever made: "new", "running", "stopping", "closed".  `workers` is `App.workers`.
`ctxDone` is the end of the context, which a signal brings about at once for
everyone (`Interrupt`) before `App.Run` calls `Close`.  `App.Close` goes through
`unwind` in the code's order; of its first step, the `Close` of the presenter
server, the model says only that it may return (`serverClosed`), since its own
steps are `Presenter`'s.  A reading that was taken earlier may be delivered when
its owner has left or the service is closing (`onItem`).  The bus, the applications
and the external watcher are external; they may do anything the protocol lets
them do.

### Limiter

`last` and `perKey` are the limiter's fields, `waiter` and `wakeAt` the proxies'
`await`.  Time is a counter; a timer fires at or after its time.  The history
variable `late` says whether the clock ever ran on while a proxy was free to
ask: the scheduler is fast compared with the intervals (8 ms and 33 ms), and
`SiblingsServed` speaks of the runs in which it was.

### ItemProxy

The application goes through versions; a read answers with the version of that
moment, and `shown` is what `onItem` was last given.  `Start` and `Close` share
no lock, so `Close` may look at `cancel` and at `started` between any two of
`Start`'s assignments (`CloseBegin`, `CloseLook`).  `ended` is the end of the
context that the proxy's own is derived from: a signal to stop ends the reading
loop before anybody closes the proxy (`ServiceEnds`, `CallCtxDone`).

`MCItem` checks this module, `Limiter`, `MenuTree` and `Pixmaps` in one run, as
a disjoint sum: a behaviour is one of the four.  `Limiter` and `ItemProxy` meet
only in `Reserve`, the decoders in nothing.

### Worker, Menu, Ownership, ItemWorker

`Worker` is one entry of `App.workers`.  `step` is the program counter of the
item's reading loop, through `onItem` and `bindMenu`; `life` follows the worker
from the table (`dropWorker`, `stopWorkers`) through `closeWorker` to
`owner.Remove`.  Every section under `App.mu` is one step and everything between
two sections is another.

`Menu` has any number of readers (`menus[i]`), since a replaced reader, the
current one and one that was started and never put in place may exist at once.
A reader has a pump, a loop, a wake token and a set of signals on their way, in no
order.  A tree is its revision and a version that property changes advance
too.  A command carries the tree that was drawn when the user clicked; the
lookup, the revision check and the call are three steps.

`Ownership` numbers the lives of one process number, which is what the start
time in `/proc` tells apart; `term` is a Terminate in progress with what it
recorded and whom its signal hit.  Processes may exit and be replaced between
any two steps.

`ItemWorker` composes the two on one worker: the loop that binds menus is the
one that publishes whether close is offered, and the end of the worker waits
for both.

### MenuTree and Pixmaps

`MenuTree` is the walk of `convertLayout` with Go's slices as they are: the
frames of its stack point to cells of arrays in `heap`, and `append` moves a full
array to one twice as large while old pointers stay behind.  Then `Validate`
walks what is in the heap.  `TreeFaithful` compares that with the layout and
`LimitsExact` compares acceptance with a direct definition of a valid menu.
`Pixmaps` decodes four sets of candidates against one budget.

## 3. Runs

Runs that pass:

| run | instance | shows |
|---|---|---|
| StateOwner | 3 addresses for 2 slots, 3 generations, 2 presenters, 6 events | TypeOK, OrderExact, ItemCap, SinkConverges, MenuAfterItem, EventsAreChanges, ImplementsFeed |
| PresenterOne | 1 connection, 2 addresses, 2 items, a menu, 2 requests, queue of 4 messages and 6 bytes | QueueAccounting, ShellNeverConfused, CommandsOnce, ImplementsMirror |
| PresenterTwo | 2 connections, 1 address, queue of 3 | PipelineConverges, NoDeadSink, ClosedClean |
| PresenterLive | 2 connections, fair, no shutdown | SupersededEnds |
| TrayOwner | this service is the watcher; 2 addresses of one owner, 2 concurrent registrations | NoOrphanItem, NoWorkerAfterStop |
| TrayLive | fair; two relationships in a row, of either kind, with an external watcher that comes up, hands over and leaves | NoOrphanItem, DepartedLeave, UnwindTerminates |
| Item | a proxy with 3 versions, fair; 2 proxies at a limiter with intervals 2 and 4 (at capacity), 9 ticks; every layout of up to 6 nodes with at most one thing wrong, limits of depth 2, 5 nodes, 2 icon bytes; 4 pixmap candidates for a budget of 20 bytes | PXTypeOK, NoLostWakeup, ClosedIsQuiet, DropEnds, ProxyConverges; LTypeOK, Spacing, SiblingsServed; TreeFaithful, LimitsExact; PixmapsFit |
| ItemWorker | 2 menu paths, 3 readers, 2 changes of the application, 1 command; 2 lives of a process number, 2 Terminates; fair | NoMenuLeak, NoLostLayout, SignalsVerified, OutcomeTrue, CloseOffered, MenuForward, SupersededRefused, WorkerEnds, MenuConverges |

The bounds.  In `StateOwner` one address more than there are slots meets the
cap; a third generation gives a key that is stale by more than one step.  In
`PresenterOne` the queue holds the prologue (hello, snapshot) and two more, so
it is met exactly, and exceeded in messages.  Each limit also binds alone:
hello, a snapshot of one item and a delta that brings one are three messages and
five of six bytes, so that another such delta is refused for its size although
there is room for a message; hello, an empty snapshot, a delta and a reply are
four messages and five bytes, so that another reply is refused for the number.
The run fails without either check (`CanReserve_Messages` is the faulty variant
without the byte limit).  Three events
cover one before the baseline, one in the backlog and one live; two requests can
be asked in order, repeated and out of order.  Two connections suffice for
replacement: the server keeps one current connection and the owner one sink.
`Tray` bounds generations, relationships, watcher starts and errors per proxy;
`Room` and `CallRegister` keep the environment from registering more than there
are generations for, so that the bound never blocks a step of the service.
`TrayLive` has one generation for each relationship: an address that the client
already has and that is listed again (`attach.go:274-284`, the replacement in
`clientAdd`) needs two, which makes the instance with fairness too large to
check; that path is covered by `TrayProofs` only, for any bounds.
`MaxTime` covers two per-item intervals and the longest wait allowed, which is
reached: with one tick less in `MaxWait` the run fails.  Three readers are one
replaced, one in place and one started and discarded; with two changes of the
application a path changes twice, or a tree changes while its path does.  In
`MCItemWorker` one part of the environment moves in a behaviour: paths and
trees, trees and commands, or processes; the service moves in all of them.  Two
lives of a process number are the recorded process and its successor, two
Terminates one that ends in each way followed by another.  In the part of `Item` that decodes menus six nodes
exceed every limit, and a node with three children and grandchildren makes a
children array move: a walk in another order leaves a node behind there.  A
pixmap budget of 20 bytes holds one of the largest candidates and one of the
smallest, so that each later set meets a budget that is partly spent.

Deadlock is not checked: every bounded run may stop, and the daemon after shutdown is meant to.

Fairness.  Goroutines are scheduled (weak fairness); the handshake has a
deadline and D-Bus calls a timeout; a `select` with a closed channel does not
pass it over for ever (strong fairness of `LoopStop`, `PumpStop`); an
application that is asked again and again answers some time, the bus in its
place when it has left (strong fairness of `Answer`, `CallRefused`: without it
`ReadsConverge` cannot be expected of anyone).  In `ItemWorker` the goroutines of the
item loop, of the worker's end and of each reader are weakly fair and a call returns,
with an answer or an error: it has a timeout.  Peers, applications, external
watchers, processes and signals to stop owe nothing.  Nor does the presenter
server's `Close`, which `PresenterClose` shows may wait for ever:
`UnwindTerminates` has as its premise that this one wait ends
(`ServerCloseReturns`).  `MCItem` states the
fairness of the proxy only for the behaviours in which the proxy takes part.

Runs that show a disagreement between the code and what the repository says:

| run | what happens |
|---|---|
| PresenterNewer | of two overlapping handshakes the older may replace the newer, and then gets no delta |
| PresenterClose | `Close` waits for a presenter that became current after it looked |
| TrayKeys | generations restart with each relationship, so keys repeat |
| ItemWorkerRecycled | `Terminate` signals the process that took the number after its check |

Each is quoted and explained in `PROJECT.json`.

Limits of the code met while modelling, which the models exhibit and no
property claims away (the hazards of `PROJECT.json` have their lines):

- a shell that reconnects is not told the menus already published; it learns a
  menu when the application next changes it;
- a connection that fails between `Attach` and `start` takes the sink from the
  presenter being served, which stays connected without deltas;
- items valid one by one can add up to a snapshot no handshake accepts;
- the watcher can call `ItemRemoved` before the `ItemAdded` of the same
  registration; the item's own reader puts that right (DepartedLeave);
- a watcher to which the name passes directly never gets this host;
- a registration refused at the item cap still gets a worker, whose readings are
  ignored, and is not added when a slot frees up;
- a menu whose `Start` the bus refuses is not tried again for that path, and a
  failed menu read is not retried; `MenuConverges` excepts both;
- revisions are counted per reader: after the menu path changed, a command drawn
  from the old menu passes if the new reader happens to have the same revision,
  and a tree of revision 0 passes before its first read, while
  `menu/proxy.go:29-31` says "a command never lands on a tree the user never saw".
  `SupersededRefused` holds for the reader the tree was drawn from;
- `check` and the call of a menu command are two steps, and the tree may change
  in between;
- a Start that `Close` overtakes subscribes afterwards, and nothing undoes it
  before the bus connection closes; its goroutines end (DropEnds);
- the ID made from owner and path, and the menu path, are not clamped to
  `MaxTextBytes`, so that an item the proxy normalised may fail
  `Item.Validate`;
- after a failed read a new registration of the same address is ignored for as
  long as its owner stays on the bus.

## 4. Properties

StateOwner.  *SinkConverges*: snapshot plus accepted deltas is exactly the
published state at the current sequence, and no menu of another generation.
*OrderExact*: `order` and `items` agree.  *ItemCap*, *MenuAfterItem*,
*EventsAreChanges*: an event is numbered exactly when there is something to
say.  *ImplementsFeed*: the whole of it from outside.

Presenter.  *PipelineConverges*: what the peer has read followed by all that is
queued for it amounts to the state published now, as long as the connection is
attached and open.  *ShellNeverConfused*: hello, snapshot, contiguous deltas.
*QueueAccounting*: the one account that `Send`, `start`, `reply` and the writer
share is exact, the message being written included, and both limits hold: no
message leaks, none is released twice.  *CommandsOnce*: requests run in the order
of their numbers, at most once each, and are answered in that order.  *NoDeadSink*,
*ClosedClean*, *SupersededEnds*.  *ImplementsMirror*: every step of the server, its
connections, the owner and the peers is a step of `Mirror` or none; it subsumes
"no gap, no repetition, no state of before the baseline after it", also for
connections that overflow or fail during their handshake.

Tray.  *NoOrphanItem*: an item in the state has a worker reading it, or a
thread is about to give it one or to retire it.  *NoWorkerAfterStop*,
*DepartedLeave*.  *UnwindTerminates*: shutdown ends if the `Close` of the
presenter server does.

Limiter and ItemProxy.  *Spacing*, *SiblingsServed*; *NoLostWakeup*,
*ReadsConverge* (as *ProxyConverges*).  *ClosedIsQuiet*: after `Close` nothing
runs or is left, except by a Start that `Close` overtook; *DropEnds*: a drop ends
with the item retired and with no goroutine running, those of such a Start
included.

Menu.  *NoMenuLeak*: one reader at most runs or is subscribed, the one built last, and
somebody holds it to close it; a closed worker leaves none behind, wherever
`bindMenu` was.  *NoLostLayout*, *MenuConverges*: the last change of a tree, or of the path,
is drawn in the end.  *MenuForward*: a replaced reader never publishes over its
successor.  *SupersededRefused*: what passes `check` at the reader it was drawn from
is the tree shown, and no other reader was built since; the window between `check`
and the call is open, and so is a new reader with an equal revision.  *WorkerEnds*: the nested waits of `closeWorker`
and `bindMenu` end.

Ownership.  *SignalsVerified*: a process that had taken the number before the
check is never signalled; *RecycledNeverHit*, what the package comment says
beyond that, fails.  *OutcomeTrue*, *CloseOffered*.

Decoding.  *TreeFaithful*, *LimitsExact*, *PixmapsFit*.

A type invariant is kept where a proof uses it or it bounds the state
(`StateOwner`, `Limiter`, `ItemProxy`).

## 5. Proofs

`StateOwnerProofs` proves `OwnerTypes`, `OwnerSinkConverges`, `OwnerOrderExact`,
`OwnerItemCap`, `OwnerMenuAfterItem`, `OwnerEventsAreChanges` and
`OwnerImplementsFeed`.  SinkConverges is not inductive by itself: `Attach` takes
its view from `order`, so it needs OrderExact; a removal needs that the shell's
entries are those of the live generations, hence the types; an entry's item must
be present when it is published, hence MenuAfterItem.  Their conjunction is the
inductive invariant.  The step that carries everything is `Explains(d)`: the
delta a command publishes changes what is published exactly as the presenter
will on receipt, and a command that publishes none changes nothing.  One lemma
per command shows it; `PublishKeepsView` (the invariant), `PublishNumbers` (events
are changes) and `PublishImplementsEvent` (the refinement) use it.  The refinement
needs, beside it, that a delta touches one key (`OneKey`) and that `items` is a
map, so that no address is published under two generations.
The assumptions are that the bounds are naturals, that the constants are
distinct and that there are finitely many addresses (for the cap).

`PresenterProofs` proves `PresenterQueueAccounting`, `PresenterShellNeverConfused`,
`PresenterPipelineConverges`, `PresenterCommandsOnce`, `PresenterNoDeadSink` and
`PresenterClosedClean` from one inductive invariant, `PInv`.  It is the owner's
invariant and two parts of its own.  `Roles` says which steps of a handler allow
its connection to be the sink or the current presenter, and what a finished
`Close` leaves.  `Served` says of one connection what its step makes of it: no
account is open before the handshake (`InStep`), the accounts match the frames
queued and being written (`Counted`), the shell has heard nothing before
`start` (`Waiting`), the backlog continues the baseline up to what is published
(`Backlogged`), and from `start` on the same holds of what is on the wire
(`Streaming`) and of the requests (`Asking`).  The four safety properties about
frames need each other: a queue that is exact is what lets `start` move the
backlog, and a backlog without a gap is what keeps the shell from being
confused.  The argument turns on `After(p, ms)`, what shell `p` makes of the
frames `ms`: a writer step takes a frame from the queue to the shell and leaves
`After` as it is, and a `Send` extends it by one delta, which `Explains` of
`StateOwnerProofs` says is the change of the published state.  `After` folds
over a sequence, so what appending and taking the head do to it is proved by the
inductions of `InductionFacts`.  `ServedOwnerIsOwner` proves `PSpec => Spec`: the
composition refuses and accepts only what `StateOwner` leaves free, so that
every theorem about the owner holds of the server with its presenters.

`PresenterImplementsMirror` proves the refinement to `Mirror` from the same
invariant.  Each step of the server is a Forward, a Join, an Arrive, a Part or an
Unsubscribe of the mirror, or none of them: an accepted `Send` forwards, `Attach`
joins, a written snapshot or delta arrives, a connection that fails, is replaced
or loses its peer parts, and handshakes, `start`, requests, replies and the
writer's taking of a frame are not seen.  `StatesAfter`, the states the frames on
the way carry, is what has to match; the lemmas say what it does with one frame
more (`StatesAppend`), with two batches (`StatesConcat`) and with a shell that has
asked something (`StatesAsked`).  An accepted `Send` puts the state that is
published with it at the end (`SendExtends`: by `Streaming` or `Backlogged` of the
state after the step), and `start` puts on the queue exactly what was promised
(`BacklogIs`, `PrologueRead`).  `Picked` chooses by rank among places, so its two
lemmas (`PickKept`, `PickMore`) rest on each rank being taken once (`RankTaken`, by
induction).

`TrayProofs` proves `TrayNoOrphanItem` and `TrayNoWorkerAfterStop` from `TInv`.
The table and the owner's items disagree between the sections of `ItemAdded`,
`ItemRemoved` and `dropWorker`; what a thread has still to run is what makes up
for it, so the invariant is about programs.  `ItemsServed` is NoOrphanItem
without its last look at the worker, `TableReads` says that a worker of the table
runs, is about to be started, or failed to start and is about to be dropped;
it needs `StartsFirst` (a worker is started before its thread does anything
else) and `StartedOnce` (by one thread, once).  `CloserAt` ties the table to the
place of `App.Close` in its program, `Unbegun` gives a new `dropWorker` a thread with
nothing to run.  `TrayOwnerIsOwner` proves `TSpec => Spec`.

`LimiterProofs` proves `LimiterTypes`, `LimiterSpacing` and
`LimiterSiblingsServed`.  Spacing speaks of pairs of past refreshes; the
invariant adds that `last` is not before any of them and that `perKey` is not
before any of its item's, unless the item is gone, in which case no more follow.
It holds for any set of keys and any positive intervals.  SiblingsServed is a
bound on a wait, proved as a safety property.  An item that waits is eligible from
`Eligible(k)`, the time at which its own interval is over; from then on each
sibling can take a slot before it at most once, since the sibling's next turn
comes a per-item interval later and there are fewer items than global intervals
in that.  Hence it is served by `Due(k)`, which is `Eligible(k)` and one global
interval for each sibling that has passed it already; `Turns` says that a waiting
item's timer or `last` never lies beyond its due time.  This needs finitely many
keys, as a limiter of one process has.

`ItemProxyProofs` proves `ProxyTypes`, `ProxyNoLostWakeup` and
`ProxyClosedIsQuiet`.  For the second the invariant says where the newest change
is at any moment: already shown, in the answer the loop holds, in a read not yet
answered, in the wake slot, or in the channel; and that a proxy nobody drops
stays subscribed.  For the third it adds what a `Close` that waits has seen
(`WaitedFor`): `Start` had returned, so that no goroutine is begun and nothing
subscribed to afterwards; and that before `Start`, or after one that was refused,
there is nothing to give back (`NothingBegun`).

`ItemWorkerProofs` proves of the composed worker `WorkerNoMenuLeak`,
`WorkerNoLostLayout`, `WorkerMenuForward`, `WorkerSupersededRefused`,
`WorkerSignalsVerified`, `WorkerOutcomeTrue` and `WorkerCloseOffered`.  A step of
the worker is one of its menus, of its process or of both, and three invariants
share the work.  `MenuInv`: at most one reader runs or is subscribed, the one
that was built last, and somebody holds it (`Placement`), which is NoMenuLeak; the newest
layout is drawn, in an answer, in a read, in the wake token or in a signal
(`TreeOnItsWay`); nothing drawn, answered or held by a command is ahead of the
application's tree (`NotAhead`, `CommandBehind`).  `ProcInv`: from its last
check to its signal `Terminate` faces the recorded process, nobody, or a process
that began after the check.  `OfferInv`: where the answer of
`inspectOwnership` is until the loop has published it.

`DecodeProofs` proves `TreeIsFaithful` and `TreeLimitsExact` for layouts of any
size and shape, and any limits.  Both follow from one invariant, `TreeInv`, which
speaks of the nodes `D` converted so far and their places `L` in the heap.
`Placed(heap, D, L)`: each node of `D` is at its place, its slice holds exactly those of
its children that are in `D`, in order, and no two slices share an array.
`Queued(stack, D, L)`: the frames are for the children still to come, each with the
*present* place of its parent, deeper nodes on top and of siblings the first.
The hazard is `append`: when it moves a slice, the pointers into the old array are
stale.  `AppendDoes` says what `append` changes of the heap in place and by a
move, `AppendPlaced` that only children of the same node change their place,
and `QueuedAfter` that no frame below the top is for a child of one of those,
because it would be deeper than the top.  So it is the order of the walk that
keeps the pointers good, which is what the faulty variant `Pop_First` of the run
breaks.  An empty stack leaves no node out: the least that is missing would
have a frame.  `Walked(stack, V, L)` and `Checked(V)` say the same of Validate: the
nodes `V` are counted, every other child of one of them has one frame.  A refusal
by either walk is one of the whole menu, because the counts of some of the
nodes are at most those of all.  `LocatedIs` shows that the places `L` are those
that `Located` reaches from the root.

It also proves `PixmapsWithinBudget`: the bytes kept in the sets before
this one and the budget that remains are always the whole budget, and the total of
this set never exceeds what remains, so that no order of the candidates, and no
split over the four sets, exceeds the budget or refuses what fits.

Beyond the assumptions above, `Keys` of the limiter is finite; nothing else is
assumed of the constants than what the modules' `ASSUME`s state.

Some definitions have the form they have because of the proofs.  The library's
induction theorems take an operator as a parameter and `RECURSIVE` costs the SMT
backend, so `Presenter` counts bytes, applies frames and filters a backlog with
recursive functions and cardinalities, `Pixmaps` adds up with a recursive
function, `MenuTree` numbers children by their rank and counts icon bytes as
a set, and `Tray` takes the next proxy from the set of those not made.

Every invariant and every action property that a passing run checks, and both
refinements, are theorems.  Only model-checked:

- liveness (`SupersededEnds`, `DepartedLeave`, `UnwindTerminates`, `DropEnds`,
  `ProxyConverges`, `WorkerEnds`, `MenuConverges`): it rests on fairness, which is
  about ENABLED and out of this prover's reach;
- the four disagreements of section 3, which are counterexamples.

## 6. What is left out

- Framing of messages, conversion of D-Bus values, the text fields of items and
  menus (copies with a default and a limit), the command line, the test bus, the
  socket file and its directory.
- `Activate`, `SecondaryActivate` and `Scroll`, which look up a proxy and call the
  application; the hosts other processes register with the watcher.
- The loss of the bus connection, and with it `Server.Done`: the name is taken
  without allowing replacement, so it is lost only with the bus.
- The bus library drops no signal here; its channels of 32 are unbounded.
- Registrations name their owner by its unique name.  A well-known name is
  resolved to "lives or not"; that it may pass to another owner is not modelled.
- `App.closing` and the fields `unwind` sets to nil change in one step.  The
  presenter server's `Close` is one external step of `Tray`; `Presenter` has its
  steps, and the two are not composed.
- `Limiter.Forget` is for good: a key that is used again by a later relationship
  (TrayKeys) starts without a history in the code as well, so that the spacing
  of one item across its registrations is nothing the model speaks of.
- `Send` that overflows fails its connection in the same step, though the code
  releases the lock between the two.
- `Menu` does not bound the items a tree has; `MenuTree` does.  Between them a
  reading that converts and validates is an answer, any other a failed call.

## 7. Plan

1. Registration addresses with well-known names and their owners, for the entry
   that cannot be removed once its name has no owner.
