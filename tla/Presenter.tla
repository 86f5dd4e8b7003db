---- MODULE Presenter ----
(***************************************************************************)
(* The presenter server of sysc-tray (internal/presenter) composed with    *)
(* the state owner: the handler goroutine of each connection (handshake,   *)
(* attach, start, replacement, command loop, teardown), its writer         *)
(* goroutine, the bounded queue between them and the owner, and Close.     *)
(* A connection is the owner's sink; an owner command and the Send it      *)
(* makes are one joint action.                                             *)
(*                                                                         *)
(* A stretch of code that no other goroutine can observe half done is one  *)
(* action; the windows between an owner command, a section under Server.mu *)
(* or connection.mu, and a fail are kept apart.                            *)
(***************************************************************************)
EXTENDS StateOwner, FiniteSetsExt, SequencesExt

CONSTANTS
    PixmapBytes,        \* function: pixmap bytes of an item
    MaxPixmapBytesAggregate,
    MaxQueueMessages,   \* protocol.MaxPresenterQueueMessages
    MaxQueueBytes,      \* protocol.MaxPresenterDecodedBytes
    MaxRequest          \* bound: largest request ID a shell uses

ASSUME PresenterAssumption ==
    /\ PixmapBytes \in [Items -> Nat]
    /\ MaxPixmapBytesAggregate \in Nat
    /\ MaxQueueMessages \in Nat /\ MaxQueueBytes \in Nat
    /\ MaxRequest \in Nat

VARIABLES
    conn,       \* per connection: the connection struct and its goroutines
    shell,      \* per connection: what its peer has read and believes
    current,    \* Server.current
    nextGen,    \* Server.nextGen
    closing,    \* Server.Close: "open", "stopping", "waiting", "done"
    closeSaw    \* the presenter Close read before it released Server.mu

closeVars == <<closing, closeSaw>>
pvars == <<vars, conn, shell, current, nextGen, closeVars>>

----
(* Messages, and the connection struct.                                    *)

HelloMsg       == [kind |-> "hello", seq |-> 0]
SnapshotMsg(v) == [kind |-> "snapshot", seq |-> v.sequence, body |-> v]
DeltaMsg(n, d) == [kind |-> "delta", seq |-> n, body |-> d]
ReplyMsg(id)   == [kind |-> "reply", seq |-> 0, id |-> id]

\* A delta that brings an item or a menu.
BringsEntry(m) == m.kind = "delta" /\ m.body.kind # "item-removed"

\* The encoded length of a message grows with what it brings.
Size(m) ==
    CASE m.kind = "snapshot" -> 1 + Cardinality(m.body.items)
      [] BringsEntry(m)      -> 2
      [] OTHER               -> 1

\* The bytes of a sequence of messages: <<i, b>> is byte b of message i.
Bytes(s) == UNION {{i} \X (1..Size(s[i])) : i \in DOMAIN s}

TotalSize(s) == Cardinality(Bytes(s))

\* The elements of a sequence at the places I, in order.
Picked(s, I) ==
    [n \in 1..Cardinality(I) |-> s[CHOOSE i \in I : Cardinality({j \in I : j <= i}) = n]]

NewConn ==
    [step |-> "unconnected", generation |-> 0, baseline |-> EmptyView, old |-> NoSink,
     started |-> FALSE, failed |-> FALSE, pending |-> <<>>, queue |-> <<>>,
     queuedMessages |-> 0, queuedBytes |-> 0, lastSequence |-> 0,
     lastRequestID |-> 0, writer |-> "none", held |-> <<>>]

\* fail: mark the connection, close its socket, wake its writer.  What is
\* still queued can no longer be written, and is forgotten here.
Failed(k) ==
    [k EXCEPT !.failed = TRUE, !.pending = <<>>, !.queue = <<>>,
              !.queuedMessages = 0, !.queuedBytes = 0]

\* Faulty variant: reserve looks at the number of messages alone.
CanReserve_Messages(k, m) == k.queuedMessages + 1 <= MaxQueueMessages

\* reserve and release.
CanReserve(k, m) ==
    /\ k.queuedMessages + 1 <= MaxQueueMessages
    /\ k.queuedBytes + Size(m) <= MaxQueueBytes

Reserve(k, m) ==
    [k EXCEPT !.queuedMessages = @ + 1, !.queuedBytes = @ + Size(m)]

Release(k, m) ==
    [k EXCEPT !.queuedMessages = @ - 1, !.queuedBytes = @ - Size(m)]

\* followsLocked with ValidateNextSequence.
Follows(k, seq) == seq = 0 \/ seq = k.lastSequence + 1

----
(* The peer (external): it reads frames in order and applies them.         *)

NewShell == [stage |-> "connecting", open |-> TRUE, view |-> EmptyView,
             asked |-> <<>>, answered |-> <<>>]

\* A peer that has left, or whose connection is gone.
LeftShell == [NewShell EXCEPT !.open = FALSE]

\* What a shell makes of a frame.  One that is out of place confuses it.
Understand(p, m) ==
    CASE m.kind = "hello" /\ p.stage = "connecting" -> [p EXCEPT !.stage = "greeted"]
      [] m.kind = "snapshot" /\ p.stage = "greeted" ->
            [p EXCEPT !.stage = "live", !.view = m.body]
      [] m.kind = "delta" /\ p.stage = "live" /\ m.seq = p.view.sequence + 1 ->
            [p EXCEPT !.view = Apply(@, m.body)]
      [] m.kind = "reply" /\ p.stage = "live" -> [p EXCEPT !.answered = Append(@, m.id)]
      [] OTHER -> [p EXCEPT !.stage = "confused"]

\* The shell p after each one of the frames ms, and after all of them.
Reading(p, ms) ==
    LET after[n \in 0..Len(ms)] == IF n = 0 THEN p ELSE Understand(after[n - 1], ms[n])
    IN  after

After(p, ms) == Reading(p, ms)[Len(ms)]

----
(* The owner's commands, with the Send each one makes.                     *)

\* connection.Send returns nil.
SendAccepts(k, m) ==
    /\ ~k.failed
    /\ CanReserve(k, m)
    /\ k.started => Follows(k, m.seq) /\ Len(k.queue) < MaxQueueMessages

\* The connection after a Send that returned nil.
Sent(k, m) ==
    IF k.started
    THEN [Reserve(k, m) EXCEPT !.queue = Append(@, m), !.lastSequence = m.seq]
    ELSE [Reserve(k, m) EXCEPT !.pending = Append(@, m)]

Send(c, m) ==
    \/ /\ SendAccepts(conn[c], m)
       /\ conn' = [conn EXCEPT ![c] = Sent(@, m)]
       /\ sink' = sink
    \/ /\ ~SendAccepts(conn[c], m)
       /\ conn' = [conn EXCEPT ![c] = Failed(@)]
       /\ sink' = NoSink

Deliver(d) ==
    /\ IF d = NoDelta \/ sink = NoSink
       THEN UNCHANGED conn
       ELSE Send(sink, DeltaMsg(sequence + 1, d))
    /\ UNCHANGED <<shell, current, nextGen, closeVars>>

OwnerAdd(key) == Add(key) /\ Deliver(AddDelta(key))
OwnerUpdate(key, item) == Update(key, item) /\ Deliver(UpdateDelta(key, item))
OwnerUpdateMenu(key, menu) ==
    UpdateMenu(key, menu) /\ Deliver(UpdateMenuDelta(key, menu))
OwnerRemove(key) == RemoveItem(key) /\ Deliver(RemoveDelta(key))

----
(* handle: one connection's goroutine.                                     *)

At(c, step) == conn[c].step = step

\* A handler step that touches only this connection.
Local(c, k) ==
    /\ conn' = [conn EXCEPT ![c] = k]
    /\ UNCHANGED <<vars, shell, current, nextGen, closeVars>>

Goto(c, step) == Local(c, [conn[c] EXCEPT !.step = step])

\* handle returns: its deferred function first fails the connection.
Abort(c) == Local(c, [Failed(conn[c]) EXCEPT !.step = "draining"])

\* acceptLoop takes a connection while the listener is open.
acceptLoop(c) ==
    /\ At(c, "unconnected")
    /\ closing \in {"open", "stopping"}
    /\ Goto(c, "handshake")

\* A foreign user, a bad hello, a missing capability, a peer that went away
\* or one that stayed silent past the handshake deadline.
HandshakeFails(c) ==
    /\ At(c, "handshake")
    /\ Abort(c)

\* readHello succeeded: take a generation under Server.mu.
HandshakeDone(c) ==
    /\ At(c, "handshake")
    /\ nextGen' = nextGen + 1
    /\ conn' = [conn EXCEPT ![c].step = "numbered", ![c].generation = nextGen + 1]
    /\ UNCHANGED <<vars, shell, current, closeVars>>

\* owner.Attach(c): sink and baseline in one owner command.
AttachConn(c) ==
    /\ At(c, "numbered")
    /\ Attach(c)
    /\ conn' = [conn EXCEPT ![c].step = "attached", ![c].baseline = snapshotLocked]
    /\ UNCHANGED <<shell, current, nextGen, closeVars>>

\* Snapshot.Validate: the item limit and the aggregate pixmap budget.
SnapshotValid(v) ==
    /\ Cardinality(v.items) <= MaxItems
    /\ MapThenSumSet(LAMBDA e : PixmapBytes[e.item], v.items) <= MaxPixmapBytesAggregate

SnapshotInvalid(c) ==
    /\ At(c, "attached")
    /\ ~SnapshotValid(conn[c].baseline)
    /\ Abort(c)

\* start: the prologue, then what Send kept back since the baseline.
Prologue(k) == <<HelloMsg, SnapshotMsg(k.baseline)>>

Backlog(k) == Picked(k.pending, {i \in DOMAIN k.pending : k.pending[i].seq > k.baseline.sequence})

Early(k) == Picked(k.pending, {i \in DOMAIN k.pending : k.pending[i].seq <= k.baseline.sequence})

Reserved(k) == Reserve(Reserve(k, HelloMsg), SnapshotMsg(k.baseline))

StartAccepts(k) ==
    /\ ~k.failed
    /\ Reserved(k).queuedMessages <= MaxQueueMessages
    /\ Reserved(k).queuedBytes <= MaxQueueBytes
    /\ \A i \in DOMAIN Backlog(k) : Backlog(k)[i].seq = k.baseline.sequence + i
    /\ Len(Prologue(k) \o Backlog(k)) <= MaxQueueMessages

\* Faulty variants: what arrived before the snapshot was sent is forgotten;
\* the backlog goes ahead of the prologue.
Started_BacklogLost(k) ==
    [Reserved(k) EXCEPT
        !.queue = Prologue(k), !.pending = <<>>, !.started = TRUE, !.baseline = EmptyView,
        !.lastSequence = k.baseline.sequence + Len(Backlog(k)), !.step = "started"]

Started_BacklogFirst(k) ==
    [Reserved(k) EXCEPT
        !.queue = Backlog(k) \o Prologue(k), !.pending = <<>>, !.started = TRUE, !.baseline = EmptyView,
        !.lastSequence = k.baseline.sequence + Len(Backlog(k)), !.step = "started"]

Started(k) ==
    [Reserved(k) EXCEPT
        !.queuedMessages = @ - Len(Early(k)), !.queuedBytes = @ - TotalSize(Early(k)),
        !.queue = Prologue(k) \o Backlog(k), !.pending = <<>>, !.started = TRUE,
        !.baseline = EmptyView,
        !.lastSequence = k.baseline.sequence + Len(Backlog(k)), !.step = "started"]

start(c) ==
    /\ At(c, "attached")
    /\ SnapshotValid(conn[c].baseline)
    /\ IF StartAccepts(conn[c])
       THEN Local(c, Started(conn[c]))
       ELSE Goto(c, "unstarted")

\* handle detaches a connection that could not start, then fails it.
StartFailed(c) ==
    /\ At(c, "unstarted")
    /\ IF sink = c THEN Detach(c) ELSE UNCHANGED vars
    /\ conn' = [conn EXCEPT ![c] = [Failed(@) EXCEPT !.step = "draining"]]
    /\ UNCHANGED <<shell, current, nextGen, closeVars>>

\* Become the current presenter, under Server.mu.
Replace(c) ==
    /\ At(c, "started")
    /\ current' = c
    /\ conn' = [conn EXCEPT ![c].step = "replacing", ![c].old = current]
    /\ UNCHANGED <<vars, shell, nextGen, closeVars>>

\* Faulty variant: the presenter that was replaced is left running.
FailOld_Forgotten(c) ==
    /\ At(c, "replacing")
    /\ Local(c, [conn[c] EXCEPT !.step = "reading", !.writer = "idle", !.old = NoSink])

\* Fail the presenter that was replaced, then start the writer.
FailOld(c) ==
    /\ At(c, "replacing")
    /\ conn' = [d \in Sinks |->
                  IF d = c THEN [conn[c] EXCEPT !.step = "reading", !.writer = "idle", !.old = NoSink]
                  ELSE IF d = conn[c].old THEN Failed(conn[d])
                  ELSE conn[d]]
    /\ UNCHANGED <<vars, shell, current, nextGen, closeVars>>

----
(* readLoop and reply.                                                     *)

\* Faulty variant: a replayed request ID is taken.
RequestIsNew_OrSame(k, id) == id >= k.lastRequestID

RequestIsNew(k, id) == id > k.lastRequestID

\* A well-formed command with a new request ID arrives and is dispatched.
ReadCommand(c, id) ==
    /\ At(c, "reading")
    /\ ~conn[c].failed
    /\ shell[c].open
    /\ RequestIsNew(conn[c], id)
    /\ conn' = [conn EXCEPT ![c].step = "dispatching", ![c].lastRequestID = id]
    /\ shell' = [shell EXCEPT ![c].asked = Append(@, id)]
    /\ UNCHANGED <<vars, current, nextGen, closeVars>>

\* A malformed frame, or a request ID that does not increase.
ReadRefused(c) ==
    /\ At(c, "reading")
    /\ ~conn[c].failed /\ shell[c].open
    /\ Abort(c)

ReadFails(c) ==
    /\ At(c, "reading")
    /\ conn[c].failed \/ ~shell[c].open
    /\ Abort(c)

\* dispatch returned; queue its reply.
reply(c) ==
    LET k == conn[c]
        m == ReplyMsg(k.lastRequestID) IN
    /\ At(c, "dispatching")
    /\ IF ~k.failed /\ CanReserve(k, m) /\ Len(k.queue) < MaxQueueMessages
       THEN Local(c, [Reserve(k, m) EXCEPT !.queue = Append(@, m), !.step = "reading"])
       ELSE Abort(c)

----
(* writeLoop.                                                              *)

WriterTake(c) ==
    /\ conn[c].writer = "idle" /\ conn[c].queue # <<>>
    /\ Local(c, [conn[c] EXCEPT !.writer = "writing",
                    !.held = <<Head(conn[c].queue)>>, !.queue = Tail(@)])

Written(k, m) == [Release(k, m) EXCEPT !.writer = "idle", !.held = <<>>]

\* WriteFrame returns once the peer has room for the frame.
WriteFrame(c) ==
    LET m == Head(conn[c].held) IN
    /\ conn[c].writer = "writing"
    /\ ~conn[c].failed /\ shell[c].open
    /\ conn' = [conn EXCEPT ![c] = Written(@, m)]
    /\ shell' = [shell EXCEPT ![c] = Understand(@, m)]
    /\ UNCHANGED <<vars, current, nextGen, closeVars>>

WriteFails(c) ==
    /\ conn[c].writer = "writing"
    /\ conn[c].failed \/ ~shell[c].open
    /\ Local(c, [Failed(conn[c]) EXCEPT !.writer = "done"])

WriterExit(c) ==
    /\ conn[c].writer = "idle" /\ conn[c].failed
    /\ Local(c, [conn[c] EXCEPT !.writer = "done"])

----
(* handle's deferred teardown: wait for the writer, then connectionDone.   *)

connectionDone(c) ==
    /\ At(c, "draining")
    /\ conn[c].writer \in {"none", "done"}
    /\ current' = IF current = c THEN NoSink ELSE current
    /\ conn' = [conn EXCEPT ![c].step = "detaching"]
    /\ UNCHANGED <<vars, shell, nextGen, closeVars>>

\* Faulty variant: the handler returns without detaching.
DetachConn_Skipped(c) ==
    /\ At(c, "detaching")
    /\ Goto(c, "gone")

\* A connection whose handler has returned.
GoneConn == [NewConn EXCEPT !.step = "gone", !.failed = TRUE]

DetachConn(c) ==
    /\ At(c, "detaching")
    /\ IF sink = c THEN Detach(c) ELSE UNCHANGED vars
    /\ conn' = [conn EXCEPT ![c] = GoneConn]
    /\ shell' = [shell EXCEPT ![c] = LeftShell]
    /\ UNCHANGED <<current, nextGen, closeVars>>

\* The peer (external) may leave at any time.
PeerLeaves(c) ==
    /\ ~At(c, "unconnected") /\ shell[c].open
    /\ shell' = [shell EXCEPT ![c] = LeftShell]
    /\ UNCHANGED <<vars, conn, current, nextGen, closeVars>>

----
(* Server.Close.                                                           *)

\* close(stop), and read the current presenter under Server.mu.
CloseBegin ==
    /\ closing = "open"
    /\ closing' = "stopping"
    /\ closeSaw' = current
    /\ UNCHANGED <<vars, conn, shell, current, nextGen>>

\* With the lock released: listener.Close and current.fail.
CloseFail ==
    /\ closing = "stopping"
    /\ closing' = "waiting"
    /\ conn' = [c \in Sinks |-> IF c = closeSaw THEN Failed(conn[c]) ELSE conn[c]]
    /\ UNCHANGED <<vars, shell, current, nextGen, closeSaw>>

Finished(c) == conn[c].step \in {"unconnected", "gone"}

\* Faulty variant: Close does not wait for the handlers.
CloseReady_NoWait == TRUE

CloseReady == \A c \in Sinks : Finished(c)

\* wg.Wait returned: remove the socket, close(done).
CloseDone ==
    /\ closing = "waiting"
    /\ CloseReady
    /\ closing' = "done"
    /\ UNCHANGED <<vars, conn, shell, current, nextGen, closeSaw>>

----
PInit ==
    /\ Init
    /\ conn = [c \in Sinks |-> NewConn]
    /\ shell = [c \in Sinks |-> NewShell]
    /\ current = NoSink
    /\ nextGen = 0
    /\ closing = "open"
    /\ closeSaw = NoSink

Owner ==
    \E key \in Keys :
        \/ OwnerAdd(key)
        \/ \E item \in Items : OwnerUpdate(key, item)
        \/ \E menu \in Menus : OwnerUpdateMenu(key, menu)
        \/ OwnerRemove(key)

\* What the handler does by itself, once it has its hello.
Handler(c) ==
    \/ AttachConn(c) \/ SnapshotInvalid(c) \/ start(c) \/ StartFailed(c)
    \/ Replace(c) \/ FailOld(c) \/ ReadFails(c) \/ reply(c)
    \/ connectionDone(c) \/ DetachConn(c)

Writer(c) == WriterTake(c) \/ WriteFails(c) \/ WriterExit(c)

Handshake(c) == HandshakeFails(c) \/ HandshakeDone(c)

\* What the peer decides: to connect, to command, to read, to leave.
Peer(c) ==
    \/ acceptLoop(c) \/ ReadRefused(c) \/ WriteFrame(c) \/ PeerLeaves(c)
    \/ \E id \in 1..MaxRequest : ReadCommand(c, id)

CloseStep == CloseFail \/ CloseDone

\* The daemon while nothing has asked it to stop.
Serving ==
    \/ Owner
    \/ \E c \in Sinks : Handshake(c) \/ Handler(c) \/ Writer(c) \/ Peer(c)

PNext ==
    \/ Serving
    \/ CloseBegin
    \/ CloseStep

\* Goroutines run on; a handshake ends by its deadline at the latest; a
\* D-Bus call ends by its timeout.  Nothing is assumed of the peers, of the
\* owner's callers or of a signal to stop.
PFairness ==
    /\ \A c \in Sinks : WF_pvars(Handshake(c)) /\ WF_pvars(Handler(c)) /\ WF_pvars(Writer(c))
    /\ WF_pvars(CloseStep)

PSpec == PInit /\ [][PNext]_pvars

FairPSpec == PSpec /\ PFairness

FairServing == PInit /\ [][Serving]_pvars /\ PFairness

----
(* Properties.                                                             *)

\* What has been accepted for a connection and not yet read by its peer.
Outstanding(k) == k.held \o k.queue \o k.pending

\* connection.go's comment: "reserve and release keep the queue inside both its
\* message and byte bounds".  One account is kept by Send, start, reply and the
\* writer.  It is exact for every message from Send to the end of its write, the
\* one in the writer's hands included: an account that leaked would drop a
\* presenter that keeps up, one released twice would let the queue outgrow a
\* bound.
QueueAccounting ==
    \A c \in Sinks :
        LET k == conn[c] IN
        ~k.failed /\ k.step # "unstarted" =>
            /\ k.queuedMessages = Len(Outstanding(k))
            /\ k.queuedBytes = TotalSize(Outstanding(k))
            /\ k.queuedMessages <= MaxQueueMessages
            /\ k.queuedBytes <= MaxQueueBytes

\* connection's comment: "the shell sees hello, then the snapshot, then
\* contiguous deltas, in that order", whatever the owner publishes during the
\* handshake and wherever the connection fails.
ShellNeverConfused == \A c \in Sinks : shell[c].stage # "confused"

\* The pipeline loses nothing: as long as a connection is the sink and neither
\* end has closed it, what its peer has read, followed by everything still queued for it,
\* amounts to exactly the state the owner publishes now.
PipelineConverges ==
    \A c \in Sinks :
        LET k == conn[c]
            base == IF k.started THEN shell[c] ELSE [NewShell EXCEPT !.stage = "live", !.view = k.baseline] IN
        sink = c /\ ~k.failed /\ shell[c].open /\ k.step # "unstarted" =>
            After(base, Outstanding(k)).view = view

\* readLoop and reply: a command runs at most once, in the order asked, and
\* each one that ran is answered in that order on its own connection.
Increasing(s) == \A i \in 1..(Len(s) - 1) : s[i] < s[i + 1]

Replies(ms) == Cardinality({i \in DOMAIN ms : ms[i].kind = "reply"})

CommandsOnce ==
    \A c \in Sinks :
        LET k == conn[c]
            ran == IF k.step = "dispatching" THEN Front(shell[c].asked) ELSE shell[c].asked IN
        /\ Increasing(shell[c].asked)
        /\ IsPrefix(shell[c].answered, shell[c].asked)
        /\ ~k.failed /\ shell[c].open /\ k.step \in {"reading", "dispatching"} =>
              Len(ran) = Len(shell[c].answered) + Replies(Outstanding(k))

\* Every way out of handle detaches and forgets its connection: the owner is
\* never left with a sink, nor the server with a current presenter, whose
\* handler has returned.
NoDeadSink ==
    /\ sink # NoSink => ~Finished(sink)
    /\ current # NoSink => ~Finished(current)

\* Close returns only when no handler is left and nothing is attached.
ClosedClean ==
    closing = "done" => sink = NoSink /\ current = NoSink /\ \A c \in Sinks : Finished(c)

\* README: "The daemon serves one presenter".  A connection that another one
\* replaced is closed down, and a failed one always ends.
SupersededEnds ==
    \A c \in Sinks :
        (conn[c].failed \/ (At(c, "reading") /\ current # c)) ~> At(c, "gone")

\* server.go's comment: "A newer valid presenter replaces the previous
\* generation".
NewerReplaces ==
    [][current # NoSink /\ current' \notin {NoSink, current} =>
          conn'[current'].generation > conn[current].generation]_pvars

\* README: "SIGINT and SIGTERM shut it down".  Close returns.
CloseTerminates == closing = "stopping" ~> closing = "done"

\* The connection as a pipe of states.  A connection is cut from the feed
\* until it is attached, and once it failed, could not start or lost its peer.
IsCut(c) == \/ conn[c].failed \/ ~shell[c].open
            \/ conn[c].step \notin {"attached", "started", "replacing", "reading", "dispatching"}

Seen(v) == [sequence |-> v.sequence, items |-> v.items]

\* What the shell will have held, one after the other, once it has read ms.
StatesAfter(p, ms) ==
    LET after == Reading(p, ms)
    IN  Picked([n \in 1..Len(ms) |-> Seen(after[n].view)],
               {n \in 1..Len(ms) : ms[n].kind \in {"snapshot", "delta"}})

OnTheWay(c) ==
    IF IsCut(c) THEN <<>>
    ELSE IF conn[c].started THEN StatesAfter(shell[c], Outstanding(conn[c]))
    ELSE StatesAfter(NewShell, Prologue(conn[c]) \o Backlog(conn[c]))

M == INSTANCE Mirror WITH
    Readers <- Sinks, Nobody <- NoSink,
    content <- Published, number <- sequence, reader <- sink, copy <- Seen(view),
    ahead <- [c \in Sinks |-> OnTheWay(c)],
    held  <- [c \in Sinks |-> IF IsCut(c) THEN Seen(EmptyView) ELSE Seen(shell[c].view)],
    cut   <- [c \in Sinks |-> IsCut(c)]

\* The presenter implements the mirror: baseline, backlog, queue and writer
\* bring the shell each published state once and in order, whatever happens
\* during its handshake, and a shell that cannot be brought one is brought
\* none after it.
ImplementsMirror == M!MirrorSpec

====
