---- MODULE Menu ----
(***************************************************************************)
(* The menu readers of one worker: menu.Proxy (internal/menu/proxy.go),    *)
(* how bindMenu (internal/app/run.go) replaces one when the item's menu    *)
(* path changes, and the menu commands of a shell.  The application's      *)
(* trees are external; a tree is its revision and a version that property  *)
(* changes advance too.  Signals wait in a set: the order in which the bus *)
(* hands them over is not relied upon.                                     *)
(***************************************************************************)
EXTENDS Worker

CONSTANTS MaxMenus,     \* bound: menu readers built
          MaxChanges,   \* bound: changes of the application
          MaxCommands   \* bound: menu commands of the shell

ASSUME MenuAssumption == {MaxMenus, MaxChanges, MaxCommands} \subseteq Nat

VARIABLES
    tree,       \* the application: [rev, ver] of the tree at each path
    changes,    \* how often it has changed
    menus,      \* the readers built so far
    built,      \* how many
    menu,       \* worker.menu: the reader in place, 0 for nil
    menuPath,   \* worker.menuPath
    previous,   \* bindMenu's local: the reader it replaces
    refused,    \* history: Start failed for menuPath
    drawn,      \* the owner's menu: [by, path, rev, ver]
    cmd,        \* the command in progress
    commands    \* how many so far

menuVars == <<tree, changes, menus, built, menu, menuPath, previous, refused,
              drawn, cmd, commands>>

Readers == 1..MaxMenus

NoTree == [rev |-> 0, ver |-> 0]

Undrawn == [by |-> 0, path |-> NoPath, rev |-> 0, ver |-> 0]

NoCommand == [at |-> "none", shown |-> Undrawn, to |-> 0]

\* NewProxy and Start: subscribed, both goroutines running, one token to wake
\* the loop.
NewProxy(p) == [path |-> p, stop |-> FALSE, pump |-> TRUE, loop |-> "select",
                signals |-> {}, wake |-> TRUE, got |-> NoTree,
                revision |-> 0, known |-> FALSE, failed |-> FALSE]

\* A reader that is not there: never built, or closed.
NoProxy == [path |-> NoPath, stop |-> TRUE, pump |-> FALSE, loop |-> "done",
            signals |-> {}, wake |-> FALSE, got |-> NoTree,
            revision |-> 0, known |-> FALSE, failed |-> FALSE]

----
(* The goroutines of reader i.                                             *)

Only(i, m) ==
    /\ menus' = [menus EXCEPT ![i] = m]
    /\ UNCHANGED <<workerVars, tree, changes, built, menu, menuPath, previous, refused,
                   drawn, cmd, commands>>

\* A LayoutUpdated older than the published tree is superseded.
Superseded(m, s) == s.kind = "layout" /\ m.known /\ s.rev < m.revision

\* handle.  Faulty variant: a change of properties is ignored.
PumpSignal_LayoutOnly(i) == \E s \in menus[i].signals :
    /\ menus[i].pump
    /\ Only(i, [menus[i] EXCEPT !.signals = @ \ {s},
                                !.wake = @ \/ (s.kind = "layout" /\ ~Superseded(menus[i], s))])

PumpSignal(i) == \E s \in menus[i].signals :
    /\ menus[i].pump
    /\ Only(i, [menus[i] EXCEPT !.signals = @ \ {s}, !.wake = @ \/ ~Superseded(menus[i], s)])

PumpStop(i) ==
    /\ menus[i].pump /\ menus[i].stop
    /\ Only(i, [menus[i] EXCEPT !.pump = FALSE])

LoopWake(i) ==
    /\ menus[i].loop = "select" /\ menus[i].wake
    /\ Only(i, [menus[i] EXCEPT !.wake = FALSE, !.loop = "calling"])

LoopStop(i) ==
    /\ menus[i].loop = "select" /\ (menus[i].stop \/ closing)
    /\ Only(i, [menus[i] EXCEPT !.loop = "done"])

\* GetLayout answers with the tree of this moment, and it converts and
\* validates (module MenuTree).
Answer(i) ==
    /\ menus[i].loop = "calling"
    /\ Only(i, [menus[i] EXCEPT !.loop = "holding", !.got = tree[menus[i].path]])

\* A timeout, an error, a malformed or invalid tree, or the cancelled context.
\* onMenu ignores the error and nothing tries again.
CallFails(i) ==
    /\ menus[i].loop = "calling"
    /\ Only(i, [menus[i] EXCEPT !.loop = "select", !.failed = TRUE])

\* Faulty variant: the revision is kept at the first one read.
Install_Once(i) ==
    /\ menus[i].loop = "holding"
    /\ Only(i, [menus[i] EXCEPT !.loop = "publishing", !.known = TRUE,
                                !.revision = IF menus[i].known THEN @ ELSE menus[i].got.rev])

\* revision and known, under Proxy.mu.
Install(i) ==
    /\ menus[i].loop = "holding"
    /\ Only(i, [menus[i] EXCEPT !.loop = "publishing", !.known = TRUE,
                                !.revision = menus[i].got.rev])

\* onMenu: UpdateMenu is ignored once the item is retired.
Publish(i) ==
    /\ menus[i].loop = "publishing"
    /\ menus' = [menus EXCEPT ![i].loop = "select", ![i].failed = FALSE, ![i].got = NoTree]
    /\ drawn' = IF closing \/ life = "retired" THEN drawn
                ELSE [by |-> i, path |-> menus[i].path,
                      rev |-> menus[i].got.rev, ver |-> menus[i].got.ver]
    /\ UNCHANGED <<workerVars, tree, changes, built, menu, menuPath, previous, refused,
                   cmd, commands>>

\* Close: cancel and stop, ...  Faulty variant: wait for a stop nobody gave.
Stopped_Later(i) == menus

Stopped(i) == [menus EXCEPT ![i].stop = TRUE]

\* ... wait for both goroutines, ...
Returned(i) == menus[i].loop = "done" /\ ~menus[i].pump

\* ... and unsubscribe.
Closed(i) == [menus EXCEPT ![i] = NoProxy]

----
(* bindMenu, on the item's reading loop.                                   *)

\* Faulty variant: a worker that has a menu keeps it.
Binds_Once == InTable /\ menuPath # reading /\ menu = 0

Binds == InTable /\ menuPath # reading

bindSkip ==
    /\ ~Binds /\ ItemStep("bind", "select")
    /\ UNCHANGED menuVars

\* The first section under the lock.
bindMenu ==
    /\ Binds /\ ItemStep("bind", "previous")
    /\ previous' = menu
    /\ menu' = 0
    /\ menuPath' = reading
    /\ refused' = FALSE
    /\ UNCHANGED <<tree, changes, menus, built, drawn, cmd, commands>>

\* previous.Close().  Faulty variant: in the background.
ClosePrevious_Async ==
    /\ ItemStep("previous", IF reading = NoPath THEN "select" ELSE "start")
    /\ menus' = IF previous = 0 THEN menus ELSE Stopped(previous)
    /\ previous' = 0
    /\ UNCHANGED <<tree, changes, built, menu, menuPath, refused, drawn, cmd, commands>>

ClosePrevious ==
    /\ ItemStep("previous", "waiting")
    /\ menus' = IF previous = 0 THEN menus ELSE Stopped(previous)
    /\ UNCHANGED <<tree, changes, built, menu, menuPath, previous, refused, drawn, cmd, commands>>

PreviousClosed ==
    /\ previous # 0 => Returned(previous)
    /\ ItemStep("waiting", IF reading = NoPath THEN "select" ELSE "start")
    /\ menus' = IF previous = 0 THEN menus ELSE Closed(previous)
    /\ previous' = 0
    /\ UNCHANGED <<tree, changes, built, menu, menuPath, refused, drawn, cmd, commands>>

StartMenu ==
    /\ built < MaxMenus
    /\ ItemStep("start", "place")
    /\ built' = built + 1
    /\ menus' = [menus EXCEPT ![built'] = NewProxy(reading)]
    /\ UNCHANGED <<tree, changes, menu, menuPath, previous, refused, drawn, cmd, commands>>

\* The bus refuses the match rules; menuPath stays recorded.
StartMenuFails ==
    /\ ItemStep("start", "select")
    /\ refused' = TRUE
    /\ UNCHANGED <<tree, changes, menus, built, menu, menuPath, previous, drawn, cmd, commands>>

\* The second section under the lock.  Faulty variant: without the recheck.
MayPlace_Always == TRUE

MayPlace == InTable /\ menuPath = reading

PlaceMenu ==
    /\ MayPlace /\ ItemStep("place", "select")
    /\ menu' = built
    /\ UNCHANGED <<tree, changes, menus, built, menuPath, previous, refused, drawn, cmd, commands>>

DiscardMenu ==
    /\ ~MayPlace /\ ItemStep("place", "discarding")
    /\ menus' = Stopped(built)
    /\ UNCHANGED <<tree, changes, built, menu, menuPath, previous, refused, drawn, cmd, commands>>

MenuDiscarded ==
    /\ ItemStep("discarding", "select")
    /\ Returned(built)
    /\ menus' = Closed(built)
    /\ UNCHANGED <<tree, changes, built, menu, menuPath, previous, refused, drawn, cmd, commands>>

----
(* closeWorker's first half, and the item's retirement.                    *)

CloseMenu ==
    /\ life = "out"
    /\ life' = "menu"
    /\ menus' = IF menu = 0 THEN menus ELSE Stopped(menu)
    /\ UNCHANGED <<closing, wake, step, reading, path, tree, changes, built, menu, menuPath,
                   previous, refused, drawn, cmd, commands>>

MenuClosed ==
    /\ life = "menu"
    /\ menu # 0 => Returned(menu)
    /\ life' = "item"
    /\ menus' = IF menu = 0 THEN menus ELSE Closed(menu)
    /\ UNCHANGED <<closing, wake, step, reading, path, tree, changes, built, menu, menuPath,
                   previous, refused, drawn, cmd, commands>>

\* owner.Remove.
RetireItem ==
    /\ life = "closed"
    /\ life' = "retired"
    /\ drawn' = Undrawn
    /\ UNCHANGED <<closing, wake, step, reading, path, tree, changes, menus, built, menu,
                   menuPath, previous, refused, cmd, commands>>

----
(* A shell's command on the tree it drew: MenuOpen, MenuSelect, MenuClose  *)
(* and AboutToShow.                                                        *)

Command(c) ==
    /\ cmd' = c
    /\ UNCHANGED <<workerVars, tree, changes, menus, built, menu, menuPath, previous, refused, drawn>>

Click ==
    /\ cmd.at = "none" /\ drawn # Undrawn /\ commands < MaxCommands
    /\ commands' = commands + 1
    /\ Command([at |-> "clicked", shown |-> drawn, to |-> 0])

\* The worker is looked up under the lock.
menuProxy ==
    /\ cmd.at = "clicked"
    /\ Command(IF life = "table" /\ menu # 0 THEN [cmd EXCEPT !.at = "found", !.to = menu]
               ELSE NoCommand)
    /\ UNCHANGED commands

\* The revision is compared; a reader that was stopped meanwhile refuses too,
\* the call failing at once with its cancelled context.
check ==
    /\ cmd.at = "found"
    /\ Command(IF menus[cmd.to].revision = cmd.shown.rev /\ ~menus[cmd.to].stop
               THEN [cmd EXCEPT !.at = "passed"] ELSE NoCommand)
    /\ UNCHANGED commands

event ==
    /\ cmd.at = "passed"
    /\ Command(NoCommand)
    /\ UNCHANGED commands

\* The application asks for a refresh before the menu is drawn.
AboutToShow ==
    /\ cmd.at = "passed" /\ ~menus[cmd.to].stop
    /\ cmd' = NoCommand
    /\ menus' = [menus EXCEPT ![cmd.to].wake = TRUE]
    /\ UNCHANGED <<workerVars, tree, changes, built, menu, menuPath, previous, refused, drawn, commands>>

----
(* The application (external).                                             *)

Told(p, s) == [i \in Readers |->
    IF menus[i].path = p THEN [menus[i] EXCEPT !.signals = @ \cup {s}] ELSE menus[i]]

ChangeTree(p, t, s) ==
    /\ changes < MaxChanges
    /\ changes' = changes + 1
    /\ tree' = [tree EXCEPT ![p] = t]
    /\ menus' = Told(p, s)
    /\ UNCHANGED <<workerVars, built, menu, menuPath, previous, refused, drawn, cmd, commands>>

LayoutUpdated(p) == ChangeTree(p, [rev |-> tree[p].rev + 1, ver |-> tree[p].ver + 1],
                               [kind |-> "layout", rev |-> tree[p].rev + 1])

ItemsPropertiesUpdated(p) == ChangeTree(p, [tree[p] EXCEPT !.ver = @ + 1],
                                        [kind |-> "properties", rev |-> 0])

Advertise(p) ==
    /\ changes < MaxChanges /\ ChangePath(p)
    /\ changes' = changes + 1
    /\ UNCHANGED <<tree, menus, built, menu, menuPath, previous, refused, drawn, cmd, commands>>

----
MenuInit ==
    /\ tree = [p \in Paths |-> [rev |-> 1, ver |-> 1]]
    /\ changes = 0
    /\ menus = [i \in Readers |-> NoProxy]
    /\ built = 0
    /\ menu = 0
    /\ menuPath = NoPath
    /\ previous = 0
    /\ refused = FALSE
    /\ drawn = Undrawn
    /\ cmd = NoCommand
    /\ commands = 0

ReaderStep(i) == PumpSignal(i) \/ PumpStop(i) \/ LoopWake(i) \/ LoopStop(i)
                 \/ Install(i) \/ Publish(i)

Binding == \/ bindSkip \/ bindMenu \/ ClosePrevious \/ PreviousClosed \/ StartMenu \/ StartMenuFails
           \/ PlaceMenu \/ DiscardMenu \/ MenuDiscarded

ClosingMenus == CloseMenu \/ MenuClosed \/ RetireItem

Commanding == Click \/ menuProxy \/ check \/ event \/ AboutToShow

TreeChanges == \E p \in Paths : LayoutUpdated(p) \/ ItemsPropertiesUpdated(p)

PathChanges == \E p \in Paths \cup {NoPath} : Advertise(p)

----
(* Properties.                                                             *)

\* Somebody is going to close reader i: closeWorker, which finds it in place, or
\* bindMenu, which has it in hand.
Held(i) ==
    \/ menu = i /\ life \in {"table", "out", "menu"}
    \/ previous = i /\ step \in {"previous", "waiting"}
    \/ step \in {"place", "discarding"}

\* bindMenu starts a reader between two sections of the lock, while the worker
\* may be dropped or the service stop.  At any moment one reader of a worker at
\* most runs or is subscribed, the one built last, and somebody is going to close
\* it; once the worker is closed there is none.
NoMenuLeak ==
    \A i \in Readers :
        menus[i] # NoProxy => i = built /\ Held(i) /\ life \notin {"closed", "retired"}

\* trigger keeps one token, handle skips layouts that are superseded: a reader
\* whose loop rests with nothing on its way, and whose last read did not fail,
\* published the tree the application has.
NoLostLayout == \A i \in Readers :
    /\ menus[i].path # NoPath /\ ~menus[i].stop /\ ~closing
    /\ menus[i].loop = "select" /\ ~menus[i].wake /\ menus[i].signals = {}
    /\ ~menus[i].failed
    => drawn = [by |-> i, path |-> menus[i].path,
                rev |-> tree[menus[i].path].rev, ver |-> tree[menus[i].path].ver]

\* bindMenu closes the previous reader before it starts the next: the owner
\* never goes back to a tree of a reader that was replaced, nor to an older
\* state of one reader.
MenuForward ==
    [][drawn' # Undrawn => \/ drawn'.by > drawn.by
                           \/ drawn'.by = drawn.by /\ drawn'.rev >= drawn.rev
                                                   /\ drawn'.ver >= drawn.ver]_<<workerVars, menuVars>>

\* check's comment: "a tree that changed while the user was reading it refuses
\* the command instead of invoking a different entry."  When a command passes
\* at the reader it was drawn from, the owner shows that reader's tree of that
\* revision, and no reader has been built since.  That is all check can see: a
\* reader of another path that replaced this one may have the same revision, and
\* the tree or the path may change between check and the call.
SupersededRefused ==
    [][cmd.at = "found" /\ cmd'.at = "passed" /\ cmd.to = cmd.shown.by
       => /\ drawn.by = cmd.to /\ drawn.rev = cmd.shown.rev
          /\ built = cmd.to]_<<workerVars, menuVars>>

\* Whatever paths and trees an application goes through, in the end its item
\* has the tree of the path it advertises, unless the bus refused the reader
\* or the last read failed.
MenuConverges ==
    <>[](InTable /\ path # NoPath /\ ~refused /\ (built # 0 => ~menus[built].failed)
         => /\ menu = built
            /\ drawn = [by |-> built, path |-> path,
                        rev |-> tree[path].rev, ver |-> tree[path].ver])

\* closeWorker waits for a menu reader, and bindMenu on the item's loop, which
\* closeWorker waits for next, may be waiting for one too: a dropped worker
\* is closed and its item retired.
WorkerEnds == life = "out" ~> life = "retired"

====
