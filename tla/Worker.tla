---- MODULE Worker ----
(***************************************************************************)
(* One worker of App (internal/app/run.go): the reading loop of its item,  *)
(* from a reading to onItem and bindMenu, against the drop of the worker   *)
(* and the shutdown of the service.  Menu and Ownership add what onItem    *)
(* and closeWorker do with menus and with the process identity; ItemProxy  *)
(* has the item reader's own details (timeouts, errors, its Start).        *)
(***************************************************************************)
EXTENDS Naturals

CONSTANTS Paths,    \* menu paths an application may advertise
          NoPath    \* the empty menu path

ASSUME PathAssumption == NoPath \notin Paths

VARIABLES
    life,       \* where the worker is, from the table to its item's retirement
    closing,    \* App.closing; App.owner is gone with it
    wake,       \* the item proxy's wake token
    step,       \* what the item's reading loop does next
    reading,    \* the menu path in the reading it holds
    path        \* the application: the menu path it advertises

workerVars == <<life, closing, wake, step, reading, path>>

InTable == life = "table" /\ ~closing

----
(* The worker's end: dropWorker and stopWorkers take it out of the table   *)
(* under the lock, closeWorker closes the menu reader and then the item's. *)

\* ItemRemoved or a failed read.  stopWorkers does the same after closing.
dropWorker ==
    /\ life = "table"
    /\ life' = "out"
    /\ UNCHANGED <<closing, wake, step, reading, path>>

\* Close and unwind's first section, which follows at once; the context the
\* loops run under is done by then, or soon after.
CloseApp ==
    /\ ~closing
    /\ closing' = TRUE
    /\ UNCHANGED <<life, wake, step, reading, path>>

\* closeWorker's second half: the item's loop has returned.
ItemClosed ==
    /\ life = "item" /\ step = "done"
    /\ life' = "closed"
    /\ UNCHANGED <<closing, wake, step, reading, path>>

----
(* The item's reading loop.                                                *)

\* GetAll.  A call in flight may still answer when the proxy is stopped.
ItemRead ==
    /\ step = "select" /\ wake
    /\ wake' = FALSE
    /\ reading' = path
    /\ step' = "look"
    /\ UNCHANGED <<life, closing, path>>

\* Proxy.stop is closed, or the service's context is done.
ItemStop ==
    /\ step = "select" /\ (life = "item" \/ closing)
    /\ step' = "done"
    /\ UNCHANGED <<life, closing, wake, reading, path>>

\* The loop moves on; who moves it says what else changes.
ItemStep(from, to) ==
    /\ step = from
    /\ step' = to
    /\ UNCHANGED <<life, closing, wake, reading, path>>

\* onItem's first section: is there an owner, and may the item be closed?
Look == ItemStep("look", IF closing THEN "select" ELSE "update")

\* owner.Update.
UpdateItem == ItemStep("update", "bind")

\* NewMenu and the property changes signal the item proxy (module ItemProxy).
ChangePath(p) ==
    /\ path # p
    /\ path' = p
    /\ wake' = TRUE
    /\ UNCHANGED <<life, closing, step, reading>>

WorkerInit ==
    /\ life = "table"
    /\ closing = FALSE
    /\ wake = TRUE
    /\ step = "select"
    /\ reading = NoPath
    /\ path \in Paths \cup {NoPath}

====
