---- MODULE ItemWorker ----
(***************************************************************************)
(* One item's worker as a whole: its menu readers (Menu) and its process   *)
(* identity (Ownership) share the item's reading loop and the worker's     *)
(* place in App's table.                                                   *)
(***************************************************************************)
EXTENDS Menu, Ownership

wvars == <<workerVars, menuVars, ownVars>>

WInit == WorkerInit /\ MenuInit /\ OwnInit

\* A step of the worker alone, of its menus, or of its process identity.
OfWorker(A)  == A /\ UNCHANGED <<menuVars, ownVars>>
OfMenus(A)   == A /\ UNCHANGED ownVars
OfProcess(A) == A /\ UNCHANGED menuVars

\* The goroutine of the item's reading loop, onItem and bindMenu included.
ItemLoop ==
    \/ OfWorker(ItemRead) \/ OfWorker(ItemStop)
    \/ OfProcess(LookCloseable) \/ OfProcess(UpdateOffered)
    \/ OfMenus(Binding)

\* The goroutine that closes the worker.
Ending == OfWorker(ItemClosed) \/ OfMenus(ClosingMenus)

\* The goroutines of a menu reader, and the call one of them waits for.
Reader(i) == OfMenus(ReaderStep(i))
ReaderCall(i) == OfMenus(Answer(i) \/ CallFails(i))

Service ==
    \/ ItemLoop \/ Ending
    \/ OfWorker(dropWorker) \/ OfWorker(CloseApp)
    \/ \E i \in Readers : Reader(i) \/ ReaderCall(i)

PathsMove    == OfMenus(PathChanges)
TreesMove    == OfMenus(TreeChanges)
MenusUsed    == OfMenus(Commanding)
ProcessUsed  == OfProcess(Inspecting \/ TerminateBegins \/ Terminating)
ProcessMoves == OfProcess(ProcessSteps)

WNext == Service \/ PathsMove \/ TreesMove \/ MenusUsed \/ ProcessUsed \/ ProcessMoves

\* Goroutines run on, and a call returns, by its timeout at the latest.
\* Nothing is asked of the application, the bus or the shell.
WFairness ==
    /\ WF_wvars(ItemLoop) /\ WF_wvars(Ending)
    /\ \A i \in Readers : WF_wvars(Reader(i)) /\ WF_wvars(ReaderCall(i))

WSpec == WInit /\ [][WNext]_wvars /\ WFairness

====
