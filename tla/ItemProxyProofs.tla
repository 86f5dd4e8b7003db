---- MODULE ItemProxyProofs ----
(***************************************************************************)
(* The one-slot wake channel loses no change, for any number of changes.   *)
(* NoLostWakeup speaks of the moment the reading loop rests; the invariant *)
(* below says of every moment where the newest change is.                  *)
(***************************************************************************)
EXTENDS ItemProxy, TLAPS

\* A proxy nobody drops is subscribed and neither stopped nor cancelled.
OpenUntilDropped ==
    /\ (started \/ starter \in {"subscribed", "cancellable"}) /\ drop \in {"none", "asked"} => subscribed
    /\ stop \/ cancelled => drop \notin {"none", "asked"}
    /\ started => starter = "returned"

\* The newest change is shown, in the loop's hands, or on its way to it.
ChangeOnItsWay ==
    started /\ drop = "none" /\ ~ended =>
        \/ wake
        \/ signals # <<>>
        \/ loop \in {"await", "calling"}
        \/ loop = "publishing" /\ answer = version
        \/ loop # "publishing" /\ shown = version

SignalsType == signals \in Seq({"changed", "left"})

PXInv == SignalsType /\ OpenUntilDropped /\ ChangeOnItsWay

\* A new proxy has a wake token for its first read.
LEMMA ProxyInit == PXInit => PXInv
BY DEF PXInit, PXInv, SignalsType, OpenUntilDropped, ChangeOnItsWay

\* Every step of the proxy, of its worker and of the application keeps the
\* newest change on its way to onItem.
LEMMA ProxyStep == PXInv /\ [PXNext]_pxvars => PXInv'
<1> SUFFICES ASSUME PXInv, [PXNext]_pxvars
             PROVE  PXInv'
  OBVIOUS
<1> USE DEF PXInv, SignalsType, OpenUntilDropped, ChangeOnItsWay,
            appVars, chanVars, startVars, stopVars, closeVars, readVars
<1>1. CASE Starting
  BY <1>1 DEF Starting, StartSubscribe, StartContext, StartRun
<1>2. CASE StartFails
  BY <1>2 DEF StartFails
<1>3. CASE Pumping
  BY <1>3 DEF Pumping, PumpChanged, PumpLeft, PumpStop, AskDrop
<1>4. CASE Looping
  <2>1. CASE LoopWake \/ Admit \/ Publish
    BY <2>1 DEF LoopWake, Admit, Publish
  <2>2. CASE LoopStop
    BY <2>2 DEF LoopStop, CallCtxDone
  <2>3. CASE CallCancelled
    BY <2>3 DEF CallCancelled, CallCtxDone
  <2> QED
    BY <1>4, <2>1, <2>2, <2>3, Zenon DEF Looping
<1>5. CASE Answer \/ CallFails
  BY <1>5 DEF Answer, CallFails, AskDrop
<1>6. CASE TimedOut
  <2>1. /\ UNCHANGED <<appVars, chanVars, startVars, closeVars, answer, shown>>
        /\ loop' = "select"
        /\ drop = "none" /\ ~ended => wake'
    BY <1>6, Zenon DEF TimedOut, CallCtxDone
  <2> QED
    BY <2>1
<1>7. CASE Refresh \/ AskedToDrop
  BY <1>7 DEF Refresh, AskedToDrop
<1>8. CASE CloseBegin \/ CloseLook
  <2>1. /\ drop' \in {"stopped", "closing", "closed"}
        /\ UNCHANGED <<signals, startVars>>
    BY <1>8, Zenon DEF CloseBegin, CloseLook
  <2> QED
    BY <2>1
<1>9. CASE CloseEnd
  <2>1. /\ drop' = "closed" /\ signals' = <<>>
        /\ UNCHANGED startVars
    BY <1>9 DEF CloseEnd
  <2> QED
    BY <2>1
<1>10. CASE Retire
  BY <1>10 DEF Retire
<1>11. CASE Change \/ Leave \/ ServiceEnds
  BY <1>11 DEF Change, Leave, ServiceEnds, Signal
<1>12. CASE UNCHANGED pxvars
  BY <1>12 DEF pxvars
<1> QED
  BY <1>1, <1>2, <1>3, <1>4, <1>5, <1>6, <1>7, <1>8, <1>9, <1>10, <1>11, <1>12
     DEF PXNext, Closing

\* proxy.go, trigger and loop: however signals, reads, timeouts and closing
\* interleave, and however often the application changes, a proxy that rests
\* has published the application's last state.
THEOREM ProxyNoLostWakeup == PXSpec => []NoLostWakeup
<1>1. PXInv => NoLostWakeup
  BY DEF PXInv, ChangeOnItsWay, NoLostWakeup
<1> QED
  BY <1>1, ProxyInit, ProxyStep, PTL DEF PXSpec

----
(* Types, and what a Close leaves behind.                                  *)

\* The provers take flags and the rest apart.
FlagTypes ==
    /\ alive \in BOOLEAN /\ subscribed \in BOOLEAN /\ wake \in BOOLEAN
    /\ started \in BOOLEAN /\ stop \in BOOLEAN /\ cancelled \in BOOLEAN /\ ended \in BOOLEAN
    /\ accounted \in BOOLEAN /\ waited \in BOOLEAN

DataTypes ==
    /\ version \in 1..MaxVersion
    /\ answer \in 0..version /\ shown \in 0..version
    /\ signals \in Seq({"changed", "left"})
    /\ starter \in {"called", "subscribed", "cancellable", "returned", "failed"}
    /\ pump \in {"none", "select", "done"}
    /\ loop \in {"none", "select", "await", "calling", "publishing", "done"}
    /\ drop \in {"none", "asked", "stopped", "closing", "closed", "retired"}

\* Init has the types.
LEMMA ProxyInitTypes == PXInit => FlagTypes /\ DataTypes
<1>1. PXInit => FlagTypes
  BY Zenon DEF PXInit, FlagTypes
<1>2. PXInit => DataTypes
  BY VersionAssumption DEF PXInit, DataTypes
<1> QED
  BY <1>1, <1>2

\* Every step keeps the flags' type.
LEMMA ProxyStepFlags == FlagTypes /\ [PXNext]_pxvars => FlagTypes'
<1> SUFFICES ASSUME FlagTypes, [PXNext]_pxvars
             PROVE  FlagTypes'
  OBVIOUS
<1> USE DEF FlagTypes, appVars, chanVars, startVars, stopVars, closeVars, readVars
<1>1. CASE Starting
  BY <1>1, Zenon DEF Starting, StartSubscribe, StartContext, StartRun
<1>2. CASE StartFails
  BY <1>2, Zenon DEF StartFails
<1>3. CASE Pumping
  BY <1>3, Zenon DEF Pumping, PumpChanged, PumpLeft, PumpStop
<1>4. CASE Looping
  BY <1>4, Zenon DEF Looping, LoopWake, LoopStop, Admit, CallCancelled, Publish
<1>5. CASE Answer \/ TimedOut \/ CallFails
  BY <1>5, Zenon DEF Answer, TimedOut, CallFails
<1>6. CASE Refresh \/ AskedToDrop
  BY <1>6, Zenon DEF Refresh, AskedToDrop
<1>7. CASE CloseBegin
  <2>1. HasCancel \in BOOLEAN
    BY DEF HasCancel
  <2> QED
    BY <1>7, <2>1, Zenon DEF CloseBegin
<1>8. CASE CloseLook \/ CloseEnd \/ Retire
  BY <1>8, Zenon DEF CloseLook, CloseEnd, Retire
<1>9. CASE Change \/ Leave \/ ServiceEnds
  BY <1>9, Zenon DEF Change, Leave, ServiceEnds
<1>10. CASE UNCHANGED pxvars
  BY <1>10 DEF pxvars
<1> QED
  BY <1>1, <1>2, <1>3, <1>4, <1>5, <1>6, <1>7, <1>8, <1>9, <1>10 DEF PXNext, Closing

\* Every step keeps the other types: a reading is never newer than the
\* application.
LEMMA ProxyStepData == DataTypes /\ [PXNext]_pxvars => DataTypes'
<1> SUFFICES ASSUME DataTypes, [PXNext]_pxvars
             PROVE  DataTypes'
  OBVIOUS
<1> USE DEF DataTypes, appVars, chanVars, startVars, stopVars, closeVars, readVars
<1>1. CASE Starting
  BY <1>1 DEF Starting, StartSubscribe, StartContext, StartRun
<1>2. CASE StartFails
  BY <1>2 DEF StartFails
<1>3. CASE Pumping
  <2>1. CASE PumpChanged
    BY <2>1 DEF PumpChanged
  <2>2. CASE PumpLeft
    BY <2>2 DEF PumpLeft, AskDrop
  <2>3. CASE PumpStop
    BY <2>3 DEF PumpStop
  <2> QED
    BY <1>3, <2>1, <2>2, <2>3 DEF Pumping
<1>4. CASE Looping
  BY <1>4 DEF Looping, LoopWake, LoopStop, Admit, CallCancelled, Publish
<1>5. CASE Answer \/ CallFails
  BY <1>5 DEF Answer, CallFails, AskDrop
<1>6. CASE TimedOut
  <2>1. UNCHANGED <<appVars, chanVars, startVars, closeVars, pump, readVars>> /\ loop' = "select"
    BY <1>6, Zenon DEF TimedOut
  <2> QED
    BY <2>1
<1>7. CASE Refresh \/ AskedToDrop
  BY <1>7 DEF Refresh, AskedToDrop
<1>8. CASE CloseBegin
  <2>1. UNCHANGED <<appVars, chanVars, startVars, pump, loop, readVars>> /\ drop' = "stopped"
    BY <1>8, Zenon DEF CloseBegin
  <2> QED
    BY <2>1
<1>9. CASE CloseLook \/ CloseEnd \/ Retire
  <2>1. /\ UNCHANGED <<appVars, startVars, pump, loop, answer, shown>>
        /\ signals' = signals \/ signals' = <<>>
        /\ drop' \in {"closing", "closed", "retired"}
    BY <1>9 DEF CloseLook, CloseEnd, Retire
  <2>2. <<>> \in Seq({"changed", "left"})
    OBVIOUS
  <2>3. signals' \in Seq({"changed", "left"})
    BY <2>1, <2>2, Zenon
  <2> QED
    BY <2>1, <2>3
<1>10. CASE Change \/ Leave \/ ServiceEnds
  <2>1. CASE Change
    BY <2>1, VersionAssumption DEF Change, Signal
  <2>2. CASE Leave
    BY <2>2 DEF Leave, Signal
  <2>3. CASE ServiceEnds
    <3>1. UNCHANGED <<version, signals, starter, pump, loop, drop, answer, shown>>
      BY <2>3, Zenon DEF ServiceEnds
    <3> QED
      BY <3>1
  <2> QED
    BY <1>10, <2>1, <2>2, <2>3
<1>11. CASE UNCHANGED pxvars
  BY <1>11 DEF pxvars
<1> QED
  BY <1>1, <1>2, <1>3, <1>4, <1>5, <1>6, <1>7, <1>8, <1>9, <1>10, <1>11
     DEF PXNext, Closing

\* proxy.go: every field and channel of a Proxy keeps its type, and what was
\* read or published is a state the application has been in.
THEOREM ProxyTypes == PXSpec => []PXTypeOK
<1>1. FlagTypes /\ DataTypes => PXTypeOK
  BY DEF FlagTypes, DataTypes, PXTypeOK
<1> QED
  BY <1>1, ProxyInitTypes, ProxyStepFlags, ProxyStepData, PTL DEF PXSpec

\* Close waits only for a proxy whose Start has returned, so no goroutine is
\* begun and nothing subscribed to once it has looked.
WaitedFor ==
    /\ started <=> starter = "returned"
    /\ waited => starter = "returned" /\ drop \in {"closing", "closed", "retired"}
    /\ drop = "closing" => waited
    /\ drop \in {"stopped", "closing", "closed", "retired"} => stop

\* Before Start, and after one that was refused, there is nothing to give back.
NothingBegun ==
    /\ ~started => Still /\ loop = "none" /\ ~accounted
    /\ starter \in {"called", "failed"} => ~subscribed

QuietInv == WaitedFor /\ NothingBegun /\ ClosedIsQuiet

\* Once Close has looked, neither Start nor a goroutine undoes what it gives
\* back.
LEMMA ProxyStepQuiet == PXTypeOK /\ QuietInv /\ [PXNext]_pxvars => QuietInv'
<1> SUFFICES ASSUME PXTypeOK, QuietInv, [PXNext]_pxvars
             PROVE  QuietInv'
  OBVIOUS
<1> USE DEF QuietInv, WaitedFor, NothingBegun, ClosedIsQuiet, Still, Overtaken,
            appVars, chanVars, startVars, stopVars, closeVars, readVars
<1>1. CASE Starting
  BY <1>1 DEF Starting, StartSubscribe, StartContext, StartRun
<1>2. CASE StartFails
  BY <1>2 DEF StartFails
<1>3. CASE Pumping
  BY <1>3 DEF Pumping, PumpChanged, PumpLeft, PumpStop, AskDrop
<1>4. CASE Looping
  BY <1>4 DEF Looping, LoopWake, LoopStop, Admit, CallCancelled, Publish
<1>5. CASE Answer \/ CallFails
  BY <1>5 DEF Answer, CallFails, AskDrop
<1>6. CASE TimedOut
  <2>1. /\ UNCHANGED <<appVars, chanVars, startVars, closeVars, pump, readVars>>
        /\ loop = "calling"
    BY <1>6, Zenon DEF TimedOut
  <2> QED
    BY <2>1
<1>7. CASE Refresh \/ AskedToDrop
  BY <1>7 DEF Refresh, AskedToDrop
<1>8. CASE CloseBegin
  <2>1. /\ UNCHANGED <<chanVars, startVars, waited, pump, loop, accounted>>
        /\ drop = "asked" /\ drop' = "stopped" /\ stop'
    BY <1>8, Zenon DEF CloseBegin, readVars
  <2> QED
    BY <2>1
<1>9. CASE CloseLook
  BY <1>9 DEF CloseLook, PXTypeOK
<1>10. CASE CloseEnd
  BY <1>10 DEF CloseEnd, Returned
<1>11. CASE Retire
  BY <1>11 DEF Retire
<1>12. CASE Change \/ Leave \/ ServiceEnds
  BY <1>12 DEF Change, Leave, ServiceEnds, Signal
<1>13. CASE UNCHANGED pxvars
  BY <1>13 DEF pxvars
<1> QED
  BY <1>1, <1>2, <1>3, <1>4, <1>5, <1>6, <1>7, <1>8, <1>9, <1>10, <1>11, <1>12, <1>13
     DEF PXNext, Closing

\* proxy.go, Close: however Close races Start, the pump, a read in flight and the
\* bus, everything is given back, unless it overtook a Start under way; and what
\* that one begins has been told to stop.
THEOREM ProxyClosedIsQuiet == PXSpec => []ClosedIsQuiet
<1>1. PXInit => QuietInv
  BY DEF PXInit, QuietInv, WaitedFor, NothingBegun, ClosedIsQuiet, Still
<1>2. QuietInv => ClosedIsQuiet
  BY DEF QuietInv
<1> QED
  BY <1>1, <1>2, ProxyStepQuiet, ProxyTypes, PTL DEF PXSpec

====
