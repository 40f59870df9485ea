---------------------------- MODULE RxWorkProofs -----------------------------
(***************************************************************************)
(* The safety properties of RxWork, for every queue limit, every number of *)
(* ports and any number of interrupts and role switches.  WorkInv is the   *)
(* inductive invariant; every lemma below is one of its conjuncts.         *)
(***************************************************************************)
EXTENDS RxWork, TLAPS

\* The missing table is none of the tables: it has fewer fields.
LEMMA NoTableIsNone == NoTable \notin Tables /\ NewTable \in Tables
  BY DEF NoTable, Tables, NewTable

\* The type invariant holds at first.
LEMMA TypeInit == Init => TypeOK
<1>1. Init => Flags
      BY Zenon DEF Init, Flags
<1>2. Init => Places
      BY DEF Init, Places, Contexts, MainSteps, RxSteps, TimerSteps, IoctlSteps, CmdPort,
             PsStates
<1>3. Init => Counters
      BY CardAssumption, BoundAssumption DEF Init, Counters
<1>. QED  BY <1>1, <1>2, <1>3 DEF TypeOK

\* Every step assigns truth values to the flags.
LEMMA FlagsStep == Flags /\ [Next]_vars => Flags'
<1>. SUFFICES ASSUME Flags, [Next]_vars PROVE Flags'
     OBVIOUS
<1>. USE DEF Flags, mainLock, rxLock, wakes, mainOwn, queue, table, ioctl, cardVars
<1>1. ASSUME NEW c \in Contexts, MainStep(c) PROVE Flags'
  <2>1. CASE MainEnter(c)  BY Zenon, <2>1 DEF MainEnter
  <2>2. CASE MainTop(c) BY Zenon, <2>2 DEF MainTop
  <2>3. CASE MainPause(c) BY Zenon, <2>3 DEF MainPause
  <2>4. CASE MainSlow(c) BY Zenon, <2>4 DEF MainSlow, QueueRxWork
  <2>5. CASE MainInt(c) BY Zenon, <2>5 DEF MainInt
  <2>6. CASE MainRead(c) BY Zenon, <2>6 DEF MainRead
  <2>7. CASE MainRcvd(c) BY Zenon, <2>7 DEF MainRcvd, QueueRxWork
  <2>8. CASE MainBlock(c) BY <2>8 DEF MainBlock, BlockRx
  <2>9. CASE MainWaited(c) BY Zenon, <2>9 DEF MainWaited
  <2>10. CASE MainDelete(c) BY Zenon, <2>10 DEF MainDelete
  <2>11. CASE MainCreate(c) BY Zenon, <2>11 DEF MainCreate
  <2>12. CASE MainSync(c) \/ MainSyncArm(c)
    <3>1. UNCHANGED <<mainLock, rxLock, wakes, data_received, cfm, queue, flush_data, cardVars>>
          BY Zenon, <2>12 DEF MainSync, MainSyncArm
    <3>. QED BY Zenon, <3>1
  <2>13. CASE MainEnd(c) BY Zenon, <2>13 DEF MainEnd
  <2>14. CASE MainNotRcvd(c) BY Zenon, <2>14 DEF MainNotRcvd
  <2>. QED BY <1>1, <2>1, <2>2, <2>3, <2>4, <2>5, <2>6, <2>7, <2>8, <2>9, <2>10, <2>11,
              <2>12, <2>13, <2>14
           DEF MainStep
<1>2. CASE RxStep
  <2>1. CASE RxEnter BY Zenon, <2>1 DEF RxEnter
  <2>2. CASE RxTop BY Zenon, <2>2 DEF RxTop
  <2>3. CASE RxFlush BY Zenon, <2>3 DEF RxFlush
  <2>4. CASE RxDequeue BY Zenon, <2>4 DEF RxDequeue
  <2>5. CASE RxCheck BY Zenon, <2>5 DEF RxCheck, QueueMainWork
  <2>6. CASE RxDeliver BY Zenon, <2>6 DEF RxDeliver
  <2>7. CASE RxArm BY Zenon, <2>7 DEF RxArm
  <2>8. CASE RxEnd BY Zenon, <2>8 DEF RxEnd
  <2>. QED BY <1>2, <2>1, <2>2, <2>3, <2>4, <2>5, <2>6, <2>7, <2>8 DEF RxStep
<1>3. CASE TimerStep BY Zenon, <1>3 DEF TimerStep, TimerExpire, TimerTable
<1>4. CASE RoleBlock BY <1>4 DEF RoleBlock, BlockRx
<1>5. CASE RoleStep
  <2>1. CASE RoleWaited BY Zenon, <2>1 DEF RoleWaited
  <2>2. CASE RoleClean BY <2>2 DEF RoleClean, BlockRx
  <2>3. CASE RoleDelete BY Zenon, <2>3 DEF RoleDelete
  <2>4. CASE RoleInit BY Zenon, <2>4 DEF RoleInit
  <2>. QED BY <1>5, <2>1, <2>2, <2>3, <2>4 DEF RoleStep
<1>6. CASE \E n \in 0 .. Ports, e \in CmdPort : Interrupt(n, e)
      BY Zenon, <1>6 DEF Interrupt
<1>7. CASE UNCHANGED vars BY Zenon, <1>7 DEF vars
<1>. QED BY <1>1, <1>2, <1>3, <1>4, <1>5, <1>6, <1>7 DEF Next

\* A flush turns a table into a table.
LEMMA FlushedTable ==
    ASSUME NEW t \in Tables
    PROVE  Flushed(t) \in Tables
<1>1. [t EXCEPT !.held = FALSE] \in Tables
      BY DEF Tables
<1>2. [[t EXCEPT !.held = FALSE] EXCEPT !.flush_data = FALSE] \in Tables
      BY <1>1 DEF Tables
<1>. QED  BY <1>2 DEF Flushed

\* So do a packet and a restart of the timer.
LEMMA OrderedTable ==
    ASSUME NEW t \in Tables, NEW h \in BOOLEAN
    PROVE  [t EXCEPT !.held = h, !.flush_data = FALSE] \in Tables
<1>1. [t EXCEPT !.held = h] \in Tables
      BY DEF Tables
<1>. QED  BY <1>1 DEF Tables

\* A restart of the timer turns a table into a table.
LEMMA RestartedTable ==
    ASSUME Places, TimerRestart
    PROVE  IF HasTable THEN tbl' \in Tables ELSE tbl' = NoTable
  BY DEF Places, TimerRestart, HasTable, Tables

\* An RXBA_SYNC changes a table only where there is one, and leaves a table.
LEMMA SyncKeepsTable ==
    ASSUME Places, NEW c \in Contexts, MainSync(c) \/ MainSyncArm(c)
    PROVE  IF HasTable THEN tbl' \in Tables ELSE tbl' = NoTable
<1>1. HasTable => tbl \in Tables
      BY DEF Places, HasTable
<1>2. ~HasTable => tbl = NoTable
      BY DEF HasTable
<1>3. CASE MainSync(c)
      BY <1>1, <1>2, <1>3, FlushedTable, OrderedTable DEF MainSync
<1>4. CASE MainSyncArm(c)
      BY <1>4, RestartedTable DEF MainSyncArm
<1>. QED  BY <1>3, <1>4

\* A step of the main process goes to one of its steps and leaves a table or none.
LEMMA PlacesMain ==
    ASSUME Places, NEW c \in Contexts, MainStep(c)
    PROVE  Places'
<1>. USE DEF Places, wakes, mainOwn, table, ioctl, cardVars, Goto, MainSteps
<1>1. CASE MainEnter(c)
      BY <1>1 DEF MainEnter
<1>2. CASE MainTop(c)
      BY <1>2 DEF MainTop
<1>3. CASE MainPause(c) \/ MainSlow(c)
      BY <1>3 DEF MainPause, MainSlow
<1>4. CASE MainInt(c)
      BY <1>4 DEF MainInt, CmdPort, PsStates, CheckPsCond
<1>5. CASE MainRead(c)
      BY <1>5 DEF MainRead
<1>6. CASE MainRcvd(c)
  <2>1. EventStep \in MainSteps
        BY Zenon DEF EventStep
  <2>2. PsReceived \subseteq PsStates
        BY DEF PsReceived, CheckPsCond, PsStates
  <2>3. event_received' \in Events \cup {"none"} /\ ps_state' \in PsStates
        BY <1>6, <2>2 DEF MainRcvd
  <2>. QED  BY <1>6, <2>1, <2>3 DEF MainRcvd
<1>13. CASE MainNotRcvd(c)
      BY <1>13 DEF MainNotRcvd, PsStates, CheckPsCond
<1>7. CASE MainBlock(c)
      BY <1>7 DEF MainBlock, BlockRx
<1>8. CASE MainWaited(c)
      BY <1>8 DEF MainWaited
<1>9. CASE MainDelete(c)
      BY <1>9 DEF MainDelete
<1>10. CASE MainCreate(c)
      BY <1>10, NoTableIsNone DEF MainCreate
<1>11. CASE MainSync(c) \/ MainSyncArm(c)
  <2>1. tbl' \in Tables \cup {NoTable}
        BY <1>11, SyncKeepsTable
  <2>. QED  BY <1>11, <2>1 DEF MainSync, MainSyncArm
<1>12. CASE MainEnd(c)
      BY <1>12 DEF MainEnd
<1>. QED  BY <1>1, <1>2, <1>3, <1>4, <1>5, <1>6, <1>7, <1>8, <1>9, <1>10, <1>11, <1>12,
             <1>13
          DEF MainStep

\* The rx work changes a table only where there is one, and leaves a table.
LEMMA RxKeepsTable ==
    ASSUME Places, RxStep
    PROVE  IF HasTable THEN tbl' \in Tables ELSE tbl' = NoTable
<1>. USE DEF Places, HasTable, table
<1>1. CASE RxEnter \/ RxTop \/ RxDequeue \/ RxCheck \/ RxEnd
  <2>1. tbl' = tbl
        BY <1>1 DEF RxEnter, RxTop, RxDequeue, RxCheck, RxEnd
  <2>. QED  BY <2>1
<1>2. CASE RxFlush
      BY <1>2, FlushedTable DEF RxFlush
<1>3. CASE RxDeliver
      BY <1>3, FlushedTable, OrderedTable DEF RxDeliver
<1>4. CASE RxArm
      BY <1>4, RestartedTable DEF RxArm
<1>. QED  BY <1>1, <1>2, <1>3, <1>4 DEF RxStep

\* So does a step of the rx work.
LEMMA PlacesRx ==
    ASSUME Places, RxStep
    PROVE  Places'
<1>1. tbl' \in Tables \cup {NoTable}
      BY RxKeepsTable
<1>2. rxAt' \in RxSteps /\ call' \subseteq Contexts
      BY DEF RxStep, RxEnter, RxTop, RxFlush, RxDequeue, RxCheck, RxDeliver, RxArm, RxEnd,
             QueueMainWork, RxSteps, Places, Contexts, wakes
<1>3. UNCHANGED <<mainAt, timerAt, ioctlAt, event_received, cardEvent, ps_state>>
      BY DEF RxStep, RxEnter, RxTop, RxFlush, RxDequeue, RxCheck, RxDeliver, RxArm, RxEnd,
             mainOwn, ioctl, cardVars
<1>. QED  BY <1>1, <1>2, <1>3 DEF Places

\* Every step keeps the places in their domains.
LEMMA PlacesStep == Places /\ TableKnown /\ [Next]_vars => Places'
<1>. SUFFICES ASSUME Places, TableKnown, [Next]_vars
              PROVE  Places'
     OBVIOUS
<1>. USE DEF Places, wakes, mainOwn, table, ioctl, cardVars
<1>1. ASSUME NEW c \in Contexts, MainStep(c)
      PROVE  Places'
      BY <1>1, PlacesMain
<1>2. CASE RxStep
      BY <1>2, PlacesRx
<1>3. CASE TimerStep
  <2>1. tbl' \in Tables \cup {NoTable}
        BY <1>3 DEF TimerStep, TimerExpire, TimerTable, TableKnown, TimerSteps, Tables
  <2>. QED  BY <1>3, <2>1 DEF TimerStep, TimerExpire, TimerTable, TimerSteps
<1>4. CASE RoleBlock
      BY <1>4 DEF RoleBlock, BlockRx, IoctlSteps
<1>5. CASE RoleStep
      BY <1>5 DEF RoleStep, RoleWaited, RoleClean, RoleDelete, RoleInit, BlockRx,
                  IoctlSteps, TimerSteps
<1>6. CASE \E n \in 0 .. Ports, e \in CmdPort : Interrupt(n, e)
      BY <1>6 DEF Interrupt, Contexts, CmdPort, PsStates
<1>7. CASE UNCHANGED vars
      BY <1>7 DEF vars
<1>. QED  BY <1>1, <1>2, <1>3, <1>4, <1>5, <1>6, <1>7 DEF Next

\* No counter falls below zero: a packet is only taken from a queue that has one.
LEMMA CountersStep == Counters /\ [Next]_vars => Counters'
<1>. SUFFICES ASSUME Counters, [Next]_vars
              PROVE  Counters'
     OBVIOUS
<1>. USE CardAssumption, BoundAssumption DEF Counters, wakes, mainOwn, queue, ioctl,
                                             cardVars
<1>1. ASSUME NEW c \in Contexts, MainStep(c)
      PROVE  Counters'
  <2>1. CASE MainSync(c)
    <3>1. UNCHANGED <<wakes, fetch, unsent, queue, ioctl, cardVars>>
          BY Zenon, <2>1 DEF MainSync
    <3>. QED  BY <3>1
  <2>. QED  BY <1>1, <2>1 DEF MainStep, MainEnter, MainTop, MainPause, MainSlow, MainInt,
                              MainRead, MainRcvd, MainNotRcvd, MainBlock, MainWaited,
                              MainDelete, MainCreate, MainSyncArm, MainEnd, QueueRxWork
<1>2. CASE RxStep
  <2>1. CASE RxDeliver
    <3>1. UNCHANGED <<wakes, mainOwn, queue, ioctl, cardVars>>
          BY Zenon, <2>1 DEF RxDeliver
    <3>. QED  BY <3>1
  <2>. QED  BY <1>2, <2>1 DEF RxStep, RxEnter, RxTop, RxFlush, RxDequeue, RxCheck, RxArm,
                              RxEnd
<1>3. CASE TimerStep
      BY <1>3 DEF TimerStep, TimerExpire, TimerTable
<1>4. CASE RoleBlock \/ RoleStep
      BY <1>4 DEF RoleBlock, RoleStep, RoleWaited, RoleClean, RoleDelete, RoleInit
<1>5. CASE \E n \in 0 .. Ports, e \in CmdPort : Interrupt(n, e)
      BY <1>5 DEF Interrupt
<1>6. CASE UNCHANGED vars
      BY <1>6 DEF vars
<1>. QED  BY <1>1, <1>2, <1>3, <1>4, <1>5, <1>6 DEF Next

-----------------------------------------------------------------------------
(* The conjuncts of WorkInv, one lemma for each *)

\* The other contexts stay where they are.
LEMMA OthersStay ==
    ASSUME Places, NEW c \in Contexts, MainStep(c)
    PROVE  \A d \in Contexts : d # c => mainAt'[d] = mainAt[d]
<1>. USE DEF Places, Goto
<1>1. CASE MainRcvd(c) \/ MainNotRcvd(c)
      BY <1>1 DEF MainRcvd, MainNotRcvd
<1>2. CASE MainSync(c)
      BY <1>2 DEF MainSync
<1>3. CASE ~MainRcvd(c) /\ ~MainNotRcvd(c) /\ ~MainSync(c)
      BY <1>3 DEF MainStep, MainEnter, MainTop, MainPause, MainSlow, MainInt, MainRead,
                  MainBlock, MainWaited, MainDelete, MainCreate, MainSyncArm, MainEnd
<1>. QED  BY <1>1, <1>2, <1>3

\* Only a context that finds no main process running becomes one, and only the
\* last step of a main process takes the mark away.
LEMMA SingleMain ==
    ASSUME TypeOK, Single, NEW c \in Contexts, MainStep(c)
    PROVE  Single'
<1>. USE DEF TypeOK, Places, Single, Contexts, MainSteps
<1>1. rxAt' = rxAt /\ mlan_rx_processing' = mlan_rx_processing
      BY DEF MainStep, MainEnter, MainTop, MainPause, MainSlow, MainInt, MainRead,
             MainRcvd, MainNotRcvd, MainBlock, MainWaited, MainDelete, MainCreate,
             MainSync, MainSyncArm, MainEnd, rxLock
<1>2. CASE MainEnter(c)
      BY <1>1, <1>2 DEF MainEnter, Goto
<1>3. CASE MainEnd(c)
      BY <1>1, <1>3 DEF MainEnd, Goto
<1>4. CASE ~MainEnter(c) /\ ~MainEnd(c)
  <2>1. /\ mlan_processing' = mlan_processing
        /\ mainAt[c] # "idle" /\ mainAt'[c] # "idle"
        BY <1>4 DEF MainStep, MainTop, MainPause, MainSlow, MainInt, MainRead, MainRcvd,
                    MainNotRcvd, MainBlock, MainWaited, MainDelete, MainCreate, MainSync,
                    MainSyncArm, mainLock, Goto, EventStep, BlockRx
  <2>. QED  BY <1>1, <2>1, OthersStay
<1>. QED  BY <1>2, <1>3, <1>4

\* No step makes a second main process or a second rx work.
LEMMA SingleStep == TypeOK /\ Single /\ [Next]_vars => Single'
<1>. SUFFICES ASSUME TypeOK, Single, [Next]_vars
              PROVE  Single'
     OBVIOUS
<1>. USE DEF mainLock, rxLock
<1>1. ASSUME NEW c \in Contexts, MainStep(c)
      PROVE  Single'
      BY <1>1, SingleMain
<1>2. CASE RxEnter
      BY <1>2 DEF RxEnter, Single
<1>3. CASE RxEnd
      BY <1>3 DEF RxEnd, Single, TypeOK, Flags
<1>4. CASE RxStep /\ ~RxEnter /\ ~RxEnd
  <2>1. /\ UNCHANGED <<mlan_processing, mlan_rx_processing, mainAt>>
        /\ rxAt # "idle" /\ rxAt' # "idle"
        BY <1>4 DEF RxStep, RxTop, RxFlush, RxDequeue, RxCheck, RxDeliver, RxArm
  <2>. QED  BY <2>1 DEF Single
<1>5. CASE TimerStep \/ RoleBlock \/ RoleStep \/ UNCHANGED vars
           \/ \E n \in 0 .. Ports, e \in CmdPort : Interrupt(n, e)
  <2>1. UNCHANGED <<mlan_processing, mlan_rx_processing, mainAt, rxAt>>
        BY <1>5 DEF TimerStep, TimerExpire, TimerTable, RoleBlock, RoleStep, RoleWaited,
                    RoleClean, RoleDelete, RoleInit, Interrupt, vars
  <2>. QED  BY <2>1 DEF Single
<1>. QED  BY <1>1, <1>2, <1>3, <1>4, <1>5 DEF Next, RxStep

\* A block is entered behind the flag and, without role switches, left by nobody
\* but the main process that set it.
LEMMA BlockedMain ==
    ASSUME TypeOK, Single, Blocked, NEW c \in Contexts, MainStep(c)
    PROVE  Blocked'
<1>. SUFFICES ASSUME roles = 0
              PROVE  Blocked'
  <2>1. roles' = roles
        BY DEF MainStep, MainEnter, MainTop, MainPause, MainSlow, MainInt, MainRead,
               MainRcvd, MainNotRcvd, MainBlock, MainWaited, MainDelete, MainCreate,
               MainSync, MainSyncArm, MainEnd, ioctl
  <2>. QED  BY <2>1 DEF Blocked
<1>1. \A d \in Contexts : d # c => mainAt'[d] = mainAt[d]
      BY OthersStay DEF TypeOK
<1>2. UNCHANGED <<ioctlAt, mlan_rx_processing>>
      BY DEF MainStep, MainEnter, MainTop, MainPause, MainSlow, MainInt, MainRead,
             MainRcvd, MainNotRcvd, MainBlock, MainWaited, MainDelete, MainCreate,
             MainSync, MainSyncArm, MainEnd, ioctl, rxLock
<1>. USE <1>1, <1>2 DEF TypeOK, Places, Goto, Blocked, MainSteps
<1>3. CASE MainEnter(c) \/ MainTop(c) \/ MainPause(c) \/ MainInt(c) \/ MainRead(c)
           \/ MainNotRcvd(c) \/ MainSync(c) \/ MainSyncArm(c) \/ MainEnd(c)
  <2>1. /\ rx_lock_flag' = rx_lock_flag
        /\ mainAt'[c] = mainAt[c] \/ mainAt'[c] \notin {"delwait", "delete", "newwait", "create"}
        BY <1>3 DEF MainEnter, MainTop, MainPause, MainInt, MainRead, MainNotRcvd, MainSync,
                    MainSyncArm, MainEnd, rxLock
  <2>. QED  BY <2>1
<1>4. CASE MainSlow(c)
      BY <1>4 DEF MainSlow
<1>5. CASE MainRcvd(c)
  <2>1. EventStep \notin {"delwait", "delete", "newwait", "create"} /\ EventStep \in MainSteps
        BY Zenon DEF EventStep
  <2>. QED  BY <1>5, <2>1 DEF MainRcvd
<1>6. CASE MainBlock(c)
      BY <1>6 DEF MainBlock, BlockRx
<1>7. CASE MainWaited(c)
      BY <1>7 DEF MainWaited, rxLock
<1>8. CASE MainDelete(c) \/ MainCreate(c)
  <2>1. mainAt[c] # "idle" /\ mainAt'[c] \notin {"delwait", "delete", "newwait", "create"}
        BY <1>8 DEF MainDelete, MainCreate
  <2>2. \A d \in Contexts : d # c => mainAt'[d] = "idle"
        BY <2>1 DEF Single
  <2>. QED  BY <2>1, <2>2
<1>. QED  BY <1>3, <1>4, <1>5, <1>6, <1>7, <1>8 DEF MainStep

\* Every step keeps the rx work out of a block that is being used.
LEMMA BlockedStep == TypeOK /\ Single /\ Blocked /\ [Next]_vars => Blocked'
<1>. SUFFICES ASSUME TypeOK, Single, Blocked, [Next]_vars
              PROVE  Blocked'
     OBVIOUS
<1>. USE DEF Blocked, ioctl, rxLock
<1>1. ASSUME NEW c \in Contexts, MainStep(c)
      PROVE  Blocked'
      BY <1>1, BlockedMain
<1>2. CASE RxStep
  <2>1. UNCHANGED <<mainAt, ioctlAt, roles, rx_lock_flag>>
        BY <1>2 DEF RxStep, RxEnter, RxTop, RxFlush, RxDequeue, RxCheck, RxDeliver, RxArm,
                    RxEnd
  <2>2. mlan_rx_processing' => mlan_rx_processing \/ ~rx_lock_flag
        BY <1>2 DEF RxStep, RxEnter, RxTop, RxFlush, RxDequeue, RxCheck, RxDeliver, RxArm,
                    RxEnd, Single
  <2>. QED  BY <2>1, <2>2
<1>3. CASE TimerStep \/ UNCHANGED vars
           \/ \E n \in 0 .. Ports, e \in CmdPort : Interrupt(n, e)
  <2>1. UNCHANGED <<mainAt, ioctlAt, roles, rx_lock_flag, mlan_rx_processing>>
        BY <1>3 DEF TimerStep, TimerExpire, TimerTable, Interrupt, vars
  <2>. QED  BY <2>1
<1>4. CASE RoleBlock
      BY <1>4 DEF RoleBlock, TypeOK, Counters
<1>5. CASE RoleStep
      BY <1>5 DEF RoleStep, RoleWaited, RoleClean, RoleDelete, RoleInit
<1>. QED  BY <1>1, <1>2, <1>3, <1>4, <1>5 DEF Next

\* An expired timer's table is freed only by those who wait for its callback or
\* mark it as freed; a table comes to be only where there was none.
LEMMA TableKnownMain ==
    ASSUME TypeOK, Single, TableKnown, NEW c \in Contexts, MainStep(c)
    PROVE  TableKnown'
<1>1. \A d \in Contexts : d # c => mainAt'[d] = mainAt[d]
      BY OthersStay DEF TypeOK
<1>2. timerAt' = timerAt
      BY DEF MainStep, MainEnter, MainTop, MainPause, MainSlow, MainInt, MainRead,
             MainRcvd, MainNotRcvd, MainBlock, MainWaited, MainDelete, MainCreate,
             MainSync, MainSyncArm, MainEnd
<1>. USE <1>1, <1>2 DEF TypeOK, Places, Goto, TableKnown, MainSteps
<1>3. CASE MainEnter(c) \/ MainTop(c) \/ MainPause(c) \/ MainSlow(c) \/ MainInt(c)
           \/ MainRead(c) \/ MainNotRcvd(c) \/ MainEnd(c)
  <2>1. /\ tbl' = tbl
        /\ mainAt'[c] = mainAt[c] \/ mainAt'[c] \notin {"newblock", "newwait", "create"}
        BY <1>3 DEF MainEnter, MainTop, MainPause, MainSlow, MainInt, MainRead, MainNotRcvd,
                    MainEnd, table
  <2>. QED  BY <2>1
<1>4. CASE MainRcvd(c)
  <2>1. EventStep \in MainSteps /\ (EventStep \in {"newblock", "newwait", "create"} => tbl = NoTable)
        BY Zenon DEF EventStep, HasTable
  <2>. QED  BY <1>4, <2>1 DEF MainRcvd, table
<1>5. CASE MainBlock(c)
      BY <1>5 DEF MainBlock, BlockRx, table
<1>6. CASE MainWaited(c)
      BY <1>6 DEF MainWaited, table
<1>7. CASE MainDelete(c)
      BY <1>7 DEF MainDelete
<1>8. CASE MainCreate(c) \/ MainSync(c) \/ MainSyncArm(c)
  <2>1. mainAt[c] # "idle" /\ mainAt'[c] \in {"syncarm", "top"}
        BY <1>8 DEF MainCreate, MainSync, MainSyncArm
  <2>2. \A d \in Contexts : mainAt'[d] \in {"idle", "syncarm", "top"}
        BY <2>1 DEF Single
  <2>3. timerAt = "table" => tbl' \in Tables
    <3>1. CASE MainCreate(c)
          BY <3>1, NoTableIsNone DEF MainCreate
    <3>2. CASE MainSync(c) \/ MainSyncArm(c)
          BY <3>2, SyncKeepsTable, NoTableIsNone DEF HasTable
    <3>. QED  BY <1>8, <3>1, <3>2
  <2>. QED  BY <2>2, <2>3
<1>. QED  BY <1>3, <1>4, <1>5, <1>6, <1>7, <1>8 DEF MainStep

\* Every step keeps an expired timer tied to its table.
LEMMA TableKnownStep == TypeOK /\ Single /\ TableKnown /\ [Next]_vars => TableKnown'
<1>. SUFFICES ASSUME TypeOK, Single, TableKnown, [Next]_vars
              PROVE  TableKnown'
     OBVIOUS
<1>. USE DEF TableKnown, table
<1>1. ASSUME NEW c \in Contexts, MainStep(c)
      PROVE  TableKnown'
      BY <1>1, TableKnownMain
<1>2. CASE RxStep
  <2>1. UNCHANGED <<mainAt, timerAt>>
        BY <1>2 DEF RxStep, RxEnter, RxTop, RxFlush, RxDequeue, RxCheck, RxDeliver, RxArm,
                    RxEnd
  <2>. QED  BY <1>2, <2>1, RxKeepsTable, NoTableIsNone DEF TypeOK, HasTable
<1>3. CASE TimerExpire
      BY <1>3 DEF TimerExpire, HasTable, TypeOK, Places
<1>4. CASE TimerTable
  <2>1. timerAt' = "idle" /\ mainAt' = mainAt /\ (timerAt # "table" => tbl' = tbl)
        BY <1>4 DEF TimerTable, TypeOK, Places, TimerSteps
  <2>. QED  BY <2>1, NoTableIsNone
<1>5. CASE RoleBlock \/ UNCHANGED vars
           \/ \E n \in 0 .. Ports, e \in CmdPort : Interrupt(n, e)
  <2>1. UNCHANGED <<mainAt, timerAt, tbl>>
        BY <1>5 DEF RoleBlock, Interrupt, vars
  <2>. QED  BY <2>1
<1>6. CASE RoleStep
      BY <1>6 DEF RoleStep, RoleWaited, RoleClean, RoleDelete, RoleInit
<1>. QED  BY <1>1, <1>2, <1>3, <1>4, <1>5, <1>6 DEF Next, TimerStep

\* One look at the queue's length per interrupt is enough: the rx work only
\* takes packets out, and nobody else puts any in.
LEMMA BoundedStep ==
    TypeOK /\ Single /\ Bounded /\ QueueBound /\ [Next]_vars => Bounded' /\ QueueBound'
<1>. SUFFICES ASSUME TypeOK, Single, Bounded, QueueBound, [Next]_vars
              PROVE  Bounded' /\ QueueBound'
     OBVIOUS
<1>. USE PendingAssumption, CardAssumption DEF Bounded, QueueBound, TypeOK, Counters,
                                               queue, mainOwn
<1>1. ASSUME NEW c \in Contexts, MainStep(c)
      PROVE  Bounded' /\ QueueBound'
  <2>1. \A d \in Contexts : d # c => mainAt'[d] = mainAt[d]
        BY <1>1, OthersStay
  <2>. USE <2>1 DEF Places, Goto, MainSteps
  <2>2. CASE MainInt(c)
        BY <2>2 DEF MainInt, Single
  <2>3. CASE MainRead(c)
    <3>1. \A d \in Contexts : d # c => mainAt[d] = "idle"
          BY <2>3 DEF MainRead, Single
    <3>. QED  BY <2>3, <3>1 DEF MainRead
  <2>4. CASE MainRcvd(c)
    <3>1. EventStep \notin {"int", "read"} /\ EventStep \in MainSteps
          BY Zenon DEF EventStep
    <3>. QED  BY <2>4, <3>1 DEF MainRcvd
  <2>5. CASE MainTop(c)
        BY <2>5 DEF MainTop
  <2>6. CASE ~(MainInt(c) \/ MainRead(c) \/ MainRcvd(c) \/ MainTop(c))
    <3>1. /\ UNCHANGED <<fetch, rx_pkts_queued>>
          /\ mainAt'[c] = mainAt[c] \/ mainAt'[c] \notin {"int", "read"}
          BY <1>1, <2>6 DEF MainStep, MainEnter, MainPause, MainSlow, MainNotRcvd,
                            MainBlock, MainWaited, MainDelete, MainCreate, MainSync,
                            MainSyncArm, MainEnd, BlockRx
    <3>. QED  BY <3>1
  <2>. QED  BY <2>2, <2>3, <2>4, <2>5, <2>6
<1>2. CASE RxStep
  <2>1. UNCHANGED <<mainAt, fetch>>
        BY <1>2 DEF RxStep, RxEnter, RxTop, RxFlush, RxDequeue, RxCheck, RxDeliver, RxArm,
                    RxEnd
  <2>2. CASE RxDequeue
        BY <2>1, <2>2 DEF RxDequeue
  <2>3. CASE ~RxDequeue
    <3>1. rx_pkts_queued' = rx_pkts_queued
          BY <1>2, <2>3 DEF RxStep, RxEnter, RxTop, RxFlush, RxCheck, RxDeliver, RxArm,
                            RxEnd
    <3>. QED  BY <2>1, <3>1
  <2>. QED  BY <2>2, <2>3
<1>3. CASE TimerStep \/ RoleBlock \/ RoleStep \/ UNCHANGED vars
           \/ \E n \in 0 .. Ports, e \in CmdPort : Interrupt(n, e)
  <2>1. UNCHANGED <<mainAt, fetch, rx_pkts_queued>>
        BY <1>3 DEF TimerStep, TimerExpire, TimerTable, RoleBlock, RoleStep, RoleWaited,
                    RoleClean, RoleDelete, RoleInit, Interrupt, vars
  <2>. QED  BY <2>1
<1>. QED  BY <1>1, <1>2, <1>3 DEF Next

\* The main process is about to send for the rx work; somebody has sent for it.
Reading == \E c \in Contexts : mainAt[c] = "read" /\ data_received
Coming == rx_work \/ mlan_rx_processing \/ more_rx_task_flag

\* Where the packets nobody is about to send for stay as many, there are some only if
\* there were some.
LEMMA SameExcess ==
    ASSUME NEW q \in Nat, NEW a \in Nat, NEW u \in Nat,
           NEW r \in Nat, NEW b \in Nat, NEW v \in Nat,
           r - (b + v) = q - (a + u), r > b + v
    PROVE  q > a + u
  OBVIOUS

\* What a step of the main process does to the rx work's wake-ups: it takes none
\* back, and either sends for the rx work or leaves as many packets to be sent for
\* as before.
LEMMA SendsMain ==
    ASSUME TypeOK, NEW c \in Contexts, MainStep(c)
    PROVE  /\ UNCHANGED <<rxAt, mlan_rx_processing>>
           /\ rx_work => rx_work'
           /\ more_rx_task_flag => more_rx_task_flag'
           /\ \/ rx_pkts_queued' - (asleep' + unsent') = rx_pkts_queued - (asleep + unsent)
              \/ IF mlan_rx_processing THEN more_rx_task_flag' ELSE rx_work'
<1>. USE DEF TypeOK, Counters, rxLock, wakes, mainOwn, queue
<1>1. CASE MainSlow(c) \/ MainRcvd(c)
      BY <1>1 DEF MainSlow, MainRcvd, QueueRxWork
<1>2. CASE MainRead(c) \/ MainNotRcvd(c)
      BY <1>2 DEF MainRead, MainNotRcvd
<1>3. CASE ~MainSlow(c) /\ ~MainRcvd(c) /\ ~MainRead(c) /\ ~MainNotRcvd(c)
  <2>1. UNCHANGED <<rxAt, mlan_rx_processing, rx_work, more_rx_task_flag, rx_pkts_queued,
                    asleep, unsent>>
        BY <1>3 DEF MainStep, MainEnter, MainTop, MainPause, MainInt, MainBlock, MainWaited,
                    MainDelete, MainCreate, MainSync, MainSyncArm, MainEnd
  <2>. QED  BY <2>1
<1>. QED  BY <1>1, <1>2, <1>3

\* Whoever has read a packet is still there, with data_received set.
LEMMA UnsentMain ==
    ASSUME TypeOK, unsent > 0 => Reading, NEW c \in Contexts, MainStep(c)
    PROVE  unsent' > 0 => Reading'
<1>. USE DEF TypeOK, Places, mainOwn, Goto
<1>1. CASE MainRead(c)
      BY <1>1 DEF MainRead, Reading
<1>2. CASE MainRcvd(c) \/ MainNotRcvd(c)
      BY <1>2 DEF MainRcvd, MainNotRcvd
<1>3. CASE ~MainRead(c) /\ ~MainRcvd(c) /\ ~MainNotRcvd(c)
  <2>1. UNCHANGED <<unsent, data_received>>
        BY <1>3 DEF MainStep, MainEnter, MainTop, MainPause, MainSlow, MainInt, MainBlock,
                    MainWaited, MainDelete, MainCreate, MainSync, MainSyncArm, MainEnd
  <2>2. mainAt[c] # "read"
        BY <1>3 DEF MainStep, MainEnter, MainTop, MainPause, MainSlow, MainInt, MainBlock,
                    MainWaited, MainDelete, MainCreate, MainSync, MainSyncArm, MainEnd
  <2>. QED  BY <2>1, <2>2, OthersStay DEF Reading
<1>. QED  BY <1>1, <1>2, <1>3

\* A packet that comes too late for the rx work is in nobody's blind spot.
LEMMA SeenStep ==
    TypeOK /\ Single /\ Seen /\ NotForgotten /\ [Next]_vars => Seen' /\ NotForgotten'
<1>. SUFFICES ASSUME TypeOK, Single, Seen, NotForgotten, [Next]_vars
              PROVE  Seen' /\ NotForgotten'
     OBVIOUS
<1>. USE DEF Seen, NotForgotten, TypeOK, Counters
<1>1. ASSUME NEW c \in Contexts, MainStep(c)
      PROVE  Seen' /\ NotForgotten'
  <2>1. unsent' > 0 => Reading'
        BY <1>1, UnsentMain DEF Reading
  <2>2. Counters'
        BY CountersStep, <1>1 DEF Next
  <2>3. CASE IF mlan_rx_processing THEN more_rx_task_flag' ELSE rx_work'
    <3>1. rxAt' = rxAt /\ (rxAt = "end" => mlan_rx_processing)
          BY <1>1, SendsMain DEF Single
    <3>2. Coming' /\ (rxAt' = "end" => more_rx_task_flag')
          BY <2>3, <3>1 DEF Coming
    <3>. QED  BY <2>1, <3>2 DEF Reading, Coming
  <2>4. CASE rx_pkts_queued' - (asleep' + unsent') = rx_pkts_queued - (asleep + unsent)
    <3>1. rx_pkts_queued' > asleep' + unsent' => rx_pkts_queued > asleep + unsent
      <4>1. /\ rx_pkts_queued \in Nat /\ asleep \in Nat /\ unsent \in Nat
            /\ rx_pkts_queued' \in Nat /\ asleep' \in Nat /\ unsent' \in Nat
            BY <2>2
      <4>. QED  BY <2>4, <4>1, SameExcess
    <3>2. /\ UNCHANGED <<rxAt, mlan_rx_processing>>
          /\ rx_work => rx_work'
          /\ more_rx_task_flag => more_rx_task_flag'
          BY <1>1, SendsMain
    <3>. QED  BY <2>1, <3>1, <3>2 DEF Reading
  <2>. QED  BY <1>1, <2>3, <2>4, SendsMain
<1>2. CASE RxStep
  <2>1. UNCHANGED <<mainAt, data_received, unsent, asleep>>
        BY <1>2 DEF RxStep, RxEnter, RxTop, RxFlush, RxDequeue, RxCheck, RxDeliver, RxArm,
                    RxEnd, mainOwn, wakes
  <2>2. CASE RxEnter
        BY <2>1, <2>2 DEF RxEnter, queue
  <2>3. CASE RxDequeue
        BY <2>1, <2>3 DEF RxDequeue, rxLock, wakes, Single
  <2>4. CASE RxEnd
        BY <2>1, <2>4 DEF RxEnd, queue, wakes
  <2>5. CASE RxTop \/ RxFlush \/ RxCheck \/ RxDeliver \/ RxArm
    <3>1. mlan_rx_processing' /\ rxAt' # "end"
          BY <2>5 DEF RxTop, RxFlush, RxCheck, RxDeliver, RxArm, rxLock, Single
    <3>. QED  BY <2>1, <3>1
  <2>. QED  BY <1>2, <2>2, <2>3, <2>4, <2>5 DEF RxStep
<1>3. CASE TimerTable
      BY <1>3 DEF TimerTable, mainOwn, queue, rxLock
<1>4. CASE TimerExpire \/ RoleBlock \/ RoleStep \/ UNCHANGED vars
           \/ \E n \in 0 .. Ports, e \in CmdPort : Interrupt(n, e)
  <2>1. UNCHANGED <<mainAt, data_received, unsent, asleep, rx_pkts_queued, rxAt, rx_work,
                    mlan_rx_processing, more_rx_task_flag>>
        BY <1>4 DEF TimerExpire, RoleBlock, RoleStep, RoleWaited, RoleClean, RoleDelete,
                    RoleInit, Interrupt, vars, mainOwn, queue, rxLock, wakes
  <2>. QED  BY <2>1
<1>. QED  BY <1>1, <1>2, <1>3, <1>4 DEF Next, TimerStep

\* Whoever leaves a packet in the table also leaves a way out of it.
LEMMA HeldWatchedStep ==
    TypeOK /\ HeldWatched /\ [Next]_vars => HeldWatched'
<1>. SUFFICES ASSUME TypeOK, HeldWatched, [Next]_vars
              PROVE  HeldWatched'
     OBVIOUS
<1>. USE DEF HeldWatched, TypeOK, Places, Tables, NoTable, HasTable
<1>1. ASSUME NEW c \in Contexts, MainStep(c)
      PROVE  HeldWatched'
  <2>1. CASE MainDelete(c)
        BY <2>1 DEF MainDelete
  <2>2. CASE MainCreate(c)
        BY <2>2 DEF MainCreate, NewTable
  <2>3. CASE MainSync(c)
    <3>1. CASE UNCHANGED tbl
      <4>1. \A d \in Contexts : mainAt[d] = "syncarm" => mainAt'[d] = "syncarm"
            BY <2>3 DEF MainSync, Goto, MainSteps
      <4>. QED  BY <2>3, <3>1, <4>1 DEF MainSync
    <3>2. CASE HasTable /\ tbl' = Flushed(tbl)
      <4>1. \A d \in Contexts : mainAt[d] = "syncarm" => mainAt'[d] = "syncarm"
            BY <2>3 DEF MainSync, Goto, MainSteps
      <4>. QED  BY <2>3, <3>2, <4>1 DEF MainSync, Flushed
    <3>3. CASE /\ HasTable
               /\ \E h \in BOOLEAN : tbl' = [tbl EXCEPT !.held = h, !.flush_data = FALSE]
               /\ \E on \in (IF tbl.timer_is_set THEN {"syncarm", "top"} ELSE {"syncarm"}) :
                     Goto(c, on)
      <4>1. tbl'.timer_is_set = tbl.timer_is_set
            BY <3>3
      <4>2. tbl.timer_is_set \/ mainAt'[c] = "syncarm"
            BY <3>3 DEF Goto
      <4>. QED  BY <4>1, <4>2
    <3>. QED  BY <2>3, <3>1, <3>2, <3>3 DEF MainSync
  <2>4. CASE MainSyncArm(c)
        BY <2>4 DEF MainSyncArm, TimerRestart
  <2>5. CASE ~MainDelete(c) /\ ~MainCreate(c) /\ ~MainSync(c) /\ ~MainSyncArm(c)
    <3>1. UNCHANGED <<tbl, rxAt>>
          BY <1>1, <2>5 DEF MainStep, MainEnter, MainTop, MainPause, MainSlow, MainInt,
                            MainRead, MainRcvd, MainNotRcvd, MainBlock, MainWaited,
                            MainEnd, table
    <3>2. \A d \in Contexts : mainAt[d] = "syncarm" => mainAt'[d] = "syncarm"
          BY <1>1, <2>5 DEF MainStep, MainEnter, MainTop, MainPause, MainSlow, MainInt,
                            MainRead, MainRcvd, MainNotRcvd, MainBlock, MainWaited,
                            MainEnd, Goto
    <3>. QED  BY <3>1, <3>2
  <2>. QED  BY <2>1, <2>2, <2>3, <2>4, <2>5
<1>2. CASE RxStep
  <2>1. CASE RxFlush
        BY <2>1 DEF RxFlush, Flushed
  <2>2. CASE RxDeliver
        BY <2>2 DEF RxDeliver, Flushed
  <2>3. CASE RxArm
        BY <2>3 DEF RxArm, TimerRestart
  <2>4. CASE RxEnter \/ RxTop \/ RxDequeue \/ RxCheck \/ RxEnd
    <3>1. UNCHANGED <<tbl, mainAt>> /\ rxAt # "arm"
          BY <2>4 DEF RxEnter, RxTop, RxDequeue, RxCheck, RxEnd, table
    <3>. QED  BY <3>1
  <2>. QED  BY <1>2, <2>1, <2>2, <2>3, <2>4 DEF RxStep
<1>3. CASE TimerStep
      BY <1>3 DEF TimerStep, TimerExpire, TimerTable
<1>4. CASE RoleBlock \/ RoleStep \/ UNCHANGED vars
           \/ \E n \in 0 .. Ports, e \in CmdPort : Interrupt(n, e)
  <2>1. UNCHANGED <<rxAt, mainAt>> /\ (tbl' = tbl \/ tbl' = NoTable)
        BY <1>4 DEF RoleBlock, RoleStep, RoleWaited, RoleClean, RoleDelete, RoleInit,
                    Interrupt, vars, table
  <2>. QED  BY <2>1
<1>. QED  BY <1>1, <1>2, <1>3, <1>4 DEF Next

-----------------------------------------------------------------------------
(* The theorems *)

\* Type correctness and the inductive invariant, of whatever the card, the timer
\* and the users do in whatever order.
THEOREM WorkInvHolds == Spec => [](TypeOK /\ WorkInv)
<1>1. Init => TypeOK /\ WorkInv
  <2>1. Init => TypeOK
        BY TypeInit
  <2>2. Init => Single /\ Blocked /\ TableKnown
        BY DEF Init, Single, Blocked, TableKnown
  <2>3. Init => Bounded /\ QueueBound /\ Seen /\ NotForgotten
        BY PendingAssumption, CardAssumption DEF Init, Bounded, QueueBound, Seen,
                                                 NotForgotten
  <2>. QED  BY <2>1, <2>2, <2>3 DEF WorkInv
<1>2. TypeOK /\ WorkInv /\ [Next]_vars => (TypeOK /\ WorkInv)'
  <2>. SUFFICES ASSUME TypeOK, WorkInv, [Next]_vars
                PROVE  TypeOK' /\ WorkInv'
       OBVIOUS
  <2>1. TypeOK'
        BY FlagsStep, PlacesStep, CountersStep DEF TypeOK, WorkInv
  <2>2. Single' /\ Blocked' /\ TableKnown'
        BY SingleStep, BlockedStep, TableKnownStep DEF WorkInv
  <2>3. Bounded' /\ QueueBound' /\ Seen' /\ NotForgotten'
        BY BoundedStep, SeenStep DEF WorkInv
  <2>. QED  BY <2>1, <2>2, <2>3 DEF WorkInv
<1>. QED  BY <1>1, <1>2, PTL DEF Spec

\* The type invariant of the receive path's scheduling.
THEOREM WorkTyped == Spec => []TypeOK
  BY WorkInvHolds, PTL

\* The rx work is outside while the main process creates or deletes a table, as
\* long as no user has switched roles.
THEOREM ExclusionHolds == Spec => []Exclusion
<1>1. WorkInv => Exclusion
      BY DEF WorkInv, Single, Blocked, Exclusion, RxInTable
<1>. QED  BY <1>1, WorkInvHolds, PTL

\* The queue never holds more than HIGH_RX_PENDING packets and one interrupt's.
THEOREM QueueBoundHolds == Spec => []QueueBound
<1>1. WorkInv => QueueBound
      BY DEF WorkInv
<1>. QED  BY <1>1, WorkInvHolds, PTL

\* No queued packet is forgotten but the ones that came with a sleep confirmation.
THEOREM NotForgottenHolds == Spec => []NotForgotten
<1>1. WorkInv => NotForgotten
      BY DEF WorkInv
<1>. QED  BY <1>1, WorkInvHolds, PTL

\* A held packet is never without a timer, a flush or somebody about to start the
\* timer.
THEOREM HeldWatchedHolds == Spec => []HeldWatched
<1>1. Init => HeldWatched
      BY DEF Init, HeldWatched, NoTable
<1>2. TypeOK /\ HeldWatched /\ [Next]_vars => HeldWatched'
      BY HeldWatchedStep
<1>. QED  BY <1>1, <1>2, WorkTyped, PTL DEF Spec
=============================================================================
