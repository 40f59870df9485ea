------------------------------- MODULE RxWork --------------------------------
(***************************************************************************)
(* The scheduling of the mlan WLAN driver's receive path.                  *)
(* mlan_main_process runs in the SDIO interrupt thread or in a work,       *)
(* mlan_rx_process in a work of its own; flags under two spin locks keep   *)
(* each of them single, and mlan_block_rx_process keeps the rx work away   *)
(* while a reorder table is created or deleted.  A step is a section under *)
(* a lock, or an access to shared fields that no lock protects.            *)
(*                                                                         *)
(* RxReorder takes each of its calls for one step: this module is about    *)
(* when that is so, and about who wakes whom.  There is one table, reduced *)
(* to whether a packet is held in it.                                      *)
(***************************************************************************)
EXTENDS Integers

CONSTANTS
    High,      \* HIGH_RX_PENDING: above it the main process pauses
    Low,       \* LOW_RX_PENDING: below it the rx work resumes the main process
    Ports,     \* packets the card can hold ready for one interrupt
    Events,    \* events the card sends
    MaxIrqs,   \* bound: interrupts in all
    MaxRoles   \* bound: role switches in all

ASSUME PendingAssumption == High \in Nat /\ Low \in 1 .. High
ASSUME CardAssumption == Ports \in Nat \ {0}
ASSUME EventsAssumption == Events \subseteq {"addba", "delba", "sync", "ps_sleep"}
ASSUME BoundAssumption == MaxIrqs \in Nat /\ MaxRoles \in Nat

VARIABLES
    mlan_processing, more_task_flag,                     \* under main_proc_lock
    mlan_rx_processing, more_rx_task_flag, rx_lock_flag, \* under rx_proc_lock
    call,            \* contexts that are about to call mlan_main_process
    rx_work,         \* the rx work is queued
    mainAt,          \* where each context is in mlan_main_process
    fetch,           \* packets wlan_process_int_status has still to read
    data_received, event_received,
    ps_state,        \* the card's power save
    cfm,             \* wlan_process_int_status found ps_state = SLEEP_CFM on entry
    rx_pkts_queued,  \* length of rx_data_queue
    delay_task_flag,
    rxAt,            \* where mlan_rx_process is
    tbl,             \* the reorder table, or NoTable
    flush_data,      \* the adapter's: some table is to be flushed
    timerAt,         \* where wlan_flush_data, the timer's callback, is
    ioctlAt,         \* where wlan_bss_ioctl_bss_role is
    roles,           \* role switches begun
    sdio_ireg,       \* an interrupt has not been processed
    card, cardEvent, \* what the card holds ready
    irqs,            \* interrupts so far
    unsent, asleep   \* history: packets of this interrupt the rx work is still to be
                     \* sent for; packets nobody sends for, left by a sleep confirmation

mainLock == <<mlan_processing, more_task_flag>>
rxLock == <<mlan_rx_processing, more_rx_task_flag, rx_lock_flag>>
wakes == <<call, rx_work, asleep>>
mainOwn == <<fetch, data_received, event_received, cfm, unsent>>
queue == <<rx_pkts_queued, delay_task_flag>>
table == <<tbl, flush_data>>
ioctl == <<ioctlAt, roles>>
cardVars == <<sdio_ireg, card, cardEvent, irqs, ps_state>>
vars == <<mainLock, rxLock, wakes, mainAt, mainOwn, queue, rxAt, table, timerAt, ioctl,
          cardVars>>

Contexts == {"irq", "work"}
CmdPort == Events \cup {"none", "sleep_cfm"}  \* what the command port may carry
PsStates == {"AWAKE", "PRE_SLEEP", "SLEEP_CFM", "SLEEP"}
MainSteps == {"idle", "top", "pause", "slow", "int", "read", "delblock", "delwait", "delete",
              "newblock", "newwait", "create", "sync", "syncarm", "end"}
RxSteps == {"idle", "top", "flush", "dequeue", "check", "deliver", "arm", "end"}
TimerSteps == {"idle", "table", "freed"}
IoctlSteps == {"idle", "wait", "clean", "delwait", "delete", "init"}

NoTable == [held |-> FALSE]
Tables == [held : BOOLEAN, timer_is_set : BOOLEAN, flush_data : BOOLEAN]
NewTable == [held |-> FALSE, timer_is_set |-> FALSE, flush_data |-> FALSE]
HasTable == tbl # NoTable

Init ==
    /\ mlan_processing = FALSE /\ more_task_flag = FALSE
    /\ mlan_rx_processing = FALSE /\ more_rx_task_flag = FALSE /\ rx_lock_flag = FALSE
    /\ call = {} /\ rx_work = FALSE
    /\ mainAt = [c \in Contexts |-> "idle"]
    /\ fetch = 0 /\ data_received = FALSE /\ event_received = "none"
    /\ rx_pkts_queued = 0 /\ delay_task_flag = FALSE
    /\ rxAt = "idle" /\ timerAt = "idle" /\ ioctlAt = "idle" /\ roles = 0
    /\ tbl = NoTable /\ flush_data = FALSE
    /\ sdio_ireg = FALSE /\ card = 0 /\ cardEvent = "none" /\ irqs = 0
    /\ ps_state = "AWAKE" /\ cfm = FALSE /\ unsent = 0 /\ asleep = 0

-----------------------------------------------------------------------------
(* Waking and blocking *)

\* mlan_queue_main_work: a running main process goes round once more.
QueueMainWork ==
    IF mlan_processing
    THEN more_task_flag' = TRUE /\ UNCHANGED call
    ELSE call' = call \cup {"work"} /\ UNCHANGED more_task_flag

\* Mutant of QueueRxWork: a running rx work is trusted to see the packet.
QueueRxWorkTrusting ==
    /\ rx_work' = (rx_work \/ ~mlan_rx_processing)
    /\ asleep' = 0
    /\ UNCHANGED more_rx_task_flag

\* mlan_queue_rx_work: the rx work is sent for, whatever is in the queue.
QueueRxWork ==
    /\ IF mlan_rx_processing
       THEN more_rx_task_flag' = TRUE /\ UNCHANGED rx_work
       ELSE rx_work' = TRUE /\ UNCHANGED more_rx_task_flag
    /\ asleep' = 0

\* mlan_block_rx_process(MTRUE): where the caller goes on, at wait until the
\* running rx work has ended or at once.
BlockRx(wait, on) ==
    [locked |-> TRUE, at |-> IF mlan_rx_processing THEN wait ELSE on]

-----------------------------------------------------------------------------
(* The reorder table *)

\* What a pending flush makes of the table: nothing is held any more.
Flushed(t) == IF t.flush_data THEN [t EXCEPT !.held = FALSE, !.flush_data = FALSE] ELSE t

\* mlan_11n_rxreorder_timer_restart: stopping a timer that is set waits for its
\* callback.
TimerRestart ==
    /\ HasTable /\ tbl.timer_is_set => timerAt # "table"
    /\ tbl' = IF HasTable THEN [tbl EXCEPT !.timer_is_set = TRUE] ELSE tbl

-----------------------------------------------------------------------------
(* mlan_main_process *)

Goto(c, step) == mainAt' = [mainAt EXCEPT ![c] = step]

MainEnter(c) ==
    /\ c \in call
    /\ mainAt[c] = "idle"
    /\ call' = call \ {c}
    /\ IF mlan_processing
       THEN more_task_flag' = TRUE /\ UNCHANGED <<mlan_processing, mainAt>>
       ELSE mlan_processing' = TRUE /\ Goto(c, "top") /\ UNCHANGED more_task_flag
    /\ UNCHANGED <<rxLock, rx_work, asleep, mainOwn, queue, rxAt, table, timerAt, ioctl,
                   cardVars>>

\* Mutant of MainTop: no pause.
MainTopUnbounded(c) ==
    /\ mainAt[c] = "top"
    /\ Goto(c, "int")
    /\ UNCHANGED <<mainLock, rxLock, wakes, mainOwn, queue, rxAt, table, timerAt, ioctl,
                   cardVars>>

\* The queue's length is read without its lock.
MainTop(c) ==
    /\ mainAt[c] = "top"
    /\ Goto(c, IF rx_pkts_queued > High THEN "pause" ELSE "int")
    /\ UNCHANGED <<mainLock, rxLock, wakes, mainOwn, queue, rxAt, table, timerAt, ioctl,
                   cardVars>>

MainPause(c) ==
    /\ mainAt[c] = "pause"
    /\ delay_task_flag' = TRUE
    /\ Goto(c, "slow")
    /\ UNCHANGED <<mainLock, rxLock, wakes, mainOwn, rx_pkts_queued, rxAt, table, timerAt,
                   ioctl, cardVars>>

MainSlow(c) ==
    /\ mainAt[c] = "slow"
    /\ QueueRxWork
    /\ Goto(c, "end")
    /\ UNCHANGED <<mainLock, mlan_rx_processing, rx_lock_flag, call, mainOwn, queue, rxAt,
                   table, timerAt, ioctl, cardVars>>

\* wlan_check_ps_cond: a sleep request is confirmed, with or without a response to
\* come, or must wait for a command.
CheckPsCond(ps) ==
    IF ps = "PRE_SLEEP" THEN {"PRE_SLEEP", "SLEEP_CFM", "SLEEP"} ELSE {ps}

\* wlan_process_int_status takes the pending interrupt and reads the command port
\* first: an event is kept for later, the answer to a sleep confirmation puts the
\* card to sleep, or back to work when it reports a failure.  Without an interrupt
\* nothing was received and the loop is left.
MainInt(c) ==
    /\ mainAt[c] = "int"
    /\ IF sdio_ireg
       THEN /\ fetch' = card
            /\ event_received' = IF cardEvent = "sleep_cfm" THEN "none" ELSE cardEvent
            /\ cfm' = (ps_state = "SLEEP_CFM")
            /\ ps_state' \in IF cardEvent = "sleep_cfm" /\ ps_state = "SLEEP_CFM"
                             THEN {"SLEEP", "AWAKE"} ELSE {ps_state}
            /\ sdio_ireg' = FALSE /\ card' = 0 /\ cardEvent' = "none"
            /\ Goto(c, "read")
       ELSE /\ Goto(c, "end")
            /\ ps_state' \in CheckPsCond(ps_state)
            /\ UNCHANGED <<fetch, event_received, cfm, sdio_ireg, card, cardEvent>>
    /\ UNCHANGED <<mainLock, rxLock, wakes, data_received, unsent, queue, rxAt, table,
                   timerAt, ioctl, irqs>>

\* wlan_decode_rx_packet appends one packet.
MainRead(c) ==
    /\ mainAt[c] = "read"
    /\ fetch > 0
    /\ fetch' = fetch - 1
    /\ rx_pkts_queued' = rx_pkts_queued + 1
    /\ data_received' = TRUE
    /\ unsent' = unsent + 1
    /\ UNCHANGED <<mainLock, rxLock, wakes, mainAt, event_received, cfm, delay_task_flag,
                   rxAt, table, timerAt, ioctl, cardVars>>

\* Where wlan_process_event goes for the event in hand.
EventStep ==
    CASE event_received = "sync" /\ HasTable -> "sync"
      [] event_received \in {"addba", "delba"} /\ HasTable -> "delblock"
      [] event_received = "addba" /\ ~HasTable -> "newblock"
      [] OTHER -> "top"

\* The card fell asleep in this interrupt: wlan_process_int_status takes
\* data_received back ("to avoid ps_state change").
FellAsleep == cfm /\ ps_state = "SLEEP"
DataReceived == data_received /\ ~FellAsleep

\* ps_state once something was received: the card is awake, and may ask for sleep.
PsReceived ==
    CheckPsCond(IF event_received = "ps_sleep" /\ ps_state # "SLEEP_CFM" THEN "PRE_SLEEP"
                ELSE IF ps_state = "SLEEP" THEN "AWAKE" ELSE ps_state)

\* Everything is read: the rx work is sent for and the event handled.  The code
\* clears event_received first; here it is kept while the event is in hand.
MainRcvd(c) ==
    /\ mainAt[c] = "read"
    /\ fetch = 0
    /\ DataReceived \/ event_received # "none"
    /\ IF DataReceived THEN QueueRxWork
       ELSE asleep' = asleep + unsent /\ UNCHANGED <<more_rx_task_flag, rx_work>>
    /\ data_received' = FALSE /\ cfm' = FALSE /\ unsent' = 0
    /\ Goto(c, EventStep)
    /\ event_received' = IF EventStep = "top" THEN "none" ELSE event_received
    /\ ps_state' \in PsReceived
    /\ UNCHANGED <<mainLock, mlan_rx_processing, rx_lock_flag, call, fetch, queue, rxAt,
                   table, timerAt, ioctl, sdio_ireg, card, cardEvent, irqs>>

\* Nothing seems to be received: packets that came with the sleep confirmation stay
\* in the queue, and the loop is left.
MainNotRcvd(c) ==
    /\ mainAt[c] = "read"
    /\ fetch = 0
    /\ ~DataReceived /\ event_received = "none"
    /\ asleep' = asleep + unsent
    /\ data_received' = FALSE /\ cfm' = FALSE /\ unsent' = 0
    /\ ps_state' \in CheckPsCond(ps_state)
    /\ Goto(c, "end")
    /\ UNCHANGED <<mainLock, rxLock, call, rx_work, fetch, event_received, queue, rxAt,
                   table, timerAt, ioctl, sdio_ireg, card, cardEvent, irqs>>

\* The two blocks of wlan_11n_delete_rxreorder_tbl_entry and
\* wlan_11n_create_rxreorder_tbl; the latter deletes an old entry first.
MainBlock(c) ==
    /\ mainAt[c] \in {"delblock", "newblock"}
    /\ LET b == IF mainAt[c] = "delblock" THEN BlockRx("delwait", "delete")
                ELSE BlockRx("newwait", "create")
       IN rx_lock_flag' = b.locked /\ Goto(c, b.at)
    /\ UNCHANGED <<mainLock, mlan_rx_processing, more_rx_task_flag, wakes, mainOwn, queue,
                   rxAt, table, timerAt, ioctl, cardVars>>

\* flush_workqueue: the rx work that was running has ended.
MainWaited(c) ==
    /\ mainAt[c] \in {"delwait", "newwait"}
    /\ ~mlan_rx_processing
    /\ Goto(c, IF mainAt[c] = "delwait" THEN "delete" ELSE "create")
    /\ UNCHANGED <<mainLock, rxLock, wakes, mainOwn, queue, rxAt, table, timerAt, ioctl,
                   cardVars>>

\* What is held goes up; del_timer_sync waits for the timer's callback.  The end
\* of the block, mlan_block_rx_process(MFALSE), only clears the flag.
MainDelete(c) ==
    /\ mainAt[c] = "delete"
    /\ timerAt # "table"
    /\ tbl' = NoTable
    /\ rx_lock_flag' = FALSE
    /\ Goto(c, IF event_received = "addba" THEN "newblock" ELSE "top")
    /\ event_received' = IF event_received = "addba" THEN "addba" ELSE "none"
    /\ UNCHANGED <<mainLock, mlan_rx_processing, more_rx_task_flag, wakes, fetch,
                   data_received, cfm, unsent, queue, rxAt, flush_data, timerAt, ioctl,
                   cardVars>>

\* Without memory there is no new table.
MainCreate(c) ==
    /\ mainAt[c] = "create"
    /\ tbl' \in {NewTable, NoTable}
    /\ rx_lock_flag' = FALSE
    /\ Goto(c, "top")
    /\ event_received' = "none"
    /\ UNCHANGED <<mainLock, mlan_rx_processing, more_rx_task_flag, wakes, fetch,
                   data_received, cfm, unsent, queue, rxAt, flush_data, timerAt, ioctl,
                   cardVars>>

\* wlan_11n_rxba_sync_event hands what the firmware dropped to the reordering, as
\* RxDeliver does, and without a block; after a resume the event is ignored.
MainSync(c) ==
    /\ mainAt[c] = "sync"
    /\ \/ Goto(c, "top") /\ UNCHANGED tbl
       \/ HasTable /\ tbl' = Flushed(tbl) /\ Goto(c, "top")
       \/ /\ HasTable
          /\ \E h \in BOOLEAN : tbl' = [tbl EXCEPT !.held = h, !.flush_data = FALSE]
          /\ \E on \in (IF tbl.timer_is_set THEN {"syncarm", "top"} ELSE {"syncarm"}) :
                Goto(c, on)
    /\ event_received' = "none"
    /\ UNCHANGED <<mainLock, rxLock, wakes, fetch, data_received, cfm, unsent, queue, rxAt,
                   flush_data, timerAt, ioctl, cardVars>>

MainSyncArm(c) ==
    /\ mainAt[c] = "syncarm"
    /\ TimerRestart
    /\ Goto(c, "top")
    /\ UNCHANGED <<mainLock, rxLock, wakes, mainOwn, queue, rxAt, flush_data, timerAt, ioctl,
                   cardVars>>

\* Somebody had more to do while the main process ran: once more from the top.
MainEnd(c) ==
    /\ mainAt[c] = "end"
    /\ more_task_flag' = FALSE
    /\ mlan_processing' = more_task_flag
    /\ Goto(c, IF more_task_flag THEN "top" ELSE "idle")
    /\ UNCHANGED <<rxLock, wakes, mainOwn, queue, rxAt, table, timerAt, ioctl, cardVars>>

MainStep(c) ==
    \/ MainEnter(c) \/ MainTop(c) \/ MainPause(c) \/ MainSlow(c)
    \/ MainInt(c) \/ MainRead(c) \/ MainRcvd(c) \/ MainNotRcvd(c)
    \/ MainBlock(c) \/ MainWaited(c) \/ MainDelete(c) \/ MainCreate(c)
    \/ MainSync(c) \/ MainSyncArm(c) \/ MainEnd(c)

-----------------------------------------------------------------------------
(* mlan_rx_process, called by woal_rx_work_queue *)

\* Mutant of RxEnter: the block is not looked at.
RxEnterUnblocked ==
    /\ rx_work
    /\ rxAt = "idle"
    /\ rx_work' = FALSE
    /\ mlan_rx_processing' = TRUE
    /\ rxAt' = "top"
    /\ UNCHANGED <<mainLock, more_rx_task_flag, rx_lock_flag, call, asleep, mainAt, mainOwn,
                   queue, table, timerAt, ioctl, cardVars>>

\* A work that finds the rx process blocked leaves more_rx_task_flag behind.
RxEnter ==
    /\ rx_work
    /\ rxAt = "idle"
    /\ rx_work' = FALSE
    /\ IF mlan_rx_processing \/ rx_lock_flag
       THEN more_rx_task_flag' = TRUE /\ UNCHANGED <<mlan_rx_processing, rxAt>>
       ELSE mlan_rx_processing' = TRUE /\ rxAt' = "top" /\ UNCHANGED more_rx_task_flag
    /\ UNCHANGED <<mainLock, rx_lock_flag, call, asleep, mainAt, mainOwn, queue, table,
                   timerAt, ioctl, cardVars>>

RxTop ==
    /\ rxAt = "top"
    /\ flush_data' = FALSE
    /\ rxAt' = IF flush_data THEN "flush" ELSE "dequeue"
    /\ UNCHANGED <<mainLock, rxLock, wakes, mainAt, mainOwn, queue, tbl, timerAt, ioctl,
                   cardVars>>

\* wlan_flush_rxreorder_tbl
RxFlush ==
    /\ rxAt = "flush"
    /\ tbl' = IF HasTable THEN Flushed(tbl) ELSE tbl
    /\ rxAt' = "dequeue"
    /\ UNCHANGED <<mainLock, rxLock, wakes, mainAt, mainOwn, queue, flush_data, timerAt,
                   ioctl, cardVars>>

\* Mutant of RxDequeue: an empty queue is not noticed at once.
RxDequeueUnchecked ==
    /\ rxAt = "dequeue"
    /\ rx_pkts_queued' = rx_pkts_queued - 1
    /\ rxAt' = IF rx_pkts_queued <= 0 THEN "end" ELSE "check"
    /\ UNCHANGED <<mainLock, rxLock, wakes, mainAt, mainOwn, delay_task_flag, table,
                   timerAt, ioctl, cardVars>>

RxDequeue ==
    /\ rxAt = "dequeue"
    /\ rx_pkts_queued' = IF rx_pkts_queued = 0 THEN 0 ELSE rx_pkts_queued - 1
    /\ rxAt' = IF rx_pkts_queued = 0 THEN "end" ELSE "check"
    /\ UNCHANGED <<mainLock, rxLock, wakes, mainAt, mainOwn, delay_task_flag, table,
                   timerAt, ioctl, cardVars>>

\* Mutant of RxCheck: the pause is called off without waking anybody.
RxCheckSilent ==
    /\ rxAt = "check"
    /\ delay_task_flag' = (delay_task_flag /\ rx_pkts_queued >= Low)
    /\ rxAt' = "deliver"
    /\ UNCHANGED <<mainLock, rxLock, wakes, mainAt, mainOwn, rx_pkts_queued, table,
                   timerAt, ioctl, cardVars>>

\* A paused main process is resumed, only after a packet was taken.
RxCheck ==
    /\ rxAt = "check"
    /\ IF delay_task_flag /\ rx_pkts_queued < Low
       THEN delay_task_flag' = FALSE /\ QueueMainWork
       ELSE UNCHANGED <<delay_task_flag, call, more_task_flag>>
    /\ rxAt' = "deliver"
    /\ UNCHANGED <<mlan_processing, rxLock, rx_work, asleep, mainAt, mainOwn, rx_pkts_queued,
                   table, timerAt, ioctl, cardVars>>

\* Mutant of RxDeliver: the timer is started only when the window moves.
RxDeliverMoved ==
    /\ rxAt = "deliver"
    /\ \/ rxAt' = "top" /\ UNCHANGED tbl
       \/ HasTable /\ tbl' = Flushed(tbl) /\ rxAt' = "top"
       \/ /\ HasTable
          /\ \E h \in BOOLEAN : tbl' = [tbl EXCEPT !.held = h, !.flush_data = FALSE]
          /\ rxAt' \in {"arm", "top"}
    /\ UNCHANGED <<mainLock, rxLock, wakes, mainAt, mainOwn, queue, flush_data, timerAt,
                   ioctl, cardVars>>

\* mlan_11n_rxreorder_pkt: a packet of another stream, one that is forwarded
\* unordered, or one that is ordered, after which the timer runs.
RxDeliver ==
    /\ rxAt = "deliver"
    /\ \/ rxAt' = "top" /\ UNCHANGED tbl
       \/ HasTable /\ tbl' = Flushed(tbl) /\ rxAt' = "top"
       \/ /\ HasTable
          /\ \E h \in BOOLEAN : tbl' = [tbl EXCEPT !.held = h, !.flush_data = FALSE]
          /\ rxAt' \in (IF tbl.timer_is_set THEN {"arm", "top"} ELSE {"arm"})
    /\ UNCHANGED <<mainLock, rxLock, wakes, mainAt, mainOwn, queue, flush_data, timerAt,
                   ioctl, cardVars>>

RxArm ==
    /\ rxAt = "arm"
    /\ TimerRestart
    /\ rxAt' = "top"
    /\ UNCHANGED <<mainLock, rxLock, wakes, mainAt, mainOwn, queue, flush_data, timerAt,
                   ioctl, cardVars>>

\* Mutants of RxEnd: what arrived meanwhile is forgotten; a blocked process
\* stays marked as running.
RxEndForgetful ==
    /\ rxAt = "end"
    /\ more_rx_task_flag' = FALSE
    /\ mlan_rx_processing' = FALSE
    /\ rxAt' = "idle"
    /\ UNCHANGED <<mainLock, rx_lock_flag, wakes, mainAt, mainOwn, queue, table, timerAt,
                   ioctl, cardVars>>
RxEndBusy ==
    /\ rxAt = "end"
    /\ more_rx_task_flag' = FALSE
    /\ mlan_rx_processing' = (more_rx_task_flag \/ rx_lock_flag)
    /\ rxAt' = IF more_rx_task_flag THEN "top" ELSE "idle"
    /\ UNCHANGED <<mainLock, rx_lock_flag, wakes, mainAt, mainOwn, queue, table, timerAt,
                   ioctl, cardVars>>

RxEnd ==
    /\ rxAt = "end"
    /\ more_rx_task_flag' = FALSE
    /\ mlan_rx_processing' = more_rx_task_flag
    /\ rxAt' = IF more_rx_task_flag THEN "top" ELSE "idle"
    /\ UNCHANGED <<mainLock, rx_lock_flag, wakes, mainAt, mainOwn, queue, table, timerAt,
                   ioctl, cardVars>>

RxStep ==
    \/ RxEnter \/ RxTop \/ RxFlush \/ RxDequeue \/ RxCheck
    \/ RxDeliver \/ RxArm \/ RxEnd

-----------------------------------------------------------------------------
(* wlan_flush_data, the callback of the table's timer *)

TimerExpire ==
    /\ timerAt = "idle"
    /\ HasTable
    /\ tbl.timer_is_set
    /\ flush_data' = TRUE
    /\ timerAt' = "table"
    /\ UNCHANGED <<mainLock, rxLock, wakes, mainAt, mainOwn, queue, rxAt, tbl, ioctl,
                   cardVars>>

\* Mutant of TimerTable: the rx work is left to come by itself.
TimerTableSilent ==
    /\ timerAt # "idle"
    /\ tbl' = IF timerAt = "freed" THEN tbl
              ELSE [tbl EXCEPT !.flush_data = TRUE, !.timer_is_set = FALSE]
    /\ timerAt' = "idle"
    /\ UNCHANGED <<mainLock, rxLock, wakes, mainAt, mainOwn, queue, rxAt, flush_data,
                   ioctl, cardVars>>

\* A callback whose table was freed meanwhile writes to memory of nobody's.
TimerTable ==
    /\ timerAt # "idle"
    /\ tbl' = IF timerAt = "freed" THEN tbl
              ELSE [tbl EXCEPT !.flush_data = TRUE, !.timer_is_set = FALSE]
    /\ rx_work' = TRUE /\ asleep' = 0
    /\ timerAt' = "idle"
    /\ UNCHANGED <<mainLock, rxLock, call, mainAt, mainOwn, queue, rxAt, flush_data,
                   ioctl, cardVars>>

TimerStep == TimerExpire \/ TimerTable

-----------------------------------------------------------------------------
(* wlan_bss_ioctl_bss_role, run by a user's process *)

RoleBlock ==
    /\ ioctlAt = "idle"
    /\ roles < MaxRoles
    /\ roles' = roles + 1
    /\ LET b == BlockRx("wait", "clean") IN rx_lock_flag' = b.locked /\ ioctlAt' = b.at
    /\ UNCHANGED <<mainLock, mlan_rx_processing, more_rx_task_flag, wakes, mainAt, mainOwn,
                   queue, rxAt, table, timerAt, cardVars>>

RoleWaited ==
    /\ ioctlAt \in {"wait", "delwait"}
    /\ ~mlan_rx_processing
    /\ ioctlAt' = IF ioctlAt = "wait" THEN "clean" ELSE "delete"
    /\ UNCHANGED <<mainLock, rxLock, wakes, mainAt, mainOwn, queue, rxAt, table, timerAt,
                   roles, cardVars>>

\* wlan_free_priv, wlan_clean_txrx: the table, if there is one, is deleted, with
\* a block of its own inside the first.
RoleClean ==
    /\ ioctlAt = "clean"
    /\ LET b == BlockRx("delwait", "delete")
       IN IF HasTable THEN rx_lock_flag' = b.locked /\ ioctlAt' = b.at
          ELSE ioctlAt' = "init" /\ UNCHANGED rx_lock_flag
    /\ UNCHANGED <<mainLock, mlan_rx_processing, more_rx_task_flag, wakes, mainAt, mainOwn,
                   queue, rxAt, table, timerAt, roles, cardVars>>

\* The end of the inner block.  The caller holds ioctl_lock with interrupts off,
\* so that woal_cancel_timer does not wait for a running callback.
RoleDelete ==
    /\ ioctlAt = "delete"
    /\ tbl' = NoTable
    /\ timerAt' = IF timerAt = "table" THEN "freed" ELSE timerAt
    /\ rx_lock_flag' = FALSE
    /\ ioctlAt' = "init"
    /\ UNCHANGED <<mainLock, mlan_rx_processing, more_rx_task_flag, wakes, mainAt, mainOwn,
                   queue, rxAt, flush_data, roles, cardVars>>

\* wlan_init_priv, and the end of the outer block.
RoleInit ==
    /\ ioctlAt = "init"
    /\ rx_lock_flag' = FALSE
    /\ ioctlAt' = "idle"
    /\ UNCHANGED <<mainLock, mlan_rx_processing, more_rx_task_flag, wakes, mainAt, mainOwn,
                   queue, rxAt, table, timerAt, roles, cardVars>>

RoleStep == RoleWaited \/ RoleClean \/ RoleDelete \/ RoleInit

-----------------------------------------------------------------------------
(* The card *)

\* woal_interrupt: mlan_interrupt reads what the card has ready, takes a sleeping
\* card to be awake (not in UAPSD mode), and the interrupt thread goes on to
\* mlan_main_process.  The card answers a sleep confirmation once.
Interrupt(n, e) ==
    /\ mainAt["irq"] = "idle"
    /\ "irq" \notin call
    /\ irqs < MaxIrqs
    /\ irqs' = irqs + 1
    /\ card + n <= Ports
    /\ e # "none" => cardEvent = "none"
    /\ e = "sleep_cfm" => ps_state = "SLEEP_CFM"
    /\ n > 0 \/ e # "none"
    /\ sdio_ireg' = TRUE
    /\ card' = card + n
    /\ cardEvent' = IF e = "none" THEN cardEvent ELSE e
    /\ ps_state' \in IF ps_state = "SLEEP" THEN {"AWAKE", "SLEEP"} ELSE {ps_state}
    /\ call' = call \cup {"irq"}
    /\ UNCHANGED <<mainLock, rxLock, rx_work, asleep, mainAt, mainOwn, queue, rxAt, table,
                   timerAt, ioctl>>

Next ==
    \/ \E c \in Contexts : MainStep(c)
    \/ RxStep
    \/ TimerStep
    \/ RoleBlock
    \/ RoleStep
    \/ \E n \in 0 .. Ports, e \in CmdPort : Interrupt(n, e)

Spec == Init /\ [][Next]_vars

\* Queued works and called functions run, started timers expire; nothing obliges
\* the card to interrupt or a user to switch roles.
FairSpec ==
    /\ Spec
    /\ \A c \in Contexts : WF_vars(MainStep(c))
    /\ WF_vars(RxStep) /\ WF_vars(TimerStep) /\ WF_vars(RoleStep)

-----------------------------------------------------------------------------
(* Properties *)

Flags ==
    /\ mlan_processing \in BOOLEAN /\ more_task_flag \in BOOLEAN
    /\ mlan_rx_processing \in BOOLEAN /\ more_rx_task_flag \in BOOLEAN
    /\ rx_lock_flag \in BOOLEAN /\ rx_work \in BOOLEAN
    /\ data_received \in BOOLEAN /\ delay_task_flag \in BOOLEAN
    /\ flush_data \in BOOLEAN /\ sdio_ireg \in BOOLEAN /\ cfm \in BOOLEAN

Places ==
    /\ call \subseteq Contexts
    /\ mainAt \in [Contexts -> MainSteps]
    /\ rxAt \in RxSteps /\ timerAt \in TimerSteps /\ ioctlAt \in IoctlSteps
    /\ tbl \in Tables \cup {NoTable}
    /\ event_received \in Events \cup {"none"} /\ cardEvent \in CmdPort
    /\ ps_state \in PsStates

Counters ==
    /\ rx_pkts_queued \in Nat /\ unsent \in Nat /\ asleep \in Nat
    /\ fetch \in 0 .. Ports /\ card \in 0 .. Ports
    /\ roles \in 0 .. MaxRoles /\ irqs \in 0 .. MaxIrqs

\* Every variable is in its domain.
TypeOK == Flags /\ Places /\ Counters

RxInTable == rxAt \in {"flush", "deliver", "arm"}

\* Until a user switches roles, a table is created or deleted only while the rx
\* work, which follows pointers into it, is outside ("wait rx work done...").
Exclusion ==
    roles = 0 =>
        \A c \in Contexts : mainAt[c] \in {"delete", "create"} => ~RxInTable

\* The pause at HIGH_RX_PENDING bounds the queue: the length is checked once
\* per interrupt, and an interrupt brings at most what the card holds.
QueueBound == rx_pkts_queued <= High + Ports

\* A queued packet is not forgotten: an rx work is on its way, or the block it ran
\* into left more_rx_task_flag behind, or the main process is about to send for it.
\* The only exception are packets read together with the confirmation that the card
\* sleeps, until the rx work is next sent for.
NotForgotten ==
    /\ rx_pkts_queued > asleep + unsent => rx_work \/ mlan_rx_processing \/ more_rx_task_flag
    /\ unsent > 0 => \E c \in Contexts : mainAt[c] = "read" /\ data_received

\* A packet held for a hole is never left without a way out, although the timer's
\* callback clears timer_is_set between any two steps, and the rx work and the
\* main process's RXBA_SYNC change the table under each other: the timer runs, the
\* table is due for a flush, or one of the two is about to start the timer.
HeldWatched ==
    tbl.held =>
        \/ tbl.timer_is_set
        \/ tbl.flush_data
        \/ rxAt = "arm"
        \/ \E c \in Contexts : mainAt[c] = "syncarm"

\* A block ends: the main process and the role switch wait for the rx work, and
\* the rx work for the timer's callback, but nobody for them.
BlockEnds == rx_lock_flag ~> ~rx_lock_flag

\* A block left more_rx_task_flag behind, and no rx work that would look at it.
Stranded == more_rx_task_flag /\ ~mlan_rx_processing

\* The main process leaves a queue that is too long only with its pause noted: after
\* an interrupt it looks at the length again.  A sleep confirmation makes it leave
\* at once.
LooksAgain ==
    \A c \in Contexts : mainAt[c] = "end" /\ rx_pkts_queued > High => delay_task_flag

\* As long as it does, an interrupt is processed: a main process that pauses is
\* resumed, although it reads the queue's length, sets delay_task_flag and leaves in
\* three steps between which the rx work may empty the queue and end.
Processed == []LooksAgain => (sdio_ireg ~> ~sdio_ireg \/ Stranded)

\* What has been queued is delivered, unless a block strands it or a sleep
\* confirmation leaves it behind until the next interrupt or timer ("Check for Rx
\* data" is all mlan_rx_process ever does on its own).
DeliveredUnlessLeft == rx_pkts_queued > 0 ~> rx_pkts_queued <= asleep \/ Stranded

\* The table is due for a flush that no rx work looks for: one took the adapter's
\* flag before the callback had set the table's.
Missed == HasTable /\ tbl.flush_data /\ ~flush_data /\ rxAt # "flush"

\* A packet held for a hole goes up in the end: the timer is started, expires, and its
\* callback wakes the rx work, whoever else restarts or stops it meanwhile.  Not if
\* the flush is missed, nor if a block strands the work (here every block ends the
\* only table; with several agreements it may be the block of another one).
HeldGoesUp == tbl.held ~> ~tbl.held \/ Missed \/ Stranded

-----------------------------------------------------------------------------
(* The inductive invariant of the safety properties *)

\* The main process and the rx work are each single, and marked as running.
Single ==
    /\ \A c, d \in Contexts : mainAt[c] # "idle" /\ mainAt[d] # "idle" => c = d
    /\ mlan_processing <=> \E c \in Contexts : mainAt[c] # "idle"
    /\ mlan_rx_processing <=> rxAt # "idle"

\* Without role switches the block is the main process's, and the rx work is
\* waited for while it holds.
Blocked ==
    roles = 0 =>
        /\ ioctlAt = "idle"
        /\ \A c \in Contexts :
              /\ mainAt[c] \in {"delwait", "delete", "newwait", "create"} => rx_lock_flag
              /\ mainAt[c] \in {"delete", "create"} => ~mlan_rx_processing

\* A timer that has expired belongs to a table, and there is no table where one
\* is about to be created.
TableKnown ==
    /\ timerAt = "table" => tbl \in Tables
    /\ \A c \in Contexts : mainAt[c] \in {"newblock", "newwait", "create"} => tbl = NoTable

\* What the main process may add to the queue before it looks at its length again.
Bounded ==
    \A c \in Contexts :
        /\ mainAt[c] = "int" => rx_pkts_queued <= High
        /\ mainAt[c] = "read" => rx_pkts_queued + fetch <= High + Ports

\* The rx work that has found the queue empty and ends is sent for again if the
\* queue is not empty any more.
Seen ==
    rxAt = "end" /\ rx_pkts_queued > asleep + unsent => rx_work \/ more_rx_task_flag

WorkInv == Single /\ Blocked /\ TableKnown /\ Bounded /\ QueueBound /\ Seen /\ NotForgotten
=============================================================================
