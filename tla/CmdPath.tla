------------------------------- MODULE CmdPath -------------------------------
(***************************************************************************)
(* The command path of the mlan WLAN driver: the fixed set of command      *)
(* nodes, the requests of user processes that ride on them, the one        *)
(* command the firmware works on, its response, and the timer, the hang    *)
(* handling and the removal of an interface, which take commands away from *)
(* under the main process.                                                 *)
(*                                                                         *)
(* A step is a section under cmd_lock or a stretch of code that reads the  *)
(* shared fields without it.  The driver is up and the card awake: the     *)
(* initialisation, the power save states and the scan queue are left out.  *)
(***************************************************************************)
EXTENDS Integers

CONSTANTS
    Nodes,        \* the command nodes, MRVDRV_NUM_OF_CMD_BUFFER of them
    Bsses,        \* the interfaces
    PerBss,       \* bound: requests in all on one interface
    Kinds,        \* numbers of the commands of requests
    OwnKinds,     \* numbers of the driver's own commands
    NoResp,       \* those without a response: FW_DUMP_EVENT, SOFT_RESET
    NoNodeLimit,  \* requests without a node, in a row, that make a hang (5)
    MaxInternal,  \* bound: commands in all that no request waits for
    MaxFailures,  \* bound: downloads in all that fail
    MaxRemoves,   \* bound: removals of interfaces in all
    NoNode, NoCmd, NoReq

ASSUME NoRespAssumption == NoResp \subseteq Kinds \ OwnKinds
ASSUME LimitAssumption == NoNodeLimit \in Nat \ {0} /\ PerBss \in Nat
ASSUME BoundsAssumption == MaxInternal \in Nat /\ MaxFailures \in Nat /\ MaxRemoves \in Nat

Reqs == Bsses \X (1 .. PerBss)
ASSUME NoneAssumption == NoNode \notin Nodes /\ NoReq \notin Reqs

VARIABLES
    \* Under cmd_lock.
    cmd_free_q, cmd_pending_q, curr_cmd,
    ctl,              \* the contents of the nodes
    \* The main process.
    mainAt,           \* where it is
    main_work,        \* it is called for
    pcmd_node,        \* the node it downloads
    dnld,             \* the command wlan_dnld_cmd_to_fw found in that node
    pioctl_buf,       \* the request wlan_process_cmdresp read at its start
    cmd_sent,         \* the card has not taken the last command
    cmd_timer_is_set,
    timerAt,          \* where wlan_cmd_timeout_func is
    \* Linux glue.
    reqAt,            \* what became of each request
    code,             \* code[r]: the timeout has set r's status_code
    driver_status,    \* the driver has been declared hanging
    reset_handle,     \* the hang is being handled
    \* The card.
    sdio_ireg,        \* interrupts that have not been processed
    port,             \* the command in the command port, or NoCmd
    taken,            \* commands the firmware has taken and not answered
    upld,             \* the response in the upload port, or NoCmd
    \* Counters.
    num_no_cmd_node, internals, num_cmd_host_to_card_failure, removes

queues == <<cmd_free_q, cmd_pending_q, curr_cmd, ctl>>
mainOwn == <<pcmd_node, dnld, pioctl_buf>>
glue == <<reqAt, code, driver_status, reset_handle>>
cardVars == <<sdio_ireg, port, taken, upld>>
counts == <<num_no_cmd_node, internals, num_cmd_host_to_card_failure, removes>>
vars == <<queues, mainAt, main_work, mainOwn, cmd_sent, cmd_timer_is_set, timerAt, glue,
          cardVars, counts>>

\* A command as the card sees it: who sent it, and its number.
Origins == Reqs \cup {NoReq}
Cmds == [org : Origins, no : Kinds \cup OwnKinds]
ASSUME NoCmdAssumption == NoCmd \notin Cmds

\* cmd_ctrl_node: the command, the request to complete, CMD_F_CANCELED, and the
\* response that was received for it.
Ctls == [cmd : Cmds \cup {NoCmd}, req : Origins, canceled : BOOLEAN,
         resp : Cmds \cup {NoCmd}]
CleanCtl == [cmd |-> NoCmd, req |-> NoReq, canceled |-> FALSE, resp |-> NoCmd]
NewCtl(no, req) ==
    [cmd |-> [org |-> req, no |-> no], req |-> req, canceled |-> FALSE, resp |-> NoCmd]

MainSteps == {"idle", "loop", "body", "read", "stop", "cancel", "handle", "final", "next",
              "curr", "send", "fail", "arm", "oops"}
ReqSteps == {"new", "checked", "waiting", "left", "unwoken", "over"}

Init ==
    /\ cmd_free_q = Nodes /\ cmd_pending_q = {} /\ curr_cmd = NoNode
    /\ ctl = [n \in Nodes |-> CleanCtl]
    /\ mainAt = "idle" /\ main_work = FALSE
    /\ pcmd_node = NoNode /\ dnld = NoCmd /\ pioctl_buf = NoReq
    /\ cmd_sent = FALSE /\ cmd_timer_is_set = FALSE /\ timerAt = "idle"
    /\ reqAt = [r \in Reqs |-> "new"] /\ code = [r \in Reqs |-> FALSE]
    /\ driver_status = FALSE /\ reset_handle = FALSE
    /\ sdio_ireg = {} /\ port = NoCmd /\ taken = {} /\ upld = NoCmd
    /\ num_no_cmd_node = 0 /\ internals = 0
    /\ num_cmd_host_to_card_failure = 0 /\ removes = 0

-----------------------------------------------------------------------------
(* Completing requests and freeing nodes *)

\* moal_ioctl_complete, with success or with a failure that is not a timeout: the
\* process that waits is woken; the request of one that left is freed.  A request
\* that is over has been freed: completing it again is outside every type.
AfterComplete(at) ==
    IF at \in {"waiting", "left"} THEN "over" ELSE "twice"

Complete(at, rs) == [r \in Reqs |-> IF r \in rs THEN AfterComplete(at[r]) ELSE at[r]]

\* moal_ioctl_complete with a failure whose status_code is MLAN_ERROR_CMD_TIMEOUT:
\* the condition is set, but nobody is woken.
CompleteUnwoken(rs) ==
    [r \in Reqs |-> IF r \in rs /\ reqAt[r] = "waiting" THEN "unwoken"
                    ELSE Complete(reqAt, rs)[r]]

\* The requests that ride on the nodes ns.
Riders(ns) == {ctl[n].req : n \in ns} \ {NoReq}

\* wlan_insert_cmd_to_free_q and wlan_clean_cmd_node
FreeNodes(ns) ==
    /\ cmd_free_q' = cmd_free_q \cup ns
    /\ ctl' = [n \in Nodes |-> IF n \in ns THEN CleanCtl ELSE ctl[n]]

\* The current command as a set of nodes.
Current == {curr_cmd} \ {NoNode}

\* Mutant of CancelAll: the pending commands go without a word to their requests.
CancelAllSilent(at) ==
    /\ curr_cmd' = NoNode
    /\ cmd_pending_q' = {}
    /\ FreeNodes(Current \cup cmd_pending_q)
    /\ reqAt' = Complete(at, Riders(Current))

\* wlan_cancel_all_pending_cmd
CancelAll(at) ==
    /\ curr_cmd' = NoNode
    /\ cmd_pending_q' = {}
    /\ FreeNodes(Current \cup cmd_pending_q)
    /\ reqAt' = Complete(at, Riders(Current \cup cmd_pending_q))

\* MLAN_EVENT_ID_DRV_DBG_DUMP and woal_process_hang: one hang is handled at a time.
ProcessHang(at) ==
    /\ driver_status' = TRUE
    /\ reset_handle' = TRUE
    /\ IF reset_handle THEN reqAt' = at /\ UNCHANGED queues ELSE CancelAll(at)

-----------------------------------------------------------------------------
(* Requests *)

\* woal_request_ioctl looks at driver_status, long before it calls mlan_ioctl.
RequestCheck(r) ==
    /\ reqAt[r] = "new"
    /\ reqAt' = [reqAt EXCEPT ![r] = IF driver_status THEN "over" ELSE "checked"]
    /\ UNCHANGED <<queues, mainAt, main_work, mainOwn, cmd_sent, cmd_timer_is_set, timerAt,
                   code, driver_status, reset_handle, cardVars, counts>>

\* A node for command no with request req goes to the pending queue; the next
\* command is any of them, since some are inserted at the head.
Prepare(no, req) ==
    /\ \E n \in cmd_free_q :
          /\ cmd_free_q' = cmd_free_q \ {n}
          /\ cmd_pending_q' = cmd_pending_q \cup {n}
          /\ ctl' = [ctl EXCEPT ![n] = NewCtl(no, req)]
    /\ num_no_cmd_node' = 0
    /\ main_work' = TRUE

\* mlan_ioctl down to wlan_prepare_cmd; the main process is woken.
Request(r, no) ==
    /\ reqAt[r] = "checked"
    /\ Prepare(no, r)
    /\ reqAt' = [reqAt EXCEPT ![r] = "waiting"]
    /\ UNCHANGED <<curr_cmd, mainAt, mainOwn, cmd_sent, cmd_timer_is_set, timerAt, code,
                   driver_status, reset_handle, cardVars, internals,
                   num_cmd_host_to_card_failure, removes>>

\* A command cannot be prepared: the node goes back and the request fails.
RequestFail(r) ==
    /\ reqAt[r] = "checked"
    /\ cmd_free_q # {}
    /\ reqAt' = [reqAt EXCEPT ![r] = "over"]
    /\ num_no_cmd_node' = 0
    /\ UNCHANGED <<queues, mainAt, main_work, mainOwn, cmd_sent, cmd_timer_is_set, timerAt,
                   code, driver_status, reset_handle, cardVars, internals,
                   num_cmd_host_to_card_failure, removes>>

\* A command of the driver's own, on behalf of an event or a timer.
PrepareInternal(no) ==
    /\ internals < MaxInternal
    /\ internals' = internals + 1
    /\ Prepare(no, NoReq)
    /\ UNCHANGED <<curr_cmd, mainAt, mainOwn, cmd_sent, cmd_timer_is_set, timerAt, glue,
                   cardVars, num_cmd_host_to_card_failure, removes>>

\* There is no free node; the driver is declared hanging when that is so
\* NoNodeLimit times in a row (wlan_dump_info).
NoFreeNode(at) ==
    /\ cmd_free_q = {}
    /\ num_no_cmd_node' = num_no_cmd_node + 1
    /\ IF num_no_cmd_node + 1 >= NoNodeLimit THEN ProcessHang(at)
       ELSE reqAt' = at /\ UNCHANGED <<queues, driver_status, reset_handle>>

RequestNoNode(r) ==
    /\ reqAt[r] = "checked"
    /\ NoFreeNode([reqAt EXCEPT ![r] = "over"])
    /\ UNCHANGED <<mainAt, main_work, mainOwn, cmd_sent, cmd_timer_is_set, timerAt, code,
                   cardVars, internals, num_cmd_host_to_card_failure, removes>>

InternalNoNode ==
    /\ internals < MaxInternal
    /\ internals' = internals + 1
    /\ NoFreeNode(reqAt)
    /\ UNCHANGED <<mainAt, main_work, mainOwn, cmd_sent, cmd_timer_is_set, timerAt, code,
                   cardVars, num_cmd_host_to_card_failure, removes>>

\* woal_wait_ioctl_complete ends without an answer: on a signal or a timeout the
\* request is left to be freed by moal_ioctl_complete.
GiveUp(r) ==
    /\ reqAt[r] \in {"waiting", "unwoken"}
    /\ reqAt' = [reqAt EXCEPT ![r] = IF reqAt[r] = "waiting" THEN "left" ELSE "over"]
    /\ UNCHANGED <<queues, mainAt, main_work, mainOwn, cmd_sent, cmd_timer_is_set, timerAt,
                   code, driver_status, reset_handle, cardVars, counts>>

\* Those of the nodes ns that carry requests of interface b.
OfBss(b, ns) == {n \in ns : ctl[n].req \in {b} \X (1 .. PerBss)}

\* What the removal of its interface makes of the current command.
Orphan(c) == [c EXCEPT !.req = NoReq, !.canceled = TRUE]

\* Mutants of CancelBss: the current command keeps the request that was completed;
\* it is freed at once, although the firmware will still answer it.
CancelBssKeepsRequest(b) ==
    /\ removes < MaxRemoves
    /\ removes' = removes + 1
    /\ LET gone == OfBss(b, cmd_pending_q)
           lost == OfBss(b, Current)
       IN /\ cmd_pending_q' = cmd_pending_q \ gone
          /\ cmd_free_q' = cmd_free_q \cup gone
          /\ ctl' = [n \in Nodes |->
                        IF n \in gone THEN CleanCtl
                        ELSE IF n \in lost
                             THEN [ctl[n] EXCEPT !.canceled = TRUE]
                             ELSE ctl[n]]
          /\ reqAt' = Complete(reqAt, Riders(gone \cup lost))
    /\ UNCHANGED <<curr_cmd, mainAt, main_work, mainOwn, cmd_sent, cmd_timer_is_set,
                   timerAt, code, driver_status, reset_handle, cardVars, num_no_cmd_node,
                   internals, num_cmd_host_to_card_failure>>
CancelBssFreesCurr(b) ==
    /\ removes < MaxRemoves
    /\ removes' = removes + 1
    /\ LET gone == OfBss(b, cmd_pending_q)
           lost == OfBss(b, Current)
       IN /\ cmd_pending_q' = cmd_pending_q \ gone
          /\ cmd_free_q' = cmd_free_q \cup gone \cup lost
          /\ curr_cmd' = IF lost = {} THEN curr_cmd ELSE NoNode
          /\ ctl' = [n \in Nodes |->
                        IF n \in gone \cup lost THEN CleanCtl ELSE ctl[n]]
          /\ reqAt' = Complete(reqAt, Riders(gone \cup lost))
    /\ UNCHANGED <<mainAt, main_work, mainOwn, cmd_sent, cmd_timer_is_set,
                   timerAt, code, driver_status, reset_handle, cardVars, num_no_cmd_node,
                   internals, num_cmd_host_to_card_failure>>

\* wlan_cancel_bss_pending_cmd, when interface b is removed: the current command
\* loses its request, the pending ones are freed.
CancelBss(b) ==
    /\ removes < MaxRemoves
    /\ removes' = removes + 1
    /\ LET gone == OfBss(b, cmd_pending_q)
           lost == OfBss(b, Current)
       IN /\ cmd_pending_q' = cmd_pending_q \ gone
          /\ cmd_free_q' = cmd_free_q \cup gone
          /\ ctl' = [n \in Nodes |->
                        IF n \in gone THEN CleanCtl
                        ELSE IF n \in lost THEN Orphan(ctl[n]) ELSE ctl[n]]
          /\ reqAt' = Complete(reqAt, Riders(gone \cup lost))
    /\ UNCHANGED <<curr_cmd, mainAt, main_work, mainOwn, cmd_sent, cmd_timer_is_set,
                   timerAt, code, driver_status, reset_handle, cardVars, num_no_cmd_node,
                   internals, num_cmd_host_to_card_failure>>

-----------------------------------------------------------------------------
(* The main process: interrupts *)

MainStart ==
    /\ mainAt = "idle"
    /\ main_work
    /\ main_work' = FALSE
    /\ mainAt' = "loop"
    /\ UNCHANGED <<queues, mainOwn, cmd_sent, cmd_timer_is_set, timerAt, glue, cardVars,
                   counts>>

\* wlan_process_int_status and wlan_decode_rx_packet: a response that finds no
\* current command is dropped.
MainInt ==
    /\ mainAt = "loop"
    /\ sdio_ireg' = {}
    /\ cmd_sent' = (cmd_sent /\ "ready" \notin sdio_ireg)
    /\ upld' = IF "resp" \in sdio_ireg THEN NoCmd ELSE upld
    /\ IF "resp" \in sdio_ireg /\ curr_cmd # NoNode
       THEN ctl' = [ctl EXCEPT ![curr_cmd].resp = upld] /\ mainAt' = "read"
       ELSE UNCHANGED ctl /\ mainAt' = "body"
    /\ UNCHANGED <<cmd_free_q, cmd_pending_q, curr_cmd, main_work, mainOwn,
                   cmd_timer_is_set, timerAt, glue, port, taken, counts>>

\* Without a response the loop is left unless a command can be sent.
MainBody ==
    /\ mainAt = "body"
    /\ mainAt' = IF cmd_sent \/ curr_cmd # NoNode \/ cmd_pending_q = {} THEN "idle"
                 ELSE "next"
    /\ UNCHANGED <<queues, main_work, mainOwn, cmd_sent, cmd_timer_is_set, timerAt, glue,
                   cardVars, counts>>

-----------------------------------------------------------------------------
(* wlan_process_cmdresp *)

\* Without the lock; a response to another command is left alone.
RespRead ==
    /\ mainAt = "read"
    /\ IF curr_cmd # NoNode /\ ctl[curr_cmd].resp.no = ctl[curr_cmd].cmd.no
       THEN pioctl_buf' = ctl[curr_cmd].req /\ mainAt' = "stop"
       ELSE mainAt' = "next" /\ UNCHANGED pioctl_buf
    /\ UNCHANGED <<queues, main_work, pcmd_node, dnld, cmd_sent, cmd_timer_is_set, timerAt, glue,
                   cardVars, counts>>

\* Stopping a timer waits for its callback, but only cmd_timer_is_set says that
\* there is one to stop, and the callback clears that first.
RespStop ==
    /\ mainAt = "stop"
    /\ cmd_timer_is_set => timerAt = "idle"
    /\ cmd_timer_is_set' = FALSE
    /\ mainAt' = "cancel"
    /\ UNCHANGED <<queues, main_work, mainOwn, cmd_sent, timerAt, glue, cardVars, counts>>

\* Under the lock curr_cmd is followed without a look whether it is there.
RespCancel ==
    /\ mainAt = "cancel"
    /\ \/ curr_cmd = NoNode /\ mainAt' = "oops" /\ UNCHANGED <<queues, reqAt, pioctl_buf>>
       \/ /\ curr_cmd # NoNode /\ ctl[curr_cmd].canceled
          /\ curr_cmd' = NoNode
          /\ FreeNodes(Current)
          /\ reqAt' = Complete(reqAt, Riders(Current))
          /\ pioctl_buf' = NoReq
          /\ mainAt' = "next"
          /\ UNCHANGED cmd_pending_q
       \/ /\ curr_cmd # NoNode /\ ~ctl[curr_cmd].canceled
          /\ mainAt' = "handle"
          /\ UNCHANGED <<queues, reqAt, pioctl_buf>>
    /\ UNCHANGED <<main_work, pcmd_node, dnld, cmd_sent, cmd_timer_is_set, timerAt, code,
                   driver_status, reset_handle, cardVars, counts>>

\* The handler of the response, which works on curr_cmd and pioctl_buf.
RespHandle ==
    /\ mainAt = "handle"
    /\ mainAt' = IF curr_cmd = NoNode THEN "oops" ELSE "final"
    /\ UNCHANGED <<queues, main_work, mainOwn, cmd_sent, cmd_timer_is_set, timerAt, glue,
                   cardVars, counts>>

\* The command is done, if it is still there; ok is what the handler returned.
RespFinal(ok) ==
    /\ mainAt = "final"
    /\ curr_cmd' = NoNode
    /\ FreeNodes(Current)
    /\ LET rs == Riders(Current)
       IN reqAt' = IF ~ok /\ \E r \in rs : code[r] THEN CompleteUnwoken(rs)
                   ELSE Complete(reqAt, rs)
    /\ pioctl_buf' = NoReq
    /\ mainAt' = "next"
    /\ UNCHANGED <<cmd_pending_q, main_work, pcmd_node, dnld, cmd_sent, cmd_timer_is_set, timerAt,
                   code, driver_status, reset_handle, cardVars, counts>>

-----------------------------------------------------------------------------
(* wlan_exec_next_cmd and wlan_dnld_cmd_to_fw *)

\* A command leaves the pending queue; until it is curr_cmd it is nowhere.
ExecNext ==
    /\ mainAt = "next"
    /\ IF cmd_sent \/ curr_cmd # NoNode \/ cmd_pending_q = {}
       THEN mainAt' = "loop" /\ UNCHANGED <<cmd_pending_q, pcmd_node>>
       ELSE /\ \E n \in cmd_pending_q :
                  pcmd_node' = n /\ cmd_pending_q' = cmd_pending_q \ {n}
            /\ mainAt' = "curr"
    /\ UNCHANGED <<cmd_free_q, curr_cmd, ctl, main_work, dnld, pioctl_buf, cmd_sent,
                   cmd_timer_is_set, timerAt, glue, cardVars, counts>>

DnldCurr ==
    /\ mainAt = "curr"
    /\ curr_cmd' = pcmd_node
    /\ dnld' = ctl[pcmd_node].cmd
    /\ mainAt' = "send"
    /\ UNCHANGED <<cmd_free_q, cmd_pending_q, ctl, main_work, pcmd_node, pioctl_buf, cmd_sent,
                   cmd_timer_is_set, timerAt, glue, cardVars, counts>>

\* wlan_sdio_host_to_card: what the node's buffer holds goes to the card, also when
\* the node was freed, and perhaps used again, meanwhile.
DnldSend ==
    /\ mainAt = "send"
    /\ cmd_sent' = TRUE
    /\ port' = IF ctl[pcmd_node].cmd = NoCmd THEN dnld ELSE ctl[pcmd_node].cmd
    /\ mainAt' = "arm"
    /\ UNCHANGED <<queues, main_work, mainOwn, cmd_timer_is_set, timerAt, glue, sdio_ireg,
                   taken, upld, counts>>

DnldSendFails ==
    /\ mainAt = "send"
    /\ num_cmd_host_to_card_failure < MaxFailures
    /\ num_cmd_host_to_card_failure' = num_cmd_host_to_card_failure + 1
    /\ mainAt' = "fail"
    /\ UNCHANGED <<queues, main_work, mainOwn, cmd_sent, cmd_timer_is_set, timerAt, glue,
                   cardVars, num_no_cmd_node, internals, removes>>

\* wlan_dnld_cmd_to_fw returns.
DnldReturn ==
    /\ pcmd_node' = NoNode
    /\ dnld' = NoCmd
    /\ UNCHANGED pioctl_buf

\* Mutant of DnldFail: the node is not given back.
DnldFailLeaks ==
    /\ mainAt = "fail"
    /\ curr_cmd' = NoNode
    /\ reqAt' = Complete(reqAt, Riders(Current))
    /\ DnldReturn
    /\ mainAt' = "idle"
    /\ UNCHANGED <<cmd_free_q, ctl, cmd_pending_q, main_work, cmd_sent, cmd_timer_is_set,
                   timerAt, code, driver_status, reset_handle, cardVars, counts>>

\* The failure ends the main process, whatever else is pending.
DnldFail ==
    /\ mainAt = "fail"
    /\ curr_cmd' = NoNode
    /\ FreeNodes(Current)
    /\ reqAt' = Complete(reqAt, Riders(Current))
    /\ DnldReturn
    /\ mainAt' = "idle"
    /\ UNCHANGED <<cmd_pending_q, main_work, cmd_sent, cmd_timer_is_set, timerAt, code,
                   driver_status, reset_handle, cardVars, counts>>

\* A command without response is done, if its request is still there.
DnldNoResp ==
    /\ mainAt = "arm"
    /\ dnld.no \in NoResp
    /\ IF ctl[pcmd_node].req # NoReq
       THEN /\ curr_cmd' = NoNode
            /\ FreeNodes(Current)
            /\ reqAt' = Complete(reqAt, Riders(Current))
       ELSE UNCHANGED <<curr_cmd, cmd_free_q, ctl, reqAt>>
    /\ DnldReturn
    /\ mainAt' = "loop"
    /\ UNCHANGED <<cmd_pending_q, main_work, cmd_sent, cmd_timer_is_set, timerAt, code,
                   driver_status, reset_handle, cardVars, counts>>

\* Mutant of DnldArm: no timer.
DnldArmNot ==
    /\ mainAt = "arm"
    /\ dnld.no \notin NoResp
    /\ DnldReturn
    /\ mainAt' = "loop"
    /\ UNCHANGED <<queues, main_work, cmd_sent, cmd_timer_is_set, timerAt, glue, cardVars,
                   counts>>

\* For any other the timer is started.
DnldArm ==
    /\ mainAt = "arm"
    /\ dnld.no \notin NoResp
    /\ cmd_timer_is_set' = TRUE
    /\ DnldReturn
    /\ mainAt' = "loop"
    /\ UNCHANGED <<queues, main_work, cmd_sent, timerAt, glue, cardVars, counts>>

MainStep ==
    \/ MainStart \/ MainInt \/ MainBody
    \/ RespRead \/ RespStop \/ RespCancel \/ RespHandle
    \/ \E ok \in BOOLEAN : RespFinal(ok)
    \/ ExecNext \/ DnldCurr \/ DnldSend \/ DnldSendFails \/ DnldFail
    \/ DnldNoResp \/ DnldArm

-----------------------------------------------------------------------------
(* The command timer and the handling of a hang *)

\* wlan_cmd_timeout_func, before it sends the event.  The handling of an earlier
\* hang takes less than the timer's 20 seconds.
CmdTimeout ==
    /\ cmd_timer_is_set
    /\ timerAt = "idle"
    /\ ~reset_handle
    /\ cmd_timer_is_set' = FALSE
    /\ timerAt' = IF curr_cmd = NoNode THEN "idle" ELSE "dump"
    /\ code' = [r \in Reqs |-> code[r] \/ r \in Riders(Current)]
    /\ UNCHANGED <<queues, mainAt, main_work, mainOwn, cmd_sent, reqAt, driver_status,
                   reset_handle, cardVars, counts>>

DbgDump ==
    /\ timerAt = "dump"
    /\ timerAt' = "idle"
    /\ ProcessHang(reqAt)
    /\ UNCHANGED <<mainAt, main_work, mainOwn, cmd_sent, cmd_timer_is_set, code, cardVars,
                   counts>>

\* woal_hang_work_queue
HangWork ==
    /\ reset_handle
    /\ reset_handle' = FALSE
    /\ UNCHANGED <<queues, mainAt, main_work, mainOwn, cmd_sent, cmd_timer_is_set, timerAt,
                   reqAt, code, driver_status, cardVars, counts>>

TimerStep == CmdTimeout \/ DbgDump

-----------------------------------------------------------------------------
(* The card *)

\* The firmware takes the command, and says so.
FwTake ==
    /\ port # NoCmd
    /\ port' = NoCmd
    /\ taken' = IF port.no \in NoResp THEN taken ELSE taken \cup {port}
    /\ sdio_ireg' = sdio_ireg \cup {"ready"}
    /\ main_work' = TRUE
    /\ UNCHANGED <<queues, mainAt, mainOwn, cmd_sent, cmd_timer_is_set, timerAt, glue, upld,
                   counts>>

\* It answers, at once, late or never.
FwAnswer ==
    /\ upld = NoCmd
    /\ \E c \in taken : upld' = c /\ taken' = taken \ {c}
    /\ sdio_ireg' = sdio_ireg \cup {"resp"}
    /\ main_work' = TRUE
    /\ UNCHANGED <<queues, mainAt, mainOwn, cmd_sent, cmd_timer_is_set, timerAt, glue, port,
                   counts>>

Next ==
    \/ \E r \in Reqs :
          \/ RequestCheck(r)
          \/ \E no \in Kinds : Request(r, no)
          \/ RequestFail(r) \/ RequestNoNode(r) \/ GiveUp(r)
    \/ \E no \in OwnKinds : PrepareInternal(no)
    \/ InternalNoNode
    \/ \E b \in Bsses : CancelBss(b)
    \/ MainStep
    \/ TimerStep
    \/ HangWork
    \/ FwTake
    \/ FwAnswer

Spec == Init /\ [][Next]_vars

\* Works that are queued run and a timer that is set expires; nothing obliges the
\* firmware to take or to answer a command.
FairSpec == Spec /\ WF_vars(MainStep) /\ WF_vars(TimerStep) /\ WF_vars(HangWork)

-----------------------------------------------------------------------------
(* Properties *)

Flags ==
    /\ main_work \in BOOLEAN /\ cmd_sent \in BOOLEAN /\ cmd_timer_is_set \in BOOLEAN
    /\ code \in [Reqs -> BOOLEAN]
    /\ driver_status \in BOOLEAN /\ reset_handle \in BOOLEAN

Held ==
    /\ cmd_free_q \subseteq Nodes /\ cmd_pending_q \subseteq Nodes
    /\ curr_cmd \in Nodes \cup {NoNode} /\ pcmd_node \in Nodes \cup {NoNode}
    /\ ctl \in [Nodes -> Ctls]
    /\ dnld \in Cmds \cup {NoCmd} /\ pioctl_buf \in Origins

Places ==
    /\ mainAt \in MainSteps /\ timerAt \in {"idle", "dump"}
    /\ reqAt \in [Reqs -> ReqSteps]

Card ==
    /\ sdio_ireg \subseteq {"ready", "resp"} /\ port \in Cmds \cup {NoCmd}
    /\ taken \subseteq Cmds /\ upld \in Cmds \cup {NoCmd}

Counters ==
    /\ num_no_cmd_node \in Nat /\ internals \in 0 .. MaxInternal
    /\ num_cmd_host_to_card_failure \in 0 .. MaxFailures /\ removes \in 0 .. MaxRemoves

\* Every variable is in its domain, and no request is completed a second time.
TypeOK == Flags /\ Held /\ Places /\ Card /\ Counters

\* The command that left the pending queue and is not yet curr_cmd.
InHand == IF mainAt = "curr" THEN {pcmd_node} ELSE {}

\* No node is lost or in two places, whichever of the main process, the timer,
\* the hang handling and the removal of an interface gives it back: a node that
\* were would be missing for ever or be sent with another's command.
NodesPlaced ==
    /\ cmd_free_q \cup cmd_pending_q \cup Current \cup InHand = Nodes
    /\ cmd_free_q \cap cmd_pending_q = {}
    /\ curr_cmd \notin cmd_free_q \cup cmd_pending_q \cup InHand
    /\ InHand \cap (cmd_free_q \cup cmd_pending_q) = {}

\* A request that has not been completed rides on exactly one node in use, and a
\* completed one on none: it will be completed, and freed, once.
CompletedOnce ==
    /\ \A r \in Reqs :
          reqAt[r] \in {"waiting", "left"} <=>
              \E n \in Nodes \ cmd_free_q : ctl[n].req = r
    /\ \A m, n \in Nodes : ctl[m].req = ctl[n].req /\ m # n => ctl[m].req = NoReq

InResp == mainAt \in {"cancel", "handle"}

\* Until the driver is declared hanging a response is handled while its command
\* is current: sequence numbers are not compared, so this rests on there being
\* one command at a time and on the timer being stopped.
RespOfCurrent ==
    InResp /\ ~driver_status =>
        curr_cmd # NoNode /\ ctl[curr_cmd].resp = ctl[curr_cmd].cmd

\* The handler of a response follows curr_cmd, and pioctl_buf, read before the
\* command timer was dealt with.
RespHasCommand == InResp => curr_cmd # NoNode

\* No timer watches a command without response: one that the firmware does not
\* take, or whose request went with its interface while it was being sent (it
\* stays current), holds up the commands behind it.
Unwatched ==
    \/ port # NoCmd /\ port.no \in NoResp
    \/ curr_cmd # NoNode /\ ctl[curr_cmd].canceled /\ ctl[curr_cmd].cmd.no \in NoResp

\* A request is answered, also by a firmware that has stopped: by the response,
\* by the timer or by the hang handling; except behind a command without
\* response, and after a failed download, which ends the main process although
\* commands are pending.
Answered ==
    \A r \in Reqs :
        reqAt[r] = "waiting" /\ ~driver_status ~>
            reqAt[r] # "waiting" \/ num_cmd_host_to_card_failure > 0 \/ Unwatched

-----------------------------------------------------------------------------
(* The inductive invariant of the safety properties *)

\* The main process downloads a node, which is the only command from when it
\* left the queue until it is current.
Downloading ==
    /\ mainAt \in {"curr", "send", "fail", "arm"} => pcmd_node \in Nodes
    /\ mainAt = "curr" => curr_cmd = NoNode

\* A free node is clean, any other has a command.
CleanWhenFree ==
    \A n \in Nodes :
        IF n \in cmd_free_q THEN ctl[n] = CleanCtl ELSE ctl[n].cmd \in Cmds

\* The upload port is full exactly when the card says so.
UploadSaid == "resp" \in sdio_ireg <=> upld # NoCmd

\* Command c is the current one, sent and not yet answered.
InFlight(c) ==
    /\ c.no \notin NoResp
    /\ curr_cmd # NoNode /\ ctl[curr_cmd].cmd = c
    /\ mainAt \in {"idle", "loop", "body", "next", "arm"}

\* Until the driver is declared hanging there is one command in flight, in one
\* place, and it is the current one; a response in hand is its response.
OneInFlight ==
    ~driver_status =>
        /\ port # NoCmd /\ port.no \notin NoResp => InFlight(port) /\ taken = {} /\ upld = NoCmd
        /\ \A c \in taken : InFlight(c) /\ upld = NoCmd
        /\ upld # NoCmd => InFlight(upld) /\ taken = {}
        /\ \A c, d \in taken : c = d
        /\ mainAt \in {"send", "fail", "arm"} => curr_cmd = pcmd_node /\ dnld = ctl[curr_cmd].cmd
        /\ mainAt \in {"read", "stop", "cancel", "handle", "final"} =>
              curr_cmd # NoNode /\ ctl[curr_cmd].resp = ctl[curr_cmd].cmd

CmdInv ==
    /\ NodesPlaced /\ CompletedOnce /\ Downloading /\ CleanWhenFree
    /\ UploadSaid /\ OneInFlight
=============================================================================
