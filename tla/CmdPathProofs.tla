---------------------------- MODULE CmdPathProofs ----------------------------
(***************************************************************************)
(* The safety properties of CmdPath, for every set of command nodes, every *)
(* set of interfaces and any number of requests, failures and removals.    *)
(* CmdInv is the inductive invariant.                                      *)
(***************************************************************************)
EXTENDS CmdPath, TLAPS

-----------------------------------------------------------------------------
(* What the helpers do *)

\* A new and a cleaned node are nodes.
LEMMA CtlTypes ==
    /\ CleanCtl \in Ctls
    /\ \A no \in Kinds \cup OwnKinds, r \in Origins :
          NewCtl(no, r) \in Ctls /\ NewCtl(no, r).cmd \in Cmds /\ NewCtl(no, r).req = r
  BY DEF CleanCtl, NewCtl, Ctls, Cmds, Origins

\* An orphan keeps its command and its response, and has no rider.
LEMMA OrphanTyped ==
    ASSUME NEW c \in Ctls
    PROVE  /\ Orphan(c) \in Ctls
           /\ Orphan(c).cmd = c.cmd /\ Orphan(c).resp = c.resp /\ Orphan(c).req = NoReq
<1>. DEFINE d == [c EXCEPT !.req = NoReq]
<1>1. d \in Ctls /\ d.cmd = c.cmd /\ d.resp = c.resp /\ d.req = NoReq
      BY DEF Ctls, Origins
<1>. HIDE DEF d
<1>2. LET e == [d EXCEPT !.canceled = TRUE]
      IN  e \in Ctls /\ e.cmd = d.cmd /\ e.resp = d.resp /\ e.req = d.req
      BY <1>1 DEF Ctls
<1>3. Orphan(c) = [d EXCEPT !.canceled = TRUE]
      BY DEF Orphan, d
<1>. QED  BY <1>1, <1>2, <1>3

\* The current command is a node, if there is one.
LEMMA CurrentNode ==
    ASSUME Held
    PROVE  /\ Current \subseteq Nodes
           /\ curr_cmd = NoNode => Current = {}
           /\ curr_cmd # NoNode => Current = {curr_cmd} /\ curr_cmd \in Nodes
  BY NoneAssumption DEF Held, Current

\* Requests ride on nodes.
LEMMA RidersAreRequests ==
    ASSUME Held, NEW ns \in SUBSET Nodes
    PROVE  Riders(ns) \subseteq Reqs
  BY DEF Held, Riders, Ctls, Origins

\* Freed nodes are clean nodes.
LEMMA FreeTyped ==
    ASSUME Held, NEW ns \in SUBSET Nodes, FreeNodes(ns)
    PROVE  cmd_free_q' \subseteq Nodes /\ ctl' \in [Nodes -> Ctls]
  BY CtlTypes DEF Held, FreeNodes

\* Whom a completion reaches is over, the others stay what they are.
LEMMA CompleteValue ==
    ASSUME NEW at \in [Reqs -> ReqSteps], NEW rs \in SUBSET Reqs,
           \A r \in rs : at[r] \in {"waiting", "left"}
    PROVE  /\ Complete(at, rs) \in [Reqs -> ReqSteps]
           /\ \A r \in Reqs : Complete(at, rs)[r] = IF r \in rs THEN "over" ELSE at[r]
  BY DEF Complete, AfterComplete, ReqSteps

\* The riders of nodes in use have not been completed.
LEMMA RidersWait ==
    ASSUME Held, CompletedOnce, NEW ns \in SUBSET (Nodes \ cmd_free_q)
    PROVE  \A r \in Riders(ns) : r \in Reqs /\ reqAt[r] \in {"waiting", "left"}
<1>1. Riders(ns) \subseteq Reqs
      BY RidersAreRequests
<1>. QED  BY <1>1 DEF CompletedOnce, Riders

\* Nodes that are freed while their riders, and nobody else, are completed leave
\* every other request where it was.
LEMMA Released ==
    ASSUME Held, CompletedOnce, CleanWhenFree,
           NEW ns \in SUBSET (Nodes \ cmd_free_q), FreeNodes(ns),
           \A r \in Reqs : IF r \in Riders(ns) THEN reqAt'[r] \notin {"waiting", "left"}
                           ELSE reqAt'[r] \in {"waiting", "left"} <=> reqAt[r] \in {"waiting", "left"}
    PROVE  CompletedOnce' /\ CleanWhenFree'
<1>1. \A n \in Nodes : /\ n \in ns => ctl'[n] = CleanCtl /\ ctl'[n].req = NoReq
                       /\ n \notin ns => ctl'[n] = ctl[n]
      BY DEF FreeNodes, CleanCtl
<1>2. cmd_free_q' = cmd_free_q \cup ns
      BY DEF FreeNodes
<1>3. CleanWhenFree'
      BY <1>1, <1>2 DEF CleanWhenFree
<1>4. \A m, n \in Nodes : ctl'[m].req = ctl'[n].req /\ m # n => ctl'[m].req = NoReq
      BY <1>1 DEF CompletedOnce
<1>5. ASSUME NEW r \in Reqs
      PROVE  reqAt'[r] \in {"waiting", "left"} <=> \E n \in Nodes \ cmd_free_q' : ctl'[n].req = r
  <2>1. CASE r \in Riders(ns)
    <3>1. PICK m \in ns : ctl[m].req = r
          BY <2>1 DEF Riders
    <3>2. \A n \in Nodes : ctl[n].req = r => n = m
          BY <3>1, NoneAssumption DEF CompletedOnce
    <3>. QED  BY <1>1, <1>2, <2>1, <3>1, <3>2
  <2>2. CASE r \notin Riders(ns)
    <3>1. \A n \in ns : ctl[n].req # r
          BY <2>2, NoneAssumption DEF Riders
    <3>. QED  BY <1>1, <1>2, <2>2, <3>1 DEF CompletedOnce
  <2>. QED  BY <2>1, <2>2
<1>. QED  BY <1>3, <1>4, <1>5 DEF CompletedOnce

-----------------------------------------------------------------------------
(* Type correctness *)

LEMMA TypeInit == Init => TypeOK
<1>1. Init => Flags
      BY DEF Init, Flags
<1>2. Init => Held
      BY CtlTypes DEF Init, Held, Origins
<1>3. Init => Places /\ Card
      BY DEF Init, Places, Card, MainSteps, ReqSteps
<1>4. Init => Counters
      BY BoundsAssumption DEF Init, Counters
<1>. QED  BY <1>1, <1>2, <1>3, <1>4 DEF TypeOK

LEMMA FlagsStep == Flags /\ [Next]_vars => Flags'
<1>. SUFFICES ASSUME Flags, [Next]_vars
              PROVE  Flags'
     OBVIOUS
<1>. USE DEF Flags, glue
<1>1. ASSUME NEW r \in Reqs,
             \/ RequestCheck(r) \/ RequestFail(r) \/ RequestNoNode(r) \/ GiveUp(r)
             \/ \E no \in Kinds : Request(r, no)
      PROVE  Flags'
      BY Zenon, <1>1 DEF RequestCheck, RequestFail, RequestNoNode, GiveUp, Request, Prepare,
                         NoFreeNode, ProcessHang
<1>2. CASE \/ InternalNoNode
           \/ \E no \in OwnKinds : PrepareInternal(no)
           \/ \E b \in Bsses : CancelBss(b)
      BY Zenon, <1>2 DEF InternalNoNode, PrepareInternal, Prepare, CancelBss, NoFreeNode,
                         ProcessHang
<1>3. CASE \/ MainStart \/ MainInt \/ MainBody \/ RespRead \/ RespStop \/ RespCancel \/ RespHandle
      BY Zenon, <1>3 DEF MainStart, MainInt, MainBody, RespRead, RespStop, RespCancel, RespHandle
<1>4. CASE \/ \E ok \in BOOLEAN : RespFinal(ok)
           \/ ExecNext \/ DnldCurr \/ DnldSend \/ DnldSendFails \/ DnldFail \/ DnldNoResp \/ DnldArm
      BY Zenon, <1>4 DEF RespFinal, ExecNext, DnldCurr, DnldSend, DnldSendFails, DnldFail,
                         DnldNoResp, DnldArm
<1>5. CASE CmdTimeout
  <2>1. code' \in [Reqs -> BOOLEAN]
        BY <1>5 DEF CmdTimeout
  <2>. QED  BY Zenon, <1>5, <2>1 DEF CmdTimeout
<1>6. CASE DbgDump \/ HangWork \/ FwTake \/ FwAnswer \/ UNCHANGED vars
      BY Zenon, <1>6 DEF DbgDump, ProcessHang, HangWork, FwTake, FwAnswer, vars
<1>. QED  BY <1>1, <1>2, <1>3, <1>4, <1>5, <1>6 DEF Next, MainStep, TimerStep

\* A hang frees the commands that are current or pending, or changes nothing.
LEMMA HangHeld ==
    ASSUME Held, NEW at, ProcessHang(at)
    PROVE  /\ cmd_free_q' \subseteq Nodes /\ cmd_pending_q' \subseteq Nodes
           /\ curr_cmd' \in Nodes \cup {NoNode} /\ ctl' \in [Nodes -> Ctls]
<1>1. CASE CancelAll(at)
  <2>1. Current \cup cmd_pending_q \subseteq Nodes
        BY CurrentNode DEF Held
  <2>2. cmd_free_q' \subseteq Nodes /\ ctl' \in [Nodes -> Ctls]
        BY <1>1, <2>1, FreeTyped DEF CancelAll
  <2>. QED  BY <1>1, <2>2 DEF CancelAll
<1>2. CASE UNCHANGED queues
      BY <1>2 DEF queues, Held
<1>. QED  BY <1>1, <1>2 DEF ProcessHang

LEMMA HeldStep == Held /\ Card /\ Downloading /\ [Next]_vars => Held'
<1>. SUFFICES ASSUME Held, Card, Downloading, [Next]_vars
              PROVE  Held'
     OBVIOUS
<1>1. ASSUME NEW no \in Kinds \cup OwnKinds, NEW r \in Origins, Prepare(no, r),
             UNCHANGED <<curr_cmd, mainOwn>>
      PROVE  Held'
      BY <1>1, CtlTypes DEF Prepare, Held, mainOwn
<1>2. ASSUME NEW at, ProcessHang(at), UNCHANGED mainOwn
      PROVE  Held'
      BY <1>2, HangHeld DEF Held, mainOwn
<1>3. CASE UNCHANGED <<queues, mainOwn>>
      BY <1>3 DEF Held, queues, mainOwn
<1>4. ASSUME NEW r \in Reqs,
             \/ RequestCheck(r) \/ RequestFail(r) \/ RequestNoNode(r) \/ GiveUp(r)
             \/ \E no \in Kinds : Request(r, no)
      PROVE  Held'
      BY <1>1, <1>2, <1>3, <1>4
      DEF RequestCheck, RequestFail, RequestNoNode, GiveUp, Request, NoFreeNode, Origins, queues
<1>5. CASE InternalNoNode \/ \E no \in OwnKinds : PrepareInternal(no)
      BY <1>1, <1>2, <1>3, <1>5 DEF InternalNoNode, NoFreeNode, PrepareInternal, Origins, queues
<1>6. ASSUME NEW b \in Bsses, CancelBss(b)
      PROVE  Held'
      BY <1>6, CtlTypes, OrphanTyped, CurrentNode DEF CancelBss, OfBss, Held, mainOwn
<1>7. CASE MainInt
  <2>1. UNCHANGED ctl \/ (curr_cmd \in Nodes /\ ctl' = [ctl EXCEPT ![curr_cmd].resp = upld])
        BY <1>7, CurrentNode DEF MainInt
  <2>2. ctl' \in [Nodes -> Ctls]
        BY <2>1 DEF Held, Card, Ctls
  <2>. QED  BY <1>7, <2>2 DEF MainInt, Held, mainOwn
<1>8. CASE RespRead
      BY <1>8, CurrentNode DEF RespRead, Held, queues, Ctls
<1>9. CASE \/ MainStart \/ MainBody \/ RespStop \/ RespHandle \/ DnldSend \/ DnldSendFails
           \/ CmdTimeout \/ HangWork \/ FwTake \/ FwAnswer \/ UNCHANGED vars
      BY <1>3, <1>9 DEF MainStart, MainBody, RespStop, RespHandle, DnldSend, DnldSendFails,
                        CmdTimeout, HangWork, FwTake, FwAnswer, vars
<1>10. ASSUME FreeNodes(Current), curr_cmd' = NoNode, UNCHANGED cmd_pending_q
      PROVE  cmd_free_q' \subseteq Nodes /\ cmd_pending_q' \subseteq Nodes
             /\ curr_cmd' \in Nodes \cup {NoNode} /\ ctl' \in [Nodes -> Ctls]
      BY <1>10, CurrentNode, FreeTyped DEF Held
<1>11. CASE RespCancel \/ \E ok \in BOOLEAN : RespFinal(ok)
      BY <1>10, <1>11 DEF RespCancel, RespFinal, Held, Origins, queues
<1>12. CASE DnldFail \/ DnldNoResp \/ DnldArm
      BY <1>10, <1>12 DEF DnldFail, DnldNoResp, DnldArm, DnldReturn, Held, queues
<1>13. CASE ExecNext
      BY <1>13 DEF ExecNext, Held
<1>14. CASE DnldCurr
      BY <1>14 DEF DnldCurr, Held, Ctls, Downloading
<1>15. CASE DbgDump
      BY <1>2, <1>15 DEF DbgDump
<1>. QED  BY <1>4, <1>5, <1>6, <1>7, <1>8, <1>9, <1>11, <1>12, <1>13, <1>14, <1>15
          DEF Next, MainStep, TimerStep

\* The current and the pending commands are in use.
LEMMA InUse ==
    ASSUME Held, NodesPlaced
    PROVE  Current \cup cmd_pending_q \subseteq Nodes \ cmd_free_q
  BY CurrentNode DEF Held, NodesPlaced

\* The request table at, in which every request that waits is as in reqAt.
WaitsAs(at) ==
    /\ at \in [Reqs -> ReqSteps]
    /\ \A r \in Reqs : /\ reqAt[r] \in {"waiting", "left"} => at[r] = reqAt[r]
                       /\ reqAt[r] \notin {"waiting", "left"} => at[r] \notin {"waiting", "left"}

\* Completing the riders of nodes in use.
LEMMA CompleteRiders ==
    ASSUME Held, Places, CompletedOnce, NEW ns \in SUBSET (Nodes \ cmd_free_q), NEW at, WaitsAs(at)
    PROVE  /\ Complete(at, Riders(ns)) \in [Reqs -> ReqSteps]
           /\ \A r \in Reqs : Complete(at, Riders(ns))[r] = IF r \in Riders(ns) THEN "over" ELSE at[r]
<1>1. Riders(ns) \subseteq Reqs /\ \A r \in Riders(ns) : at[r] \in {"waiting", "left"}
      BY RidersWait DEF WaitsAs
<1>2. at \in [Reqs -> ReqSteps]
      BY DEF WaitsAs
<1>. QED  BY <1>1, <1>2, CompleteValue

\* Freeing nodes in use and completing their riders keeps the requests right.
LEMMA Freed ==
    ASSUME Held, Places, CompletedOnce, CleanWhenFree, NEW at, WaitsAs(at),
           NEW ns \in SUBSET (Nodes \ cmd_free_q), FreeNodes(ns),
           reqAt' = Complete(at, Riders(ns))
    PROVE  reqAt' \in [Reqs -> ReqSteps] /\ CompletedOnce' /\ CleanWhenFree'
<1>1. /\ reqAt' \in [Reqs -> ReqSteps]
      /\ \A r \in Reqs : reqAt'[r] = IF r \in Riders(ns) THEN "over" ELSE at[r]
      BY CompleteRiders
<1>2. \A r \in Reqs : IF r \in Riders(ns) THEN reqAt'[r] \notin {"waiting", "left"}
                      ELSE reqAt'[r] \in {"waiting", "left"} <=> reqAt[r] \in {"waiting", "left"}
      BY <1>1 DEF WaitsAs
<1>. QED  BY <1>1, <1>2, Released

\* A step that leaves the nodes alone and completes nobody.
LEMMA Untouched ==
    ASSUME Held, CompletedOnce, CleanWhenFree, UNCHANGED <<cmd_free_q, ctl>>, WaitsAs(reqAt')
    PROVE  reqAt' \in [Reqs -> ReqSteps] /\ CompletedOnce' /\ CleanWhenFree'
  BY DEF WaitsAs, CompletedOnce, CleanWhenFree

\* The requests during a hang.
LEMMA HangRequests ==
    ASSUME Held, Places, NodesPlaced, CompletedOnce, CleanWhenFree,
           NEW at, WaitsAs(at), ProcessHang(at)
    PROVE  reqAt' \in [Reqs -> ReqSteps] /\ CompletedOnce' /\ CleanWhenFree'
<1>1. CASE CancelAll(at)
      BY <1>1, InUse, Freed DEF CancelAll
<1>2. CASE reqAt' = at /\ UNCHANGED queues
      BY <1>2, Untouched DEF queues
<1>. QED  BY <1>1, <1>2 DEF ProcessHang

\* A response goes into the current node, and changes nothing else of it.
LEMMA RespStored ==
    ASSUME Held, Card, MainInt
    PROVE  /\ \A n \in Nodes : ctl'[n].cmd = ctl[n].cmd /\ ctl'[n].req = ctl[n].req
           /\ \A n \in Nodes : n # curr_cmd => ctl'[n] = ctl[n]
           /\ mainAt' = "read" => curr_cmd \in Nodes /\ ctl'[curr_cmd].resp = upld
<1>1. \/ ctl' = ctl /\ mainAt' = "body"
      \/ curr_cmd \in Nodes /\ ctl' = [ctl EXCEPT ![curr_cmd].resp = upld]
      BY CurrentNode DEF MainInt
<1>. QED  BY <1>1 DEF Held, Card, Ctls

\* A node is taken from the free queue for a request that has none.
LEMMA Prepared ==
    ASSUME Held, Places, CompletedOnce, CleanWhenFree,
           NEW no \in Kinds \cup OwnKinds, NEW q \in Origins, Prepare(no, q),
           IF q = NoReq THEN reqAt' = reqAt
           ELSE reqAt[q] = "checked" /\ reqAt' = [reqAt EXCEPT ![q] = "waiting"]
    PROVE  reqAt' \in [Reqs -> ReqSteps] /\ CompletedOnce' /\ CleanWhenFree'
<1>1. PICK n \in cmd_free_q : /\ cmd_free_q' = cmd_free_q \ {n}
                              /\ ctl' = [ctl EXCEPT ![n] = NewCtl(no, q)]
      BY DEF Prepare
<1>2. n \in Nodes /\ ctl[n].req = NoReq
      BY <1>1 DEF Held, CleanWhenFree, CleanCtl
<1>3. /\ ctl'[n].req = q /\ ctl'[n].cmd \in Cmds
      /\ \A m \in Nodes : m # n => ctl'[m] = ctl[m]
      BY <1>1, <1>2, CtlTypes DEF Held
<1>4. reqAt' \in [Reqs -> ReqSteps]
      BY DEF Places, Origins, ReqSteps
<1>5. CleanWhenFree'
      BY <1>1, <1>3 DEF CleanWhenFree
<1>6. \A m \in Nodes \ {n} : q # NoReq => ctl[m].req # q
  <2>1. \A m \in cmd_free_q : m \in Nodes /\ ctl[m].req = NoReq
        BY DEF Held, CleanWhenFree, CleanCtl
  <2>. QED  BY <2>1 DEF CompletedOnce, Origins
<1>7. \A m, k \in Nodes : ctl'[m].req = ctl'[k].req /\ m # k => ctl'[m].req = NoReq
      BY <1>3, <1>6 DEF CompletedOnce
<1>8. ASSUME NEW r \in Reqs
      PROVE  reqAt'[r] \in {"waiting", "left"} <=> \E m \in Nodes \ cmd_free_q' : ctl'[m].req = r
  <2>1. CASE r = q
        BY <1>1, <1>2, <1>3, <2>1, NoneAssumption DEF Places
  <2>2. CASE r # q
    <3>1. reqAt'[r] = reqAt[r]
          BY <2>2 DEF Places, Origins
    <3>. QED  BY <1>1, <1>2, <1>3, <2>2, <3>1, NoneAssumption DEF CompletedOnce
  <2>. QED  BY <2>1, <2>2
<1>. QED  BY <1>4, <1>5, <1>7, <1>8 DEF CompletedOnce

\* The removal of an interface completes the riders of the pending commands it
\* frees and of the current command, which it leaves without a rider.
LEMMA Removed ==
    ASSUME Held, Places, NodesPlaced, CompletedOnce, CleanWhenFree, NEW b \in Bsses, CancelBss(b)
    PROVE  reqAt' \in [Reqs -> ReqSteps] /\ CompletedOnce' /\ CleanWhenFree'
<1>. DEFINE gone == OfBss(b, cmd_pending_q)
            lost == OfBss(b, Current)
<1>1. gone \in SUBSET (Nodes \ cmd_free_q) /\ lost \in SUBSET (Nodes \ cmd_free_q)
      BY InUse DEF OfBss
<1>2. /\ cmd_free_q' = cmd_free_q \cup gone
      /\ ctl' = [n \in Nodes |-> IF n \in gone THEN CleanCtl
                                 ELSE IF n \in lost THEN Orphan(ctl[n]) ELSE ctl[n]]
      /\ reqAt' = Complete(reqAt, Riders(gone \cup lost))
      BY DEF CancelBss
<1>. HIDE DEF gone, lost
<1>3. \A n \in Nodes : /\ n \in gone => ctl'[n] = CleanCtl
                       /\ n \in gone \cup lost => ctl'[n].req = NoReq
                       /\ n \notin gone => ctl'[n].cmd = ctl[n].cmd
                       /\ n \notin gone \cup lost => ctl'[n] = ctl[n]
      BY <1>2, OrphanTyped DEF CleanCtl, Held
<1>4. WaitsAs(reqAt)
      BY DEF WaitsAs, Places
<1>5. /\ reqAt' \in [Reqs -> ReqSteps]
      /\ \A r \in Reqs : reqAt'[r] = IF r \in Riders(gone \cup lost) THEN "over" ELSE reqAt[r]
      BY <1>1, <1>2, <1>4, CompleteRiders
<1>6. CleanWhenFree'
      BY <1>1, <1>2, <1>3 DEF CleanWhenFree
<1>7. \A m, n \in Nodes : ctl'[m].req = ctl'[n].req /\ m # n => ctl'[m].req = NoReq
      BY <1>3 DEF CompletedOnce
<1>8. ASSUME NEW r \in Reqs
      PROVE  reqAt'[r] \in {"waiting", "left"} <=> \E n \in Nodes \ cmd_free_q' : ctl'[n].req = r
  <2>1. CASE r \in Riders(gone \cup lost)
    <3>1. PICK m \in gone \cup lost : ctl[m].req = r
          BY <2>1 DEF Riders
    <3>2. \A n \in Nodes : ctl[n].req = r => n = m
          BY <1>1, <3>1, NoneAssumption DEF CompletedOnce
    <3>. QED  BY <1>3, <1>5, <2>1, <3>1, <3>2, NoneAssumption
  <2>2. CASE r \notin Riders(gone \cup lost)
    <3>1. \A n \in gone \cup lost : ctl[n].req # r
          BY <2>2, NoneAssumption DEF Riders
    <3>2. \A n \in Nodes : ctl'[n].req = r <=> ctl[n].req = r
          BY <1>3, <3>1, NoneAssumption
    <3>3. \A n \in Nodes : ctl[n].req = r => (n \in cmd_free_q' <=> n \in cmd_free_q)
          BY <1>2, <3>1
    <3>4. reqAt'[r] = reqAt[r]
          BY <1>5, <2>2
    <3>. QED  BY <3>2, <3>3, <3>4 DEF CompletedOnce
  <2>. QED  BY <2>1, <2>2
<1>. QED  BY <1>5, <1>6, <1>7, <1>8 DEF CompletedOnce

\* Every step keeps the requests right.
LEMMA RequestsStep ==
    ASSUME Held, Places, Card, NodesPlaced, CompletedOnce, CleanWhenFree, [Next]_vars
    PROVE  reqAt' \in [Reqs -> ReqSteps] /\ CompletedOnce' /\ CleanWhenFree'
<1>. DEFINE Goal == reqAt' \in [Reqs -> ReqSteps] /\ CompletedOnce' /\ CleanWhenFree'
<1>1. WaitsAs(reqAt)
      BY DEF WaitsAs, Places
<1>2. ASSUME NEW r \in Reqs, reqAt[r] = "checked"
      PROVE  WaitsAs([reqAt EXCEPT ![r] = "over"])
      BY <1>2 DEF WaitsAs, Places, ReqSteps
<1>3. ASSUME UNCHANGED <<cmd_free_q, ctl, reqAt>>
      PROVE  Goal
      BY <1>1, <1>3, Untouched
<1>4. ASSUME FreeNodes(Current), reqAt' = Complete(reqAt, Riders(Current))
      PROVE  Goal
      BY <1>1, <1>4, InUse, Freed
<1>5. ASSUME NEW r \in Reqs, RequestCheck(r) \/ RequestFail(r) \/ GiveUp(r)
      PROVE  Goal
  <2>1. CASE RequestCheck(r) \/ RequestFail(r)
    <3>1. WaitsAs(reqAt') /\ UNCHANGED <<cmd_free_q, ctl>>
          BY <2>1 DEF RequestCheck, RequestFail, WaitsAs, Places, ReqSteps, queues
    <3>. QED  BY <3>1, Untouched
  <2>2. CASE GiveUp(r)
        BY <2>2 DEF GiveUp, queues, Places, ReqSteps, CompletedOnce, CleanWhenFree
  <2>. QED  BY <1>5, <2>1, <2>2
<1>6. ASSUME NEW r \in Reqs, RequestNoNode(r)
      PROVE  Goal
  <2>1. reqAt[r] = "checked" /\ NoFreeNode([reqAt EXCEPT ![r] = "over"])
        BY <1>6 DEF RequestNoNode
  <2>. QED  BY <1>2, <2>1, HangRequests, Untouched DEF NoFreeNode, queues
<1>7. ASSUME NEW r \in Reqs, NEW no \in Kinds, Request(r, no)
      PROVE  Goal
      BY <1>7, Prepared, NoneAssumption DEF Request, Origins
<1>8. ASSUME NEW no \in OwnKinds, PrepareInternal(no)
      PROVE  Goal
      BY <1>8, Prepared DEF PrepareInternal, Origins, glue
<1>9. CASE InternalNoNode
      BY <1>1, <1>9, HangRequests, Untouched DEF InternalNoNode, NoFreeNode, queues
<1>10. ASSUME NEW b \in Bsses, CancelBss(b)
      PROVE  Goal
      BY <1>10, Removed
<1>11. CASE MainInt
      BY <1>11, RespStored DEF MainInt, glue, CompletedOnce, CleanWhenFree, NodesPlaced, Places
<1>12. CASE \/ MainStart \/ MainBody \/ RespRead \/ RespStop \/ RespHandle \/ ExecNext \/ DnldCurr
            \/ DnldSend \/ DnldSendFails \/ DnldArm
            \/ CmdTimeout \/ HangWork \/ FwTake \/ FwAnswer \/ UNCHANGED vars
      BY <1>3, <1>12 DEF MainStart, MainBody, RespRead, RespStop, RespHandle, ExecNext, DnldCurr,
             DnldSend, DnldSendFails, DnldArm, CmdTimeout, HangWork, FwTake, FwAnswer, vars,
             queues, glue
<1>13. CASE RespCancel \/ DnldFail \/ DnldNoResp
      BY <1>3, <1>4, <1>13 DEF RespCancel, DnldFail, DnldNoResp, queues
<1>14. ASSUME NEW ok \in BOOLEAN, RespFinal(ok)
      PROVE  Goal
  <2>1. CASE reqAt' = Complete(reqAt, Riders(Current))
        BY <1>4, <1>14, <2>1 DEF RespFinal
  <2>2. CASE reqAt' = CompleteUnwoken(Riders(Current))
    <3>1. \A r \in Reqs : Complete(reqAt, Riders(Current))[r] =
                              IF r \in Riders(Current) THEN "over" ELSE reqAt[r]
          BY <1>1, InUse, CompleteRiders
    <3>2. reqAt' = [r \in Reqs |-> IF r \in Riders(Current) /\ reqAt[r] = "waiting" THEN "unwoken"
                                   ELSE Complete(reqAt, Riders(Current))[r]]
          BY <2>2 DEF CompleteUnwoken
    <3>3. \A r \in Reqs : IF r \in Riders(Current) THEN reqAt'[r] \in {"unwoken", "over"}
                          ELSE reqAt'[r] = reqAt[r]
          BY <3>1, <3>2
    <3>4. reqAt' \in [Reqs -> ReqSteps]
          BY <3>2, <3>3 DEF Places, ReqSteps
    <3>5. CompletedOnce' /\ CleanWhenFree'
          BY <1>14, <3>3, InUse, Released DEF RespFinal
    <3>. QED  BY <3>4, <3>5
  <2>. QED  BY <1>14, <2>1, <2>2 DEF RespFinal
<1>15. CASE DbgDump
      BY <1>1, <1>15, HangRequests DEF DbgDump
<1>. QED  BY <1>5, <1>6, <1>7, <1>8, <1>9, <1>10, <1>11, <1>12, <1>13, <1>14, <1>15
          DEF Next, MainStep, TimerStep

\* The steps of everybody but the main process.
Outside ==
    \/ \E r \in Reqs :
          \/ RequestCheck(r)
          \/ \E no \in Kinds : Request(r, no)
          \/ RequestFail(r) \/ RequestNoNode(r) \/ GiveUp(r)
    \/ \E no \in OwnKinds : PrepareInternal(no)
    \/ InternalNoNode
    \/ \E b \in Bsses : CancelBss(b)
    \/ TimerStep \/ HangWork \/ FwTake \/ FwAnswer
    \/ UNCHANGED vars

LEMMA Sides == [Next]_vars => MainStep \/ Outside
  BY DEF Next, Outside

\* They do not move the main process, nor change what it has read.
LEMMA OutsideLeaves ==
    ASSUME Outside
    PROVE  UNCHANGED <<mainAt, mainOwn>>
  BY DEF Outside, RequestCheck, Request, RequestFail, RequestNoNode, GiveUp, PrepareInternal,
         InternalNoNode, CancelBss, TimerStep, CmdTimeout, DbgDump, HangWork, FwTake, FwAnswer,
         vars

LEMMA PlacesStep ==
    ASSUME TypeOK, CmdInv, [Next]_vars
    PROVE  Places'
<1>1. reqAt' \in [Reqs -> ReqSteps]
      BY RequestsStep DEF TypeOK, CmdInv
<1>2. CASE MainStep
  <2>1. mainAt' \in MainSteps /\ timerAt' = timerAt
        BY <1>2 DEF MainSteps, MainStep, MainStart, MainInt, MainBody, RespRead, RespStop,
               RespCancel, RespHandle, RespFinal, ExecNext, DnldCurr, DnldSend, DnldSendFails,
               DnldFail, DnldNoResp, DnldArm
  <2>. QED  BY <1>1, <2>1 DEF TypeOK, Places
<1>3. CASE Outside
  <2>1. timerAt' \in {"idle", "dump"}
        BY <1>3 DEF TypeOK, Places, Outside, RequestCheck, Request, RequestFail, RequestNoNode,
               GiveUp, PrepareInternal, InternalNoNode, CancelBss, TimerStep, CmdTimeout,
               DbgDump, HangWork, FwTake, FwAnswer, vars
  <2>. QED  BY <1>1, <1>3, <2>1, OutsideLeaves DEF TypeOK, Places
<1>. QED  BY <1>2, <1>3, Sides

LEMMA CardStep ==
    ASSUME Held, Card, Downloading, [Next]_vars
    PROVE  Card'
<1>. USE DEF Card, cardVars
<1>1. CASE DnldSend
      BY <1>1 DEF DnldSend, Held, Ctls, Downloading
<1>2. CASE MainStep /\ ~DnldSend
      BY <1>2 DEF MainStep, MainStart, MainInt, MainBody, RespRead, RespStop, RespCancel,
             RespHandle, RespFinal, ExecNext, DnldCurr, DnldSendFails, DnldFail, DnldNoResp,
             DnldArm
<1>3. CASE FwTake \/ FwAnswer
      BY <1>3 DEF FwTake, FwAnswer
<1>4. CASE Outside /\ ~FwTake /\ ~FwAnswer
  <2>1. UNCHANGED cardVars
        BY <1>4 DEF Outside, RequestCheck, Request, RequestFail, RequestNoNode, GiveUp,
               PrepareInternal, InternalNoNode, CancelBss, TimerStep, CmdTimeout, DbgDump,
               HangWork, vars
  <2>. QED  BY <2>1
<1>. QED  BY <1>1, <1>2, <1>3, <1>4, Sides

LEMMA CountersStep ==
    ASSUME Counters, [Next]_vars
    PROVE  Counters'
<1>. USE BoundsAssumption DEF Counters, counts
<1>1. CASE MainStep
      BY <1>1 DEF MainStep, MainStart, MainInt, MainBody, RespRead, RespStop, RespCancel,
             RespHandle, RespFinal, ExecNext, DnldCurr, DnldSend, DnldSendFails, DnldFail,
             DnldNoResp, DnldArm
<1>2. ASSUME NEW r \in Reqs,
             \/ RequestCheck(r) \/ RequestFail(r) \/ RequestNoNode(r) \/ GiveUp(r)
             \/ \E no \in Kinds : Request(r, no)
      PROVE  Counters'
      BY <1>2 DEF RequestCheck, RequestFail, RequestNoNode, NoFreeNode, GiveUp, Request, Prepare
<1>3. CASE InternalNoNode \/ \E no \in OwnKinds : PrepareInternal(no)
      BY <1>3 DEF InternalNoNode, NoFreeNode, PrepareInternal, Prepare
<1>4. ASSUME NEW b \in Bsses, CancelBss(b)
      PROVE  Counters'
  <2>1. removes < MaxRemoves /\ removes' = removes + 1
        /\ UNCHANGED <<num_no_cmd_node, internals, num_cmd_host_to_card_failure>>
        BY <1>4 DEF CancelBss
  <2>. QED  BY <2>1
<1>5. CASE TimerStep \/ HangWork \/ FwTake \/ FwAnswer \/ UNCHANGED vars
      BY <1>5 DEF TimerStep, CmdTimeout, DbgDump, HangWork, FwTake, FwAnswer, vars
<1>. QED  BY <1>1, <1>2, <1>3, <1>4, <1>5, Sides DEF Outside

-----------------------------------------------------------------------------
(* The nodes *)

LEMMA DownloadingStep ==
    ASSUME Held, NodesPlaced, Downloading, [Next]_vars
    PROVE  Downloading'
<1>. USE DEF Downloading
<1>1. CASE MainStep
  <2>1. CASE ExecNext
        BY <2>1 DEF ExecNext, Held
  <2>2. CASE DnldCurr
        BY <2>2 DEF DnldCurr
  <2>3. CASE DnldSend \/ DnldSendFails
        BY <2>3 DEF DnldSend, DnldSendFails, mainOwn, queues
  <2>4. CASE ~ExecNext /\ ~DnldCurr /\ ~DnldSend /\ ~DnldSendFails
    <3>1. mainAt' \notin {"curr", "send", "fail", "arm"}
          BY <1>1, <2>4 DEF MainStep, MainStart, MainInt, MainBody, RespRead, RespStop, RespCancel,
                 RespHandle, RespFinal, DnldFail, DnldNoResp, DnldArm
    <3>. QED  BY <3>1
  <2>. QED  BY <2>1, <2>2, <2>3, <2>4
<1>2. CASE Outside
  <2>1. curr_cmd' \in {curr_cmd, NoNode}
        BY <1>2 DEF Outside, RequestCheck, Request, RequestFail, RequestNoNode, GiveUp,
               PrepareInternal, InternalNoNode, NoFreeNode, ProcessHang, CancelAll, CancelBss,
               TimerStep, CmdTimeout, DbgDump, HangWork, FwTake, FwAnswer, vars, queues
  <2>. QED  BY <1>2, <2>1, OutsideLeaves DEF mainOwn
<1>. QED  BY <1>1, <1>2, Sides

\* Every way a node takes from queue to queue.
LEMMA NodesStep ==
    ASSUME Held, NodesPlaced, Downloading, [Next]_vars
    PROVE  NodesPlaced'
<1>1. ASSUME UNCHANGED <<cmd_free_q, cmd_pending_q, curr_cmd, InHand>>
      PROVE  NodesPlaced'
      BY <1>1 DEF NodesPlaced, Current
<1>2. ASSUME UNCHANGED queues, mainAt # "curr", mainAt' # "curr"
      PROVE  NodesPlaced'
      BY <1>1, <1>2 DEF queues, InHand
<1>3. ASSUME FreeNodes(Current), curr_cmd' = NoNode, UNCHANGED cmd_pending_q,
             mainAt # "curr", mainAt' # "curr"
      PROVE  NodesPlaced'
      BY <1>3, NoneAssumption DEF FreeNodes, NodesPlaced, Current, InHand, Held
<1>4. CASE MainStep
  <2>1. CASE ExecNext
    <3>1. CASE UNCHANGED <<cmd_pending_q, pcmd_node>> /\ mainAt' = "loop"
          BY <1>1, <2>1, <3>1 DEF ExecNext, InHand
    <3>2. CASE curr_cmd = NoNode /\ \E n \in cmd_pending_q :
                  pcmd_node' = n /\ cmd_pending_q' = cmd_pending_q \ {n}
      <4>1. PICK n \in cmd_pending_q : pcmd_node' = n /\ cmd_pending_q' = cmd_pending_q \ {n}
            BY <3>2
      <4>. QED  BY <2>1, <3>2, <4>1, NoneAssumption
                DEF ExecNext, NodesPlaced, Current, InHand, Held
    <3>. QED  BY <2>1, <3>1, <3>2 DEF ExecNext
  <2>2. CASE DnldCurr
        BY <2>2, NoneAssumption DEF DnldCurr, NodesPlaced, Current, InHand, Held, Downloading
  <2>3. CASE RespCancel \/ \E ok \in BOOLEAN : RespFinal(ok)
        BY <1>2, <1>3, <2>3 DEF RespCancel, RespFinal
  <2>4. CASE DnldFail \/ DnldNoResp
        BY <1>1, <1>3, <2>4 DEF DnldFail, DnldNoResp, InHand
  <2>5. CASE \/ MainStart \/ MainInt \/ MainBody \/ RespRead \/ RespStop \/ RespHandle
             \/ DnldSend \/ DnldSendFails \/ DnldArm
    <3>1. UNCHANGED <<cmd_free_q, cmd_pending_q, curr_cmd>> /\ mainAt # "curr" /\ mainAt' # "curr"
          BY <2>5 DEF MainStart, MainInt, MainBody, RespRead, RespStop, RespHandle, DnldSend,
                 DnldSendFails, DnldArm, queues
    <3>. QED  BY <1>1, <3>1 DEF InHand
  <2>. QED  BY <1>4, <2>1, <2>2, <2>3, <2>4, <2>5 DEF MainStep
<1>5. CASE Outside
  <2>1. UNCHANGED <<InHand, mainAt>>
        BY <1>5, OutsideLeaves DEF InHand, mainOwn
  <2>2. ASSUME NEW no, NEW r, Prepare(no, r), UNCHANGED curr_cmd
        PROVE  NodesPlaced'
    <3>1. PICK n \in cmd_free_q : /\ cmd_free_q' = cmd_free_q \ {n}
                                  /\ cmd_pending_q' = cmd_pending_q \cup {n}
          BY <2>2 DEF Prepare
    <3>. QED  BY <2>1, <2>2, <3>1 DEF NodesPlaced, Current
  <2>3. ASSUME NEW at, ProcessHang(at)
        PROVE  NodesPlaced'
    <3>1. CASE CancelAll(at)
      <4>1. /\ cmd_pending_q' = {} /\ curr_cmd' = NoNode
            /\ cmd_free_q' = cmd_free_q \cup Current \cup cmd_pending_q
            BY <3>1 DEF CancelAll, FreeNodes
      <4>2. Current' = {}
            BY <4>1 DEF Current
      <4>3. InHand \cap Current = {}
            BY DEF NodesPlaced, Current
      <4>4. NoNode \notin cmd_free_q' \cup InHand
            BY <4>1, NoneAssumption, CurrentNode DEF NodesPlaced
      <4>. QED  BY <2>1, <4>1, <4>2, <4>3, <4>4 DEF NodesPlaced
    <3>2. CASE UNCHANGED queues
          BY <1>1, <2>1, <3>2 DEF queues
    <3>. QED  BY <2>3, <3>1, <3>2 DEF ProcessHang
  <2>4. ASSUME NEW b \in Bsses, CancelBss(b)
        PROVE  NodesPlaced'
    <3>1. PICK gone \in SUBSET cmd_pending_q :
                  /\ cmd_pending_q' = cmd_pending_q \ gone
                  /\ cmd_free_q' = cmd_free_q \cup gone
                  /\ curr_cmd' = curr_cmd
      <4>1. OfBss(b, cmd_pending_q) \in SUBSET cmd_pending_q
            BY DEF OfBss
      <4>. QED  BY <2>4, <4>1 DEF CancelBss
    <3>. QED  BY <2>1, <3>1 DEF NodesPlaced, Current
  <2>5. ASSUME UNCHANGED <<cmd_free_q, cmd_pending_q, curr_cmd>>
        PROVE  NodesPlaced'
        BY <1>1, <2>1, <2>5
  <2>. QED  BY <1>5, <2>2, <2>3, <2>4, <2>5
            DEF Outside, RequestCheck, Request, RequestFail, RequestNoNode, GiveUp,
                PrepareInternal, InternalNoNode, NoFreeNode, TimerStep, CmdTimeout, DbgDump,
                HangWork, FwTake, FwAnswer, vars, queues
<1>. QED  BY <1>4, <1>5, Sides

-----------------------------------------------------------------------------
(* The command in flight *)

LEMMA UploadStep ==
    ASSUME Card, UploadSaid, [Next]_vars
    PROVE  UploadSaid'
<1>. USE DEF UploadSaid, cardVars
<1>1. CASE MainInt
      BY <1>1 DEF MainInt
<1>2. CASE FwTake
      BY <1>2 DEF FwTake
<1>3. CASE FwAnswer
      BY <1>3, NoCmdAssumption DEF FwAnswer, Card
<1>4. CASE MainStep /\ ~MainInt
  <2>1. UNCHANGED <<sdio_ireg, upld>>
        BY <1>4 DEF MainStep, MainStart, MainBody, RespRead, RespStop, RespCancel, RespHandle,
               RespFinal, ExecNext, DnldCurr, DnldSend, DnldSendFails, DnldFail, DnldNoResp, DnldArm
  <2>. QED  BY <2>1
<1>5. CASE Outside /\ ~FwTake /\ ~FwAnswer
  <2>1. UNCHANGED cardVars
        BY <1>5 DEF Outside, RequestCheck, Request, RequestFail, RequestNoNode, GiveUp,
               PrepareInternal, InternalNoNode, CancelBss, TimerStep, CmdTimeout, DbgDump,
               HangWork, vars
  <2>. QED  BY <2>1
<1>. QED  BY <1>1, <1>2, <1>3, <1>4, <1>5, Sides

\* Until a hang, those outside change neither which command is current nor what
\* it is and what was received for it.
LEMMA OutsideKeepsCurrent ==
    ASSUME TypeOK, CmdInv, Outside, ~driver_status'
    PROVE  /\ ~driver_status /\ curr_cmd' = curr_cmd
           /\ curr_cmd # NoNode =>
                 ctl'[curr_cmd].cmd = ctl[curr_cmd].cmd /\ ctl'[curr_cmd].resp = ctl[curr_cmd].resp
<1>1. ASSUME NEW no, NEW r, Prepare(no, r)
      PROVE  curr_cmd # NoNode => ctl'[curr_cmd] = ctl[curr_cmd]
      BY <1>1, CurrentNode DEF Prepare, TypeOK, CmdInv, Held, NodesPlaced
<1>2. ASSUME NEW b \in Bsses, CancelBss(b), curr_cmd # NoNode
      PROVE  ctl'[curr_cmd].cmd = ctl[curr_cmd].cmd /\ ctl'[curr_cmd].resp = ctl[curr_cmd].resp
  <2>1. curr_cmd \in Nodes /\ curr_cmd \notin OfBss(b, cmd_pending_q)
        BY <1>2, CurrentNode DEF TypeOK, CmdInv, NodesPlaced, OfBss
  <2>2. ctl'[curr_cmd] \in {Orphan(ctl[curr_cmd]), ctl[curr_cmd]}
        BY <1>2, <2>1 DEF CancelBss
  <2>. QED  BY <2>1, <2>2, OrphanTyped DEF TypeOK, Held
<1>3. ASSUME NEW at
      PROVE  ~ProcessHang(at)
      BY Zenon DEF ProcessHang
<1>4. driver_status' = driver_status /\ curr_cmd' = curr_cmd
      BY <1>3 DEF Outside, RequestCheck, Request, RequestFail, RequestNoNode, GiveUp,
             PrepareInternal, InternalNoNode, NoFreeNode, CancelBss, TimerStep, CmdTimeout,
             DbgDump, HangWork, FwTake, FwAnswer, vars, queues, glue
<1>5. \/ UNCHANGED ctl
      \/ \E no, r : Prepare(no, r)
      \/ \E b \in Bsses : CancelBss(b)
      BY <1>3 DEF Outside, RequestCheck, Request, RequestFail, RequestNoNode, GiveUp,
             PrepareInternal, InternalNoNode, NoFreeNode, TimerStep, CmdTimeout, DbgDump,
             HangWork, FwTake, FwAnswer, vars, queues
<1>. QED  BY <1>1, <1>2, <1>4, <1>5

\* OneInFlight in parts: what is in flight, what is being sent, what was received.
Flying ==
    /\ port # NoCmd /\ port.no \notin NoResp => InFlight(port) /\ taken = {} /\ upld = NoCmd
    /\ \A c \in taken : InFlight(c) /\ upld = NoCmd
    /\ upld # NoCmd => InFlight(upld) /\ taken = {}
    /\ \A c, d \in taken : c = d
Sending == mainAt \in {"send", "fail", "arm"} => curr_cmd = pcmd_node /\ dnld = ctl[curr_cmd].cmd
Received ==
    mainAt \in {"read", "stop", "cancel", "handle", "final"} =>
        curr_cmd # NoNode /\ ctl[curr_cmd].resp = ctl[curr_cmd].cmd

\* Nothing is in flight.
Quiet == (port # NoCmd => port.no \in NoResp) /\ taken = {} /\ upld = NoCmd

LEMMA FlightParts == OneInFlight <=> (~driver_status => Flying /\ Sending /\ Received)
  BY DEF OneInFlight, Flying, Sending, Received

LEMMA QuietFlies == Quiet => Flying
  BY DEF Quiet, Flying

\* Where there is no current command, or it is on its way to the card or has been
\* answered, nothing is in flight.
LEMMA NothingFlies ==
    ASSUME Flying, curr_cmd = NoNode \/ mainAt \notin {"idle", "loop", "body", "next", "arm"}
    PROVE  Quiet
  BY DEF Flying, InFlight, Quiet

\* What is in flight stays there while neither it nor the main process's place
\* says otherwise.
LEMMA StillFlies ==
    ASSUME Flying, UNCHANGED <<port, taken, upld>>, curr_cmd' = curr_cmd,
           curr_cmd # NoNode => ctl'[curr_cmd].cmd = ctl[curr_cmd].cmd,
           mainAt' \in {"idle", "loop", "body", "next", "arm"} \/ mainAt' = mainAt
    PROVE  Flying'
  BY DEF Flying, InFlight

\* The main process before and after a response.
LEMMA FlightInt ==
    ASSUME TypeOK, CmdInv, Flying, MainInt
    PROVE  Flying' /\ Sending' /\ Received'
<1>1. CASE "resp" \in sdio_ireg /\ curr_cmd # NoNode
  <2>1. upld # NoCmd
        BY <1>1 DEF CmdInv, UploadSaid
  <2>2. ctl[curr_cmd].cmd = upld /\ taken = {} /\ (port # NoCmd => port.no \in NoResp)
        BY <2>1 DEF Flying, InFlight
  <2>3. mainAt' = "read" /\ curr_cmd' = curr_cmd /\ UNCHANGED <<port, taken>> /\ upld' = NoCmd
        BY <1>1 DEF MainInt
  <2>4. Received'
        BY <1>1, <2>2, <2>3, RespStored DEF Received, TypeOK
  <2>5. Quiet'
        BY <2>2, <2>3 DEF Quiet
  <2>. QED  BY <2>3, <2>4, <2>5, QuietFlies DEF Sending, Quiet, Flying
<1>2. CASE ~("resp" \in sdio_ireg /\ curr_cmd # NoNode)
  <2>1. upld = NoCmd \/ curr_cmd = NoNode
        BY <1>2 DEF CmdInv, UploadSaid
  <2>2. upld = NoCmd
        BY <2>1 DEF Flying, InFlight
  <2>3. mainAt' = "body" /\ UNCHANGED <<curr_cmd, ctl, port, taken, upld>>
        BY <1>2, <2>2 DEF MainInt
  <2>. QED  BY <2>3, StillFlies DEF Sending, Received
<1>. QED  BY <1>1, <1>2

LEMMA FlightMain ==
    ASSUME TypeOK, CmdInv, Flying, Sending, Received, MainStep
    PROVE  Flying' /\ Sending' /\ Received'
<1>1. ASSUME Quiet, UNCHANGED <<port, taken, upld>>
      PROVE  Flying'
      BY <1>1 DEF Quiet, Flying
<1>2. CASE MainInt
      BY <1>2, FlightInt
<1>3. CASE MainStart \/ MainBody
  <2>1. /\ UNCHANGED <<queues, port, taken, upld>>
        /\ mainAt' \in {"loop", "idle", "next"}
        BY <1>3 DEF MainStart, MainBody, cardVars
  <2>. QED  BY <2>1, StillFlies DEF queues, Sending, Received
<1>4. CASE RespRead \/ RespStop \/ RespHandle
  <2>1. /\ mainAt \in {"read", "stop", "handle"} /\ UNCHANGED <<queues, port, taken, upld>>
        /\ mainAt' \in {"stop", "next", "cancel", "oops", "final"}
        BY <1>4 DEF RespRead, RespStop, RespHandle, cardVars
  <2>. QED  BY <1>1, <2>1, NothingFlies DEF queues, Sending, Received
<1>5. CASE RespCancel \/ \E ok \in BOOLEAN : RespFinal(ok)
  <2>1. /\ mainAt \in {"cancel", "final"} /\ UNCHANGED <<port, taken, upld>>
        /\ mainAt' \in {"oops", "next", "handle"}
        /\ mainAt' = "handle" => mainAt = "cancel" /\ UNCHANGED queues
        BY <1>5 DEF RespCancel, RespFinal, cardVars
  <2>. QED  BY <1>1, <2>1, NothingFlies DEF queues, Sending, Received
<1>6. CASE ExecNext
  <2>1. /\ UNCHANGED <<curr_cmd, ctl, port, taken, upld>>
        /\ mainAt' = "loop" \/ (mainAt' = "curr" /\ curr_cmd = NoNode)
        BY <1>6 DEF ExecNext, cardVars
  <2>. QED  BY <1>1, <2>1, NothingFlies, StillFlies DEF Sending, Received
<1>7. CASE DnldCurr \/ DnldSendFails
  <2>1. /\ mainAt \in {"curr", "send"} /\ UNCHANGED <<port, taken, upld>>
        /\ mainAt' \in {"send", "fail"}
        BY <1>7 DEF DnldCurr, DnldSendFails, cardVars
  <2>2. curr_cmd' = pcmd_node' /\ dnld' = ctl'[curr_cmd'].cmd
        BY <1>7 DEF DnldCurr, DnldSendFails, queues, mainOwn, Sending
  <2>. QED  BY <1>1, <2>1, <2>2, NothingFlies DEF Sending, Received
<1>8. CASE DnldSend
  <2>1. mainAt = "send" /\ mainAt' = "arm" /\ UNCHANGED <<queues, mainOwn, taken, upld>>
        BY <1>8 DEF DnldSend
  <2>2. Quiet /\ curr_cmd = pcmd_node /\ pcmd_node \in Nodes
        BY <2>1, NothingFlies DEF Sending, CmdInv, Downloading
  <2>3. curr_cmd \notin cmd_free_q /\ curr_cmd # NoNode
        BY <2>2, NoneAssumption DEF CmdInv, NodesPlaced
  <2>4. ctl[pcmd_node].cmd \in Cmds
        BY <2>2, <2>3 DEF CmdInv, CleanWhenFree
  <2>5. port' = ctl[curr_cmd].cmd
        BY <1>8, <2>2, <2>4, NoCmdAssumption DEF DnldSend
  <2>6. Flying'
        BY <2>1, <2>2, <2>3, <2>5 DEF Flying, InFlight, Quiet, queues
  <2>. QED  BY <2>1, <2>6 DEF Sending, Received, queues, mainOwn
<1>9. CASE DnldFail
  <2>1. mainAt = "fail" /\ mainAt' = "idle" /\ UNCHANGED <<port, taken, upld>>
        BY <1>9 DEF DnldFail, cardVars
  <2>. QED  BY <1>1, <2>1, NothingFlies DEF Sending, Received
<1>10. CASE DnldNoResp
  <2>1. mainAt = "arm" /\ mainAt' = "loop" /\ dnld.no \in NoResp /\ UNCHANGED <<port, taken, upld>>
        BY <1>10 DEF DnldNoResp, cardVars
  <2>2. ctl[curr_cmd].cmd.no \in NoResp
        BY <2>1 DEF Sending
  <2>3. Quiet
        BY <2>2 DEF Flying, InFlight, Quiet
  <2>. QED  BY <1>1, <2>1, <2>3 DEF Sending, Received
<1>11. CASE DnldArm
  <2>1. mainAt' = "loop" /\ UNCHANGED <<queues, port, taken, upld>>
        BY <1>11 DEF DnldArm, cardVars
  <2>. QED  BY <2>1, StillFlies DEF Sending, Received, queues
<1>. QED  BY <1>2, <1>3, <1>4, <1>5, <1>6, <1>7, <1>8, <1>9, <1>10, <1>11 DEF MainStep

LEMMA FlightStep ==
    ASSUME TypeOK, CmdInv, [Next]_vars
    PROVE  OneInFlight'
<1>1. SUFFICES ASSUME ~driver_status'
               PROVE  Flying' /\ Sending' /\ Received'
      BY FlightParts DEF OneInFlight, Flying, Sending, Received
<1>2. CASE MainStep
  <2>1. driver_status' = driver_status
        BY <1>2 DEF MainStep, MainStart, MainInt, MainBody, RespRead, RespStop, RespCancel,
               RespHandle, RespFinal, ExecNext, DnldCurr, DnldSend, DnldSendFails, DnldFail,
               DnldNoResp, DnldArm, glue
  <2>2. Flying /\ Sending /\ Received
        BY <1>1, <2>1, FlightParts DEF CmdInv
  <2>. QED  BY <1>2, <2>2, FlightMain
<1>3. CASE Outside
  <2>1. /\ ~driver_status /\ curr_cmd' = curr_cmd
        /\ curr_cmd # NoNode =>
              ctl'[curr_cmd].cmd = ctl[curr_cmd].cmd /\ ctl'[curr_cmd].resp = ctl[curr_cmd].resp
        BY <1>1, <1>3, OutsideKeepsCurrent
  <2>2. Flying /\ Sending /\ Received
        BY <2>1, FlightParts DEF CmdInv
  <2>3. mainAt' = mainAt /\ pcmd_node' = pcmd_node /\ dnld' = dnld
        BY <1>3, OutsideLeaves DEF mainOwn
  <2>4. Sending' /\ Received'
    <3>1. mainAt \in {"send", "fail", "arm"} => curr_cmd # NoNode
          BY <2>2, NoneAssumption DEF Sending, CmdInv, Downloading
    <3>. QED  BY <2>1, <2>2, <2>3, <3>1 DEF Sending, Received
  <2>5. CASE FwTake
        BY <2>1, <2>2, <2>3, <2>4, <2>5 DEF FwTake, Flying, InFlight
  <2>6. CASE FwAnswer
        BY <2>1, <2>2, <2>3, <2>4, <2>6 DEF FwAnswer, Flying, InFlight
  <2>7. CASE ~FwTake /\ ~FwAnswer
    <3>1. UNCHANGED <<port, taken, upld>>
          BY <1>3, <2>7 DEF Outside, RequestCheck, Request, RequestFail, RequestNoNode, GiveUp,
                 PrepareInternal, InternalNoNode, CancelBss, TimerStep, CmdTimeout, DbgDump,
                 HangWork, vars, cardVars
    <3>2. Flying'
          BY <2>1, <2>2, <2>3, <3>1, StillFlies
    <3>. QED  BY <2>4, <3>2
  <2>. QED  BY <2>4, <2>5, <2>6, <2>7
<1>. QED  BY <1>2, <1>3, Sides

-----------------------------------------------------------------------------
(* The theorems *)

\* Type correctness and the inductive invariant, whatever the requests, the
\* firmware, the timer and the removal of interfaces do in whatever order.
THEOREM CmdInvHolds == Spec => [](TypeOK /\ CmdInv)
<1>1. Init => TypeOK /\ CmdInv
  <2>1. Init => TypeOK
        BY TypeInit
  <2>2. Init => NodesPlaced /\ Downloading /\ UploadSaid /\ CleanWhenFree
        BY NoneAssumption
        DEF Init, NodesPlaced, Current, InHand, Downloading, UploadSaid, CleanWhenFree
  <2>3. Init => CompletedOnce
        BY NoneAssumption DEF Init, CompletedOnce, CleanCtl
  <2>4. Init => OneInFlight
        BY DEF Init, OneInFlight
  <2>. QED  BY <2>1, <2>2, <2>3, <2>4 DEF CmdInv
<1>2. TypeOK /\ CmdInv /\ [Next]_vars => (TypeOK /\ CmdInv)'
  <2>. SUFFICES ASSUME TypeOK, CmdInv, [Next]_vars
                PROVE  TypeOK' /\ CmdInv'
       OBVIOUS
  <2>1. TypeOK'
        BY FlagsStep, HeldStep, PlacesStep, CardStep, CountersStep DEF TypeOK, CmdInv
  <2>2. CompletedOnce' /\ CleanWhenFree'
        BY RequestsStep DEF TypeOK, CmdInv
  <2>3. NodesPlaced' /\ Downloading' /\ UploadSaid'
        BY NodesStep, DownloadingStep, UploadStep DEF TypeOK, CmdInv
  <2>4. OneInFlight'
        BY FlightStep
  <2>. QED  BY <2>1, <2>2, <2>3, <2>4 DEF CmdInv
<1>. QED  BY <1>1, <1>2, PTL DEF Spec

\* The type invariant, and with it that no request is completed when it has been
\* completed and freed already.
THEOREM CmdTyped == Spec => []TypeOK
  BY CmdInvHolds, PTL

\* No command node is lost or in two places.
THEOREM NodesPlacedHolds == Spec => []NodesPlaced
<1>1. CmdInv => NodesPlaced
      BY DEF CmdInv
<1>. QED  BY <1>1, CmdInvHolds, PTL

\* Every request that waits rides on exactly one command, and no other does.
THEOREM CompletedOnceHolds == Spec => []CompletedOnce
<1>1. CmdInv => CompletedOnce
      BY DEF CmdInv
<1>. QED  BY <1>1, CmdInvHolds, PTL

\* Until a hang a response is handled with the command it answers, although its
\* sequence number is not looked at.
THEOREM RespOfCurrentHolds == Spec => []RespOfCurrent
<1>1. CmdInv => RespOfCurrent
      BY DEF CmdInv, OneInFlight, RespOfCurrent, InResp
<1>. QED  BY <1>1, CmdInvHolds, PTL
=============================================================================
