------------------------------ MODULE LibTeam -------------------------------
(***************************************************************************)
(* A libteam context (struct team_handle of src/lib/libteam.c) together   *)
(* with the kernel it talks to.                                            *)
(*                                                                         *)
(* The library is one thread of control (spec 5): pc says whether it is   *)
(* between API calls ("alloc" before team_init, "idle" after it), inside  *)
(* the receive loop of send_and_recv ("req"), or inside the loop of        *)
(* team_check_events ("drain").  The command socket nl_sock is a request  *)
(* slot read by the kernel and a queue of replies; the event socket        *)
(* nl_sock_event is a queue of multicast messages, delivered only once     *)
(* team_init has joined the change-event group, for every team device.    *)
(*                                                                         *)
(* The kernel keeps the team devices, the owner and link state of every   *)
(* port and the option values of every team, changes them on its own     *)
(* (ports enslaved, released, links going up or down, options set by      *)
(* other processes) and multicasts the full port or option list of the    *)
(* team concerned after each change.                                       *)
(***************************************************************************)
EXTENDS Integers, TeamDispatcher, TeamCodec

CONSTANTS
    OurTeam,         \* ifindex of the team device passed to team_init
    OtherTeam,       \* another team device on the same host
    PortOrder,       \* the ports' ifindexes, in the kernel's list order
    OptOrder,        \* option names the team mode exposes, in the kernel's order
    OptType,         \* the netlink type of each option
    InitOutcomes,    \* how far team_init may get (see TeamInit)
    MaxKernelSteps,  \* bound on the kernel's own changes
    MaxSets,         \* bound on team_set_option_value_by_name_* calls
    EvCap,           \* messages the event socket buffers before it overruns
    LossBudget       \* replies on nl_sock the kernel may fail to deliver

Teams == {OurTeam, OtherTeam}
PortIdx == ListNodes(PortOrder)
OptNames == ListNodes(OptOrder)

ASSUME LibTeamAssumption ==
    /\ OurTeam \in Nat \ {0} /\ OtherTeam \in Nat \ {0} /\ OurTeam # OtherTeam
    /\ PortOrder \in Seq(Nat \ {0}) /\ PortIdx \cap Teams = {}
    /\ OptOrder \in Seq(STRING)
    /\ OptType \in [OptNames -> {NLA_U32, NLA_STRING}]
    /\ OptVals # {}
    /\ InitOutcomes \subseteq {"ok", "connect_fail", "family_fail", "group_fail", "send_fail",
                              "options_fail"}
    /\ {MaxKernelSteps, MaxSets, EvCap, LossBudget} \subseteq Nat

(* errno values the kernel answers with: a message of an unknown family,  *)
(* and a team that does not exist or an option item it rejects.           *)
EOPNOTSUPP == 95
EINVAL == 22

(* An empty request slot.                                                  *)
NoReq == [cmd |-> "none", team |-> 0, resolved |-> FALSE,
          name |-> NoAttr, type |-> NoAttr, data |-> NoAttr]

VARIABLES
    ifindex,      \* th->ifindex
    pc,           \* where the library thread is
    inited,       \* what team_init returned: "no" (not called), "ok", "failed"
    stage,        \* how far team_init set the sockets up: "none", "connected"
                  \* (genl_connect done), "resolved" (family resolved),
                  \* "ready" (group joined, callbacks set)
    cont,         \* the call send_and_recv returns to: "ports", "options", "set"
    nl_sock_err,  \* th->nl_sock_err
    port_list,    \* th->port_list
    option_list,  \* th->option_list
    cmdReq,       \* the request on nl_sock not yet read by the kernel
    cmdQ,         \* replies queued on nl_sock
    evQ,          \* messages queued on nl_sock_event
    evOverrun,    \* nl_sock_event's pending error: ENOBUFS after an overrun
    kTeams,       \* team devices that exist
    kOwner,       \* the team each port is enslaved to, 0 for none
    kUp,          \* link state of each port
    kOpt,         \* option values of each team
    ksteps,       \* kernel changes so far
    nsets,        \* option set calls so far
    lost,         \* replies lost so far
    portHist,     \* ghost: every port state our team has had
    optHist,      \* ghost: every option state our team has had
    initCalls     \* ghost: calls of each handler by the current team_init

libvars == <<ifindex, pc, inited, stage, cont, nl_sock_err, port_list, option_list>>
chanvars == <<cmdReq, cmdQ, evQ, evOverrun>>
kvars == <<kTeams, kOwner, kUp, kOpt, ksteps, nsets, lost>>
ghostvars == <<portHist, optHist, initCalls>>
vars == <<libvars, chanvars, kvars, ghostvars, dvars>>

-----------------------------------------------------------------------------
(* What the kernel puts on the wire.                                       *)

(* The ports of team t, as ifindex -> link state.                          *)
PortState(t, own, up) == [p \in {q \in PortIdx : own[q] = t} |-> up[p]]

(* A port list message of team t; port ch (or none) is flagged changed.    *)
(* Speed and duplex are not reported: no property tells them apart.       *)
PortListMsg(t, ch, own, up) ==
    [cmd  |-> TEAM_CMD_PORT_LIST_GET, team |-> t,
     list |-> LET ps == SelectSeq(PortOrder, LAMBDA p : own[p] = t)
              IN [i \in DOMAIN ps |->
                    [ifindex |-> ps[i], speed |-> NoAttr, duplex |-> NoAttr,
                     linkup |-> up[ps[i]], changed |-> ps[i] = ch]]]

(* An option list message of team t; option ch (or none) flagged changed. *)
OptionListMsg(t, ch, opt) ==
    [cmd  |-> TEAM_CMD_OPTIONS_GET, team |-> t,
     list |-> [i \in DOMAIN OptOrder |->
                 [name |-> OptOrder[i], type |-> OptType[OptOrder[i]],
                  data |-> opt[t][OptOrder[i]], changed |-> OptOrder[i] = ch]]]

(* The kernel multicasts m to the change-event group; the event socket    *)
(* has it once team_init joined the group.  When its buffer is full the   *)
(* message is dropped and the socket's error becomes ENOBUFS, which the   *)
(* next recvmsg on it reports before any queued message.                  *)
Emit(m) ==
    /\ evQ' = IF stage = "ready" /\ Len(evQ) < EvCap THEN Append(evQ, m) ELSE evQ
    /\ evOverrun' = (evOverrun \/ (stage = "ready" /\ Len(evQ) >= EvCap))

(* Record our team's state after a kernel step.                            *)
RecordHistory(own, up, opt) ==
    /\ portHist' = portHist \cup {PortState(OurTeam, own, up)}
    /\ optHist' = optHist \cup {opt[OurTeam]}

-----------------------------------------------------------------------------
(* Library side.                                                           *)

(* The registries after a callback result r for registry reg: "replace"   *)
(* flushes the old list and moves the new one in, then marks the type     *)
(* pending (set_call_change_handlers).                                     *)
ChangeOf(reg) == IF reg = "ports" THEN TEAM_PORT_CHANGE ELSE TEAM_OPTION_CHANGE

ApplyResult(reg, r) ==
    /\ port_list' = IF r.act = "replace" /\ reg = "ports" THEN r.list ELSE port_list
    /\ option_list' = IF r.act = "replace" /\ reg = "options" THEN r.list ELSE option_list

Changes(reg, r) == IF r.act = "replace" THEN {ChangeOf(reg)} ELSE {}

(* Mutant: the request is sent and the call returns without reading its *)
(* reply (no receive loop).                                                 *)
SendAndRecvNoWait(req, c) ==
    /\ cmdReq' = req
    /\ nl_sock_err' = 0
    /\ cont' = c
    /\ pc' = "idle"

(* send_and_recv up to its loop: the message goes out, nl_sock_err = 1.    *)
(* A request on a socket team_init did not connect fails to send.         *)
SendAndRecv(req, c) ==
    /\ cmdReq' = req
    /\ nl_sock_err' = 1
    /\ cont' = c
    /\ pc' = "req"

(* A request of command cmd for our team, whether the family it was sent  *)
(* to was resolved, and the option item of a set.                          *)
Req(cmd, n, t, v) ==
    [cmd |-> cmd, team |-> ifindex, resolved |-> stage \in {"resolved", "ready"},
     name |-> n, type |-> t, data |-> v]
GetReq(cmd) == Req(cmd, NoAttr, NoAttr, NoAttr)

(* team_init.  ifindex is set first; then, depending on the outcome:      *)
(* genl_connect fails ("connect_fail"); resolving the family fails       *)
(* ("family_fail": requests go to an unresolved family); resolving the   *)
(* group or joining it fails ("group_fail": the family is resolved, no   *)
(* callback installed); get_port_list fails before its request leaves    *)
(* ("send_fail"); or get_port_list is sent ("ok").  Whether get_options *)
(* later fails to send is "options_fail", taken in Return.                *)
TeamInit ==
    /\ pc = "alloc"
    /\ ifindex' = OurTeam
    /\ initCalls' = [h \in Handlers |-> 0]
    /\ \E o \in InitOutcomes :
          \/ /\ o = "connect_fail"
             /\ stage' = "none" /\ inited' = "failed" /\ pc' = "idle"
             /\ UNCHANGED <<cont, nl_sock_err, cmdReq>>
          \/ /\ o = "family_fail"
             /\ stage' = "connected" /\ inited' = "failed" /\ pc' = "idle"
             /\ UNCHANGED <<cont, nl_sock_err, cmdReq>>
          \/ /\ o = "group_fail"
             /\ stage' = "resolved" /\ inited' = "failed" /\ pc' = "idle"
             /\ UNCHANGED <<cont, nl_sock_err, cmdReq>>
          \/ /\ o = "send_fail"
             /\ stage' = "ready" /\ inited' = "failed" /\ pc' = "idle"
             /\ UNCHANGED <<cont, nl_sock_err, cmdReq>>
          \/ /\ o = "ok"
             /\ stage' = "ready" /\ inited' = "no"
             /\ cmdReq' = [NoReq EXCEPT !.cmd = TEAM_CMD_PORT_LIST_GET,
                                        !.team = OurTeam, !.resolved = TRUE]
             /\ nl_sock_err' = 1 /\ cont' = "ports" /\ pc' = "req"
    /\ UNCHANGED <<port_list, option_list, cmdQ, evQ, evOverrun, kvars, portHist, optHist, dvars>>

(* One nl_recvmsgs_default on nl_sock that reads a valid message: the      *)
(* custom valid callback installed by the request in progress runs.       *)
RecvValid ==
    /\ pc = "req" /\ nl_sock_err > 0
    /\ cmdQ # <<>> /\ Head(cmdQ).kind = "valid"
    /\ cmdQ' = Tail(cmdQ)
    /\ LET r == IF cont = "ports" THEN GetPortListHandler(Head(cmdQ).msg, ifindex, 0)
                ELSE GetOptionsHandler(Head(cmdQ).msg, ifindex, 0)
       IN /\ ApplyResult(cont, r)
          /\ SetCallChangeHandlers(Changes(cont, r))
    /\ UNCHANGED <<ifindex, pc, inited, stage, cont, nl_sock_err, cmdReq, evQ, evOverrun,
                   kvars, ghostvars>>

(* Count the handlers a settle of m calls during team_init.               *)
CountInitCalls(m) ==
    initCalls' = [h \in Handlers |->
                     IF h \in Called(pending, m) THEN initCalls[h] + 1 ELSE initCalls[h]]

(* get_options fails before its request leaves: nlmsg_alloc, NLA_PUT_U32 *)
(* or nl_send_auto_complete fails, and team_init returns the error.       *)
GetOptionsSendFails ==
    /\ "options_fail" \in InitOutcomes
    /\ nl_sock_err' = 0 /\ pc' = "idle" /\ inited' = "failed"
    /\ UNCHANGED <<cont, cmdReq>>

(* The end of send_and_recv with err, and the rest of the call it is in:  *)
(* get_port_list settles port changes and team_init goes on with          *)
(* get_options; get_options settles option changes and team_init returns. *)
Return(err) ==
    CASE cont = "ports" /\ err = 0 ->
            /\ Settle(pending, ver, {TEAM_PORT_CHANGE})
            /\ CountInitCalls({TEAM_PORT_CHANGE})
            /\ \/ SendAndRecv(GetReq(TEAM_CMD_OPTIONS_GET), "options")
                  /\ UNCHANGED inited
               \/ GetOptionsSendFails
            /\ UNCHANGED <<handlers, ver>>
      [] cont = "options" /\ err = 0 ->
            /\ Settle(pending, ver, {TEAM_OPTION_CHANGE})
            /\ CountInitCalls({TEAM_OPTION_CHANGE})
            /\ nl_sock_err' = err /\ pc' = "idle" /\ inited' = "ok"
            /\ UNCHANGED <<cont, cmdReq, handlers, ver>>
      [] cont \in {"ports", "options"} /\ err # 0 ->
            /\ nl_sock_err' = err /\ pc' = "idle" /\ inited' = "failed"
            /\ UNCHANGED <<cont, cmdReq, dvars, initCalls>>
      [] OTHER ->
            /\ nl_sock_err' = err /\ pc' = "idle"
            /\ UNCHANGED <<inited, cont, cmdReq, dvars, initCalls>>

(* Mutant: ack_handler returns NL_STOP without clearing the error.          *)
RecvAckKeepErr ==
    /\ pc = "req" /\ nl_sock_err > 0
    /\ cmdQ # <<>> /\ Head(cmdQ).kind = "ack"
    /\ cmdQ' = Tail(cmdQ)
    /\ UNCHANGED <<pc, inited, cont, nl_sock_err, cmdReq, dvars, initCalls>>
    /\ UNCHANGED <<ifindex, stage, port_list, option_list, evQ, evOverrun, kvars, portHist, optHist>>

(* nl_recvmsgs_default reads the ACK: ack_handler sets nl_sock_err to 0,   *)
(* when team_init got as far as installing it; otherwise libnl's default  *)
(* handling leaves nl_sock_err at 1 and the loop reads again.             *)
RecvAck ==
    /\ pc = "req" /\ nl_sock_err > 0
    /\ cmdQ # <<>> /\ Head(cmdQ).kind = "ack"
    /\ cmdQ' = Tail(cmdQ)
    /\ IF stage = "ready" THEN Return(0)
       ELSE UNCHANGED <<pc, inited, cont, nl_sock_err, cmdReq, dvars, initCalls>>
    /\ UNCHANGED <<ifindex, stage, port_list, option_list, evQ, evOverrun, kvars, portHist, optHist>>

(* Mutant: error_handler stores the error with the wrong sign.             *)
RecvErrorPositive ==
    /\ pc = "req" /\ nl_sock_err > 0
    /\ cmdQ # <<>> /\ Head(cmdQ).kind = "error"
    /\ cmdQ' = Tail(cmdQ)
    /\ IF stage = "ready" THEN Return(-Head(cmdQ).err)
       ELSE UNCHANGED <<pc, inited, cont, nl_sock_err, cmdReq, dvars, initCalls>>
    /\ UNCHANGED <<ifindex, stage, port_list, option_list, evQ, evOverrun, kvars, portHist, optHist>>

(* nl_recvmsgs_default reads an error message: error_handler copies its   *)
(* error code, when installed.                                             *)
RecvError ==
    /\ pc = "req" /\ nl_sock_err > 0
    /\ cmdQ # <<>> /\ Head(cmdQ).kind = "error"
    /\ cmdQ' = Tail(cmdQ)
    /\ IF stage = "ready" THEN Return(Head(cmdQ).err)
       ELSE UNCHANGED <<pc, inited, cont, nl_sock_err, cmdReq, dvars, initCalls>>
    /\ UNCHANGED <<ifindex, stage, port_list, option_list, evQ, evOverrun, kvars, portHist, optHist>>

(* team_process_event: nl_recvmsgs_default reads the event socket, then   *)
(* every pending change is settled.  The read either fails with the       *)
(* socket's ENOBUFS, which clears it and whose return value is ignored,   *)
(* or passes one message through event_handler.  The caller only calls it *)
(* when the socket is readable (it blocks otherwise).                      *)
ReadOverrun ==
    /\ evOverrun
    /\ evOverrun' = FALSE
    /\ UNCHANGED <<evQ, port_list, option_list>>
    /\ CheckCallChangeHandlers(TEAM_ANY_CHANGE)

ReadEvent ==
    /\ ~evOverrun
    /\ evQ # <<>>
    /\ evQ' = Tail(evQ)
    /\ LET m   == Head(evQ)
           reg == IF m.cmd = TEAM_CMD_PORT_LIST_GET THEN "ports" ELSE "options"
           r   == EventHandler(m, ifindex, 0)
       IN /\ ApplyResult(reg, r)
          /\ ver' = Bump(ver, Changes(reg, r))
          /\ Settle(pending \cup Changes(reg, r), ver', TEAM_ANY_CHANGE)
    /\ UNCHANGED <<handlers, evOverrun>>

ProcessOneEvent == ReadOverrun \/ ReadEvent

TeamProcessEvent ==
    /\ pc \in {"alloc", "idle"}
    /\ ProcessOneEvent
    /\ UNCHANGED <<ifindex, pc, inited, stage, cont, nl_sock_err, cmdReq, cmdQ,
                   kvars, ghostvars>>

(* team_check_events: select with a zero timeout in a loop, processing an *)
(* event while the socket is readable.  An EINTR retries the select and  *)
(* changes nothing.                                                        *)
TeamCheckEvents ==
    /\ pc \in {"alloc", "idle"}
    /\ pc' = "drain"
    /\ UNCHANGED <<ifindex, inited, stage, cont, nl_sock_err, port_list, option_list,
                   chanvars, kvars, ghostvars, dvars>>

CheckEventsStep ==
    /\ pc = "drain"
    /\ ProcessOneEvent
    /\ UNCHANGED <<ifindex, pc, inited, stage, cont, nl_sock_err, cmdReq, cmdQ,
                   kvars, ghostvars>>

CheckEventsDone ==
    /\ pc = "drain"
    /\ evQ = <<>> /\ ~evOverrun
    /\ pc' = IF ifindex = 0 THEN "alloc" ELSE "idle"
    /\ UNCHANGED <<ifindex, inited, stage, cont, nl_sock_err, port_list, option_list,
                   chanvars, kvars, ghostvars, dvars>>

(* team_set_option_value_by_name_u32 / _string: one OPTIONS_SET item with *)
(* the type of the call; the local option list is not touched.  Sending   *)
(* on a socket team_init never connected fails at once.                    *)
TeamSetOptionValue(n, t, v) ==
    /\ pc \in {"alloc", "idle"}
    /\ nsets < MaxSets
    /\ stage # "none"
    /\ nsets' = nsets + 1
    /\ SendAndRecv(Req(TEAM_CMD_OPTIONS_SET, n, t, v), "set")
    /\ UNCHANGED <<ifindex, inited, stage, port_list, option_list, cmdQ, evQ, evOverrun,
                   kTeams, kOwner, kUp, kOpt, ksteps, lost, ghostvars, dvars>>

(* team_set_mode_name and team_set_active_port: the string "mode" and the *)
(* u32 "activeport" through team_set_option_value_by_name_*.              *)
TeamSetModeName(v) == TeamSetOptionValue("mode", NLA_STRING, v)

TeamSetActivePort(v) == TeamSetOptionValue("activeport", NLA_U32, v)

(* team_destroy: -ENODEV while th->ifindex is 0; otherwise the link is    *)
(* deleted over rtnetlink, releasing its ports.                            *)
TeamDestroy ==
    /\ pc \in {"alloc", "idle"}
    /\ ifindex # 0
    /\ ifindex \in kTeams
    /\ kTeams' = kTeams \ {ifindex}
    /\ kOwner' = [p \in PortIdx |-> IF kOwner[p] = ifindex THEN 0 ELSE kOwner[p]]
    /\ UNCHANGED <<libvars, chanvars, kUp, kOpt, ksteps, nsets, lost, ghostvars, dvars>>

(* team_change_handler_register / _unregister, between other calls.       *)
Register(h) ==
    /\ pc \in {"alloc", "idle"}
    /\ TeamChangeHandlerRegister(h)
    /\ UNCHANGED <<libvars, chanvars, kvars, ghostvars>>

Unregister(h) ==
    /\ pc \in {"alloc", "idle"}
    /\ TeamChangeHandlerUnregister(h)
    /\ UNCHANGED <<libvars, chanvars, kvars, ghostvars>>

-----------------------------------------------------------------------------
(* Kernel side.                                                            *)

(* The kernel answers with an error message.                              *)
ReplyError(e) ==
    /\ cmdQ' = Append(cmdQ, [kind |-> "error", err |-> e])
    /\ UNCHANGED <<kOpt, evQ, evOverrun, optHist>>

(* The kernel answers a get with the list message m and its ACK.          *)
ReplyList(m) ==
    /\ cmdQ' = cmdQ \o <<[kind |-> "valid", msg |-> m], [kind |-> "ack"]>>
    /\ UNCHANGED <<kOpt, evQ, evOverrun, optHist>>

(* An option set item names a known option with that option's type.       *)
ValidSet(q) == q.name \in OptNames /\ q.type = OptType[q.name]

(* The kernel stores the option, multicasts the change and ACKs.          *)
ReplySet(q) ==
    LET opt == [kOpt EXCEPT ![q.team][q.name] = q.data] IN
    /\ kOpt' = opt
    /\ Emit(OptionListMsg(q.team, q.name, opt))
    /\ cmdQ' = Append(cmdQ, [kind |-> "ack"])
    /\ optHist' = optHist \cup {opt[OurTeam]}

(* The kernel reads the request on nl_sock and queues its replies: the    *)
(* list and an ACK for a GET, an ACK for a SET it applies (and multicasts *)
(* the new option list), an error otherwise.                               *)
KernelReply ==
    /\ cmdReq.cmd # "none"
    /\ cmdReq' = NoReq
    /\ LET q == cmdReq IN
       \/ ~q.resolved /\ ReplyError(-EOPNOTSUPP)
       \/ q.resolved /\ q.team \notin kTeams /\ ReplyError(-EINVAL)
       \/ /\ q.resolved /\ q.team \in kTeams
          /\ \/ q.cmd = TEAM_CMD_PORT_LIST_GET
                /\ ReplyList(PortListMsg(q.team, 0, kOwner, kUp))
             \/ q.cmd = TEAM_CMD_OPTIONS_GET
                /\ ReplyList(OptionListMsg(q.team, NoAttr, kOpt))
             \/ q.cmd \notin {TEAM_CMD_PORT_LIST_GET, TEAM_CMD_OPTIONS_GET}
                /\ \/ ValidSet(q) /\ ReplySet(q)
                   \/ ~ValidSet(q) /\ ReplyError(-EINVAL)
    /\ UNCHANGED <<libvars, kTeams, kOwner, kUp, ksteps, nsets, lost,
                   portHist, initCalls, dvars>>

(* The kernel's answer to the request never reaches the socket (the       *)
(* receive buffer overran).                                                *)
KernelReplyLost ==
    /\ cmdReq.cmd # "none"
    /\ lost < LossBudget
    /\ cmdReq' = NoReq
    /\ lost' = lost + 1
    /\ UNCHANGED <<libvars, cmdQ, evQ, evOverrun, kTeams, kOwner, kUp, kOpt, ksteps, nsets,
                   ghostvars, dvars>>

(* A change the kernel makes on its own, then multicasts.                  *)
KernelChange(own, up, t, ch) ==
    /\ ksteps < MaxKernelSteps
    /\ ksteps' = ksteps + 1
    /\ kOwner' = own /\ kUp' = up
    /\ Emit(PortListMsg(t, ch, own, up))
    /\ RecordHistory(own, up, kOpt)
    /\ UNCHANGED <<libvars, cmdReq, cmdQ, kTeams, kOpt, nsets, lost, initCalls, dvars>>

PortAdd(p, t) ==
    /\ t \in kTeams /\ kOwner[p] = 0
    /\ KernelChange([kOwner EXCEPT ![p] = t], kUp, t, p)

PortRemove(p) ==
    /\ kOwner[p] # 0
    /\ KernelChange([kOwner EXCEPT ![p] = 0], kUp, kOwner[p], 0)

LinkChange(p) ==
    /\ kOwner[p] # 0
    /\ KernelChange(kOwner, [kUp EXCEPT ![p] = ~@], kOwner[p], p)

(* Another process sets an option of team t.                               *)
OtherSetOption(t, n, v) ==
    /\ t \in kTeams
    /\ ksteps < MaxKernelSteps
    /\ ksteps' = ksteps + 1
    /\ LET opt == [kOpt EXCEPT ![t][n] = v] IN
       /\ kOpt' = opt
       /\ Emit(OptionListMsg(t, n, opt))
       /\ RecordHistory(kOwner, kUp, opt)
    /\ UNCHANGED <<libvars, cmdReq, cmdQ, kTeams, kOwner, kUp, nsets, lost,
                   initCalls, dvars>>

-----------------------------------------------------------------------------
InitOwner == [p \in PortIdx |-> IF p = PortOrder[1] THEN OurTeam ELSE 0]
InitOpt == [t \in Teams |-> [n \in OptNames |-> CHOOSE v \in OptVals : TRUE]]

Init ==
    /\ DispatcherInit
    /\ ifindex = 0 /\ pc = "alloc" /\ inited = "no" /\ stage = "none"
    /\ cont = "set" /\ nl_sock_err = 0
    /\ port_list = <<>> /\ option_list = <<>>
    /\ cmdReq = NoReq /\ cmdQ = <<>> /\ evQ = <<>> /\ evOverrun = FALSE
    /\ kTeams = Teams /\ kOwner = InitOwner
    /\ kUp = [p \in PortIdx |-> TRUE] /\ kOpt = InitOpt
    /\ ksteps = 0 /\ nsets = 0 /\ lost = 0
    /\ portHist = {PortState(OurTeam, InitOwner, kUp)}
    /\ optHist = {InitOpt[OurTeam]}
    /\ initCalls = [h \in Handlers |-> 0]

LibraryStep == RecvValid \/ RecvAck \/ RecvError \/ CheckEventsStep \/ CheckEventsDone

UserCall ==
    \/ TeamInit
    \/ TeamProcessEvent
    \/ TeamCheckEvents
    \/ \E n \in OptNames, t \in {NLA_U32, NLA_STRING}, v \in OptVals :
          TeamSetOptionValue(n, t, v)
    \/ \E v \in OptVals : TeamSetModeName(v) \/ TeamSetActivePort(v)
    \/ TeamDestroy
    \/ \E h \in Handlers : Register(h) \/ Unregister(h)

KernelStep ==
    \/ KernelReply
    \/ KernelReplyLost
    \/ \E p \in PortIdx, t \in Teams : PortAdd(p, t)
    \/ \E p \in PortIdx : PortRemove(p) \/ LinkChange(p)
    \/ \E t \in Teams, n \in OptNames, v \in OptVals : OtherSetOption(t, n, v)

Next == LibraryStep \/ UserCall \/ KernelStep

(* The library thread runs whenever it can, the kernel answers requests, *)
(* and the application's event loop processes the event socket whenever  *)
(* it is readable (the use team_get_event_fd documents).                  *)
Fairness ==
    /\ WF_vars(LibraryStep)
    /\ WF_vars(KernelReply)
    /\ WF_vars(TeamProcessEvent)

Spec == Init /\ [][Next]_vars /\ Fairness
-----------------------------------------------------------------------------
(* Types.                                                                  *)

PortRec == [ifindex: PortIdx, speed: {0}, duplex: {0}, linkup: BOOLEAN, changed: BOOLEAN]
OptionRec == [name: OptNames, type: {TEAM_OPTION_TYPE_U32, TEAM_OPTION_TYPE_STRING},
              data: OptVals, changed: BOOLEAN]
PortItemT == [ifindex: PortIdx, speed: {NoAttr}, duplex: {NoAttr},
              linkup: BOOLEAN, changed: BOOLEAN]
OptionItemT == [name: OptNames, type: {NLA_U32, NLA_STRING}, data: OptVals,
                changed: BOOLEAN]
MsgT == [cmd: {TEAM_CMD_PORT_LIST_GET}, team: Teams, list: Seq(PortItemT)]
        \cup [cmd: {TEAM_CMD_OPTIONS_GET}, team: Teams, list: Seq(OptionItemT)]
ReqT == {NoReq} \cup
        [cmd: {TEAM_CMD_PORT_LIST_GET, TEAM_CMD_OPTIONS_GET, TEAM_CMD_OPTIONS_SET},
         team: {OurTeam}, resolved: BOOLEAN, name: OptNames \cup {NoAttr},
         type: {NLA_U32, NLA_STRING, NoAttr}, data: OptVals \cup {NoAttr}]
ReplyT == [kind: {"valid"}, msg: MsgT] \cup [kind: {"ack"}]
          \cup [kind: {"error"}, err: {-EOPNOTSUPP, -EINVAL}]

LibTeamTypeOK ==
    /\ DispatcherTypeOK
    /\ ifindex \in {0, OurTeam}
    /\ pc \in {"alloc", "idle", "req", "drain"}
    /\ inited \in {"no", "ok", "failed"}
    /\ stage \in {"none", "connected", "resolved", "ready"}
    /\ cont \in {"ports", "options", "set"}
    /\ nl_sock_err \in {1, 0, -EOPNOTSUPP, -EINVAL}
    /\ port_list \in Seq(PortRec)
    /\ option_list \in Seq(OptionRec)
    /\ cmdReq \in ReqT
    /\ cmdQ \in Seq(ReplyT)
    /\ evQ \in Seq(MsgT)
    /\ evOverrun \in BOOLEAN
    /\ kTeams \subseteq Teams
    /\ kOwner \in [PortIdx -> Teams \cup {0}]
    /\ kUp \in [PortIdx -> BOOLEAN]
    /\ kOpt \in [Teams -> [OptNames -> OptVals]]
    /\ {ksteps, nsets, lost} \subseteq Nat
    /\ initCalls \in [Handlers -> Nat]

-----------------------------------------------------------------------------
(* The registries as the kernel's state is compared with them.             *)
(* What a walk of the port list with team_get_next_port reads: each     *)
(* port's ifindex and link state (speed and duplex are not told apart).  *)
PortsOf(l) ==
    [p \in {l[i].ifindex : i \in DOMAIN l} |->
        l[CHOOSE i \in DOMAIN l : l[i].ifindex = p].linkup]

(* What the by-name getters read: the value of the option                 *)
(* team_get_option_by_name finds for each name.                           *)
OptionsOf(l) ==
    [n \in {l[i].name : i \in DOMAIN l} |-> l[FindOption(l, n)].data]

PortsView == PortsOf(port_list)
OptionsView == OptionsOf(option_list)

(* No reply outlives its call: whenever the library thread is outside    *)
(* send_and_recv, no request waits for the kernel and no reply is queued  *)
(* on nl_sock.  send_and_recv reads up to the ACK or error message that   *)
(* ends its request; a reply left behind would be read by the next call's *)
(* loop and handed to that call's callbacks (and a stale NL_CB_VALID).    *)
NoStaleReply == pc # "req" => cmdReq = NoReq /\ cmdQ = <<>>

(* Every snapshot is the kernel's: once a registry has been replaced, its *)
(* contents are a state our team device really had.  A message of another *)
(* team on the shared multicast group, or a reply applied by the wrong    *)
(* callback, would install a list our team never had.                     *)
SnapshotFromKernel ==
    /\ ver[TEAM_PORT_CHANGE] > 0 => PortsView \in portHist
    /\ ver[TEAM_OPTION_CHANGE] > 0 => OptionsView \in optHist

(* What SnapshotFromKernel asks of the decoding callbacks alone: a port  *)
(* or option list message the kernel builds for our device, whatever its  *)
(* ports, link states, option values and changed flag, is either skipped  *)
(* or decoded by get_port_list_handler / get_options_handler into a list  *)
(* that holds exactly our device's state.  It is a fact about the item    *)
(* loops over every message length, which the runs check for the kernel   *)
(* states of their instance.                                               *)
DecodesKernelMessages ==
    /\ \A ch \in PortIdx \cup {0}, own \in [PortIdx -> Teams \cup {0}],
          up \in [PortIdx -> BOOLEAN] :
          LET r == GetPortListHandler(PortListMsg(OurTeam, ch, own, up), OurTeam, 0)
          IN  r.act = "replace" => PortsOf(r.list) = PortState(OurTeam, own, up)
    /\ \A ch \in OptNames \cup {NoAttr}, opt \in [Teams -> [OptNames -> OptVals]] :
          LET r == GetOptionsHandler(OptionListMsg(OurTeam, ch, opt), OurTeam, 0)
          IN  r.act = "replace" => OptionsOf(r.list) = opt[OurTeam]

(* The registries converge: once the kernel stops changing, a context     *)
(* whose team_init succeeded, on a device that still exists, ends up with *)
(* exactly the kernel's ports and option values, for good.  It rests on  *)
(* joining the event group before the first GET is sent, so that no      *)
(* change between a reply and the next event goes unseen.                 *)
EventuallyMirrors ==
    <>[](inited = "ok" /\ OurTeam \in kTeams =>
            /\ PortsView = PortState(OurTeam, kOwner, kUp)
            /\ OptionsView = kOpt[OurTeam])

(* Every send_and_recv returns: the loop on nl_sock_err ends.  Spec 4.2   *)
(* wants a transport error when no reply comes, and spec 7 wants calls on *)
(* a context whose team_init failed to fail.                              *)
RequestReturns == pc = "req" ~> pc # "req"

(* Spec 2: team_init fetches ports and options, then the dispatcher fires *)
(* once; a handler registered before team_init is called at most once by *)
(* a successful team_init.                                                 *)
InitDispatchOnce ==
    [][(inited # "ok" /\ inited' = "ok") =>
          \A h \in Handlers : initCalls'[h] <= 1]_vars
-----------------------------------------------------------------------------
(* Refinement: each registry implements the abstract mirror of           *)
(* TeamMirror.  The event backlog is the messages of our device on the    *)
(* event socket; the reply is the valid message queued on nl_sock; the    *)
(* context is subscribed once team_init joined the group.                  *)

(* Spec 7: a failed connect() leaves the context uninitialized, and every *)
(* other operation must then fail rather than proceed.  team_init stores  *)
(* th->ifindex before genl_connect, and team_destroy only tests that      *)
(* ifindex, so a team_destroy after a failed connect still deletes the    *)
(* device over the rtnetlink socket team_alloc connected.                  *)
FailedConnectInert ==
    [][(inited = "failed" /\ stage = "none") => kTeams' = kTeams]_vars

(* The messages of command cmd about our device, in queue order.          *)
OurEvents(cmd) == SelectSeq(evQ, LAMBDA m : m.cmd = cmd /\ m.team = OurTeam)

(* The list replies of command cmd queued on nl_sock.                      *)
Replies(cmd) == SelectSeq(cmdQ, LAMBDA r : r.kind = "valid" /\ r.msg.cmd = cmd)

PortsMirror == INSTANCE TeamMirror WITH
    States     <- UNION {[S -> BOOLEAN] : S \in SUBSET PortIdx},
    Empty      <- PortsOf(<<>>),
    kstate     <- PortState(OurTeam, kOwner, kUp),
    view       <- PortsView,
    subscribed <- stage = "ready",
    backlog    <- LET q == OurEvents(TEAM_CMD_PORT_LIST_GET)
                  IN [i \in DOMAIN q |-> PortsOf(q[i].list)],
    inflight   <- pc = "req" /\ cont = "ports",
    replied    <- Replies(TEAM_CMD_PORT_LIST_GET) # <<>>,
    reply      <- IF Replies(TEAM_CMD_PORT_LIST_GET) = <<>> THEN PortsOf(<<>>)
                  ELSE PortsOf(Head(Replies(TEAM_CMD_PORT_LIST_GET)).msg.list),
    fetched    <- ver[TEAM_PORT_CHANGE] > 0,
    gone       <- OurTeam \notin kTeams

OptionsMirror == INSTANCE TeamMirror WITH
    States     <- [OptNames -> OptVals],
    Empty      <- OptionsOf(<<>>),
    kstate     <- kOpt[OurTeam],
    view       <- OptionsView,
    subscribed <- stage = "ready",
    backlog    <- LET q == OurEvents(TEAM_CMD_OPTIONS_GET)
                  IN [i \in DOMAIN q |-> OptionsOf(q[i].list)],
    inflight   <- pc = "req" /\ cont = "options",
    replied    <- Replies(TEAM_CMD_OPTIONS_GET) # <<>>,
    reply      <- IF Replies(TEAM_CMD_OPTIONS_GET) = <<>> THEN OptionsOf(<<>>)
                  ELSE OptionsOf(Head(Replies(TEAM_CMD_OPTIONS_GET)).msg.list),
    fetched    <- ver[TEAM_OPTION_CHANGE] > 0,
    gone       <- OurTeam \notin kTeams

(* The port registry is a mirror of the kernel's ports: every change to   *)
(* our device after team_init joined the event group is either queued on *)
(* the event socket or already in th->port_list, and get_port_list and    *)
(* event_handler only ever install what the kernel sent about our device. *)
PortsRefinement == PortsMirror!MirrorSpec

(* The option registry is a mirror of the kernel's option values, in the  *)
(* same sense, through get_options, set_option_value's multicast and      *)
(* event_handler.                                                          *)
OptionsRefinement == OptionsMirror!MirrorSpec
=============================================================================
