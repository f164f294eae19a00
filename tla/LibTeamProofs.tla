---------------------------- MODULE LibTeamProofs ----------------------------
(***************************************************************************)
(* Proofs about the composed model of libteam.c: for every team, port,    *)
(* option and handler set and every bound, no reply on the command socket *)
(* outlives the send_and_recv call it answers, no registry change is lost  *)
(* by the change dispatcher, and every installed snapshot is a state of    *)
(* our device.                                                             *)
(*                                                                         *)
(* What a decoding callback computes is a recursive function over the      *)
(* items, out of the provers' reach: the first two proofs do not depend on *)
(* it, and the third takes it as the hypothesis DecodesKernelMessages.     *)
(***************************************************************************)
EXTENDS LibTeam, TeamDispatcherProofs, TLAPS

-----------------------------------------------------------------------------
(* The command socket.                                                     *)

AckMsg == [kind |-> "ack"]

(* What nl_sock can hold: nothing, the ACK that ends a GET after its      *)
(* list, a lone ACK or error message, or a list message and its ACK.      *)
ReplySlot ==
    \/ cmdQ = <<>>
    \/ cmdQ = <<AckMsg>>
    \/ cmdQ = <<Head(cmdQ)>> /\ Head(cmdQ).kind = "error"
    \/ cmdQ = <<Head(cmdQ), AckMsg>> /\ Head(cmdQ).kind = "valid"

(* The inductive invariant.  NoStaleReply alone is not inductive: the     *)
(* kernel may only answer into an empty socket (so that the ACK is the    *)
(* last message of its reply), and only while the library waits in       *)
(* send_and_recv; and a request slot that is filled holds a command.      *)
SlotInv ==
    /\ ReplySlot
    /\ cmdReq # NoReq => cmdQ = <<>> /\ pc = "req"
    /\ cmdReq = NoReq \/ cmdReq.cmd # "none"
    /\ NoStaleReply

LEMMA SlotInit == Init => SlotInv
BY DEF Init, SlotInv, ReplySlot, NoStaleReply

(* The end of send_and_recv, with nothing left on the socket: either      *)
(* team_init's next request goes out, or the thread is back between calls *)
(* with an empty request slot.                                             *)
LEMMA ReturnSlot ==
    ASSUME NEW err, Return(err), cmdReq = NoReq
    PROVE  \/ pc' = "req" /\ cmdReq'.cmd # "none"
           \/ pc' = "idle" /\ cmdReq' = NoReq
<1>1. CASE cont = "ports" /\ err = 0
    BY <1>1 DEF Return, GetOptionsSendFails, SendAndRecv, GetReq, Req, TEAM_CMD_OPTIONS_GET
<1>2. CASE ~(cont = "ports" /\ err = 0)
    BY <1>2 DEF Return
<1>. QED  BY <1>1, <1>2

(* A step that leaves the library's control state and the command socket  *)
(* alone keeps the invariant.                                              *)
LEMMA SlotFrame ==
    ASSUME SlotInv, pc' = pc, cmdReq' = cmdReq, cmdQ' = cmdQ
    PROVE  SlotInv'
BY DEF SlotInv, ReplySlot, NoStaleReply

(* The kernel answers a request into an empty socket.                      *)
LEMMA KernelReplySlot ==
    ASSUME SlotInv, KernelReply
    PROVE  SlotInv'
<1>1. cmdReq # NoReq
    BY DEF KernelReply, NoReq
<1>2. cmdQ = <<>> /\ pc = "req" /\ pc' = pc /\ cmdReq' = NoReq
    BY <1>1 DEF SlotInv, KernelReply, libvars
<1>3. \/ \E e : ReplyError(e)
      \/ \E m : ReplyList(m)
      \/ ReplySet(cmdReq)
    BY DEF KernelReply
<1>4. \/ \E e : cmdQ' = Append(cmdQ, [kind |-> "error", err |-> e])
      \/ \E m : cmdQ' = cmdQ \o <<[kind |-> "valid", msg |-> m], AckMsg>>
      \/ cmdQ' = Append(cmdQ, AckMsg)
    BY <1>3 DEF ReplyError, ReplyList, ReplySet, AckMsg
<1>5. ReplySlot'
    BY <1>2, <1>4 DEF ReplySlot, AckMsg
<1>. QED  BY <1>2, <1>5 DEF SlotInv, NoStaleReply

(* Reading the head of the socket: a list message leaves its ACK, an ACK  *)
(* or an error message leaves nothing.                                     *)
LEMMA SlotTail ==
    ASSUME ReplySlot, cmdQ # <<>>
    PROVE  /\ Head(cmdQ).kind = "valid" => Tail(cmdQ) = <<AckMsg>>
           /\ Head(cmdQ).kind \in {"ack", "error"} => Tail(cmdQ) = <<>>
<1>1. CASE cmdQ = <<AckMsg>>
    BY <1>1 DEF AckMsg
<1>2. CASE cmdQ = <<Head(cmdQ)>> /\ Head(cmdQ).kind = "error"
  <2> DEFINE h == Head(cmdQ)
  <2>1. Tail(<<h>>) = <<>>
      OBVIOUS
  <2>. QED  BY <1>2, <2>1
<1>3. CASE cmdQ = <<Head(cmdQ), AckMsg>> /\ Head(cmdQ).kind = "valid"
  <2> DEFINE h == Head(cmdQ)
  <2>1. Tail(<<h, AckMsg>>) = <<AckMsg>>
      OBVIOUS
  <2>. QED  BY <1>3, <2>1
<1>. QED  BY <1>1, <1>2, <1>3 DEF ReplySlot

(* A library step that reads one message off the socket.                   *)
LEMMA RecvSlot ==
    ASSUME SlotInv, RecvValid \/ RecvAck \/ RecvError
    PROVE  SlotInv'
<1>1. pc = "req" /\ cmdQ # <<>> /\ cmdReq = NoReq /\ cmdQ' = Tail(cmdQ)
    BY DEF SlotInv, RecvValid, RecvAck, RecvError
<1>2. CASE RecvValid
  <2>1. cmdQ' = <<AckMsg>> /\ pc' = pc /\ cmdReq' = cmdReq
      BY <1>1, <1>2, SlotTail DEF SlotInv, RecvValid
  <2>. QED  BY <1>1, <2>1 DEF SlotInv, ReplySlot, NoStaleReply
<1>3. CASE RecvAck \/ RecvError
  <2>1. cmdQ' = <<>>
      BY <1>1, <1>3, SlotTail DEF SlotInv, RecvAck, RecvError
  <2>2. CASE stage = "ready"
    <3>1. \E err : Return(err)
        BY <1>3, <2>2 DEF RecvAck, RecvError
    <3>2. \/ pc' = "req" /\ cmdReq'.cmd # "none"
          \/ pc' = "idle" /\ cmdReq' = NoReq
        BY <1>1, <3>1, ReturnSlot
    <3>. QED  BY <2>1, <3>2 DEF SlotInv, ReplySlot, NoStaleReply
  <2>3. CASE stage # "ready"
    <3>1. pc' = pc /\ cmdReq' = cmdReq
        BY <1>3, <2>3 DEF RecvAck, RecvError
    <3>. QED  BY <1>1, <2>1, <3>1 DEF SlotInv, ReplySlot, NoStaleReply
  <2>. QED  BY <2>2, <2>3
<1>. QED  BY <1>2, <1>3

(* A call that sends a request from between calls, into an empty socket.   *)
LEMMA SendSlot ==
    ASSUME SlotInv, pc \in {"alloc", "idle"}, cmdQ' = cmdQ,
           NEW req, NEW c, SendAndRecv(req, c), req.cmd # "none"
    PROVE  SlotInv'
BY DEF SlotInv, ReplySlot, NoStaleReply, SendAndRecv

LEMMA SlotNext == SlotInv /\ [Next]_vars => SlotInv'
<1> SUFFICES ASSUME SlotInv, [Next]_vars PROVE SlotInv'
    OBVIOUS
<1>1. CASE RecvValid \/ RecvAck \/ RecvError
    BY <1>1, RecvSlot
<1>2. CASE CheckEventsStep \/ CheckEventsDone \/ TeamCheckEvents \/ TeamProcessEvent
  <2>1. pc \in {"alloc", "idle", "drain"} /\ pc' \in {"alloc", "idle", "drain"}
      BY <1>2 DEF CheckEventsStep, CheckEventsDone, TeamCheckEvents, TeamProcessEvent
  <2>2. cmdReq' = cmdReq /\ cmdQ' = cmdQ
      BY <1>2 DEF CheckEventsStep, CheckEventsDone, TeamCheckEvents, TeamProcessEvent,
                  chanvars
  <2>. QED  BY <2>1, <2>2 DEF SlotInv, ReplySlot, NoStaleReply
<1>3. CASE TeamInit
  <2>1. pc = "alloc" /\ cmdQ = <<>> /\ cmdReq = NoReq /\ cmdQ' = cmdQ
      BY <1>3 DEF TeamInit, SlotInv, NoStaleReply
  <2>2. \/ pc' = "idle" /\ cmdReq' = cmdReq
        \/ pc' = "req" /\ cmdReq'.cmd = TEAM_CMD_PORT_LIST_GET
      BY <1>3 DEF TeamInit, NoReq
  <2>. QED  BY <2>1, <2>2 DEF SlotInv, ReplySlot, NoStaleReply, TEAM_CMD_PORT_LIST_GET
<1>4. CASE \E n \in OptNames, t \in {NLA_U32, NLA_STRING}, v \in OptVals :
              TeamSetOptionValue(n, t, v)
    BY <1>4, SendSlot DEF TeamSetOptionValue, Req, TEAM_CMD_OPTIONS_SET
<1>5. CASE \E v \in OptVals : TeamSetModeName(v) \/ TeamSetActivePort(v)
    BY <1>5, SendSlot DEF TeamSetModeName, TeamSetActivePort, TeamSetOptionValue, Req,
                          TEAM_CMD_OPTIONS_SET
<1>6. CASE TeamDestroy \/ \E h \in Handlers : Register(h) \/ Unregister(h)
    BY <1>6, SlotFrame DEF TeamDestroy, Register, Unregister, libvars, chanvars
<1>7. CASE KernelReply
    BY <1>7, KernelReplySlot
<1>8. CASE KernelReplyLost
    BY <1>8 DEF KernelReplyLost, SlotInv, ReplySlot, NoStaleReply, libvars
<1>9. CASE \/ \E p \in PortIdx, t \in Teams : PortAdd(p, t)
           \/ \E p \in PortIdx : PortRemove(p) \/ LinkChange(p)
    BY <1>9, SlotFrame DEF PortAdd, PortRemove, LinkChange, KernelChange, libvars
<1>10. CASE \E t \in Teams, n \in OptNames, v \in OptVals : OtherSetOption(t, n, v)
    BY <1>10, SlotFrame DEF OtherSetOption, libvars
<1>11. CASE UNCHANGED vars
    BY <1>11, SlotFrame DEF vars, libvars, chanvars
<1>. QED  BY <1>1, <1>2, <1>3, <1>4, <1>5, <1>6, <1>7, <1>8, <1>9, <1>10, <1>11
          DEF Next, LibraryStep, UserCall, KernelStep

(* No reply outlives its call: whenever the library is outside            *)
(* send_and_recv, nl_sock holds no reply and the kernel no request, so a  *)
(* later call's receive loop and callbacks never see an earlier call's    *)
(* messages.                                                               *)
THEOREM NoStaleReplyInvariant == Spec => []NoStaleReply
<1>1. SlotInv => NoStaleReply
    BY DEF SlotInv
<1>. QED  BY <1>1, SlotInit, SlotNext, PTL DEF Spec

-----------------------------------------------------------------------------
(* The change dispatcher inside the library.  The invariant is the         *)
(* dispatcher's own, IInv of TeamDispatcherProofs: every library step that *)
(* touches the dispatcher's state is one of its operations, or the one     *)
(* step team_process_event fuses from them.                                *)

(* A registry marks at most its own change type pending.                   *)
LEMMA ChangesType ==
    ASSUME NEW reg, NEW r
    PROVE  Changes(reg, r) \in SUBSET TEAM_ANY_CHANGE
BY DEF Changes, ChangeOf, TEAM_ANY_CHANGE, TEAM_PORT_CHANGE, TEAM_OPTION_CHANGE

(* event_handler replaces a snapshot (set_call_change_handlers) and        *)
(* team_process_event then settles every type: afterwards nothing is       *)
(* pending, and every interested handler has seen every replacement.       *)
LEMMA EventIInv ==
    ASSUME IInv, NEW m \in SUBSET TEAM_ANY_CHANGE,
           ver' = Bump(ver, m), Settle(pending \cup m, ver', TEAM_ANY_CHANGE),
           handlers' = handlers
    PROVE  IInv'
<1>1. DispatcherTypeOK'
    BY DEF IInv, DispatcherTypeOK, Settle, Bump
<1>2. NoLostChange'
  <2> SUFFICES ASSUME NEW h \in Registered', NEW c \in HandlerMask[h]
               PROVE  seen'[h][c] = ver'[c]
      BY DEF NoLostChange
  <2>1. h \in Registered /\ h \in Handlers /\ c \in TEAM_ANY_CHANGE
      BY DispatcherAssumption DEF Registered, ListNodes, IInv, DispatcherTypeOK
  <2>2. CASE c \in pending \cup m
    <3>1. c \in ItemTypeMask(h, pending \cup m, TEAM_ANY_CHANGE)
          /\ h \in Called(pending \cup m, TEAM_ANY_CHANGE)
        BY <2>1, <2>2 DEF ItemTypeMask, Called
    <3>. QED  BY <2>1, <3>1 DEF Settle
  <2>3. CASE c \notin pending \cup m
    <3>1. seen[h][c] = ver[c] /\ ver'[c] = ver[c]
        BY <2>1, <2>3 DEF IInv, NoLostChange, Bump
    <3>2. c \notin ItemTypeMask(h, pending \cup m, TEAM_ANY_CHANGE)
        BY <2>3 DEF ItemTypeMask
    <3>. QED  BY <2>1, <3>1, <3>2 DEF Settle
  <2>. QED  BY <2>2, <2>3
<1>. QED  BY <1>1, <1>2 DEF IInv

(* A step that leaves the dispatcher's state alone keeps the invariant.    *)
LEMMA DispatcherFrame ==
    ASSUME IInv, UNCHANGED dvars
    PROVE  IInv'
BY DEF IInv, DispatcherTypeOK, NoLostChange, Registered, dvars

(* The end of send_and_recv: get_port_list and get_options settle their    *)
(* own change type (check_call_change_handlers); a failed call settles     *)
(* nothing.                                                                 *)
LEMMA ReturnIInv ==
    ASSUME IInv, NEW err, Return(err)
    PROVE  IInv'
<1>1. CASE cont = "ports" /\ err = 0
    <2>1. CheckCallChangeHandlers({TEAM_PORT_CHANGE})
        BY <1>1 DEF Return, CheckCallChangeHandlers
    <2>. QED  BY <2>1, SettleIInv DEF TEAM_ANY_CHANGE
<1>2. CASE cont = "options" /\ err = 0
    <2>1. CheckCallChangeHandlers({TEAM_OPTION_CHANGE})
        BY <1>2 DEF Return, CheckCallChangeHandlers
    <2>. QED  BY <2>1, SettleIInv DEF TEAM_ANY_CHANGE
<1>3. CASE ~(cont \in {"ports", "options"} /\ err = 0)
    <2>1. UNCHANGED dvars
        BY <1>3 DEF Return
    <2>. QED  BY <2>1, DispatcherFrame
<1>. QED  BY <1>1, <1>2, <1>3

LEMMA DispatcherInLibTeam == IInv /\ [Next]_vars => IInv'
<1> SUFFICES ASSUME IInv, [Next]_vars PROVE IInv'
    OBVIOUS
<1>1. CASE RecvValid
    <2>1. PICK r : SetCallChangeHandlers(Changes(cont, r))
        BY <1>1 DEF RecvValid
    <2>. QED  BY <2>1, ChangesType, SetIInv
<1>2. CASE RecvAck \/ RecvError
    <2>1. CASE stage = "ready"
        <3>1. \E err : Return(err)
            BY <1>2, <2>1 DEF RecvAck, RecvError
        <3>. QED  BY <3>1, ReturnIInv
    <2>2. CASE stage # "ready"
        BY <1>2, <2>2, DispatcherFrame DEF RecvAck, RecvError
    <2>. QED  BY <2>1, <2>2
<1>3. CASE TeamProcessEvent \/ CheckEventsStep
    <2>1. ReadOverrun \/ ReadEvent
        BY <1>3 DEF TeamProcessEvent, CheckEventsStep, ProcessOneEvent
    <2>2. CASE ReadOverrun
        <3>1. CheckCallChangeHandlers(TEAM_ANY_CHANGE)
            BY <2>2 DEF ReadOverrun
        <3>. QED  BY <3>1, SettleIInv
    <2>3. CASE ReadEvent
        <3>1. PICK reg, r : /\ ver' = Bump(ver, Changes(reg, r))
                            /\ Settle(pending \cup Changes(reg, r), ver', TEAM_ANY_CHANGE)
                            /\ handlers' = handlers
            BY <2>3 DEF ReadEvent
        <3>. QED  BY <3>1, ChangesType, EventIInv
    <2>. QED  BY <2>1, <2>2, <2>3
<1>4. CASE \E h \in Handlers : Register(h)
    BY <1>4, RegisterIInv DEF Register
<1>5. CASE \E h \in Handlers : Unregister(h)
    BY <1>5, UnregisterIInv DEF Unregister
<1>6. CASE KernelReply
    <2>1. UNCHANGED dvars
        BY <1>6 DEF KernelReply
    <2>. QED  BY <2>1, DispatcherFrame
<1>7. CASE \/ TeamInit \/ TeamCheckEvents \/ CheckEventsDone \/ TeamDestroy
           \/ \E n \in OptNames, t \in {NLA_U32, NLA_STRING}, v \in OptVals :
                 TeamSetOptionValue(n, t, v)
           \/ \E v \in OptVals : TeamSetModeName(v) \/ TeamSetActivePort(v)
           \/ KernelReplyLost
           \/ \E p \in PortIdx, t \in Teams : PortAdd(p, t)
           \/ \E p \in PortIdx : PortRemove(p) \/ LinkChange(p)
           \/ \E t \in Teams, n \in OptNames, v \in OptVals : OtherSetOption(t, n, v)
           \/ UNCHANGED vars
    <2>1. UNCHANGED dvars
        BY <1>7 DEF TeamInit, TeamCheckEvents, CheckEventsDone, TeamDestroy,
                    TeamSetOptionValue, TeamSetModeName, TeamSetActivePort,
                    KernelReplyLost, PortAdd, PortRemove, LinkChange, KernelChange,
                    OtherSetOption, vars
    <2>. QED  BY <2>1, DispatcherFrame
<1>. QED  BY <1>1, <1>2, <1>3, <1>4, <1>5, <1>6, <1>7
          DEF Next, LibraryStep, UserCall, KernelStep

(* No lost change in the library: whatever interleaving of requests,       *)
(* replies, kernel events, team_process_event calls and handler            *)
(* (un)registrations occurs, a registered handler interested in a change   *)
(* type either has it pending or has seen the latest snapshot replacement  *)
(* of that type.                                                            *)
THEOREM LibTeamNoLostChange == Spec => []NoLostChange
<1>1. Init => IInv
    BY InitIInv DEF Init
<1>2. IInv => NoLostChange
    BY DEF IInv
<1>. QED  BY <1>1, <1>2, DispatcherInLibTeam, PTL DEF Spec

-----------------------------------------------------------------------------
(* Every snapshot is the kernel's.  The decoding of a message of our own   *)
(* device is the hypothesis DecodesKernelMessages (a fact about the item   *)
(* loops, checked by TLC); everything else is proved here: that messages   *)
(* of the other device on the shared group are filtered out, that a reply *)
(* reaches the callback of the request it answers, and that every message  *)
(* the kernel queues carries a state our device has had.                   *)

OwnT == [PortIdx -> Teams \cup {0}]
UpT == [PortIdx -> BOOLEAN]
OptT == [Teams -> [OptNames -> OptVals]]

(* Port and option states of the kernel whose state of our device has been *)
(* recorded in the history.                                                *)
RecPorts == {s \in OwnT \X UpT : PortState(OurTeam, s[1], s[2]) \in portHist}
RecOpts == {o \in OptT : o[OurTeam] \in optHist}

(* The messages the kernel may have queued: list messages of either team   *)
(* built from a recorded kernel state.                                     *)
KernelMsgs ==
    {PortListMsg(t, ch, s[1], s[2]) : t \in Teams, ch \in PortIdx \cup {0}, s \in RecPorts}
    \cup {OptionListMsg(t, ch, o) : t \in Teams, ch \in OptNames \cup {NoAttr}, o \in RecOpts}

(* The command whose reply the call send_and_recv returns to reads.       *)
ContCmd(c) == IF c = "ports" THEN TEAM_CMD_PORT_LIST_GET
              ELSE IF c = "options" THEN TEAM_CMD_OPTIONS_GET ELSE "none"

KernelTypes == kOwner \in OwnT /\ kUp \in UpT /\ kOpt \in OptT /\ kTeams \subseteq Teams

(* Before team_init, no socket carries anything.                          *)
IfindexSet ==
    /\ ifindex \in {0, OurTeam}
    /\ ifindex = 0 => stage = "none" /\ evQ = <<>> /\ cmdQ = <<>> /\ cmdReq = NoReq

(* A request is for our device, and a GET goes with the call that decodes *)
(* its reply; a SET carries a value.                                       *)
ReqMatches ==
    cmdReq # NoReq =>
        /\ cmdReq.team = OurTeam
        /\ \/ cmdReq.cmd = TEAM_CMD_PORT_LIST_GET /\ cont = "ports"
           \/ cmdReq.cmd = TEAM_CMD_OPTIONS_GET /\ cont = "options"
           \/ cmdReq.cmd = TEAM_CMD_OPTIONS_SET /\ cmdReq.data \in OptVals

(* The kernel's current state of our device is in the history.           *)
KernelRecorded ==
    /\ OurTeam \in kTeams => PortState(OurTeam, kOwner, kUp) \in portHist
    /\ kOpt[OurTeam] \in optHist

EventsFromKernel == evQ \in Seq(KernelMsgs)

ReplyFromKernel ==
    cmdQ # <<>> /\ Head(cmdQ).kind = "valid" =>
        Head(cmdQ).msg \in KernelMsgs /\ Head(cmdQ).msg.cmd = ContCmd(cont)

Snap ==
    /\ KernelTypes /\ IfindexSet /\ ReqMatches /\ KernelRecorded
    /\ EventsFromKernel /\ ReplyFromKernel /\ SnapshotFromKernel

SnapInv == SlotInv /\ IInv /\ Snap

(* A kernel message is a port list or an option list message.            *)
LEMMA KernelMsgCases ==
    ASSUME NEW m \in KernelMsgs
    PROVE  \/ /\ m.cmd = TEAM_CMD_PORT_LIST_GET
              /\ \E t \in Teams, ch \in PortIdx \cup {0}, s \in RecPorts :
                    m = PortListMsg(t, ch, s[1], s[2])
           \/ /\ m.cmd = TEAM_CMD_OPTIONS_GET
              /\ \E t \in Teams, ch \in OptNames \cup {NoAttr}, o \in RecOpts :
                    m = OptionListMsg(t, ch, o)
<1>1. CASE m \in {PortListMsg(t, ch, s[1], s[2]) :
                    t \in Teams, ch \in PortIdx \cup {0}, s \in RecPorts}
  <2>1. PICK t \in Teams, ch \in PortIdx \cup {0}, s \in RecPorts :
              m = PortListMsg(t, ch, s[1], s[2])
      BY <1>1
  <2>. QED  BY <2>1 DEF PortListMsg
<1>2. CASE m \in {OptionListMsg(t, ch, o) :
                    t \in Teams, ch \in OptNames \cup {NoAttr}, o \in RecOpts}
  <2>1. PICK t \in Teams, ch \in OptNames \cup {NoAttr}, o \in RecOpts :
              m = OptionListMsg(t, ch, o)
      BY <1>2
  <2>. QED  BY <2>1 DEF OptionListMsg
<1>. QED  BY <1>1, <1>2 DEF KernelMsgs

(* get_port_list_handler on a port list message of the kernel installs a  *)
(* recorded state of our device, or nothing: a message of the other team  *)
(* fails the TEAM_ATTR_TEAM_IFINDEX test.                                  *)
LEMMA PortMsgDecode ==
    ASSUME DecodesKernelMessages,
           NEW t \in Teams, NEW ch \in PortIdx \cup {0}, NEW s \in RecPorts
    PROVE  LET r == GetPortListHandler(PortListMsg(t, ch, s[1], s[2]), OurTeam, 0)
           IN  r.act = "replace" => PortsOf(r.list) \in portHist
<1>1. CASE t = OurTeam
  <2>1. s[1] \in OwnT /\ s[2] \in UpT /\ PortState(OurTeam, s[1], s[2]) \in portHist
      BY Zenon DEF RecPorts
  <2>2. \A c \in PortIdx \cup {0}, own \in OwnT, up \in UpT :
          LET r == GetPortListHandler(PortListMsg(OurTeam, c, own, up), OurTeam, 0)
          IN  r.act = "replace" => PortsOf(r.list) = PortState(OurTeam, own, up)
      BY Zenon DEF DecodesKernelMessages, OwnT, UpT
  <2>3. LET r == GetPortListHandler(PortListMsg(OurTeam, ch, s[1], s[2]), OurTeam, 0)
        IN  r.act = "replace" => PortsOf(r.list) = PortState(OurTeam, s[1], s[2])
      BY <2>1, <2>2, Zenon
  <2>. QED  BY <1>1, <2>1, <2>3, Zenon
<1>2. CASE t # OurTeam
  <2>1. MsgTeamIfindex(PortListMsg(t, ch, s[1], s[2])) # OurTeam
      BY <1>2, LibTeamAssumption DEF MsgTeamIfindex, PortListMsg
  <2>. QED  BY <2>1 DEF GetPortListHandler, Skip
<1>. QED  BY <1>1, <1>2

(* The same for get_options_handler on an option list message.             *)
LEMMA OptMsgDecode ==
    ASSUME DecodesKernelMessages,
           NEW t \in Teams, NEW ch \in OptNames \cup {NoAttr}, NEW o \in RecOpts
    PROVE  LET r == GetOptionsHandler(OptionListMsg(t, ch, o), OurTeam, 0)
           IN  r.act = "replace" => OptionsOf(r.list) \in optHist
<1>1. CASE t = OurTeam
  <2>1. o \in OptT /\ o[OurTeam] \in optHist
      BY DEF RecOpts
  <2>2. \A c \in OptNames \cup {NoAttr}, opt \in OptT :
          LET r == GetOptionsHandler(OptionListMsg(OurTeam, c, opt), OurTeam, 0)
          IN  r.act = "replace" => OptionsOf(r.list) = opt[OurTeam]
      BY Zenon DEF DecodesKernelMessages, OptT
  <2>3. LET r == GetOptionsHandler(OptionListMsg(OurTeam, ch, o), OurTeam, 0)
        IN  r.act = "replace" => OptionsOf(r.list) = o[OurTeam]
      BY <2>1, <2>2, Zenon
  <2>. QED  BY <1>1, <2>1, <2>3, Zenon
<1>2. CASE t # OurTeam
  <2>1. MsgTeamIfindex(OptionListMsg(t, ch, o)) # OurTeam
      BY <1>2, LibTeamAssumption DEF MsgTeamIfindex, OptionListMsg
  <2>. QED  BY <2>1 DEF GetOptionsHandler, Skip
<1>. QED  BY <1>1, <1>2
(* A message of the kernel is decoded, by the callback its command routes *)
(* to, into a state our device has had, or skipped.                        *)
LEMMA KernelMsgDecode ==
    ASSUME DecodesKernelMessages, NEW m \in KernelMsgs
    PROVE  /\ m.cmd = TEAM_CMD_PORT_LIST_GET =>
                LET r == GetPortListHandler(m, OurTeam, 0)
                IN  r.act = "replace" => PortsOf(r.list) \in portHist
           /\ m.cmd # TEAM_CMD_PORT_LIST_GET =>
                LET r == GetOptionsHandler(m, OurTeam, 0)
                IN  r.act = "replace" => OptionsOf(r.list) \in optHist
<1>1. CASE m \in {PortListMsg(t, ch, s[1], s[2]) :
                    t \in Teams, ch \in PortIdx \cup {0}, s \in RecPorts}
  <2>1. PICK t \in Teams, ch \in PortIdx \cup {0}, s \in RecPorts :
              m = PortListMsg(t, ch, s[1], s[2])
      BY <1>1
  <2>2. m.cmd = TEAM_CMD_PORT_LIST_GET
      BY <2>1 DEF PortListMsg
  <2>3. LET r == GetPortListHandler(PortListMsg(t, ch, s[1], s[2]), OurTeam, 0)
        IN  r.act = "replace" => PortsOf(r.list) \in portHist
      BY PortMsgDecode
  <2>. QED  BY <2>1, <2>2, <2>3
<1>2. CASE m \in {OptionListMsg(t, ch, o) :
                    t \in Teams, ch \in OptNames \cup {NoAttr}, o \in RecOpts}
  <2>1. PICK t \in Teams, ch \in OptNames \cup {NoAttr}, o \in RecOpts :
              m = OptionListMsg(t, ch, o)
      BY <1>2
  <2>2. m.cmd # TEAM_CMD_PORT_LIST_GET
      BY <2>1 DEF OptionListMsg, TEAM_CMD_PORT_LIST_GET, TEAM_CMD_OPTIONS_GET
  <2>. QED  BY <2>1, <2>2, OptMsgDecode
<1>. QED  BY <1>1, <1>2 DEF KernelMsgs

(* The kernel's messages only grow with the histories.                    *)
LEMMA KernelMsgsGrow ==
    ASSUME portHist \subseteq portHist', optHist \subseteq optHist'
    PROVE  KernelMsgs \subseteq KernelMsgs'
<1>1. RecPorts \subseteq RecPorts'
    BY DEF RecPorts
<1>2. RecOpts \subseteq RecOpts'
    BY DEF RecOpts
<1> SUFFICES ASSUME NEW m \in KernelMsgs PROVE m \in KernelMsgs'
    OBVIOUS
<1>3. CASE m \in {PortListMsg(t, ch, s[1], s[2]) :
                    t \in Teams, ch \in PortIdx \cup {0}, s \in RecPorts}
  <2>1. PICK t \in Teams, ch \in PortIdx \cup {0}, s \in RecPorts :
              m = PortListMsg(t, ch, s[1], s[2])
      BY <1>3
  <2>. QED  BY <1>1, <2>1 DEF KernelMsgs
<1>4. CASE m \in {OptionListMsg(t, ch, o) :
                    t \in Teams, ch \in OptNames \cup {NoAttr}, o \in RecOpts}
  <2>1. PICK t \in Teams, ch \in OptNames \cup {NoAttr}, o \in RecOpts :
              m = OptionListMsg(t, ch, o)
      BY <1>4
  <2>. QED  BY <1>2, <2>1 DEF KernelMsgs
<1>. QED  BY <1>3, <1>4 DEF KernelMsgs

(* The event socket keeps only kernel messages, whether or not the kernel *)
(* multicasts a new one (Emit drops it when the socket is full or not    *)
(* subscribed).                                                            *)
LEMMA EmitKernel ==
    ASSUME EventsFromKernel, KernelMsgs \subseteq KernelMsgs',
           NEW m \in KernelMsgs', Emit(m)
    PROVE  EventsFromKernel'
<1>1. evQ \in Seq(KernelMsgs')
    BY SeqMonotonic DEF EventsFromKernel
<1>. QED  BY <1>1, AppendProperties DEF Emit, EventsFromKernel

(* A step that touches neither registry nor the counters keeps every       *)
(* installed snapshot in the (growing) histories.                          *)
LEMMA SnapshotFrame ==
    ASSUME SnapshotFromKernel, port_list' = port_list, option_list' = option_list,
           ver' = ver, portHist \subseteq portHist', optHist \subseteq optHist'
    PROVE  SnapshotFromKernel'
BY DEF SnapshotFromKernel, PortsView, OptionsView

(* A callback result applied to registry reg keeps every snapshot a state *)
(* of our device, when the list it installs is one.                        *)
LEMMA ApplySnap ==
    ASSUME SnapshotFromKernel, ver \in [TEAM_ANY_CHANGE -> Nat],
           NEW reg \in {"ports", "options"}, NEW r,
           ApplyResult(reg, r), ver' = Bump(ver, Changes(reg, r)),
           portHist' = portHist, optHist' = optHist,
           reg = "ports" /\ r.act = "replace" => PortsOf(r.list) \in portHist,
           reg = "options" /\ r.act = "replace" => OptionsOf(r.list) \in optHist
    PROVE  SnapshotFromKernel'
<1>1. CASE r.act = "replace" /\ reg = "ports"
  <2>1. PortsView' \in portHist' /\ option_list' = option_list
      BY <1>1 DEF ApplyResult, PortsView
  <2>2. ver'[TEAM_OPTION_CHANGE] = ver[TEAM_OPTION_CHANGE]
      BY <1>1 DEF Bump, Changes, ChangeOf, TEAM_ANY_CHANGE, TEAM_PORT_CHANGE,
                  TEAM_OPTION_CHANGE
  <2>. QED  BY <2>1, <2>2 DEF SnapshotFromKernel, OptionsView
<1>2. CASE r.act = "replace" /\ reg = "options"
  <2>1. OptionsView' \in optHist' /\ port_list' = port_list
      BY <1>2 DEF ApplyResult, OptionsView
  <2>2. ver'[TEAM_PORT_CHANGE] = ver[TEAM_PORT_CHANGE]
      BY <1>2 DEF Bump, Changes, ChangeOf, TEAM_ANY_CHANGE, TEAM_PORT_CHANGE,
                  TEAM_OPTION_CHANGE
  <2>. QED  BY <2>1, <2>2 DEF SnapshotFromKernel, PortsView
<1>3. CASE r.act # "replace"
  <2>1. port_list' = port_list /\ option_list' = option_list
      BY <1>3 DEF ApplyResult
  <2>2. ver' = ver
      BY <1>3 DEF Bump, Changes
  <2>. QED  BY <2>1, <2>2, SnapshotFrame
<1>. QED  BY <1>1, <1>2, <1>3
(* The event socket, left alone, keeps only kernel messages.               *)
LEMMA EventsFrame ==
    ASSUME EventsFromKernel, evQ' = evQ,
           portHist \subseteq portHist', optHist \subseteq optHist'
    PROVE  EventsFromKernel'
<1>1. KernelMsgs \subseteq KernelMsgs'
    BY KernelMsgsGrow
<1>. QED  BY <1>1, SeqMonotonic DEF EventsFromKernel

(* A step that changes none of what Snap reads, except for emptying the   *)
(* request slot, keeps it.                                                 *)
LEMMA SnapFrame ==
    ASSUME Snap, cmdReq' \in {cmdReq, NoReq},
           UNCHANGED <<ifindex, stage, cont, port_list, option_list, cmdQ, evQ,
                       kTeams, kOwner, kUp, kOpt, portHist, optHist, ver>>
    PROVE  Snap'
<1>1. EventsFromKernel'
    BY EventsFrame DEF Snap
<1>2. ReplyFromKernel'
  <2>1. KernelMsgs' = KernelMsgs
      BY DEF KernelMsgs, RecPorts, RecOpts
  <2>. QED  BY <2>1 DEF Snap, ReplyFromKernel
<1>3. SnapshotFromKernel'
    BY SnapshotFrame DEF Snap
<1>. QED  BY <1>1, <1>2, <1>3
          DEF Snap, KernelTypes, IfindexSet, ReqMatches, KernelRecorded

(* One valid message read by send_and_recv: by ReplyFromKernel it is the   *)
(* kernel's answer to the request of the call, so the callback installed  *)
(* for that call decodes it into a state of our device, and only its ACK  *)
(* stays on the socket.                                                    *)
LEMMA SnapRecvValid ==
    ASSUME DecodesKernelMessages, SnapInv, RecvValid
    PROVE  Snap'
<1>1. cmdQ # <<>> /\ cmdReq = NoReq /\ ifindex = OurTeam /\ Head(cmdQ).kind = "valid"
    BY DEF RecvValid, SnapInv, SlotInv, Snap, IfindexSet
<1>2. cmdQ' = <<AckMsg>>
    BY <1>1, SlotTail DEF SnapInv, SlotInv, RecvValid
<1> DEFINE m == Head(cmdQ).msg
<1>3. m \in KernelMsgs /\ m.cmd = ContCmd(cont)
    BY <1>1 DEF SnapInv, Snap, ReplyFromKernel
<1>4. m.cmd \in {TEAM_CMD_PORT_LIST_GET, TEAM_CMD_OPTIONS_GET}
    BY <1>3, KernelMsgCases
<1>5. cont \in {"ports", "options"} /\ (cont = "ports" <=> m.cmd = TEAM_CMD_PORT_LIST_GET)
    BY <1>3, <1>4 DEF ContCmd, TEAM_CMD_PORT_LIST_GET, TEAM_CMD_OPTIONS_GET
<1> DEFINE r == IF cont = "ports" THEN GetPortListHandler(m, ifindex, 0)
                ELSE GetOptionsHandler(m, ifindex, 0)
<1>6. ApplyResult(cont, r) /\ ver' = Bump(ver, Changes(cont, r))
    BY DEF RecvValid, SetCallChangeHandlers
<1>7. cont = "ports" /\ r.act = "replace" => PortsOf(r.list) \in portHist
    BY <1>1, <1>3, <1>5, KernelMsgDecode
<1>8. cont = "options" /\ r.act = "replace" => OptionsOf(r.list) \in optHist
    BY <1>1, <1>3, <1>5, KernelMsgDecode
<1>9. ver \in [TEAM_ANY_CHANGE -> Nat] /\ portHist' = portHist /\ optHist' = optHist
    BY DEF SnapInv, IInv, DispatcherTypeOK, RecvValid, ghostvars
<1>10. SnapshotFromKernel'
    BY <1>5, <1>6, <1>7, <1>8, <1>9, ApplySnap DEF SnapInv, Snap
<1>11. EventsFromKernel'
    BY <1>9, EventsFrame DEF SnapInv, Snap, RecvValid
<1>12. ReplyFromKernel'
    BY <1>2 DEF ReplyFromKernel, AckMsg
<1>. QED  BY <1>10, <1>11, <1>12
          DEF SnapInv, Snap, RecvValid, KernelTypes, IfindexSet, ReqMatches,
              KernelRecorded, kvars, ghostvars
(* The end of send_and_recv leaves the counters alone, and the only request *)
(* it sends is team_init's get_options.                                    *)
LEMMA ReturnSnapFacts ==
    ASSUME NEW err, Return(err)
    PROVE  /\ ver' = ver
           /\ \/ cmdReq' = cmdReq
              \/ cmdReq' = GetReq(TEAM_CMD_OPTIONS_GET) /\ cont' = "options"
BY DEF Return, GetOptionsSendFails, SendAndRecv, dvars

(* An ACK or error message read by send_and_recv empties the socket; the  *)
(* call either returns or, in team_init, sends get_options for our device. *)
LEMMA SnapRecvAckError ==
    ASSUME SnapInv, RecvAck \/ RecvError
    PROVE  Snap'
<1>1. cmdQ # <<>> /\ cmdReq = NoReq /\ ifindex = OurTeam
      /\ Head(cmdQ).kind \in {"ack", "error"}
    BY DEF RecvAck, RecvError, SnapInv, SlotInv, Snap, IfindexSet
<1>2. cmdQ' = <<>>
    BY <1>1, SlotTail DEF SnapInv, SlotInv, RecvAck, RecvError
<1>3. UNCHANGED <<ifindex, stage, port_list, option_list, evQ, kTeams, kOwner, kUp, kOpt,
                  portHist, optHist>>
    BY DEF RecvAck, RecvError, kvars
<1>4. /\ ver' = ver
      /\ \/ cmdReq' = cmdReq
         \/ cmdReq' = GetReq(TEAM_CMD_OPTIONS_GET) /\ cont' = "options"
  <2>1. CASE stage = "ready"
    <3>1. \E err : Return(err)
        BY <2>1 DEF RecvAck, RecvError
    <3>. QED  BY <3>1, ReturnSnapFacts
  <2>2. CASE stage # "ready"
      BY <2>2 DEF RecvAck, RecvError, dvars
  <2>. QED  BY <2>1, <2>2
<1>5. ReqMatches'
    BY <1>1, <1>3, <1>4 DEF ReqMatches, GetReq, Req, NoReq, TEAM_CMD_OPTIONS_GET
<1>6. EventsFromKernel'
    BY <1>3, EventsFrame DEF SnapInv, Snap
<1>7. SnapshotFromKernel'
    BY <1>3, <1>4, SnapshotFrame DEF SnapInv, Snap
<1>. QED  BY <1>1, <1>2, <1>3, <1>5, <1>6, <1>7
          DEF SnapInv, Snap, KernelTypes, IfindexSet, KernelRecorded, ReplyFromKernel

(* team_process_event whose read delivers the head message of the event  *)
(* socket: it is a kernel message, event_handler routes it to the        *)
(* callback of its command, and that callback drops it when it is about   *)
(* the other device.                                                       *)
LEMMA SnapReadEvent ==
    ASSUME DecodesKernelMessages, SnapInv, ReadEvent,
           UNCHANGED <<ifindex, stage, cont, cmdReq, cmdQ, kTeams, kOwner, kUp, kOpt,
                       portHist, optHist>>
    PROVE  Snap'
<1>1. /\ ReadEvent
      /\ UNCHANGED <<ifindex, stage, cont, cmdReq, cmdQ, kTeams, kOwner, kUp, kOpt,
                     portHist, optHist>>
    OBVIOUS
<1>2. evQ # <<>> /\ ifindex = OurTeam
    BY <1>1 DEF ReadEvent, SnapInv, Snap, IfindexSet
<1>3. Head(evQ) \in KernelMsgs /\ Tail(evQ) \in Seq(KernelMsgs)
    BY <1>2, HeadTailProperties DEF SnapInv, Snap, EventsFromKernel
<1> DEFINE m   == Head(evQ)
           reg == IF m.cmd = TEAM_CMD_PORT_LIST_GET THEN "ports" ELSE "options"
           r   == EventHandler(m, ifindex, 0)
<1>4. ApplyResult(reg, r) /\ ver' = Bump(ver, Changes(reg, r))
    BY <1>1 DEF ReadEvent
<1>5. m.cmd \in {TEAM_CMD_PORT_LIST_GET, TEAM_CMD_OPTIONS_GET}
    BY <1>3, KernelMsgCases
<1>6. reg = "ports" /\ r.act = "replace" => PortsOf(r.list) \in portHist
  <2>1. m.cmd = TEAM_CMD_PORT_LIST_GET => r = GetPortListHandler(m, OurTeam, 0)
      BY <1>2 DEF EventHandler, TEAM_CMD_PORT_LIST_GET, TEAM_CMD_OPTIONS_GET
  <2>. QED  BY <1>3, <2>1, KernelMsgDecode
<1>7. reg = "options" /\ r.act = "replace" => OptionsOf(r.list) \in optHist
  <2>1. m.cmd = TEAM_CMD_OPTIONS_GET => r = GetOptionsHandler(m, OurTeam, 0)
      BY <1>2 DEF EventHandler, TEAM_CMD_PORT_LIST_GET, TEAM_CMD_OPTIONS_GET
  <2>2. m.cmd # TEAM_CMD_PORT_LIST_GET => m.cmd = TEAM_CMD_OPTIONS_GET
      BY <1>5
  <2>. QED  BY <1>3, <2>1, <2>2, KernelMsgDecode
<1>8. SnapshotFromKernel'
    BY <1>1, <1>4, <1>6, <1>7, ApplySnap DEF SnapInv, Snap, IInv, DispatcherTypeOK
<1>9. KernelMsgs' = KernelMsgs
    BY <1>1 DEF KernelMsgs, RecPorts, RecOpts
<1>10. EventsFromKernel'
    BY <1>1, <1>3, <1>9 DEF ReadEvent, EventsFromKernel
<1>. QED  BY <1>1, <1>2, <1>8, <1>9, <1>10
          DEF SnapInv, Snap, KernelTypes, IfindexSet, ReqMatches, KernelRecorded,
              ReplyFromKernel

(* team_process_event, from user code or from team_check_events: a read  *)
(* that fails with ENOBUFS changes nothing Snap reads.                     *)
LEMMA SnapEvent ==
    ASSUME DecodesKernelMessages, SnapInv, TeamProcessEvent \/ CheckEventsStep
    PROVE  Snap'
<1>0. UNCHANGED <<ifindex, stage, cont, cmdReq, cmdQ, kTeams, kOwner, kUp, kOpt,
                  portHist, optHist>>
    BY DEF TeamProcessEvent, CheckEventsStep, kvars, ghostvars
<1>a. CASE ReadOverrun
    <2>1. UNCHANGED <<evQ, port_list, option_list, ver>>
        BY <1>a DEF ReadOverrun, CheckCallChangeHandlers
    <2>. QED  BY <1>0, <2>1, SnapFrame DEF SnapInv
<1>b. CASE ReadEvent
    BY <1>0, <1>b, SnapReadEvent
<1>. QED  BY <1>a, <1>b DEF TeamProcessEvent, CheckEventsStep, ProcessOneEvent

(* team_init sets th->ifindex to our device and, when it gets that far,   *)
(* sends get_port_list for it, with the port callback installed.          *)
LEMMA SnapTeamInit ==
    ASSUME SnapInv, TeamInit
    PROVE  Snap'
<1>1. cmdQ = <<>> /\ cmdReq = NoReq
    BY DEF TeamInit, SnapInv, SlotInv, NoStaleReply
<1>2. UNCHANGED <<port_list, option_list, cmdQ, evQ, kTeams, kOwner, kUp, kOpt,
                  portHist, optHist, ver>>
    BY DEF TeamInit, kvars, dvars
<1>3. ifindex' = OurTeam /\ ifindex' # 0
    BY LibTeamAssumption DEF TeamInit
<1> DEFINE getPorts == [NoReq EXCEPT !.cmd = TEAM_CMD_PORT_LIST_GET, !.team = OurTeam,
                                     !.resolved = TRUE]
<1>4. \/ cmdReq' = cmdReq
      \/ cmdReq' = getPorts /\ cont' = "ports"
    BY DEF TeamInit
<1>5. getPorts.team = OurTeam /\ getPorts.cmd = TEAM_CMD_PORT_LIST_GET
    BY DEF NoReq
<1>6. ReqMatches'
  <2>1. CASE cmdReq' = cmdReq
      BY <1>1, <2>1 DEF ReqMatches
  <2>2. CASE cmdReq' = getPorts /\ cont' = "ports"
    <3>1. cmdReq'.team = OurTeam /\ cmdReq'.cmd = TEAM_CMD_PORT_LIST_GET
        BY <2>2, <1>5, Zenon
    <3>. QED  BY <2>2, <3>1 DEF ReqMatches
  <2>. QED  BY <1>4, <2>1, <2>2
<1>7. EventsFromKernel' /\ SnapshotFromKernel'
    BY <1>2, EventsFrame, SnapshotFrame DEF SnapInv, Snap
<1>. QED  BY <1>1, <1>2, <1>3, <1>6, <1>7
          DEF SnapInv, Snap, KernelTypes, IfindexSet, KernelRecorded, ReplyFromKernel

(* team_set_option_value_by_name_*: the call is only possible once       *)
(* team_init connected the socket, hence set th->ifindex; the request     *)
(* carries our device and the value.                                       *)
LEMMA SnapSetOption ==
    ASSUME SnapInv, NEW n, NEW t, NEW v \in OptVals, TeamSetOptionValue(n, t, v)
    PROVE  Snap'
<1>1. cmdQ = <<>> /\ ifindex = OurTeam
    BY DEF TeamSetOptionValue, SnapInv, SlotInv, NoStaleReply, Snap, IfindexSet
<1>2. UNCHANGED <<ifindex, stage, port_list, option_list, cmdQ, evQ, kTeams, kOwner, kUp,
                  kOpt, portHist, optHist, ver>>
    BY DEF TeamSetOptionValue, ghostvars, dvars
<1>3. cmdReq' = Req(TEAM_CMD_OPTIONS_SET, n, t, v)
    BY DEF TeamSetOptionValue, SendAndRecv
<1>4. ReqMatches'
    BY <1>1, <1>3 DEF ReqMatches, Req
<1>5. EventsFromKernel' /\ SnapshotFromKernel'
    BY <1>2, EventsFrame, SnapshotFrame DEF SnapInv, Snap
<1>. QED  BY <1>1, <1>2, <1>4, <1>5, LibTeamAssumption
          DEF SnapInv, Snap, KernelTypes, IfindexSet, KernelRecorded, ReplyFromKernel

(* team_destroy deletes our device (th->ifindex is set): its ports are    *)
(* released, and the device no longer exists.                              *)
LEMMA SnapDestroy ==
    ASSUME SnapInv, TeamDestroy
    PROVE  Snap'
<1>1. ifindex = OurTeam /\ OurTeam \notin kTeams'
    BY DEF TeamDestroy, SnapInv, Snap, IfindexSet
<1>2. kTeams' \subseteq Teams /\ kOwner' \in OwnT
    BY DEF TeamDestroy, SnapInv, Snap, KernelTypes, OwnT
<1>3. UNCHANGED <<ifindex, stage, cont, port_list, option_list, cmdReq, cmdQ, evQ, kUp,
                  kOpt, portHist, optHist, ver>>
    BY DEF TeamDestroy, libvars, chanvars, ghostvars, dvars
<1>4. KernelMsgs' = KernelMsgs
    BY <1>3 DEF KernelMsgs, RecPorts, RecOpts
<1>5. EventsFromKernel' /\ SnapshotFromKernel'
    BY <1>3, EventsFrame, SnapshotFrame DEF SnapInv, Snap
<1>. QED  BY <1>1, <1>2, <1>3, <1>4, <1>5
          DEF SnapInv, Snap, KernelTypes, IfindexSet, ReqMatches, KernelRecorded,
              ReplyFromKernel
(* The kernel's replies to a GET are built from its current state of our  *)
(* device, which the history holds.                                        *)
LEMMA ReplyMsgsFromKernel ==
    ASSUME KernelTypes, KernelRecorded, OurTeam \in kTeams
    PROVE  /\ PortListMsg(OurTeam, 0, kOwner, kUp) \in KernelMsgs
           /\ OptionListMsg(OurTeam, NoAttr, kOpt) \in KernelMsgs
<1>1. <<kOwner, kUp>> \in RecPorts
    BY DEF KernelTypes, KernelRecorded, RecPorts
<1>2. kOpt \in RecOpts
    BY DEF KernelTypes, KernelRecorded, RecOpts
<1>3. OurTeam \in Teams /\ 0 \in PortIdx \cup {0} /\ NoAttr \in OptNames \cup {NoAttr}
    BY DEF Teams
<1>4. PortListMsg(OurTeam, 0, kOwner, kUp)
        = PortListMsg(OurTeam, 0, <<kOwner, kUp>>[1], <<kOwner, kUp>>[2])
    OBVIOUS
<1>. QED  BY <1>1, <1>2, <1>3, <1>4 DEF KernelMsgs

(* The kernel answers into the empty socket with a list message that is   *)
(* the reply the waiting call decodes.                                     *)
LEMMA SnapReplyList ==
    ASSUME Snap, cmdQ = <<>>, ifindex = OurTeam,
           NEW m \in KernelMsgs, m.cmd = ContCmd(cont), ReplyList(m),
           cmdReq' = NoReq,
           UNCHANGED <<ifindex, stage, cont, port_list, option_list, kTeams, kOwner, kUp,
                       portHist, ver>>
    PROVE  Snap'
<1>1. cmdQ' = <<[kind |-> "valid", msg |-> m], [kind |-> "ack"]>>
    BY DEF ReplyList
<1>2. UNCHANGED <<kOpt, evQ, optHist>>
    BY DEF ReplyList
<1>3. KernelMsgs' = KernelMsgs
    BY <1>2 DEF KernelMsgs, RecPorts, RecOpts
<1>4. ReplyFromKernel'
    BY <1>1, <1>3 DEF ReplyFromKernel
<1>5. EventsFromKernel' /\ SnapshotFromKernel'
    BY <1>2, EventsFrame, SnapshotFrame DEF Snap
<1>. QED  BY <1>1, <1>2, <1>4, <1>5, LibTeamAssumption
          DEF Snap, KernelTypes, IfindexSet, ReqMatches, KernelRecorded

(* The kernel applies an option set of our library: the new value is     *)
(* recorded, multicast as a kernel message, and acknowledged.             *)
LEMMA SnapReplySet ==
    ASSUME Snap, cmdQ = <<>>, ifindex = OurTeam, NEW q, q.team = OurTeam,
           ValidSet(q), q.data \in OptVals, ReplySet(q), cmdReq' = NoReq,
           UNCHANGED <<ifindex, stage, cont, port_list, option_list, kTeams, kOwner, kUp,
                       portHist, ver>>
    PROVE  Snap'
<1>1. PICK opt : opt = [kOpt EXCEPT ![q.team][q.name] = q.data]
    BY Zenon
<1>2. opt \in OptT /\ q.name \in OptNames
    BY <1>1 DEF Snap, KernelTypes, OptT, ValidSet, Teams
<1>3. kOpt' = opt /\ optHist' = optHist \cup {opt[OurTeam]}
      /\ cmdQ' = <<AckMsg>> /\ Emit(OptionListMsg(OurTeam, q.name, opt))
    BY <1>1 DEF ReplySet, AckMsg
<1>4. opt \in RecOpts'
  <2>1. opt[OurTeam] \in optHist'
      BY <1>3
  <2>. QED  BY <1>2, <2>1, Zenon DEF RecOpts
<1>5. KernelMsgs \subseteq KernelMsgs'
    BY <1>3, KernelMsgsGrow
<1>6. OptionListMsg(OurTeam, q.name, opt) \in KernelMsgs'
  <2>1. OurTeam \in Teams /\ q.name \in OptNames \cup {NoAttr}
      BY <1>2 DEF Teams
  <2>. QED  BY <1>4, <2>1 DEF KernelMsgs
<1>7. EventsFromKernel'
    BY <1>3, <1>5, <1>6, EmitKernel DEF Snap
<1>8. SnapshotFromKernel'
    BY <1>3, SnapshotFrame DEF Snap
<1>9. KernelTypes' /\ KernelRecorded'
    BY <1>2, <1>3 DEF Snap, KernelTypes, KernelRecorded
<1>. QED  BY <1>3, <1>7, <1>8, <1>9, LibTeamAssumption
          DEF Snap, IfindexSet, ReqMatches, ReplyFromKernel, AckMsg

(* The kernel reads the request of the waiting call: an error, the list   *)
(* the request asked for, or the set it carries.                           *)
LEMMA SnapKernelReply ==
    ASSUME SnapInv, KernelReply
    PROVE  Snap'
<1> DEFINE q == cmdReq
<1>1. q # NoReq /\ cmdQ = <<>> /\ q.team = OurTeam /\ ifindex = OurTeam
    BY DEF KernelReply, NoReq, SnapInv, SlotInv, Snap, ReqMatches, IfindexSet
<1>2. cmdReq' = NoReq
      /\ UNCHANGED <<ifindex, stage, cont, port_list, option_list, kTeams, kOwner, kUp,
                     portHist, ver>>
    BY DEF KernelReply, libvars, dvars
<1>3. \/ \E e : ReplyError(e)
      \/ q.team \in kTeams /\ q.cmd = TEAM_CMD_PORT_LIST_GET
         /\ ReplyList(PortListMsg(q.team, 0, kOwner, kUp))
      \/ q.team \in kTeams /\ q.cmd = TEAM_CMD_OPTIONS_GET
         /\ ReplyList(OptionListMsg(q.team, NoAttr, kOpt))
      \/ q.cmd \notin {TEAM_CMD_PORT_LIST_GET, TEAM_CMD_OPTIONS_GET} /\ ValidSet(q)
         /\ ReplySet(q)
    BY DEF KernelReply
<1>4. CASE \E e : ReplyError(e)
  <2>1. PICK e : ReplyError(e)
      BY <1>4
  <2>2. cmdQ' = <<[kind |-> "error", err |-> e]>> /\ UNCHANGED <<kOpt, evQ, optHist>>
      BY <1>1, <2>1 DEF ReplyError
  <2>3. EventsFromKernel' /\ SnapshotFromKernel'
      BY <1>2, <2>2, EventsFrame, SnapshotFrame DEF SnapInv, Snap
  <2>4. ReplyFromKernel'
      BY <2>2 DEF ReplyFromKernel
  <2>5. IfindexSet'
      BY <1>1, <1>2, LibTeamAssumption DEF IfindexSet
  <2>6. KernelTypes' /\ ReqMatches' /\ KernelRecorded'
      BY <1>2, <2>2 DEF SnapInv, Snap, KernelTypes, ReqMatches, KernelRecorded
  <2>. QED  BY <2>3, <2>4, <2>5, <2>6 DEF Snap
<1>5. CASE q.team \in kTeams /\ q.cmd = TEAM_CMD_PORT_LIST_GET
           /\ ReplyList(PortListMsg(q.team, 0, kOwner, kUp))
  <2>1. PortListMsg(OurTeam, 0, kOwner, kUp) \in KernelMsgs
      BY <1>1, <1>5, ReplyMsgsFromKernel DEF SnapInv, Snap
  <2>2. cont = "ports"
      BY <1>1, <1>5 DEF SnapInv, Snap, ReqMatches, TEAM_CMD_PORT_LIST_GET,
                        TEAM_CMD_OPTIONS_GET, TEAM_CMD_OPTIONS_SET
  <2>3. PortListMsg(OurTeam, 0, kOwner, kUp).cmd = ContCmd(cont)
      BY <2>2 DEF PortListMsg, ContCmd
  <2>. QED  BY <1>1, <1>2, <1>5, <2>1, <2>3, SnapReplyList DEF SnapInv
<1>6. CASE q.team \in kTeams /\ q.cmd = TEAM_CMD_OPTIONS_GET
           /\ ReplyList(OptionListMsg(q.team, NoAttr, kOpt))
  <2>1. OptionListMsg(OurTeam, NoAttr, kOpt) \in KernelMsgs
      BY <1>1, <1>6, ReplyMsgsFromKernel DEF SnapInv, Snap
  <2>2. cont = "options"
      BY <1>1, <1>6 DEF SnapInv, Snap, ReqMatches, TEAM_CMD_PORT_LIST_GET,
                        TEAM_CMD_OPTIONS_GET, TEAM_CMD_OPTIONS_SET
  <2>3. OptionListMsg(OurTeam, NoAttr, kOpt).cmd = ContCmd(cont)
      BY <2>2 DEF OptionListMsg, ContCmd, TEAM_CMD_PORT_LIST_GET, TEAM_CMD_OPTIONS_GET
  <2>. QED  BY <1>1, <1>2, <1>6, <2>1, <2>3, SnapReplyList DEF SnapInv
<1>7. CASE q.cmd \notin {TEAM_CMD_PORT_LIST_GET, TEAM_CMD_OPTIONS_GET} /\ ValidSet(q)
           /\ ReplySet(q)
  <2>1. q.data \in OptVals
      BY <1>1, <1>7 DEF SnapInv, Snap, ReqMatches
  <2>. QED  BY <1>1, <1>2, <1>7, <2>1, SnapReplySet DEF SnapInv
<1>. QED  BY <1>3, <1>4, <1>5, <1>6, <1>7
(* A change the kernel makes on its own: the new state is recorded, and  *)
(* its port list message, of whichever team, is a kernel message.  Before *)
(* team_init nothing is subscribed and the message is not queued.          *)
LEMMA SnapKernelChange ==
    ASSUME SnapInv, NEW own \in OwnT, NEW up \in UpT, NEW t \in Teams,
           NEW ch \in PortIdx \cup {0}, KernelChange(own, up, t, ch)
    PROVE  Snap'
<1>1. /\ kOwner' = own /\ kUp' = up
      /\ portHist' = portHist \cup {PortState(OurTeam, own, up)}
      /\ optHist' = optHist \cup {kOpt[OurTeam]}
      /\ Emit(PortListMsg(t, ch, own, up))
      /\ UNCHANGED <<ifindex, stage, cont, port_list, option_list, cmdReq, cmdQ,
                     kTeams, kOpt, ver>>
    BY DEF KernelChange, RecordHistory, libvars, dvars
<1>2. <<own, up>> \in RecPorts'
    BY <1>1, Zenon DEF RecPorts
<1>3. KernelMsgs \subseteq KernelMsgs'
    BY <1>1, KernelMsgsGrow
<1>4. PortListMsg(t, ch, own, up) \in KernelMsgs'
  <2>1. PortListMsg(t, ch, own, up) = PortListMsg(t, ch, <<own, up>>[1], <<own, up>>[2])
      OBVIOUS
  <2>. QED  BY <1>2, <2>1 DEF KernelMsgs
<1>5. EventsFromKernel'
    BY <1>3, <1>4, <1>1, EmitKernel DEF SnapInv, Snap
<1>6. IfindexSet'
    BY <1>1 DEF SnapInv, Snap, IfindexSet, Emit
<1>7. ReplyFromKernel'
    BY <1>1, <1>3 DEF SnapInv, Snap, ReplyFromKernel
<1>8. SnapshotFromKernel'
    BY <1>1, SnapshotFrame DEF SnapInv, Snap
<1>9. KernelTypes' /\ KernelRecorded'
    BY <1>1 DEF SnapInv, Snap, KernelTypes, KernelRecorded
<1>. QED  BY <1>1, <1>5, <1>6, <1>7, <1>8, <1>9 DEF SnapInv, Snap, ReqMatches

(* Another process sets an option of either team: the same, for the      *)
(* option list message.                                                    *)
LEMMA SnapOtherSet ==
    ASSUME SnapInv, NEW t \in Teams, NEW n \in OptNames, NEW v \in OptVals,
           OtherSetOption(t, n, v)
    PROVE  Snap'
<1>1. PICK opt : opt = [kOpt EXCEPT ![t][n] = v]
    BY Zenon
<1>2. opt \in OptT
    BY <1>1 DEF SnapInv, Snap, KernelTypes, OptT
<1>3. /\ kOpt' = opt
      /\ portHist' = portHist \cup {PortState(OurTeam, kOwner, kUp)}
      /\ optHist' = optHist \cup {opt[OurTeam]}
      /\ Emit(OptionListMsg(t, n, opt))
      /\ UNCHANGED <<ifindex, stage, cont, port_list, option_list, cmdReq, cmdQ,
                     kTeams, kOwner, kUp, ver>>
    BY <1>1 DEF OtherSetOption, RecordHistory, libvars, dvars
<1>4. opt \in RecOpts'
  <2>1. opt[OurTeam] \in optHist'
      BY <1>3
  <2>. QED  BY <1>2, <2>1, Zenon DEF RecOpts
<1>5. KernelMsgs \subseteq KernelMsgs'
    BY <1>3, KernelMsgsGrow
<1>6. OptionListMsg(t, n, opt) \in KernelMsgs'
    BY <1>4 DEF KernelMsgs
<1>7. EventsFromKernel'
    BY <1>3, <1>5, <1>6, EmitKernel DEF SnapInv, Snap
<1>8. IfindexSet'
    BY <1>3 DEF SnapInv, Snap, IfindexSet, Emit
<1>9. ReplyFromKernel'
    BY <1>3, <1>5 DEF SnapInv, Snap, ReplyFromKernel
<1>10. SnapshotFromKernel'
    BY <1>3, SnapshotFrame DEF SnapInv, Snap
<1>11. KernelTypes' /\ KernelRecorded'
    BY <1>2, <1>3 DEF SnapInv, Snap, KernelTypes, KernelRecorded
<1>. QED  BY <1>3, <1>7, <1>8, <1>9, <1>10, <1>11 DEF SnapInv, Snap, ReqMatches
(* At start no socket carries anything and nothing has been installed.     *)
LEMMA SnapInit == Init => Snap
<1> SUFFICES ASSUME Init PROVE Snap
    OBVIOUS
<1>1. KernelTypes
  <2>1. InitOwner \in OwnT
      BY DEF InitOwner, OwnT, Teams
  <2>2. InitOpt \in OptT
      BY LibTeamAssumption DEF InitOpt, OptT
  <2>. QED  BY <2>1, <2>2 DEF Init, KernelTypes, UpT
<1>2. KernelRecorded
    BY DEF Init, KernelRecorded
<1>3. SnapshotFromKernel
    BY DEF Init, DispatcherInit, SnapshotFromKernel, TEAM_ANY_CHANGE
<1>. QED  BY <1>1, <1>2, <1>3
          DEF Init, Snap, IfindexSet, ReqMatches, EventsFromKernel, ReplyFromKernel

(* Every step of the library or the kernel keeps the strengthened          *)
(* invariant, given what the callbacks decode.                             *)
LEMMA SnapNext ==
    ASSUME DecodesKernelMessages
    PROVE  SnapInv /\ [Next]_vars => SnapInv'
<1> SUFFICES ASSUME SnapInv, [Next]_vars PROVE SnapInv'
    OBVIOUS
<1>1. SlotInv' /\ IInv'
    BY SlotNext, DispatcherInLibTeam DEF SnapInv
<1> SUFFICES Snap'
    BY <1>1 DEF SnapInv
<1>2. CASE RecvValid
    BY <1>2, SnapRecvValid
<1>3. CASE RecvAck \/ RecvError
    BY <1>3, SnapRecvAckError
<1>4. CASE TeamProcessEvent \/ CheckEventsStep
    BY <1>4, SnapEvent
<1>5. CASE \/ CheckEventsDone \/ TeamCheckEvents \/ KernelReplyLost \/ UNCHANGED vars
           \/ \E h \in Handlers : Register(h) \/ Unregister(h)
  <2>1. cmdReq' \in {cmdReq, NoReq}
        /\ UNCHANGED <<ifindex, stage, cont, port_list, option_list, cmdQ, evQ,
                       kTeams, kOwner, kUp, kOpt, portHist, optHist, ver>>
      BY <1>5 DEF CheckEventsDone, TeamCheckEvents, KernelReplyLost, Register, Unregister,
                  TeamChangeHandlerRegister, TeamChangeHandlerUnregister,
                  vars, libvars, chanvars, kvars, ghostvars, dvars
  <2>. QED  BY <2>1, SnapFrame DEF SnapInv
<1>6. CASE TeamInit
    BY <1>6, SnapTeamInit
<1>7. CASE \/ \E n \in OptNames, t \in {NLA_U32, NLA_STRING}, v \in OptVals :
                 TeamSetOptionValue(n, t, v)
           \/ \E v \in OptVals : TeamSetModeName(v) \/ TeamSetActivePort(v)
    BY <1>7, SnapSetOption DEF TeamSetModeName, TeamSetActivePort
<1>8. CASE TeamDestroy
    BY <1>8, SnapDestroy
<1>9. CASE KernelReply
    BY <1>9, SnapKernelReply
<1>10. CASE \E p \in PortIdx, t \in Teams : PortAdd(p, t)
  <2>1. PICK p \in PortIdx, t \in Teams : PortAdd(p, t)
      BY <1>10
  <2>2. [kOwner EXCEPT ![p] = t] \in OwnT
      BY DEF SnapInv, Snap, KernelTypes, OwnT
  <2>3. kUp \in UpT /\ p \in PortIdx \cup {0}
      BY DEF SnapInv, Snap, KernelTypes
  <2>. QED  BY <2>1, <2>2, <2>3, SnapKernelChange DEF PortAdd
<1>11. CASE \E p \in PortIdx : PortRemove(p)
  <2>1. PICK p \in PortIdx : PortRemove(p)
      BY <1>11
  <2>2. [kOwner EXCEPT ![p] = 0] \in OwnT /\ kOwner[p] \in Teams
      BY <2>1 DEF PortRemove, SnapInv, Snap, KernelTypes, OwnT
  <2>3. kUp \in UpT
      BY DEF SnapInv, Snap, KernelTypes
  <2>. QED  BY <2>1, <2>2, <2>3, SnapKernelChange DEF PortRemove
<1>12. CASE \E p \in PortIdx : LinkChange(p)
  <2>1. PICK p \in PortIdx : LinkChange(p)
      BY <1>12
  <2>2. [kUp EXCEPT ![p] = ~@] \in UpT /\ kOwner[p] \in Teams
      BY <2>1 DEF LinkChange, SnapInv, Snap, KernelTypes, UpT, OwnT
  <2>3. kOwner \in OwnT /\ p \in PortIdx \cup {0}
      BY DEF SnapInv, Snap, KernelTypes
  <2>. QED  BY <2>1, <2>2, <2>3, SnapKernelChange DEF LinkChange
<1>13. CASE \E t \in Teams, n \in OptNames, v \in OptVals : OtherSetOption(t, n, v)
    BY <1>13, SnapOtherSet
<1>. QED  BY <1>2, <1>3, <1>4, <1>5, <1>6, <1>7, <1>8, <1>9, <1>10, <1>11, <1>12, <1>13
          DEF Next, LibraryStep, UserCall, KernelStep

(* Every snapshot is the kernel's: whatever interleaving of requests,      *)
(* replies, lost replies, kernel changes to either device, option sets by  *)
(* other processes and team_process_event calls occurs, once a registry    *)
(* has been replaced it holds a state our device really had.  The         *)
(* hypothesis is what the item loops of get_port_list_handler and          *)
(* get_options_handler compute on a message of our own device.             *)
THEOREM SnapshotFromKernelInvariant ==
    ASSUME DecodesKernelMessages
    PROVE  Spec => []SnapshotFromKernel
<1>1. Init => SnapInv
    BY SlotInit, InitIInv, SnapInit DEF Init, SnapInv
<1>2. SnapInv /\ [Next]_vars => SnapInv'
    BY SnapNext
<1>3. SnapInv => SnapshotFromKernel
    BY DEF SnapInv, Snap
<1>. QED  BY <1>1, <1>2, <1>3, PTL DEF Spec
=============================================================================
