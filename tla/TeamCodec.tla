----------------------------- MODULE TeamCodec ------------------------------
(***************************************************************************)
(* Decoding of the team generic-netlink messages by libteam's valid-      *)
(* message callbacks get_port_list_handler and get_options_handler, and   *)
(* the routing of event_handler.  A message is a record: its command, its *)
(* TEAM_ATTR_TEAM_IFINDEX attribute and its nested list attribute, whose   *)
(* items are records of optional attributes (NoAttr when absent) or      *)
(* BadItem when nla_parse_nested rejects the item.                         *)
(*                                                                         *)
(* A callback's effect on the context is a Result: "replace" the registry *)
(* with a new list, "skip" the message (the registry is left alone; the   *)
(* nodes already built for the temporary list are leaked), or "crash" (a  *)
(* NULL dereference).  An allocation failure is an input: the position of *)
(* the item whose malloc returns NULL, 0 when none does.                  *)
(***************************************************************************)
EXTENDS Naturals, Sequences, TeamList

CONSTANTS
    NoAttr,     \* an attribute absent from the message
    BadItem,    \* a nested item nla_parse_nested fails on
    OptVals     \* option data payloads (u32 numbers or strings, abstracted)

(* Commands of linux/if_team.h used by libteam.                            *)
TEAM_CMD_PORT_LIST_GET == "PORT_LIST_GET"
TEAM_CMD_OPTIONS_GET == "OPTIONS_GET"
TEAM_CMD_OPTIONS_SET == "OPTIONS_SET"

(* Netlink attribute types that an option's TEAM_ATTR_OPTION_TYPE may hold. *)
NLA_U32 == "NLA_U32"
NLA_STRING == "NLA_STRING"
NLA_FLAG == "NLA_FLAG"
NlaTypes == {NLA_U32, NLA_STRING, NLA_FLAG}

(* enum team_option_type of team.h.                                        *)
TEAM_OPTION_TYPE_U32 == "U32"
TEAM_OPTION_TYPE_STRING == "STRING"

(* A result of a valid-message callback.                                   *)
Skip(leaked) == [act |-> "skip", list |-> <<>>, leaked |-> leaked]
Replace(l) == [act |-> "replace", list |-> l, leaked |-> 0]
Crash == [act |-> "crash", list |-> <<>>, leaked |-> 0]

(* team_ifindex of a message: 0 unless TEAM_ATTR_TEAM_IFINDEX is present.  *)
MsgTeamIfindex(msg) == IF msg.team = NoAttr THEN 0 ELSE msg.team

(* The state of the nla_for_each_nested loop after some items: still      *)
(* running with the temporary list built so far, or left by a return.     *)
Running(tmp) == [status |-> "run", tmp |-> tmp]
Returned(st) == [st EXCEPT !.status = "skip"]

-----------------------------------------------------------------------------
(* Ports.                                                                  *)

(* struct team_port built from one item: memset to 0, then each attribute *)
(* present overrides its field.                                            *)
PortOf(item) ==
    [ifindex |-> item.ifindex,
     speed   |-> IF item.speed = NoAttr THEN 0 ELSE item.speed,
     duplex  |-> IF item.duplex = NoAttr THEN 0 ELSE item.duplex,
     linkup  |-> item.linkup,
     changed |-> item.changed]

(* One iteration of the loop of get_port_list_handler.  allocFails: the   *)
(* malloc of this port returns NULL.                                       *)
PortItemStep(st, item, allocFails) ==
    IF item = BadItem THEN Returned(st)
    ELSE IF item.ifindex = NoAttr THEN Returned(st)
    ELSE IF allocFails THEN Returned(st)
    ELSE [st EXCEPT !.tmp = ListAdd(@, PortOf(item))]

(* The loop over all items, as a recursive function over the prefix.       *)
PortScan(items, fail) ==
    LET S[i \in 0..Len(items)] ==
            IF i = 0 THEN Running(<<>>)
            ELSE IF S[i - 1].status # "run" THEN S[i - 1]
            ELSE PortItemStep(S[i - 1], items[i], i = fail)
    IN S[Len(items)]

(* Mutant: the TEAM_ATTR_TEAM_IFINDEX check left out.                       *)
GetPortListHandlerNoFilter(msg, ifindex, fail) ==
    IF msg.list = NoAttr THEN Skip(0)
    ELSE LET st == PortScan(msg.list, fail)
         IN IF st.status = "run" THEN Replace(st.tmp) ELSE Skip(Len(st.tmp))

(* get_port_list_handler: messages of another team device, or without a   *)
(* port list, are skipped; so is the whole message as soon as one item is *)
(* malformed.  Otherwise the new list replaces th->port_list.              *)
GetPortListHandler(msg, ifindex, fail) ==
    IF MsgTeamIfindex(msg) # ifindex \/ msg.list = NoAttr THEN Skip(0)
    ELSE LET st == PortScan(msg.list, fail)
         IN IF st.status = "run" THEN Replace(st.tmp) ELSE Skip(Len(st.tmp))

-----------------------------------------------------------------------------
(* Options.                                                                *)

(* __find_option on a list: is there an option of that name?               *)
HasOption(l, name) == \E i \in DOMAIN l : l[i].name = name

(* The option type create_option records for an attribute type.            *)
OptTypeOf(nlaType) ==
    IF nlaType = NLA_U32 THEN TEAM_OPTION_TYPE_U32 ELSE TEAM_OPTION_TYPE_STRING

(* Mutant: no __find_option on the temporary list.                        *)
OptionItemStepNoDup(st, item, allocFails) ==
    IF item = BadItem THEN Returned(st)
    ELSE IF item.name = NoAttr \/ item.type = NoAttr \/ item.data = NoAttr
         THEN Returned(st)
    ELSE IF item.type \notin {NLA_U32, NLA_STRING} THEN st
    ELSE IF allocFails THEN [st EXCEPT !.status = "crash"]
    ELSE [st EXCEPT !.tmp = ListAdd(@, [name    |-> item.name,
                                        type    |-> OptTypeOf(item.type),
                                        data    |-> item.data,
                                        changed |-> item.changed])]

(* One iteration of the loop of get_options_handler.  A duplicate name or *)
(* an unknown type skips the item (continue); a missing attribute returns *)
(* from the callback; a NULL from create_option is handed to list_add.     *)
OptionItemStep(st, item, allocFails) ==
    IF item = BadItem THEN Returned(st)
    ELSE IF item.name = NoAttr \/ item.type = NoAttr \/ item.data = NoAttr
         THEN Returned(st)
    ELSE IF HasOption(st.tmp, item.name) THEN st
    ELSE IF item.type \notin {NLA_U32, NLA_STRING} THEN st
    ELSE IF allocFails THEN [st EXCEPT !.status = "crash"]
    ELSE [st EXCEPT !.tmp = ListAdd(@, [name    |-> item.name,
                                        type    |-> OptTypeOf(item.type),
                                        data    |-> item.data,
                                        changed |-> item.changed])]

OptionScan(items, fail) ==
    LET S[i \in 0..Len(items)] ==
            IF i = 0 THEN Running(<<>>)
            ELSE IF S[i - 1].status # "run" THEN S[i - 1]
            ELSE OptionItemStep(S[i - 1], items[i], i = fail)
    IN S[Len(items)]

(* get_options_handler.                                                    *)
GetOptionsHandler(msg, ifindex, fail) ==
    IF MsgTeamIfindex(msg) # ifindex \/ msg.list = NoAttr THEN Skip(0)
    ELSE LET st == OptionScan(msg.list, fail)
         IN CASE st.status = "run"   -> Replace(st.tmp)
              [] st.status = "crash" -> Crash
              [] OTHER               -> Skip(Len(st.tmp))

(* Mutant: event_handler without the TEAM_CMD_OPTIONS_GET case.            *)
EventHandlerPortsOnly(msg, ifindex, fail) ==
    CASE msg.cmd = TEAM_CMD_PORT_LIST_GET -> GetPortListHandler(msg, ifindex, fail)
      [] OTHER                            -> Skip(0)

(* event_handler: route a multicast message by its command.                *)
EventHandler(msg, ifindex, fail) ==
    CASE msg.cmd = TEAM_CMD_PORT_LIST_GET -> GetPortListHandler(msg, ifindex, fail)
      [] msg.cmd = TEAM_CMD_OPTIONS_GET   -> GetOptionsHandler(msg, ifindex, fail)
      [] OTHER                            -> Skip(0)

-----------------------------------------------------------------------------
(* Reading the option registry.                                            *)

(* team_get_option_by_name (__find_option on th->option_list): the position *)
(* of the first option of that name, 0 when there is none.                 *)
FindOption(l, name) ==
    LET I == {i \in DOMAIN l : l[i].name = name}
    IN IF I = {} THEN 0 ELSE CHOOSE i \in I : \A j \in I : i <= j
=============================================================================
