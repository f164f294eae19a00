---------------------------- MODULE MCTeamCodec -----------------------------
(***************************************************************************)
(* The decoding callbacks checked against the spec's decoding rules on    *)
(* every message of up to MaxItems items built from a small alphabet of   *)
(* attribute values, for each position of a failing allocation.           *)
(***************************************************************************)
EXTENDS TeamCodec

CONSTANTS OurTeam, OtherTeam, PortIdx, Speeds, OptNames, MaxItems

VARIABLES msg, fail
vars == <<msg, fail>>

Lists(S) == UNION {[1..n -> S] : n \in 0..MaxItems}

PortItems ==
    {BadItem} \cup
    [ifindex: PortIdx \cup {NoAttr}, speed: Speeds \cup {NoAttr},
     duplex: {1, NoAttr}, linkup: BOOLEAN, changed: BOOLEAN]

OptionItems ==
    {BadItem} \cup
    [name: OptNames \cup {NoAttr}, type: NlaTypes \cup {NoAttr},
     data: OptVals \cup {NoAttr}, changed: BOOLEAN]

Msgs ==
    [cmd: {TEAM_CMD_PORT_LIST_GET}, team: {NoAttr, OurTeam, OtherTeam},
     list: Lists(PortItems) \cup {NoAttr}]
    \cup
    [cmd: {TEAM_CMD_OPTIONS_GET}, team: {NoAttr, OurTeam, OtherTeam},
     list: Lists(OptionItems) \cup {NoAttr}]

Init == msg \in Msgs /\ fail \in 0..MaxItems
Next == UNCHANGED vars
Spec == Init /\ [][Next]_vars

Result == EventHandler(msg, OurTeam, fail)

-----------------------------------------------------------------------------
(* The decoding rules of the spec (sections 3, 4.1 and 6), stated apart   *)
(* from the code.                                                          *)

WellFormedPort(item) == item # BadItem /\ item.ifindex # NoAttr
WellFormedOption(item) ==
    item # BadItem /\ item.name # NoAttr /\ item.type # NoAttr /\ item.data # NoAttr
WellFormed(item) ==
    IF msg.cmd = TEAM_CMD_PORT_LIST_GET THEN WellFormedPort(item) ELSE WellFormedOption(item)

(* Ports: one per item, with speed 0 and half duplex when not reported.   *)
SpecPort(item) ==
    [ifindex |-> item.ifindex,
     speed   |-> IF item.speed = NoAttr THEN 0 ELSE item.speed,
     duplex  |-> IF item.duplex = NoAttr THEN 0 ELSE item.duplex,
     linkup  |-> item.linkup, changed |-> item.changed]

(* Options: items of a known type, the first of each name kept.            *)
Keep(items, i) ==
    /\ WellFormedOption(items[i])
    /\ items[i].type \in {NLA_U32, NLA_STRING}
    /\ ~\E j \in 1..(i - 1) : /\ WellFormedOption(items[j])
                             /\ items[j].type \in {NLA_U32, NLA_STRING}
                             /\ items[j].name = items[i].name
SpecOption(item) ==
    [name |-> item.name, data |-> item.data, changed |-> item.changed,
     type |-> IF item.type = NLA_U32 THEN TEAM_OPTION_TYPE_U32 ELSE TEAM_OPTION_TYPE_STRING]

(* The decoded list of the well-formed items of a list, in order.         *)
SpecList(items) ==
    LET Kept(i) == IF msg.cmd = TEAM_CMD_PORT_LIST_GET
                   THEN WellFormedPort(items[i]) ELSE Keep(items, i)
        idx == SelectSeq([i \in DOMAIN items |-> i], Kept)
    IN [k \in DOMAIN idx |->
          IF msg.cmd = TEAM_CMD_PORT_LIST_GET THEN SpecPort(items[idx[k]])
          ELSE SpecOption(items[idx[k]])]

ForUs == MsgTeamIfindex(msg) = OurTeam /\ msg.list # NoAttr

-----------------------------------------------------------------------------
(* Decoding of well-formed batches: a message of this team whose items are *)
(* all well formed replaces the registry with exactly the spec's list     *)
(* (defaults for absent port attributes, first option of a name wins,     *)
(* unknown option types dropped), and any other team's message, or one    *)
(* without a list, leaves the registry alone (get_port_list_handler and    *)
(* get_options_handler).                                                   *)
DecodeAsSpecified ==
    fail = 0 =>
        IF ~ForUs THEN Result = Skip(0)
        ELSE (\A i \in DOMAIN msg.list : WellFormed(msg.list[i]))
                 => Result = Replace(SpecList(msg.list))

(* Spec 4.1: an item missing a mandatory attribute is skipped and the rest *)
(* of the batch still decoded.  The code returns from the callback at the *)
(* first such item, so the registry keeps its old contents.                *)
MalformedItemSkipped ==
    (fail = 0 /\ ForUs) => Result = Replace(SpecList(msg.list))

(* Spec 1: snapshots are replaced "without leaking": a callback that gives *)
(* up on a message frees what it built.  The code drops tmp_list as is.   *)
NoLeak == Result.leaked = 0

(* Spec 7: nothing in the core is fatal; an allocation failure is an       *)
(* error.  create_option may return NULL, which get_options_handler hands  *)
(* straight to list_add.                                                    *)
NoCrashOnAllocFailure == Result.act # "crash"
=============================================================================
