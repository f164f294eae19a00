----------------------------- MODULE MCLibTeam ------------------------------
(***************************************************************************)
(* LibTeam on two team devices (ours, 1, and another, 2), two ports that  *)
(* start on our team and free, the two options of the activebackup mode   *)
(* ("mode", a string, and "activeport", a u32) with two values each, and  *)
(* two handlers: one for port changes only, one for both.                 *)
(***************************************************************************)
EXTENDS LibTeam

MCPortOrder == <<3, 4>>
MCOptOrder == <<"mode", "activeport">>
MCHandlerMask == [h \in Handlers |->
                    IF h = "hPort" THEN {TEAM_PORT_CHANGE} ELSE TEAM_ANY_CHANGE]
MCOptType == [n \in OptNames |-> IF n = "mode" THEN NLA_STRING ELSE NLA_U32]

(* The hypothesis of SnapshotFromKernelInvariant, on this instance: every *)
(* port or option list message the kernel can build for our device is     *)
(* skipped or decoded by get_port_list_handler / get_options_handler into *)
(* exactly our device's ports and option values.  It only reads constants, *)
(* so TLC evaluates it once, before each run of this module.               *)
ASSUME MCDecodesKernelMessages == DecodesKernelMessages
=============================================================================
