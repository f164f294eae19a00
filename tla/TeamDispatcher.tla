--------------------------- MODULE TeamDispatcher ---------------------------
(***************************************************************************)
(* The change-handler dispatcher of libteam (src/lib/libteam.c, section    *)
(* "Change handlers").  A context keeps an ordered list of registered     *)
(* handlers, each with a fixed interest mask, and a pending-change mask    *)
(* that the port and option registries OR bits into whenever they replace *)
(* their snapshot.  check_call_change_handlers(th, m) calls every handler  *)
(* whose mask meets pending /\ m, in list order, then clears m.            *)
(*                                                                         *)
(* Bit masks are sets of change types.  Two ghost variables record what   *)
(* the properties talk about: ver[c] counts the snapshot replacements of   *)
(* category c, seen[h][c] is the value of ver[c] when handler h was last   *)
(* told about c (or when it registered).                                   *)
(***************************************************************************)
EXTENDS Naturals, Sequences, TeamList

CONSTANTS
    Handlers,      \* the team_change_handler structures a caller may register
    HandlerMask,   \* handler->type_mask of each of them
    MaxChanges     \* bound on snapshot replacements per category (standalone runs)

(* The change types of team.h: TEAM_PORT_CHANGE and TEAM_OPTION_CHANGE.    *)
TEAM_PORT_CHANGE == "port"
TEAM_OPTION_CHANGE == "option"
TEAM_ANY_CHANGE == {TEAM_PORT_CHANGE, TEAM_OPTION_CHANGE}

ASSUME DispatcherAssumption ==
    /\ HandlerMask \in [Handlers -> SUBSET TEAM_ANY_CHANGE]
    /\ MaxChanges \in Nat

VARIABLES
    handlers,   \* th->change_handler.list, in list order
    pending,    \* th->change_handler.pending_type_mask
    ver,        \* ghost: replacements of each category so far
    seen        \* ghost: ver[c] as last delivered to each handler

dvars == <<handlers, pending, ver, seen>>

(* The handlers currently in the list.                                     *)
Registered == ListNodes(handlers)

DispatcherTypeOK ==
    /\ handlers \in Seq(Handlers)
    /\ pending \in SUBSET TEAM_ANY_CHANGE
    /\ ver \in [TEAM_ANY_CHANGE -> Nat]
    /\ seen \in [Handlers -> [TEAM_ANY_CHANGE -> Nat]]

DispatcherInit ==
    /\ handlers = <<>>
    /\ pending = {}
    /\ ver = [c \in TEAM_ANY_CHANGE |-> 0]
    /\ seen = [h \in Handlers |-> [c \in TEAM_ANY_CHANGE |-> 0]]

(* The replacement counters after the registries of the types in m        *)
(* replaced their snapshots.                                               *)
Bump(v, m) == [c \in TEAM_ANY_CHANGE |-> IF c \in m THEN v[c] + 1 ELSE v[c]]

(* Mutant: the mask assigned instead of OR-ed in.                          *)
SetCallChangeHandlersAssign(m) ==
    /\ pending' = m
    /\ ver' = Bump(ver, m)
    /\ UNCHANGED <<handlers, seen>>

(* set_call_change_handlers: OR the types into the pending mask.  It is   *)
(* called right after a registry replaced its snapshot, so the ghost      *)
(* counter of those types advances here too.                               *)
SetCallChangeHandlers(m) ==
    /\ pending' = pending \cup m
    /\ ver' = Bump(ver, m)
    /\ UNCHANGED <<handlers, seen>>

(* The handlers check_call_change_handlers calls when the pending mask is *)
(* p and call_type_mask is m: those whose item_type_mask is non-empty.    *)
ItemTypeMask(h, p, m) == HandlerMask[h] \cap (p \cap m)
Called(p, m) == {h \in Registered : ItemTypeMask(h, p, m) # {}}

(* Mutant: the settled bits cleared before the walk reads them.           *)
SettleClearFirst(p, v, m) ==
    /\ seen' = [h \in Handlers |->
                   IF h \in Called(p \ m, m)
                   THEN [c \in TEAM_ANY_CHANGE |->
                            IF c \in ItemTypeMask(h, p \ m, m) THEN v[c] ELSE seen[h][c]]
                   ELSE seen[h]]
    /\ pending' = p \ m

(* The walk of check_call_change_handlers from pending mask p, with the   *)
(* counters at v: each called handler (handler funcs may not touch the    *)
(* list, spec 4.4) learns the categories it is called with; then the       *)
(* settled bits are cleared.  Written over p and v so that a registry      *)
(* update and a settle can be composed into one step.                      *)
Settle(p, v, m) ==
    /\ seen' = [h \in Handlers |->
                   IF h \in Called(p, m)
                   THEN [c \in TEAM_ANY_CHANGE |->
                            IF c \in ItemTypeMask(h, p, m) THEN v[c] ELSE seen[h][c]]
                   ELSE seen[h]]
    /\ pending' = p \ m

(* check_call_change_handlers(th, m).                                      *)
CheckCallChangeHandlers(m) ==
    /\ Settle(pending, ver, m)
    /\ UNCHANGED <<handlers, ver>>

(* team_change_handler_register: fails with -EEXIST when find_change_     *)
(* handler finds the handler already listed; the -ENOMEM path changes     *)
(* nothing.  A new handler is up to date with every change so far.         *)
TeamChangeHandlerRegister(h) ==
    /\ h \notin Registered
    /\ handlers' = ListAdd(handlers, h)
    /\ seen' = [seen EXCEPT ![h] = ver]
    /\ UNCHANGED <<pending, ver>>

(* team_change_handler_unregister: a no-op unless the handler is listed;  *)
(* find_change_handler returns the first node that holds it.               *)
TeamChangeHandlerUnregister(h) ==
    /\ h \in Registered
    /\ \E i \in DOMAIN handlers :
          /\ handlers[i] = h
          /\ \A j \in 1..(i - 1) : handlers[j] # h
          /\ handlers' = ListDel(handlers, i)
    /\ UNCHANGED <<pending, ver, seen>>

-----------------------------------------------------------------------------
(* The dispatcher on its own: the registries are an environment that may  *)
(* replace a snapshot of either category at any time, and the library     *)
(* settles any mask.                                                       *)

RegistryChanged(c) ==
    /\ ver[c] < MaxChanges
    /\ SetCallChangeHandlers({c})

DispatcherNext ==
    \/ \E h \in Handlers : TeamChangeHandlerRegister(h)
    \/ \E h \in Handlers : TeamChangeHandlerUnregister(h)
    \/ \E c \in TEAM_ANY_CHANGE : RegistryChanged(c)
    \/ \E m \in {{TEAM_PORT_CHANGE}, {TEAM_OPTION_CHANGE}, TEAM_ANY_CHANGE} :
          CheckCallChangeHandlers(m)

DispatcherSpec == DispatcherInit /\ [][DispatcherNext]_dvars

-----------------------------------------------------------------------------
(* No lost change: for every registered handler and every category it is   *)
(* interested in, either that category is still pending (the next settle  *)
(* will call the handler) or the handler has been told of the latest      *)
(* replacement.  A pending bit overwritten instead of OR-ed in, or cleared *)
(* before the walk, loses a port or option change for good.                *)
NoLostChange ==
    \A h \in Registered : \A c \in HandlerMask[h] :
        c \notin pending => seen[h][c] = ver[c]

=============================================================================
