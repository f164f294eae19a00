------------------------- MODULE TeamDispatcherProofs -------------------------
(***************************************************************************)
(* Proofs about the change-handler dispatcher of libteam.c: the type       *)
(* invariant and the no-lost-change invariant hold in every reachable      *)
(* state of DispatcherSpec, for every set of handlers, every interest mask *)
(* and every bound on the number of changes.                               *)
(***************************************************************************)
EXTENDS TeamDispatcher, SequenceTheorems, TLAPS

-----------------------------------------------------------------------------
(* Lemmas about the list operators of list.h.                              *)

(* list_add keeps a list of handlers a list of handlers and adds exactly   *)
(* the new node.                                                           *)
LEMMA ListAddNodes ==
    ASSUME NEW S, NEW l \in Seq(S), NEW x \in S
    PROVE  /\ ListAdd(l, x) \in Seq(S)
           /\ ListNodes(ListAdd(l, x)) = ListNodes(l) \cup {x}
<1>1. ListAdd(l, x) \in Seq(S)
    BY AppendProperties DEF ListAdd
<1>2. ListNodes(ListAdd(l, x)) = ListNodes(l) \cup {x}
    BY AppendProperties DEF ListAdd, ListNodes
<1>. QED  BY <1>1, <1>2

(* list_del of a node of the list leaves a list whose nodes were all in    *)
(* the list before: removing a handler never makes another one appear.     *)
LEMMA ListDelNodes ==
    ASSUME NEW S, NEW l \in Seq(S), NEW i \in 1..Len(l)
    PROVE  /\ ListDel(l, i) \in Seq(S)
           /\ ListNodes(ListDel(l, i)) \subseteq ListNodes(l)
<1>1. /\ SubSeq(l, 1, i - 1) \in Seq(S)
      /\ Len(SubSeq(l, 1, i - 1)) = i - 1
      /\ \A k \in 1..(i - 1) : SubSeq(l, 1, i - 1)[k] = l[k]
    BY SubSeqProperties
<1>2. /\ SubSeq(l, i + 1, Len(l)) \in Seq(S)
      /\ Len(SubSeq(l, i + 1, Len(l))) = Len(l) - i
      /\ \A k \in 1..(Len(l) - i) : SubSeq(l, i + 1, Len(l))[k] = l[i + k]
    BY SubSeqProperties
<1>3. /\ ListDel(l, i) \in Seq(S)
      /\ Len(ListDel(l, i)) = Len(l) - 1
      /\ \A k \in 1..(Len(l) - 1) :
            ListDel(l, i)[k] = IF k <= i - 1 THEN l[k] ELSE l[k + 1]
  <2>1. /\ ListDel(l, i) \in Seq(S)
        /\ Len(ListDel(l, i)) = (i - 1) + (Len(l) - i)
        /\ \A k \in 1..((i - 1) + (Len(l) - i)) :
              ListDel(l, i)[k] = IF k <= i - 1
                                 THEN SubSeq(l, 1, i - 1)[k]
                                 ELSE SubSeq(l, i + 1, Len(l))[k - (i - 1)]
      BY <1>1, <1>2, ConcatProperties DEF ListDel
  <2>2. ASSUME NEW k \in 1..(Len(l) - 1), ~(k <= i - 1)
        PROVE  /\ k - (i - 1) \in 1..(Len(l) - i)
               /\ i + (k - (i - 1)) = k + 1
      BY <2>2
  <2>. QED  BY <1>1, <1>2, <2>1, <2>2
<1>4. ASSUME NEW k \in DOMAIN ListDel(l, i)
      PROVE  ListDel(l, i)[k] \in ListNodes(l)
  <2>1. k \in 1..(Len(l) - 1)
      BY <1>3
  <2>2. CASE k <= i - 1
    <3>1. ListDel(l, i)[k] = l[k] /\ k \in DOMAIN l
        BY <1>3, <2>1, <2>2
    <3>. QED  BY <3>1 DEF ListNodes
  <2>3. CASE ~(k <= i - 1)
    <3>1. ListDel(l, i)[k] = l[k + 1] /\ k + 1 \in DOMAIN l
        BY <1>3, <2>1, <2>3
    <3>. QED  BY <3>1 DEF ListNodes
  <2>. QED  BY <2>2, <2>3
<1>. QED  BY <1>3, <1>4 DEF ListNodes

-----------------------------------------------------------------------------
(* The inductive invariant: the type invariant and the no-lost-change      *)
(* invariant together.  NoLostChange alone is not inductive, since the     *)
(* settle step needs seen and ver to be functions of the right domains.    *)
IInv == DispatcherTypeOK /\ NoLostChange

LEMMA InitIInv == DispatcherInit => IInv
BY DispatcherAssumption
   DEF DispatcherInit, IInv, DispatcherTypeOK, NoLostChange, Registered, ListNodes

(* set_call_change_handlers preserves the invariant: every bumped          *)
(* category is pending afterwards.                                          *)
LEMMA SetIInv ==
    ASSUME IInv, NEW m \in SUBSET TEAM_ANY_CHANGE, SetCallChangeHandlers(m)
    PROVE  IInv'
<1>1. DispatcherTypeOK'
    BY DEF IInv, DispatcherTypeOK, SetCallChangeHandlers, Bump
<1>2. NoLostChange'
  <2> SUFFICES ASSUME NEW h \in Registered', NEW c \in HandlerMask[h],
                      c \notin pending'
               PROVE  seen'[h][c] = ver'[c]
      BY DEF NoLostChange
  <2>1. /\ h \in Registered
        /\ c \notin m
        /\ c \notin pending
        /\ seen' = seen
      BY DEF SetCallChangeHandlers, Registered
  <2>2. h \in Handlers /\ c \in TEAM_ANY_CHANGE
      BY <2>1, DispatcherAssumption DEF IInv, DispatcherTypeOK, Registered,
                                        ListNodes
  <2>3. seen[h][c] = ver[c]
      BY <2>1 DEF IInv, NoLostChange
  <2>. QED  BY <2>1, <2>2, <2>3 DEF SetCallChangeHandlers, Bump
<1>. QED  BY <1>1, <1>2 DEF IInv

(* check_call_change_handlers preserves the invariant: a category whose    *)
(* pending bit it clears is delivered to every registered handler that is  *)
(* interested in it.                                                        *)
LEMMA SettleIInv ==
    ASSUME IInv, NEW m \in SUBSET TEAM_ANY_CHANGE, CheckCallChangeHandlers(m)
    PROVE  IInv'
<1>1. DispatcherTypeOK'
    BY DEF IInv, DispatcherTypeOK, CheckCallChangeHandlers, Settle
<1>2. NoLostChange'
  <2> SUFFICES ASSUME NEW h \in Registered', NEW c \in HandlerMask[h],
                      c \notin pending'
               PROVE  seen'[h][c] = ver'[c]
      BY DEF NoLostChange
  <2>1. h \in Registered /\ h \in Handlers /\ ver' = ver
      BY DEF CheckCallChangeHandlers, Registered, ListNodes, IInv,
             DispatcherTypeOK
  <2>2. CASE c \in pending
    <3>1. c \in m
        BY <2>2 DEF CheckCallChangeHandlers, Settle
    <3>2. c \in ItemTypeMask(h, pending, m) /\ h \in Called(pending, m)
        BY <2>1, <2>2, <3>1 DEF ItemTypeMask, Called
    <3>3. c \in TEAM_ANY_CHANGE
        BY <2>1, DispatcherAssumption
    <3>. QED  BY <2>1, <3>2, <3>3 DEF CheckCallChangeHandlers, Settle
  <2>3. CASE c \notin pending
    <3>1. seen[h][c] = ver[c]
        BY <2>1, <2>3 DEF IInv, NoLostChange
    <3>2. c \in TEAM_ANY_CHANGE
        BY <2>1, DispatcherAssumption
    <3>. QED  BY <2>1, <3>1, <3>2 DEF CheckCallChangeHandlers, Settle
  <2>. QED  BY <2>2, <2>3
<1>. QED  BY <1>1, <1>2 DEF IInv

(* team_change_handler_register preserves the invariant: the new handler  *)
(* starts up to date with every replacement so far.                        *)
LEMMA RegisterIInv ==
    ASSUME IInv, NEW h \in Handlers, TeamChangeHandlerRegister(h)
    PROVE  IInv'
<1>1. /\ handlers' \in Seq(Handlers)
      /\ Registered' = Registered \cup {h}
    BY ListAddNodes DEF IInv, DispatcherTypeOK, TeamChangeHandlerRegister,
                        Registered
<1>2. DispatcherTypeOK'
    BY <1>1 DEF IInv, DispatcherTypeOK, TeamChangeHandlerRegister
<1>3. NoLostChange'
    BY <1>1 DEF IInv, DispatcherTypeOK, NoLostChange, TeamChangeHandlerRegister
<1>. QED  BY <1>2, <1>3 DEF IInv

(* team_change_handler_unregister preserves the invariant: it only shrinks *)
(* the set of registered handlers.                                          *)
LEMMA UnregisterIInv ==
    ASSUME IInv, NEW h \in Handlers, TeamChangeHandlerUnregister(h)
    PROVE  IInv'
<1>1. PICK i \in DOMAIN handlers : handlers' = ListDel(handlers, i)
    BY DEF TeamChangeHandlerUnregister
<1>2. /\ handlers' \in Seq(Handlers)
      /\ Registered' \subseteq Registered
    BY <1>1, ListDelNodes DEF IInv, DispatcherTypeOK, Registered
<1>3. DispatcherTypeOK'
    BY <1>2 DEF IInv, DispatcherTypeOK, TeamChangeHandlerUnregister
<1>4. NoLostChange'
    BY <1>2 DEF IInv, NoLostChange, TeamChangeHandlerUnregister
<1>. QED  BY <1>3, <1>4 DEF IInv

LEMMA NextIInv == IInv /\ [DispatcherNext]_dvars => IInv'
<1> SUFFICES ASSUME IInv, [DispatcherNext]_dvars PROVE IInv'
    OBVIOUS
<1>1. CASE \E h \in Handlers : TeamChangeHandlerRegister(h)
    BY <1>1, RegisterIInv
<1>2. CASE \E h \in Handlers : TeamChangeHandlerUnregister(h)
    BY <1>2, UnregisterIInv
<1>3. CASE \E c \in TEAM_ANY_CHANGE : RegistryChanged(c)
    BY <1>3, SetIInv DEF RegistryChanged
<1>4. CASE \E m \in {{TEAM_PORT_CHANGE}, {TEAM_OPTION_CHANGE}, TEAM_ANY_CHANGE} :
              CheckCallChangeHandlers(m)
    BY <1>4, SettleIInv DEF TEAM_ANY_CHANGE
<1>5. CASE UNCHANGED dvars
    BY <1>5 DEF IInv, DispatcherTypeOK, NoLostChange, Registered, dvars
<1>. QED  BY <1>1, <1>2, <1>3, <1>4, <1>5 DEF DispatcherNext

-----------------------------------------------------------------------------
(* Every reachable state of the dispatcher is well typed: the handler list *)
(* of team_change_handler_register/unregister is a list of handlers and    *)
(* the pending mask of set_call_change_handlers a set of change types.     *)
THEOREM DispatcherTypeCorrect == DispatcherSpec => []DispatcherTypeOK
<1>1. IInv => DispatcherTypeOK
    BY DEF IInv
<1>. QED  BY <1>1, InitIInv, NextIInv, PTL DEF DispatcherSpec

(* No port or option change is lost by check_call_change_handlers: in      *)
(* every reachable state, each registered handler has been told of the     *)
(* latest replacement of each category it is interested in, unless that    *)
(* category is still pending.                                               *)
THEOREM NoLostChangeInvariant == DispatcherSpec => []NoLostChange
<1>1. IInv => NoLostChange
    BY DEF IInv
<1>. QED  BY <1>1, InitIInv, NextIInv, PTL DEF DispatcherSpec
=============================================================================
