----------------------------- MODULE TeamMirror -----------------------------
(***************************************************************************)
(* What a registry of libteam promises, independent of netlink: an        *)
(* in-memory mirror of one kernel-held collection (spec sections 1 and    *)
(* 4.3).  The mirror is refreshed two ways: a fetch, whose reply carries  *)
(* the kernel's state when the kernel answered, and the change events of  *)
(* the multicast group, which carry the state after each change.  It      *)
(* lags behind the kernel by exactly the events not yet delivered.        *)
(*                                                                         *)
(* LibTeam instantiates this module once for the port registry and once   *)
(* for the option registry.                                               *)
(***************************************************************************)
EXTENDS Sequences

CONSTANTS
    States,    \* the states the kernel-held collection can be in
    Empty      \* the mirror before anything was installed

VARIABLES
    kstate,      \* the collection as the kernel holds it
    view,        \* the mirror
    subscribed,  \* the event socket is a member of the change group
    backlog,     \* states carried by events queued and not yet delivered
    inflight,    \* a fetch request is outstanding
    replied,     \* the kernel's reply to it is queued
    reply,       \* the state that reply carries
    fetched,     \* the mirror has been installed at least once
    gone         \* the device has been deleted

mvars == <<kstate, view, subscribed, backlog, inflight, replied, reply, fetched, gone>>

MirrorTypeOK ==
    /\ kstate \in States
    /\ view \in States \cup {Empty}
    /\ subscribed \in BOOLEAN
    /\ backlog \in Seq(States)
    /\ inflight \in BOOLEAN
    /\ replied \in BOOLEAN
    /\ reply \in States \cup {Empty}
    /\ fetched \in BOOLEAN
    /\ gone \in BOOLEAN

MirrorInit ==
    /\ kstate \in States
    /\ view = Empty
    /\ subscribed = FALSE
    /\ backlog = <<>>
    /\ inflight = FALSE
    /\ replied = FALSE
    /\ reply = Empty
    /\ fetched = FALSE
    /\ gone = FALSE

(* Join the change group.                                                  *)
Subscribe ==
    /\ ~subscribed
    /\ subscribed' = TRUE
    /\ UNCHANGED <<kstate, view, backlog, inflight, replied, reply, fetched, gone>>

(* Send a fetch.  The context must be subscribed once the step is over:   *)
(* joining the group and sending in one step is allowed, fetching first   *)
(* and joining later is not.                                               *)
Request ==
    /\ ~inflight
    /\ inflight' = TRUE
    /\ subscribed' = TRUE
    /\ UNCHANGED <<kstate, view, backlog, replied, reply, fetched, gone>>

(* The kernel changes the collection; a subscribed context is sent the    *)
(* new state.                                                              *)
Change(s) ==
    /\ ~gone
    /\ kstate' = s
    /\ backlog' = IF subscribed THEN Append(backlog, s) ELSE backlog
    /\ UNCHANGED <<view, subscribed, inflight, replied, reply, fetched, gone>>

(* The kernel answers the fetch with its current state.                   *)
Answer ==
    /\ inflight /\ ~replied /\ ~gone
    /\ replied' = TRUE
    /\ reply' = kstate
    /\ UNCHANGED <<kstate, view, subscribed, backlog, inflight, fetched, gone>>

(* The reply is read and installed.                                        *)
Install ==
    /\ replied
    /\ view' = reply
    /\ replied' = FALSE
    /\ reply' = Empty
    /\ fetched' = TRUE
    /\ UNCHANGED <<kstate, subscribed, backlog, inflight, gone>>

(* The fetch call returns, with or without having installed a reply.      *)
Complete ==
    /\ inflight /\ ~replied
    /\ inflight' = FALSE
    /\ UNCHANGED <<kstate, view, subscribed, backlog, replied, reply, fetched, gone>>

(* The oldest queued event is delivered, between calls only.               *)
Deliver ==
    /\ ~inflight
    /\ backlog # <<>>
    /\ view' = Head(backlog)
    /\ backlog' = Tail(backlog)
    /\ fetched' = TRUE
    /\ UNCHANGED <<kstate, subscribed, inflight, replied, reply, gone>>

(* The device is deleted; the kernel no longer reports on it.             *)
Vanish ==
    /\ ~gone
    /\ gone' = TRUE
    /\ kstate' \in States
    /\ UNCHANGED <<view, subscribed, backlog, inflight, replied, reply, fetched>>

MirrorNext ==
    \/ Subscribe
    \/ Request
    \/ \E s \in States : Change(s)
    \/ Answer
    \/ Install
    \/ Complete
    \/ Deliver
    \/ Vanish

MirrorSpec == MirrorInit /\ [][MirrorNext]_mvars

-----------------------------------------------------------------------------
(* The mirror is right whenever nothing is left to deliver: once it has   *)
(* been installed, with no reply and no event pending, it equals the      *)
(* kernel's collection.  Transient disagreement (and even a step back to *)
(* an older state, while older events drain after a fresher reply) is    *)
(* allowed; a change that never reaches the backlog is not.               *)
Mirrors ==
    (~gone /\ fetched /\ ~replied /\ backlog = <<>>) => view = kstate
=============================================================================
