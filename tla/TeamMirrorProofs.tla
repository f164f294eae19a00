--------------------------- MODULE TeamMirrorProofs ---------------------------
(***************************************************************************)
(* Proof that the abstract registry mirror is right whenever nothing is    *)
(* left to deliver, for every set of kernel states.  With the refinement   *)
(* LibTeam => PortsMirror!MirrorSpec and OptionsMirror!MirrorSpec that TLC *)
(* checks, it carries over to libteam's port and option registries.        *)
(***************************************************************************)
EXTENDS TeamMirror, SequenceTheorems, TLAPS

(* The last state queued.                                                  *)
LastOf(s) == s[Len(s)]

(* The inductive invariant.  Mirrors alone is not inductive: a delivery    *)
(* needs the newest queued event to be the kernel's state (Queued), an     *)
(* install needs a reply with nothing queued after it to be the kernel's   *)
(* state (Answered), and a change on an unsubscribed context must find    *)
(* nothing installed or under way (Unsubscribed).                          *)
Queued == (~gone /\ backlog # <<>>) => LastOf(backlog) = kstate
Answered == (~gone /\ replied /\ backlog = <<>>) => reply = kstate
RepliedInFlight == replied => inflight
Unsubscribed == ~subscribed => (backlog = <<>> /\ ~inflight /\ ~replied /\ ~fetched)

IInv ==
    /\ MirrorTypeOK
    /\ Queued
    /\ Answered
    /\ RepliedInFlight
    /\ Unsubscribed
    /\ Mirrors

(* Dropping the oldest element of a sequence keeps its last element.       *)
LEMMA TailLast ==
    ASSUME NEW S, NEW s \in Seq(S), s # <<>>, Tail(s) # <<>>
    PROVE  LastOf(Tail(s)) = LastOf(s)
BY HeadTailProperties DEF LastOf

(* A one-element sequence: its head is its last element.                   *)
LEMMA HeadLast ==
    ASSUME NEW S, NEW s \in Seq(S), s # <<>>, Tail(s) = <<>>
    PROVE  Head(s) = LastOf(s)
<1>1. Len(Tail(s)) = 0 /\ Len(Tail(s)) = Len(s) - 1
    BY HeadTailProperties, EmptySeq
<1>2. Len(s) = 1
    BY <1>1
<1>. QED  BY <1>2 DEF LastOf

LEMMA InitIInv == MirrorInit => IInv
BY EmptySeq DEF MirrorInit, IInv, MirrorTypeOK, Queued, Answered, RepliedInFlight,
       Unsubscribed, Mirrors

(* A change appends the new state, so it is the newest queued one.         *)
LEMMA ChangeIInv ==
    ASSUME IInv, NEW s \in States, Change(s)
    PROVE  IInv'
<1>1. CASE subscribed
  <2>1. backlog' = Append(backlog, s) /\ backlog \in Seq(States)
      BY <1>1 DEF Change, IInv, MirrorTypeOK
  <2>2. backlog' \in Seq(States) /\ backlog' # <<>> /\ LastOf(backlog') = s
      BY <2>1, AppendProperties DEF LastOf
  <2>. QED  BY <2>2 DEF Change, IInv, MirrorTypeOK, Queued, Answered,
                        RepliedInFlight, Unsubscribed, Mirrors
<1>2. CASE ~subscribed
    BY <1>2 DEF Change, IInv, MirrorTypeOK, Queued, Answered, RepliedInFlight,
                Unsubscribed, Mirrors
<1>. QED  BY <1>1, <1>2

(* A delivery installs the oldest event; if it was the last one, that is   *)
(* the kernel's state.                                                      *)
LEMMA DeliverIInv ==
    ASSUME IInv, Deliver
    PROVE  IInv'
<1>1. backlog \in Seq(States) /\ backlog # <<>> /\ ~replied
    BY DEF Deliver, IInv, MirrorTypeOK, RepliedInFlight
<1>2. Tail(backlog) \in Seq(States) /\ Head(backlog) \in States
    BY <1>1, HeadTailProperties
<1>3. MirrorTypeOK'
    BY <1>2 DEF Deliver, IInv, MirrorTypeOK
<1>4. Queued'
    BY <1>1, TailLast DEF Deliver, IInv, Queued
<1>5. Mirrors'
    BY <1>1, HeadLast DEF Deliver, IInv, Queued, Mirrors
<1>. QED  BY <1>1, <1>3, <1>4, <1>5
          DEF Deliver, IInv, Answered, RepliedInFlight, Unsubscribed

LEMMA NextIInv == IInv /\ [MirrorNext]_mvars => IInv'
<1> SUFFICES ASSUME IInv, [MirrorNext]_mvars PROVE IInv'
    OBVIOUS
<1>1. CASE Subscribe
    BY <1>1 DEF Subscribe, IInv, MirrorTypeOK, Queued, Answered,
                RepliedInFlight, Unsubscribed, Mirrors
<1>2. CASE Request
    BY <1>2 DEF Request, IInv, MirrorTypeOK, Queued, Answered,
                RepliedInFlight, Unsubscribed, Mirrors
<1>3. CASE \E s \in States : Change(s)
    BY <1>3, ChangeIInv
<1>4. CASE Answer
    BY <1>4 DEF Answer, IInv, MirrorTypeOK, Queued, Answered,
                RepliedInFlight, Unsubscribed, Mirrors
<1>5. CASE Install
    BY <1>5 DEF Install, IInv, MirrorTypeOK, Queued, Answered,
                RepliedInFlight, Unsubscribed, Mirrors
<1>6. CASE Complete
    BY <1>6 DEF Complete, IInv, MirrorTypeOK, Queued, Answered,
                RepliedInFlight, Unsubscribed, Mirrors
<1>7. CASE Deliver
    BY <1>7, DeliverIInv
<1>8. CASE Vanish
    BY <1>8 DEF Vanish, IInv, MirrorTypeOK, Queued, Answered,
                RepliedInFlight, Unsubscribed, Mirrors
<1>9. CASE UNCHANGED mvars
    BY <1>9 DEF mvars, IInv, MirrorTypeOK, Queued, Answered,
                RepliedInFlight, Unsubscribed, Mirrors
<1>. QED  BY <1>1, <1>2, <1>3, <1>4, <1>5, <1>6, <1>7, <1>8, <1>9
          DEF MirrorNext

-----------------------------------------------------------------------------
(* A registry whose changes all reach the event queue is right whenever   *)
(* nothing is left to deliver: after get_port_list / get_options and      *)
(* every queued event_handler call, th->port_list and th->option_list     *)
(* equal the kernel's collections, for every set of kernel states.        *)
THEOREM MirrorsInvariant == MirrorSpec => []Mirrors
<1>1. IInv => Mirrors
    BY DEF IInv
<1>. QED  BY <1>1, InitIInv, NextIInv, PTL DEF MirrorSpec
=============================================================================
