----------------------------- MODULE TeamList -------------------------------
(***************************************************************************)
(* The intrusive list of list.h, which libteam.c uses for the port list,  *)
(* the option list and the change-handler list.  list.h is not under src/, *)
(* so these operators follow the spec (section 3: insertion order is      *)
(* preserved; section 9: an ordered sequence per registry).               *)
(***************************************************************************)
EXTENDS Naturals, Sequences

(* list_add: the new node goes to the end of the list.                     *)
ListAdd(l, x) == Append(l, x)

(* list_del of the node at position i.                                     *)
ListDel(l, i) == SubSeq(l, 1, i - 1) \o SubSeq(l, i + 1, Len(l))

(* The nodes of a list, as a set.                                          *)
ListNodes(l) == {l[i] : i \in DOMAIN l}
=============================================================================
