----------------------------- MODULE Selection ------------------------------
(***************************************************************************)
(* confirmation.resolve_selection and the target choice of                 *)
(* run_delete_flow: how a reply to a numbered list is turned back into     *)
(* items.  The list is never remembered: it is the current search result,  *)
(* whose items are numbered from 1 in ascending order of their ids.        *)
(***************************************************************************)
EXTENDS Naturals, FiniteSets

\* The item that has number k in the list of S, as a set.
Numbered(S, k) == {x \in S : Cardinality({y \in S : y <= x}) = k}

\* The items whose name is nm.
Named(S, name, nm) == {x \in S : name[x] = nm}

(***************************************************************************)
(* A selection is [how |-> "none"], [how |-> "numbers", picks |-> S] or    *)
(* [how |-> "names", picks |-> S].  A number outside of the list, or a     *)
(* name that no item or more than one item has, spoils the whole reply.  No *)
(* item is named like a number, nor like several items put together.       *)
(***************************************************************************)
ResolveSelection(cands, name, sel) ==
  LET Match(p) == IF sel.how = "numbers" THEN Numbered(cands, p) ELSE Named(cands, name, p)
  IN IF \A p \in sel.picks : Cardinality(Match(p)) = 1
     THEN UNION {Match(p) : p \in sel.picks} ELSE {}

SelectionsOf(names) ==
  [how : {"none", "numbers"}, picks : SUBSET Nat] \cup [how : {"names"}, picks : SUBSET names]

\* Mutant of DeleteTargets: a single candidate is taken without a look at the reply.
DeleteTargetsSingleFirst(cands, name, sel) ==
  IF Cardinality(cands) = 1 THEN cands
  ELSE IF sel.how # "none" THEN ResolveSelection(cands, name, sel) ELSE {}

\* What a delete tool would delete; {} if it has to answer with a list or an error.
DeleteTargets(cands, name, sel) ==
  IF sel.how # "none" THEN ResolveSelection(cands, name, sel)
  ELSE IF Cardinality(cands) = 1 THEN cands ELSE {}
=============================================================================
