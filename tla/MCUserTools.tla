---------------------------- MODULE MCUserTools -----------------------------
(***************************************************************************)
(* Instances of UserTools for TLC.                                         *)
(***************************************************************************)
EXTENDS UserTools, TLC

Symmetry == Permutations(Calls)

NoSel == [how |-> "none", picks |-> {}]
All == [how |-> "all", picks |-> {}]
Numbers(S) == [how |-> "numbers", picks |-> S]
ByName(S) == [how |-> "names", picks |-> S]

Share(everyone, among, sel, confirm) ==
  [tool |-> "share", everyone |-> everyone, among |-> among, sel |-> sel, confirm |-> confirm]
Delete(among, sel, confirm) ==
  [tool |-> "delete", everyone |-> FALSE, among |-> among, sel |-> sel, confirm |-> confirm]

\* Searches that match every user, more than the limit, some, one; by number, name and
\* "all"; and deletions likewise.
MCRequests ==
  {Share(TRUE, {}, NoSel, FALSE), Share(FALSE, Users, All, TRUE),
   Share(FALSE, {1, 2}, NoSel, FALSE), Share(FALSE, {1, 2}, Numbers({1}), FALSE),
   Share(FALSE, {1, 3}, ByName({3}), FALSE), Share(FALSE, {1}, NoSel, TRUE),
   Share(FALSE, {2}, NoSel, TRUE),
   Delete({1, 2, 3}, NoSel, FALSE), Delete({1, 2, 3}, Numbers({1}), FALSE),
   Delete({1, 2}, Numbers({1, 2}), FALSE), Delete({1, 3}, ByName({3}), FALSE),
   Delete({1, 2, 3}, ByName({1}), TRUE)}
=============================================================================
