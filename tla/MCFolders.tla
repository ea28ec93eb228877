----------------------------- MODULE MCFolders ------------------------------
(***************************************************************************)
(* Instances of Folders for TLC.                                           *)
(***************************************************************************)
EXTENDS Folders

NoSel == [how |-> "none", picks |-> {}]
ByName(S) == [how |-> "names", picks |-> S]

\* "/", "/Running", "/a", "/a/b", "/a/b/a" and "/b"
MCPath == << << >>, <<"Running">>, <<"a">>, <<"a", "b">>, <<"a", "b", "a">>, <<"b">> >>

Ascending == [F \in SUBSET Dirs |-> SetToSortSeq(F, <)]

Call(tool, start, among, sel, confirm) ==
  [tool |-> tool, start |-> start, among |-> among, sel |-> sel, confirm |-> confirm]

Dir(f) == [in |-> f, name |-> 0]
AsDirs(F) == {Dir(f) : f \in F}

\* Walks from the root and from below; a search that several folders match, a selection,
\* and deletions that are confirmed at once.
MCRequests ==
  {Call("listLabs", 1, {}, NoSel, FALSE), Call("listLabs", 3, {}, NoSel, FALSE),
   Call("deleteLab", 1, Labs, NoSel, TRUE),
   Call("deleteFolder", 1, AsDirs({4, 5, 6}), NoSel, FALSE),
   Call("deleteFolder", 1, AsDirs({4, 6}), ByName({Rank(Dir(6))}), FALSE),
   Call("deleteFolder", 3, AsDirs({4, 5}), NoSel, TRUE)}
=============================================================================
