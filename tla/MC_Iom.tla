--------------------------------- MODULE MC_Iom ---------------------------------
(***************************************************************************)
(* Constants for IomPath.                                                  *)
(***************************************************************************)
EXTENDS IomPath

At(attribute, selector, index) ==
  [attribute |-> attribute, selector |-> selector, index |-> index]

SomePaths == {
  <<At("a", "First", 0)>>, <<At("b", "Index", 2)>>,
  <<At("a", "Index", 1), At("b", "First", 0)>>, <<At("b", "All", 0), At("a", "All", 0)>> }

\* Neither variables nor texts differ in what may be done with them.
Alike == Permutations(Variables) \cup Permutations(Texts)
=============================================================================
