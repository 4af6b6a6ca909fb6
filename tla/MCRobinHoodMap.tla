--------------------------- MODULE MCRobinHoodMap ---------------------------
(***************************************************************************)
(* A table of two slots and three keys: the second insertion makes it grow *)
(* to four slots, three entries fill those to the load factor, and the set *)
(* of a key that is already there makes it grow to eight.  The hash codes  *)
(* put homes at both ends of every table, so probe runs collide and wrap.  *)
(***************************************************************************)
EXTENDS RobinHoodMap

MCHashCode == {0, 3, 4, 7}
=============================================================================
