------------------------------ MODULE MCRooms ------------------------------
(* The instance of Rooms that TLC checks.                                  *)
EXTENDS Rooms, TLC

\* A room for two, and two that nobody can join.
MCCapacities == {-1, 0, 2}

\* Sound for safety: no definition tells two requests apart.
RequestSymmetry == Permutations(Requests)
=============================================================================
