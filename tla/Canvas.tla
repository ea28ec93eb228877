------------------------------- MODULE Canvas -------------------------------
(***************************************************************************)
(* The automatic placement of new nodes (tools/nodes.py): a grid that is   *)
(* walked row by row, five places to a row, and that has no last row.  A   *)
(* place is a pair of left and top; lefts and tops are integers, which     *)
(* EVE-NG keeps as the tools send them.                                    *)
(***************************************************************************)
EXTENDS Integers, FiniteSets

Places == Int \X Int

GridStart == 100
GridGap == 100
GridColumns == 5
OverlapGap == 50

\* _grid_positions: the i-th place of the grid, counted from 0.
GridAt(i) ==
  <<GridStart + (i % GridColumns) * GridGap, GridStart + (i \div GridColumns) * GridGap>>

Close(x, y) == x - y < OverlapGap /\ y - x < OverlapGap

Near(p, q) == Close(p[1], q[1]) /\ Close(p[2], q[2])

\* _position_is_free
IsFree(p, taken) == \A q \in taken : ~Near(p, q)

\* _next_free_position: the first free place of the grid is the i-th.
NextFree(i, taken) ==
  IsFree(GridAt(i), taken) /\ \A j \in 0..(i - 1) : ~IsFree(GridAt(j), taken)
=============================================================================
