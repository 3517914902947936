---------------------------- MODULE FenceSearch ----------------------------
(***************************************************************************)
(* fence_parallelization: the longest rectangular fence that avoids the    *)
(* cells marked x.  The rows of the top left corner are dealt out in turn  *)
(* to the threads, which share the maximum under a mutex.                  *)
(***************************************************************************)
EXTENDS Naturals, FiniteSets, FiniteSetsExt

CONSTANTS Rows, Columns,      \* of the terrain, both at least one: rows - 1
                              \* of no rows at all would wrap around
          FenceThreads

FenceAssumption ==
  /\ Rows \in Nat \ {0} /\ Columns \in Nat \ {0} /\ FenceThreads \in Nat \ {0}

VARIABLES pc, shared, private

vars == <<pc, shared, private>>

Threads == 0..(FenceThreads - 1)
Cells == [row : 0..(Rows - 1), column : 0..(Columns - 1)]
Origin == [row |-> 0, column |-> 0]
Terrains == [Cells -> BOOLEAN]      \* where the x are

TypeOK ==
  /\ pc \in [Threads -> {"unstarted", "missing", "search", "compare", "done"}]
  /\ shared.terrain \in Terrains
  /\ shared.maximum_perimeter \in 0..(2 * (Rows + Columns))
  /\ shared.maximum_top_left \in Cells /\ shared.maximum_bottom_right \in Cells
  /\ private.at \in {"create", "join", "done", "crashed"}
  /\ private.index \in 0..FenceThreads
  /\ private.row \in [Threads -> 0..(Rows + FenceThreads)]
  /\ private.column \in [Threads -> 0..Columns]
  /\ private.local \in [Threads -> Cells]

CalculatePerimeter(topLeft, bottomRight) ==
  2 * (bottomRight.column - topLeft.column) + 2 * (bottomRight.row - topLeft.row)

\* Mutant: the row of the bottom right corner is not looked at.
CanFormRectangleTop(topLeft, bottomRight) ==
  \A cell \in Cells :
    /\ cell.row \in topLeft.row..bottomRight.row
    /\ cell.column \in topLeft.column..bottomRight.column
    /\ \/ cell.row = topLeft.row
       \/ cell.column \in {topLeft.column, bottomRight.column}
    => ~shared.terrain[cell]

CanFormRectangle(topLeft, bottomRight) ==
  \A cell \in Cells :
    /\ cell.row \in topLeft.row..bottomRight.row
    /\ cell.column \in topLeft.column..bottomRight.column
    /\ \/ cell.row \in {topLeft.row, bottomRight.row}
       \/ cell.column \in {topLeft.column, bottomRight.column}
    => ~shared.terrain[cell]

\* The corners are tried row by row and a longer perimeter replaces the one
\* kept, so that of equal ones the first is returned; the origin if none.
FindMaximumLocalPerimeter(topLeft) ==
  LET corners == {cell \in Cells :
                    /\ cell.row > topLeft.row /\ cell.column > topLeft.column
                    /\ CanFormRectangle(topLeft, cell)}
      best == {c \in corners : \A d \in corners :
                 CalculatePerimeter(topLeft, d) <= CalculatePerimeter(topLeft, c)}
  IN  IF corners = {} THEN Origin
      ELSE CHOOSE c \in best : \A d \in best : c.row <= d.row

\* read_terrain() has read any terrain.
Init ==
  /\ \E terrain \in Terrains :
       shared = [terrain |-> terrain, maximum_perimeter |-> 0,
                 maximum_top_left |-> Origin, maximum_bottom_right |-> Origin]
  /\ pc = [t \in Threads |-> "unstarted"]
  /\ private = [at |-> "create", index |-> 0, row |-> [t \in Threads |-> t],
                column |-> [t \in Threads |-> 0], local |-> [t \in Threads |-> Origin]]

\* What pthread_create() returns is not looked at.
CreateThread(created) ==
  /\ private.at = "create"
  /\ pc' = [pc EXCEPT ![private.index] = IF created THEN "search" ELSE "missing"]
  /\ private' = [private EXCEPT !.index = (@ + 1) % FenceThreads,
                    !.at = IF private.index + 1 = FenceThreads THEN "join" ELSE @]
  /\ UNCHANGED shared

TopLeft(t) == [row |-> private.row[t], column |-> private.column[t]]

\* The next top left corner: by columns, then to the thread's next row.
Advance(t) ==
  IF private.column[t] + 1 < Columns - 1
  THEN [private EXCEPT !.column[t] = @ + 1]
  ELSE [private EXCEPT !.column[t] = 0, !.row[t] = @ + FenceThreads]

FindMaximumPerimeter(t) ==
  /\ pc[t] = "search"
  /\ IF private.row[t] >= Rows - 1 \/ private.column[t] >= Columns - 1
     THEN /\ pc' = [pc EXCEPT ![t] = "done"]
          /\ UNCHANGED private
     ELSE LET local == FindMaximumLocalPerimeter(TopLeft(t))
          IN  IF local = Origin
              THEN private' = Advance(t) /\ UNCHANGED pc
              ELSE /\ private' = [private EXCEPT !.local[t] = local]
                   /\ pc' = [pc EXCEPT ![t] = "compare"]
  /\ UNCHANGED shared

\* In the mutex: compare and replace.
UpdateMaximum(t) ==
  /\ pc[t] = "compare"
  /\ LET local == CalculatePerimeter(TopLeft(t), private.local[t])
     IN  shared' = IF local > shared.maximum_perimeter
                   THEN [shared EXCEPT !.maximum_perimeter = local,
                                       !.maximum_top_left = TopLeft(t),
                                       !.maximum_bottom_right = private.local[t]]
                   ELSE shared
  /\ private' = Advance(t)
  /\ pc' = [pc EXCEPT ![t] = "search"]

\* The handle of a thread that was not created may bring the process down.
Join ==
  /\ private.at = "join"
  /\ IF private.index = FenceThreads THEN private' = [private EXCEPT !.at = "done"]
     ELSE /\ pc[private.index] \in {"done", "missing"}
          /\ \/ private' = [private EXCEPT !.index = @ + 1]
             \/ /\ pc[private.index] = "missing"
                /\ private' = [private EXCEPT !.at = "crashed"]
  /\ UNCHANGED <<pc, shared>>

Next ==
  /\ private.at \notin {"done", "crashed"}
  /\ \/ \E created \in BOOLEAN : CreateThread(created)
     \/ Join
     \/ \E t \in Threads : FindMaximumPerimeter(t) \/ UpdateMaximum(t)

-----------------------------------------------------------------------------

\* However the rows interleave, the fence printed is a rectangle free of x and
\* none is longer; zero stands for "impossible".  The rows dealt to a thread
\* that could not be created are searched by nobody, and main does not notice.
LongestFence ==
  private.at = "done" /\ (\A t \in Threads : pc[t] # "missing") =>
    LET clear(r) == \A cell \in Cells :
          /\ cell.row \in r[1].row..r[2].row
          /\ cell.column \in r[1].column..r[2].column
          /\ ~(cell.row \in (r[1].row + 1)..(r[2].row - 1)
               /\ cell.column \in (r[1].column + 1)..(r[2].column - 1))
          => ~shared.terrain[cell]
        fences == {r \in Cells \X Cells :
          r[1].row < r[2].row /\ r[1].column < r[2].column /\ clear(r)}
    IN  IF fences = {} THEN shared.maximum_perimeter = 0
        ELSE /\ shared.maximum_perimeter =
                  Max({CalculatePerimeter(r[1], r[2]) : r \in fences})
             /\ <<shared.maximum_top_left, shared.maximum_bottom_right>> \in fences
             /\ shared.maximum_perimeter = CalculatePerimeter(
                  shared.maximum_top_left, shared.maximum_bottom_right)

=============================================================================
