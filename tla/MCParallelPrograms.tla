------------------------- MODULE MCParallelPrograms -------------------------
(***************************************************************************)
(* Instance of the programs with OpenMP and MPI: inputs of each of them.   *)
(***************************************************************************)
EXTENDS ParallelPrograms, Integers, Sequences

MCInputValues == {<<>>, <<1>>, <<2, 1>>}

\* Ranges that the processes divide evenly or not, empty, with negative
\* numbers, and upside down.
MCOverallRanges == {<<0, 7>>, <<2, 6>>, <<3, 3>>, <<-2, 3>>, <<5, 1>>}

MCValueLists == {<<>>, <<3, 1>>, <<2, 1, 3>>, <<-2, -1, -3>>}
MCLetters == {<<"R", "W", "R">>, <<"W", "x", "W">>}
MCGarbage == {0, -5}

Grid(rows, columns, warm) ==
  [cell \in (0..(rows - 1)) \X (0..(columns - 1)) |-> IF cell \in warm THEN 8 ELSE 0]

\* A warm edge, a warm corner in the middle, and a plate that is all edge.
MCPlates ==
  [edge |-> Grid(4, 4, {<<0, c>> : c \in 0..3}),
   middle |-> Grid(3, 4, {<<1, 1>>, <<0, 2>>}),
   flat |-> Grid(2, 2, {<<0, 0>>}),
   absent |-> NoPlate]

Line(name, division, epsilon) ==
  [plate_name |-> name, delta_time |-> 2, division |-> division, epsilon |-> epsilon]

MCJobFiles ==
  {<<Line("edge", 4, 1)>>,
   <<Line("middle", 8, 1), Line("flat", 4, 1), Line("middle", 4, 2)>>,
   <<Line("middle", 4, 1), Line("absent", 4, 1)>>,
   <<Line("flat", 4, 0), Line("edge", 4, 1)>>,
   <<>>}

=============================================================================
