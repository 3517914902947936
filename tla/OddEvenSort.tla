----------------------------- MODULE OddEvenSort -----------------------------
(***************************************************************************)
(* The odd-even transposition sort: passes of two loops over pairs of      *)
(* neighbours until a pass swaps nothing.  The serial program, and the two *)
(* with OpenMP, whose loops are shared by a team with a barrier after each.*)
(***************************************************************************)
EXTENDS Integers, Sequences, FiniteSets, FiniteSetsExt, Functions, SequencesExt

CONSTANTS MaxLength, Numbers,
          SortThreads

VARIABLES program, pc, shared, private

vars == <<program, pc, shared, private>>

Programs == {"odd_even_sort_serial", "odd_even_sort_parallel_for",
             "odd_even_sort_two_for"}
Threads == IF program = "odd_even_sort_serial" THEN {0} ELSE 0..(SortThreads - 1)

TypeOK ==
  /\ pc \in {"pass", "odd", "even", "done", "overrun"}
  /\ shared.is_sorted \in BOOLEAN
  /\ shared.arr \in Seq(Numbers)
  /\ private \in [Threads -> [todo : SUBSET (0..MaxLength), swap : {"test", "swap", "flag"}]]

Idle == [t \in Threads |-> [todo |-> {}, swap |-> "test"]]

Start ==
  /\ pc = "pass"
  /\ \E n \in 0..MaxLength : \E arr \in [1..n -> Numbers] :
       shared = [arr |-> arr, unsorted |-> arr, is_sorted |-> FALSE, passes |-> 0]
  /\ private = Idle

InitSerial == program = "odd_even_sort_serial" /\ Start
InitParallelFor == program = "odd_even_sort_parallel_for" /\ Start
InitTwoFor == program = "odd_even_sort_two_for" /\ Start

Init == InitSerial \/ InitParallelFor \/ InitTwoFor

n == Len(shared.arr)

\* The pairs of a loop, i for arr[i] and arr[i + 1], dealt out in blocks.
Pairs(first) == {i \in first..(n - 2) : (i - first) % 2 = 0}
Smaller(a, b) == IF a < b THEN a ELSE b
BlockStart(t, count) ==
  t * (count \div Cardinality(Threads)) + Smaller(t, count % Cardinality(Threads))
Share(t, first) ==
  LET count == Cardinality(Pairs(first)) IN
  {i \in Pairs(first) :
     (i - first) \div 2 \in BlockStart(t, count)..(BlockStart(t + 1, count) - 1)}
Deal(first) ==
  private' = [t \in Threads |-> [todo |-> Share(t, first), swap |-> "test"]]

\* n is unsigned: with fewer than two numbers n - 2 has no end below it, and
\* the loops leave the array.
BeginPass ==
  /\ pc = "pass"
  /\ IF shared.is_sorted
     THEN pc' = "done" /\ UNCHANGED <<shared, private>>
     ELSE IF n < 2
     THEN pc' = "overrun" /\ UNCHANGED <<shared, private>>
     ELSE /\ shared' = [shared EXCEPT !.is_sorted = TRUE, !.passes = @ + 1]
          /\ pc' = "odd"
          /\ Deal(1)

Left(t) == shared.arr[Min(private[t].todo) + 1]
Right(t) == shared.arr[Min(private[t].todo) + 2]

InLoop(t) == pc \in {"odd", "even"} /\ private[t].todo # {}

NextPair(t) ==
  private' = [private EXCEPT ![t].todo = @ \ {Min(@)}, ![t].swap = "test"]

\* The test is outside of the critical section.
Compare(t) ==
  /\ InLoop(t) /\ private[t].swap = "test"
  /\ IF Left(t) > Right(t)
     THEN private' = [private EXCEPT ![t].swap = "swap"]
     ELSE NextPair(t)
  /\ UNCHANGED <<pc, shared>>

Swap(t) ==
  /\ InLoop(t) /\ private[t].swap = "swap"
  /\ LET i == Min(private[t].todo) + 1 IN
     shared' = [shared EXCEPT !.arr[i] = Right(t), !.arr[i + 1] = Left(t)]
  /\ private' = [private EXCEPT ![t].swap = "flag"]
  /\ UNCHANGED pc

\* Mutant: the swap is not noticed.
MarkUnsortedNot(t) ==
  /\ InLoop(t) /\ private[t].swap = "flag"
  /\ NextPair(t)
  /\ UNCHANGED <<pc, shared>>

MarkUnsorted(t) ==
  /\ InLoop(t) /\ private[t].swap = "flag"
  /\ shared' = [shared EXCEPT !.is_sorted = FALSE]
  /\ NextPair(t)
  /\ UNCHANGED pc

\* The barrier at the end of a loop.
EndLoop ==
  /\ pc \in {"odd", "even"} /\ \A t \in Threads : private[t].todo = {}
  /\ IF pc = "odd"
     THEN pc' = "even" /\ Deal(0)
     ELSE pc' = "pass" /\ private' = Idle
  /\ UNCHANGED shared

Sorting(t) == Compare(t) \/ Swap(t) \/ MarkUnsorted(t)
Pass == BeginPass \/ EndLoop \/ \E t \in Threads : Sorting(t)

SerialNext == program = "odd_even_sort_serial" /\ Pass
ParallelForNext == program = "odd_even_sort_parallel_for" /\ Pass
TwoForNext == program = "odd_even_sort_two_for" /\ Pass

Next == SerialNext \/ ParallelForNext \/ TwoForNext

-----------------------------------------------------------------------------

Occurrences(seq, x) == Cardinality({i \in DOMAIN seq : seq[i] = x})

\* Every swap of any thread keeps the numbers, whatever the others test and
\* swap at that time; the program ends with all of them in order.
SortedAtEnd ==
  /\ \A x \in Numbers : Occurrences(shared.arr, x) = Occurrences(shared.unsorted, x)
  /\ pc = "done" => \A i \in 1..(n - 1) : shared.arr[i] <= shared.arr[i + 1]

\* A pass is two of the n phases the algorithm is known to need, and one more
\* pass finds that nothing is left to swap.
FewPasses == n >= 2 => shared.passes <= (n + 1) \div 2 + 1

Halted == pc \in {"done", "overrun"}

=============================================================================
