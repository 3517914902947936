------------------------------ MODULE FactModel ------------------------------
(***************************************************************************)
(* What one number of a /fact request becomes: FactModel::prime_fact()     *)
(* divides it by 2 and by the odd numbers up to its square root, and       *)
(* FactShowMsg prints the factors found as powers.  Each iteration of a    *)
(* loop is a step.  sqrt() of a value of the int range is exact enough for *)
(* the comparison i <= sqrt(input) to be i * i <= input, and false when    *)
(* input is negative, as the comparison with a NaN is.                     *)
(***************************************************************************)
EXTENDS Integers, Sequences

CONSTANT Inputs   \* the numbers asked for

ASSUME InputsAssumption == Inputs \subseteq Int

VARIABLES
  pc,        \* the loop the program is in
  number,    \* reqProcessed.number, which the page shows
  input,     \* what is left of it to be factored
  i,         \* the divisor being tried
  results,   \* the prime factors, in the order found
  index,     \* the next factor to print (the code's index + 1)
  page,      \* the powers printed
  notice     \* "NA" or "invalid number" when printed instead of powers

vars == <<pc, number, input, i, results, index, page, notice>>

Powers == [base : Int, exp : Nat]

TypeOK ==
  /\ pc \in {"halve", "for", "while", "show", "count", "done"}
  /\ number \in Inputs
  /\ input \in Int
  /\ i \in Nat
  /\ results \in Seq(Int)
  /\ index \in 1..(Len(results) + 1)
  /\ page \in Seq(Powers)
  /\ notice \in {"none", "NA", "invalid number"}

Init ==
  /\ pc = "halve"
  /\ number \in Inputs
  /\ input = number
  /\ i = 3
  /\ results = <<>>
  /\ index = 1
  /\ page = <<>>
  /\ notice = "none"

-----------------------------------------------------------------------------
(* FactModel::prime_fact()                                                 *)

Push(factor) == results' = Append(results, factor)

PushZero ==
  /\ pc = "halve" /\ input = 0
  /\ Push(0)
  /\ pc' = "show"
  /\ UNCHANGED <<number, input, i, index, page, notice>>

\* Mutant: an if in place of the while.
HalveOnce ==
  /\ pc = "halve" /\ input # 0 /\ input % 2 = 0
  /\ Push(2)
  /\ input' = input \div 2
  /\ pc' = "for"
  /\ UNCHANGED <<number, i, index, page, notice>>

Halve ==
  /\ pc = "halve" /\ input # 0 /\ input % 2 = 0
  /\ Push(2)
  /\ input' = input \div 2
  /\ UNCHANGED <<pc, number, i, index, page, notice>>

HalvingEnds ==
  /\ pc = "halve" /\ input % 2 # 0
  /\ pc' = "for"
  /\ UNCHANGED <<number, input, i, results, index, page, notice>>

\* Mutant: i < sqrt(input).
InRangeStrict == i * i < input

InRange == i * i <= input

TryDivisor ==
  /\ pc = "for" /\ InRange
  /\ pc' = "while"
  /\ UNCHANGED <<number, input, i, results, index, page, notice>>

Divide ==
  /\ pc = "while" /\ input % i = 0
  /\ Push(i)
  /\ input' = input \div i
  /\ UNCHANGED <<pc, number, i, index, page, notice>>

\* Mutant: the divisor is not advanced.
NextDivisorStuck ==
  /\ pc = "while" /\ input % i # 0
  /\ pc' = "for"
  /\ UNCHANGED <<number, input, i, results, index, page, notice>>

NextDivisor ==
  /\ pc = "while" /\ input % i # 0
  /\ i' = i + 2
  /\ pc' = "for"
  /\ UNCHANGED <<number, input, results, index, page, notice>>

\* What no divisor was found for is itself a prime, unless it is 1 or less.
KeepRest ==
  /\ pc = "for" /\ ~InRange
  /\ IF input > 2 THEN Push(input) ELSE results' = results
  /\ pc' = "show"
  /\ UNCHANGED <<number, input, i, index, page, notice>>

-----------------------------------------------------------------------------
(* FactShowMsg::servePrimFactResponse(), for this number                   *)

ShowNotice ==
  /\ pc = "show" /\ number < 2
  /\ notice' = IF number < 0 THEN "invalid number" ELSE "NA"
  /\ pc' = "done"
  /\ UNCHANGED <<number, input, i, results, index, page>>

Repeated(k) == k < Len(results) /\ results[k] = results[k + 1]

\* Mutant: the index is advanced before the repetitions are counted.
ShowFactorAdvanced ==
  /\ pc = "show" /\ number > 1 /\ index <= Len(results)
  /\ page' = Append(page, [base |-> results[index], exp |-> 1])
  /\ pc' = IF Repeated(index) THEN "count" ELSE "show"
  /\ index' = index + 1
  /\ UNCHANGED <<number, input, i, results, notice>>

ShowFactor ==
  /\ pc = "show" /\ number > 1 /\ index <= Len(results)
  /\ page' = Append(page, [base |-> results[index], exp |-> 1])
  /\ IF Repeated(index) THEN pc' = "count" /\ index' = index
                        ELSE pc' = "show" /\ index' = index + 1
  /\ UNCHANGED <<number, input, i, results, notice>>

\* Mutant: the ++index of the for is forgotten.
CountRepetitionNoAdvance ==
  /\ pc = "count"
  /\ page' = [page EXCEPT ![Len(page)].exp = @ + 1]
  /\ index' = index + 1
  /\ pc' = IF Repeated(index + 1) THEN "count" ELSE "show"
  /\ UNCHANGED <<number, input, i, results, notice>>

\* The inner while, with the ++index of the for when it ends.
CountRepetition ==
  /\ pc = "count"
  /\ page' = [page EXCEPT ![Len(page)].exp = @ + 1]
  /\ IF Repeated(index + 1) THEN pc' = "count" /\ index' = index + 1
                            ELSE pc' = "show" /\ index' = index + 2
  /\ UNCHANGED <<number, input, i, results, notice>>

ShowEnds ==
  /\ pc = "show" /\ number > 1 /\ index > Len(results)
  /\ pc' = "done"
  /\ UNCHANGED <<number, input, i, results, index, page, notice>>

-----------------------------------------------------------------------------

Factoring ==
  \/ PushZero \/ Halve \/ HalvingEnds
  \/ TryDivisor \/ Divide \/ NextDivisor \/ KeepRest

Showing == ShowNotice \/ ShowFactor \/ CountRepetition \/ ShowEnds

Next == Factoring \/ Showing

SafeSpec == Init /\ [][Next]_vars

\* A thread that can run goes on: the calculation and the page wait for
\* nobody.
Spec == SafeSpec /\ WF_vars(Next)

-----------------------------------------------------------------------------
(* Properties                                                              *)

IsPrime(p) == p > 1 /\ \A d \in 2..(p - 1) : p % d # 0

Product(s) ==
  LET first[k \in 0..Len(s)] == IF k = 0 THEN 1 ELSE first[k - 1] * s[k]
  IN  first[Len(s)]

Power(b, e) == Product([k \in 1..e |-> b])

\* What the powers of the page multiply to.
PageProduct ==
  Product([k \in DOMAIN page |-> Power(page[k].base, page[k].exp)])

\* Nothing is lost: at every step of prime_fact() the factors found, times
\* what is left, make the number; when it returns, the factors alone do.
FactorsMultiply ==
  /\ pc \in {"halve", "for", "while"} => input * Product(results) = number
  /\ pc \in {"show", "count", "done"} /\ number > 1 =>
       Product(results) = number

\* Only primes are reported, although prime_fact() never tests a number for
\* being prime: a divisor that divides what is left of the input has no
\* divisor of its own, and neither has the rest above the square root.
FactorsPrime ==
  number # 0 => \A k \in DOMAIN results : IsPrime(results[k])

\* The page shows the factorization of its number: powers of increasing
\* primes whose product is the number.
PageIsFactorization ==
  pc = "done" /\ number > 1 =>
    /\ PageProduct = number
    /\ \A k \in DOMAIN page : page[k].exp > 0 /\ IsPrime(page[k].base)
    /\ \A k, m \in DOMAIN page : k < m => page[k].base < page[m].base

\* Every number is factored and shown in a finite number of steps, zero,
\* one and the negative ones too.
Terminates == <>(pc = "done")

==============================================================================
