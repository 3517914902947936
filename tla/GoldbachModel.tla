---------------------------- MODULE GoldbachModel ----------------------------
(***************************************************************************)
(* What one number of a /goldbach request becomes:                         *)
(* GoldbachModel::calculateSums() finds the primes below it with a sieve   *)
(* and then the pairs (of an even number) or triples (of an odd one) of    *)
(* primes that add up to it, and GoldbachShowMsg prints how many there are *)
(* and, when the number was given with a minus, the sums themselves.  Each *)
(* iteration of the sieve and of the loops over the primes is a step; the  *)
(* loop that strikes the multiples of one prime out is one step.           *)
(***************************************************************************)
EXTENDS Integers, Sequences, FiniteSets, SequencesExt

CONSTANTS
  Inputs,   \* the numbers asked for
  MaxInt    \* the largest int

Ints == (-MaxInt - 1)..MaxInt

ASSUME InputsAssumption ==
  /\ MaxInt \in Nat /\ MaxInt > 5
  /\ Inputs \subseteq Ints

VARIABLES
  pc,        \* the loop the program is in
  input,     \* the number asked for
  numero,    \* its absolute value, an int
  isPrime,   \* the sieve
  primes,    \* the primes found, in order
  i, j,      \* loop counters (those over primes are the code's plus 1)
  results,   \* the terms of the sums, one sum after the other
  sums,      \* the number of sums
  shown,     \* terms printed
  page,      \* the lines printed, each a sequence of terms
  pos        \* terms on the last line

vars == <<pc, input, numero, isPrime, primes, i, j, results, sums, shown, page,
          pos>>

sieveVars == <<isPrime, primes>>
pageVars == <<shown, page, pos>>

Init ==
  /\ pc = "start"
  /\ input \in Inputs
  /\ numero = 0
  /\ isPrime = [k \in {} |-> FALSE]
  /\ primes = <<>>
  /\ i = 1 /\ j = 1
  /\ results = <<>>
  /\ sums = 0
  /\ shown = 0
  /\ page = << <<>> >>
  /\ pos = 0

-----------------------------------------------------------------------------
(* GoldbachModel::calculateSums()                                          *)

Small == input \in -5..5

SkipSmall ==
  /\ pc = "start" /\ Small
  /\ pc' = "show"
  /\ UNCHANGED <<input, numero, sieveVars, i, j, results, sums, pageVars>>

Abs(n) == IF n < 0 THEN -n ELSE n

StartSieve ==
  /\ pc = "start" /\ ~Small /\ Abs(input) <= MaxInt
  /\ numero' = Abs(input)
  /\ isPrime' = [k \in 0..(Abs(input) - 1) |-> k > 1]
  /\ i' = 2
  /\ pc' = "sieve"
  /\ UNCHANGED <<input, primes, j, results, sums, pageVars>>

\* The absolute value of the least int becomes a negative int, and a vector
\* of that size throws what nothing catches.
SieveTooLong ==
  /\ pc = "start" /\ Abs(input) > MaxInt
  /\ pc' = "terminated"
  /\ UNCHANGED <<input, numero, sieveVars, i, j, results, sums, pageVars>>

\* The first product j * i that is not below numero, where the loop ends.
LastProduct(n) == IF 2 * n >= numero THEN 2 * n ELSE ((numero + n - 1) \div n) * n

\* Mutant: the multiples are struck out from the second on.
SievePrimeLate ==
  /\ pc = "sieve" /\ i < numero /\ isPrime[i]
  /\ LastProduct(i) <= MaxInt
  /\ primes' = Append(primes, i)
  /\ isPrime' = [k \in DOMAIN isPrime |-> isPrime[k] /\ ~(k > 2 * i /\ k % i = 0)]
  /\ i' = i + 1
  /\ UNCHANGED <<pc, input, numero, j, results, sums, pageVars>>

SievePrime ==
  /\ pc = "sieve" /\ i < numero /\ isPrime[i]
  /\ LastProduct(i) <= MaxInt
  /\ primes' = Append(primes, i)
  /\ isPrime' = [k \in DOMAIN isPrime |-> isPrime[k] /\ ~(k > i /\ k % i = 0)]
  /\ i' = i + 1
  /\ UNCHANGED <<pc, input, numero, j, results, sums, pageVars>>

\* j * i is a product of ints: above the largest one it is undefined.
SieveOverflows ==
  /\ pc = "sieve" /\ i < numero /\ isPrime[i]
  /\ LastProduct(i) > MaxInt
  /\ pc' = "undefined"
  /\ UNCHANGED <<input, numero, sieveVars, i, j, results, sums, pageVars>>

\* Mutant: only a prime moves the sieve on.
SieveCompositeStuck ==
  /\ pc = "sieve" /\ i < numero /\ ~isPrime[i]
  /\ UNCHANGED vars

SieveComposite ==
  /\ pc = "sieve" /\ i < numero /\ ~isPrime[i]
  /\ i' = i + 1
  /\ UNCHANGED <<pc, input, numero, sieveVars, j, results, sums, pageVars>>

SieveEnds ==
  /\ pc = "sieve" /\ i >= numero
  /\ pc' = IF numero % 2 = 0 THEN "pairs" ELSE "triples"
  /\ i' = 1 /\ j' = 1
  /\ UNCHANGED <<input, numero, sieveVars, results, sums, pageVars>>

\* Mutant: the last term may be smaller than the others.
AddSumUnordered(terms, rest, least) ==
  IF rest \in ToSet(primes)
    THEN results' = results \o Append(terms, rest) /\ sums' = sums + 1
    ELSE UNCHANGED <<results, sums>>

\* findNumber() looks the last term up among the primes, and the order of
\* the terms keeps a sum from being counted twice.
AddSum(terms, rest, least) ==
  IF rest \in ToSet(primes) /\ rest >= least
    THEN results' = results \o Append(terms, rest) /\ sums' = sums + 1
    ELSE UNCHANGED <<results, sums>>

TryPair ==
  /\ pc = "pairs" /\ i <= Len(primes)
  /\ AddSum(<<primes[i]>>, numero - primes[i], primes[i])
  /\ i' = i + 1
  /\ UNCHANGED <<pc, input, numero, sieveVars, j, pageVars>>

TryTriple ==
  /\ pc = "triples" /\ i <= Len(primes) /\ j <= Len(primes)
  /\ LET suma == primes[i] + primes[j] IN
       IF suma % 2 = 0
         THEN AddSum(<<primes[i], primes[j]>>, numero - suma, primes[j])
         ELSE UNCHANGED <<results, sums>>
  /\ j' = j + 1
  /\ UNCHANGED <<pc, input, numero, sieveVars, i, pageVars>>

NextRow ==
  /\ pc = "triples" /\ i <= Len(primes) /\ j > Len(primes)
  /\ i' = i + 1 /\ j' = i + 1
  /\ UNCHANGED <<pc, input, numero, sieveVars, results, sums, pageVars>>

SumsEnd ==
  /\ pc \in {"pairs", "triples"} /\ i > Len(primes)
  /\ pc' = "show"
  /\ UNCHANGED <<input, numero, sieveVars, i, j, results, sums, pageVars>>

-----------------------------------------------------------------------------
(* GoldbachShowMsg::serveGoldbachResponse(), for this number               *)

\* Mutant: pos is not reset at the end of a line.
ShowTermKeepsPos ==
  /\ pc = "show" /\ input < -5 /\ shown < Len(results)
  /\ LET line == Append(Last(page), results[shown + 1])
         ends == pos = (IF input % 2 = 0 THEN 1 ELSE 2) IN
       /\ page' = Front(page) \o (IF ends THEN <<line, <<>> >> ELSE <<line>>)
       /\ pos' = IF ends THEN pos ELSE pos + 1
  /\ shown' = shown + 1
  /\ UNCHANGED <<pc, input, numero, sieveVars, i, j, results, sums>>

\* A line ends after the second term of an even number and the third of an
\* odd one.
ShowTerm ==
  /\ pc = "show" /\ input < -5 /\ shown < Len(results)
  /\ LET line == Append(Last(page), results[shown + 1])
         ends == pos = (IF input % 2 = 0 THEN 1 ELSE 2) IN
       /\ page' = Front(page) \o (IF ends THEN <<line, <<>> >> ELSE <<line>>)
       /\ pos' = IF ends THEN 0 ELSE pos + 1
  /\ shown' = shown + 1
  /\ UNCHANGED <<pc, input, numero, sieveVars, i, j, results, sums>>

ShowEnds ==
  /\ pc = "show" /\ (input >= -5 \/ shown = Len(results))
  /\ pc' = "done"
  /\ UNCHANGED <<input, numero, sieveVars, i, j, results, sums, pageVars>>

-----------------------------------------------------------------------------

Sieving == \/ StartSieve \/ SieveTooLong
           \/ SievePrime \/ SieveOverflows \/ SieveComposite \/ SieveEnds

Summing == SkipSmall \/ TryPair \/ TryTriple \/ NextRow \/ SumsEnd

Next == Sieving \/ Summing \/ ShowTerm \/ ShowEnds

SafeSpec == Init /\ [][Next]_vars

\* A thread that can run goes on.
Spec == SafeSpec /\ WF_vars(Next)

-----------------------------------------------------------------------------
(* Properties                                                              *)

Prime(p) == p > 1 /\ \A d \in 2..(p - 1) : p % d # 0

Primes == {p \in 2..(numero - 1) : Prime(p)}

\* The reference: the sums of two or three primes, smaller terms first.
SumsOfPrimes ==
  IF numero % 2 = 0
    THEN {<<p, numero - p>> : p \in {p \in Primes :
            numero - p \in Primes /\ p <= numero - p}}
    ELSE {<<p[1], p[2], numero - p[1] - p[2]>> : p \in {p \in Primes \X Primes :
            /\ p[1] <= p[2] /\ p[2] <= numero - p[1] - p[2]
            /\ numero - p[1] - p[2] \in Primes}}

\* At every step of the sieve a number is still marked exactly when no prime
\* tried so far divides it, so that the numbers taken are the primes below i,
\* in order; every prime below the number is there when the sums begin.
SieveCorrect ==
  /\ pc = "sieve" =>
       /\ \A k \in 2..(numero - 1) :
            isPrime[k] <=> \A p \in 2..(i - 1) : p < k => k % p # 0
       /\ ToSet(primes) = {p \in Primes : p < i}
  /\ pc \in {"pairs", "triples"} => ToSet(primes) = Primes
  /\ \A k, m \in DOMAIN primes : k < m => primes[k] < primes[m]

Terms == IF numero % 2 = 0 THEN 2 ELSE 3

\* Every Goldbach sum of the number is found, nothing else is, and none is
\* found twice, although the same primes are met in every order.
SumsExact ==
  pc \in {"show", "done"} /\ ~Small =>
    /\ Len(results) = Terms * sums
    /\ {SubSeq(results, Terms * k + 1, Terms * (k + 1)) : k \in 0..(sums - 1)}
         = SumsOfPrimes
    /\ sums = Cardinality(SumsOfPrimes)

\* The page of a negative number has one line for each sum, whole, and no
\* open line at the end.
PageShowsSums ==
  pc = "done" /\ input < -5 =>
    /\ ToSet(Front(page)) = SumsOfPrimes
    /\ Len(page) = sums + 1 /\ Last(page) = <<>>

InHalfRange == input \in -((MaxInt + 1) \div 2)..((MaxInt + 1) \div 2)

\* Every int comes to an end: up to half of the int range the products of the
\* sieve are ints and the number is done; above it one of them may overflow, and
\* only the least int, which has no absolute value, ends the process at once.
Terminates ==
  <>(\/ pc = "done"
     \/ ~InHalfRange /\ pc = "undefined"
     \/ Abs(input) > MaxInt /\ pc = "terminated")

==============================================================================
