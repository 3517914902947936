------------------------ MODULE GoldbachModel_proofs ------------------------
(***************************************************************************)
(* Proofs about GoldbachModel, for every number and every width of an int: *)
(* the sieve finds the primes, the loops over them find every sum once,    *)
(* and the page shows the sums.                                            *)
(***************************************************************************)
EXTENDS GoldbachModel, CommonLemmas, TLAPS

-----------------------------------------------------------------------------
(* The inductive invariant                                                 *)

Unfinished == {"start", "sieve", "pairs", "triples"}
Ended == {"show", "done", "terminated", "undefined"}

TypeOK ==
  /\ pc \in Unfinished \cup Ended
  /\ input \in Inputs
  /\ numero \in Nat
  /\ primes \in Seq(Nat)
  /\ i \in Nat \ {0} /\ j \in Nat \ {0}
  /\ results \in Seq(Nat)
  /\ sums \in Nat
  /\ shown \in Nat /\ pos \in Nat
  /\ page \in Seq(Seq(Nat)) /\ page # <<>>

\* numero is the absolute value of every number that is not small.
Counted ==
  /\ pc \in {"sieve", "pairs", "triples", "undefined"} => ~Small
  /\ pc \notin {"start", "terminated"} /\ ~Small =>
       numero = Abs(input) /\ numero > 5

\* Nothing below m divides k but k itself.
Left(k, m) == \A p \in Nat : 2 <= p /\ p < m /\ p < k => k % p # 0

\* SieveCorrect in the terms of Left, and the range of the sieve's loop.
Sieved ==
  /\ pc = "start" => primes = <<>>
  /\ pc = "sieve" =>
       /\ i \in 2..numero
       /\ isPrime \in [0..(numero - 1) -> BOOLEAN]
       /\ \A k \in 2..(numero - 1) : isPrime[k] <=> Left(k, i)
       /\ ToSet(primes) = {p \in Primes : p < i}
  /\ pc \in {"pairs", "triples"} => ToSet(primes) = Primes
  /\ \A k, m \in 1..Len(primes) : k < m => primes[k] < primes[m]

\* The terms of the k-th sum, from 0, and the sums found.
Line(k) == SubSeq(results, Terms * k + 1, Terms * (k + 1))
Lines == {Line(k) : k \in 0..(sums - 1)}

\* The results are whole sums, each there once.
Listed == /\ Len(results) = Terms * sums
          /\ IsFiniteSet(Lines) /\ Cardinality(Lines) = sums

\* A prime that comes before the n-th one.
Before(p, n) == \E a \in Nat \ {0} : a < n /\ primes[a] = p

\* The loops have been at the first terms of the sum s.
Tried(s) ==
  \/ Before(s[1], i)
  \/ pc = "triples" /\ i <= Len(primes) /\ s[1] = primes[i] /\ Before(s[2], j)

\* The results are the sums tried, one after the other and each once.
SumsFound ==
  /\ pc \in {"start", "sieve"} => results = <<>> /\ sums = 0
  /\ pc \in {"pairs", "triples"} =>
       /\ pc = "pairs" <=> numero % 2 = 0
       /\ i \in 1..(Len(primes) + 1)
       /\ pc = "triples" => j \in i..(Len(primes) + 1)
       /\ Listed
       /\ Lines = {s \in SumsOfPrimes : Tried(s)}

\* The page has the terms shown: whole lines, and the one being written.
PageFollows ==
  /\ pc \in Unfinished => page = << <<>> >> /\ pos = 0 /\ shown = 0
  /\ pc = "show" /\ input < -5 =>
       /\ shown <= Len(results)
       /\ pos < Terms /\ shown = Terms * (Len(page) - 1) + pos
       /\ \A k \in 1..(Len(page) - 1) : page[k] = Line(k - 1)
       /\ page[Len(page)] = SubSeq(results, Terms * (Len(page) - 1) + 1, shown)

SieveInv == TypeOK /\ Counted /\ Sieved

IInv == SieveInv /\ SumsFound /\ SumsExact /\ PageFollows /\ PageShowsSums

\* Only a number outside half of the int range stops before it is done.
StopsInRange ==
  /\ pc = "undefined" => ~InHalfRange
  /\ pc = "terminated" => Abs(input) > MaxInt

-----------------------------------------------------------------------------
(* Types                                                                   *)

\* The inputs are integers, and so are their absolute values.
LEMMA InputTypes ==
  ASSUME NEW n \in Inputs
  PROVE  /\ n \in Int /\ Abs(n) \in Nat /\ MaxInt \in Nat
         /\ n \notin -5..5 => Abs(n) > 5
         /\ Abs(n) % 2 = 0 <=> n % 2 = 0
<1>1. n \in Int /\ MaxInt \in Nat
  BY InputsAssumption DEF Ints
<1>2. (-n) % 2 = 0 <=> n % 2 = 0
  BY <1>1
<1> QED
  BY <1>1, <1>2 DEF Abs

\* The primes found are numbers.
LEMMA PrimesTypes ==
  ASSUME primes \in Seq(Nat)
  PROVE  /\ Len(primes) \in Nat /\ DOMAIN primes = 1..Len(primes)
         /\ \A k \in 1..Len(primes) : primes[k] \in Nat
         /\ ToSet(primes) \subseteq Nat
         /\ ToSet(primes) = {primes[k] : k \in 1..Len(primes)}
  BY DEF ToSet

\* A sum that is added has its terms in Nat.
LEMMA AddSumType ==
  ASSUME TypeOK, NEW terms \in Seq(Nat), NEW rest, NEW least,
         AddSum(terms, rest, least)
  PROVE  results' \in Seq(Nat) /\ sums' \in Nat
<1>1. primes \in Seq(Nat) /\ results \in Seq(Nat) /\ sums \in Nat
  BY DEF TypeOK
<1>2. CASE rest \in ToSet(primes) /\ rest >= least
  <2>1. results' = results \o Append(terms, rest) /\ sums' = sums + 1
    BY <1>2 DEF AddSum
  <2>2. rest \in Nat
    BY <1>1, <1>2, PrimesTypes
  <2>3. Append(terms, rest) \in Seq(Nat)
    BY <2>2
  <2> QED
    BY <1>1, <2>1, <2>3, ConcatProperties
<1>3. CASE ~(rest \in ToSet(primes) /\ rest >= least)
  BY <1>1, <1>3 DEF AddSum
<1> QED
  BY <1>2, <1>3

\* What printing a term does to the page.
LEMMA PageGrows ==
  ASSUME page \in Seq(Seq(Nat)), page # <<>>, NEW x \in Nat, NEW ends \in BOOLEAN,
         page' = Front(page) \o (IF ends THEN <<Append(Last(page), x), <<>> >>
                                         ELSE <<Append(Last(page), x)>>)
  PROVE  /\ Len(page) \in Nat /\ Len(page) >= 1
         /\ page' \in Seq(Seq(Nat)) /\ page' # <<>>
         /\ Len(page') = IF ends THEN Len(page) + 1 ELSE Len(page)
         /\ \A k \in 1..(Len(page) - 1) : page'[k] = page[k]
         /\ page'[Len(page)] = Append(page[Len(page)], x)
         /\ ends => page'[Len(page')] = <<>>
<1> DEFINE n == Len(page)
           line == Append(page[n], x)
           back == IF ends THEN <<line, <<>> >> ELSE <<line>>
<1>1. n \in Nat /\ n >= 1 /\ page[n] \in Seq(Nat)
  BY EmptySeq
<1>2. line \in Seq(Nat) /\ back \in Seq(Seq(Nat))
      /\ Len(back) = (IF ends THEN 2 ELSE 1)
      /\ back[1] = line /\ (ends => back[2] = <<>>)
  BY <1>1
<1>3. /\ Front(page) \in Seq(Seq(Nat)) /\ Len(Front(page)) = n - 1
      /\ \A k \in 1..(n - 1) : Front(page)[k] = page[k]
  <2>1. \A k \in 1..(n - 1) : page[k] \in Seq(Nat)
    BY <1>1
  <2> HIDE DEF n
  <2>2. /\ SubSeq(page, 1, n - 1) \in Seq(Seq(Nat))
        /\ Len(SubSeq(page, 1, n - 1)) = IF 1 <= n - 1 THEN n - 1 - 1 + 1 ELSE 0
        /\ \A k \in 1..(n - 1 - 1 + 1) : SubSeq(page, 1, n - 1)[k] = page[1 + k - 1]
    BY <1>1, <2>1, SubSeqProperties
  <2> QED
    BY <1>1, <2>2 DEF Front, n
<1>4. page' = Front(page) \o back
  BY DEF Last
<1> DEFINE front == Front(page)
<1> HIDE DEF n, line, back, front
<1>5. /\ page' \in Seq(Seq(Nat)) /\ Len(page') = n - 1 + Len(back)
      /\ \A k \in 1..(n - 1) : page'[k] = front[k]
      /\ \A k \in n..(n - 1 + Len(back)) : page'[k] = back[k - (n - 1)]
  <2> DEFINE joined == front \o back
  <2>1. front \in Seq(Seq(Nat)) /\ Len(front) = n - 1 /\ page' = joined
    BY <1>3, <1>4 DEF front
  <2>2. /\ joined \in Seq(Seq(Nat)) /\ Len(joined) = Len(front) + Len(back)
        /\ \A k \in 1..(Len(front) + Len(back)) :
             joined[k] = IF k <= Len(front) THEN front[k] ELSE back[k - Len(front)]
    BY <1>2, <2>1, ConcatProperties
  <2> HIDE DEF joined
  <2>3. Len(back) \in Nat
    BY <1>2
  <2>4. \A k \in 1..(n - 1) : page'[k] = front[k]
    <3> TAKE k \in 1..(n - 1)
    <3>1. k \in 1..(Len(front) + Len(back)) /\ k <= Len(front)
      BY <1>1, <2>1, <2>3
    <3> QED
      BY <2>1, <2>2, <3>1
  <2>5. \A k \in n..(n - 1 + Len(back)) : page'[k] = back[k - (n - 1)]
    <3> TAKE k \in n..(n - 1 + Len(back))
    <3>1. k \in 1..(Len(front) + Len(back)) /\ ~(k <= Len(front))
      BY <1>1, <2>1, <2>3
    <3>2. joined[k] = back[k - Len(front)]
      BY <2>2, <3>1
    <3> QED
      BY <2>1, <3>2
  <2> QED
    BY <2>1, <2>2, <2>4, <2>5
<1>6. Len(page') = (IF ends THEN n + 1 ELSE n) /\ page' # <<>>
  BY <1>1, <1>2, <1>5, SMTT(20)
<1>7. \A k \in 1..(n - 1) : page'[k] = page[k]
  BY <1>1, <1>3, <1>5 DEF front
<1>8. page'[n] = line
  <2>1. n \in n..(n - 1 + Len(back)) /\ n - (n - 1) = 1
    BY <1>1, <1>2
  <2> QED
    BY <1>2, <1>5, <2>1
<1>9. ASSUME ends  PROVE page'[n + 1] = <<>>
  <2> DEFINE m == n + 1
  <2>1. m \in n..(n - 1 + Len(back))
    BY <1>1, <1>2, <1>9
  <2>2. m - (n - 1) = 2
    BY <1>1
  <2> HIDE DEF m
  <2>3. page'[m] = back[m - (n - 1)]
    BY <1>5, <2>1
  <2>4. page'[m] = back[2]
    BY <2>2, <2>3
  <2> QED
    BY <1>2, <1>9, <2>4 DEF m
<1> QED
  BY <1>1, <1>5, <1>6, <1>7, <1>8, <1>9 DEF n, line


\* Every step keeps the types.
LEMMA TypeStep == ASSUME TypeOK, Next  PROVE TypeOK'
<1>1. /\ pc \in Unfinished \cup Ended /\ input \in Inputs /\ numero \in Nat
      /\ primes \in Seq(Nat) /\ i \in Nat \ {0} /\ j \in Nat \ {0}
      /\ results \in Seq(Nat)
      /\ sums \in Nat /\ shown \in Nat /\ pos \in Nat
      /\ page \in Seq(Seq(Nat)) /\ page # <<>>
  BY DEF TypeOK
<1>2. CASE StartSieve \/ SieveTooLong
  <2>1. Abs(input) \in Nat
    BY <1>1, InputTypes
  <2>2. CASE StartSieve
    BY <1>1, <2>1, <2>2, SMTT(20)
       DEF TypeOK, StartSieve, pageVars, Unfinished
  <2>3. CASE SieveTooLong
    BY <1>1, <2>3, SMTT(20)
       DEF TypeOK, SieveTooLong, pageVars, sieveVars, Ended
  <2> QED
    BY <1>2, <2>2, <2>3
<1>3. CASE SievePrime \/ SieveOverflows \/ SieveComposite
  <2>1. Append(primes, i) \in Seq(Nat) /\ i + 1 \in Nat \ {0}
    BY <1>1
  <2>2. UNCHANGED <<input, numero, j, results, sums, shown, page, pos>>
    BY <1>3, SMTT(20)
       DEF SievePrime, SieveOverflows, SieveComposite, pageVars, sieveVars
  <2>3. pc' = pc \/ pc' = "undefined"
    BY <1>3 DEF SievePrime, SieveOverflows, SieveComposite
  <2>4. pc' \in Unfinished \cup Ended
    BY <1>1, <2>3 DEF Ended
  <2>5. primes' = primes \/ primes' = Append(primes, i)
    BY <1>3 DEF SievePrime, SieveOverflows, SieveComposite, sieveVars
  <2>6. i' = i \/ i' = i + 1
    BY <1>3 DEF SievePrime, SieveOverflows, SieveComposite
  <2> QED
    BY <1>1, <2>1, <2>2, <2>4, <2>5, <2>6 DEF TypeOK
<1>4. CASE SieveEnds \/ SkipSmall \/ NextRow \/ SumsEnd \/ ShowEnds
  <2>1. /\ UNCHANGED <<input, numero, primes, results, sums, shown, page, pos>>
        /\ pc' \in Unfinished \cup Ended
    BY <1>1, <1>4 DEF SieveEnds, SkipSmall, NextRow, SumsEnd, ShowEnds, pageVars,
                      sieveVars, Unfinished, Ended
  <2>2. i' \in Nat \ {0} /\ j' \in Nat \ {0}
    BY <1>1, <1>4, SMTT(20) DEF SieveEnds, SkipSmall, NextRow, SumsEnd, ShowEnds
  <2> QED
    BY <1>1, <2>1, <2>2 DEF TypeOK
<1>5. CASE TryPair
  <2>1. primes[i] \in Nat
    BY <1>1, <1>5, PrimesTypes DEF TryPair
  <2>2. i' = i + 1 /\ AddSum(<<primes[i]>>, numero - primes[i], primes[i])
    BY <1>5 DEF TryPair
  <2>3. UNCHANGED <<pc, input, numero, primes, j, shown, page, pos>>
    BY <1>5 DEF TryPair, pageVars, sieveVars
  <2>4. <<primes[i]>> \in Seq(Nat)
    BY <2>1
  <2>5. results' \in Seq(Nat) /\ sums' \in Nat
    BY <2>2, <2>4, AddSumType, Zenon
  <2> QED
    BY <1>1, <2>2, <2>3, <2>5 DEF TypeOK
<1>6. CASE TryTriple
  <2>1. primes[i] \in Nat /\ primes[j] \in Nat
    BY <1>1, <1>6, PrimesTypes DEF TryTriple
  <2>2. \/ AddSum(<<primes[i], primes[j]>>, numero - (primes[i] + primes[j]), primes[j])
        \/ UNCHANGED <<results, sums>>
    BY <1>6 DEF TryTriple
  <2>3. j' = j + 1 /\ UNCHANGED <<pc, input, numero, primes, i, shown, page, pos>>
    BY <1>6 DEF TryTriple, pageVars, sieveVars
  <2>4. <<primes[i], primes[j]>> \in Seq(Nat)
    BY <2>1
  <2>5. results' \in Seq(Nat) /\ sums' \in Nat
    <3>1. CASE AddSum(<<primes[i], primes[j]>>, numero - (primes[i] + primes[j]), primes[j])
      BY <2>4, <3>1, AddSumType, Zenon
    <3> QED
      BY <1>1, <2>2, <3>1
  <2> QED
    BY <1>1, <2>3, <2>5 DEF TypeOK
<1>7. CASE ShowTerm
  <2> DEFINE ends == pos = (IF input % 2 = 0 THEN 1 ELSE 2)
             x == results[shown + 1]
  <2>1. shown + 1 \in 1..Len(results) /\ x \in Nat /\ ends \in BOOLEAN
    BY <1>1, <1>7, SMTT(20) DEF ShowTerm
  <2>2. /\ page' = Front(page) \o (IF ends THEN <<Append(Last(page), x), <<>> >>
                                             ELSE <<Append(Last(page), x)>>)
        /\ pos' = IF ends THEN 0 ELSE pos + 1
        /\ shown' = shown + 1
        /\ UNCHANGED <<pc, input, numero, primes, i, j, results, sums>>
    BY <1>7 DEF ShowTerm, sieveVars
  <2> HIDE DEF ends, x
  <2>3. page' \in Seq(Seq(Nat)) /\ page' # <<>>
    BY <1>1, <2>1, <2>2, PageGrows
  <2>4. pos' \in Nat /\ shown' \in Nat
    BY <1>1, <2>2
  <2> QED
    BY <1>1, <2>2, <2>3, <2>4 DEF TypeOK
<1> QED
  BY <1>2, <1>3, <1>4, <1>5, <1>6, <1>7 DEF Next, Sieving, Summing


-----------------------------------------------------------------------------
(* The sieve                                                               *)

\* numero is set once, from an input that is not small.
LEMMA CountedStep == ASSUME TypeOK, Counted, Next  PROVE Counted'
<1>1. input \in Inputs /\ input' = input
  BY DEF TypeOK, Next, Sieving, Summing, StartSieve, SieveTooLong, SievePrime,
         SieveOverflows, SieveComposite, SieveEnds, SkipSmall, TryPair, TryTriple,
         NextRow, SumsEnd, ShowTerm, ShowEnds
<1>2. Abs(input) > 5 \/ Small
  BY <1>1, InputTypes DEF Small
<1>3. CASE StartSieve
  BY <1>1, <1>2, <1>3 DEF Counted, StartSieve, Small
<1>4. CASE SieveTooLong \/ SkipSmall
  BY <1>1, <1>4 DEF Counted, SieveTooLong, SkipSmall, Small
<1>5. CASE \/ SievePrime \/ SieveOverflows \/ SieveComposite \/ SieveEnds
           \/ TryPair \/ TryTriple \/ NextRow \/ SumsEnd \/ ShowTerm \/ ShowEnds
  <2>1. /\ numero' = numero /\ pc \notin {"start", "terminated"}
        /\ pc' \notin {"start", "terminated"}
        /\ pc' \in {"sieve", "pairs", "triples", "undefined"} =>
             pc \in {"sieve", "pairs", "triples", "undefined"}
    BY <1>5 DEF SievePrime, SieveOverflows, SieveComposite, SieveEnds, TryPair,
                TryTriple, NextRow, SumsEnd, ShowTerm, ShowEnds
  <2> QED
    BY <1>1, <2>1 DEF Counted, Small
<1> QED
  BY <1>3, <1>4, <1>5 DEF Next, Sieving, Summing

\* The next divisor strikes out its multiples.
LEMMA LeftNext ==
  ASSUME NEW k \in Nat, NEW m \in Nat, m >= 2
  PROVE  Left(k, m + 1) <=> Left(k, m) /\ ~(k > m /\ k % m = 0)
<1>1. ASSUME Left(k, m + 1)  PROVE Left(k, m) /\ ~(k > m /\ k % m = 0)
  <2>1. \A p \in Nat : p < m + 1 <=> p < m \/ p = m
    OBVIOUS
  <2>2. 2 <= m /\ (k > m <=> m < k)
    OBVIOUS
  <2> QED
    BY <1>1, <2>1, <2>2, Zenon DEF Left
<1>2. ASSUME Left(k, m), ~(k > m /\ k % m = 0)  PROVE Left(k, m + 1)
  <2>1. \A p \in Nat : p < m + 1 <=> p < m \/ p = m
    OBVIOUS
  <2>2. k > m <=> m < k
    OBVIOUS
  <2> QED
    BY <1>2, <2>1, <2>2, Zenon DEF Left
<1> QED
  BY <1>1, <1>2

\* A composite has no multiple that its divisor has not struck out.
LEMMA LeftComposite ==
  ASSUME NEW k \in Nat, NEW m \in Nat, m >= 2, ~Left(m, m)
  PROVE  Left(k, m + 1) <=> Left(k, m)
<1>1. PICK p \in Nat : 2 <= p /\ p < m /\ m % p = 0
  BY DEF Left
<1>2. p \in Int /\ p > 0 /\ p < m
  BY <1>1
<1>3. ASSUME k > m, k % m = 0  PROVE ~Left(k, m)
  <2>1. PICK e \in Int : k = m * e
    BY <1>3, Divisible
  <2>2. k % p = 0
    <3>1. k \in Int /\ m \in Int
      OBVIOUS
    <3> QED
      BY <1>1, <1>2, <2>1, <3>1, DividesProduct, Zenon
  <2>3. p < k
    BY <1>2, <1>3
  <2> QED
    BY <1>1, <2>2, <2>3, Zenon DEF Left
<1> QED
  BY <1>3, LeftNext

\* A number is prime when no smaller one divides it.
LEMMA LeftPrime ==
  ASSUME NEW k \in Nat, k >= 2
  PROVE  Left(k, k) <=> Prime(k)
<1>1. \A p : p \in 2..(k - 1) <=> p \in Nat /\ 2 <= p /\ p < k
  OBVIOUS
<1>2. k > 1
  OBVIOUS
<1> QED
  BY <1>1, <1>2, Zenon DEF Left, Prime

\* What the sieve keeps is what it is for.
LEMMA SievedCorrect == ASSUME TypeOK, Sieved  PROVE SieveCorrect
<1>1. \A p : p \in 2..(i - 1) <=> p \in Nat /\ 2 <= p /\ p < i
  BY DEF TypeOK
<1>2. \A k : (\A p \in 2..(i - 1) : p < k => k % p # 0) <=> Left(k, i)
  BY <1>1, Zenon DEF Left
<1>3. DOMAIN primes = 1..Len(primes)
  BY PrimesTypes DEF TypeOK
<1> QED
  BY <1>2, <1>3, Zenon DEF SieveCorrect, Sieved

\* Striking the multiples of a prime out.
LEMMA SievePrimeStep == ASSUME SieveInv, SievePrime  PROVE Sieved'
<1>1. /\ pc = "sieve" /\ i \in Nat /\ i >= 2 /\ i < numero /\ numero \in Nat
      /\ primes \in Seq(Nat) /\ isPrime \in [0..(numero - 1) -> BOOLEAN]
      /\ \A k \in 2..(numero - 1) : isPrime[k] <=> Left(k, i)
      /\ ToSet(primes) = {p \in Primes : p < i}
      /\ \A k, m \in 1..Len(primes) : k < m => primes[k] < primes[m]
  BY DEF SieveInv, TypeOK, Sieved, SievePrime
<1>2. /\ pc' = "sieve" /\ numero' = numero /\ i' = i + 1 /\ isPrime[i]
      /\ primes' = Append(primes, i)
      /\ isPrime' = [k \in 0..(numero - 1) |-> isPrime[k] /\ ~(k > i /\ k % i = 0)]
  BY <1>1 DEF SievePrime
<1>3. i' \in 2..numero' /\ isPrime' \in [0..(numero' - 1) -> BOOLEAN]
  BY <1>1, <1>2
<1>4. \A k \in 2..(numero' - 1) : isPrime'[k] <=> Left(k, i')
  <2> TAKE k \in 2..(numero' - 1)
  <2>1. k \in Nat /\ k \in 0..(numero - 1) /\ k \in 2..(numero - 1)
    BY <1>1, <1>2
  <2>2. isPrime'[k] <=> isPrime[k] /\ ~(k > i /\ k % i = 0)
    BY <1>2, <2>1, Zenon
  <2>3. Left(k, i + 1) <=> Left(k, i) /\ ~(k > i /\ k % i = 0)
    BY <1>1, <2>1, LeftNext, Zenon
  <2> QED
    BY <1>1, <1>2, <2>1, <2>2, <2>3, Zenon
<1>5. Primes' = Primes
  BY <1>2 DEF Primes
<1>6. i \in Primes
  <2>1. i \in 2..(numero - 1)
    BY <1>1
  <2>2. Left(i, i)
    BY <1>1, <1>2, <2>1, Zenon
  <2> QED
    BY <1>1, <2>1, <2>2, LeftPrime, Zenon DEF Primes
<1>7. ToSet(primes') = {p \in Primes' : p < i'}
  <2>1. Range(primes') = Range(primes) \cup {i}
    BY <1>1, <1>2, RangeAppend
  <2>2. ToSet(primes') = ToSet(primes) \cup {i}
    BY <2>1 DEF Range, ToSet
  <2>3. \A p \in Primes : p < i + 1 <=> p < i \/ p = i
    BY <1>1 DEF Primes
  <2> QED
    BY <1>1, <1>2, <1>5, <1>6, <2>2, <2>3
<1>8. \A k, m \in 1..Len(primes') : k < m => primes'[k] < primes'[m]
  <2>1. /\ Len(primes') = Len(primes) + 1 /\ Len(primes) \in Nat
        /\ \A k \in 1..Len(primes) : primes'[k] = primes[k]
        /\ primes'[Len(primes) + 1] = i
    BY <1>1, <1>2, RangeAppend
  <2>2. \A k \in 1..Len(primes) : primes[k] < i
    BY <1>1, PrimesTypes
  <2>3. ASSUME NEW k \in 1..Len(primes'), NEW m \in 1..Len(primes'), k < m
        PROVE  primes'[k] < primes'[m]
    <3>1. k \in 1..Len(primes) /\ (m \in 1..Len(primes) \/ m = Len(primes) + 1)
      BY <2>1, <2>3
    <3>2. CASE m \in 1..Len(primes)
      BY <1>1, <2>1, <2>3, <3>1, <3>2
    <3>3. CASE m = Len(primes) + 1
      BY <2>1, <2>2, <3>1, <3>3
    <3> QED  BY <3>1, <3>2, <3>3
  <2> QED
    BY <2>3
<1> QED
  BY <1>2, <1>3, <1>4, <1>7, <1>8, Zenon DEF Sieved


\* Passing a composite over.
LEMMA SieveCompositeStep == ASSUME SieveInv, SieveComposite  PROVE Sieved'
<1>1. /\ pc = "sieve" /\ i \in Nat /\ i >= 2 /\ i < numero /\ numero \in Nat
      /\ isPrime \in [0..(numero - 1) -> BOOLEAN]
      /\ \A k \in 2..(numero - 1) : isPrime[k] <=> Left(k, i)
      /\ ToSet(primes) = {p \in Primes : p < i}
      /\ \A k, m \in 1..Len(primes) : k < m => primes[k] < primes[m]
  BY DEF SieveInv, TypeOK, Sieved, SieveComposite
<1>2. /\ pc' = "sieve" /\ numero' = numero /\ i' = i + 1 /\ ~isPrime[i]
      /\ primes' = primes /\ isPrime' = isPrime
  BY <1>1 DEF SieveComposite, sieveVars
<1>3. i' \in 2..numero' /\ isPrime' \in [0..(numero' - 1) -> BOOLEAN]
  BY <1>1, <1>2
<1>4. ~Left(i, i)
  <2>1. i \in 2..(numero - 1)
    BY <1>1
  <2> QED
    BY <1>1, <1>2, <2>1, Zenon
<1>5. \A k \in 2..(numero' - 1) : isPrime'[k] <=> Left(k, i')
  <2> TAKE k \in 2..(numero' - 1)
  <2>1. k \in Nat /\ k \in 2..(numero - 1)
    BY <1>1, <1>2
  <2>2. Left(k, i + 1) <=> Left(k, i)
    BY <1>1, <1>4, <2>1, LeftComposite, Zenon
  <2> QED
    BY <1>1, <1>2, <2>1, <2>2, Zenon
<1>6. ToSet(primes') = {p \in Primes' : p < i'}
  <2>1. Primes' = Primes
    BY <1>2 DEF Primes
  <2>2. ~Prime(i)
    BY <1>1, <1>4, LeftPrime
  <2>3. \A p \in Primes : p < i + 1 <=> p < i
    BY <1>1, <2>2 DEF Primes
  <2> QED
    BY <1>1, <1>2, <2>1, <2>3
<1> QED
  BY <1>1, <1>2, <1>3, <1>5, <1>6, Zenon DEF Sieved

\* The sieve loses no prime and takes no other number.
LEMMA SieveStep == ASSUME SieveInv, Next  PROVE Sieved'
<1>1. CASE StartSieve
  <2>1. /\ numero' = Abs(input) /\ numero' \in Nat /\ numero' > 5
        /\ pc = "start" /\ pc' = "sieve" /\ i' = 2 /\ primes' = primes /\ primes = <<>>
        /\ isPrime' = [k \in 0..(numero' - 1) |-> k > 1]
    BY <1>1, InputTypes DEF StartSieve, SieveInv, TypeOK, Sieved, Small
  <2>2. i' \in 2..numero' /\ isPrime' \in [0..(numero' - 1) -> BOOLEAN]
    BY <2>1
  <2>3. \A k \in 2..(numero' - 1) : isPrime'[k] <=> Left(k, i')
    <3> TAKE k \in 2..(numero' - 1)
    <3>1. isPrime'[k]
      BY <2>1
    <3>2. Left(k, 2)
      BY DEF Left
    <3> QED
      BY <2>1, <3>1, <3>2, Zenon
  <2>4. ToSet(primes') = {p \in Primes' : p < i'}
    BY <2>1 DEF Primes, ToSet
  <2>5. \A k, m \in 1..Len(primes') : k < m => primes'[k] < primes'[m]
    BY <2>1
  <2> QED
    BY <2>1, <2>2, <2>3, <2>4, <2>5, Zenon DEF Sieved
<1>2. CASE SieveEnds
  <2>1. /\ pc = "sieve" /\ i \in 2..numero /\ i >= numero /\ numero \in Nat
        /\ ToSet(primes) = {p \in Primes : p < i}
        /\ \A k, m \in 1..Len(primes) : k < m => primes[k] < primes[m]
    BY <1>2 DEF SieveEnds, SieveInv, Sieved, TypeOK
  <2>2. /\ pc' \in {"pairs", "triples"} /\ numero' = numero /\ primes' = primes
    BY <1>2 DEF SieveEnds, sieveVars
  <2>3. ToSet(primes) = Primes
    BY <2>1 DEF Primes
  <2>4. Primes' = Primes
    BY <2>2 DEF Primes
  <2> QED
    BY <2>1, <2>2, <2>3, <2>4 DEF Sieved
<1>3. CASE \/ SkipSmall \/ SieveTooLong \/ SieveOverflows \/ TryPair \/ TryTriple
           \/ NextRow \/ SumsEnd \/ ShowTerm \/ ShowEnds
  <2>1. /\ numero' = numero /\ primes' = primes /\ pc' \notin {"start", "sieve"}
        /\ pc' \in {"pairs", "triples"} => pc' = pc
    BY <1>3 DEF SkipSmall, SieveTooLong, SieveOverflows, TryPair, TryTriple, NextRow,
                SumsEnd, ShowTerm, ShowEnds, sieveVars
  <2>2. Primes' = Primes
    BY <2>1 DEF Primes
  <2> QED
    BY <2>1, <2>2 DEF SieveInv, Sieved
<1> QED
  BY <1>1, <1>2, <1>3, SievePrimeStep, SieveCompositeStep DEF Next, Sieving, Summing

\* At the start nothing is found.
LEMMA SieveInitially == Init => SieveInv
<1> SUFFICES ASSUME Init  PROVE SieveInv
  OBVIOUS
<1>1. /\ pc = "start" /\ input \in Inputs /\ numero = 0 /\ primes = <<>>
      /\ i = 1 /\ j = 1 /\ results = <<>> /\ sums = 0 /\ shown = 0 /\ pos = 0
      /\ page = << <<>> >>
  BY DEF Init
<1>2. page \in Seq(Seq(Nat)) /\ page # <<>>
  BY <1>1
<1>3. TypeOK
  BY <1>1, <1>2 DEF TypeOK, Unfinished
<1> QED
  BY <1>1, <1>3 DEF SieveInv, Counted, Sieved

\* A stutter.
LEMMA SieveStutters == ASSUME SieveInv, UNCHANGED vars  PROVE SieveInv'
<1>1. UNCHANGED <<pc, input, numero, isPrime, primes, i, j, results, sums, shown,
                  page, pos>>
  BY DEF vars
<1>2. Primes' = Primes /\ (Small' <=> Small)
  BY <1>1 DEF Primes, Small
<1>3. TypeOK'
  BY <1>1 DEF SieveInv, TypeOK
<1>4. Counted'
  BY <1>1, <1>2 DEF SieveInv, Counted
<1>5. Sieved'
  BY <1>1, <1>2 DEF SieveInv, Sieved
<1> QED
  BY <1>3, <1>4, <1>5 DEF SieveInv

LEMMA SieveInductive == ASSUME SieveInv, [Next]_vars  PROVE SieveInv'
<1>1. CASE Next
  BY <1>1, TypeStep, CountedStep, SieveStep DEF SieveInv
<1> QED
  BY <1>1, SieveStutters


-----------------------------------------------------------------------------
(* The results as a list of sums                                           *)

\* A sum has two terms or three; the k-th line lies before the n-th.
LEMMA LineBounds ==
  ASSUME NEW n \in Nat, NEW k \in 0..(n - 1)
  PROVE  /\ Terms \in {2, 3}
         /\ Terms * k + 1 \in 1..(Terms * n) /\ Terms * (k + 1) \in 1..(Terms * n)
         /\ Terms * k + 1 <= Terms * (k + 1)
<1>1. Terms = 2 \/ Terms = 3
  BY DEF Terms
<1> HIDE DEF Terms
<1>2. CASE Terms = 2
  BY <1>2
<1>3. CASE Terms = 3
  BY <1>3
<1> QED
  BY <1>1, <1>2, <1>3

\* What a sum pushed on the results adds to the lines.
LEMMA LinesGrow ==
  ASSUME results \in Seq(Nat), sums \in Nat, Len(results) = Terms * sums,
         NEW line \in Seq(Nat), Len(line) = Terms,
         results' = results \o line, sums' = sums + 1, numero' = numero
  PROVE  /\ Len(results') = Terms' * sums'
         /\ Lines' = Lines \cup {line}
<1> DEFINE T == Terms
           n == Len(results)
           grown == results \o line
<1>1. T \in {2, 3} /\ Terms' = T
  BY DEF Terms
<1>2. n \in Nat /\ n = T * sums /\ Len(line) = T
  OBVIOUS
<1>3. Len(grown) = n + T
  BY ConcatProperties
<1> HIDE DEF T, n, grown
<1>4. n + T = T * (sums + 1)
  BY <1>1, <1>2
<1>5. ASSUME NEW k \in 0..(sums - 1)
      PROVE  SubSeq(grown, T * k + 1, T * (k + 1)) = Line(k)
  <2> DEFINE a == T * k + 1
             b == T * (k + 1)
  <2>1. a \in 1..n /\ b \in 1..n
    BY <1>2, LineBounds DEF T
  <2> HIDE DEF a, b
  <2>2. SubSeq(grown, a, b) = SubSeq(results, a, b)
    BY <2>1, SubSeqOfConcat1 DEF n, grown
  <2> QED
    BY <2>2 DEF a, b, Line, T
<1>6. SubSeq(grown, T * sums + 1, T * (sums + 1)) = line
  <2> DEFINE a == n + 1
             b == n + T
  <2>1. a \in (n + 1)..(n + Len(line)) /\ b \in (n + 1)..(n + Len(line))
        /\ a - n = 1 /\ b - n = Len(line)
    BY <1>1, <1>2
  <2> HIDE DEF a, b
  <2>2. SubSeq(grown, a, b) = SubSeq(line, a - n, b - n)
    <3>1. /\ a \in (Len(results) + 1)..(Len(results) + Len(line))
          /\ b \in (Len(results) + 1)..(Len(results) + Len(line))
      BY <2>1 DEF n
    <3>2. SubSeq(results \o line, a, b) = SubSeq(line, a - Len(results), b - Len(results))
      BY <3>1, SubSeqOfConcat2
    <3> QED
      BY <3>2 DEF n, grown
  <2>3. SubSeq(line, 1, Len(line)) = line
    BY SubSeqFull
  <2> QED
    BY <1>2, <1>4, <2>1, <2>2, <2>3 DEF a, b
<1>7. Lines' = {SubSeq(grown, T * k + 1, T * (k + 1)) : k \in 0..sums}
  <2>1. sums + 1 - 1 = sums
    OBVIOUS
  <2> QED
    BY <1>1, <2>1 DEF Lines, Line, grown
<1>8. \A k : k \in 0..sums <=> k \in 0..(sums - 1) \/ k = sums
  OBVIOUS
<1>9. Lines' = Lines \cup {line}
  <2>1. Lines = {Line(k) : k \in 0..(sums - 1)}
    BY DEF Lines
  <2> QED
    BY <1>5, <1>6, <1>7, <1>8, <2>1, Zenon
<1> QED
  BY <1>1, <1>3, <1>4, <1>9 DEF grown


\* What AddSum does to the lines, when the sum is a new one.
LEMMA SumAdded ==
  ASSUME TypeOK, Listed, numero' = numero,
         NEW terms \in Seq(Nat), Len(terms) + 1 = Terms, NEW rest, NEW least,
         AddSum(terms, rest, least), Append(terms, rest) \notin Lines
  PROVE  /\ Listed'
         /\ Lines' = IF rest \in ToSet(primes) /\ rest >= least
                       THEN Lines \cup {Append(terms, rest)} ELSE Lines
<1> DEFINE line == Append(terms, rest)
<1>1. /\ results \in Seq(Nat) /\ sums \in Nat /\ primes \in Seq(Nat)
      /\ Len(results) = Terms * sums /\ IsFiniteSet(Lines) /\ Cardinality(Lines) = sums
  BY DEF TypeOK, Listed
<1>2. CASE rest \in ToSet(primes) /\ rest >= least
  <2>1. results' = results \o line /\ sums' = sums + 1
    BY <1>2 DEF AddSum
  <2>2. line \in Seq(Nat) /\ Len(line) = Terms
    <3>1. rest \in Nat
      BY <1>1, <1>2, PrimesTypes
    <3> QED
      BY <3>1
  <2>3. line \notin Lines
    OBVIOUS
  <2> HIDE DEF line
  <2>4. Len(results') = Terms' * sums' /\ Lines' = Lines \cup {line}
    BY <1>1, <2>1, <2>2, LinesGrow
  <2> DEFINE before == Lines
             after == before \cup {line}
  <2> HIDE DEF before
  <2>5. IsFiniteSet(after) /\ Cardinality(after) = Cardinality(before) + 1
    BY <1>1, <2>3, FS_AddElement DEF before
  <2> HIDE DEF after
  <2>6. Lines' = after
    BY <2>4 DEF after, before
  <2>7. Cardinality(Lines') = sums'
    BY <1>1, <2>1, <2>5, <2>6 DEF before
  <2> QED
    BY <1>2, <2>4, <2>5, <2>6, <2>7 DEF Listed, line
<1>3. CASE ~(rest \in ToSet(primes) /\ rest >= least)
  <2>1. results' = results /\ sums' = sums
    BY <1>3 DEF AddSum
  <2>2. Lines' = Lines /\ Terms' = Terms
    BY <2>1 DEF Lines, Line, Terms
  <2> QED
    BY <1>1, <1>3, <2>1, <2>2 DEF Listed
<1> QED
  BY <1>2, <1>3


-----------------------------------------------------------------------------
(* The loops over the primes                                               *)

\* The primes before the next one, and before the end.
LEMMA BeforeNext ==
  ASSUME NEW n \in Nat \ {0}, NEW p
  PROVE  /\ Before(p, n + 1) <=> Before(p, n) \/ primes[n] = p
         /\ ~Before(p, 1)
<1>1. \A a \in Nat \ {0} : a < n + 1 <=> a < n \/ a = n
  OBVIOUS
<1>2. \A a \in Nat \ {0} : ~(a < 1)
  OBVIOUS
<1>3. n < n + 1
  OBVIOUS
<1> QED
  BY <1>1, <1>2, <1>3, Zenon DEF Before

LEMMA BeforeEnd ==
  ASSUME primes \in Seq(Nat), NEW p
  PROVE  Before(p, Len(primes) + 1) <=> p \in ToSet(primes)
<1>1. \A a : a \in Nat \ {0} /\ a < Len(primes) + 1 <=> a \in 1..Len(primes)
  OBVIOUS
<1>2. ToSet(primes) = {primes[k] : k \in 1..Len(primes)}
  BY PrimesTypes
<1> QED
  BY <1>1, <1>2, Zenon DEF Before

\* No prime comes before itself, and an earlier one is smaller.
LEMMA BeforeSmaller ==
  ASSUME primes \in Seq(Nat), NEW n \in 1..Len(primes),
         \A k, m \in 1..Len(primes) : k < m => primes[k] < primes[m],
         NEW p, Before(p, n)
  PROVE  p \in Nat /\ p < primes[n] /\ primes[n] \in Nat
<1>1. PICK a \in Nat \ {0} : a < n /\ primes[a] = p
  BY DEF Before
<1>2. a \in 1..Len(primes)
  BY <1>1
<1> QED
  BY <1>1, <1>2, PrimesTypes

\* The sums of an even number and those of an odd one.
LEMMA PairSums ==
  ASSUME numero % 2 = 0
  PROVE  /\ Terms = 2
         /\ \A s : s \in SumsOfPrimes <=>
              \E x \in Primes : /\ numero - x \in Primes /\ x <= numero - x
                                /\ s = <<x, numero - x>>
  BY DEF SumsOfPrimes, Terms

LEMMA TripleSums ==
  ASSUME numero % 2 # 0
  PROVE  /\ Terms = 3
         /\ \A s : s \in SumsOfPrimes <=>
              \E x, y \in Primes : /\ numero - x - y \in Primes
                                   /\ x <= y /\ y <= numero - x - y
                                   /\ s = <<x, y, numero - x - y>>
<1>1. SumsOfPrimes =
        {<<p[1], p[2], numero - p[1] - p[2]>> : p \in {p \in Primes \X Primes :
            /\ p[1] <= p[2] /\ p[2] <= numero - p[1] - p[2]
            /\ numero - p[1] - p[2] \in Primes}}
  BY DEF SumsOfPrimes
<1>2. ASSUME NEW s \in SumsOfPrimes
      PROVE  \E x, y \in Primes : /\ numero - x - y \in Primes
                                  /\ x <= y /\ y <= numero - x - y
                                  /\ s = <<x, y, numero - x - y>>
  <2>1. PICK p \in Primes \X Primes :
          /\ p[1] <= p[2] /\ p[2] <= numero - p[1] - p[2]
          /\ numero - p[1] - p[2] \in Primes
          /\ s = <<p[1], p[2], numero - p[1] - p[2]>>
    BY <1>1, <1>2
  <2>2. p[1] \in Primes /\ p[2] \in Primes
    OBVIOUS
  <2> QED
    BY <2>1, <2>2, Zenon
<1>3. ASSUME NEW x \in Primes, NEW y \in Primes, numero - x - y \in Primes,
             x <= y, y <= numero - x - y
      PROVE  <<x, y, numero - x - y>> \in SumsOfPrimes
  <2>1. <<x, y>> \in Primes \X Primes /\ <<x, y>>[1] = x /\ <<x, y>>[2] = y
    OBVIOUS
  <2> QED
    BY <1>1, <1>3, <2>1
<1> QED
  BY <1>2, <1>3 DEF Terms


\* A sum is its first terms and the last one.
LEMMA AppendTerm ==
  ASSUME NEW a \in Int, NEW b \in Int, NEW c \in Int
  PROVE  /\ Append(<<a>>, c) = <<a, c>>
         /\ Append(<<a, b>>, c) = <<a, b, c>>
<1>1. <<a>> \in Seq(Int) /\ <<a, c>> \in Seq(Int)
      /\ <<a, b>> \in Seq(Int) /\ <<a, b, c>> \in Seq(Int)
  OBVIOUS
<1>2. /\ Append(<<a>>, c) \in Seq(Int) /\ Len(Append(<<a>>, c)) = 2
      /\ Append(<<a>>, c)[1] = a /\ Append(<<a>>, c)[2] = c
  BY <1>1
<1>3. /\ Append(<<a, b>>, c) \in Seq(Int) /\ Len(Append(<<a, b>>, c)) = 3
      /\ Append(<<a, b>>, c)[1] = a /\ Append(<<a, b>>, c)[2] = b
      /\ Append(<<a, b>>, c)[3] = c
  BY <1>1
<1> DEFINE d == Append(<<a>>, c)
           e == Append(<<a, b>>, c)
<1> HIDE DEF d, e
<1>4. d = <<a, c>>
  <2>1. Len(<<a, c>>) = 2 /\ \A k \in 1..2 : d[k] = <<a, c>>[k]
    BY <1>2 DEF d
  <2> QED
    BY <1>1, <1>2, <2>1, SeqEqual DEF d
<1>5. e = <<a, b, c>>
  <2>1. Len(<<a, b, c>>) = 3 /\ \A k \in 1..3 : e[k] = <<a, b, c>>[k]
    BY <1>3 DEF e
  <2> QED
    BY <1>1, <1>3, <2>1, SeqEqual DEF e
<1> QED
  BY <1>4, <1>5 DEF d, e

\* A pair is found when its smaller prime is met, and not before.
LEMMA TryPairStep == ASSUME SieveInv, SumsFound, TryPair  PROVE SumsFound'
<1> DEFINE p == primes[i]
           q == numero - primes[i]
<1>1. /\ pc = "pairs" /\ i \in 1..Len(primes) /\ numero % 2 = 0 /\ numero \in Nat
      /\ primes \in Seq(Nat) /\ ToSet(primes) = Primes
      /\ \A k, m \in 1..Len(primes) : k < m => primes[k] < primes[m]
      /\ Listed /\ Lines = {s \in SumsOfPrimes : Tried(s)}
  BY DEF SieveInv, TypeOK, Sieved, SumsFound, TryPair
<1>2. /\ pc' = pc /\ numero' = numero /\ primes' = primes /\ i' = i + 1
      /\ AddSum(<<p>>, q, p)
  BY DEF TryPair, sieveVars
<1>3. /\ p \in Nat /\ p \in Primes /\ i \in Nat \ {0} /\ i + 1 \in 1..(Len(primes) + 1)
  BY <1>1, PrimesTypes
<1> HIDE DEF p, q
<1>4. Append(<<p>>, q) = <<p, q>>
  <2>1. p \in Int /\ q \in Int
    BY <1>1, <1>3 DEF p, q
  <2> QED
    BY <2>1, AppendTerm, Zenon
<1>5. Terms = 2 /\ \A s : s \in SumsOfPrimes <=>
        \E x \in Primes : /\ numero - x \in Primes /\ x <= numero - x
                          /\ s = <<x, numero - x>>
  BY <1>1, PairSums
<1>6. \A s : s \in Lines <=> s \in SumsOfPrimes /\ Before(s[1], i)
  BY <1>1 DEF Tried
<1>7. <<p, q>> \notin Lines
  <2>1. ~Before(p, i)
    <3>1. ASSUME Before(p, i)  PROVE p < primes[i] /\ primes[i] \in Nat
      BY <1>1, <3>1, BeforeSmaller
    <3> QED
      BY <3>1 DEF p
  <2>2. <<p, q>>[1] = p
    OBVIOUS
  <2> QED
    BY <1>6, <2>1, <2>2
<1>8. /\ Listed'
      /\ Lines' = IF q \in ToSet(primes) /\ q >= p THEN Lines \cup {<<p, q>>} ELSE Lines
  <2>1. <<p>> \in Seq(Nat) /\ Len(<<p>>) + 1 = Terms
    BY <1>3, <1>5
  <2> QED
    BY <1>1, <1>2, <1>4, <1>7, <2>1, SumAdded, Zenon DEF SieveInv
<1>9. Lines' = {s \in SumsOfPrimes : Before(s[1], i + 1)}
  <2>1. ASSUME NEW s, s \in SumsOfPrimes
        PROVE  s[1] = p <=> s = <<p, q>>
    BY <1>5, <2>1 DEF p, q
  <2>2. <<p, q>> \in SumsOfPrimes <=> q \in Primes /\ q >= p
    BY <1>1, <1>3, <1>5 DEF p, q
  <2>3. \A s : Before(s[1], i + 1) <=> Before(s[1], i) \/ s[1] = p
    BY <1>3, BeforeNext DEF p
  <2>4. \A s : s \in SumsOfPrimes /\ Before(s[1], i + 1) <=>
                 s \in Lines \/ (s = <<p, q>> /\ q \in Primes /\ q >= p)
    BY <1>6, <2>1, <2>2, <2>3
  <2> QED
    BY <1>1, <1>8, <2>4
<1>10. Lines' = {s \in SumsOfPrimes' : Tried(s)'}
  <2>1. SumsOfPrimes' = SumsOfPrimes
    BY <1>2 DEF SumsOfPrimes, Primes
  <2>2. \A s : Tried(s)' <=> Before(s[1], i + 1)
    BY <1>1, <1>2 DEF Tried, Before
  <2> QED
    BY <1>9, <2>1, <2>2
<1> QED
  BY <1>1, <1>2, <1>3, <1>8, <1>10 DEF SumsFound


\* The only even prime is 2.
LEMMA EvenPrime ==
  ASSUME numero \in Nat, NEW r \in Primes, r % 2 = 0
  PROVE  r = 2
<1>1. r \in 2..(numero - 1) /\ \A d \in 2..(r - 1) : r % d # 0
  BY DEF Primes, Prime
<1>2. r # 2 => 2 \in 2..(r - 1)
  BY <1>1
<1> QED
  BY <1>1, <1>2

\* No odd sum of two primes is part of a triple: the rest would be 2, and
\* the two primes with it.
LEMMA OddSumFails ==
  ASSUME numero \in Nat, numero % 2 # 0, NEW x \in Primes, NEW y \in Primes,
         x <= y, (x + y) % 2 # 0, numero - x - y \in Primes
  PROVE  ~(y <= numero - x - y)
<1> DEFINE r == numero - x - y
<1>1. x \in Nat /\ y \in Nat /\ x >= 2 /\ y >= 2
  BY DEF Primes
<1>2. r % 2 = 0
  BY <1>1
<1>3. r = 2
  BY <1>2, EvenPrime
<1> HIDE DEF r
<1>4. y <= r => x = 2 /\ y = 2
  BY <1>1, <1>3
<1> QED
  BY <1>4 DEF r

\* A triple is found when its first two primes are met in order.
LEMMA TryTripleStep == ASSUME SieveInv, SumsFound, TryTriple  PROVE SumsFound'
<1> DEFINE x == primes[i]
           y == primes[j]
           r == numero - x - y
<1>1. /\ pc = "triples" /\ i \in 1..Len(primes) /\ j \in i..Len(primes)
      /\ numero % 2 # 0 /\ numero \in Nat
      /\ primes \in Seq(Nat) /\ ToSet(primes) = Primes
      /\ \A k, m \in 1..Len(primes) : k < m => primes[k] < primes[m]
      /\ Listed /\ Lines = {s \in SumsOfPrimes : Tried(s)}
  <2>1. /\ pc = "triples" /\ numero \in Nat /\ primes \in Seq(Nat)
        /\ i <= Len(primes) /\ j <= Len(primes)
        /\ i \in 1..(Len(primes) + 1) /\ j \in i..(Len(primes) + 1)
        /\ numero % 2 # 0 /\ ToSet(primes) = Primes
        /\ \A k, m \in 1..Len(primes) : k < m => primes[k] < primes[m]
        /\ Listed /\ Lines = {s \in SumsOfPrimes : Tried(s)}
    BY DEF SieveInv, TypeOK, Sieved, SumsFound, TryTriple
  <2>2. i \in 1..Len(primes) /\ j \in i..Len(primes)
    BY <2>1
  <2> QED
    BY <2>1, <2>2
<1>2. /\ pc' = pc /\ numero' = numero /\ primes' = primes /\ i' = i /\ j' = j + 1
      /\ IF (x + y) % 2 = 0 THEN AddSum(<<x, y>>, numero - (x + y), y)
                            ELSE UNCHANGED <<results, sums>>
  BY DEF TryTriple, sieveVars
<1>3. /\ x \in Nat /\ x \in Primes /\ y \in Nat /\ y \in Primes /\ x <= y
      /\ i \in Nat \ {0} /\ j \in Nat \ {0} /\ j \in 1..Len(primes)
      /\ i <= Len(primes) /\ j + 1 \in i..(Len(primes) + 1)
  BY <1>1, PrimesTypes
<1>4. numero - (x + y) = r /\ r \in Int
  BY <1>1, <1>3, SMTT(20)
<1> HIDE DEF x, y, r
<1>5. Append(<<x, y>>, r) = <<x, y, r>>
  <2>1. x \in Int /\ y \in Int /\ r \in Int
    BY <1>3, <1>4
  <2> QED
    BY <2>1, AppendTerm, Zenon
<1>6. Terms = 3 /\ \A s : s \in SumsOfPrimes <=>
        \E a, b \in Primes : /\ numero - a - b \in Primes
                             /\ a <= b /\ b <= numero - a - b
                             /\ s = <<a, b, numero - a - b>>
  BY <1>1, TripleSums
<1>7. \A s : Tried(s) <=> Before(s[1], i) \/ (s[1] = x /\ Before(s[2], j))
  BY <1>1, <1>3 DEF Tried, x
<1>8. <<x, y, r>> \notin Lines
  <2>1. ~Before(x, i)
    <3>1. ASSUME Before(x, i)  PROVE x < primes[i] /\ primes[i] \in Nat
      BY <1>1, <3>1, BeforeSmaller
    <3> QED
      BY <3>1 DEF x
  <2>2. ~Before(y, j)
    <3>1. ASSUME Before(y, j)  PROVE y < primes[j] /\ primes[j] \in Nat
      BY <1>1, <1>3, <3>1, BeforeSmaller
    <3> QED
      BY <3>1 DEF y
  <2>3. <<x, y, r>>[1] = x /\ <<x, y, r>>[2] = y
    OBVIOUS
  <2> QED
    BY <1>1, <1>7, <2>1, <2>2, <2>3
<1>9. <<x, y, r>> \in SumsOfPrimes <=> r \in Primes /\ y <= r
  <2>1. r = numero - x - y
    BY DEF r
  <2>2. ASSUME r \in Primes, y <= r  PROVE <<x, y, r>> \in SumsOfPrimes
    BY <1>3, <1>6, <2>1, <2>2, Zenon
  <2>3. ASSUME <<x, y, r>> \in SumsOfPrimes  PROVE r \in Primes /\ y <= r
    <3>1. PICK a \in Primes, b \in Primes :
            /\ numero - a - b \in Primes /\ b <= numero - a - b
            /\ <<x, y, r>> = <<a, b, numero - a - b>>
      BY <1>6, <2>3, Zenon
    <3>2. x = a /\ y = b /\ r = numero - a - b
      BY <3>1
    <3> QED
      BY <3>1, <3>2
  <2> QED
    BY <2>2, <2>3
<1>10. \A s : s \in SumsOfPrimes /\ s[1] = x /\ s[2] = y => s = <<x, y, r>>
  BY <1>6 DEF r
<1>11. /\ Listed'
       /\ \A s : s \in Lines' <=> \/ s \in Lines
                                  \/ s = <<x, y, r>> /\ s \in SumsOfPrimes
  <2>1. CASE (x + y) % 2 = 0
    <3>1. <<x, y>> \in Seq(Nat) /\ Len(<<x, y>>) + 1 = Terms
      BY <1>3, <1>6
    <3>2. AddSum(<<x, y>>, r, y)
      BY <1>2, <1>4, <2>1
    <3>3. /\ Listed'
          /\ Lines' = IF r \in ToSet(primes) /\ r >= y THEN Lines \cup {<<x, y, r>>}
                                                       ELSE Lines
      BY <1>1, <1>2, <1>5, <1>8, <3>1, <3>2, SumAdded, Zenon DEF SieveInv
    <3>4. r >= y <=> y <= r
      BY <1>3, <1>4
    <3> QED
      BY <1>1, <1>9, <3>3, <3>4
  <2>2. CASE (x + y) % 2 # 0
    <3>1. <<x, y, r>> \notin SumsOfPrimes
      BY <1>1, <1>3, <1>9, <2>2, OddSumFails DEF r
    <3>2. UNCHANGED <<results, sums, numero>>
      BY <1>2, <2>2
    <3>3. Terms' = Terms /\ Lines' = Lines
      BY <3>2 DEF Terms, Lines, Line
    <3> QED
      BY <1>1, <3>1, <3>2, <3>3 DEF Listed
  <2> QED
    BY <2>1, <2>2
<1>12. Lines' = {s \in SumsOfPrimes' : Tried(s)'}
  <2>1. SumsOfPrimes' = SumsOfPrimes
    BY <1>2 DEF SumsOfPrimes, Primes
  <2>2. \A s : Tried(s)' <=> Before(s[1], i) \/ (s[1] = x /\ Before(s[2], j + 1))
    BY <1>1, <1>2, <1>3 DEF Tried, Before, x
  <2>3. \A s : Before(s[2], j + 1) <=> Before(s[2], j) \/ s[2] = y
    BY <1>3, BeforeNext DEF y
  <2>4. \A s : s \in Lines <=> s \in SumsOfPrimes /\ Tried(s)
    BY <1>1
  <2>5. <<x, y, r>>[1] = x /\ <<x, y, r>>[2] = y
    OBVIOUS
  <2>6. ASSUME NEW s
        PROVE  s \in Lines' <=> s \in SumsOfPrimes /\ Tried(s)'
    <3>1. CASE s = <<x, y, r>>
      BY <1>11, <2>2, <2>3, <2>4, <2>5, <3>1
    <3>2. CASE s # <<x, y, r>>
      <4>1. s \in SumsOfPrimes => ~(s[1] = x /\ s[2] = y)
        BY <1>10, <3>2
      <4>2. s \in SumsOfPrimes => (Tried(s)' <=> Tried(s))
        BY <1>7, <2>2, <2>3, <4>1
      <4> QED
        BY <1>11, <2>4, <3>2, <4>2
    <3> QED
      BY <3>1, <3>2
  <2> QED
    BY <2>1, <2>6
<1> QED
  BY <1>1, <1>2, <1>3, <1>11, <1>12 DEF SumsFound


\* The first term of a sum is a prime, and so is the second of a triple,
\* which is no smaller.
LEMMA SumTerms ==
  ASSUME NEW s \in SumsOfPrimes
  PROVE  /\ s[1] \in Primes
         /\ numero % 2 # 0 => s[2] \in Primes /\ s[1] <= s[2]
<1>1. CASE numero % 2 = 0
  BY <1>1, PairSums
<1>2. CASE numero % 2 # 0
  <2>1. PICK x, y \in Primes : x <= y /\ s = <<x, y, numero - x - y>>
    BY <1>2, TripleSums, Zenon
  <2> QED
    BY <2>1
<1> QED
  BY <1>1, <1>2

\* When the row of a prime has ended every triple it begins is found, and the
\* triples the next one would make with a smaller prime are no new ones.
LEMMA NextRowStep == ASSUME SieveInv, SumsFound, NextRow  PROVE SumsFound'
<1> DEFINE n == Len(primes)
<1>1. /\ pc = "triples" /\ i \in 1..n /\ j = n + 1 /\ n \in Nat
      /\ numero % 2 # 0 /\ numero \in Nat
      /\ primes \in Seq(Nat) /\ ToSet(primes) = Primes
      /\ \A k, m \in 1..n : k < m => primes[k] < primes[m]
      /\ Listed /\ Lines = {s \in SumsOfPrimes : Tried(s)}
  <2>1. /\ pc = "triples" /\ numero \in Nat /\ primes \in Seq(Nat)
        /\ i <= n /\ j > n /\ i \in 1..(n + 1) /\ j \in i..(n + 1)
        /\ numero % 2 # 0 /\ ToSet(primes) = Primes
        /\ \A k, m \in 1..n : k < m => primes[k] < primes[m]
        /\ Listed /\ Lines = {s \in SumsOfPrimes : Tried(s)}
    BY DEF SieveInv, TypeOK, Sieved, SumsFound, NextRow
  <2>2. n \in Nat
    BY <2>1
  <2> HIDE DEF n
  <2>3. i \in 1..n /\ j = n + 1
    BY <2>1, <2>2
  <2> QED
    BY <2>1, <2>2, <2>3
<1>2. /\ pc' = pc /\ UNCHANGED <<numero, primes, results, sums>>
      /\ i' = i + 1 /\ j' = i + 1
  BY DEF NextRow, sieveVars
<1>3. /\ SumsOfPrimes' = SumsOfPrimes /\ Lines' = Lines /\ (Listed <=> Listed')
  BY <1>2 DEF SumsOfPrimes, Primes, Listed, Lines, Line, Terms
<1>4. i \in Nat \ {0} /\ i + 1 \in 1..(n + 1)
  BY <1>1
<1>5. ASSUME NEW s \in SumsOfPrimes  PROVE Tried(s)' <=> Tried(s)
  <2>1. s[1] \in Primes /\ s[2] \in Primes /\ s[1] <= s[2]
    BY <1>1, SumTerms
  <2>2. Before(s[2], n + 1)
    BY <1>1, <2>1, BeforeEnd
  <2>3. Tried(s) <=> Before(s[1], i) \/ s[1] = primes[i]
    BY <1>1, <2>2 DEF Tried
  <2>4. Before(s[1], i + 1) <=> Before(s[1], i) \/ s[1] = primes[i]
    BY <1>4, BeforeNext
  <2>5. Tried(s)' <=> \/ Before(s[1], i + 1)
                      \/ i + 1 <= n /\ s[1] = primes[i + 1] /\ Before(s[2], i + 1)
    BY <1>1, <1>2 DEF Tried, Before
  <2>6. ASSUME i + 1 <= n, s[1] = primes[i + 1], Before(s[2], i + 1)  PROVE FALSE
    <3> DEFINE m == i + 1
    <3>1. m \in 1..n
      BY <1>1, <2>6
    <3> HIDE DEF m
    <3>2. s[2] \in Nat /\ s[2] < primes[m] /\ primes[m] \in Nat
      BY <1>1, <2>6, <3>1, BeforeSmaller DEF m
    <3> QED
      BY <2>1, <2>6, <3>2 DEF m
  <2> QED
    BY <2>3, <2>4, <2>5, <2>6
<1>6. Lines' = {s \in SumsOfPrimes' : Tried(s)'}
  BY <1>1, <1>3, <1>5
<1> QED
  BY <1>1, <1>2, <1>3, <1>4, <1>6 DEF SumsFound

\* The list begins empty.
LEMMA FirstSumsStep == ASSUME SieveInv, SumsFound, SieveEnds  PROVE SumsFound'
<1>1. /\ results = <<>> /\ sums = 0 /\ primes \in Seq(Nat) /\ Len(primes) \in Nat
  BY DEF SieveInv, TypeOK, SumsFound, SieveEnds
<1>2. /\ pc' = (IF numero % 2 = 0 THEN "pairs" ELSE "triples") /\ i' = 1 /\ j' = 1
      /\ UNCHANGED <<numero, primes, results, sums>>
  BY DEF SieveEnds, sieveVars
<1>3. Lines' = {} /\ Terms' \in {2, 3} /\ Len(results') = 0
  BY <1>1, <1>2 DEF Lines, Terms
<1>4. Listed'
  <2>1. IsFiniteSet({}) /\ Cardinality({}) = 0
    BY FS_EmptySet
  <2>2. sums' = 0
    BY <1>1, <1>2
  <2>3. Len(results') = Terms' * sums'
    <3>1. \A t \in {2, 3} : t * 0 = 0
      OBVIOUS
    <3> QED
      BY <1>3, <2>2, <3>1
  <2>4. IsFiniteSet(Lines') /\ Cardinality(Lines') = sums'
    BY <1>3, <2>1, <2>2
  <2> QED
    BY <2>3, <2>4 DEF Listed
<1>5. \A s : ~Tried(s)'
  <2>1. \A s : ~Before(s[1], 1) /\ ~Before(s[2], 1)
    BY DEF Before
  <2> QED
    BY <1>2, <2>1 DEF Tried, Before
<1>6. pc' \in {"pairs", "triples"} /\ (pc' = "pairs" <=> numero' % 2 = 0)
  BY <1>2
<1>7. i' \in 1..(Len(primes') + 1) /\ j' \in i'..(Len(primes') + 1)
  BY <1>1, <1>2
<1> QED
  BY <1>3, <1>4, <1>5, <1>6, <1>7 DEF SumsFound

\* When the loops end every sum is in the list.
LEMMA LastSumsStep == ASSUME SieveInv, SumsFound, SumsEnd  PROVE SumsExact'
<1>1. /\ pc \in {"pairs", "triples"} /\ primes \in Seq(Nat)
      /\ i = Len(primes) + 1 /\ ToSet(primes) = Primes
      /\ Listed /\ Lines = {s \in SumsOfPrimes : Tried(s)}
  BY DEF SieveInv, TypeOK, Sieved, SumsFound, SumsEnd
<1>2. \A s \in SumsOfPrimes : Tried(s)
  BY <1>1, SumTerms, BeforeEnd DEF Tried
<1>3. Lines = SumsOfPrimes
  BY <1>1, <1>2
<1>4. UNCHANGED <<numero, results, sums>>
  BY DEF SumsEnd
<1>5. Lines' = Lines /\ SumsOfPrimes' = SumsOfPrimes /\ Terms' = Terms
  BY <1>4 DEF Lines, Line, Terms, SumsOfPrimes, Primes
<1>6. /\ Len(results') = Terms' * sums'
      /\ Lines' = SumsOfPrimes' /\ sums' = Cardinality(SumsOfPrimes')
  BY <1>1, <1>3, <1>4, <1>5 DEF Listed
<1> QED
  BY <1>6 DEF SumsExact, Lines, Line


\* Every step keeps the list of the sums tried.
LEMMA SumsStep ==
  ASSUME SieveInv, SumsFound, SumsExact, Next
  PROVE  SumsFound' /\ SumsExact'
<1>1. CASE TryPair \/ TryTriple \/ NextRow \/ SieveEnds
  <2>1. pc' \in {"pairs", "triples"}
    BY <1>1 DEF TryPair, TryTriple, NextRow, SieveEnds
  <2>2. SumsExact'
    BY <2>1 DEF SumsExact
  <2> QED
    BY <1>1, <2>2, TryPairStep, TryTripleStep, NextRowStep, FirstSumsStep
<1>2. CASE SumsEnd
  <2>1. SumsFound'
    BY <1>2 DEF SumsEnd, SumsFound
  <2> QED
    BY <1>2, <2>1, LastSumsStep
<1>3. CASE \/ StartSieve \/ SieveTooLong \/ SkipSmall
           \/ SievePrime \/ SieveOverflows \/ SieveComposite
  <2>1. /\ pc \in {"start", "sieve"} /\ UNCHANGED <<input, results, sums>>
        /\ \/ pc' \in {"sieve", "terminated", "undefined"}
           \/ pc' = "show" /\ Small
    BY <1>3 DEF StartSieve, SieveTooLong, SkipSmall, SievePrime, SieveOverflows,
                SieveComposite
  <2>2. Small' <=> Small
    BY <2>1 DEF Small
  <2>3. SumsExact'
    BY <2>1, <2>2 DEF SumsExact
  <2> QED
    BY <2>1, <2>3 DEF SumsFound
<1>4. CASE ShowTerm \/ ShowEnds
  <2>1. /\ pc = "show" /\ pc' \in {"show", "done"}
        /\ UNCHANGED <<input, numero, results, sums>>
    BY <1>4 DEF ShowTerm, ShowEnds
  <2>2. SumsExact'
    <3>1. /\ Small' <=> Small
          /\ Terms' = Terms /\ SumsOfPrimes' = SumsOfPrimes
      BY <2>1 DEF Small, Terms, SumsOfPrimes, Primes
    <3> QED
      BY <2>1, <3>1 DEF SumsExact
  <2> QED
    BY <2>1, <2>2 DEF SumsFound
<1> QED
  BY <1>1, <1>2, <1>3, <1>4 DEF Next, Sieving, Summing

-----------------------------------------------------------------------------
(* The page                                                                *)

\* A piece of the results.
LEMMA Slice ==
  ASSUME NEW r \in Seq(Nat), NEW m \in Nat, NEW n \in Nat, m <= n, n <= Len(r)
  PROVE  /\ SubSeq(r, m + 1, n) \in Seq(Nat)
         /\ Len(SubSeq(r, m + 1, n)) = n - m
         /\ \A k \in 1..(n - m) : SubSeq(r, m + 1, n)[k] = r[m + k]
<1> DEFINE lo == m + 1
           a == SubSeq(r, lo, n)
<1>1. lo \in Int /\ n \in Int /\ \A k \in lo..n : r[k] \in Nat
  OBVIOUS
<1> HIDE DEF lo
<1>2. /\ a \in Seq(Nat)
      /\ Len(a) = IF lo <= n THEN n - lo + 1 ELSE 0
      /\ \A k \in 1..(n - lo + 1) : a[k] = r[lo + k - 1]
  BY <1>1, SubSeqProperties
<1> HIDE DEF a
<1>3. n - lo + 1 = n - m /\ \A k \in 1..(n - m) : lo + k - 1 = m + k
  BY DEF lo
<1>4. Len(a) = n - m
  BY <1>2 DEF lo
<1>5. \A k \in 1..(n - m) : a[k] = r[m + k]
  BY <1>2, <1>3
<1> QED
  BY <1>2, <1>4, <1>5 DEF a, lo

\* A line being written ends with its last term.
LEMMA SlicesGrow ==
  ASSUME NEW r \in Seq(Nat), NEW m \in Nat, NEW n \in Nat, m <= n, n < Len(r)
  PROVE  /\ Append(SubSeq(r, m + 1, n), r[n + 1]) = SubSeq(r, m + 1, n + 1)
         /\ SubSeq(r, m + 1, m) = <<>>
<1> DEFINE a == SubSeq(r, m + 1, n)
           b == SubSeq(r, m + 1, n + 1)
<1>1. Len(r) \in Nat /\ r[n + 1] \in Nat
  OBVIOUS
<1>2. /\ a \in Seq(Nat) /\ Len(a) = n - m
      /\ \A k \in 1..(n - m) : a[k] = r[m + k]
  BY Slice
<1>3. /\ b \in Seq(Nat) /\ Len(b) = n - m + 1
      /\ \A k \in 1..(n - m + 1) : b[k] = r[m + k]
  <2> DEFINE o == n + 1
  <2>1. o \in Nat /\ m <= o /\ o <= Len(r) /\ o - m = n - m + 1
    BY <1>1
  <2> HIDE DEF o
  <2>2. /\ SubSeq(r, m + 1, o) \in Seq(Nat) /\ Len(SubSeq(r, m + 1, o)) = o - m
        /\ \A k \in 1..(o - m) : SubSeq(r, m + 1, o)[k] = r[m + k]
    BY <2>1, Slice
  <2> QED
    BY <2>1, <2>2 DEF o
<1> HIDE DEF a, b
<1> DEFINE c == Append(a, r[n + 1])
<1>4. /\ c \in Seq(Nat) /\ Len(c) = n - m + 1
      /\ \A k \in 1..(n - m) : c[k] = a[k]
      /\ c[n - m + 1] = r[n + 1]
  BY <1>1, <1>2, SMTT(20)
<1> HIDE DEF c
<1>5. \A k \in 1..(n - m + 1) : c[k] = b[k]
  <2> TAKE k \in 1..(n - m + 1)
  <2>1. CASE k \in 1..(n - m)
    BY <1>2, <1>3, <1>4, <2>1
  <2>2. CASE k = n - m + 1
    <3>1. m + k = n + 1
      BY <2>2
    <3>2. b[k] = r[n + 1]
      BY <1>3, <3>1
    <3> QED
      BY <1>4, <2>2, <3>2
  <2> QED
    BY <2>1, <2>2
<1>6. c = b
  BY <1>3, <1>4, <1>5, SeqEqual
<1>7. SubSeq(r, m + 1, m) = <<>>
  BY SubSeqEmpty
<1> QED
  BY <1>6, <1>7 DEF a, b, c


\* The page is begun when the sums are known.
LEMMA FirstPageStep ==
  ASSUME SieveInv, PageFollows, SumsEnd
  PROVE  PageFollows'
<1>1. /\ page = << <<>> >> /\ pos = 0 /\ shown = 0
      /\ results \in Seq(Nat) /\ Terms \in {2, 3}
  BY DEF PageFollows, SumsEnd, Unfinished, SieveInv, TypeOK, Terms
<1>2. pc' = "show" /\ UNCHANGED <<input, numero, results, page, pos, shown>>
  BY DEF SumsEnd, pageVars
<1>3. Len(page) = 1 /\ page[1] = <<>>
  BY <1>1
<1>4. Terms' = Terms
  BY <1>2 DEF Terms
<1> DEFINE T == Terms
<1>5. T * (1 - 1) = 0
  BY <1>1
<1>6. SubSeq(results, 0 + 1, 0) = <<>>
  BY SubSeqEmpty
<1>7. Len(results) \in Nat
  BY <1>1
<1>8. /\ shown' <= Len(results') /\ pos' < Terms'
      /\ shown' = Terms' * (Len(page') - 1) + pos'
  BY <1>1, <1>2, <1>3, <1>4, <1>5, <1>7
<1>9. \A k \in 1..(Len(page') - 1) : page'[k] = Line(k - 1)'
  BY <1>2, <1>3
<1>10. page'[Len(page')] = SubSeq(results', Terms' * (Len(page') - 1) + 1, shown')
  BY <1>1, <1>2, <1>3, <1>4, <1>5, <1>6
<1> QED
  BY <1>2, <1>8, <1>9, <1>10 DEF PageFollows, Unfinished

\* A term goes to the line being written, and the last one of a sum ends it.
LEMMA ShowTermStep ==
  ASSUME SieveInv, SumsExact, PageFollows, ShowTerm
  PROVE  PageFollows'
<1> DEFINE T == Terms
           n == Len(page)
           ends == pos = (IF input % 2 = 0 THEN 1 ELSE 2)
           x == results[shown + 1]
<1>1. /\ pc = "show" /\ input < -5 /\ input \in Inputs /\ input \in Int
      /\ page \in Seq(Seq(Nat)) /\ page # <<>>
      /\ results \in Seq(Nat) /\ shown \in Nat /\ pos \in Nat
      /\ shown < Len(results) /\ Len(results) \in Nat
      /\ pos < T /\ shown = T * (n - 1) + pos
      /\ \A k \in 1..(n - 1) : page[k] = Line(k - 1)
      /\ page[n] = SubSeq(results, T * (n - 1) + 1, shown)
  <2>1. pc = "show" /\ input < -5 /\ shown < Len(results)
    BY DEF ShowTerm
  <2>2. /\ input \in Inputs /\ page \in Seq(Seq(Nat)) /\ page # <<>>
        /\ results \in Seq(Nat) /\ shown \in Nat /\ pos \in Nat
    BY DEF SieveInv, TypeOK
  <2>3. input \in Int /\ Len(results) \in Nat
    BY <2>2, InputTypes
  <2>4. /\ pos < T /\ shown = T * (n - 1) + pos
        /\ \A k \in 1..(n - 1) : page[k] = Line(k - 1)
        /\ page[n] = SubSeq(results, T * (n - 1) + 1, shown)
    BY <2>1, Zenon DEF PageFollows
  <2> QED
    BY <2>1, <2>2, <2>3, <2>4, Zenon
<1>2. T \in {2, 3} /\ (ends <=> pos = T - 1) /\ n \in Nat \ {0}
  <2>1. ~Small
    BY <1>1, SMTT(20) DEF Small
  <2>2. numero = Abs(input)
    BY <1>1, <2>1 DEF SieveInv, Counted
  <2>3. numero % 2 = 0 <=> input % 2 = 0
    BY <1>1, <2>2, InputTypes
  <2>4. n \in Nat \ {0}
    BY <1>1, EmptySeq
  <2> QED
    BY <2>3, <2>4 DEF Terms
<1>3. /\ page' = Front(page) \o (IF ends THEN <<Append(Last(page), x), <<>> >>
                                         ELSE <<Append(Last(page), x)>>)
      /\ pos' = (IF ends THEN 0 ELSE pos + 1)
      /\ shown' = shown + 1
      /\ UNCHANGED <<pc, input, numero, results>>
  BY DEF ShowTerm
<1>4. ends \in BOOLEAN /\ x \in Nat
  <2>1. results \in Seq(Nat) /\ shown + 1 \in 1..Len(results)
    BY <1>1
  <2> QED
    BY <2>1, SMTT(20)
<1> HIDE DEF ends, x
<1>5. /\ page' \in Seq(Seq(Nat)) /\ page' # <<>>
      /\ Len(page') = (IF ends THEN n + 1 ELSE n)
      /\ \A k \in 1..(n - 1) : page'[k] = page[k]
      /\ page'[n] = Append(page[n], x)
      /\ ends => page'[Len(page')] = <<>>
  BY <1>1, <1>3, <1>4, PageGrows
<1>6. T' = T /\ \A k : Line(k)' = Line(k)
  BY <1>3 DEF Line, Terms
<1> HIDE DEF T, n
<1> DEFINE m == T * (n - 1)
<1>7. m \in Nat /\ m <= shown /\ shown = m + pos /\ T * n = m + T
  <2>1. CASE T = 2
    BY <1>1, <1>2, <2>1
  <2>2. CASE T = 3
    BY <1>1, <1>2, <2>2
  <2> QED
    BY <1>2, <2>1, <2>2
<1>8. page[n] = SubSeq(results, m + 1, shown)
  BY <1>1
<1> HIDE DEF m
<1>9. page'[n] = SubSeq(results, m + 1, shown + 1)
  <2>1. results \in Seq(Nat) /\ m \in Nat /\ shown \in Nat /\ m <= shown
        /\ shown < Len(results)
    BY <1>1, <1>7
  <2>2. Append(SubSeq(results, m + 1, shown), results[shown + 1])
          = SubSeq(results, m + 1, shown + 1)
    BY <2>1, SlicesGrow, Zenon
  <2> QED
    BY <1>5, <1>8, <2>2, Zenon DEF x
<1>10. shown' <= Len(results')
  BY <1>1, <1>3
<1>11. CASE ends
  <2>1. /\ Len(page') = n + 1 /\ pos' = 0 /\ shown' = T * n /\ shown + 1 = T * n
        /\ pos' < T
    BY <1>1, <1>2, <1>3, <1>5, <1>7, <1>11
  <2>2. Len(page') - 1 = n
    BY <1>2, <2>1
  <2>3. page'[n] = Line(n - 1)
    <3>1. n - 1 + 1 = n
      BY <1>2
    <3> QED
      BY <1>9, <2>1, <3>1 DEF Line, m, T
  <2>4. \A k \in 1..n : page'[k] = Line(k - 1)
    <3> TAKE k \in 1..n
    <3>1. k \in 1..(n - 1) \/ k = n
      BY <1>2
    <3> QED
      BY <1>1, <1>5, <2>3, <3>1
  <2>5. page'[Len(page')] = SubSeq(results, T * n + 1, T * n)
    <3>1. T * n \in Int
      BY <1>2
    <3>2. SubSeq(results, T * n + 1, T * n) = <<>>
      BY <3>1, SubSeqEmpty
    <3> QED
      BY <1>5, <1>11, <3>2
  <2>6. T * n + 0 = T * n
    BY <1>2
  <2>7. /\ pos' < Terms' /\ shown' = Terms' * (Len(page') - 1) + pos'
        /\ page'[Len(page')]
             = SubSeq(results', Terms' * (Len(page') - 1) + 1, shown')
    BY <1>3, <1>6, <2>1, <2>2, <2>5, <2>6 DEF T
  <2>8. \A k \in 1..(Len(page') - 1) : page'[k] = Line(k - 1)'
    BY <1>6, <2>2, <2>4
  <2> QED
    BY <1>1, <1>3, <1>10, <2>7, <2>8 DEF PageFollows, Unfinished
<1>12. CASE ~ends
  <2>1. Len(page') = n /\ pos' = pos + 1 /\ pos' < T /\ shown' = m + pos'
    BY <1>1, <1>2, <1>3, <1>5, <1>7, <1>12
  <2>2. \A k \in 1..(n - 1) : page'[k] = Line(k - 1)
    BY <1>1, <1>5
  <2>3. /\ pos' < Terms' /\ shown' = Terms' * (Len(page') - 1) + pos'
        /\ page'[Len(page')]
             = SubSeq(results', Terms' * (Len(page') - 1) + 1, shown')
    BY <1>3, <1>6, <1>9, <2>1 DEF T, m
  <2>4. \A k \in 1..(Len(page') - 1) : page'[k] = Line(k - 1)'
    BY <1>6, <2>1, <2>2
  <2> QED
    BY <1>1, <1>3, <1>10, <2>3, <2>4 DEF PageFollows, Unfinished
<1> QED
  BY <1>11, <1>12


\* Printing ends with as many whole lines as there are sums.
LEMMA ShowEndsStep ==
  ASSUME SieveInv, SumsExact, PageFollows, ShowEnds
  PROVE  PageFollows' /\ PageShowsSums'
<1>1. /\ pc = "show" /\ pc' = "done"
      /\ UNCHANGED <<input, numero, results, sums, page, pos, shown>>
  BY DEF ShowEnds, pageVars
<1>2. PageFollows'
  BY <1>1 DEF PageFollows, Unfinished
<1>3. ASSUME input < -5
      PROVE  /\ ToSet(Front(page)) = SumsOfPrimes
             /\ Len(page) = sums + 1 /\ Last(page) = <<>>
  <2> DEFINE T == Terms
             n == Len(page)
  <2>1. /\ input \in Int /\ page \in Seq(Seq(Nat)) /\ page # <<>> /\ sums \in Nat
        /\ shown \in Nat /\ pos \in Nat /\ T \in {2, 3}
    BY InputTypes DEF SieveInv, TypeOK, Terms
  <2>2. shown = Len(results) /\ ~Small
    BY <1>3, <2>1 DEF ShowEnds, Small
  <2>3. Len(results) = T * sums /\ Lines = SumsOfPrimes
    BY <1>1, <2>2 DEF SumsExact, Lines, Line
  <2>4. /\ pos < T /\ shown = T * (n - 1) + pos
        /\ \A k \in 1..(n - 1) : page[k] = Line(k - 1)
        /\ page[n] = SubSeq(results, T * (n - 1) + 1, shown)
    BY <1>1, <1>3, Zenon DEF PageFollows
  <2>5. n \in Nat \ {0}
    BY <2>1, EmptySeq
  <2> HIDE DEF T, n
  <2>6. n - 1 = sums /\ pos = 0
    <3>1. T * sums = T * (n - 1) + pos
      BY <2>2, <2>3, <2>4
    <3> DEFINE l == n - 1
    <3>2. l \in Int /\ sums \in Int /\ pos \in Nat /\ T * sums = T * l + pos /\ pos < T
      BY <2>1, <2>4, <2>5, <3>1
    <3> HIDE DEF l
    <3>3. CASE T = 2
      <4>1. 2 * sums = 2 * l + pos /\ pos < 2
        BY <3>2, <3>3
      <4> QED
        BY <3>2, <4>1 DEF l
    <3>4. CASE T = 3
      <4>1. 3 * sums = 3 * l + pos /\ pos < 3
        BY <3>2, <3>4
      <4> QED
        BY <3>2, <4>1 DEF l
    <3> QED
      BY <2>1, <3>3, <3>4
  <2>7. page[n] = <<>>
    <3> DEFINE m == T * (n - 1)
    <3>1. m \in Int /\ shown = m
      BY <2>1, <2>4, <2>5, <2>6
    <3>2. page[n] = SubSeq(results, m + 1, m)
      BY <2>4, <3>1
    <3> HIDE DEF m
    <3>3. SubSeq(results, m + 1, m) = <<>>
      BY <3>1, SubSeqEmpty
    <3> QED
      BY <3>2, <3>3
  <2>8. ToSet(Front(page)) = Lines
    <3> DEFINE front == SubSeq(page, 1, n - 1)
    <3>1. \A k \in 1..(n - 1) : page[k] \in Seq(Nat)
      BY <2>1, <2>5 DEF n
    <3>2. /\ front \in Seq(Seq(Nat))
          /\ Len(front) = IF 1 <= n - 1 THEN n - 1 - 1 + 1 ELSE 0
          /\ \A k \in 1..(n - 1 - 1 + 1) : front[k] = page[1 + k - 1]
      BY <2>5, <3>1, SubSeqProperties
    <3> HIDE DEF front
    <3>3. Len(front) = sums
      BY <2>5, <2>6, <3>2
    <3>4. \A k \in 1..sums : front[k] = Line(k - 1)
      <4>1. \A k \in 1..sums : k \in 1..(n - 1 - 1 + 1) /\ 1 + k - 1 = k
        BY <2>5, <2>6
      <4>2. \A k \in 1..sums : front[k] = page[k]
        BY <3>2, <4>1
      <4> QED
        BY <2>4, <2>6, <4>2
    <3>5. DOMAIN front = 1..sums
      BY <3>2, <3>3
    <3>6. ToSet(front) = {Line(k - 1) : k \in 1..sums}
      BY <3>4, <3>5 DEF ToSet
    <3>7. \A k \in 1..sums : k - 1 \in 0..(sums - 1)
      BY <2>1
    <3>8. \A k \in 0..(sums - 1) : k + 1 \in 1..sums /\ (k + 1) - 1 = k
      BY <2>1
    <3>9. {Line(k - 1) : k \in 1..sums} = {Line(k) : k \in 0..(sums - 1)}
      BY <3>7, <3>8
    <3> QED
      BY <3>6, <3>9 DEF Lines, Front, front, n
  <2> QED
    BY <2>3, <2>5, <2>6, <2>7, <2>8 DEF Last, n
<1>4. SumsOfPrimes' = SumsOfPrimes
  BY <1>1 DEF SumsOfPrimes, Primes
<1>5. PageShowsSums'
  BY <1>1, <1>3, <1>4 DEF PageShowsSums
<1> QED
  BY <1>2, <1>5

\* Every step keeps the page.
LEMMA PageStep ==
  ASSUME SieveInv, SumsExact, PageFollows, PageShowsSums, Next
  PROVE  PageFollows' /\ PageShowsSums'
<1>1. CASE SumsEnd
  <2>1. PageShowsSums'
    BY <1>1 DEF SumsEnd, PageShowsSums
  <2> QED
    BY <1>1, <2>1, FirstPageStep
<1>2. CASE ShowTerm
  <2>1. PageShowsSums'
    BY <1>2 DEF ShowTerm, PageShowsSums
  <2> QED
    BY <1>2, <2>1, ShowTermStep
<1>3. CASE ShowEnds
  BY <1>3, ShowEndsStep
<1>4. CASE SkipSmall
  <2>1. /\ pc' = "show" /\ input' = input /\ input \in -5..5
    BY <1>4 DEF SkipSmall, Small
  <2>2. ~(input' < -5)
    BY <2>1
  <2> QED
    BY <2>1, <2>2 DEF PageFollows, PageShowsSums, Unfinished
<1>5. CASE \/ StartSieve \/ SieveTooLong \/ SievePrime \/ SieveOverflows
           \/ SieveComposite \/ SieveEnds \/ TryPair \/ TryTriple \/ NextRow
  <2>1. /\ UNCHANGED <<page, pos, shown>> /\ pc' \notin {"show", "done"}
        /\ pc \in Unfinished
    BY <1>5 DEF StartSieve, SieveTooLong, SievePrime, SieveOverflows, SieveComposite,
                SieveEnds, TryPair, TryTriple, NextRow, pageVars, Unfinished
  <2> QED
    BY <2>1 DEF PageFollows, PageShowsSums
<1> QED
  BY <1>1, <1>2, <1>3, <1>4, <1>5 DEF Next, Sieving, Summing


-----------------------------------------------------------------------------
(* Where the sieve stops                                                   *)

\* The products of the loop that strikes multiples out stay below twice the
\* number.
LEMMA LastProductBound ==
  ASSUME numero \in Nat, NEW n \in Nat, n > 0, n < numero
  PROVE  LastProduct(n) \in Int /\ LastProduct(n) <= 2 * numero - 2
<1>1. CASE 2 * n >= numero
  BY <1>1 DEF LastProduct
<1>2. CASE ~(2 * n >= numero)
  <2> DEFINE a == numero + n - 1
             q == a \div n
             r == a % n
  <2>1. a \in Int /\ q \in Int /\ r \in Int /\ a = n * q + r /\ 0 <= r
    OBVIOUS
  <2>2. q * n = n * q
    BY <2>1
  <2>3. LastProduct(n) = n * q
    BY <1>2, <2>2 DEF LastProduct
  <2>4. n * q \in Int
    BY <2>1
  <2> HIDE DEF q, r
  <2>5. n * q <= a
    BY <2>1, <2>4
  <2> QED
    BY <2>3, <2>4, <2>5
<1> QED
  BY <1>1, <1>2

\* A number in half of the int range leaves no product out of it.
LEMMA StopsStep == ASSUME SieveInv, StopsInRange, Next  PROVE StopsInRange'
<1>1. input \in Int /\ MaxInt \in Nat
  BY InputTypes DEF SieveInv, TypeOK
<1>2. CASE SieveOverflows
  <2>1. /\ pc = "sieve" /\ numero \in Nat /\ i \in Nat /\ i > 0 /\ i < numero
        /\ numero = Abs(input) /\ LastProduct(i) > MaxInt
        /\ pc' = "undefined" /\ input' = input
    BY <1>2 DEF SieveOverflows, SieveInv, TypeOK, Counted
  <2>2. LastProduct(i) \in Int /\ LastProduct(i) <= 2 * numero - 2
    BY <2>1, LastProductBound
  <2>3. MaxInt < 2 * numero - 2
    BY <1>1, <2>1, <2>2
  <2>4. ~InHalfRange
    <3> DEFINE h == (MaxInt + 1) \div 2
    <3>1. h \in Int /\ 2 * h <= MaxInt + 1
      BY <1>1
    <3> HIDE DEF h
    <3>2. input \notin -h..h
      BY <1>1, <2>1, <2>3, <3>1 DEF Abs
    <3> QED
      BY <3>2 DEF InHalfRange, h
  <2>5. InHalfRange' <=> InHalfRange
    BY <2>1 DEF InHalfRange
  <2> QED
    BY <2>1, <2>4, <2>5 DEF StopsInRange
<1>3. CASE SieveTooLong
  BY <1>3 DEF SieveTooLong, StopsInRange, Abs
<1>4. CASE Next /\ ~SieveOverflows /\ ~SieveTooLong
  <2>1. pc' \notin {"undefined", "terminated"}
    BY <1>4 DEF Next, Sieving, Summing, StartSieve, SievePrime, SieveComposite,
                SieveEnds, SkipSmall, TryPair, TryTriple, NextRow, SumsEnd, ShowTerm,
                ShowEnds
  <2> QED
    BY <2>1 DEF StopsInRange
<1> QED
  BY <1>2, <1>3, <1>4

-----------------------------------------------------------------------------
(* The theorems                                                            *)

\* Nothing is listed and nothing printed at the start.
LEMMA Initially == Init => IInv /\ StopsInRange
<1> SUFFICES ASSUME Init  PROVE IInv /\ StopsInRange
  OBVIOUS
<1>1. /\ pc = "start" /\ results = <<>> /\ sums = 0
      /\ page = << <<>> >> /\ pos = 0 /\ shown = 0
  BY DEF Init
<1>2. SumsFound /\ SumsExact /\ PageFollows /\ PageShowsSums /\ StopsInRange
  BY <1>1 DEF SumsFound, SumsExact, PageFollows, PageShowsSums, StopsInRange
<1> QED
  BY <1>2, SieveInitially DEF IInv

LEMMA Inductive ==
  IInv /\ StopsInRange /\ [Next]_vars => IInv' /\ StopsInRange'
<1> SUFFICES ASSUME IInv, StopsInRange, [Next]_vars  PROVE IInv' /\ StopsInRange'
  OBVIOUS
<1>1. CASE Next
  BY <1>1, SieveInductive, SumsStep, PageStep, StopsStep DEF IInv
<1>2. CASE UNCHANGED vars
  <2>1. UNCHANGED <<pc, input, numero, isPrime, primes, i, j, results, sums, shown,
                    page, pos>>
    BY <1>2 DEF vars
  <2>2. /\ Terms' = Terms /\ SumsOfPrimes' = SumsOfPrimes /\ (Small' <=> Small)
        /\ Lines' = Lines /\ (\A k : Line(k)' = Line(k))
        /\ (\A s : Tried(s)' <=> Tried(s))
    BY <2>1 DEF Terms, SumsOfPrimes, Primes, Small, Lines, Line, Tried, Before
  <2>3. SumsFound'
    <3>1. Listed' <=> Listed
      BY <2>1, <2>2 DEF Listed
    <3>2. {s \in SumsOfPrimes : Tried(s)}' = {s \in SumsOfPrimes : Tried(s)}
      BY <2>2
    <3> QED
      BY <2>1, <2>2, <3>1, <3>2 DEF IInv, SumsFound
  <2>4. SumsExact'
    BY <2>1, <2>2 DEF IInv, SumsExact
  <2>5. PageFollows'
    BY <2>1, <2>2 DEF IInv, PageFollows
  <2>6. PageShowsSums'
    BY <2>1, <2>2 DEF IInv, PageShowsSums
  <2>7. StopsInRange'
    BY <2>1 DEF StopsInRange, InHalfRange
  <2> QED
    BY <1>2, <2>3, <2>4, <2>5, <2>6, <2>7, SieveInductive DEF IInv
<1> QED
  BY <1>1, <1>2

\* The conjunction of everything above holds in every reachable state.
THEOREM Invariance == SafeSpec => [](IInv /\ StopsInRange)
<1> QED
  BY Initially, Inductive, PTL DEF SafeSpec

\* Every variable has the values calculateSums() and serveGoldbachResponse()
\* give it.
THEOREM TypeCorrect == SafeSpec => []TypeOK
<1>1. IInv => TypeOK
  BY DEF IInv, SieveInv
<1> QED
  BY <1>1, Invariance, PTL

\* The sieve takes the primes below the number, in order, and loses none.
THEOREM SieveFindsPrimes == SafeSpec => []SieveCorrect
<1>1. IInv => SieveCorrect
  BY SievedCorrect DEF IInv, SieveInv
<1> QED
  BY <1>1, Invariance, PTL

\* calculateSums() finds every sum of two or three primes once and nothing
\* else.
THEOREM FindsEverySum == SafeSpec => []SumsExact
<1>1. IInv => SumsExact
  BY DEF IInv
<1> QED
  BY <1>1, Invariance, PTL

\* serveGoldbachResponse() prints each of them on a line of its own.
THEOREM ShowsEverySum == SafeSpec => []PageShowsSums
<1>1. IInv => PageShowsSums
  BY DEF IInv
<1> QED
  BY <1>1, Invariance, PTL

\* Up to half of the int range no product of the sieve overflows, and only
\* a number without an absolute value ends the process (GoldbachModel.cpp:46
\* and :32).
THEOREM OverflowsOutside == SafeSpec => []StopsInRange
<1> QED
  BY Invariance, PTL


=============================================================================
