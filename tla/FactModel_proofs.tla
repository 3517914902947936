-------------------------- MODULE FactModel_proofs --------------------------
(***************************************************************************)
(* Proofs about FactModel, for every number: only primes are reported, the *)
(* factors multiply to the number, and the page shows the factorization.   *)
(*                                                                         *)
(* The product of a sequence is defined by recursion.  What is proved of   *)
(* it for every length is proved from the least length that would be a     *)
(* counterexample (LeastNatural).                                          *)
(*                                                                         *)
(* Divisibility is written with % in the module; the argument is about     *)
(* products, so the lemma Divisible relates the two once and the others    *)
(* are stated with products.                                               *)
(***************************************************************************)
EXTENDS FactModel, CommonLemmas, TLAPS

-----------------------------------------------------------------------------
(* Divisors and primes                                                     *)

\* A product of two factors of at least i is at least i * i.
LEMMA ProductAtLeast ==
  ASSUME NEW i0 \in Nat, NEW a \in Nat, NEW b \in Nat, a >= i0, b >= i0
  PROVE  a * b >= i0 * i0
<1>1. a * b >= i0 * b
  OBVIOUS
<1>2. i0 * b >= i0 * i0
  OBVIOUS
<1> QED
  BY <1>1, <1>2

\* The divisor found is a prime: a divisor of it would divide n.
LEMMA FirstDivisorIsPrime ==
  ASSUME NEW n \in Int, NEW p \in Nat, p > 1, n % p = 0,
         \A d \in 2..(p - 1) : n % d # 0
  PROVE  IsPrime(p)
<1>1. PICK k \in Int : n = p * k
  BY Divisible
<1>2. ASSUME NEW d \in 2..(p - 1), p % d = 0  PROVE FALSE
  <2>1. d \in Int /\ d > 0 /\ p \in Int
    BY <1>2
  <2>2. n % d = 0
    BY <1>1, <1>2, <2>1, DividesProduct
  <2> QED
    BY <1>2, <2>2
<1> QED
  BY <1>2 DEF IsPrime

\* The quotient has no divisor that n has not.
LEMMA QuotientKeeps ==
  ASSUME NEW n \in Int, n > 0, NEW p \in Nat, p > 1, n % p = 0,
         \A d \in 2..(p - 1) : n % d # 0
  PROVE  /\ n \div p \in Int /\ n \div p > 0
         /\ \A d \in 2..(p - 1) : (n \div p) % d # 0
<1> DEFINE q == n \div p
<1>1. q \in Int /\ n = p * q
  BY p > 1
<1> HIDE DEF q
<1>2. q > 0
  <2>1. CASE q <= 0
    <3>1. p * q <= 0
      BY <1>1, <2>1
    <3> QED
      BY <1>1, <3>1
  <2> QED
    BY <1>1, <2>1
<1>3. ASSUME NEW d \in 2..(p - 1), q % d = 0  PROVE FALSE
  <2>1. d \in Int /\ d > 0 /\ n = q * p /\ p \in Int
    BY <1>1, <1>3
  <2>2. n % d = 0
    BY <1>1, <1>3, <2>1, DividesProduct
  <2> QED
    BY <1>3, <2>2
<1>4. \A d \in 2..(p - 1) : q % d # 0
  BY <1>3
<1> QED
  BY <1>1, <1>2, <1>4 DEF q

\* After an odd divisor failed, the even number that follows it need not be
\* tried.
LEMMA SkipEven ==
  ASSUME NEW n \in Int, NEW p \in Nat, p >= 3, n % p # 0,
         NEW m \in Nat, p = 2 * m + 1,
         \A d \in 2..(p - 1) : n % d # 0
  PROVE  \A d \in 2..(p + 1) : n % d # 0
<1>1. ASSUME n % (p + 1) = 0  PROVE FALSE
  <2>1. PICK k \in Int : n = (p + 1) * k
    BY <1>1, Divisible
  <2>2. (p + 1) % 2 = 0 /\ p + 1 \in Int
    OBVIOUS
  <2>3. n % 2 = 0
    BY <2>1, <2>2, DividesProduct
  <2>4. 2 \in 2..(p - 1)
    OBVIOUS
  <2> QED
    BY <2>3, <2>4
<1>2. ASSUME NEW d \in 2..(p + 1), n % d = 0  PROVE FALSE
  <2>1. d \in 2..(p - 1) \/ d = p \/ d = p + 1
    BY <1>2
  <2> QED
    BY <1>1, <1>2, <2>1
<1> QED
  BY <1>2

\* What is left is a prime when its square root is passed: of two factors,
\* neither below p, the product would be at least p * p.
LEMMA RestIsPrime ==
  ASSUME NEW n \in Int, n > 2, NEW p \in Nat, p * p > n,
         \A d \in 2..(p - 1) : n % d # 0
  PROVE  IsPrime(n)
<1>1. ASSUME NEW d \in 2..(n - 1), n % d = 0  PROVE FALSE
  <2>1. d \in Int /\ d > 1 /\ d < n
    BY <1>1
  <2>2. PICK e \in Int : n = d * e
    BY <1>1, <2>1, Divisible
  <2>3. e > 1
    <3>1. CASE e <= 0
      <4>1. d * e <= 0
        BY <2>1, <3>1
      <4> QED
        BY <2>2, <4>1
    <3>2. CASE e = 1
      BY <2>1, <2>2, <3>2
    <3> QED
      BY <3>1, <3>2
  <2>4. n % e = 0
    <3>1. n = e * d
      BY <2>1, <2>2
    <3> QED
      BY <2>1, <2>3, <3>1, Divisible
  <2>5. d >= p
    BY <1>1, <2>1
  <2>6. e >= p
    BY <2>3, <2>4
  <2>7. d * e >= p * p
    BY <2>1, <2>3, <2>5, <2>6, ProductAtLeast
  <2> QED
    BY <2>2, <2>7
<1> QED
  BY <1>1 DEF IsPrime

-----------------------------------------------------------------------------
(* Products of sequences                                                   *)

\* f[k] is the product of the first k elements of s, for every k up to n.
IsProducts(f, s, n) ==
  f = [k \in 0..n |-> IF k = 0 THEN 1 ELSE f[k - 1] * s[k]]

\* The first n elements of s are those of t.
SameStart(s, t, n) == \A k \in 1..n : s[k] = t[k]

\* What the function holds at each k.
LEMMA ProductsAre ==
  ASSUME NEW n \in Nat, NEW s, NEW f, IsProducts(f, s, n)
  PROVE  /\ f[0] = 1
         /\ \A k \in Nat : k < n => f[k + 1] = f[k] * s[k + 1]
<1>1. f = [k \in 0..n |-> IF k = 0 THEN 1 ELSE f[k - 1] * s[k]]
  BY DEF IsProducts
<1>2. f[0] = 1
  <2>1. 0 \in 0..n
    OBVIOUS
  <2> QED
    BY <1>1, <2>1
<1>3. ASSUME NEW k \in Nat, k < n  PROVE f[k + 1] = f[k] * s[k + 1]
  <2>1. k + 1 \in 0..n /\ k + 1 # 0 /\ (k + 1) - 1 = k
    BY <1>3
  <2> DEFINE l == k + 1
  <2>2. l \in 0..n /\ l # 0 /\ l - 1 = k
    BY <2>1
  <2> HIDE DEF l
  <2>3. f[l] = f[l - 1] * s[l]
    BY <1>1, <2>2
  <2> QED
    BY <2>2, <2>3 DEF l
<1> QED
  BY <1>2, <1>3

\* The products are integers: the least n with one that is not is impossible.
LEMMA ProductsType ==
  ASSUME NEW s \in Seq(Int), NEW n \in Nat, n <= Len(s), NEW f,
         IsProducts(f, s, n)
  PROVE  \A k \in Nat : k <= n => f[k] \in Int
<1> DEFINE Bad == {k \in Nat : k <= n /\ f[k] \notin Int}
<1>1. ASSUME Bad # {}  PROVE FALSE
  <2>1. PICK k \in Bad : \A m \in Bad : k <= m
    BY <1>1, LeastNatural
  <2>2. k \in Nat /\ k <= n /\ f[k] \notin Int /\ k # 0
    BY <2>1, ProductsAre
  <2> DEFINE l == k - 1
  <2>3. l \in Nat /\ l < k /\ l < n /\ l + 1 = k
    BY <2>2
  <2> HIDE DEF l
  <2>4. f[l] \in Int
    BY <2>1, <2>2, <2>3
  <2>5. f[k] = f[l] * s[k]
    BY <2>3, ProductsAre
  <2>6. s[k] \in Int
    <3>1. k \in 1..Len(s)
      BY <2>2
    <3> QED
      BY <3>1
  <2> QED
    BY <2>2, <2>4, <2>5, <2>6
<1> QED
  BY <1>1

\* The products of as many elements agree when the elements do.
LEMMA ProductsAgree ==
  ASSUME NEW s, NEW t, NEW n \in Nat, NEW m \in Nat,
         n <= m, SameStart(s, t, n),
         NEW f, IsProducts(f, s, n), NEW g, IsProducts(g, t, m)
  PROVE  \A k \in Nat : k <= n => f[k] = g[k]
<1> DEFINE Bad == {k \in Nat : k <= n /\ f[k] # g[k]}
<1>1. ASSUME Bad # {}  PROVE FALSE
  <2>1. PICK k \in Bad : \A j \in Bad : k <= j
    BY <1>1, LeastNatural
  <2>2. k \in Nat /\ k <= n /\ f[k] # g[k] /\ k # 0
    BY <2>1, ProductsAre
  <2> DEFINE j == k - 1
  <2>3. j \in Nat /\ j < k /\ j < n /\ j < m /\ j + 1 = k
    BY <2>2
  <2> HIDE DEF j
  <2>4. f[j] = g[j]
    BY <2>1, <2>2, <2>3
  <2>5. f[k] = f[j] * s[k] /\ g[k] = g[j] * t[k]
    BY <2>3, ProductsAre
  <2>6. s[k] = t[k]
    BY <2>2 DEF SameStart
  <2> QED
    BY <2>2, <2>4, <2>5, <2>6
<1> QED
  BY <1>1

\* One more element multiplies by it.
LEMMA ProductsNext ==
  ASSUME NEW s, NEW t, NEW n \in Nat, NEW m \in Nat, m = n + 1,
         SameStart(s, t, n),
         NEW f, IsProducts(f, s, n), NEW g, IsProducts(g, t, m)
  PROVE  g[m] = f[n] * t[m]
<1>1. n <= m /\ n < m /\ n <= n
  OBVIOUS
<1>2. g[m] = g[n] * t[m]
  BY <1>1, ProductsAre
<1>3. \A k \in Nat : k <= n => f[k] = g[k]
  BY <1>1, ProductsAgree
<1>4. f[n] = g[n]
  BY <1>1, <1>3
<1> QED
  BY <1>2, <1>4

\* There is such a function for every sequence: the least length without one
\* is impossible, the function for one element less can be extended.
LEMMA ProductsExist ==
  ASSUME NEW s, NEW n \in Nat
  PROVE  \E f : IsProducts(f, s, n)
<1> DEFINE Bad == {m \in Nat : ~\E f : IsProducts(f, s, m)}
<1>1. ASSUME Bad # {}  PROVE FALSE
  <2>1. PICK m \in Bad : \A j \in Bad : m <= j
    BY <1>1, LeastNatural
  <2>2. CASE m = 0
    <3> DEFINE f == [k \in {0} |-> 1]
    <3>1. f = [k \in 0..0 |-> IF k = 0 THEN 1 ELSE f[k - 1] * s[k]]
      OBVIOUS
    <3>2. IsProducts(f, s, 0)
      BY <3>1 DEF IsProducts
    <3> QED
      BY <2>1, <2>2, <3>2
  <2>3. CASE m # 0
    <3> DEFINE j == m - 1
    <3>1. j \in Nat /\ j < m /\ j + 1 = m
      BY <2>1, <2>3
    <3> HIDE DEF j
    <3>2. PICK f : IsProducts(f, s, j)
      BY <2>1, <3>1
    <3> DEFINE g == [k \in 0..m |-> IF k = m THEN f[j] * s[m] ELSE f[k]]
    <3>3. ASSUME NEW k \in 0..m
          PROVE  g[k] = IF k = 0 THEN 1 ELSE g[k - 1] * s[k]
      <4>1. CASE k = 0
        BY <3>1, <3>2, <4>1, ProductsAre
      <4>2. CASE k = m
        <5>1. g[k] = f[j] * s[m] /\ g[k - 1] = f[j] /\ k # 0
          BY <3>1, <3>3, <4>2
        <5> QED
          BY <4>2, <5>1
      <4>3. CASE k # 0 /\ k # m
        <5> DEFINE i0 == k - 1
        <5>1. i0 \in Nat /\ i0 < j /\ i0 + 1 = k /\ i0 # m /\ i0 \in 0..m
          BY <3>1, <3>3, <4>3
        <5> HIDE DEF i0
        <5>2. f[i0 + 1] = f[i0] * s[i0 + 1]
          BY <3>1, <3>2, <5>1, ProductsAre
        <5>3. g[k] = f[k] /\ g[i0] = f[i0]
          BY <3>3, <4>3, <5>1
        <5>4. g[k] = g[i0] * s[k]
          BY <5>1, <5>2, <5>3
        <5> QED
          BY <4>3, <5>4 DEF i0
      <4> QED
        BY <4>1, <4>2, <4>3
    <3> HIDE DEF g
    <3>4. g = [k \in 0..m |-> g[k]]
      BY DEF g
    <3>5. IsProducts(g, s, m)
      BY <3>3, <3>4, Zenon DEF IsProducts
    <3> QED
      BY <2>1, <3>5
  <2> QED
    BY <2>2, <2>3
<1> QED
  BY <1>1

\* So the product of a sequence is the last value of one.
LEMMA ProductIs ==
  ASSUME NEW s \in Seq(Int)
  PROVE  \E f : IsProducts(f, s, Len(s)) /\ Product(s) = f[Len(s)]
<1> DEFINE f == CHOOSE p : p = [k \in 0..Len(s) |-> IF k = 0 THEN 1 ELSE p[k - 1] * s[k]]
<1>1. Product(s) = f[Len(s)]
  BY DEF Product
<1>2. Len(s) \in Nat
  OBVIOUS
<1>3. \E p : p = [k \in 0..Len(s) |-> IF k = 0 THEN 1 ELSE p[k - 1] * s[k]]
  BY <1>2, ProductsExist DEF IsProducts
<1>4. IsProducts(f, s, Len(s))
  BY <1>3, Zenon DEF IsProducts
<1> QED
  BY <1>1, <1>4, Zenon

\* A product is an integer; that of no number is 1.
LEMMA ProductType ==
  ASSUME NEW s \in Seq(Int)
  PROVE  Product(s) \in Int /\ (Len(s) = 0 => Product(s) = 1)
<1>1. PICK f : IsProducts(f, s, Len(s)) /\ Product(s) = f[Len(s)]
  BY ProductIs
<1>2. Len(s) \in Nat
  OBVIOUS
<1> QED
  BY <1>1, <1>2, ProductsType, ProductsAre

\* One more element multiplies the product by it.
LEMMA ProductExtend ==
  ASSUME NEW s \in Seq(Int), NEW t \in Seq(Int), Len(t) = Len(s) + 1,
         \A k \in 1..Len(s) : s[k] = t[k]
  PROVE  Product(t) = Product(s) * t[Len(t)]
<1>1. PICK n \in Nat, m \in Nat : n = Len(s) /\ m = Len(t) /\ m = n + 1
  OBVIOUS
<1>2. PICK f : IsProducts(f, s, n) /\ Product(s) = f[n]
  BY <1>1, ProductIs
<1>3. PICK g : IsProducts(g, t, m) /\ Product(t) = g[m]
  BY <1>1, ProductIs
<1>4. SameStart(s, t, n)
  BY <1>1 DEF SameStart
<1>5. g[m] = f[n] * t[m]
  BY <1>1, <1>2, <1>3, <1>4, ProductsNext
<1> QED
  BY <1>1, <1>2, <1>3, <1>5

\* The power of an exponent one higher.
LEMMA PowerNext ==
  ASSUME NEW b \in Int
  PROVE  /\ Power(b, 1) = b
         /\ \A e \in Nat : Power(b, e) \in Int /\ Power(b, e + 1) = Power(b, e) * b
<1> DEFINE copies(e) == [k \in 1..e |-> b]
<1>1. ASSUME NEW e \in Nat
      PROVE  copies(e) \in Seq(Int) /\ Len(copies(e)) = e /\ \A k \in 1..e : copies(e)[k] = b
  OBVIOUS
<1>2. \A e \in Nat : Power(b, e) = Product(copies(e))
  BY DEF Power
<1>3. ASSUME NEW e \in Nat
      PROVE  Power(b, e) \in Int /\ Power(b, e + 1) = Power(b, e) * b
  <2> HIDE DEF copies
  <2> DEFINE n == e + 1
  <2>1. n \in Nat /\ n \in 1..n /\ \A k \in 1..e : k \in 1..n
    OBVIOUS
  <2>2. /\ copies(e) \in Seq(Int) /\ Len(copies(e)) = e
        /\ copies(n) \in Seq(Int) /\ Len(copies(n)) = n
        /\ \A k \in 1..e : copies(e)[k] = copies(n)[k]
        /\ copies(n)[n] = b
    <3> HIDE DEF n
    <3> QED
      BY <1>1, <2>1
  <2>3. Len(copies(n)) = Len(copies(e)) + 1
    BY <2>2
  <2>4. Product(copies(n)) = Product(copies(e)) * copies(n)[Len(copies(n))]
    <3> HIDE DEF n
    <3> QED
      BY <2>2, <2>3, ProductExtend
  <2>5. Product(copies(e)) \in Int
    BY <2>2, ProductType
  <2> QED
    BY <1>2, <2>1, <2>2, <2>4, <2>5
<1>4. Power(b, 1) = b
  <2>1. Len(copies(0)) = 0 /\ copies(0) \in Seq(Int)
    BY <1>1
  <2>2. Product(copies(0)) = 1
    BY <2>1, ProductType
  <2>3. Power(b, 0) = 1
    BY <1>2, <2>2
  <2>4. Power(b, 0 + 1) = Power(b, 0) * b
    BY <1>3
  <2> QED
    BY <2>3, <2>4
<1> QED
  BY <1>3, <1>4

\* Multiplying the last element multiplies the product.
LEMMA ProductLast ==
  ASSUME NEW s \in Seq(Int), NEW t \in Seq(Int), Len(t) = Len(s), Len(s) > 0,
         \A k \in 1..Len(s) : k # Len(s) => t[k] = s[k],
         NEW x \in Int, t[Len(s)] = s[Len(s)] * x
  PROVE  Product(t) = Product(s) * x
<1> DEFINE n == Len(s)
           r == SubSeq(s, 1, n - 1)
<1>1. n \in Nat /\ n > 0 /\ n \in 1..n /\ s[n] \in Int
  OBVIOUS
<1>2. r \in Seq(Int) /\ Len(r) = n - 1 /\ \A k \in 1..(n - 1) : r[k] = s[k]
  BY <1>1
<1>3. \A k \in 1..(n - 1) : s[k] = t[k]
  BY <1>1
<1>4. Len(t) = n /\ t[n] = s[n] * x
  OBVIOUS
<1> HIDE DEF r
<1>5. Len(s) = Len(r) + 1 /\ \A k \in 1..Len(r) : r[k] = s[k]
  BY <1>1, <1>2
<1>6. Len(t) = Len(r) + 1 /\ \A k \in 1..Len(r) : r[k] = t[k]
  BY <1>1, <1>2, <1>3, <1>4
<1>7. Product(s) = Product(r) * s[n]
  BY <1>2, <1>5, ProductExtend
<1>8. Product(t) = Product(r) * t[n]
  BY <1>2, <1>4, <1>6, ProductExtend
<1>9. Product(r) \in Int
  BY <1>2, ProductType
<1> HIDE DEF n
<1> DEFINE a == Product(r)
           b == s[n]
<1>10. a * (b * x) = (a * b) * x
  <2>1. a \in Int /\ b \in Int /\ x \in Int
    BY <1>1, <1>9
  <2> HIDE DEF a, b
  <2> QED
    BY <2>1
<1> QED
  BY <1>4, <1>7, <1>8, <1>10

-----------------------------------------------------------------------------
(* The inductive invariant of prime_fact()                                 *)

\* While the input is being factored it is not 0, and from the odd divisors
\* on no number below the divisor being tried divides it.
NoSmallDivisor ==
  /\ number # 0 /\ pc \in {"halve", "for", "while"} => input # 0
  /\ pc = "halve" => i = 3
  /\ i >= 3 /\ \E m \in Nat : i = 2 * m + 1
  /\ pc \in {"for", "while"} => \A d \in 2..(i - 1) : input % d # 0
  /\ pc = "while" => input > 0

\* A repetition is counted for the last power of the page, and there is a
\* factor after it.
CountingAhead == pc = "count" => index < Len(results) /\ page # <<>>

IInv == TypeOK /\ NoSmallDivisor /\ CountingAhead /\ FactorsPrime

\* A number not yet divided satisfies the invariant.
LEMMA Initially == Init => IInv
  BY InputsAssumption
     DEF Init, IInv, TypeOK, NoSmallDivisor, CountingAhead, FactorsPrime

\* A prime pushed on primes leaves primes.
LEMMA PushPrime ==
  ASSUME NEW f \in Int, IsPrime(f), results \in Seq(Int), FactorsPrime,
         Push(f), number' = number
  PROVE  FactorsPrime'
<1>1. ASSUME NEW k \in DOMAIN results', number # 0  PROVE IsPrime(results'[k])
  <2>1. CASE k \in DOMAIN results
    BY <1>1, <2>1 DEF Push, FactorsPrime
  <2>2. CASE k = Len(results) + 1
    BY <2>2 DEF Push
  <2> QED
    BY <1>1, <2>1, <2>2 DEF Push
<1> QED
  BY <1>1 DEF FactorsPrime

\* A factor pushed leaves the results a sequence and the index in range.
LEMMA PushType ==
  ASSUME NEW f \in Int, results \in Seq(Int), Push(f),
         index \in 1..(Len(results) + 1)
  PROVE  results' \in Seq(Int) /\ index \in 1..(Len(results') + 1)
<1>1. results' \in Seq(Int) /\ Len(results') = Len(results) + 1
  BY DEF Push
<1>2. Len(results) \in Nat
  OBVIOUS
<1> QED
  BY <1>1, <1>2

\* Two is a prime, and half of a number that is not 0 is not 0.
LEMMA HalveStep == ASSUME IInv, Halve  PROVE IInv'
<1>1. /\ input \in Int /\ input # 0 /\ input % 2 = 0 /\ input' = input \div 2
      /\ results \in Seq(Int) /\ Push(2) /\ number' = number
      /\ index \in 1..(Len(results) + 1) /\ index' = index
  BY DEF IInv, TypeOK, Halve
<1>2. input' \in Int /\ input' # 0
  BY <1>1
<1>3. IsPrime(2)
  BY DEF IsPrime
<1>4. FactorsPrime'
  BY <1>1, <1>3, PushPrime DEF IInv
<1>5. TypeOK'
  <2>1. results' \in Seq(Int) /\ index' \in 1..(Len(results') + 1)
    BY <1>1, PushType
  <2> QED
    BY <1>2, <2>1 DEF IInv, TypeOK, Halve
<1>6. NoSmallDivisor' /\ CountingAhead'
  BY <1>2 DEF IInv, NoSmallDivisor, CountingAhead, Halve
<1> QED
  BY <1>4, <1>5, <1>6 DEF IInv

\* The divisor pushed is a prime, and what is left has no smaller divisor.
LEMMA DivideStep == ASSUME IInv, Divide  PROVE IInv'
<1>1. /\ input \in Int /\ input > 0 /\ i \in Nat /\ i > 1 /\ input % i = 0
      /\ \A d \in 2..(i - 1) : input % d # 0
  <2>1. input \in Int /\ i \in Nat
    BY DEF IInv, TypeOK
  <2>2. i >= 3
    BY DEF IInv, NoSmallDivisor
  <2>3. /\ input > 0 /\ input % i = 0
        /\ \A d \in 2..(i - 1) : input % d # 0
    BY DEF IInv, NoSmallDivisor, Divide
  <2>4. i > 1
    BY <2>1, <2>2
  <2> QED
    BY <2>1, <2>3, <2>4
<1>2. /\ input' = input \div i /\ i' = i
      /\ results \in Seq(Int) /\ Push(i) /\ number' = number
      /\ index \in 1..(Len(results) + 1) /\ index' = index
  BY DEF IInv, TypeOK, Divide
<1>3. /\ input' \in Int /\ input' > 0
      /\ \A d \in 2..(i' - 1) : input' % d # 0
  BY <1>1, <1>2, QuotientKeeps
<1>4. IsPrime(i)
  BY <1>1, FirstDivisorIsPrime
<1>5. FactorsPrime'
  BY <1>1, <1>2, <1>4, PushPrime DEF IInv
<1>6. TypeOK'
  <2>1. results' \in Seq(Int) /\ index' \in 1..(Len(results') + 1)
    BY <1>1, <1>2, PushType
  <2> QED
    BY <1>3, <2>1 DEF IInv, TypeOK, Divide
<1>7. input' # 0
  BY <1>3
<1>8. NoSmallDivisor'
  BY <1>2, <1>3, <1>7 DEF IInv, NoSmallDivisor, Divide
<1> QED
  BY <1>5, <1>6, <1>8 DEF IInv, CountingAhead, Divide

\* The next odd divisor has no divisor of the input below it.
LEMMA NextDivisorStep == ASSUME IInv, NextDivisor  PROVE IInv'
<1>1. /\ input \in Int /\ i \in Nat /\ i >= 3 /\ input % i # 0
      /\ \A d \in 2..(i - 1) : input % d # 0
  BY DEF IInv, TypeOK, NoSmallDivisor, NextDivisor
<1>2. PICK m \in Nat : i = 2 * m + 1
  BY DEF IInv, NoSmallDivisor
<1>3. input' = input /\ i' = i + 2
  BY DEF NextDivisor
<1>4. \A d \in 2..(i' - 1) : input' % d # 0
  <2>1. \A d \in 2..(i + 1) : input % d # 0
    BY <1>1, <1>2, SkipEven
  <2>2. i' - 1 = i + 1
    BY <1>1, <1>3
  <2> QED
    BY <1>3, <2>1, <2>2
<1>5. i' \in Nat /\ i' >= 3 /\ \E n \in Nat : i' = 2 * n + 1
  <2>1. i' = 2 * (m + 1) + 1 /\ m + 1 \in Nat
    BY <1>2, <1>3
  <2>2. \E n \in Nat : i' = 2 * n + 1
    BY <2>1, Zenon
  <2>3. i' \in Nat /\ i' >= 3
    BY <1>1, <1>3
  <2> QED
    BY <2>2, <2>3
<1>6. NoSmallDivisor'
  BY <1>4, <1>5 DEF IInv, NoSmallDivisor, NextDivisor
<1>7. TypeOK'
  BY <1>5 DEF IInv, TypeOK, NextDivisor
<1> QED
  BY <1>6, <1>7 DEF IInv, CountingAhead, FactorsPrime, NextDivisor

\* What is left when the square root is passed is a prime.
LEMMA KeepRestStep == ASSUME IInv, KeepRest  PROVE IInv'
<1>1. /\ input \in Int /\ i \in Nat /\ ~(i * i <= input)
      /\ \A d \in 2..(i - 1) : input % d # 0
  BY DEF IInv, TypeOK, NoSmallDivisor, KeepRest, InRange
<1>2. /\ results \in Seq(Int) /\ number' = number
      /\ index \in 1..(Len(results) + 1) /\ index' = index
  BY DEF IInv, TypeOK, KeepRest
<1>3. i * i > input
  BY <1>1
<1>4. /\ FactorsPrime'
      /\ results' \in Seq(Int) /\ index' \in 1..(Len(results') + 1)
  <2>1. CASE input > 2
    <3>1. IsPrime(input)
      BY <1>1, <1>3, <2>1, RestIsPrime
    <3>2. Push(input)
      BY <2>1 DEF KeepRest
    <3> QED
      BY <1>1, <1>2, <3>1, <3>2, PushPrime, PushType DEF IInv
  <2>2. CASE ~(input > 2)
    <3>1. results' = results
      BY <2>2 DEF KeepRest
    <3> QED
      BY <1>2, <3>1 DEF IInv, FactorsPrime
  <2> QED
    BY <2>1, <2>2
<1>5. TypeOK'
  BY <1>4 DEF IInv, TypeOK, KeepRest
<1> QED
  BY <1>4, <1>5 DEF IInv, NoSmallDivisor, CountingAhead, KeepRest

\* The other steps of prime_fact().
LEMMA FactoringStep == ASSUME IInv, Factoring  PROVE IInv'
<1>1. CASE PushZero
  <2>1. number = 0
    BY <1>1 DEF IInv, NoSmallDivisor, PushZero
  <2>2. TypeOK'
    <3>1. results' \in Seq(Int) /\ index' \in 1..(Len(results') + 1)
      BY <1>1, PushType DEF IInv, TypeOK, PushZero
    <3> QED
      BY <1>1, <3>1 DEF IInv, TypeOK, PushZero
  <2>3. NoSmallDivisor'
    BY <1>1, <2>1 DEF IInv, NoSmallDivisor, PushZero
  <2> QED
    BY <1>1, <2>1, <2>2, <2>3 DEF IInv, CountingAhead, FactorsPrime, PushZero
<1>2. CASE HalvingEnds
  <2>1. TypeOK'
    BY <1>2 DEF IInv, TypeOK, HalvingEnds
  <2>2. i' = 3 /\ input' = input /\ input' % 2 # 0
    BY <1>2 DEF IInv, NoSmallDivisor, HalvingEnds
  <2>3. \A d \in 2..(i' - 1) : input' % d # 0
    <3>1. ASSUME NEW d \in 2..(i' - 1)  PROVE d = 2
      BY <2>2, <3>1
    <3> QED
      BY <2>2, <3>1
  <2>4. NoSmallDivisor'
    BY <1>2, <2>3 DEF IInv, NoSmallDivisor, HalvingEnds
  <2> QED
    BY <1>2, <2>1, <2>4 DEF IInv, CountingAhead, FactorsPrime, HalvingEnds
<1>3. CASE TryDivisor
  <2>1. TypeOK'
    BY <1>3 DEF IInv, TypeOK, TryDivisor
  <2>2. input > 0
    <3>1. input \in Int /\ i \in Nat /\ i >= 3 /\ i * i <= input
      BY <1>3 DEF IInv, TypeOK, NoSmallDivisor, TryDivisor, InRange
    <3>2. i * i >= 3 * 3
      BY <3>1, ProductAtLeast
    <3>3. i * i \in Int /\ 3 * 3 = 9
      BY <3>1
    <3> DEFINE square == i * i
    <3>4. square \in Int /\ square >= 9 /\ square <= input
      BY <3>1, <3>2, <3>3
    <3> HIDE DEF square
    <3> QED
      BY <3>1, <3>4
  <2>3. NoSmallDivisor'
    BY <1>3, <2>2 DEF IInv, NoSmallDivisor, TryDivisor
  <2> QED
    BY <1>3, <2>1, <2>3 DEF IInv, CountingAhead, FactorsPrime, TryDivisor
<1> QED
  BY <1>1, <1>2, <1>3, HalveStep, DivideStep, NextDivisorStep, KeepRestStep
     DEF Factoring

\* Printing changes neither the factors nor what is left.
LEMMA ShowingStep == ASSUME IInv, Showing  PROVE IInv'
<1>1. /\ results' = results /\ number' = number /\ input' = input /\ i' = i
      /\ pc \notin {"halve", "for", "while"} /\ pc' \in {"show", "count", "done"}
  BY DEF Showing, ShowNotice, ShowFactor, CountRepetition, ShowEnds
<1>2. NoSmallDivisor' /\ FactorsPrime'
  BY <1>1 DEF IInv, NoSmallDivisor, FactorsPrime
<1>3. TypeOK' /\ CountingAhead'
  <2>1. /\ results \in Seq(Int) /\ index \in 1..(Len(results) + 1)
        /\ page \in Seq(Powers)
    BY DEF IInv, TypeOK
  <2>2. CASE ShowNotice \/ ShowEnds
    BY <2>2 DEF IInv, TypeOK, CountingAhead, ShowNotice, ShowEnds
  <2>3. CASE ShowFactor
    <3>1. [base |-> results[index], exp |-> 1] \in Powers
      <4>1. results[index] \in Int
        BY <2>1, <2>3 DEF ShowFactor
      <4> QED
        BY <4>1 DEF Powers
    <3>2. page' \in Seq(Powers) /\ page' # <<>>
      BY <2>1, <2>3, <3>1 DEF ShowFactor
    <3>3. index' \in 1..(Len(results) + 1) /\ (pc' = "count" => index' < Len(results))
      BY <2>1, <2>3 DEF ShowFactor, Repeated
    <3> QED
      BY <1>1, <2>3, <3>2, <3>3 DEF IInv, TypeOK, CountingAhead, ShowFactor
  <2>4. CASE CountRepetition
    <3>1. page # <<>> /\ index < Len(results)
      BY <2>4 DEF IInv, CountingAhead, CountRepetition
    <3>2. Len(page) \in DOMAIN page
      BY <2>1, <3>1
    <3>3. page[Len(page)] \in Powers
      BY <2>1, <3>2
    <3>4. page' \in Seq(Powers) /\ page' # <<>>
      <4> DEFINE last == page[Len(page)]
                 raised == [last EXCEPT !.exp = @ + 1]
      <4>1. raised \in Powers
        BY <3>3 DEF Powers
      <4>2. page' = [page EXCEPT ![Len(page)] = raised]
        BY <2>4 DEF CountRepetition
      <4> HIDE DEF raised
      <4> QED
        BY <2>1, <3>1, <3>2, <4>1, <4>2
    <3>5. index' \in 1..(Len(results) + 1) /\ (pc' = "count" => index' < Len(results))
      BY <2>1, <2>4, <3>1, SMTT(20) DEF CountRepetition, Repeated
    <3> QED
      BY <1>1, <2>4, <3>4, <3>5 DEF IInv, TypeOK, CountingAhead, CountRepetition
  <2> QED
    BY <2>2, <2>3, <2>4 DEF Showing
<1> QED
  BY <1>2, <1>3 DEF IInv

\* Every step keeps the invariant.
LEMMA Inductive == IInv /\ [Next]_vars => IInv'
<1>1. ASSUME IInv, UNCHANGED vars  PROVE IInv'
  BY <1>1 DEF IInv, TypeOK, NoSmallDivisor, CountingAhead, FactorsPrime, vars
<1> QED
  BY <1>1, FactoringStep, ShowingStep DEF Next

-----------------------------------------------------------------------------
(* Only primes are reported                                                *)

\* Every reachable state satisfies the inductive invariant.
THEOREM Invariance == SafeSpec => []IInv
  BY Initially, Inductive, PTL DEF SafeSpec

\* prime_fact() and the page keep their variables in range: the page never
\* reads a factor beyond the last one.
THEOREM TypeCorrect == SafeSpec => []TypeOK
<1>1. IInv => TypeOK
  BY DEF IInv
<1> QED
  BY <1>1, Invariance, PTL

\* Only primes are reported, for every number a request can hold.
THEOREM OnlyPrimes == SafeSpec => []FactorsPrime
<1>1. IInv => FactorsPrime
  BY DEF IInv
<1> QED
  BY <1>1, Invariance, PTL

-----------------------------------------------------------------------------
(* The factors make the number                                             *)

\* While a positive number is factored, what is left of it is positive.
RestPositive ==
  number > 0 /\ pc \in {"halve", "for", "while"} => input > 0

Multiplying == RestPositive /\ FactorsMultiply

\* Before the first division nothing has been taken out of the number.
LEMMA MultiplyingInitially == Init => Multiplying
<1>1. ASSUME Init  PROVE Multiplying
  <2>1. /\ pc = "halve" /\ input = number /\ results = <<>> /\ number \in Int
        /\ results \in Seq(Int) /\ Len(results) = 0
    BY <1>1, InputsAssumption DEF Init
  <2>2. Product(results) = 1
    BY <2>1, ProductType
  <2>3. input * Product(results) = number
    BY <2>1, <2>2
  <2> QED
    BY <2>1, <2>3 DEF Multiplying, RestPositive, FactorsMultiply
<1> QED
  BY <1>1

\* A factor pushed multiplies the product of the factors.
LEMMA PushProduct ==
  ASSUME NEW f \in Int, results \in Seq(Int), Push(f)
  PROVE  /\ Product(results) \in Int
         /\ Product(results') = Product(results) * f
<1>1. /\ results' \in Seq(Int) /\ Len(results') = Len(results) + 1
      /\ \A k \in 1..Len(results) : results[k] = results'[k]
      /\ results'[Len(results')] = f
  BY DEF Push
<1> QED
  BY <1>1, ProductExtend, ProductType

\* Taking a factor out of what is left and into the results loses nothing.
LEMMA DivisionMultiplies ==
  ASSUME IInv, Multiplying, pc \in {"halve", "while"}, pc' \in {"halve", "while"},
         number' = number, NEW f \in Nat, f > 1, Push(f), input' = input \div f,
         input % f = 0
  PROVE  Multiplying'
<1>1. /\ input \in Int /\ results \in Seq(Int) /\ input * Product(results) = number
      /\ number > 0 => input > 0
  BY DEF IInv, TypeOK, Multiplying, FactorsMultiply, RestPositive
<1>2. /\ Product(results) \in Int
      /\ Product(results') = Product(results) * f
  BY <1>1, PushProduct
<1>3. input' \in Int /\ input = f * input'
  BY <1>1
<1>4. input' * Product(results') = number
  <2> DEFINE a == Product(results)
             b == input'
  <2>1. b * (a * f) = (f * b) * a
    <3>1. a \in Int /\ b \in Int
      BY <1>2, <1>3
    <3> HIDE DEF a, b
    <3> QED
      BY <3>1
  <2> QED
    BY <1>1, <1>2, <1>3, <2>1
<1>5. number > 0 => input' > 0
  <2>1. ASSUME input > 0, input' <= 0  PROVE FALSE
    <3>1. f * input' <= 0
      BY <1>3, <2>1
    <3> QED
      BY <1>3, <2>1, <3>1
  <2> QED
    BY <1>1, <1>3, <2>1
<1> QED
  BY <1>4, <1>5 DEF Multiplying, RestPositive, FactorsMultiply

\* What is left at the end is pushed, or is 1.
LEMMA RestMultiplies == ASSUME IInv, Multiplying, KeepRest  PROVE Multiplying'
<1>1. pc' = "show" /\ number' = number
  BY DEF KeepRest
<1>2. ASSUME number > 1  PROVE Product(results') = number
  <2>1. /\ input \in Int /\ results \in Seq(Int) /\ number \in Int
        /\ input * Product(results) = number /\ input > 0
    <3>1. /\ input \in Int /\ results \in Seq(Int) /\ number \in Int
      BY InputsAssumption DEF IInv, TypeOK
    <3>2. pc = "for" /\ number > 0
      BY <1>2, <3>1 DEF KeepRest
    <3> QED
      BY <3>1, <3>2 DEF Multiplying, FactorsMultiply, RestPositive
  <2>2. CASE input > 2
    <3>1. Product(results') = Product(results) * input /\ Product(results) \in Int
      BY <2>1, <2>2, PushProduct DEF KeepRest
    <3> QED
      BY <2>1, <3>1
  <2>3. CASE input <= 2
    <3>1. i \in Nat /\ i >= 3 /\ \A d \in 2..(i - 1) : input % d # 0
      BY DEF IInv, TypeOK, NoSmallDivisor, KeepRest
    <3>2. input % 2 # 0
      BY <3>1
    <3>3. input = 1
      BY <2>1, <2>3, <3>2
    <3>4. results' = results /\ Product(results) \in Int
      BY <2>1, <2>3, ProductType DEF KeepRest
    <3> QED
      BY <2>1, <3>3, <3>4
  <2> QED
    BY <2>1, <2>2, <2>3
<1> QED
  BY <1>1, <1>2 DEF Multiplying, RestPositive, FactorsMultiply

\* Every step keeps the product.
LEMMA MultiplyingStep == IInv /\ Multiplying /\ [Next]_vars => Multiplying'
<1> SUFFICES ASSUME IInv, Multiplying, [Next]_vars  PROVE Multiplying'
  OBVIOUS
<1>1. CASE PushZero
  <2>1. number = 0
    BY <1>1 DEF IInv, NoSmallDivisor, PushZero
  <2> QED
    BY <1>1, <2>1 DEF PushZero, Multiplying, RestPositive, FactorsMultiply
<1>2. CASE Halve
  <2>1. /\ pc = "halve" /\ pc' = pc /\ number' = number /\ Push(2)
        /\ input' = input \div 2 /\ input % 2 = 0 /\ 2 \in Nat /\ 2 > 1
    BY <1>2 DEF Halve
  <2> QED
    BY <2>1, DivisionMultiplies
<1>3. CASE Divide
  <2>1. /\ pc = "while" /\ pc' = pc /\ number' = number /\ Push(i)
        /\ input' = input \div i /\ input % i = 0
    BY <1>3 DEF Divide
  <2>2. i \in Nat /\ i > 1
    <3>1. i \in Nat /\ i >= 3
      BY DEF IInv, TypeOK, NoSmallDivisor
    <3> QED
      BY <3>1
  <2> QED
    BY <2>1, <2>2, DivisionMultiplies
<1>4. CASE HalvingEnds \/ TryDivisor \/ NextDivisor
  BY <1>4 DEF HalvingEnds, TryDivisor, NextDivisor,
              Multiplying, RestPositive, FactorsMultiply
<1>5. CASE Showing
  <2>1. /\ pc \in {"show", "count"} /\ pc' \in {"show", "count", "done"}
        /\ number' = number /\ results' = results
    BY <1>5 DEF Showing, ShowNotice, ShowFactor, CountRepetition, ShowEnds
  <2> QED
    BY <2>1 DEF Multiplying, RestPositive, FactorsMultiply
<1>6. CASE UNCHANGED vars
  BY <1>6 DEF vars, Multiplying, RestPositive, FactorsMultiply
<1> QED
  BY <1>1, <1>2, <1>3, <1>4, <1>5, <1>6, RestMultiplies DEF Next, Factoring

-----------------------------------------------------------------------------
(* The page shows the factors                                              *)

\* The factors come in ascending order: twos first, then none above the
\* divisor being tried.
Ascending ==
  /\ number # 0 =>
       \A k, m \in DOMAIN results : k < m => results[k] <= results[m]
  /\ pc = "halve" => \A k \in DOMAIN results : results[k] = 2
  /\ pc \in {"for", "while"} => \A k \in DOMAIN results : results[k] <= i

\* The number of factors that the page shows.
Shown == IF pc = "count" THEN index ELSE index - 1

\* The last power shown is one of the last factor shown, and complete unless
\* a repetition is to be counted.
LastPower ==
  /\ pc \in {"halve", "for", "while"} => index = 1 /\ page = <<>>
  /\ Shown > 0 => page # <<>> /\ page[Len(page)].base = results[Shown]
  /\ pc = "show" /\ 0 < Shown /\ Shown < Len(results) =>
       results[Shown] # results[Shown + 1]
  /\ pc = "count" => results[index] = results[index + 1]
  /\ pc = "done" /\ number > 1 => index > Len(results)

\* The powers shown are those of the factors shown, in ascending order.
PowersShown ==
  /\ PageProduct = Product(SubSeq(results, 1, Shown))
  /\ \A k \in DOMAIN page :
       page[k].exp > 0 /\ \E j \in 1..Shown : page[k].base = results[j]
  /\ \A k, m \in DOMAIN page : k < m => page[k].base < page[m].base

PageInv == LastPower /\ PowersShown

-----------------------------------------------------------------------------
(* The order of the factors                                                *)

\* A factor not below the others keeps the order.
LEMMA PushAscending ==
  ASSUME results \in Seq(Int), NEW f \in Int, Push(f),
         \A k \in DOMAIN results : results[k] <= f,
         \A k, m \in DOMAIN results : k < m => results[k] <= results[m]
  PROVE  \A k, m \in DOMAIN results' : k < m => results'[k] <= results'[m]
<1> DEFINE n == Len(results)
<1>1. /\ DOMAIN results' = 1..(n + 1) /\ results'[n + 1] = f /\ n \in Nat
      /\ \A k \in 1..n : results'[k] = results[k] /\ k \in DOMAIN results
  BY DEF Push
<1> HIDE DEF n
<1>2. ASSUME NEW k \in 1..(n + 1)  PROVE results'[k] <= f
  <2>1. k \in 1..n \/ k = n + 1
    BY <1>1
  <2> QED
    BY <1>1, <2>1
<1>3. ASSUME NEW k \in 1..(n + 1), NEW m \in 1..(n + 1), k < m
      PROVE  results'[k] <= results'[m]
  <2>1. k \in 1..n /\ (m \in 1..n \/ m = n + 1)
    BY <1>1, <1>3
  <2>2. CASE m \in 1..n
    BY <1>1, <1>3, <2>1, <2>2
  <2>3. CASE m = n + 1
    BY <1>1, <1>2, <2>3
  <2> QED
    BY <2>1, <2>2, <2>3
<1> QED
  BY <1>1, <1>2, <1>3

\* Every step keeps the order.
LEMMA AscendingStep == IInv /\ Ascending /\ [Next]_vars => Ascending'
<1> SUFFICES ASSUME IInv, Ascending, [Next]_vars  PROVE Ascending'
  OBVIOUS
<1>0. /\ results \in Seq(Int) /\ i \in Nat /\ i >= 3 /\ input \in Int
      /\ pc = "halve" => i = 3
      /\ pc \in {"for", "while"} => \A d \in 2..(i - 1) : input % d # 0
      /\ number # 0 /\ pc = "halve" => input # 0
  BY DEF IInv, TypeOK, NoSmallDivisor
<1>1. CASE PushZero
  <2>1. number' = 0 /\ pc' = "show"
    BY <1>0, <1>1 DEF PushZero
  <2> QED
    BY <1>0, <1>1, <2>1 DEF Ascending, PushZero
<1>2. CASE Halve
  <2>1. /\ \A k \in DOMAIN results : results[k] = 2 /\ results[k] <= 2
        /\ Push(2) /\ pc' = "halve" /\ number' = number
    BY <1>2 DEF Halve, Ascending
  <2>2. number # 0 =>
          \A k, m \in DOMAIN results' : k < m => results'[k] <= results'[m]
    BY <1>0, <2>1, PushAscending DEF Ascending
  <2>3. \A k \in DOMAIN results' : results'[k] = 2
    BY <1>0, <2>1 DEF Push
  <2> QED
    BY <2>1, <2>2, <2>3 DEF Ascending
<1>3. CASE HalvingEnds
  <2>1. \A k \in DOMAIN results : results[k] <= i
    BY <1>0, <1>3 DEF HalvingEnds, Ascending
  <2> QED
    BY <1>3, <2>1 DEF HalvingEnds, Ascending
<1>4. CASE TryDivisor
  BY <1>4 DEF TryDivisor, Ascending
<1>5. CASE Divide
  <2>1. /\ \A k \in DOMAIN results : results[k] <= i
        /\ number # 0 =>
             \A k, m \in DOMAIN results : k < m => results[k] <= results[m]
        /\ Push(i) /\ pc' = "while" /\ i' = i /\ number' = number
    BY <1>5 DEF Divide, Ascending
  <2>2. \A k \in DOMAIN results' : results'[k] <= i
    BY <1>0, <2>1 DEF Push
  <2>3. number # 0 =>
          \A k, m \in DOMAIN results' : k < m => results'[k] <= results'[m]
    BY <1>0, <2>1, PushAscending
  <2> QED
    BY <2>1, <2>2, <2>3 DEF Ascending
<1>6. CASE NextDivisor
  <2>1. \A k \in DOMAIN results : results[k] <= i /\ results[k] \in Int
    BY <1>0, <1>6 DEF NextDivisor, Ascending
  <2>2. \A k \in DOMAIN results : results[k] <= i + 2
    BY <1>0, <2>1
  <2> QED
    BY <1>6, <2>2 DEF NextDivisor, Ascending
<1>7. CASE KeepRest
  <2>1. /\ \A k \in DOMAIN results : results[k] <= i /\ results[k] \in Int
        /\ number # 0 =>
             \A k, m \in DOMAIN results : k < m => results[k] <= results[m]
        /\ pc' = "show" /\ pc = "for" /\ number' = number
    BY <1>0, <1>7 DEF KeepRest, Ascending
  <2>2. CASE input > 2
    <3>1. input >= i
      <4>1. ASSUME input < i  PROVE FALSE
        <5>1. input \in 2..(i - 1) /\ input % input = 0
          BY <1>0, <2>2, <4>1
        <5> QED
          BY <1>0, <2>1, <5>1
      <4> QED
        BY <1>0, <4>1
    <3>2. \A k \in DOMAIN results : results[k] <= input
      BY <1>0, <2>1, <3>1
    <3>3. number # 0 =>
            \A k, m \in DOMAIN results' : k < m => results'[k] <= results'[m]
      BY <1>0, <1>7, <2>1, <2>2, <3>2, PushAscending DEF KeepRest
    <3> QED
      BY <2>1, <3>3 DEF Ascending
  <2>3. CASE ~(input > 2)
    BY <1>7, <2>1, <2>3 DEF KeepRest, Ascending
  <2> QED
    BY <2>2, <2>3
<1>8. CASE Showing
  <2>1. /\ pc' \in {"show", "count", "done"} /\ results' = results
        /\ number' = number
    BY <1>8 DEF Showing, ShowNotice, ShowFactor, CountRepetition, ShowEnds
  <2> QED
    BY <2>1 DEF Ascending
<1>9. CASE UNCHANGED vars
  BY <1>9 DEF vars, Ascending
<1> QED
  BY <1>1, <1>2, <1>3, <1>4, <1>5, <1>6, <1>7, <1>8, <1>9 DEF Next, Factoring

-----------------------------------------------------------------------------
(* The powers                                                              *)

\* What the powers of the page are.
Values(pg) == [k \in DOMAIN pg |-> Power(pg[k].base, pg[k].exp)]

\* A power of the page has an integer base and a natural exponent.
LEMMA PowersHave ==
  ASSUME NEW pg \in Seq(Powers), NEW k \in 1..Len(pg)
  PROVE  /\ pg[k].base \in Int /\ pg[k].exp \in Nat
         /\ pg[k] = [base |-> pg[k].base, exp |-> pg[k].exp]
<1> DEFINE w == pg[k]
<1>1. w \in Powers
  OBVIOUS
<1> HIDE DEF w
<1>2. w.base \in Int /\ w.exp \in Nat /\ w = [base |-> w.base, exp |-> w.exp]
  BY <1>1 DEF Powers
<1> QED
  BY <1>2 DEF w

\* They are integers, as many as the powers.
LEMMA ValuesType ==
  ASSUME NEW pg \in Seq(Powers)
  PROVE  /\ Values(pg) \in Seq(Int) /\ Len(Values(pg)) = Len(pg)
         /\ \A k \in 1..Len(pg) : Values(pg)[k] = Power(pg[k].base, pg[k].exp)
<1>1. ASSUME NEW k \in 1..Len(pg)  PROVE Power(pg[k].base, pg[k].exp) \in Int
  <2>1. pg[k].base \in Int /\ pg[k].exp \in Nat
    BY PowersHave
  <2> QED
    BY <2>1, PowerNext
<1>2. DOMAIN pg = 1..Len(pg) /\ Len(pg) \in Nat
  OBVIOUS
<1> DEFINE value(k) == Power(pg[k].base, pg[k].exp)
<1>3. Values(pg) = [k \in 1..Len(pg) |-> value(k)]
  BY <1>2 DEF Values
<1>4. \A k \in 1..Len(pg) : value(k) \in Int
  BY <1>1
<1> HIDE DEF value
<1>5. /\ Values(pg) \in Seq(Int) /\ Len(Values(pg)) = Len(pg)
      /\ \A k \in 1..Len(pg) : Values(pg)[k] = value(k)
  BY <1>2, <1>3, <1>4
<1> QED
  BY <1>5 DEF value

\* A new power of exponent 1 multiplies the page's product by its base.
LEMMA NewPower ==
  ASSUME NEW pg \in Seq(Powers), NEW b \in Int,
         NEW new, new = Append(pg, [base |-> b, exp |-> 1])
  PROVE  /\ new \in Seq(Powers)
         /\ Product(Values(new)) = Product(Values(pg)) * b
<1>1. /\ new \in Seq(Powers) /\ Len(new) = Len(pg) + 1
      /\ \A k \in 1..Len(pg) : new[k] = pg[k]
      /\ new[Len(pg) + 1] = [base |-> b, exp |-> 1]
  BY DEF Powers
<1>2. /\ Values(pg) \in Seq(Int) /\ Values(new) \in Seq(Int)
      /\ Len(Values(new)) = Len(Values(pg)) + 1 /\ Len(Values(pg)) = Len(pg)
      /\ \A k \in 1..Len(pg) : Values(pg)[k] = Power(pg[k].base, pg[k].exp)
      /\ \A k \in 1..Len(new) : Values(new)[k] = Power(new[k].base, new[k].exp)
  BY <1>1, ValuesType
<1>3. Values(new)[Len(Values(new))] = b
  <2> DEFINE n == Len(new)
  <2>1. n \in 1..n /\ n = Len(Values(new)) /\ n = Len(pg) + 1
    BY <1>1, <1>2
  <2>2. new[n].base = b /\ new[n].exp = 1
    BY <1>1, <2>1
  <2> HIDE DEF n
  <2>3. Values(new)[n] = Power(b, 1)
    BY <1>2, <2>1, <2>2 DEF n
  <2> QED
    BY <2>1, <2>3, PowerNext
<1>4. \A k \in 1..Len(Values(pg)) : Values(pg)[k] = Values(new)[k]
  <2>1. ASSUME NEW k \in 1..Len(pg)  PROVE Values(pg)[k] = Values(new)[k]
    <3>1. k \in 1..Len(new)
      BY <1>1
    <3> QED
      BY <1>1, <1>2, <3>1
  <2> QED
    BY <1>2, <2>1
<1>5. Product(Values(new)) = Product(Values(pg)) * Values(new)[Len(Values(new))]
  <2> DEFINE u == Values(pg)
             v == Values(new)
  <2>1. /\ u \in Seq(Int) /\ v \in Seq(Int) /\ Len(v) = Len(u) + 1
        /\ \A k \in 1..Len(u) : u[k] = v[k]
    BY <1>2, <1>4
  <2> HIDE DEF u, v
  <2>2. Product(v) = Product(u) * v[Len(v)]
    BY <2>1, ProductExtend
  <2> QED
    BY <2>2 DEF u, v
<1> QED
  BY <1>1, <1>3, <1>5

\* The page with one more repetition of its last base.
Raised(pg, new) == new = [pg EXCEPT ![Len(pg)].exp = @ + 1]

\* A repetition counted multiplies the product by the last base.
LEMMA RaisedPower ==
  ASSUME NEW pg \in Seq(Powers), pg # <<>>,
         NEW new, Raised(pg, new)
  PROVE  /\ new \in Seq(Powers) /\ DOMAIN new = DOMAIN pg /\ Len(new) = Len(pg)
         /\ \A k \in DOMAIN pg : new[k].base = pg[k].base /\ new[k].exp >= pg[k].exp
         /\ Product(Values(new)) = Product(Values(pg)) * pg[Len(pg)].base
<1> DEFINE n == Len(pg)
           last == pg[n]
           raised == [base |-> last.base, exp |-> last.exp + 1]
<1>1. /\ n \in Nat /\ n > 0 /\ n \in 1..n /\ DOMAIN pg = 1..n
      /\ \A k \in 1..n : pg[k].base \in Int /\ pg[k].exp \in Nat
  <2>1. n \in Nat /\ n > 0 /\ n \in 1..n /\ DOMAIN pg = 1..n
    OBVIOUS
  <2>2. \A k \in 1..n : pg[k].base \in Int /\ pg[k].exp \in Nat
    BY PowersHave
  <2> QED
    BY <2>1, <2>2
<1>2. /\ last.base \in Int /\ last.exp \in Nat
      /\ last = [base |-> last.base, exp |-> last.exp]
      /\ raised \in Powers
  <2>1. /\ last.base \in Int /\ last.exp \in Nat
        /\ last = [base |-> last.base, exp |-> last.exp]
    BY <1>1, PowersHave
  <2> HIDE DEF last
  <2> QED
    BY <2>1 DEF Powers
<1>3. new = [pg EXCEPT ![n] = raised]
  <2>1. new = [pg EXCEPT ![n] = [last EXCEPT !.exp = last.exp + 1]]
    BY DEF Raised
  <2>2. [last EXCEPT !.exp = last.exp + 1] = raised
    BY <1>2
  <2> QED
    BY <2>1, <2>2
<1>4. raised.base = last.base /\ raised.exp = last.exp + 1
  OBVIOUS
<1> HIDE DEF raised
<1>5. /\ new \in Seq(Powers) /\ DOMAIN new = 1..n /\ Len(new) = n
      /\ new[n] = raised /\ \A k \in 1..n : k # n => new[k] = pg[k]
  <2> HIDE DEF n, last
  <2>1. pg \in [1..n -> Powers] /\ n \in Nat /\ n \in 1..n /\ raised \in Powers
    BY <1>1, <1>2 DEF n
  <2>2. /\ new \in [1..n -> Powers] /\ DOMAIN new = 1..n /\ new[n] = raised
        /\ \A k \in 1..n : k # n => new[k] = pg[k]
    BY <1>3, <2>1
  <2>3. new \in Seq(Powers)
    BY <2>1, <2>2, SMTT(20)
  <2>4. Len(new) = n
    BY <2>1, <2>2, <2>3, SMTT(20)
  <2> QED
    BY <2>2, <2>3, <2>4
<1>6. \A k \in 1..n : new[k].base = pg[k].base /\ new[k].exp >= pg[k].exp
  <2>1. new[n].base = pg[n].base /\ new[n].exp = pg[n].exp + 1 /\ pg[n].exp \in Nat
    BY <1>1, <1>4, <1>5
  <2> HIDE DEF n, last
  <2> QED
    BY <1>1, <1>5, <2>1, SMTT(20)
<1>7. /\ Values(pg) \in Seq(Int) /\ Values(new) \in Seq(Int)
      /\ Len(Values(new)) = n /\ Len(Values(pg)) = n
      /\ \A k \in 1..n : Values(pg)[k] = Power(pg[k].base, pg[k].exp)
      /\ \A k \in 1..n : Values(new)[k] = Power(new[k].base, new[k].exp)
  BY <1>5, ValuesType
<1>8. Values(new)[n] = Values(pg)[n] * last.base
  <2>1. Values(pg)[n] = Power(last.base, last.exp)
    BY <1>1, <1>7
  <2>2. Values(new)[n] = Power(last.base, last.exp + 1)
    BY <1>1, <1>4, <1>5, <1>7
  <2> DEFINE b == last.base
             e == last.exp
  <2>3. b \in Int /\ e \in Nat
    BY <1>2
  <2> HIDE DEF b, e
  <2>4. Power(b, e + 1) = Power(b, e) * b
    BY <2>3, PowerNext
  <2> QED
    BY <2>1, <2>2, <2>4 DEF b, e
<1>9. \A k \in 1..n : k # n => Values(new)[k] = Values(pg)[k]
  BY <1>5, <1>7
<1>10. Product(Values(new)) = Product(Values(pg)) * last.base
  <2> DEFINE u == Values(pg)
             v == Values(new)
             x == last.base
  <2>1. /\ u \in Seq(Int) /\ v \in Seq(Int) /\ Len(v) = Len(u) /\ Len(u) > 0
        /\ \A k \in 1..Len(u) : k # Len(u) => v[k] = u[k]
        /\ x \in Int /\ v[Len(u)] = u[Len(u)] * x
    BY <1>1, <1>2, <1>7, <1>8, <1>9
  <2> HIDE DEF u, v, x
  <2>2. Product(v) = Product(u) * x
    BY <2>1, ProductLast
  <2> QED
    BY <2>2 DEF u, v, x
<1> QED
  BY <1>1, <1>5, <1>6, <1>10

\* The product of one factor more.
LEMMA PrefixProduct ==
  ASSUME NEW s \in Seq(Int), NEW n \in Nat, n < Len(s)
  PROVE  Product(SubSeq(s, 1, n + 1)) = Product(SubSeq(s, 1, n)) * s[n + 1]
<1> DEFINE u == SubSeq(s, 1, n)
           v == SubSeq(s, 1, n + 1)
<1>1. /\ u \in Seq(Int) /\ Len(u) = n /\ \A k \in 1..n : u[k] = s[k]
  OBVIOUS
<1>2. /\ v \in Seq(Int) /\ Len(v) = n + 1 /\ \A k \in 1..(n + 1) : v[k] = s[k]
  OBVIOUS
<1> HIDE DEF u, v
<1>3. /\ Len(v) = Len(u) + 1 /\ \A k \in 1..Len(u) : u[k] = v[k]
  <2>1. \A k \in 1..n : k \in 1..(n + 1)
    OBVIOUS
  <2> QED
    BY <1>1, <1>2, <2>1
<1>4. Product(v) = Product(u) * v[Len(v)]
  BY <1>1, <1>2, <1>3, ProductExtend
<1>5. v[Len(v)] = s[n + 1]
  BY <1>2
<1> QED
  BY <1>4, <1>5 DEF u, v

-----------------------------------------------------------------------------
(* The steps of the page                                                   *)

\* Nothing is shown while the number is factored.
LEMMA PageUntouched ==
  ASSUME IInv, IInv', PageInv, Factoring  PROVE PageInv'
<1>1. /\ index = 1 /\ page = <<>> /\ pc \in {"halve", "for", "while"}
      /\ index' = index /\ page' = page
      /\ pc' \in {"halve", "for", "while", "show"}
  BY DEF PageInv, LastPower, Factoring, PushZero, Halve, HalvingEnds, TryDivisor,
         Divide, NextDivisor, KeepRest
<1>2. Shown = 0 /\ Shown' = 0
  BY <1>1 DEF Shown
<1>3. PageProduct' = PageProduct
  BY <1>1 DEF PageProduct
<1>4. SubSeq(results', 1, 0) = SubSeq(results, 1, 0)
  <2>1. results \in Seq(Int) /\ results' \in Seq(Int)
    BY DEF IInv, TypeOK
  <2>2. SubSeq(results, 1, 0) = <<>> /\ SubSeq(results', 1, 0) = <<>>
    BY <2>1
  <2> QED
    BY <2>2
<1>5. PowersShown'
  <2>1. PageProduct' = Product(SubSeq(results', 1, Shown'))
    BY <1>2, <1>3, <1>4 DEF PageInv, PowersShown
  <2>2. DOMAIN page' = {}
    BY <1>1
  <2> QED
    BY <2>1, <2>2 DEF PowersShown
<1>6. LastPower'
  BY <1>1, <1>2 DEF LastPower
<1> QED
  BY <1>5, <1>6 DEF PageInv

\* A page that ends, or shows a notice, changes nothing else.
LEMMA PageEnds ==
  ASSUME IInv, PageInv, ShowNotice \/ ShowEnds  PROVE PageInv'
<1>1. /\ pc = "show" /\ pc' = "done" /\ UNCHANGED <<number, results, index, page>>
      /\ number < 2 \/ index > Len(results)
  BY DEF ShowNotice, ShowEnds
<1>2. Shown' = Shown /\ PageProduct' = PageProduct
  BY <1>1 DEF Shown, PageProduct
<1>3. PowersShown'
  BY <1>1, <1>2 DEF PageInv, PowersShown
<1>4. number' > 1 => index' > Len(results')
  <2>1. number \in Int
    BY InputsAssumption DEF IInv, TypeOK
  <2> QED
    BY <1>1, <2>1
<1>5. LastPower'
  BY <1>1, <1>2, <1>4 DEF PageInv, LastPower, Shown
<1> QED
  BY <1>3, <1>5 DEF PageInv

\* The next factor is greater than the bases shown, and is shown as a power of
\* its own.
LEMMA ShowFactorStep ==
  ASSUME IInv, IInv', Ascending, PageInv, ShowFactor  PROVE PageInv'
<1>1. /\ pc = "show" /\ results' = results /\ number' = number
      /\ results \in Seq(Int) /\ page \in Seq(Powers) /\ Len(results) \in Nat
      /\ index \in Nat /\ index >= 1 /\ index <= Len(results)
      /\ results[index] \in Int /\ Shown = index - 1 /\ number # 0
      /\ page' = Append(page, [base |-> results[index], exp |-> 1])
  <2>1. /\ results \in Seq(Int) /\ page \in Seq(Powers) /\ number \in Int
        /\ index \in 1..(Len(results) + 1)
    BY InputsAssumption DEF IInv, TypeOK
  <2>2. /\ pc = "show" /\ results' = results /\ number' = number
        /\ number > 1 /\ index <= Len(results)
        /\ page' = Append(page, [base |-> results[index], exp |-> 1])
    BY DEF ShowFactor
  <2>3. /\ Len(results) \in Nat /\ index \in Nat /\ index >= 1 /\ number # 0
        /\ results[index] \in Int
    BY <2>1, <2>2
  <2>4. Shown = index - 1
    BY <2>2 DEF Shown
  <2> QED
    BY <2>1, <2>2, <2>3, <2>4
<1>2. Shown' = index
  BY <1>1 DEF ShowFactor, Shown
<1>3. /\ pc' \in {"show", "count"}
      /\ pc' = "count" => index' = index /\ index < Len(results) /\ results[index] = results[index + 1]
      /\ pc' = "show" => ~(index < Len(results) /\ results[index] = results[index + 1])
  BY DEF ShowFactor, Repeated
<1> DEFINE n == Len(page)
           b == results[index]
<1>4. /\ n \in Nat /\ DOMAIN page = 1..n /\ DOMAIN page' = 1..(n + 1) /\ Len(page') = n + 1
      /\ page' # <<>> /\ page'[n + 1].base = b /\ page'[n + 1].exp = 1
      /\ \A k \in 1..n : page'[k] = page[k]
  BY <1>1, SMTT(20)
<1>5. PageProduct' = Product(SubSeq(results', 1, Shown'))
  <2>1. Product(Values(page')) = Product(Values(page)) * b
    BY <1>1, NewPower
  <2>2. PageProduct = Product(Values(page)) /\ PageProduct' = Product(Values(page'))
    BY DEF PageProduct, Values
  <2> DEFINE m == index - 1
  <2>3. m \in Nat /\ m < Len(results) /\ m + 1 = index
    BY <1>1
  <2>4. PageProduct = Product(SubSeq(results, 1, m))
    BY <1>1 DEF PageInv, PowersShown
  <2> HIDE DEF m
  <2>5. Product(SubSeq(results, 1, m + 1)) = Product(SubSeq(results, 1, m)) * results[m + 1]
    BY <1>1, <2>3, PrefixProduct
  <2>6. Product(SubSeq(results, 1, index)) = Product(SubSeq(results, 1, m)) * b
    BY <2>3, <2>5
  <2> QED
    BY <1>1, <1>2, <2>1, <2>2, <2>4, <2>6
<1>6. \A k \in 1..n : page[k].exp > 0 /\ \E j \in 1..(index - 1) : page[k].base = results[j]
  BY <1>1, <1>4 DEF PageInv, PowersShown
<1>7. \A k, m \in 1..n : k < m => page[k].base < page[m].base
  BY <1>1, <1>4 DEF PageInv, PowersShown
<1>8. ASSUME NEW k \in 1..n  PROVE page[k].base < b
  <2>1. PICK j \in 1..(index - 1) : page[k].base = results[j]
    BY <1>6
  <2> DEFINE l == index - 1
  <2>2. l \in Nat /\ l >= 1 /\ l < Len(results) /\ l + 1 = index /\ j \in Nat /\ j >= 1 /\ j <= l
    <3>1. index \in Nat /\ index >= 1 /\ index <= Len(results) /\ Len(results) \in Nat
      BY <1>1
    <3> QED
      BY <2>1, <3>1
  <2>3. Shown = l
    BY <1>1
  <2> HIDE DEF l
  <2>4. results[l] # results[l + 1]
    <3>1. pc = "show" /\ index = l + 1 /\ l < Len(results) /\ l >= 1
      BY <1>1, <2>2
    <3> QED
      BY <2>2, <2>3, <3>1, SMTT(20) DEF PageInv, LastPower
  <2>5. /\ j \in DOMAIN results /\ l \in DOMAIN results /\ index \in DOMAIN results
        /\ results[j] \in Int /\ results[l] \in Int /\ results[index] \in Int
    <3>1. results \in Seq(Int) /\ index <= Len(results)
      BY <1>1
    <3> QED
      BY <2>2, <3>1
  <2>6. results[j] <= results[l]
    <3>1. j = l \/ j < l
      BY <2>2
    <3> QED
      BY <1>1, <2>5, <3>1 DEF Ascending
  <2>7. results[l] <= results[index]
    BY <1>1, <2>2, <2>5 DEF Ascending
  <2>8. results[l] # results[index]
    BY <2>2, <2>4
  <2> QED
    BY <2>1, <2>5, <2>6, <2>7, <2>8
<1> HIDE DEF n, b
<1>9. \A k \in 1..(n + 1) :
        page'[k].exp > 0 /\ \E j \in 1..index : page'[k].base = results[j]
  <2>1. ASSUME NEW k \in 1..(n + 1)
        PROVE  page'[k].exp > 0 /\ \E j \in 1..index : page'[k].base = results[j]
    <3>1. CASE k = n + 1
      <4>1. index \in 1..index
        BY <1>1
      <4> QED
        BY <1>4, <3>1, <4>1 DEF b
    <3>2. CASE k # n + 1
      <4>1. k \in 1..n
        BY <1>4, <2>1, <3>2
      <4>2. PICK j \in 1..(index - 1) : page[k].base = results[j]
        BY <1>6, <4>1
      <4>3. j \in 1..index
        BY <1>1, <4>2
      <4> QED
        BY <1>4, <1>6, <4>1, <4>2, <4>3
    <3> QED
      BY <3>1, <3>2
  <2> QED
    BY <2>1
<1>10. ASSUME NEW k \in 1..(n + 1), NEW m \in 1..(n + 1), k < m
       PROVE  page'[k].base < page'[m].base
  <2>1. k \in 1..n /\ (m \in 1..n \/ m = n + 1)
    BY <1>4, <1>10
  <2>2. CASE m \in 1..n
    BY <1>4, <1>7, <1>10, <2>1, <2>2
  <2>3. CASE m = n + 1
    BY <1>4, <1>8, <2>1, <2>3
  <2> QED
    BY <2>1, <2>2, <2>3
<1>11. PowersShown'
  BY <1>1, <1>2, <1>4, <1>5, <1>9, <1>10 DEF PowersShown
<1>12. LastPower'
  BY <1>1, <1>2, <1>3, <1>4 DEF LastPower, b
<1> QED
  BY <1>11, <1>12 DEF PageInv

\* A repetition raises the last power, which is one of the same factor.
LEMMA CountRepetitionStep ==
  ASSUME IInv, IInv', PageInv, CountRepetition  PROVE PageInv'
<1>1. /\ pc = "count" /\ results' = results /\ number' = number
      /\ results \in Seq(Int) /\ page \in Seq(Powers) /\ page # <<>>
      /\ index \in Nat /\ index >= 1 /\ index < Len(results) /\ Shown = index
      /\ page' = [page EXCEPT ![Len(page)].exp = @ + 1]
  <2>1. /\ results \in Seq(Int) /\ page \in Seq(Powers)
        /\ index \in 1..(Len(results) + 1)
    BY DEF IInv, TypeOK
  <2>2. /\ pc = "count" /\ results' = results /\ number' = number
        /\ page' = [page EXCEPT ![Len(page)].exp = @ + 1]
    BY DEF CountRepetition
  <2>3. page # <<>> /\ index < Len(results)
    BY <2>2 DEF IInv, CountingAhead
  <2>4. Shown = index
    BY <2>2 DEF Shown
  <2>5. index \in Nat /\ index >= 1
    BY <2>1
  <2> QED
    BY <2>1, <2>2, <2>3, <2>4, <2>5
<1>2. Shown' = index + 1
  BY <1>1 DEF CountRepetition, Shown
<1>3. /\ pc' \in {"show", "count"}
      /\ pc' = "count" => /\ index' = index + 1 /\ index + 1 < Len(results)
                          /\ results[index + 1] = results[index + 1 + 1]
      /\ pc' = "show" => ~(index + 1 < Len(results) /\ results[index + 1] = results[index + 1 + 1])
  BY DEF CountRepetition, Repeated
<1>4. /\ page' \in Seq(Powers) /\ DOMAIN page' = DOMAIN page /\ Len(page') = Len(page)
      /\ \A k \in DOMAIN page : page'[k].base = page[k].base /\ page'[k].exp >= page[k].exp
      /\ Product(Values(page')) = Product(Values(page)) * page[Len(page)].base
  <2>1. Raised(page, page')
    BY <1>1 DEF Raised
  <2>2. page \in Seq(Powers) /\ page # <<>>
    BY <1>1
  <2> QED
    BY <2>1, <2>2, RaisedPower
<1>5. /\ page[Len(page)].base = results[index] /\ results[index] = results[index + 1]
      /\ Len(page) \in DOMAIN page /\ page' # <<>>
      /\ page'[Len(page')].base = results[index + 1]
  <2>1. page[Len(page)].base = results[index] /\ results[index] = results[index + 1]
    BY <1>1 DEF PageInv, LastPower
  <2>2. Len(page) \in DOMAIN page /\ page' # <<>>
    BY <1>1, <1>4
  <2> QED
    BY <1>4, <2>1, <2>2
<1>6. PageProduct' = Product(SubSeq(results', 1, Shown'))
  <2>1. PageProduct = Product(Values(page)) /\ PageProduct' = Product(Values(page'))
    BY DEF PageProduct, Values
  <2>2. PageProduct = Product(SubSeq(results, 1, index))
    BY <1>1 DEF PageInv, PowersShown
  <2>3. Product(SubSeq(results, 1, index + 1)) = Product(SubSeq(results, 1, index)) * results[index + 1]
    BY <1>1, PrefixProduct
  <2> QED
    BY <1>1, <1>2, <1>4, <1>5, <2>1, <2>2, <2>3
<1>7. \A k \in DOMAIN page :
        page[k].exp > 0 /\ \E j \in 1..index : page[k].base = results[j]
  BY <1>1 DEF PageInv, PowersShown
<1>8. \A k, m \in DOMAIN page : k < m => page[k].base < page[m].base
  BY DEF PageInv, PowersShown
<1>9. \A k \in DOMAIN page' :
        page'[k].exp > 0 /\ \E j \in 1..(index + 1) : page'[k].base = results[j]
  <2>1. ASSUME NEW k \in DOMAIN page
        PROVE  page'[k].exp > 0 /\ \E j \in 1..(index + 1) : page'[k].base = results[j]
    <3>1. PICK j \in 1..index : page[k].base = results[j]
      BY <1>7
    <3>2. j \in 1..(index + 1)
      BY <1>1
    <3>3. page'[k].exp > 0
      <4>1. k \in 1..Len(page) /\ k \in 1..Len(page')
        BY <1>1, <1>4
      <4>2. page[k].exp \in Nat /\ page'[k].exp \in Nat
        BY <1>1, <1>4, <4>1, PowersHave
      <4> QED
        BY <1>4, <1>7, <4>2
    <3> QED
      BY <1>4, <3>1, <3>2, <3>3
  <2> QED
    BY <1>4, <2>1
<1>10. \A k, m \in DOMAIN page' : k < m => page'[k].base < page'[m].base
  BY <1>4, <1>8
<1>11. PowersShown'
  BY <1>1, <1>2, <1>6, <1>9, <1>10 DEF PowersShown
<1>12. LastPower'
  BY <1>1, <1>2, <1>3, <1>5 DEF LastPower
<1> QED
  BY <1>11, <1>12 DEF PageInv

\* Every step keeps what is shown in line with the factors.
LEMMA PageStep ==
  IInv /\ IInv' /\ Ascending /\ PageInv /\ [Next]_vars => PageInv'
<1> SUFFICES ASSUME IInv, IInv', Ascending, PageInv, [Next]_vars  PROVE PageInv'
  OBVIOUS
<1>1. CASE UNCHANGED vars
  <2>1. UNCHANGED <<pc, number, results, index, page>>
    BY <1>1 DEF vars
  <2>2. Shown' = Shown /\ PageProduct' = PageProduct
    BY <2>1 DEF Shown, PageProduct
  <2> QED
    BY <2>1, <2>2 DEF PageInv, LastPower, PowersShown
<1> QED
  BY <1>1, PageUntouched, PageEnds, ShowFactorStep, CountRepetitionStep
     DEF Next, Showing

\* The page starts empty.
LEMMA PageInitially == Init => Ascending /\ PageInv
<1>1. ASSUME Init  PROVE Ascending /\ PageInv
  <2>1. pc = "halve" /\ index = 1 /\ page = <<>> /\ results = <<>>
    BY <1>1 DEF Init
  <2>2. DOMAIN page = {} /\ DOMAIN results = {} /\ Shown = 0
    BY <2>1 DEF Shown
  <2>3. PageProduct = Product(SubSeq(results, 1, Shown))
    <3> DEFINE u == Values(page)
               v == SubSeq(results, 1, 0)
    <3>1. page \in Seq(Powers) /\ results \in Seq(Int) /\ Len(page) = 0
      BY <2>1
    <3>2. u \in Seq(Int) /\ Len(u) = 0
      BY <3>1, ValuesType
    <3>3. v \in Seq(Int) /\ Len(v) = 0
      BY <3>1
    <3>4. PageProduct = Product(u)
      BY DEF PageProduct, Values
    <3> HIDE DEF u, v
    <3>5. Product(u) = 1 /\ Product(v) = 1
      BY <3>2, <3>3, ProductType
    <3> QED
      BY <2>2, <3>4, <3>5 DEF v
  <2>4. Ascending
    BY <2>1, <2>2 DEF Ascending
  <2>5. PowersShown
    BY <2>2, <2>3 DEF PowersShown
  <2>6. LastPower
    BY <2>1, <2>2 DEF LastPower
  <2> QED
    BY <2>4, <2>5, <2>6 DEF PageInv
<1> QED
  BY <1>1

\* When the page is complete it shows every factor, so its product is the
\* product of all of them, which is the number.
LEMMA CompletePage ==
  IInv /\ Multiplying /\ PageInv => PageIsFactorization
<1> SUFFICES ASSUME IInv, Multiplying, PageInv, pc = "done", number > 1
             PROVE  /\ PageProduct = number
                    /\ \A k \in DOMAIN page : page[k].exp > 0 /\ IsPrime(page[k].base)
                    /\ \A k, m \in DOMAIN page : k < m => page[k].base < page[m].base
  BY DEF PageIsFactorization
<1>1. /\ results \in Seq(Int) /\ index \in 1..(Len(results) + 1) /\ number \in Int
      /\ index > Len(results)
  BY InputsAssumption DEF IInv, TypeOK, PageInv, LastPower
<1>2. Shown = Len(results) /\ SubSeq(results, 1, Len(results)) = results
  <2>1. index = Len(results) + 1
    BY <1>1
  <2>2. Shown = Len(results)
    BY <1>1, <2>1 DEF Shown
  <2> QED
    BY <1>1, <2>2
<1>3. PageProduct = number
  BY <1>2 DEF PageInv, PowersShown, Multiplying, FactorsMultiply
<1>4. number # 0
  BY <1>1
<1>5. ASSUME NEW k \in DOMAIN page  PROVE page[k].exp > 0 /\ IsPrime(page[k].base)
  <2>1. PICK j \in 1..Shown : page[k].base = results[j]
    BY DEF PageInv, PowersShown
  <2>2. IsPrime(results[j])
    BY <1>1, <1>2, <1>4, <2>1 DEF IInv, FactorsPrime
  <2> QED
    BY <2>1, <2>2 DEF PageInv, PowersShown
<1> QED
  BY <1>3, <1>5 DEF PageInv, PowersShown

-----------------------------------------------------------------------------
(* The number, and its page                                                *)

\* The factors found, times what is left of the number, make the number at
\* every step of prime_fact(), and alone when it returns.
THEOREM FactorsMakeNumber == SafeSpec => []FactorsMultiply
<1>1. Multiplying => FactorsMultiply
  BY DEF Multiplying
<1> QED
  BY <1>1, MultiplyingInitially, MultiplyingStep, Invariance, PTL DEF SafeSpec

\* The page of every number above 1 shows its factorization: powers of
\* increasing primes that multiply to the number.
THEOREM ShowsFactorization == SafeSpec => []PageIsFactorization
<1>1. SafeSpec => [](IInv /\ Multiplying /\ Ascending /\ PageInv)
  BY Invariance, MultiplyingInitially, MultiplyingStep, PageInitially,
     AscendingStep, PageStep, PTL DEF SafeSpec
<1> QED
  BY <1>1, CompletePage, PTL

==============================================================================
