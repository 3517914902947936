---------------------------- MODULE CommonLemmas ----------------------------
(***************************************************************************)
(* Facts that the proofs about several components rest on: how one         *)
(* thread's move changes the number of threads at some locations, how      *)
(* appending to and removing from a queue changes the occurrences of a     *)
(* value in it and the set of its values, what divides a product, that a   *)
(* set of natural numbers has a least element, what becomes of the order   *)
(* of the messages in a path of queues when one of them moves, and what    *)
(* SumFunction() is and how it changes with one value of the function.     *)
(***************************************************************************)
EXTENDS Naturals, Integers, Sequences, FiniteSetTheorems, SequenceTheorems, TLAPS

\* The members of S that f sends into L, and the count one location adds to it.
At(S, f, L) == {s \in S : f[s] \in L}
One(loc, L) == IF loc \in L THEN 1 ELSE 0

\* What a move of one thread does to the number of threads at some locations.
LEMMA MoveCounts ==
  ASSUME NEW S, IsFiniteSet(S), NEW t \in S, NEW L, NEW f, NEW g,
         \A s \in S \ {t} : g[s] = f[s]
  PROVE  /\ Cardinality(At(S, f, L)) \in Nat
         /\ Cardinality(At(S, g, L))
              = Cardinality(At(S, f, L)) + One(g[t], L) - One(f[t], L)
<1> DEFINE before == At(S, f, L)
           after == At(S, g, L)
<1>1. IsFiniteSet(before) /\ Cardinality(before) \in Nat
  <2>1. before \in SUBSET S  BY DEF At
  <2> QED  BY <2>1, FS_Subset, FS_CardinalityType
<1>2. SUFFICES Cardinality(after) = Cardinality(before) + One(g[t], L) - One(f[t], L)
  BY <1>1
<1>3. CASE g[t] \in L <=> f[t] \in L
  <2>1. after = before  BY <1>3 DEF At
  <2> HIDE DEF before, after
  <2> QED  BY <1>1, <1>3, <2>1 DEF One
<1>4. CASE g[t] \notin L /\ f[t] \in L
  <2>1. after = before \ {t} /\ t \in before  BY <1>4 DEF At
  <2> HIDE DEF before, after
  <2>2. Cardinality(after) = Cardinality(before) - 1
    BY <1>1, <2>1, FS_RemoveElement
  <2> QED  BY <1>1, <1>4, <2>2 DEF One
<1>5. CASE g[t] \in L /\ f[t] \notin L
  <2>1. after = before \cup {t} /\ t \notin before  BY <1>5 DEF At
  <2> HIDE DEF before, after
  <2>2. Cardinality(after) = Cardinality(before) + 1
    BY <1>1, <2>1, FS_AddElement
  <2> QED  BY <1>1, <1>5, <2>2 DEF One
<1> QED  BY <1>1, <1>3, <1>4, <1>5

-----------------------------------------------------------------------------

\* Where x is in the queue s.
Positions(x, s) == {i \in 1..Len(s) : s[i] = x}

\* The number of occurrences is a number, and 0 if and only if there is none.
LEMMA CountType ==
  ASSUME NEW S, NEW s \in Seq(S), NEW x
  PROVE  /\ IsFiniteSet(Positions(x, s))
         /\ Cardinality(Positions(x, s)) \in Nat
         /\ Cardinality(Positions(x, s)) = 0 => \A i \in 1..Len(s) : s[i] # x
<1>1. IsFiniteSet(1..Len(s))
  BY FS_Interval
<1>2. Positions(x, s) \in SUBSET (1..Len(s))
  BY DEF Positions
<1>3. IsFiniteSet(Positions(x, s))
  BY <1>1, <1>2, FS_Subset
<1>4. Cardinality(Positions(x, s)) = 0 => Positions(x, s) = {}
  BY <1>3, FS_EmptySet
<1> QED
  BY <1>3, <1>4, FS_CardinalityType DEF Positions

\* Append adds the occurrence it appends.
LEMMA CountAppend ==
  ASSUME NEW S, NEW s \in Seq(S), NEW x, NEW y \in S
  PROVE  Cardinality(Positions(x, Append(s, y)))
           = Cardinality(Positions(x, s)) + (IF y = x THEN 1 ELSE 0)
<1> DEFINE before == Positions(x, s)
           n == Len(s) + 1
<1>1. IsFiniteSet(before) /\ Cardinality(before) \in Nat /\ n \notin before
  <2>1. Len(s) \in Nat
    OBVIOUS
  <2>2. n \notin before
    BY <2>1 DEF Positions
  <2> HIDE DEF before, n
  <2> QED  BY <2>2, CountType DEF before
<1>2. /\ Len(Append(s, y)) = n
      /\ \A i \in 1..Len(s) : Append(s, y)[i] = s[i]
      /\ Append(s, y)[n] = y
  OBVIOUS
<1>3. Positions(x, Append(s, y)) = IF y = x THEN before \cup {n} ELSE before
  BY <1>2 DEF Positions
<1> HIDE DEF before, n
<1>4. CASE y = x
  <2>1. Cardinality(before \cup {n}) = Cardinality(before) + 1
    BY <1>1, FS_AddElement
  <2> QED  BY <1>3, <1>4, <2>1 DEF before
<1>5. CASE y # x
  BY <1>1, <1>3, <1>5 DEF before
<1> QED
  BY <1>4, <1>5

\* Removing the head removes its occurrence.
LEMMA CountTail ==
  ASSUME NEW S, NEW s \in Seq(S), s # <<>>, NEW x
  PROVE  Cardinality(Positions(x, s))
           = Cardinality(Positions(x, Tail(s))) + (IF Head(s) = x THEN 1 ELSE 0)
<1> DEFINE t == Tail(s)
           rest == Positions(x, t)
           moved == {i \in 2..Len(s) : s[i] = x}
<1>1. t \in Seq(S) /\ Len(t) = Len(s) - 1 /\ \A i \in 1..Len(t) : t[i] = s[i + 1]
  BY HeadTailProperties
<1>2. IsFiniteSet(rest) /\ Cardinality(rest) \in Nat
  BY <1>1, CountType
<1>3. Cardinality(moved) = Cardinality(rest) /\ IsFiniteSet(moved)
  <2> DEFINE shift == [i \in rest |-> i + 1]
  <2>1. shift \in [rest -> moved]
    BY <1>1 DEF Positions
  <2>2. \A i, j \in rest : shift[i] = shift[j] => i = j
    BY DEF Positions
  <2>3. \A k \in moved : \E i \in rest : shift[i] = k
    <3>1. ASSUME NEW k \in moved  PROVE k - 1 \in rest /\ shift[k - 1] = k
      <4>1. k - 1 \in 1..Len(t) /\ (k - 1) + 1 = k
        BY <1>1
      <4>2. t[k - 1] = s[k]
        BY <1>1, <4>1
      <4>3. k - 1 \in rest
        BY <4>1, <4>2 DEF Positions
      <4> QED  BY <4>1, <4>3
    <3> QED  BY <3>1
  <2>4. shift \in Bijection(rest, moved)
    BY <2>1, <2>2, <2>3 DEF Bijection, Injection, Surjection, IsInjective
  <2> QED
    BY <1>2, <2>4, FS_Bijection DEF ExistsBijection
<1>4. Positions(x, s) = IF Head(s) = x THEN moved \cup {1} ELSE moved
  <2>1. Len(s) \in Nat \ {0} /\ Head(s) = s[1]
    BY EmptySeq
  <2>2. 1..Len(s) = {1} \cup 2..Len(s)
    BY <2>1
  <2> QED  BY <2>1, <2>2 DEF Positions
<1>5. 1 \notin moved
  OBVIOUS
<1> HIDE DEF t, rest, moved
<1>6. CASE Head(s) = x
  <2>1. Cardinality(moved \cup {1}) = Cardinality(moved) + 1
    BY <1>3, <1>5, FS_AddElement
  <2> QED  BY <1>3, <1>4, <1>6, <2>1 DEF rest, t
<1>7. CASE Head(s) # x
  BY <1>2, <1>3, <1>4, <1>7 DEF rest, t
<1> QED
  BY <1>6, <1>7

-----------------------------------------------------------------------------

\* What Append does to a queue and to the set of its elements.
LEMMA RangeAppend ==
  ASSUME NEW S, NEW s \in Seq(S), NEW x \in S
  PROVE  /\ Append(s, x) \in Seq(S)
         /\ Len(Append(s, x)) = Len(s) + 1
         /\ \A i \in 1..Len(s) : Append(s, x)[i] = s[i]
         /\ Append(s, x)[Len(s) + 1] = x
         /\ Range(Append(s, x)) = Range(s) \cup {x}
<1>1. /\ Append(s, x) \in Seq(S) /\ Len(s) \in Nat
      /\ Len(Append(s, x)) = Len(s) + 1
      /\ \A i \in 1..Len(s) : Append(s, x)[i] = s[i]
      /\ Append(s, x)[Len(s) + 1] = x
  OBVIOUS
<1>2. /\ Range(s) = {s[i] : i \in 1..Len(s)}
      /\ Range(Append(s, x)) = {Append(s, x)[i] : i \in 1..Len(Append(s, x))}
  BY <1>1, RangeEquality
<1>3. 1..(Len(s) + 1) = 1..Len(s) \cup {Len(s) + 1}
  BY <1>1
<1> QED
  BY <1>1, <1>2, <1>3

\* What Tail does to a queue and to the set of its elements.
LEMMA RangeTail ==
  ASSUME NEW S, NEW s \in Seq(S), s # <<>>
  PROVE  /\ Head(s) \in S /\ Tail(s) \in Seq(S)
         /\ Len(s) \in Nat \ {0} /\ Len(Tail(s)) = Len(s) - 1
         /\ Head(s) = s[1]
         /\ \A i \in 1..Len(Tail(s)) : Tail(s)[i] = s[i + 1]
         /\ Range(s) = {Head(s)} \cup Range(Tail(s))
<1>1. /\ Head(s) \in S /\ Tail(s) \in Seq(S)
      /\ Len(s) \in Nat \ {0} /\ Len(Tail(s)) = Len(s) - 1
      /\ Head(s) = s[1]
      /\ \A i \in 1..Len(Tail(s)) : Tail(s)[i] = s[i + 1]
  BY HeadTailProperties, EmptySeq
<1>2. /\ Range(s) = {s[i] : i \in 1..Len(s)}
      /\ Range(Tail(s)) = {Tail(s)[i] : i \in 1..Len(Tail(s))}
  <2>1. Range(s) = {s[i] : i \in 1..Len(s)}
    BY RangeEquality
  <2>2. Tail(s) \in Seq(S)
    BY <1>1
  <2>3. Range(Tail(s)) = {Tail(s)[i] : i \in 1..Len(Tail(s))}
    BY <2>2, RangeEquality
  <2> QED
    BY <2>1, <2>3
<1>3. \A x \in Range(Tail(s)) : x \in Range(s)
  <2>1. ASSUME NEW i \in 1..Len(Tail(s))  PROVE i + 1 \in 1..Len(s)
    BY <1>1
  <2>2. ASSUME NEW i \in 1..Len(Tail(s))  PROVE Tail(s)[i] \in Range(s)
    BY <1>1, <1>2, <2>1
  <2> QED
    BY <1>2, <2>2
<1>4. \A i \in 1..Len(s) : i = 1 \/ (i - 1 \in 1..Len(Tail(s)) /\ (i - 1) + 1 = i)
  BY <1>1
<1>5. \A x \in Range(s) : x = Head(s) \/ x \in Range(Tail(s))
  <2>1. ASSUME NEW i \in 1..Len(s)  PROVE s[i] = Head(s) \/ s[i] \in Range(Tail(s))
    <3>1. CASE i = 1
      BY <1>1, <3>1
    <3>2. CASE i # 1
      <4>1. i - 1 \in 1..Len(Tail(s)) /\ (i - 1) + 1 = i
        BY <1>4, <3>2
      <4>2. Tail(s)[i - 1] = s[i]
        BY <1>1, <4>1
      <4> QED
        BY <1>2, <4>1, <4>2
    <3> QED
      BY <3>1, <3>2
  <2> QED
    BY <1>2, <2>1
<1>6. Head(s) \in Range(s)
  BY <1>1, <1>2
<1> QED
  BY <1>1, <1>3, <1>5, <1>6

\* The elements of a queue are those of its type.
LEMMA RangeType ==
  ASSUME NEW S, NEW s \in Seq(S)
  PROVE  /\ Range(s) \subseteq S
         /\ Len(s) \in Nat
         /\ \A i \in 1..Len(s) : s[i] \in Range(s)
         /\ \A x \in Range(s) : \E i \in 1..Len(s) : s[i] = x
         /\ Range(s) = {} <=> s = <<>>
<1>1. Range(s) = {s[i] : i \in 1..Len(s)} /\ Range(s) \subseteq S
  BY RangeEquality, RangeOfSeq
<1>2. Len(s) \in Nat /\ (s # <<>> => Len(s) \in Nat \ {0})
  BY EmptySeq
<1>3. s = <<>> => Range(s) = {}
  BY <1>1
<1>4. s # <<>> => s[1] \in Range(s)
  BY <1>1, <1>2
<1> QED
  BY <1>1, <1>2, <1>3, <1>4

-----------------------------------------------------------------------------

(* Divisibility                                                            *)

\* A multiple of d has remainder 0, and only a multiple has.
LEMMA Divisible ==
  ASSUME NEW n \in Int, NEW d \in Int, d > 0
  PROVE  n % d = 0 <=> \E k \in Int : n = d * k
<1> DEFINE q == n \div d
           r == n % d
<1>1. q \in Int /\ r \in Int /\ n = d * q + r /\ 0 <= r /\ r < d
  OBVIOUS
<1>2. ASSUME r = 0  PROVE \E k \in Int : n = d * k
  BY <1>1, <1>2
<1>3. ASSUME NEW k \in Int, n = d * k  PROVE r = 0
  <2>1. k = q \/ k >= q + 1 \/ k <= q - 1
    BY <1>1
  <2>2. CASE k = q
    BY <1>1, <1>3, <2>2
  <2>3. CASE k >= q + 1
    <3>1. d * k >= d * (q + 1)
      BY <1>1, <2>3
    <3>2. d * (q + 1) = d * q + d
      BY <1>1
    <3> QED
      BY <1>1, <1>3, <3>1, <3>2
  <2>4. CASE k <= q - 1
    <3>1. d * k <= d * (q - 1)
      BY <1>1, <2>4
    <3>2. d * (q - 1) = d * q - d
      BY <1>1
    <3> QED
      BY <1>1, <1>3, <3>1, <3>2
  <2> QED
    BY <2>1, <2>2, <2>3, <2>4
<1> QED
  BY <1>2, <1>3

\* What divides a factor of n divides n.
LEMMA DividesProduct ==
  ASSUME NEW n \in Int, NEW a \in Int, NEW b \in Int, n = a * b,
         NEW d \in Int, d > 0, a % d = 0
  PROVE  n % d = 0
<1>1. PICK k \in Int : a = d * k
  BY Divisible
<1>2. n = d * (k * b)
  BY <1>1
<1>3. k * b \in Int
  BY <1>1
<1> QED
  BY <1>2, <1>3, Divisible

-----------------------------------------------------------------------------
(* The least number with a property.                                       *)

\* A set of natural numbers that is not empty has a least element: what is
\* true of every number when the least counterexample is impossible.
LEMMA LeastNatural ==
  ASSUME NEW T \in SUBSET Nat, T # {}
  PROVE  \E n \in T : \A m \in T : n <= m
<1> DEFINE R == {p \in Nat \X Nat : p[1] < p[2]}
<1>1. IsWellFoundedOn(R, Nat)
  BY NatLessThanWellFounded, Zenon DEF OpToRel
<1>2. PICK n \in T : \A m \in T : <<m, n>> \notin R
  BY <1>1, WFMin
<1>3. \A m \in T : ~(m < n)
  BY <1>2
<1> QED
  BY <1>3

-----------------------------------------------------------------------------
(* The order of what passes through queues                                 *)

\* What precedes what: of the elements of K in the queue s, an earlier one is
\* related by R to a later one; those of the set S are related to those of T.
Chain(s, K, R) ==
  \A i, j \in 1..Len(s) : i < j /\ s[i] \in K /\ s[j] \in K => <<s[i], s[j]>> \in R

Related(S, T, K, R) ==
  \A x \in S, y \in T : x \in K /\ y \in K => <<x, y>> \in R

\* The empty queue is a chain.
LEMMA ChainEmpty == ASSUME NEW K, NEW R  PROVE Chain(<<>>, K, R)
  BY DEF Chain

\* An element that follows all the others extends the chain.
LEMMA ChainAppend ==
  ASSUME NEW S, NEW s \in Seq(S), NEW x \in S, NEW K, NEW R,
         Chain(s, K, R), Related(Range(s), {x}, K, R)
  PROVE  Chain(Append(s, x), K, R)
<1> DEFINE t == Append(s, x)
           n == Len(s)
<1>1. /\ n \in Nat /\ Len(t) = n + 1 /\ t[n + 1] = x
      /\ \A i \in 1..n : t[i] = s[i] /\ s[i] \in Range(s)
  BY RangeAppend, RangeType
<1>2. /\ \A i, j \in 1..n : i < j /\ s[i] \in K /\ s[j] \in K => <<s[i], s[j]>> \in R
      /\ \A i \in 1..n : s[i] \in K /\ x \in K => <<s[i], x>> \in R
  BY <1>1 DEF Chain, Related
<1> HIDE DEF t, n
<1>3. ASSUME NEW i \in 1..(n + 1), NEW j \in 1..(n + 1), i < j, t[i] \in K, t[j] \in K
      PROVE  <<t[i], t[j]>> \in R
  <2>1. i \in 1..n /\ (j \in 1..n \/ j = n + 1)
    BY <1>1, <1>3
  <2>2. CASE j \in 1..n
    BY <1>1, <1>2, <1>3, <2>1, <2>2
  <2>3. CASE j = n + 1
    BY <1>1, <1>2, <1>3, <2>1, <2>3
  <2> QED
    BY <2>1, <2>2, <2>3
<1>4. Chain(t, K, R)
  BY <1>1, <1>3 DEF Chain
<1> QED
  BY <1>4 DEF t

\* Without its head a chain is a chain, and its head precedes all that follows.
LEMMA ChainTail ==
  ASSUME NEW S, NEW s \in Seq(S), s # <<>>, NEW K, NEW R, Chain(s, K, R)
  PROVE  /\ Chain(Tail(s), K, R)
         /\ Related({Head(s)}, Range(Tail(s)), K, R)
<1> DEFINE t == Tail(s)
           n == Len(t)
<1>1. /\ n \in Nat /\ Len(s) = n + 1 /\ Head(s) = s[1]
      /\ \A i \in 1..n : t[i] = s[i + 1]
      /\ \A x \in Range(t) : \E i \in 1..n : t[i] = x
  <2>1. /\ t \in Seq(S) /\ Len(s) \in Nat \ {0} /\ n = Len(s) - 1 /\ Head(s) = s[1]
        /\ \A i \in 1..n : t[i] = s[i + 1]
    BY RangeTail
  <2>2. \A x \in Range(t) : \E i \in 1..n : t[i] = x
    BY <2>1, RangeType
  <2> QED
    BY <2>1, <2>2
<1>2. \A i, j \in 1..(n + 1) :
        i < j /\ s[i] \in K /\ s[j] \in K => <<s[i], s[j]>> \in R
  BY <1>1 DEF Chain
<1> HIDE DEF t, n
<1>3. ASSUME NEW i \in 1..n, NEW j \in 1..n, i < j, t[i] \in K, t[j] \in K
      PROVE  <<t[i], t[j]>> \in R
  <2> DEFINE a == i + 1
             b == j + 1
  <2>1. a \in 1..(n + 1) /\ b \in 1..(n + 1) /\ a < b
    BY <1>1, <1>3
  <2>2. t[i] = s[a] /\ t[j] = s[b]
    BY <1>1
  <2> HIDE DEF a, b
  <2> QED
    BY <1>2, <1>3, <2>1, <2>2
<1>4. ASSUME NEW y \in Range(t), s[1] \in K, y \in K  PROVE <<s[1], y>> \in R
  <2>1. PICK i \in 1..n : t[i] = y
    BY <1>1
  <2> DEFINE a == i + 1
  <2>2. 1 \in 1..(n + 1) /\ a \in 1..(n + 1) /\ 1 < a
    BY <1>1
  <2>3. y = s[a]
    BY <1>1, <2>1
  <2> HIDE DEF a
  <2> QED
    BY <1>2, <1>4, <2>2, <2>3
<1>5. Chain(t, K, R)
  BY <1>3 DEF Chain, n
<1>6. Related({Head(s)}, Range(t), K, R)
  BY <1>1, <1>4 DEF Related
<1> QED
  BY <1>5, <1>6 DEF t

\* Two chains, the first before the second, make a chain.
LEMMA ChainConcat ==
  ASSUME NEW S, NEW s \in Seq(S), NEW t \in Seq(S), NEW K, NEW R,
         Chain(s, K, R), Chain(t, K, R), Related(Range(s), Range(t), K, R)
  PROVE  Chain(s \o t, K, R)
<1> DEFINE u == s \o t
           n == Len(s)
           m == Len(t)
<1>1. /\ n \in Nat /\ m \in Nat
      /\ \A i \in 1..n : s[i] \in Range(s)
      /\ \A i \in 1..m : t[i] \in Range(t)
  BY RangeType
<1>2. /\ Len(u) = n + m
      /\ \A i \in 1..n : u[i] = s[i]
      /\ \A i \in 1..(n + m) : i > n => u[i] = t[i - n]
  BY ConcatProperties
<1> HIDE DEF u, n, m
<1>3. ASSUME NEW i \in 1..(n + m), NEW j \in 1..(n + m), i < j, u[i] \in K, u[j] \in K
      PROVE  <<u[i], u[j]>> \in R
  <2> DEFINE a == i - n
             b == j - n
  <2>1. CASE i <= n /\ j <= n
    <3>1. i \in 1..n /\ j \in 1..n
      BY <1>1, <2>1
    <3> QED
      BY <1>2, <1>3, <3>1 DEF Chain, n
  <2>2. CASE i <= n /\ j > n
    <3>1. i \in 1..n /\ b \in 1..m
      BY <1>1, <2>2
    <3>2. u[i] = s[i] /\ u[j] = t[b] /\ s[i] \in Range(s)
      BY <1>1, <1>2, <2>2, <3>1
    <3> HIDE DEF b
    <3>3. t[b] \in Range(t)
      BY <1>1, <3>1
    <3> QED
      BY <1>3, <3>2, <3>3 DEF Related
  <2>3. CASE i > n /\ j > n
    <3>1. a \in 1..m /\ b \in 1..m /\ a < b
      BY <1>1, <1>3, <2>3
    <3>2. u[i] = t[a] /\ u[j] = t[b]
      BY <1>2, <2>3
    <3> HIDE DEF a, b
    <3> QED
      BY <1>3, <3>1, <3>2 DEF Chain, m
  <2>4. ~(i > n /\ j <= n)
    BY <1>1, <1>3
  <2> QED
    BY <1>1, <2>1, <2>2, <2>3, <2>4
<1>4. Chain(u, K, R)
  BY <1>2, <1>3 DEF Chain
<1> QED
  BY <1>4 DEF u

\* A way in three queues: r holds what came first, then q, then p.
InPath(r, q, p, K, R) ==
  /\ Chain(r, K, R) /\ Chain(q, K, R) /\ Chain(p, K, R)
  /\ Related(Range(r), Range(q), K, R)
  /\ Related(Range(r), Range(p), K, R)
  /\ Related(Range(q), Range(p), K, R)

\* What follows everything enters at the end.
LEMMA PathEnter ==
  ASSUME NEW S, NEW r \in Seq(S), NEW q \in Seq(S), NEW p \in Seq(S), NEW x \in S,
         NEW K, NEW R, InPath(r, q, p, K, R),
         Related(Range(r), {x}, K, R), Related(Range(q), {x}, K, R),
         Related(Range(p), {x}, K, R)
  PROVE  InPath(r, q, Append(p, x), K, R)
<1>1. Chain(Append(p, x), K, R)
  BY ChainAppend DEF InPath
<1>2. Range(Append(p, x)) = Range(p) \cup {x}
  BY RangeAppend
<1>3. Related(Range(r), Range(Append(p, x)), K, R)
  BY <1>2 DEF InPath, Related
<1>4. Related(Range(q), Range(Append(p, x)), K, R)
  BY <1>2 DEF InPath, Related
<1> QED
  BY <1>1, <1>3, <1>4 DEF InPath

\* What is between the second queue and the last one enters the second.
LEMMA PathPass ==
  ASSUME NEW S, NEW r \in Seq(S), NEW q \in Seq(S), NEW p \in Seq(S), NEW x \in S,
         NEW K, NEW R, InPath(r, q, p, K, R),
         Related(Range(r), {x}, K, R), Related(Range(q), {x}, K, R),
         Related({x}, Range(p), K, R)
  PROVE  InPath(r, Append(q, x), p, K, R)
<1>1. Chain(Append(q, x), K, R)
  BY ChainAppend DEF InPath
<1>2. Range(Append(q, x)) = Range(q) \cup {x}
  BY RangeAppend
<1>3. Related(Range(r), Range(Append(q, x)), K, R)
  BY <1>2 DEF InPath, Related
<1>4. Related(Range(Append(q, x)), Range(p), K, R)
  BY <1>2 DEF InPath, Related
<1> QED
  BY <1>1, <1>3, <1>4 DEF InPath

\* The head of the last queue leaves it; it is between the second and the last.
LEMMA PathLeave ==
  ASSUME NEW S, NEW r \in Seq(S), NEW q \in Seq(S), NEW p \in Seq(S), p # <<>>,
         NEW K, NEW R, InPath(r, q, p, K, R)
  PROVE  /\ InPath(r, q, Tail(p), K, R)
         /\ Related(Range(r), {Head(p)}, K, R)
         /\ Related(Range(q), {Head(p)}, K, R)
         /\ Related({Head(p)}, Range(Tail(p)), K, R)
<1>1. /\ Chain(Tail(p), K, R)
      /\ Related({Head(p)}, Range(Tail(p)), K, R)
  BY ChainTail DEF InPath
<1>2. Range(p) = {Head(p)} \cup Range(Tail(p))
  BY RangeTail
<1>3. /\ Related(Range(r), Range(Tail(p)), K, R)
      /\ Related(Range(r), {Head(p)}, K, R)
  BY <1>2 DEF InPath, Related
<1>4. /\ Related(Range(q), Range(Tail(p)), K, R)
      /\ Related(Range(q), {Head(p)}, K, R)
  BY <1>2 DEF InPath, Related
<1> QED
  BY <1>1, <1>3, <1>4 DEF InPath

\* The head of the last queue moves to the second one.
LEMMA PathMove ==
  ASSUME NEW S, NEW r \in Seq(S), NEW q \in Seq(S), NEW p \in Seq(S), p # <<>>,
         NEW K, NEW R, InPath(r, q, p, K, R)
  PROVE  InPath(r, Append(q, Head(p)), Tail(p), K, R)
<1>1. Head(p) \in S /\ Tail(p) \in Seq(S)
  BY RangeTail
<1>2. /\ InPath(r, q, Tail(p), K, R)
      /\ Related(Range(r), {Head(p)}, K, R)
      /\ Related(Range(q), {Head(p)}, K, R)
      /\ Related({Head(p)}, Range(Tail(p)), K, R)
  BY PathLeave
<1> QED
  BY <1>1, <1>2, PathPass

\* The head of the second queue leaves it, or moves to the first one.
LEMMA PathTake ==
  ASSUME NEW S, NEW r \in Seq(S), NEW q \in Seq(S), NEW p \in Seq(S), q # <<>>,
         NEW K, NEW R, InPath(r, q, p, K, R)
  PROVE  /\ InPath(r, Tail(q), p, K, R)
         /\ InPath(Append(r, Head(q)), Tail(q), p, K, R)
<1>1. Head(q) \in S /\ Tail(q) \in Seq(S) /\ Range(q) = {Head(q)} \cup Range(Tail(q))
  BY RangeTail
<1>2. /\ Chain(Tail(q), K, R)
      /\ Related({Head(q)}, Range(Tail(q)), K, R)
  BY ChainTail DEF InPath
<1>3. /\ Related(Range(r), Range(Tail(q)), K, R)
      /\ Related(Range(r), {Head(q)}, K, R)
  BY <1>1 DEF InPath, Related
<1>4. /\ Related(Range(Tail(q)), Range(p), K, R)
      /\ Related({Head(q)}, Range(p), K, R)
  BY <1>1 DEF InPath, Related
<1>5. InPath(r, Tail(q), p, K, R)
  BY <1>2, <1>3, <1>4 DEF InPath
<1>6. Chain(Append(r, Head(q)), K, R)
  BY <1>1, <1>3, ChainAppend DEF InPath
<1>7. Range(Append(r, Head(q))) = Range(r) \cup {Head(q)}
  BY <1>1, RangeAppend
<1>8. Related(Range(Append(r, Head(q))), Range(Tail(q)), K, R)
  BY <1>2, <1>3, <1>7 DEF Related
<1>9. Related(Range(Append(r, Head(q))), Range(p), K, R)
  BY <1>4, <1>7 DEF InPath, Related
<1> QED
  BY <1>5, <1>6, <1>8, <1>9 DEF InPath

\* The three queues one after the other are a chain.
LEMMA PathChain ==
  ASSUME NEW S, NEW r \in Seq(S), NEW q \in Seq(S), NEW p \in Seq(S),
         NEW K, NEW R, InPath(r, q, p, K, R)
  PROVE  Chain(r \o q \o p, K, R)
<1>1. Chain(r \o q, K, R)
  BY ChainConcat DEF InPath
<1>2. r \o q \in Seq(S)
  BY ConcatProperties
<1>3. Range(r \o q) = Range(r) \cup Range(q)
  BY RangeConcatenation
<1>4. Related(Range(r \o q), Range(p), K, R)
  BY <1>3 DEF InPath, Related
<1> QED
  BY <1>1, <1>2, <1>4, ChainConcat DEF InPath

-----------------------------------------------------------------------------
(* Sums over a finite set                                                  *)

\* The element a fold takes first.
Pick(T) == CHOOSE x \in T : TRUE

\* h[T] is the sum of f over T, for the subsets T of S of up to n elements.
Sums(h, f, S, n) ==
  /\ h = [T \in SUBSET S |-> h[T]]
  /\ \A T \in SUBSET S : Cardinality(T) <= n =>
       h[T] = IF T = {} THEN 0 ELSE f[Pick(T)] + h[T \ {Pick(T)}]

\* Without the element picked a set has one element less.
LEMMA PickRemoves ==
  ASSUME NEW S, IsFiniteSet(S), NEW T \in SUBSET S, T # {}
  PROVE  /\ Pick(T) \in T /\ Pick(T) \in S /\ T \ {Pick(T)} \in SUBSET S
         /\ Cardinality(T) \in Nat /\ Cardinality(T) > 0
         /\ Cardinality(T \ {Pick(T)}) = Cardinality(T) - 1
<1>1. Pick(T) \in T
  BY DEF Pick
<1>2. IsFiniteSet(T)
  BY FS_Subset
<1>3. Cardinality(T) \in Nat /\ Cardinality(T) # 0
  BY <1>2, FS_CardinalityType, FS_EmptySet
<1>4. Cardinality(T \ {Pick(T)}) = Cardinality(T) - 1
  BY <1>1, <1>2, FS_RemoveElement
<1> QED
  BY <1>1, <1>3, <1>4

\* Such sums exist: the least number of elements without them is impossible.
LEMMA SumsExist ==
  ASSUME NEW S, IsFiniteSet(S), NEW f, NEW n \in Nat
  PROVE  \E h : Sums(h, f, S, n)
<1> DEFINE Bad == {m \in Nat : ~\E h : Sums(h, f, S, m)}
<1>1. ASSUME Bad # {}  PROVE FALSE
  <2>1. PICK m \in Bad : \A j \in Bad : m <= j
    BY <1>1, LeastNatural
  <2>2. CASE m = 0
    <3> DEFINE h == [T \in SUBSET S |-> 0]
    <3>1. ASSUME NEW T \in SUBSET S, Cardinality(T) <= 0  PROVE T = {}
      <4>1. IsFiniteSet(T)
        BY FS_Subset
      <4>2. Cardinality(T) \in Nat /\ (Cardinality(T) = 0 <=> T = {})
        BY <4>1, FS_CardinalityType, FS_EmptySet
      <4> QED
        BY <3>1, <4>2
    <3>2. Sums(h, f, S, 0)
      BY <3>1 DEF Sums
    <3> QED
      BY <2>1, <2>2, <3>2
  <2>3. CASE m # 0
    <3> DEFINE j == m - 1
    <3>1. j \in Nat /\ j < m /\ j + 1 = m
      BY <2>1, <2>3
    <3> HIDE DEF j
    <3>2. PICK h : Sums(h, f, S, j)
      BY <2>1, <3>1
    <3> DEFINE g == [T \in SUBSET S |->
                       IF T = {} THEN 0
                       ELSE IF Cardinality(T) = m
                       THEN f[Pick(T)] + h[T \ {Pick(T)}] ELSE h[T]]
    <3>3. g = [T \in SUBSET S |-> g[T]]
      OBVIOUS
    <3>4. ASSUME NEW T \in SUBSET S, Cardinality(T) <= m
          PROVE  g[T] = IF T = {} THEN 0 ELSE f[Pick(T)] + g[T \ {Pick(T)}]
      <4>1. CASE T = {}
        BY <4>1
      <4>2. CASE T # {}
        <5> DEFINE U == T \ {Pick(T)}
        <5>1. /\ U \in SUBSET S /\ Cardinality(T) \in Nat
              /\ Cardinality(U) = Cardinality(T) - 1 /\ Cardinality(U) <= j
          BY <3>1, <3>4, <4>2, PickRemoves
        <5> HIDE DEF U
        <5>2. Cardinality(U) # m
          BY <3>1, <3>4, <5>1
        <5>3. U = {} => h[U] = 0
          BY <3>2, <5>1 DEF Sums
        <5>4. g[U] = h[U]
          BY <5>1, <5>2, <5>3
        <5>5. Cardinality(T) # m => h[T] = f[Pick(T)] + h[U]
          <6>1. Cardinality(T) # m => Cardinality(T) <= j
            BY <3>1, <3>4, <5>1
          <6> QED
            BY <3>2, <4>2, <6>1 DEF Sums, U
        <5>6. g[T] = f[Pick(T)] + h[U]
          BY <4>2, <5>5 DEF U
        <5> QED
          BY <4>2, <5>4, <5>6 DEF U
      <4> QED
        BY <4>1, <4>2
    <3> HIDE DEF g
    <3>5. Sums(g, f, S, m)
      BY <3>3, <3>4 DEF Sums
    <3> QED
      BY <2>1, <3>5
  <2> QED
    BY <2>2, <2>3
<1> QED
  BY <1>1

\* So what SumFunction folds with are sums.
LEMMA SumIs ==
  ASSUME NEW f, IsFiniteSet(DOMAIN f)
  PROVE  \E h : /\ Sums(h, f, DOMAIN f, Cardinality(DOMAIN f))
                /\ SumFunction(f) = h[DOMAIN f]
<1> DEFINE S == DOMAIN f
           Is(h) == h = [T \in SUBSET S |->
             IF T = {} THEN 0
             ELSE f[CHOOSE x \in T : TRUE] + h[T \ {CHOOSE x \in T : TRUE}]]
           h == CHOOSE iter : Is(iter)
<1>1. SumFunction(f) = h[S]
  BY DEF SumFunction, SumFunctionOnSet, FoldFunctionOnSet, MapThenFoldSet
<1>2. PICK g : Sums(g, f, S, Cardinality(S))
  BY SumsExist, FS_CardinalityType
<1>3. \A T \in SUBSET S : Cardinality(T) <= Cardinality(S)
  BY FS_Subset
<1>4. Is(g)
  <2>1. /\ g = [T \in SUBSET S |-> g[T]]
        /\ \A T \in SUBSET S :
             g[T] = IF T = {} THEN 0 ELSE f[Pick(T)] + g[T \ {Pick(T)}]
    BY <1>2, <1>3 DEF Sums
  <2> QED
    BY <2>1, Zenon DEF Pick
<1>5. Is(h)
  BY <1>4, Zenon
<1>6. Sums(h, f, S, Cardinality(S))
  <2> HIDE DEF h
  <2>1. \A T \in SUBSET S :
          h[T] = IF T = {} THEN 0 ELSE f[Pick(T)] + h[T \ {Pick(T)}]
    BY <1>5, Zenon DEF Pick
  <2>2. h = [T \in SUBSET S |-> h[T]]
    BY <1>5, Zenon
  <2> QED
    BY <2>1, <2>2 DEF Sums
<1> QED
  BY <1>1, <1>6

\* A sum of natural numbers is one; it changes by as much as one of them does.
LEMMA SumsChange ==
  ASSUME NEW S, IsFiniteSet(S), NEW x \in S,
         NEW f, NEW g, \A y \in S : f[y] \in Nat /\ g[y] \in Nat,
         \A y \in S \ {x} : g[y] = f[y],
         NEW h, Sums(h, f, S, Cardinality(S)),
         NEW i, Sums(i, g, S, Cardinality(S))
  PROVE  \A T \in SUBSET S :
           /\ h[T] \in Nat
           /\ i[T] = IF x \in T THEN h[T] + (g[x] - f[x]) ELSE h[T]
<1> DEFINE Fine(T) == /\ h[T] \in Nat
                      /\ i[T] = IF x \in T THEN h[T] + (g[x] - f[x]) ELSE h[T]
           Bad == {n \in Nat : \E T \in SUBSET S : Cardinality(T) = n /\ ~Fine(T)}
<1>1. \A T \in SUBSET S : Cardinality(T) \in Nat /\ Cardinality(T) <= Cardinality(S)
  BY FS_Subset, FS_CardinalityType
<1>2. ASSUME Bad # {}  PROVE FALSE
  <2>1. PICK n \in Bad : \A m \in Bad : n <= m
    BY <1>2, LeastNatural
  <2>2. PICK T \in SUBSET S : Cardinality(T) = n /\ ~Fine(T)
    BY <2>1
  <2>3. T # {}
    <3>1. h[{}] = 0 /\ i[{}] = 0
      BY <1>1 DEF Sums
    <3>2. Fine({})
      BY <3>1
    <3> QED
      BY <2>2, <3>2
  <2> HIDE DEF Fine, Bad
  <2> DEFINE p == Pick(T)
             U == T \ {p}
  <2>4. /\ p \in T /\ p \in S /\ U \in SUBSET S
        /\ Cardinality(U) \in Nat /\ Cardinality(U) < n
    BY <1>1, <2>2, <2>3, PickRemoves
  <2>5. Fine(U)
    <3> HIDE DEF p, U
    <3> QED
      BY <2>1, <2>4 DEF Bad
  <2>6. h[T] = f[p] + h[U] /\ i[T] = g[p] + i[U]
    BY <1>1, <2>3 DEF Sums
  <2>7. f[p] \in Nat /\ g[p] \in Nat /\ f[x] \in Nat /\ g[x] \in Nat
    BY <2>4
  <2>8. p # x => g[p] = f[p] /\ (x \in U <=> x \in T)
    BY <2>4
  <2>9. p = x => x \notin U /\ x \in T
    BY <2>4
  <2> HIDE DEF p, U
  <2> QED
    BY <2>2, <2>5, <2>6, <2>7, <2>8, <2>9 DEF Fine
<1> QED
  BY <1>1, <1>2

\* The sum of a function is a natural number, zero if all its values are.
LEMMA SumType ==
  ASSUME NEW S, IsFiniteSet(S), NEW f \in [S -> Nat]
  PROVE  /\ SumFunction(f) \in Nat
         /\ (\A y \in S : f[y] = 0) => SumFunction(f) = 0
<1>1. DOMAIN f = S
  OBVIOUS
<1>2. PICK h : Sums(h, f, S, Cardinality(S)) /\ SumFunction(f) = h[S]
  BY <1>1, SumIs
<1>3. CASE S = {}
  <2>1. Cardinality(S) = 0
    BY <1>3, FS_EmptySet
  <2>2. S \in SUBSET S /\ Cardinality(S) <= Cardinality(S)
    BY <2>1
  <2>3. h[S] = 0
    BY <1>2, <1>3, <2>2 DEF Sums
  <2> QED
    BY <1>2, <2>3
<1>4. CASE S # {}
  <2>1. \A x \in S : h[S] \in Nat
    BY <1>2, SumsChange
  <2>2. ASSUME \A y \in S : f[y] = 0  PROVE h[S] = 0
    <3> DEFINE Bad == {n \in Nat : \E T \in SUBSET S : Cardinality(T) = n /\ h[T] # 0}
    <3>1. \A T \in SUBSET S : Cardinality(T) \in Nat /\ Cardinality(T) <= Cardinality(S)
      BY FS_Subset, FS_CardinalityType
    <3>2. ASSUME Bad # {}  PROVE FALSE
      <4>1. PICK n \in Bad : \A m \in Bad : n <= m
        BY <3>2, LeastNatural
      <4>2. PICK T \in SUBSET S : Cardinality(T) = n /\ h[T] # 0
        BY <4>1
      <4>3. T # {}
        BY <1>2, <3>1, <4>2 DEF Sums
      <4> DEFINE p == Pick(T)
                 U == T \ {p}
      <4>4. /\ p \in S /\ U \in SUBSET S
            /\ Cardinality(U) \in Nat /\ Cardinality(U) < n
        BY <3>1, <4>2, <4>3, PickRemoves
      <4>5. h[T] = f[p] + h[U]
        BY <1>2, <3>1, <4>3 DEF Sums
      <4> HIDE DEF p, U
      <4>6. h[U] = 0
        BY <4>1, <4>4
      <4> QED
        BY <2>2, <4>2, <4>4, <4>5, <4>6
    <3> QED
      BY <3>1, <3>2
  <2> QED
    BY <1>2, <1>4, <2>1, <2>2
<1> QED
  BY <1>3, <1>4

\* The functions f and g from S to V differ at most in x.
Differ(S, V, f, g, x) ==
  /\ IsFiniteSet(S) /\ x \in S
  /\ f \in [S -> V] /\ g \in [S -> V]
  /\ \A y \in S \ {x} : g[y] = f[y]

\* What the change of one value does to the sum of a function.
LEMMA SumChange ==
  ASSUME NEW S, NEW x, NEW f, NEW g, Differ(S, Nat, f, g, x)
  PROVE  /\ SumFunction(g) = SumFunction(f) + (g[x] - f[x])
         /\ SumFunction(f) \in Nat /\ SumFunction(g) \in Nat /\ f[x] \in Nat
<1>1. /\ IsFiniteSet(S) /\ x \in S /\ f \in [S -> Nat] /\ g \in [S -> Nat]
      /\ DOMAIN f = S /\ DOMAIN g = S /\ \A y \in S \ {x} : g[y] = f[y]
  BY DEF Differ
<1>2. PICK h : Sums(h, f, S, Cardinality(S)) /\ SumFunction(f) = h[S]
  BY <1>1, SumIs
<1>3. PICK i : Sums(i, g, S, Cardinality(S)) /\ SumFunction(g) = i[S]
  BY <1>1, SumIs
<1>4. i[S] = h[S] + (g[x] - f[x])
  BY <1>1, <1>2, <1>3, SumsChange
<1>5. SumFunction(f) \in Nat /\ SumFunction(g) \in Nat /\ f[x] \in Nat
  BY <1>1, SumType
<1> QED
  BY <1>2, <1>3, <1>4, <1>5

=============================================================================
