--------------------- MODULE NetworkSimulations_proofs ---------------------
(***************************************************************************)
(* Proofs about NetworkSimulations, for any number of messages, producers, *)
(* consumers and places: the order of the messages, what a stop overtakes, *)
(* and that none of them is lost or duplicated.                            *)
(***************************************************************************)
EXTENDS NetworkSimulations, CommonLemmas, TLAPS

-----------------------------------------------------------------------------
(* A dispatcher's queue q[0], from which the messages pass to the queues   *)
(* q[1] to q[n] and from there to what the consumers C received            *)

\* The queues D hold messages of M.
Queues(D, M, q) == 0 \in D /\ q \in [D -> Seq(M)]

\* The messages of K[k] in the way of consumer k are in the order R.
PathsHold(D, M, C, r, q, K, R) ==
  /\ C \subseteq D \ {0} /\ r \in [C -> Seq(M)] /\ Queues(D, M, q)
  /\ \A k \in C : InPath(r[k], q[k], q[0], K[k], R)

\* The queues C are chains of R.
ChainsHold(q, C, K, R) == \A k \in C : Chain(q[k], K, R)

\* What the programs do with the queues D of messages M: the message x enters
\* the dispatcher's, the first one moves on to the queue t, the first one (a
\* stop) spreads to all of them, the first one of the queue t is taken; where
\* the dispatcher holds a message for a while, the first one leaves its queue,
\* and x passes to the queue t.
Enters(D, M, q, x, q2) ==
  /\ Queues(D, M, q) /\ x \in M
  /\ q2 = [q EXCEPT ![0] = Append(@, x)]
Moves(D, M, q, t, q2) ==
  /\ Queues(D, M, q) /\ q[0] # <<>> /\ t \in D \ {0}
  /\ q2 = [q EXCEPT ![0] = Tail(@), ![t] = Append(@, Head(q[0]))]
Spreads(D, M, q, q2) ==
  /\ Queues(D, M, q) /\ q[0] # <<>>
  /\ q2 = [k \in D |-> IF k = 0 THEN Tail(q[0]) ELSE Append(q[k], Head(q[0]))]
Takes(D, M, q, t, q2) ==
  /\ Queues(D, M, q) /\ t \in D \ {0} /\ q[t] # <<>>
  /\ q2 = [q EXCEPT ![t] = Tail(@)]
Leaves(D, M, q, q2) ==
  /\ Queues(D, M, q) /\ q[0] # <<>>
  /\ q2 = [q EXCEPT ![0] = Tail(@)]
Passes(D, M, q, x, t, q2) ==
  /\ Queues(D, M, q) /\ x \in M /\ t \in D \ {0}
  /\ q2 = [q EXCEPT ![t] = Append(@, x)]

\* The queues as functions to sequences.
LEMMA QueuesAre ==
  ASSUME NEW D, NEW M, NEW q, Queues(D, M, q)
  PROVE  0 \in D /\ q \in [D -> Seq(M)] /\ q[0] \in Seq(M) /\ \A k \in D : q[k] \in Seq(M)
  BY DEF Queues

\* What the order along the paths means for each of them.
LEMMA PathsAre ==
  ASSUME NEW D, NEW M, NEW C, NEW r, NEW q, NEW K, NEW R, PathsHold(D, M, C, r, q, K, R)
  PROVE  \A k \in C :
           /\ k \in D /\ k # 0
           /\ q[k] \in Seq(M) /\ r[k] \in Seq(M) /\ q[0] \in Seq(M)
           /\ InPath(r[k], q[k], q[0], K[k], R)
  BY DEF PathsHold, Queues

\* A message pushed to the dispatcher's queue.
LEMMA EnterQueues ==
  ASSUME NEW D, NEW M, NEW q, NEW x, NEW q2, Enters(D, M, q, x, q2)
  PROVE  /\ Queues(D, M, q2) /\ x \in M
         /\ q2[0] = Append(q[0], x) /\ Range(q2[0]) = Range(q[0]) \cup {x}
         /\ \A k \in D : k # 0 => q2[k] = q[k]
<1>1. /\ 0 \in D /\ q \in [D -> Seq(M)] /\ q[0] \in Seq(M) /\ x \in M
      /\ q2 = [q EXCEPT ![0] = Append(q[0], x)]
  BY QueuesAre DEF Enters
<1>2. Append(q[0], x) \in Seq(M) /\ Range(Append(q[0], x)) = Range(q[0]) \cup {x}
  BY <1>1, RangeAppend
<1> DEFINE a == Append(q[0], x)
<1> HIDE DEF a
<1>3. q2 = [q EXCEPT ![0] = a] /\ a \in Seq(M)
  BY <1>1, <1>2 DEF a
<1>4. q2 \in [D -> Seq(M)] /\ q2[0] = a /\ \A k \in D : k # 0 => q2[k] = q[k]
  BY <1>1, <1>3
<1> QED
  BY <1>1, <1>2, <1>4 DEF a, Queues

\* A message that belongs behind all the others may enter.
LEMMA EnterPaths ==
  ASSUME NEW D, NEW M, NEW q, NEW x, NEW q2, Enters(D, M, q, x, q2),
         NEW C, NEW r, NEW K, NEW R, PathsHold(D, M, C, r, q, K, R),
         \A k \in C : /\ Related(Range(r[k]), {x}, K[k], R)
                      /\ Related(Range(q[k]), {x}, K[k], R)
                      /\ Related(Range(q[0]), {x}, K[k], R)
  PROVE  PathsHold(D, M, C, r, q2, K, R)
<1>1. /\ Queues(D, M, q2) /\ x \in M /\ q2[0] = Append(q[0], x)
      /\ \A k \in D : k # 0 => q2[k] = q[k]
  BY EnterQueues
<1>2. ASSUME NEW k \in C  PROVE InPath(r[k], q2[k], q2[0], K[k], R)
  <2>1. /\ q[k] \in Seq(M) /\ r[k] \in Seq(M) /\ q[0] \in Seq(M)
        /\ InPath(r[k], q[k], q[0], K[k], R) /\ q2[k] = q[k]
    BY <1>1, PathsAre
  <2>2. InPath(r[k], q[k], Append(q[0], x), K[k], R)
    BY <1>1, <2>1, PathEnter
  <2> QED
    BY <1>1, <2>1, <2>2
<1> QED
  BY <1>1, <1>2 DEF PathsHold

\* The first message dispatched to the queue t.
LEMMA MoveQueues ==
  ASSUME NEW D, NEW M, NEW q, NEW t, NEW q2, Moves(D, M, q, t, q2)
  PROVE  /\ Queues(D, M, q2) /\ t \in D /\ t # 0
         /\ q[0] # <<>> /\ q2[0] = Tail(q[0])
         /\ q2[t] = Append(q[t], Head(q[0]))
         /\ \A k \in D : k # t /\ k # 0 => q2[k] = q[k]
         /\ Head(q[0]) \in M
         /\ Range(q[0]) = {Head(q[0])} \cup Range(q2[0])
         /\ Range(q2[t]) = Range(q[t]) \cup {Head(q[0])}
<1>1. /\ 0 \in D /\ t \in D /\ t # 0 /\ q[0] # <<>>
      /\ q \in [D -> Seq(M)] /\ q[0] \in Seq(M) /\ q[t] \in Seq(M)
      /\ q2 = [q EXCEPT ![0] = Tail(q[0]), ![t] = Append(q[t], Head(q[0]))]
  BY QueuesAre DEF Moves
<1>2. /\ Head(q[0]) \in M /\ Tail(q[0]) \in Seq(M)
      /\ Range(q[0]) = {Head(q[0])} \cup Range(Tail(q[0]))
  BY <1>1, RangeTail
<1>3. /\ Append(q[t], Head(q[0])) \in Seq(M)
      /\ Range(Append(q[t], Head(q[0]))) = Range(q[t]) \cup {Head(q[0])}
  BY <1>1, <1>2, RangeAppend
<1> DEFINE a == Tail(q[0])
           b == Append(q[t], Head(q[0]))
<1>4. q2 = [q EXCEPT ![0] = a, ![t] = b] /\ a \in Seq(M) /\ b \in Seq(M)
  BY <1>1, <1>2, <1>3
<1> HIDE DEF a, b
<1> DEFINE q1 == [q EXCEPT ![0] = a]
<1>5. /\ q1 \in [D -> Seq(M)] /\ q1[0] = a
      /\ \A k \in D : k # 0 => q1[k] = q[k]
  BY <1>1, <1>4
<1>6. q2 = [q1 EXCEPT ![t] = b]
  BY <1>4
<1> HIDE DEF q1
<1>7. /\ q2 \in [D -> Seq(M)] /\ q2[t] = b
      /\ \A k \in D : k # t => q2[k] = q1[k]
  BY <1>1, <1>4, <1>5, <1>6
<1>8. q2[0] = a /\ \A k \in D : k # t /\ k # 0 => q2[k] = q[k]
  BY <1>1, <1>5, <1>7, Zenon
<1> QED
  BY <1>1, <1>2, <1>3, <1>7, <1>8 DEF a, b, Queues

\* Nor does it disturb the order along the paths.
LEMMA MovePaths ==
  ASSUME NEW D, NEW M, NEW q, NEW t, NEW q2, Moves(D, M, q, t, q2),
         NEW C, NEW r, NEW K, NEW R, PathsHold(D, M, C, r, q, K, R)
  PROVE  PathsHold(D, M, C, r, q2, K, R)
<1>1. /\ Queues(D, M, q2) /\ q[0] # <<>> /\ q2[0] = Tail(q[0])
      /\ q2[t] = Append(q[t], Head(q[0]))
      /\ \A k \in D : k # t /\ k # 0 => q2[k] = q[k]
  BY MoveQueues
<1>2. ASSUME NEW k \in C  PROVE InPath(r[k], q2[k], q2[0], K[k], R)
  <2>1. /\ k \in D /\ k # 0
        /\ q[k] \in Seq(M) /\ r[k] \in Seq(M) /\ q[0] \in Seq(M)
        /\ InPath(r[k], q[k], q[0], K[k], R)
    BY PathsAre
  <2>2. InPath(r[k], Append(q[k], Head(q[0])), Tail(q[0]), K[k], R)
    BY <1>1, <2>1, PathMove
  <2>3. InPath(r[k], q[k], Tail(q[0]), K[k], R)
    BY <1>1, <2>1, PathLeave
  <2> QED
    BY <1>1, <2>1, <2>2, <2>3
<1> QED
  BY <1>1, <1>2 DEF PathsHold

\* Nor that within the queues, when the message belongs behind what waits there.
LEMMA MoveChains ==
  ASSUME NEW D, NEW M, NEW q, NEW t, NEW q2, Moves(D, M, q, t, q2),
         NEW C, C \subseteq D \ {0}, NEW K, NEW R, ChainsHold(q, C, K, R),
         \A k \in C : Related(Range(q[k]), {Head(q[0])}, K, R)
  PROVE  ChainsHold(q2, C, K, R)
<1>1. /\ Head(q[0]) \in M /\ q2[t] = Append(q[t], Head(q[0]))
      /\ t \in D /\ \A k \in D : k # t /\ k # 0 => q2[k] = q[k]
  BY MoveQueues
<1>2. q[t] \in Seq(M)
  BY <1>1, QueuesAre DEF Moves
<1>3. t \in C /\ Chain(q[t], K, R) => Chain(q2[t], K, R)
  BY <1>1, <1>2, ChainAppend
<1> QED
  BY <1>1, <1>3 DEF ChainsHold

\* The first message, a stop, handed on to all the queues.
LEMMA SpreadQueues ==
  ASSUME NEW D, NEW M, NEW q, NEW q2, Spreads(D, M, q, q2)
  PROVE  /\ Queues(D, M, q2) /\ q[0] # <<>> /\ q2[0] = Tail(q[0])
         /\ \A k \in D : k # 0 => /\ q2[k] = Append(q[k], Head(q[0]))
                                  /\ Range(q2[k]) = Range(q[k]) \cup {Head(q[0])}
         /\ Head(q[0]) \in M
         /\ Range(q[0]) = {Head(q[0])} \cup Range(q2[0])
<1>1. /\ 0 \in D /\ q[0] # <<>> /\ q[0] \in Seq(M) /\ \A k \in D : q[k] \in Seq(M)
      /\ q2 = [k \in D |-> IF k = 0 THEN Tail(q[0]) ELSE Append(q[k], Head(q[0]))]
  BY QueuesAre DEF Spreads
<1>2. /\ Head(q[0]) \in M /\ Tail(q[0]) \in Seq(M)
      /\ Range(q[0]) = {Head(q[0])} \cup Range(Tail(q[0]))
  BY <1>1, RangeTail
<1> DEFINE h == Head(q[0])
           a == Tail(q[0])
<1>3. q2 = [k \in D |-> IF k = 0 THEN a ELSE Append(q[k], h)]
  BY <1>1
<1>4. a \in Seq(M) /\ h \in M
  BY <1>2
<1> HIDE DEF h, a
<1>5. ASSUME NEW k \in D, k # 0
      PROVE  /\ q2[k] = Append(q[k], h) /\ q2[k] \in Seq(M)
             /\ Range(q2[k]) = Range(q[k]) \cup {h}
  <2>1. q[k] \in Seq(M)
    BY <1>1
  <2>2. Append(q[k], h) \in Seq(M) /\ Range(Append(q[k], h)) = Range(q[k]) \cup {h}
    BY <1>4, <2>1, RangeAppend
  <2>3. q2[k] = Append(q[k], h)
    BY <1>3, <1>5
  <2> QED
    BY <2>2, <2>3
<1>6. q2[0] = a /\ DOMAIN q2 = D
  BY <1>1, <1>3
<1>7. q2 \in [D -> Seq(M)]
  <2>1. \A k \in D : q2[k] \in Seq(M)
    BY <1>4, <1>5, <1>6
  <2>2. q2 = [k \in D |-> q2[k]]
    BY <1>3
  <2> QED
    BY <2>1, <2>2
<1> QED
  BY <1>1, <1>2, <1>5, <1>6, <1>7 DEF h, a, Queues

\* A message that is of no path spreads without disturbing any.
LEMMA SpreadPaths ==
  ASSUME NEW D, NEW M, NEW q, NEW q2, Spreads(D, M, q, q2),
         NEW C, NEW r, NEW K, NEW R, PathsHold(D, M, C, r, q, K, R)
  PROVE  PathsHold(D, M, C, r, q2, K, R)
<1>1. /\ Queues(D, M, q2) /\ q[0] # <<>> /\ q2[0] = Tail(q[0])
      /\ \A k \in D : k # 0 => q2[k] = Append(q[k], Head(q[0]))
  BY SpreadQueues
<1>2. ASSUME NEW k \in C  PROVE InPath(r[k], q2[k], q2[0], K[k], R)
  <2>1. /\ k \in D /\ k # 0
        /\ q[k] \in Seq(M) /\ r[k] \in Seq(M) /\ q[0] \in Seq(M)
        /\ InPath(r[k], q[k], q[0], K[k], R)
    BY PathsAre
  <2>2. InPath(r[k], Append(q[k], Head(q[0])), Tail(q[0]), K[k], R)
    BY <1>1, <2>1, PathMove
  <2> QED
    BY <1>1, <2>1, <2>2
<1> QED
  BY <1>1, <1>2 DEF PathsHold

\* Nor the order within the queues, if it belongs behind what waits there.
LEMMA SpreadChains ==
  ASSUME NEW D, NEW M, NEW q, NEW q2, Spreads(D, M, q, q2),
         NEW C, C \subseteq D \ {0}, NEW K, NEW R, ChainsHold(q, C, K, R),
         \A k \in C : Related(Range(q[k]), {Head(q[0])}, K, R)
  PROVE  ChainsHold(q2, C, K, R)
<1>1. /\ Head(q[0]) \in M
      /\ \A k \in D : k # 0 => q2[k] = Append(q[k], Head(q[0]))
  BY SpreadQueues
<1>2. ASSUME NEW k \in C  PROVE Chain(q2[k], K, R)
  <2>1. q[k] \in Seq(M) /\ k \in D /\ k # 0
    BY QueuesAre DEF Spreads
  <2>2. Chain(q[k], K, R)
    BY DEF ChainsHold
  <2>3. Chain(Append(q[k], Head(q[0])), K, R)
    BY <1>1, <2>1, <2>2, ChainAppend
  <2> QED
    BY <1>1, <2>1, <2>3
<1> QED
  BY <1>2 DEF ChainsHold

\* The first message taken from the queue t.
LEMMA TakeQueues ==
  ASSUME NEW D, NEW M, NEW q, NEW t, NEW q2, Takes(D, M, q, t, q2)
  PROVE  /\ Queues(D, M, q2) /\ t \in D /\ t # 0 /\ q[t] # <<>>
         /\ q2[t] = Tail(q[t]) /\ q2[0] = q[0]
         /\ \A k \in D : k # t => q2[k] = q[k]
         /\ Head(q[t]) \in M
         /\ Range(q[t]) = {Head(q[t])} \cup Range(q2[t])
<1>1. /\ 0 \in D /\ t \in D /\ t # 0 /\ q[t] # <<>>
      /\ q \in [D -> Seq(M)] /\ q[t] \in Seq(M)
      /\ q2 = [q EXCEPT ![t] = Tail(q[t])]
  BY QueuesAre DEF Takes
<1>2. /\ Head(q[t]) \in M /\ Tail(q[t]) \in Seq(M)
      /\ Range(q[t]) = {Head(q[t])} \cup Range(Tail(q[t]))
  BY <1>1, RangeTail
<1> DEFINE a == Tail(q[t])
<1>3. q2 = [q EXCEPT ![t] = a] /\ a \in Seq(M)
  BY <1>1, <1>2
<1> HIDE DEF a
<1>4. /\ q2 \in [D -> Seq(M)] /\ q2[t] = a
      /\ \A k \in D : k # t => q2[k] = q[k]
  BY <1>1, <1>3
<1> QED
  BY <1>1, <1>2, <1>4 DEF a, Queues

\* What is taken, and received or not, leaves the paths in order.
LEMMA TakePaths ==
  ASSUME NEW D, NEW M, NEW q, NEW t, NEW q2, Takes(D, M, q, t, q2),
         NEW C, NEW r, NEW r2,
         r2 = r \/ (t \in C /\ r2 = [r EXCEPT ![t] = Append(@, Head(q[t]))]),
         NEW K, NEW R, PathsHold(D, M, C, r, q, K, R)
  PROVE  PathsHold(D, M, C, r2, q2, K, R)
<1>1. /\ Queues(D, M, q2) /\ q[t] # <<>> /\ Head(q[t]) \in M
      /\ q2[t] = Tail(q[t]) /\ q2[0] = q[0]
      /\ \A k \in D : k # t => q2[k] = q[k]
  BY TakeQueues
<1>2. r \in [C -> Seq(M)]
  BY DEF PathsHold
<1>3. /\ r2 \in [C -> Seq(M)]
      /\ \A k \in C : \/ r2[k] = r[k]
                      \/ k = t /\ r2[k] = Append(r[k], Head(q[k]))
  <2>1. CASE r2 = r
    BY <1>2, <2>1
  <2>2. CASE t \in C /\ r2 = [r EXCEPT ![t] = Append(r[t], Head(q[t]))]
    <3> DEFINE b == Append(r[t], Head(q[t]))
    <3>1. b \in Seq(M) /\ r2 = [r EXCEPT ![t] = b]
      <4>1. r[t] \in Seq(M)
        BY <1>2, <2>2
      <4> QED
        BY <1>1, <2>2, <4>1, RangeAppend
    <3> HIDE DEF b
    <3>2. /\ r2 \in [C -> Seq(M)] /\ r2[t] = b
          /\ \A k \in C : k # t => r2[k] = r[k]
      BY <1>2, <2>2, <3>1
    <3> QED
      BY <3>2 DEF b
  <2> QED
    BY <2>1, <2>2
<1>4. ASSUME NEW k \in C  PROVE InPath(r2[k], q2[k], q2[0], K[k], R)
  <2>1. /\ k \in D /\ q[k] \in Seq(M) /\ r[k] \in Seq(M) /\ q[0] \in Seq(M)
        /\ InPath(r[k], q[k], q[0], K[k], R)
    BY PathsAre
  <2>2. CASE k = t
    <3>1. /\ InPath(r[k], Tail(q[k]), q[0], K[k], R)
          /\ InPath(Append(r[k], Head(q[k])), Tail(q[k]), q[0], K[k], R)
      BY <1>1, <2>1, <2>2, PathTake
    <3> QED
      BY <1>1, <1>3, <2>2, <3>1
  <2>3. CASE k # t
    BY <1>1, <1>3, <2>1, <2>3
  <2> QED
    BY <2>2, <2>3
<1> QED
  BY <1>1, <1>3, <1>4 DEF PathsHold

\* And the queues; it was before all that is left.
LEMMA TakeChains ==
  ASSUME NEW D, NEW M, NEW q, NEW t, NEW q2, Takes(D, M, q, t, q2),
         NEW C, C \subseteq D \ {0}, NEW K, NEW R, ChainsHold(q, C, K, R)
  PROVE  /\ ChainsHold(q2, C, K, R)
         /\ t \in C => Related({Head(q[t])}, Range(q2[t]), K, R)
<1>1. /\ q[t] # <<>> /\ q2[t] = Tail(q[t]) /\ t \in D
      /\ \A k \in D : k # t => q2[k] = q[k]
  BY TakeQueues
<1>2. q[t] \in Seq(M)
  BY <1>1, QueuesAre DEF Takes
<1>3. Chain(q[t], K, R) =>
        Chain(q2[t], K, R) /\ Related({Head(q[t])}, Range(q2[t]), K, R)
  BY <1>1, <1>2, ChainTail
<1> QED
  BY <1>1, <1>3 DEF ChainsHold

\* The first message leaves the dispatcher's queue, for its hand.
LEMMA LeaveQueues ==
  ASSUME NEW D, NEW M, NEW q, NEW q2, Leaves(D, M, q, q2)
  PROVE  /\ Queues(D, M, q2) /\ q[0] \in Seq(M) /\ q[0] # <<>> /\ q2[0] = Tail(q[0])
         /\ \A k \in D : k # 0 => q2[k] = q[k]
         /\ Head(q[0]) \in M
         /\ Range(q[0]) = {Head(q[0])} \cup Range(q2[0])
<1>1. /\ 0 \in D /\ q[0] # <<>> /\ q \in [D -> Seq(M)] /\ q[0] \in Seq(M)
      /\ q2 = [q EXCEPT ![0] = Tail(q[0])]
  BY QueuesAre DEF Leaves
<1>2. /\ Head(q[0]) \in M /\ Tail(q[0]) \in Seq(M)
      /\ Range(q[0]) = {Head(q[0])} \cup Range(Tail(q[0]))
  BY <1>1, RangeTail
<1> DEFINE a == Tail(q[0])
<1>3. q2 = [q EXCEPT ![0] = a] /\ a \in Seq(M)
  BY <1>1, <1>2
<1> HIDE DEF a
<1>4. q2 \in [D -> Seq(M)] /\ q2[0] = a /\ \A k \in D : k # 0 => q2[k] = q[k]
  BY <1>1, <1>3
<1> QED
  BY <1>1, <1>2, <1>4 DEF a, Queues

\* What leaves the dispatcher's queue keeps the order with what stays and what went.
LEMMA LeavePaths ==
  ASSUME NEW D, NEW M, NEW q, NEW q2, Leaves(D, M, q, q2),
         NEW C, NEW r, NEW K, NEW R, PathsHold(D, M, C, r, q, K, R)
  PROVE  /\ PathsHold(D, M, C, r, q2, K, R)
         /\ \A k \in C : /\ Related(Range(r[k]), {Head(q[0])}, K[k], R)
                         /\ Related(Range(q2[k]), {Head(q[0])}, K[k], R)
                         /\ Related({Head(q[0])}, Range(q2[0]), K[k], R)
<1>1. /\ Queues(D, M, q2) /\ q[0] # <<>> /\ q2[0] = Tail(q[0])
      /\ \A k \in D : k # 0 => q2[k] = q[k]
  BY LeaveQueues
<1>2. ASSUME NEW k \in C
      PROVE  /\ InPath(r[k], q2[k], q2[0], K[k], R)
             /\ Related(Range(r[k]), {Head(q[0])}, K[k], R)
             /\ Related(Range(q2[k]), {Head(q[0])}, K[k], R)
             /\ Related({Head(q[0])}, Range(q2[0]), K[k], R)
  <2>1. /\ k \in D /\ k # 0
        /\ q[k] \in Seq(M) /\ r[k] \in Seq(M) /\ q[0] \in Seq(M)
        /\ InPath(r[k], q[k], q[0], K[k], R)
    BY PathsAre
  <2>2. /\ InPath(r[k], q[k], Tail(q[0]), K[k], R)
        /\ Related(Range(r[k]), {Head(q[0])}, K[k], R)
        /\ Related(Range(q[k]), {Head(q[0])}, K[k], R)
        /\ Related({Head(q[0])}, Range(Tail(q[0])), K[k], R)
    BY <1>1, <2>1, PathLeave
  <2> QED
    BY <1>1, <2>1, <2>2
<1> QED
  BY <1>1, <1>2 DEF PathsHold

\* The message in the dispatcher's hand passes to the queue t.
LEMMA PassQueues ==
  ASSUME NEW D, NEW M, NEW q, NEW x, NEW t, NEW q2, Passes(D, M, q, x, t, q2)
  PROVE  /\ Queues(D, M, q2) /\ t \in D /\ t # 0 /\ q2[0] = q[0]
         /\ q[t] \in Seq(M) /\ q2[t] = Append(q[t], x)
         /\ \A k \in D : k # t => q2[k] = q[k]
         /\ Range(q2[t]) = Range(q[t]) \cup {x}
<1>1. /\ 0 \in D /\ t \in D /\ t # 0 /\ q \in [D -> Seq(M)] /\ q[t] \in Seq(M) /\ x \in M
      /\ q2 = [q EXCEPT ![t] = Append(q[t], x)]
  BY QueuesAre DEF Passes
<1>2. Append(q[t], x) \in Seq(M) /\ Range(Append(q[t], x)) = Range(q[t]) \cup {x}
  BY <1>1, RangeAppend
<1> DEFINE a == Append(q[t], x)
<1> HIDE DEF a
<1>3. q2 = [q EXCEPT ![t] = a] /\ a \in Seq(M)
  BY <1>1, <1>2 DEF a
<1>4. q2 \in [D -> Seq(M)] /\ q2[t] = a /\ \A k \in D : k # t => q2[k] = q[k]
  BY <1>1, <1>3
<1> QED
  BY <1>1, <1>2, <1>4 DEF a, Queues

\* A message that belongs behind the others passes to its queue.
LEMMA PassPaths ==
  ASSUME NEW D, NEW M, NEW q, NEW x, NEW t, NEW q2, Passes(D, M, q, x, t, q2),
         NEW C, NEW r, NEW K, NEW R, PathsHold(D, M, C, r, q, K, R),
         \A k \in C : /\ Related(Range(r[k]), {x}, K[k], R)
                      /\ Related(Range(q[k]), {x}, K[k], R)
                      /\ Related({x}, Range(q[0]), K[k], R)
  PROVE  PathsHold(D, M, C, r, q2, K, R)
<1>1. /\ Queues(D, M, q2) /\ q2[0] = q[0] /\ q2[t] = Append(q[t], x)
      /\ \A k \in D : k # t => q2[k] = q[k]
  BY PassQueues
<1>2. x \in M
  BY DEF Passes
<1>3. ASSUME NEW k \in C  PROVE InPath(r[k], q2[k], q2[0], K[k], R)
  <2>1. /\ k \in D /\ q[k] \in Seq(M) /\ r[k] \in Seq(M) /\ q[0] \in Seq(M)
        /\ InPath(r[k], q[k], q[0], K[k], R)
    BY PathsAre
  <2>2. InPath(r[k], Append(q[k], x), q[0], K[k], R)
    BY <1>2, <2>1, PathPass
  <2> QED
    BY <1>1, <2>1, <2>2
<1> QED
  BY <1>1, <1>3 DEF PathsHold

-----------------------------------------------------------------------------
(* network_simul_packet_loss                                               *)

LossQueues == 0..Loss!Assembler

LossTypes ==
  /\ pc \in [main : {"start", "join", "done"},
             producer : {"unstarted", "produce", "done"},
             dispatcher : {"unstarted", "consume", "done"}]
  /\ worker \in [Loss!ToQueues -> {"unstarted", "consume", "done"}]
  /\ Queues(LossQueues, Loss!Messages, queue)
  /\ produced \in 0..PackageCount
  /\ received \in [Loss!Consumers -> Seq(Loss!Messages)]

\* Nothing runs before main starts it.
LossStart ==
  pc.main = "start" =>
    /\ pc.producer = "unstarted" /\ pc.dispatcher = "unstarted"
    /\ \A k \in Loss!ToQueues : worker[k] = "unstarted"

\* Messages are in the way to their target.
LossTargets ==
  /\ \A m \in Range(queue[0]) : m = Loss!StopMessage \/ m.target \in Loss!ToQueues
  /\ \A k \in Loss!Consumers : \A m \in Range(queue[k]) :
       m = Loss!StopMessage \/ m.target = k
  /\ \A k \in Loss!Consumers : \A m \in Range(received[k]) : m.target = k

\* The producer's messages have the numbers it has used.
LossNumbers ==
  /\ \A m \in Range(queue[0]) : m.source = 1 => m.number < produced
  /\ \A k \in Loss!Consumers : \A m \in Range(queue[k]) \cup Range(received[k]) :
       m.source = 1 => m.number < produced

LossMine ==
  [k \in Loss!Consumers |-> {m \in Loss!Messages : m.source = 1 /\ m.target = k}]

LossPairs == Loss!Messages \X Loss!Messages
LossEarlier == {p \in LossPairs : p[1].number < p[2].number}

\* Each consumer's messages are in the way in the order of their numbers.
LossPaths == PathsHold(LossQueues, Loss!Messages, Loss!Consumers, received, queue,
                       LossMine, LossEarlier)

LossNoneAfter == {p \in LossPairs : p[1] # Loss!StopMessage}
LossResentAfter ==
  {p \in LossPairs : p[1] = Loss!StopMessage => p[2].source = Loss!Assembler}

\* Nothing follows a stop on its way to a consumer or the assembler, and in the
\* dispatcher's queue only the assembler's packets do.
LossStops ==
  /\ ChainsHold(queue, Loss!ToQueues, Loss!Messages, LossNoneAfter)
  /\ Chain(queue[0], Loss!Messages, LossResentAfter)
  /\ Loss!StopMessage \in Range(queue[0]) => pc.producer = "done"
  /\ pc.dispatcher # "done" =>
       \A k \in Loss!ToQueues : Loss!StopMessage \notin Range(queue[k])
  /\ pc.dispatcher = "done" =>
       /\ pc.producer = "done"
       /\ \A m \in Range(queue[0]) : m.source = Loss!Assembler
  /\ \A k \in Loss!ToQueues : worker[k] = "done" =>
       queue[k] = <<>> /\ pc.dispatcher = "done"

LossInv ==
  /\ LossTypes /\ LossStart /\ LossTargets /\ LossNumbers
  /\ LossPaths /\ LossStops

\* What the constants are.
LEMMA LossConstants ==
  /\ ConsumerCount \in Nat /\ ConsumerCount > 0 /\ PackageCount \in Nat
  /\ Loss!Assembler \in Nat /\ Loss!Assembler > 1
  /\ Loss!Consumers \in SUBSET (1..Loss!Assembler)
  /\ Loss!ToQueues = 1..Loss!Assembler
  /\ Loss!Assembler \in Loss!ToQueues /\ Loss!Assembler \notin Loss!Consumers
  /\ LossQueues = Loss!ToQueues \cup {0} /\ 0 \notin Loss!ToQueues
  /\ Loss!Consumers \subseteq Loss!ToQueues
  /\ \A k \in Loss!ToQueues : k # 0 /\ k \in 0..Loss!Assembler
                              /\ (k = Loss!Assembler \/ k \in Loss!Consumers)
<1>1. ConsumerCount \in Nat /\ ConsumerCount > 0 /\ PackageCount \in Nat
  BY SimulationsAssumption DEF Loss!CountsAssumption
<1> QED
  BY <1>1 DEF Loss!Assembler, Loss!Consumers, Loss!ToQueues, LossQueues

\* Which queue is whose.
LEMMA LossNames ==
  /\ LossQueues = Loss!ToQueues \cup {0} /\ 0 \notin Loss!ToQueues
  /\ Loss!Consumers \subseteq Loss!ToQueues
  /\ Loss!ToQueues \subseteq LossQueues \ {0}
  /\ Loss!Assembler \in Loss!ToQueues /\ Loss!Assembler \notin Loss!Consumers
  /\ \A k \in Loss!ToQueues : k # 0 /\ k \in LossQueues
<1>1. Loss!ToQueues \subseteq LossQueues \ {0}
  BY LossConstants
<1> QED
  BY <1>1, LossConstants

\* What the stop is.
LEMMA LossStopIs ==
  /\ Loss!StopMessage \in Loss!Messages
  /\ Loss!StopMessage.target = 0 /\ Loss!StopMessage.source = 0
<1>1. 0 \in 0..Loss!Assembler /\ 0 \in 0..PackageCount
  BY LossConstants
<1> QED
  BY <1>1 DEF Loss!StopMessage, Loss!Messages

\* What a message is.
LEMMA LossMessage ==
  ASSUME NEW t \in 0..Loss!Assembler, NEW s \in 0..Loss!Assembler,
         NEW n \in 0..PackageCount
  PROVE  /\ [target |-> t, source |-> s, number |-> n] \in Loss!Messages
         /\ [target |-> t, source |-> s, number |-> n].target = t
         /\ [target |-> t, source |-> s, number |-> n].source = s
         /\ [target |-> t, source |-> s, number |-> n].number = n
  BY DEF Loss!Messages

\* The messages in the queues and in what was received.
LEMMA LossSets ==
  ASSUME LossInv
  PROVE  /\ Queues(LossQueues, Loss!Messages, queue)
         /\ queue[0] \in Seq(Loss!Messages) /\ Range(queue[0]) \subseteq Loss!Messages
         /\ \A k \in Loss!ToQueues :
              queue[k] \in Seq(Loss!Messages) /\ Range(queue[k]) \subseteq Loss!Messages
         /\ \A k \in Loss!Consumers :
              received[k] \in Seq(Loss!Messages) /\ Range(received[k]) \subseteq Loss!Messages
<1>1. /\ Queues(LossQueues, Loss!Messages, queue)
      /\ received \in [Loss!Consumers -> Seq(Loss!Messages)]
  BY DEF LossInv, LossTypes
<1>2. queue[0] \in Seq(Loss!Messages) /\ \A k \in LossQueues : queue[k] \in Seq(Loss!Messages)
  BY <1>1, QueuesAre
<1> QED
  BY <1>1, <1>2, LossConstants, RangeType

\* A message that is not the consumer's disturbs no order.
LEMMA LossForeign ==
  ASSUME NEW x \in Loss!Messages, x.source # 1, NEW k \in Loss!Consumers, NEW S
  PROVE  Related(S, {x}, LossMine[k], LossEarlier)
  BY DEF Related, LossMine

\* The empty network satisfies the invariant.
LEMMA LossInitially == Loss!Init => LossInv
<1> SUFFICES ASSUME Loss!Init  PROVE LossInv
  OBVIOUS
<1>1. /\ pc = [main |-> "start", producer |-> "unstarted", dispatcher |-> "unstarted"]
      /\ worker = [k \in Loss!ToQueues |-> "unstarted"]
      /\ queue = [k \in 0..Loss!Assembler |-> <<>>]
      /\ produced = 0
      /\ received = [k \in Loss!Consumers |-> <<>>]
  BY DEF Loss!Init
<1>2. LossTypes
  <2>1. /\ <<>> \in Seq(Loss!Messages) /\ produced \in 0..PackageCount
        /\ Queues(LossQueues, Loss!Messages, queue)
    BY <1>1, LossConstants DEF Queues, LossQueues
  <2> QED
    BY <1>1, <2>1 DEF LossTypes
<1>3. /\ queue[0] = <<>> /\ \A k \in Loss!ToQueues : queue[k] = <<>>
      /\ \A k \in Loss!Consumers : queue[k] = <<>> /\ received[k] = <<>>
  BY <1>1, LossConstants
<1>4. Range(<<>>) = {}
  <2>1. <<>> \in Seq(Loss!Messages)
    OBVIOUS
  <2> QED
    BY <2>1, RangeType
<1>5. LossStart
  BY <1>1 DEF LossStart
<1>6. LossTargets /\ LossNumbers
  BY <1>3, <1>4 DEF LossTargets, LossNumbers
<1>7. LossPaths
  <2>1. \A K, R : InPath(<<>>, <<>>, <<>>, K, R)
    BY <1>4, ChainEmpty DEF InPath, Related
  <2> QED
    BY <1>2, <1>3, <2>1, LossConstants DEF LossTypes, LossPaths, PathsHold
<1>8. LossStops
  <2>1. ChainsHold(queue, Loss!ToQueues, Loss!Messages, LossNoneAfter)
    BY <1>3, LossConstants, ChainEmpty DEF ChainsHold
  <2>2. Chain(queue[0], Loss!Messages, LossResentAfter)
    BY <1>3, ChainEmpty
  <2>3. pc.dispatcher = "unstarted" /\ \A k \in Loss!ToQueues : worker[k] = "unstarted"
    BY <1>1
  <2> QED
    BY <1>3, <1>4, <2>1, <2>2, <2>3 DEF LossStops
<1> QED
  BY <1>2, <1>5, <1>6, <1>7, <1>8 DEF LossInv

\* Main starts threads that all stood still, and joins them.
LEMMA LossMain ==
  ASSUME LossInv, Loss!StartThreads \/ Loss!Join \/ UNCHANGED Loss!vars
  PROVE  LossInv'
<1>1. UNCHANGED <<queue, produced, received>>
  BY DEF Loss!StartThreads, Loss!Join, Loss!vars
<1>2. LossTargets' /\ LossNumbers' /\ LossPaths'
  BY <1>1 DEF LossInv, LossTargets, LossNumbers, LossPaths, PathsHold
<1>3. CASE Loss!StartThreads
  <2>1. /\ pc' = [main |-> "join", producer |-> "produce", dispatcher |-> "consume"]
        /\ worker' = [k \in Loss!ToQueues |-> "consume"]
        /\ pc.producer = "unstarted" /\ pc.dispatcher = "unstarted"
    BY <1>3 DEF Loss!StartThreads, LossInv, LossStart
  <2>2. LossTypes' /\ LossStart'
    BY <1>1, <2>1 DEF LossInv, LossTypes, LossStart
  <2>3. LossStops'
    BY <1>1, <2>1 DEF LossInv, LossStops, ChainsHold
  <2> QED
    BY <1>2, <2>2, <2>3 DEF LossInv
<1>4. CASE Loss!Join
  <2>1. pc' = [pc EXCEPT !.main = "done"] /\ worker' = worker
    BY <1>4 DEF Loss!Join
  <2>2. /\ LossTypes'
        /\ pc'.main = "done" /\ pc'.producer = pc.producer /\ pc'.dispatcher = pc.dispatcher
    BY <1>1, <2>1 DEF LossInv, LossTypes
  <2>3. LossStart' /\ LossStops'
    BY <1>1, <2>1, <2>2 DEF LossInv, LossStart, LossStops, ChainsHold
  <2> QED
    BY <1>2, <2>2, <2>3 DEF LossInv
<1>5. CASE UNCHANGED Loss!vars
  <2>1. UNCHANGED <<pc, worker>>
    BY <1>5 DEF Loss!vars
  <2>2. LossTypes' /\ LossStart' /\ LossStops'
    BY <1>1, <2>1 DEF LossInv, LossTypes, LossStart, LossStops, ChainsHold
  <2> QED
    BY <1>2, <2>2 DEF LossInv
<1> QED
  BY <1>3, <1>4, <1>5

\* A new message of the producer.
LEMMA LossProduce ==
  ASSUME LossInv, NEW target \in Loss!ToQueues, Loss!Produce(target)  PROVE LossInv'
<1> DEFINE x == [target |-> target, source |-> 1, number |-> produced]
<1>1. /\ pc.producer = "produce" /\ produced < PackageCount
      /\ queue' = [queue EXCEPT ![0] = Append(@, x)]
      /\ produced' = produced + 1 /\ UNCHANGED <<pc, worker, received>>
  BY DEF Loss!Produce, Loss!Push
<1>2. /\ produced \in 0..PackageCount /\ produced' \in 0..PackageCount
      /\ produced < produced' /\ produced \in Int /\ produced' \in Int
  BY <1>1, LossConstants DEF LossInv, LossTypes
<1>3. /\ x \in Loss!Messages /\ x.target = target /\ x.source = 1 /\ x.number = produced
      /\ x # Loss!StopMessage
  <2>1. target \in 0..Loss!Assembler /\ 1 \in 0..Loss!Assembler
    BY LossConstants
  <2> QED
    BY <1>2, <2>1, LossMessage, LossStopIs
<1> HIDE DEF x
<1>4. Enters(LossQueues, Loss!Messages, queue, x, queue')
  BY <1>1, <1>3, LossSets DEF Enters
<1>5. /\ Queues(LossQueues, Loss!Messages, queue')
      /\ queue'[0] = Append(queue[0], x)
      /\ Range(queue'[0]) = Range(queue[0]) \cup {x}
      /\ \A k \in Loss!ToQueues : queue'[k] = queue[k]
  BY <1>4, EnterQueues, LossConstants, SMTT(20)
<1>6. LossTypes' /\ LossStart'
  BY <1>1, <1>2, <1>5 DEF LossInv, LossTypes, LossStart
<1>7. LossTargets'
  BY <1>1, <1>3, <1>5, LossConstants DEF LossInv, LossTargets
<1>8. LossNumbers'
  <2>1. \A m \in Loss!Messages : m.number \in Int
    BY LossConstants DEF Loss!Messages
  <2>2. \A m \in Loss!Messages : m.number < produced => m.number < produced'
    BY <1>2, <2>1
  <2> QED
    BY <1>1, <1>2, <1>3, <1>5, <2>2, LossSets, LossConstants DEF LossInv, LossNumbers
<1>9. LossPaths'
  <2>1. ASSUME NEW k \in Loss!Consumers, NEW S, S \subseteq Loss!Messages,
               \A m \in S : m.source = 1 => m.number < produced
        PROVE  Related(S, {x}, LossMine[k], LossEarlier)
    <3>1. ASSUME NEW m \in S, m \in LossMine[k]  PROVE <<m, x>> \in LossEarlier
      BY <1>3, <2>1, <3>1 DEF LossMine, LossEarlier, LossPairs
    <3> QED
      BY <3>1 DEF Related
  <2>2. \A k \in Loss!Consumers :
          /\ Related(Range(received[k]), {x}, LossMine[k], LossEarlier)
          /\ Related(Range(queue[k]), {x}, LossMine[k], LossEarlier)
          /\ Related(Range(queue[0]), {x}, LossMine[k], LossEarlier)
    BY <2>1, LossSets, LossConstants DEF LossInv, LossNumbers
  <2>3. PathsHold(LossQueues, Loss!Messages, Loss!Consumers, received, queue',
                  LossMine, LossEarlier)
    BY <1>4, <2>2, EnterPaths DEF LossInv, LossPaths
  <2> QED
    BY <1>1, <2>3 DEF LossPaths
<1>10. LossStops'
  <2>1. ChainsHold(queue', Loss!ToQueues, Loss!Messages, LossNoneAfter)
    BY <1>5 DEF LossInv, LossStops, ChainsHold
  <2>2. Loss!StopMessage \notin Range(queue[0]) /\ pc.dispatcher # "done"
    BY <1>1 DEF LossInv, LossStops
  <2>3. Related(Range(queue[0]), {x}, Loss!Messages, LossResentAfter)
    BY <2>2 DEF Related, LossResentAfter, LossPairs
  <2>4. Chain(queue'[0], Loss!Messages, LossResentAfter)
    BY <1>3, <1>5, <2>3, LossSets, ChainAppend DEF LossInv, LossStops
  <2>5. Loss!StopMessage \notin Range(queue'[0])
    BY <1>3, <1>5, <2>2
  <2> QED
    BY <1>1, <1>5, <2>1, <2>2, <2>4, <2>5 DEF LossInv, LossStops
<1> QED
  BY <1>6, <1>7, <1>8, <1>9, <1>10 DEF LossInv

\* The producer's stop.
LEMMA LossProducerStop == ASSUME LossInv, Loss!ProducerStop  PROVE LossInv'
<1> DEFINE x == Loss!StopMessage
<1>1. /\ pc.producer = "produce"
      /\ queue' = [queue EXCEPT ![0] = Append(@, x)]
      /\ pc' = [pc EXCEPT !.producer = "done"]
      /\ UNCHANGED <<worker, produced, received>>
  BY DEF Loss!ProducerStop, Loss!Push
<1>2. x \in Loss!Messages /\ x.source = 0 /\ x = Loss!StopMessage
  BY LossStopIs
<1> HIDE DEF x
<1>3. Enters(LossQueues, Loss!Messages, queue, x, queue')
  BY <1>1, <1>2, LossSets DEF Enters
<1>4. /\ Queues(LossQueues, Loss!Messages, queue')
      /\ queue'[0] = Append(queue[0], x)
      /\ Range(queue'[0]) = Range(queue[0]) \cup {x}
      /\ \A k \in Loss!ToQueues : queue'[k] = queue[k]
  BY <1>3, EnterQueues, LossConstants
<1>5. /\ LossTypes'
      /\ pc'.producer = "done" /\ pc'.main = pc.main /\ pc'.dispatcher = pc.dispatcher
  BY <1>1, <1>4 DEF LossInv, LossTypes
<1>6. LossStart'
  BY <1>1, <1>5 DEF LossInv, LossStart
<1>7. LossTargets' /\ LossNumbers'
  BY <1>1, <1>2, <1>4, LossConstants DEF LossInv, LossTargets, LossNumbers
<1>8. LossPaths'
  <2>1. ASSUME NEW k \in Loss!Consumers, NEW S
        PROVE  Related(S, {x}, LossMine[k], LossEarlier)
    BY <1>2, LossForeign
  <2>2. PathsHold(LossQueues, Loss!Messages, Loss!Consumers, received, queue',
                  LossMine, LossEarlier)
    BY <1>3, <2>1, EnterPaths DEF LossInv, LossPaths
  <2> QED
    BY <1>1, <2>2 DEF LossPaths
<1>9. LossStops'
  <2>1. ChainsHold(queue', Loss!ToQueues, Loss!Messages, LossNoneAfter)
    BY <1>4 DEF LossInv, LossStops, ChainsHold
  <2>2. Loss!StopMessage \notin Range(queue[0]) /\ pc.dispatcher # "done"
    BY <1>1 DEF LossInv, LossStops
  <2>3. Related(Range(queue[0]), {x}, Loss!Messages, LossResentAfter)
    BY <2>2 DEF Related, LossResentAfter, LossPairs
  <2>4. Chain(queue'[0], Loss!Messages, LossResentAfter)
    BY <1>2, <1>4, <2>3, LossSets, ChainAppend DEF LossInv, LossStops
  <2> QED
    BY <1>1, <1>4, <1>5, <2>1, <2>2, <2>4 DEF LossInv, LossStops
<1> QED
  BY <1>5, <1>6, <1>7, <1>8, <1>9 DEF LossInv

\* The dispatcher hands a message to the queue of its target.
LEMMA LossDispatch == ASSUME LossInv, Loss!Dispatch  PROVE LossInv'
<1> DEFINE x == Head(queue[0])
           t == x.target
<1>1. /\ pc.dispatcher = "consume" /\ queue[0] # <<>> /\ x # Loss!StopMessage
      /\ queue' = [queue EXCEPT ![0] = Tail(@), ![t] = Append(@, x)]
      /\ UNCHANGED <<pc, worker, produced, received>>
  BY DEF Loss!Dispatch, Loss!Ready, Loss!First
<1>2. x \in Loss!Messages /\ x \in Range(queue[0])
  BY <1>1, LossSets, RangeTail
<1>3. t \in Loss!ToQueues
  BY <1>1, <1>2 DEF LossInv, LossTargets
<1>4. Moves(LossQueues, Loss!Messages, queue, t, queue')
  BY <1>1, <1>3, LossSets, LossNames DEF Moves
<1>5. x = Head(queue[0]) /\ x.target = t
  OBVIOUS
<1> HIDE DEF x, t
<1>6. /\ Queues(LossQueues, Loss!Messages, queue')
      /\ queue'[0] = Tail(queue[0])
      /\ \A k \in Loss!ToQueues : k # t => queue'[k] = queue[k]
      /\ Range(queue[0]) = {x} \cup Range(queue'[0])
      /\ Range(queue'[t]) = Range(queue[t]) \cup {x}
  <2>1. /\ Queues(LossQueues, Loss!Messages, queue')
        /\ queue'[0] = Tail(queue[0])
        /\ \A k \in LossQueues : k # t /\ k # 0 => queue'[k] = queue[k]
        /\ Range(queue[0]) = {Head(queue[0])} \cup Range(queue'[0])
        /\ Range(queue'[t]) = Range(queue[t]) \cup {Head(queue[0])}
    BY <1>4, MoveQueues
  <2> QED
    BY <1>5, <2>1, LossNames
<1>7. \A k \in Loss!ToQueues : Range(queue'[k]) \subseteq Range(queue[k]) \cup {x}
  BY <1>6
<1>8. LossTypes' /\ LossStart'
  BY <1>1, <1>6 DEF LossInv, LossTypes, LossStart
<1>9. LossTargets'
  <2>1. \A m \in Range(queue'[0]) : m = Loss!StopMessage \/ m.target \in Loss!ToQueues
    BY <1>6 DEF LossInv, LossTargets
  <2>2. ASSUME NEW k \in Loss!Consumers, NEW m \in Range(queue'[k])
        PROVE  m = Loss!StopMessage \/ m.target = k
    <3>1. k \in Loss!ToQueues /\ \A y \in Range(queue[k]) : y = Loss!StopMessage \/ y.target = k
      BY LossNames DEF LossInv, LossTargets
    <3>2. m \in Range(queue[k]) \/ (k = t /\ m = x)
      BY <1>6, <3>1
    <3> QED
      BY <1>5, <3>1, <3>2
  <2>3. \A k \in Loss!Consumers : \A m \in Range(received[k]) : m.target = k
    BY DEF LossInv, LossTargets
  <2> QED
    BY <1>1, <2>1, <2>2, <2>3 DEF LossTargets
<1>10. LossNumbers'
  <2>1. x.source = 1 => x.number < produced
    BY <1>2 DEF LossInv, LossNumbers
  <2> QED
    BY <1>1, <1>6, <1>7, <2>1, LossNames DEF LossInv, LossNumbers
<1>11. LossPaths'
  BY <1>1, <1>4, MovePaths DEF LossInv, LossPaths
<1>12. LossStops'
  <2>1. \A k \in Loss!ToQueues : Loss!StopMessage \notin Range(queue[k])
    BY <1>1 DEF LossInv, LossStops
  <2>2. ASSUME NEW k \in Loss!ToQueues
        PROVE  Related(Range(queue[k]), {Head(queue[0])}, Loss!Messages, LossNoneAfter)
    BY <2>1 DEF Related, LossNoneAfter, LossPairs
  <2>3. ChainsHold(queue', Loss!ToQueues, Loss!Messages, LossNoneAfter)
    <3>1. /\ ChainsHold(queue, Loss!ToQueues, Loss!Messages, LossNoneAfter)
          /\ Loss!ToQueues \subseteq LossQueues \ {0}
      BY LossNames DEF LossInv, LossStops
    <3> QED
      BY <1>4, <2>2, <3>1, MoveChains
  <2>4. Chain(queue'[0], Loss!Messages, LossResentAfter)
    <3>1. queue[0] \in Seq(Loss!Messages) /\ queue[0] # <<>>
      BY <1>1, LossSets
    <3>2. Chain(queue[0], Loss!Messages, LossResentAfter)
      BY DEF LossInv, LossStops
    <3> QED
      BY <1>6, <3>1, <3>2, ChainTail
  <2>5. \A k \in Loss!ToQueues : Loss!StopMessage \notin Range(queue'[k])
    BY <1>1, <1>7, <2>1
  <2> QED
    BY <1>1, <1>6, <2>3, <2>4, <2>5 DEF LossInv, LossStops
<1> QED
  BY <1>8, <1>9, <1>10, <1>11, <1>12 DEF LossInv

\* The dispatcher hands its stop to everyone.
LEMMA LossDispatcherStop == ASSUME LossInv, Loss!DispatcherStop  PROVE LossInv'
<1> DEFINE x == Loss!StopMessage
<1>1. /\ pc.dispatcher = "consume" /\ queue[0] # <<>> /\ Head(queue[0]) = x
      /\ queue' = [k \in 0..Loss!Assembler |-> IF k = 0 THEN Tail(queue[0])
                                               ELSE Append(queue[k], x)]
      /\ pc' = [pc EXCEPT !.dispatcher = "done"]
      /\ UNCHANGED <<worker, produced, received>>
  BY DEF Loss!DispatcherStop, Loss!Stopped, Loss!First
<1>2. x \in Loss!Messages /\ x.source = 0 /\ x = Loss!StopMessage
  BY LossStopIs
<1> HIDE DEF x
<1>3. Spreads(LossQueues, Loss!Messages, queue, queue')
  BY <1>1, LossSets DEF Spreads, LossQueues
<1>4. /\ Queues(LossQueues, Loss!Messages, queue')
      /\ queue'[0] = Tail(queue[0])
      /\ \A k \in Loss!ToQueues : Range(queue'[k]) = Range(queue[k]) \cup {x}
      /\ Range(queue[0]) = {x} \cup Range(queue'[0])
  <2>1. /\ Queues(LossQueues, Loss!Messages, queue')
        /\ queue'[0] = Tail(queue[0])
        /\ \A k \in LossQueues : k # 0 =>
             /\ queue'[k] = Append(queue[k], Head(queue[0]))
             /\ Range(queue'[k]) = Range(queue[k]) \cup {Head(queue[0])}
        /\ Range(queue[0]) = {Head(queue[0])} \cup Range(queue'[0])
    BY <1>3, SpreadQueues, SMTT(20)
  <2> QED
    BY <1>1, <2>1, LossNames
<1>5. /\ LossTypes'
      /\ pc'.producer = pc.producer /\ pc'.main = pc.main /\ pc'.dispatcher = "done"
  BY <1>1, <1>4 DEF LossInv, LossTypes
<1>6. LossStart'
  BY <1>1, <1>5 DEF LossInv, LossStart
<1>7. LossTargets' /\ LossNumbers'
  <2>1. /\ Range(queue'[0]) \subseteq Range(queue[0])
        /\ \A k \in Loss!Consumers : Range(queue'[k]) = Range(queue[k]) \cup {x}
        /\ UNCHANGED <<produced, received>>
    BY <1>1, <1>4, LossNames
  <2>2. LossTargets'
    BY <1>2, <2>1 DEF LossInv, LossTargets
  <2>3. LossNumbers'
    BY <1>2, <2>1 DEF LossInv, LossNumbers
  <2> QED
    BY <2>2, <2>3
<1>8. LossPaths'
  BY <1>1, <1>3, SpreadPaths DEF LossInv, LossPaths
<1>9. LossStops'
  <2>1. \A k \in Loss!ToQueues : Loss!StopMessage \notin Range(queue[k])
    BY <1>1 DEF LossInv, LossStops
  <2>2. ASSUME NEW k \in Loss!ToQueues
        PROVE  Related(Range(queue[k]), {Head(queue[0])}, Loss!Messages, LossNoneAfter)
    BY <2>1 DEF Related, LossNoneAfter, LossPairs
  <2>3. ChainsHold(queue', Loss!ToQueues, Loss!Messages, LossNoneAfter)
    BY <1>3, <2>2, SpreadChains, LossNames DEF LossInv, LossStops
  <2>4. /\ Chain(queue'[0], Loss!Messages, LossResentAfter)
        /\ Related({x}, Range(queue'[0]), Loss!Messages, LossResentAfter)
    BY <1>1, <1>4, LossSets, ChainTail, SMTT(20) DEF LossInv, LossStops
  <2>5. \A m \in Range(queue'[0]) : m.source = Loss!Assembler
    <3>1. Range(queue'[0]) \subseteq Loss!Messages
      BY <1>4, LossSets
    <3> QED
      BY <1>2, <2>4, <3>1 DEF Related, LossResentAfter
  <2>6. pc.producer = "done"
    BY <1>2, <1>4 DEF LossInv, LossStops
  <2>7. \A k \in Loss!ToQueues : worker'[k] # "done"
    BY <1>1 DEF LossInv, LossStops
  <2> QED
    BY <1>5, <2>3, <2>4, <2>5, <2>6, <2>7 DEF LossStops
<1> QED
  BY <1>5, <1>6, <1>7, <1>8, <1>9 DEF LossInv

\* What the pop of a consumer or of the assembler leaves true.
LEMMA LossTaken ==
  ASSUME LossInv, NEW t \in Loss!ToQueues,
         Takes(LossQueues, Loss!Messages, queue, t, queue'),
         \/ received' = received
         \/ /\ t \in Loss!Consumers /\ Head(queue[t]) # Loss!StopMessage
            /\ received' = [received EXCEPT ![t] = Append(@, Head(queue[t]))],
         produced' = produced
  PROVE  /\ LossTargets' /\ LossNumbers' /\ LossPaths'
         /\ Queues(LossQueues, Loss!Messages, queue')
         /\ received' \in [Loss!Consumers -> Seq(Loss!Messages)]
         /\ queue'[0] = queue[0]
         /\ \A k \in Loss!ToQueues : Range(queue'[k]) \subseteq Range(queue[k])
         /\ \A k \in Loss!ToQueues : k # t => queue'[k] = queue[k]
         /\ Head(queue[t]) \in Range(queue[t])
         /\ ChainsHold(queue', Loss!ToQueues, Loss!Messages, LossNoneAfter)
         /\ Related({Head(queue[t])}, Range(queue'[t]), Loss!Messages, LossNoneAfter)
<1> DEFINE x == Head(queue[t])
<1>1. /\ Queues(LossQueues, Loss!Messages, queue') /\ queue'[0] = queue[0]
      /\ \A k \in LossQueues : k # t => queue'[k] = queue[k]
      /\ x \in Loss!Messages /\ Range(queue[t]) = {x} \cup Range(queue'[t])
  BY TakeQueues
<1>2. /\ \A k \in Loss!ToQueues : k # t => queue'[k] = queue[k]
      /\ \A k \in Loss!ToQueues : Range(queue'[k]) \subseteq Range(queue[k])
      /\ x \in Range(queue[t])
  BY <1>1, LossNames
<1>3. LossPaths'
  <2>1. \/ received' = received
        \/ /\ t \in Loss!Consumers
           /\ received' = [received EXCEPT ![t] = Append(@, Head(queue[t]))]
    OBVIOUS
  <2>2. PathsHold(LossQueues, Loss!Messages, Loss!Consumers, received, queue,
                  LossMine, LossEarlier)
    BY DEF LossInv, LossPaths
  <2>3. PathsHold(LossQueues, Loss!Messages, Loss!Consumers, received', queue',
                  LossMine, LossEarlier)
    BY <2>1, <2>2, TakePaths
  <2> QED
    BY <2>3 DEF LossPaths
<1>4. /\ received' \in [Loss!Consumers -> Seq(Loss!Messages)]
      /\ \A k \in Loss!Consumers :
           \/ Range(received'[k]) = Range(received[k])
           \/ /\ k = t /\ x # Loss!StopMessage
              /\ Range(received'[k]) = Range(received[k]) \cup {x}
  <2>1. received' \in [Loss!Consumers -> Seq(Loss!Messages)]
    BY <1>3 DEF LossPaths, PathsHold
  <2>2. CASE received' = received
    BY <2>1, <2>2
  <2>3. CASE /\ t \in Loss!Consumers /\ x # Loss!StopMessage
             /\ received' = [received EXCEPT ![t] = Append(@, x)]
    <3>1. received \in [Loss!Consumers -> Seq(Loss!Messages)]
      BY DEF LossInv, LossTypes
    <3> HIDE DEF x
    <3>2. Range(Append(received[t], x)) = Range(received[t]) \cup {x}
      BY <1>1, <2>3, <3>1, RangeAppend
    <3>3. \A k \in Loss!Consumers :
            received'[k] = IF k = t THEN Append(received[t], x) ELSE received[k]
      BY <2>3, <3>1
    <3> QED
      BY <2>1, <2>3, <3>2, <3>3
  <2> QED
    BY <2>1, <2>2, <2>3
<1> HIDE DEF x
<1>5. LossTargets'
  BY <1>1, <1>2, <1>4, LossNames DEF LossInv, LossTargets
<1>6. LossNumbers'
  BY <1>1, <1>2, <1>4, LossNames DEF LossInv, LossNumbers
<1>7. /\ ChainsHold(queue', Loss!ToQueues, Loss!Messages, LossNoneAfter)
      /\ Related({Head(queue[t])}, Range(queue'[t]), Loss!Messages, LossNoneAfter)
  <2>1. ChainsHold(queue, Loss!ToQueues, Loss!Messages, LossNoneAfter)
    BY DEF LossInv, LossStops
  <2>2. Loss!ToQueues \subseteq LossQueues \ {0}
    BY LossNames
  <2> QED
    BY <2>1, <2>2, TakeChains
<1> QED
  BY <1>1, <1>2, <1>3, <1>4, <1>5, <1>6, <1>7 DEF x

\* A consumer's message, and one the assembler loses.
LEMMA LossConsume ==
  ASSUME LossInv, NEW t \in Loss!ToQueues,
         \/ t \in Loss!Consumers /\ Loss!Consume(t)
         \/ t = Loss!Assembler /\ Loss!Discard
  PROVE  LossInv'
<1>1. /\ worker[t] = "consume" /\ queue[t] # <<>> /\ Head(queue[t]) # Loss!StopMessage
      /\ queue' = [queue EXCEPT ![t] = Tail(@)]
      /\ \/ received' = received
         \/ /\ t \in Loss!Consumers
            /\ received' = [received EXCEPT ![t] = Append(@, Head(queue[t]))]
      /\ UNCHANGED <<pc, worker, produced>>
  BY DEF Loss!Consume, Loss!Discard, Loss!Ready, Loss!First
<1>2. Takes(LossQueues, Loss!Messages, queue, t, queue')
  BY <1>1, LossSets, LossNames DEF Takes
<1>3. /\ LossTargets' /\ LossNumbers' /\ LossPaths'
      /\ Queues(LossQueues, Loss!Messages, queue')
      /\ received' \in [Loss!Consumers -> Seq(Loss!Messages)]
      /\ queue'[0] = queue[0]
      /\ \A k \in Loss!ToQueues : Range(queue'[k]) \subseteq Range(queue[k])
      /\ \A k \in Loss!ToQueues : k # t => queue'[k] = queue[k]
      /\ ChainsHold(queue', Loss!ToQueues, Loss!Messages, LossNoneAfter)
  BY <1>1, <1>2, LossTaken
<1>4. LossTypes' /\ LossStart'
  BY <1>1, <1>3 DEF LossInv, LossTypes, LossStart
<1>5. LossStops'
  BY <1>1, <1>3 DEF LossInv, LossStops
<1> QED
  BY <1>3, <1>4, <1>5 DEF LossInv

\* A consumer or the assembler takes the stop; nothing is left behind it.
LEMMA LossWorkerStop ==
  ASSUME LossInv, NEW t \in Loss!ToQueues, Loss!WorkerStop(t)  PROVE LossInv'
<1>1. /\ worker[t] = "consume" /\ queue[t] # <<>> /\ Head(queue[t]) = Loss!StopMessage
      /\ queue' = [queue EXCEPT ![t] = Tail(@)]
      /\ worker' = [worker EXCEPT ![t] = "done"]
      /\ UNCHANGED <<pc, produced, received>>
  BY DEF Loss!WorkerStop, Loss!Stopped, Loss!First
<1>2. Takes(LossQueues, Loss!Messages, queue, t, queue')
  BY <1>1, LossSets, LossNames DEF Takes
<1>3. /\ LossTargets' /\ LossNumbers' /\ LossPaths'
      /\ Queues(LossQueues, Loss!Messages, queue')
      /\ received' \in [Loss!Consumers -> Seq(Loss!Messages)]
      /\ queue'[0] = queue[0]
      /\ \A k \in Loss!ToQueues : Range(queue'[k]) \subseteq Range(queue[k])
      /\ \A k \in Loss!ToQueues : k # t => queue'[k] = queue[k]
      /\ Head(queue[t]) \in Range(queue[t])
      /\ ChainsHold(queue', Loss!ToQueues, Loss!Messages, LossNoneAfter)
      /\ Related({Head(queue[t])}, Range(queue'[t]), Loss!Messages, LossNoneAfter)
  BY <1>1, <1>2, LossTaken
<1>4. /\ LossTypes'
      /\ worker'[t] = "done" /\ \A k \in Loss!ToQueues : k # t => worker'[k] = worker[k]
  BY <1>1, <1>3 DEF LossInv, LossTypes
<1>5. pc.dispatcher = "done"
  BY <1>1, <1>3 DEF LossInv, LossStops
<1>6. LossStart'
  BY <1>1, <1>5 DEF LossInv, LossStart
<1>7. queue'[t] = <<>>
  <2>1. queue'[t] \in Seq(Loss!Messages)
    BY <1>3, QueuesAre, LossNames
  <2>2. Range(queue'[t]) \subseteq Loss!Messages
    BY <2>1, RangeType
  <2>3. \A y \in Range(queue'[t]) : FALSE
    BY <1>1, <1>3, <2>2, LossStopIs DEF Related, LossNoneAfter
  <2> QED
    BY <2>1, <2>3, RangeType
<1>8. LossStops'
  BY <1>1, <1>3, <1>4, <1>5, <1>7 DEF LossInv, LossStops
<1> QED
  BY <1>3, <1>4, <1>6, <1>8 DEF LossInv

\* The assembler sends a packet again.
LEMMA LossRedirect ==
  ASSUME LossInv, NEW target \in Loss!Consumers, Loss!Redirect(target)  PROVE LossInv'
<1> DEFINE t == Loss!Assembler
           x == [target |-> target, source |-> Loss!Assembler, number |-> 0]
           q == [queue EXCEPT ![t] = Tail(@)]
<1>1. /\ worker[t] = "consume" /\ queue[t] # <<>> /\ Head(queue[t]) # Loss!StopMessage
      /\ queue' = [queue EXCEPT ![t] = Tail(@), ![0] = Append(@, x)]
      /\ UNCHANGED <<pc, worker, produced, received>>
  BY DEF Loss!Redirect, Loss!Ready, Loss!First
<1>2. /\ x \in Loss!Messages /\ x.target = target /\ x.source = t /\ x # Loss!StopMessage
      /\ x.source # 1
  <2>1. /\ target \in 0..Loss!Assembler /\ Loss!Assembler \in 0..Loss!Assembler
        /\ 0 \in 0..PackageCount /\ Loss!Assembler # 1 /\ Loss!Assembler # 0
    BY LossConstants
  <2> QED
    BY <2>1, LossMessage, LossStopIs
<1>3. t \in Loss!ToQueues /\ t \in LossQueues \ {0} /\ t # 0 /\ 0 \in LossQueues
  BY LossNames
<1>4. queue \in [LossQueues -> Seq(Loss!Messages)]
  BY LossSets, QueuesAre
<1> HIDE DEF x, t
<1>5. queue' = [q EXCEPT ![0] = Append(@, x)]
  BY <1>1, <1>3, <1>4
<1>6. Takes(LossQueues, Loss!Messages, queue, t, q)
  BY <1>1, <1>3, LossSets DEF Takes
<1> HIDE DEF q
<1>7. /\ Queues(LossQueues, Loss!Messages, q) /\ q[0] = queue[0]
      /\ q[t] = Tail(queue[t])
      /\ \A k \in LossQueues : k # t => q[k] = queue[k]
      /\ Range(queue[t]) = {Head(queue[t])} \cup Range(q[t])
  BY <1>6, TakeQueues
<1>8. Enters(LossQueues, Loss!Messages, q, x, queue')
  BY <1>2, <1>5, <1>7 DEF Enters
<1>9. /\ Queues(LossQueues, Loss!Messages, queue')
      /\ queue'[0] = Append(queue[0], x) /\ Range(queue'[0]) = Range(queue[0]) \cup {x}
      /\ \A k \in LossQueues : k # 0 => queue'[k] = q[k]
  <2>1. /\ Queues(LossQueues, Loss!Messages, queue')
        /\ queue'[0] = Append(q[0], x) /\ Range(queue'[0]) = Range(q[0]) \cup {x}
        /\ \A k \in LossQueues : k # 0 => queue'[k] = q[k]
    BY <1>8, EnterQueues
  <2> QED
    BY <1>7, <2>1
<1>10. /\ \A k \in Loss!ToQueues : Range(queue'[k]) \subseteq Range(queue[k])
       /\ \A k \in Loss!ToQueues : k # t => queue'[k] = queue[k]
       /\ \A k \in Loss!Consumers : queue'[k] = queue[k]
  BY <1>7, <1>9, LossNames DEF t
<1>11. LossTypes' /\ LossStart'
  BY <1>1, <1>9 DEF LossInv, LossTypes, LossStart
<1>12. LossTargets' /\ LossNumbers'
  <2>1. LossTargets'
    BY <1>1, <1>2, <1>9, <1>10, LossNames DEF LossInv, LossTargets
  <2>2. LossNumbers'
    BY <1>1, <1>2, <1>9, <1>10, LossNames DEF LossInv, LossNumbers
  <2> QED
    BY <2>1, <2>2
<1>13. LossPaths'
  <2>1. PathsHold(LossQueues, Loss!Messages, Loss!Consumers, received, queue,
                  LossMine, LossEarlier)
    BY DEF LossInv, LossPaths
  <2>2. PathsHold(LossQueues, Loss!Messages, Loss!Consumers, received, q,
                  LossMine, LossEarlier)
    BY <1>6, <2>1, TakePaths
  <2>3. ASSUME NEW k \in Loss!Consumers, NEW S
        PROVE  Related(S, {x}, LossMine[k], LossEarlier)
    BY <1>2, LossForeign
  <2>4. PathsHold(LossQueues, Loss!Messages, Loss!Consumers, received, queue',
                  LossMine, LossEarlier)
    BY <1>8, <2>2, <2>3, EnterPaths
  <2> QED
    BY <1>1, <2>4 DEF LossPaths
<1>14. LossStops'
  <2>1. /\ ChainsHold(queue, Loss!ToQueues, Loss!Messages, LossNoneAfter)
        /\ Loss!ToQueues \subseteq LossQueues \ {0}
    BY LossNames DEF LossInv, LossStops
  <2>2. ChainsHold(q, Loss!ToQueues, Loss!Messages, LossNoneAfter)
    BY <1>6, <2>1, TakeChains
  <2>3. ChainsHold(queue', Loss!ToQueues, Loss!Messages, LossNoneAfter)
    BY <1>9, <2>1, <2>2 DEF ChainsHold
  <2>4. Related(Range(queue[0]), {x}, Loss!Messages, LossResentAfter)
    BY <1>2 DEF Related, LossResentAfter, LossPairs, t
  <2>5. Chain(queue'[0], Loss!Messages, LossResentAfter)
    BY <1>2, <1>9, <2>4, LossSets, ChainAppend DEF LossInv, LossStops
  <2>6. \A k \in Loss!ToQueues : worker[k] = "done" => queue'[k] = <<>> /\ pc.dispatcher = "done"
    BY <1>1, <1>10 DEF LossInv, LossStops
  <2>7. pc.dispatcher = "done" => /\ pc.producer = "done"
                                  /\ \A m \in Range(queue'[0]) : m.source = Loss!Assembler
    BY <1>2, <1>9 DEF LossInv, LossStops, t
  <2>8. Loss!StopMessage \in Range(queue'[0]) => pc.producer = "done"
    BY <1>2, <1>9 DEF LossInv, LossStops
  <2>9. pc.dispatcher # "done" =>
          \A k \in Loss!ToQueues : Loss!StopMessage \notin Range(queue'[k])
    BY <1>10 DEF LossInv, LossStops
  <2> QED
    BY <1>1, <2>3, <2>5, <2>6, <2>7, <2>8, <2>9 DEF LossStops
<1> QED
  BY <1>11, <1>12, <1>13, <1>14 DEF LossInv

\* Every step of the simulation preserves the invariant.
LEMMA LossStep == LossInv /\ [Loss!Next]_(Loss!vars) => LossInv'
<1> SUFFICES ASSUME LossInv, [Loss!Next]_(Loss!vars)  PROVE LossInv'
  OBVIOUS
<1>1. CASE Loss!StartThreads \/ Loss!Join \/ UNCHANGED Loss!vars
  BY <1>1, LossMain
<1>2. CASE Loss!ProducerSteps
  BY <1>2, LossProduce, LossProducerStop DEF Loss!ProducerSteps
<1>3. CASE Loss!DispatcherSteps
  BY <1>3, LossDispatch, LossDispatcherStop DEF Loss!DispatcherSteps
<1>4. ASSUME NEW k \in Loss!Consumers, Loss!ConsumerSteps(k)  PROVE LossInv'
  BY <1>4, LossConsume, LossWorkerStop, LossNames DEF Loss!ConsumerSteps
<1>5. CASE Loss!AssemblerSteps
  BY <1>5, LossConsume, LossWorkerStop, LossRedirect, LossNames DEF Loss!AssemblerSteps
<1> QED
  BY <1>1, <1>2, <1>3, <1>4, <1>5 DEF Loss!Next

\* Behind the stop, and behind what was consumed, comes what has to come.
LEMMA LossOrder == LossInv => Loss!InOrder /\ Loss!LeavesNothing
<1> SUFFICES ASSUME LossInv  PROVE Loss!InOrder /\ Loss!LeavesNothing
  OBVIOUS
<1>1. Loss!LeavesNothing
  BY LossSets, RangeType DEF LossInv, LossStops, Loss!LeavesNothing
<1>2. ASSUME NEW k \in Loss!Consumers
      PROVE  LET path == received[k] \o queue[k] \o queue[0]
                 Mine(i) == path[i].source = 1 /\ path[i].target = k
             IN  /\ \A i \in 1..Len(received[k]) : received[k][i].target = k
                 /\ \A i, j \in 1..Len(path) :
                      i < j /\ Mine(i) /\ Mine(j) => path[i].number < path[j].number
  <2> DEFINE path == received[k] \o queue[k] \o queue[0]
  <2>1. /\ received[k] \in Seq(Loss!Messages) /\ queue[k] \in Seq(Loss!Messages)
        /\ queue[0] \in Seq(Loss!Messages)
    BY LossSets, LossNames
  <2>2. path \in Seq(Loss!Messages)
    BY <2>1, ConcatProperties
  <2>3. Chain(path, LossMine[k], LossEarlier)
    <3>1. InPath(received[k], queue[k], queue[0], LossMine[k], LossEarlier)
      BY DEF LossInv, LossPaths, PathsHold
    <3> QED
      BY <2>1, <3>1, PathChain
  <2> HIDE DEF path
  <2>4. \A i \in 1..Len(path) : path[i] \in Loss!Messages
    BY <2>2
  <2>5. ASSUME NEW i \in 1..Len(path), NEW j \in 1..Len(path), i < j,
               path[i].source = 1, path[i].target = k,
               path[j].source = 1, path[j].target = k
        PROVE  path[i].number < path[j].number
    <3>1. path[i] \in LossMine[k] /\ path[j] \in LossMine[k]
      BY <2>4, <2>5 DEF LossMine
    <3>2. <<path[i], path[j]>> \in LossEarlier
      BY <2>3, <2>5, <3>1 DEF Chain
    <3> QED
      BY <3>2 DEF LossEarlier
  <2>6. \A i \in 1..Len(received[k]) : received[k][i].target = k
    BY <2>1, RangeType DEF LossInv, LossTargets
  <2> QED
    BY <2>5, <2>6 DEF path
<1> QED
  BY <1>1, <1>2 DEF Loss!InOrder

-----------------------------------------------------------------------------
(* network_simul_packet_loss2                                              *)

\* No stop passes the assembler, and what it sends has a consumer as target.
Loss2Inv ==
  /\ produced \in 0..PackageCount
  /\ queue \in [0..Loss2!Assembler -> Seq(Loss2!Messages)]
  /\ \A k \in 0..ConsumerCount : Loss2!StopMessage \notin Range(queue[k])
  /\ \A m \in Range(queue[0]) : m.target \in Loss2!Consumers

\* The messages in the queues, and which queue is whose.
LEMMA Loss2Sets ==
  ASSUME Loss2Inv
  PROVE  /\ \A k \in 0..Loss2!Assembler : queue[k] \in Seq(Loss2!Messages)
         /\ 0 \in 0..Loss2!Assembler /\ Loss2!Assembler \in 0..Loss2!Assembler
         /\ Loss2!Assembler \notin 0..ConsumerCount /\ 0 \in 0..ConsumerCount
         /\ 0..ConsumerCount \subseteq 0..Loss2!Assembler
         /\ Loss2!Consumers \subseteq 0..ConsumerCount
         /\ Loss2!Assembler # 0 /\ 0 \notin Loss2!Consumers
<1>1. ConsumerCount \in Nat /\ ConsumerCount > 0
  BY SimulationsAssumption DEF Loss2!CountsAssumption
<1> QED
  BY <1>1 DEF Loss2Inv, Loss2!Assembler, Loss2!Consumers

\* A message or the stop of the producer waits for the assembler.
LEMMA Loss2Pushed ==
  ASSUME Loss2Inv, NEW x \in Loss2!Messages,
         queue' = [queue EXCEPT ![Loss2!Assembler] = Append(@, x)],
         produced' \in 0..PackageCount
  PROVE  Loss2Inv'
<1> DEFINE D == 0..Loss2!Assembler
           a == Append(queue[Loss2!Assembler], x)
<1>1. /\ queue \in [D -> Seq(Loss2!Messages)] /\ a \in Seq(Loss2!Messages)
      /\ Loss2!Assembler \in D /\ 0 \in D
  BY Loss2Sets DEF Loss2Inv
<1> HIDE DEF D, a
<1>2. queue' = [queue EXCEPT ![Loss2!Assembler] = a]
  BY DEF a
<1>3. /\ queue' \in [D -> Seq(Loss2!Messages)]
      /\ \A k \in D : k # Loss2!Assembler => queue'[k] = queue[k]
  BY <1>1, <1>2
<1>4. \A k \in 0..ConsumerCount : queue'[k] = queue[k]
  BY <1>3, Loss2Sets DEF D
<1> QED
  BY <1>3, <1>4, Loss2Sets DEF Loss2Inv, D

\* A queue other than the dispatcher's loses its first message.
LEMMA Loss2Taken ==
  ASSUME Loss2Inv, NEW t \in 0..Loss2!Assembler, t # 0, queue[t] # <<>>,
         NEW q, q = [queue EXCEPT ![t] = Tail(@)]
  PROVE  /\ q \in [0..Loss2!Assembler -> Seq(Loss2!Messages)]
         /\ q[0] = queue[0]
         /\ \A k \in 0..ConsumerCount : Range(q[k]) \subseteq Range(queue[k])
<1> DEFINE D == 0..Loss2!Assembler
           a == Tail(queue[t])
<1>1. /\ queue \in [D -> Seq(Loss2!Messages)] /\ t \in D /\ 0 \in D
      /\ a \in Seq(Loss2!Messages) /\ Range(a) \subseteq Range(queue[t])
  <2>1. queue[t] \in Seq(Loss2!Messages)
    BY Loss2Sets
  <2> QED
    BY <2>1, RangeTail, Loss2Sets DEF Loss2Inv
<1> HIDE DEF D, a
<1>2. q = [queue EXCEPT ![t] = a]
  BY DEF a
<1>3. /\ q \in [D -> Seq(Loss2!Messages)] /\ q[t] = a
      /\ \A k \in D : k # t => q[k] = queue[k]
  BY <1>1, <1>2
<1>4. \A k \in 0..ConsumerCount : (q[k] = a /\ k = t) \/ q[k] = queue[k]
  BY <1>3, Loss2Sets DEF D
<1> QED
  BY <1>1, <1>3, <1>4 DEF D

\* The empty network satisfies the invariant.
LEMMA Loss2Initially == Loss2!Init => Loss2Inv
<1> SUFFICES ASSUME Loss2!Init  PROVE Loss2Inv
  OBVIOUS
<1>1. /\ queue = [k \in 0..Loss2!Assembler |-> <<>>] /\ produced = 0
      /\ PackageCount \in Nat
      /\ ConsumerCount \in Nat /\ Loss2!Assembler = ConsumerCount + 1
  BY SimulationsAssumption DEF Loss2!Init, Loss2!CountsAssumption, Loss2!Assembler
<1>2. queue[0] = <<>> /\ \A k \in 0..ConsumerCount : queue[k] = <<>>
  BY <1>1
<1>3. Range(<<>>) = {}
  <2>1. <<>> \in Seq(Loss2!Messages)
    OBVIOUS
  <2> QED
    BY <2>1, RangeType
<1> QED
  BY <1>1, <1>2, <1>3 DEF Loss2Inv

\* What the messages are.
LEMMA Loss2Message ==
  ASSUME Loss2Inv
  PROVE  /\ Loss2!StopMessage \in Loss2!Messages
         /\ Loss2!StopMessage.target = 0
         /\ \A t \in 1..Loss2!Assembler :
              [target |-> t, source |-> 1, number |-> produced] \in Loss2!Messages
         /\ \A t \in Loss2!Consumers :
              LET x == [target |-> t, source |-> Loss2!Assembler, number |-> 0]
              IN  x \in Loss2!Messages /\ x.target = t /\ x # Loss2!StopMessage
<1>1. /\ PackageCount \in Nat /\ ConsumerCount \in Nat /\ ConsumerCount > 0
      /\ produced \in 0..PackageCount
  BY SimulationsAssumption DEF Loss2!CountsAssumption, Loss2Inv
<1>2. /\ 0 \in 0..Loss2!Assembler /\ 0 \in 0..PackageCount /\ 1 \in 0..Loss2!Assembler
      /\ Loss2!Assembler \in 0..Loss2!Assembler
      /\ 1..Loss2!Assembler \subseteq 0..Loss2!Assembler
      /\ \A t \in Loss2!Consumers : t \in 0..Loss2!Assembler /\ t # 0
  BY <1>1 DEF Loss2!Assembler, Loss2!Consumers
<1> QED
  BY <1>1, <1>2 DEF Loss2!Messages, Loss2!StopMessage

\* The dispatcher's step.
LEMMA Loss2Dispatch == ASSUME Loss2Inv, Loss2!Dispatch  PROVE Loss2Inv'
<1> DEFINE D == 0..Loss2!Assembler
           x == Head(queue[0])
           t == x.target
<1>1. /\ queue[0] # <<>> /\ x # Loss2!StopMessage
      /\ queue' = [queue EXCEPT ![0] = Tail(@), ![t] = Append(@, x)]
      /\ produced' = produced
  BY DEF Loss2!Dispatch, Loss2!Ready, Loss2!First
<1>2. x \in Range(queue[0])
  BY <1>1, Loss2Sets, RangeTail
<1>3. t \in Loss2!Consumers /\ t \in D \ {0}
  BY <1>2, Loss2Sets DEF Loss2Inv
<1>4. Moves(D, Loss2!Messages, queue, t, queue')
  BY <1>1, <1>3, Loss2Sets DEF Moves, Queues, Loss2Inv
<1>5. x = Head(queue[0])
  OBVIOUS
<1> HIDE DEF x, t, D
<1>6. /\ Queues(D, Loss2!Messages, queue')
      /\ \A k \in D : k # t /\ k # 0 => queue'[k] = queue[k]
      /\ Range(queue[0]) = {Head(queue[0])} \cup Range(queue'[0])
      /\ Range(queue'[t]) = Range(queue[t]) \cup {Head(queue[0])}
  BY <1>4, MoveQueues
<1>7. \A k \in 0..ConsumerCount : k \in D
  BY Loss2Sets DEF D
<1>8. \A k \in 0..ConsumerCount : Range(queue'[k]) \subseteq Range(queue[k]) \cup {x}
  BY <1>5, <1>6, <1>7
<1>9. \A m \in Range(queue'[0]) : m.target \in Loss2!Consumers
  BY <1>6 DEF Loss2Inv
<1>10. queue' \in [D -> Seq(Loss2!Messages)]
  BY <1>6 DEF Queues
<1> QED
  BY <1>1, <1>8, <1>9, <1>10 DEF Loss2Inv, D

\* The assembler's packet in place of the one it took.
LEMMA Loss2Redirect ==
  ASSUME Loss2Inv, NEW target \in Loss2!Consumers, Loss2!Redirect(target)
  PROVE  Loss2Inv'
<1> DEFINE D == 0..Loss2!Assembler
           t == Loss2!Assembler
           x == [target |-> target, source |-> Loss2!Assembler, number |-> 0]
           q == [queue EXCEPT ![t] = Tail(@)]
<1>1. /\ queue[t] # <<>> /\ produced' = produced
      /\ queue' = [queue EXCEPT ![t] = Tail(@), ![0] = Append(@, x)]
  BY DEF Loss2!Redirect, Loss2!Ready
<1>2. x \in Loss2!Messages /\ x.target = target /\ x # Loss2!StopMessage
  BY Loss2Message
<1>3. t \in D /\ t # 0 /\ 0 \in D /\ queue \in [D -> Seq(Loss2!Messages)]
  BY Loss2Sets DEF Loss2Inv
<1> HIDE DEF x, t
<1>4. queue' = [q EXCEPT ![0] = Append(@, x)]
  BY <1>1, <1>3
<1>5. /\ q \in [D -> Seq(Loss2!Messages)] /\ q[0] = queue[0]
      /\ \A k \in 0..ConsumerCount : Range(q[k]) \subseteq Range(queue[k])
  <2>1. q = [queue EXCEPT ![t] = Tail(@)]
    OBVIOUS
  <2> HIDE DEF q
  <2> QED
    BY <1>1, <1>3, <2>1, Loss2Taken
<1> HIDE DEF q, D
<1>6. Enters(D, Loss2!Messages, q, x, queue')
  BY <1>2, <1>3, <1>4, <1>5 DEF Enters, Queues
<1>7. /\ Queues(D, Loss2!Messages, queue')
      /\ Range(queue'[0]) = Range(q[0]) \cup {x}
      /\ \A k \in D : k # 0 => queue'[k] = q[k]
  BY <1>6, EnterQueues
<1>8. \A k \in 0..ConsumerCount : k \in D
  BY Loss2Sets DEF D
<1>9. \A k \in 0..ConsumerCount : Range(queue'[k]) \subseteq Range(queue[k]) \cup {x}
  BY <1>5, <1>7, <1>8
<1>10. \A m \in Range(queue'[0]) : m.target \in Loss2!Consumers
  BY <1>2, <1>5, <1>7 DEF Loss2Inv
<1>11. queue' \in [D -> Seq(Loss2!Messages)]
  BY <1>7 DEF Queues
<1> QED
  BY <1>1, <1>2, <1>9, <1>10, <1>11 DEF Loss2Inv, D

\* Every step preserves the invariant.
LEMMA Loss2Step == Loss2Inv /\ [Loss2!Next]_(Loss2!vars) => Loss2Inv'
<1> SUFFICES ASSUME Loss2Inv, [Loss2!Next]_(Loss2!vars)  PROVE Loss2Inv'
  OBVIOUS
<1>1. CASE Loss2!StartThreads \/ UNCHANGED Loss2!vars
  <2>1. UNCHANGED <<queue, produced>>
    BY <1>1 DEF Loss2!StartThreads, Loss2!vars
  <2> QED
    BY <2>1 DEF Loss2Inv
<1>2. ASSUME NEW k \in 1..Loss2!Assembler, Loss2!Produce(k)  PROVE Loss2Inv'
  <2> DEFINE x == [target |-> k, source |-> 1, number |-> produced]
  <2>1. /\ produced < PackageCount /\ produced' = produced + 1
        /\ queue' = [queue EXCEPT ![Loss2!Assembler] = Append(@, x)]
    BY <1>2 DEF Loss2!Produce, Loss2!Push
  <2>2. x \in Loss2!Messages
    BY Loss2Message
  <2>3. produced' \in 0..PackageCount
    BY <2>1, SimulationsAssumption DEF Loss2Inv, Loss2!CountsAssumption
  <2> HIDE DEF x
  <2> QED
    BY <2>1, <2>2, <2>3, Loss2Pushed
<1>3. CASE Loss2!ProducerStop
  <2>1. /\ queue' = [queue EXCEPT ![Loss2!Assembler] = Append(@, Loss2!StopMessage)]
        /\ produced' \in 0..PackageCount /\ Loss2!StopMessage \in Loss2!Messages
    BY <1>3, Loss2Message DEF Loss2Inv, Loss2!ProducerStop, Loss2!Push
  <2> QED
    BY <2>1, Loss2Pushed
<1>4. ASSUME NEW t \in 0..Loss2!Assembler, t # 0, queue[t] # <<>>,
             queue' = [queue EXCEPT ![t] = Tail(@)], produced' = produced
      PROVE  Loss2Inv'
  <2>1. /\ queue' \in [0..Loss2!Assembler -> Seq(Loss2!Messages)]
        /\ queue'[0] = queue[0]
        /\ \A k \in 0..ConsumerCount : Range(queue'[k]) \subseteq Range(queue[k])
    BY <1>4, Loss2Taken
  <2> QED
    BY <1>4, <2>1 DEF Loss2Inv
<1>5. CASE Loss2!Discard \/ Loss2!AssemblerStop
  <2>1. /\ queue[Loss2!Assembler] # <<>> /\ produced' = produced
        /\ queue' = [queue EXCEPT ![Loss2!Assembler] = Tail(@)]
    BY <1>5 DEF Loss2!Discard, Loss2!AssemblerStop, Loss2!Ready, Loss2!Stopped
  <2> QED
    BY <1>4, <2>1, Loss2Sets
<1>6. ASSUME NEW k \in Loss2!Consumers, Loss2!Consume(k)  PROVE Loss2Inv'
  <2>1. queue[k] # <<>> /\ produced' = produced /\ queue' = [queue EXCEPT ![k] = Tail(@)]
    BY <1>6 DEF Loss2!Consume, Loss2!Ready
  <2>2. k \in 0..Loss2!Assembler /\ k # 0
    BY Loss2Sets
  <2> QED
    BY <1>4, <2>1, <2>2
<1>7. CASE Loss2!ProducerSteps
  BY <1>2, <1>3, <1>7 DEF Loss2!ProducerSteps
<1>8. CASE Loss2!AssemblerSteps
  BY <1>5, <1>8, Loss2Redirect DEF Loss2!AssemblerSteps
<1> QED
  BY <1>1, <1>6, <1>7, <1>8, Loss2Dispatch DEF Loss2!Next

\* No queue but the assembler's has a stop.
LEMMA Loss2Order == Loss2Inv => Loss2!NobodyStops
<1> SUFFICES ASSUME Loss2Inv, NEW k \in 0..ConsumerCount, NEW i \in 1..Len(queue[k])
             PROVE  queue[k][i] # Loss2!StopMessage
  BY DEF Loss2!NobodyStops
<1>1. queue[k] \in Seq(Loss2!Messages)
  BY Loss2Sets
<1>2. queue[k][i] \in Range(queue[k])
  BY <1>1, RangeType
<1> QED
  BY <1>2 DEF Loss2Inv

-----------------------------------------------------------------------------
(* network_simul_producers                                                 *)

ManyQueues == 0..Many!Assembler

ManyTypes ==
  /\ pc \in [main : {"start", "join", "done"},
             dispatcher : {"unstarted", "consume", "done"}]
  /\ worker \in [Many!ToQueues -> {"unstarted", "consume", "done"}]
  /\ producer \in [Many!Producers -> [at : {"unstarted", "take", "produce", "done"},
                                      index : 0..PackageCount]]
  /\ packagesLeft \in 0..PackageCount
  /\ Queues(ManyQueues, Many!Messages, queue)
  /\ received \in [Many!Consumers -> Seq(Many!Messages)]

\* Nothing runs before main starts it.
ManyStart ==
  pc.main = "start" =>
    /\ pc.dispatcher = "unstarted"
    /\ \A k \in Many!ToQueues : worker[k] = "unstarted"

\* What the dispatcher will take has a target.
ManyTargets ==
  \A m \in Range(queue[0]) : m = Many!StopMessage \/ m.target \in Many!ToQueues

\* A number in a producer's hand was taken from the counter, by this one alone.
ManyHands ==
  \A p \in Many!Producers : producer[p].index # 0 =>
    /\ producer[p].index > packagesLeft
    /\ \A q \in Many!Producers \ {p} : producer[p].index # producer[q].index

\* The numbers of a set of messages were taken, and nobody has them in hand.
ManyFresh(S) ==
  \A m \in S : m.source = 1 =>
    /\ m.number > packagesLeft
    /\ \A p \in Many!Producers : m.number # producer[p].index

ManyNumbers ==
  /\ ManyFresh(Range(queue[0]))
  /\ \A k \in Many!Consumers : ManyFresh(Range(queue[k])) /\ ManyFresh(Range(received[k]))

ManyMade == [k \in Many!Consumers |-> {m \in Many!Messages : m.source = 1}]

ManyPairs == Many!Messages \X Many!Messages
ManyDiffer == {p \in ManyPairs : p[1].number # p[2].number}

\* In each consumer's way no number comes twice.
ManyPaths ==
  PathsHold(ManyQueues, Many!Messages, Many!Consumers, received, queue,
            ManyMade, ManyDiffer)

ManyNoneAfter == {p \in ManyPairs : p[1] # Many!StopMessage}

\* Nothing follows the dispatcher's stop to a consumer or the assembler.
ManyStops ==
  /\ ChainsHold(queue, Many!ToQueues, Many!Messages, ManyNoneAfter)
  /\ pc.dispatcher # "done" =>
       \A k \in Many!ToQueues : Many!StopMessage \notin Range(queue[k])
  /\ \A k \in Many!ToQueues : worker[k] = "done" =>
       queue[k] = <<>> /\ pc.dispatcher = "done"

ManyInv ==
  /\ ManyTypes /\ ManyStart /\ ManyTargets /\ ManyHands /\ ManyNumbers
  /\ ManyPaths /\ ManyStops

\* What the constants are.
LEMMA ManyConstants ==
  /\ ConsumerCount \in Nat /\ ConsumerCount > 0 /\ PackageCount \in Nat
  /\ Many!Assembler \in Nat /\ Many!Assembler > 1
  /\ \A k \in Many!ToQueues : k \in 0..Many!Assembler
<1>1. ConsumerCount \in Nat /\ ConsumerCount > 0 /\ PackageCount \in Nat
  BY SimulationsAssumption DEF Many!CountsAssumption
<1> QED
  BY <1>1 DEF Many!Assembler, Many!ToQueues

\* Which queue is whose.
LEMMA ManyNames ==
  /\ ManyQueues = Many!ToQueues \cup {0} /\ 0 \notin Many!ToQueues
  /\ Many!Consumers \subseteq Many!ToQueues
  /\ Many!ToQueues \subseteq ManyQueues \ {0}
  /\ Many!Assembler \in Many!ToQueues /\ Many!Assembler \notin Many!Consumers
  /\ \A k \in Many!ToQueues : k # 0 /\ k \in ManyQueues
  BY ManyConstants DEF Many!Assembler, Many!ToQueues, Many!Consumers, ManyQueues

\* What the stop is.
LEMMA ManyStopIs ==
  /\ Many!StopMessage \in Many!Messages
  /\ Many!StopMessage.target = 0 /\ Many!StopMessage.source = 0
<1>1. 0 \in 0..Many!Assembler /\ 0 \in 0..PackageCount
  BY ManyConstants
<1> QED
  BY <1>1 DEF Many!StopMessage, Many!Messages

\* What a message is.
LEMMA ManyMessage ==
  ASSUME NEW t \in 0..Many!Assembler, NEW s \in 0..Many!Assembler,
         NEW n \in 0..PackageCount
  PROVE  /\ [target |-> t, source |-> s, number |-> n] \in Many!Messages
         /\ [target |-> t, source |-> s, number |-> n].target = t
         /\ [target |-> t, source |-> s, number |-> n].source = s
         /\ [target |-> t, source |-> s, number |-> n].number = n
  BY DEF Many!Messages

\* The messages in the queues and in what was received.
LEMMA ManySets ==
  ASSUME ManyInv
  PROVE  /\ Queues(ManyQueues, Many!Messages, queue)
         /\ queue[0] \in Seq(Many!Messages) /\ Range(queue[0]) \subseteq Many!Messages
         /\ \A k \in Many!ToQueues :
              queue[k] \in Seq(Many!Messages) /\ Range(queue[k]) \subseteq Many!Messages
         /\ \A k \in Many!Consumers :
              received[k] \in Seq(Many!Messages) /\ Range(received[k]) \subseteq Many!Messages
<1>1. /\ Queues(ManyQueues, Many!Messages, queue)
      /\ received \in [Many!Consumers -> Seq(Many!Messages)]
  BY DEF ManyInv, ManyTypes
<1>2. queue[0] \in Seq(Many!Messages) /\ \A k \in ManyQueues : queue[k] \in Seq(Many!Messages)
  BY <1>1, QueuesAre
<1> QED
  BY <1>1, <1>2, ManyNames, RangeType

\* A message that no producer made is nobody's second.
LEMMA ManyForeign ==
  ASSUME NEW x \in Many!Messages, x.source # 1, NEW k \in Many!Consumers, NEW S
  PROVE  Related(S, {x}, ManyMade[k], ManyDiffer)
  BY DEF Related, ManyMade

\* The empty network satisfies the invariant.
LEMMA ManyInitially == Many!Init => ManyInv
<1> SUFFICES ASSUME Many!Init  PROVE ManyInv
  OBVIOUS
<1>1. /\ pc = [main |-> "start", dispatcher |-> "unstarted"]
      /\ worker = [k \in Many!ToQueues |-> "unstarted"]
      /\ producer = [p \in Many!Producers |-> [at |-> "unstarted", index |-> 0]]
      /\ packagesLeft = PackageCount
      /\ queue = [k \in 0..Many!Assembler |-> <<>>]
      /\ received = [k \in Many!Consumers |-> <<>>]
  BY DEF Many!Init
<1>2. ManyTypes
  <2>1. /\ <<>> \in Seq(Many!Messages) /\ packagesLeft \in 0..PackageCount
        /\ 0 \in 0..PackageCount
        /\ Queues(ManyQueues, Many!Messages, queue)
    BY <1>1, ManyConstants DEF Queues, ManyQueues
  <2> QED
    BY <1>1, <2>1 DEF ManyTypes
<1>3. /\ queue[0] = <<>> /\ \A k \in Many!ToQueues : queue[k] = <<>>
      /\ \A k \in Many!Consumers : queue[k] = <<>> /\ received[k] = <<>>
  BY <1>1, ManyNames DEF ManyQueues
<1>4. Range(<<>>) = {}
  <2>1. <<>> \in Seq(Many!Messages)
    OBVIOUS
  <2> QED
    BY <2>1, RangeType
<1>5. ManyStart /\ ManyHands
  BY <1>1 DEF ManyStart, ManyHands
<1>6. ManyTargets /\ ManyNumbers
  BY <1>3, <1>4 DEF ManyTargets, ManyNumbers, ManyFresh
<1>7. ManyPaths
  <2>1. \A K, R : InPath(<<>>, <<>>, <<>>, K, R)
    BY <1>4, ChainEmpty DEF InPath, Related
  <2> QED
    BY <1>2, <1>3, <2>1, ManyNames DEF ManyTypes, ManyPaths, PathsHold
<1>8. ManyStops
  <2>1. ChainsHold(queue, Many!ToQueues, Many!Messages, ManyNoneAfter)
    BY <1>3, ChainEmpty DEF ChainsHold
  <2>2. \A k \in Many!ToQueues : worker[k] = "unstarted"
    BY <1>1
  <2> QED
    BY <1>3, <1>4, <2>1, <2>2 DEF ManyStops
<1> QED
  BY <1>2, <1>5, <1>6, <1>7, <1>8 DEF ManyInv

\* Main starts threads that all stood still, and joins them.
LEMMA ManyMain ==
  ASSUME ManyInv, Many!StartThreads \/ Many!Join \/ UNCHANGED Many!vars
  PROVE  ManyInv'
<1>1. UNCHANGED <<packagesLeft, queue, received>>
  BY DEF Many!StartThreads, Many!Join, Many!vars
<1>2. /\ producer' \in [Many!Producers -> [at : {"unstarted", "take", "produce", "done"},
                                           index : 0..PackageCount]]
      /\ \A p \in Many!Producers : producer'[p].index = producer[p].index
  <2>1. producer \in [Many!Producers -> [at : {"unstarted", "take", "produce", "done"},
                                         index : 0..PackageCount]]
    BY DEF ManyInv, ManyTypes
  <2>2. CASE Many!StartThreads
    <3>1. producer' = [p \in Many!Producers |-> [producer[p] EXCEPT !.at = "take"]]
      BY <2>2 DEF Many!StartThreads
    <3> QED
      BY <2>1, <3>1
  <2>3. CASE Many!Join \/ UNCHANGED Many!vars
    <3>1. producer' = producer
      BY <2>3 DEF Many!Join, Many!vars
    <3> QED
      BY <2>1, <3>1
  <2> QED
    BY <2>2, <2>3
<1>3. ManyTargets' /\ ManyPaths'
  BY <1>1 DEF ManyInv, ManyTargets, ManyPaths, PathsHold
<1>4. ManyHands' /\ ManyNumbers'
  BY <1>1, <1>2 DEF ManyInv, ManyHands, ManyNumbers, ManyFresh
<1>5. CASE Many!StartThreads
  <2>1. /\ pc' = [main |-> "join", dispatcher |-> "consume"]
        /\ worker' = [k \in Many!ToQueues |-> "consume"]
        /\ pc.dispatcher = "unstarted"
    BY <1>5 DEF Many!StartThreads, ManyInv, ManyStart
  <2>2. ManyTypes' /\ ManyStart'
    BY <1>1, <1>2, <2>1 DEF ManyInv, ManyTypes, ManyStart
  <2>3. ManyStops'
    BY <1>1, <2>1 DEF ManyInv, ManyStops, ChainsHold
  <2> QED
    BY <1>3, <1>4, <2>2, <2>3 DEF ManyInv
<1>6. CASE Many!Join
  <2>1. pc' = [pc EXCEPT !.main = "done"] /\ worker' = worker
    BY <1>6 DEF Many!Join
  <2>2. ManyTypes' /\ pc'.main = "done" /\ pc'.dispatcher = pc.dispatcher
    BY <1>1, <1>2, <2>1 DEF ManyInv, ManyTypes
  <2>3. ManyStart' /\ ManyStops'
    BY <1>1, <2>1, <2>2 DEF ManyInv, ManyStart, ManyStops, ChainsHold
  <2> QED
    BY <1>3, <1>4, <2>2, <2>3 DEF ManyInv
<1>7. CASE UNCHANGED Many!vars
  <2>1. UNCHANGED <<pc, worker>>
    BY <1>7 DEF Many!vars
  <2>2. ManyTypes' /\ ManyStart' /\ ManyStops'
    BY <1>1, <1>2, <2>1 DEF ManyInv, ManyTypes, ManyStart, ManyStops, ChainsHold
  <2> QED
    BY <1>3, <1>4, <2>2 DEF ManyInv
<1> QED
  BY <1>5, <1>6, <1>7

\* The counter gives a number that is below all others that were taken.
LEMMA ManyGetIndex ==
  ASSUME ManyInv, NEW p \in Many!Producers, Many!GetIndex(p)  PROVE ManyInv'
<1>1. /\ producer' = [producer EXCEPT ![p] = [at |-> "produce", index |-> packagesLeft]]
      /\ packagesLeft' = IF packagesLeft > 0 THEN packagesLeft - 1 ELSE 0
      /\ UNCHANGED <<pc, worker, queue, received>>
  BY DEF Many!GetIndex
<1>2. /\ packagesLeft \in 0..PackageCount /\ packagesLeft \in Int
      /\ packagesLeft' \in 0..PackageCount /\ packagesLeft' \in Int
      /\ packagesLeft' <= packagesLeft
      /\ packagesLeft # 0 => packagesLeft > packagesLeft'
  BY <1>1, ManyConstants DEF ManyInv, ManyTypes
<1>3. /\ producer' \in [Many!Producers -> [at : {"unstarted", "take", "produce", "done"},
                                           index : 0..PackageCount]]
      /\ producer'[p].index = packagesLeft
      /\ \A q \in Many!Producers : q # p => producer'[q] = producer[q]
      /\ \A q \in Many!Producers : producer[q].index \in Int
  BY <1>1, <1>2 DEF ManyInv, ManyTypes
<1>4. ManyTypes' /\ ManyStart' /\ ManyTargets' /\ ManyStops' /\ ManyPaths'
  BY <1>1, <1>2, <1>3
     DEF ManyInv, ManyTypes, ManyStart, ManyTargets, ManyStops, ManyPaths, ChainsHold,
         PathsHold
<1>5. \A q \in Many!Producers : q # p /\ producer'[q].index # 0 =>
        producer'[q].index > packagesLeft /\ producer'[q].index > packagesLeft'
  BY <1>2, <1>3 DEF ManyInv, ManyHands
<1>6. ManyHands'
  <2>1. ASSUME NEW q \in Many!Producers, producer'[q].index # 0
        PROVE  producer'[q].index > packagesLeft'
    BY <1>2, <1>3, <1>5, <2>1
  <2>2. ASSUME NEW q \in Many!Producers, NEW s \in Many!Producers, q # s,
               producer'[q].index # 0
        PROVE  producer'[q].index # producer'[s].index
    <3>1. CASE q # p /\ s # p
      BY <1>3, <2>2, <3>1 DEF ManyInv, ManyHands
    <3>2. CASE q = p
      BY <1>2, <1>3, <1>5, <2>2, <3>2
    <3>3. CASE s = p
      BY <1>2, <1>3, <1>5, <2>2, <3>3
    <3> QED
      BY <3>1, <3>2, <3>3
  <2> QED
    BY <2>1, <2>2 DEF ManyHands
<1>7. ManyNumbers'
  <2>1. \A m \in Many!Messages : m.number \in Int
    BY ManyConstants DEF Many!Messages
  <2>2. ASSUME NEW S, S \subseteq Many!Messages, ManyFresh(S)
        PROVE  ManyFresh(S)'
    <3>1. ASSUME NEW m \in S, m.source = 1
          PROVE  /\ m.number > packagesLeft'
                 /\ \A q \in Many!Producers : m.number # producer'[q].index
      <4>1. /\ m.number \in Int /\ m.number > packagesLeft
            /\ \A q \in Many!Producers : m.number # producer[q].index
        BY <2>1, <2>2, <3>1 DEF ManyFresh
      <4> QED
        BY <1>2, <1>3, <4>1
    <3> QED
      BY <3>1 DEF ManyFresh
  <2>3. ASSUME NEW k \in Many!Consumers
        PROVE  ManyFresh(Range(queue[k]))' /\ ManyFresh(Range(received[k]))'
    <3>1. ManyFresh(Range(queue[k])) /\ ManyFresh(Range(received[k]))
      BY DEF ManyInv, ManyNumbers
    <3> QED
      BY <1>1, <2>2, <3>1, ManySets, ManyNames DEF ManyFresh
  <2> QED
    BY <1>1, <2>2, <2>3, ManySets DEF ManyInv, ManyNumbers, ManyFresh
<1> QED
  BY <1>4, <1>6, <1>7 DEF ManyInv

\* The package of the number in a producer's hand.
LEMMA ManyProduce ==
  ASSUME ManyInv, NEW p \in Many!Producers, NEW target \in Many!ToQueues,
         Many!Produce(p, target)
  PROVE  ManyInv'
<1> DEFINE x == [target |-> target, source |-> 1, number |-> producer[p].index]
<1>1. /\ producer[p].index # 0
      /\ queue' = [queue EXCEPT ![0] = Append(@, x)]
      /\ producer' = [producer EXCEPT ![p] = [at |-> "take", index |-> 0]]
      /\ UNCHANGED <<pc, worker, packagesLeft, received>>
  BY DEF Many!Produce, Many!Push
<1>2. /\ producer[p].index \in 0..PackageCount /\ 0 \in 0..PackageCount
      /\ producer \in [Many!Producers -> [at : {"unstarted", "take", "produce", "done"},
                                          index : 0..PackageCount]]
  BY ManyConstants DEF ManyInv, ManyTypes
<1>3. /\ x \in Many!Messages /\ x.target = target /\ x.source = 1
      /\ x.number = producer[p].index /\ x # Many!StopMessage
  <2>1. target \in 0..Many!Assembler /\ 1 \in 0..Many!Assembler
    BY ManyConstants
  <2> QED
    BY <1>2, <2>1, ManyMessage, ManyStopIs
<1> HIDE DEF x
<1>4. Enters(ManyQueues, Many!Messages, queue, x, queue')
  BY <1>1, <1>3, ManySets DEF Enters
<1>5. /\ Queues(ManyQueues, Many!Messages, queue')
      /\ queue'[0] = Append(queue[0], x)
      /\ Range(queue'[0]) = Range(queue[0]) \cup {x}
      /\ \A k \in Many!ToQueues : queue'[k] = queue[k]
  BY <1>4, EnterQueues, ManyNames
<1>6. /\ producer' \in [Many!Producers -> [at : {"unstarted", "take", "produce", "done"},
                                           index : 0..PackageCount]]
      /\ producer'[p].index = 0
      /\ \A q \in Many!Producers : q # p => producer'[q] = producer[q]
  BY <1>1, <1>2
<1>7. ManyTypes' /\ ManyStart' /\ ManyTargets'
  BY <1>1, <1>3, <1>5, <1>6 DEF ManyInv, ManyTypes, ManyStart, ManyTargets
<1>8. packagesLeft \in 0..PackageCount
  BY DEF ManyInv, ManyTypes
<1>9. ManyHands'
  <2>1. ASSUME NEW q \in Many!Producers, producer'[q].index # 0
        PROVE  /\ producer'[q].index > packagesLeft
               /\ \A s \in Many!Producers \ {q} : producer'[q].index # producer'[s].index
    <3>1. q # p /\ producer'[q] = producer[q]
      BY <1>6, <2>1
    <3>2. /\ producer[q].index > packagesLeft
          /\ \A s \in Many!Producers \ {q} : producer[q].index # producer[s].index
      BY <2>1, <3>1 DEF ManyInv, ManyHands
    <3> QED
      BY <1>6, <2>1, <3>1, <3>2
  <2> QED
    BY <1>1, <2>1 DEF ManyHands
<1>10. ManyNumbers'
  <2>1. /\ x.number > packagesLeft
        /\ \A q \in Many!Producers \ {p} : x.number # producer[q].index
    BY <1>1, <1>3 DEF ManyInv, ManyHands
  <2>2. \A q \in Many!Producers : x.number # producer'[q].index
    BY <1>1, <1>3, <1>6, <2>1
  <2>3. ASSUME NEW S, S \subseteq Many!Messages, ManyFresh(S)
        PROVE  ManyFresh(S)'
    <3>1. ASSUME NEW m \in S, m.source = 1
          PROVE  /\ m.number > packagesLeft
                 /\ \A q \in Many!Producers : m.number # producer'[q].index
      <4>1. /\ m.number > packagesLeft /\ m.number \in Int
            /\ \A q \in Many!Producers : m.number # producer[q].index
        BY <2>3, <3>1, ManyConstants DEF ManyFresh, Many!Messages
      <4>2. m.number # 0
        BY <1>8, <4>1
      <4> QED
        BY <1>6, <4>1, <4>2
    <3> QED
      BY <1>1, <3>1 DEF ManyFresh
  <2>4. ASSUME NEW k \in Many!Consumers
        PROVE  ManyFresh(Range(queue[k]))' /\ ManyFresh(Range(received[k]))'
    <3>1. ManyFresh(Range(queue[k])) /\ ManyFresh(Range(received[k])) /\ queue'[k] = queue[k]
      BY <1>5, ManyNames DEF ManyInv, ManyNumbers
    <3>2. Range(queue[k]) \subseteq Many!Messages /\ Range(received[k]) \subseteq Many!Messages
      BY ManySets, ManyNames
    <3> QED
      BY <1>1, <2>3, <3>1, <3>2 DEF ManyFresh
  <2>5. ManyFresh(Range(queue[0]))
    BY DEF ManyInv, ManyNumbers
  <2>6. \A m \in Range(queue[0]) \cup {x} : m.source = 1 =>
          /\ m.number > packagesLeft
          /\ \A q \in Many!Producers : m.number # producer'[q].index
    BY <1>1, <2>1, <2>2, <2>3, <2>5, ManySets DEF ManyFresh
  <2>7. ManyFresh(Range(queue[0]))'
    BY <1>1, <1>5, <2>6 DEF ManyFresh
  <2> QED
    BY <2>4, <2>7 DEF ManyNumbers
<1>11. ManyPaths'
  <2>1. ASSUME NEW k \in Many!Consumers, NEW S, S \subseteq Many!Messages, ManyFresh(S)
        PROVE  Related(S, {x}, ManyMade[k], ManyDiffer)
    <3>1. ASSUME NEW m \in S, m \in ManyMade[k]  PROVE <<m, x>> \in ManyDiffer
      <4>1. m.number # x.number
        BY <1>3, <2>1, <3>1 DEF ManyFresh, ManyMade
      <4> QED
        BY <1>3, <2>1, <3>1, <4>1 DEF ManyDiffer, ManyPairs
    <3> QED
      BY <3>1 DEF Related
  <2>2. \A k \in Many!Consumers :
          /\ Related(Range(received[k]), {x}, ManyMade[k], ManyDiffer)
          /\ Related(Range(queue[k]), {x}, ManyMade[k], ManyDiffer)
          /\ Related(Range(queue[0]), {x}, ManyMade[k], ManyDiffer)
    BY <2>1, ManySets, ManyNames DEF ManyInv, ManyNumbers
  <2>3. PathsHold(ManyQueues, Many!Messages, Many!Consumers, received, queue',
                  ManyMade, ManyDiffer)
    BY <1>4, <2>2, EnterPaths DEF ManyInv, ManyPaths
  <2> QED
    BY <1>1, <2>3 DEF ManyPaths
<1>12. ManyStops'
  BY <1>1, <1>5 DEF ManyInv, ManyStops, ChainsHold
<1> QED
  BY <1>7, <1>9, <1>10, <1>11, <1>12 DEF ManyInv

\* A producer's stop.
LEMMA ManyProducerStop ==
  ASSUME ManyInv, NEW p \in Many!Producers, Many!ProducerStop(p)  PROVE ManyInv'
<1> DEFINE x == Many!StopMessage
<1>1. /\ queue' = [queue EXCEPT ![0] = Append(@, x)]
      /\ producer' = [producer EXCEPT ![p].at = "done"]
      /\ UNCHANGED <<pc, worker, packagesLeft, received>>
  BY DEF Many!ProducerStop, Many!Push
<1>2. x \in Many!Messages /\ x.source = 0 /\ x = Many!StopMessage
  BY ManyStopIs
<1> HIDE DEF x
<1>3. Enters(ManyQueues, Many!Messages, queue, x, queue')
  BY <1>1, <1>2, ManySets DEF Enters
<1>4. /\ Queues(ManyQueues, Many!Messages, queue')
      /\ Range(queue'[0]) = Range(queue[0]) \cup {x}
      /\ \A k \in Many!ToQueues : queue'[k] = queue[k]
  BY <1>3, EnterQueues, ManyNames
<1>5. /\ producer' \in [Many!Producers -> [at : {"unstarted", "take", "produce", "done"},
                                           index : 0..PackageCount]]
      /\ \A q \in Many!Producers : producer'[q].index = producer[q].index
  BY <1>1 DEF ManyInv, ManyTypes
<1>6. ManyTypes' /\ ManyStart' /\ ManyTargets'
  BY <1>1, <1>2, <1>4, <1>5 DEF ManyInv, ManyTypes, ManyStart, ManyTargets
<1>7. ManyHands'
  BY <1>1, <1>5 DEF ManyInv, ManyHands
<1>8. ManyNumbers'
  BY <1>1, <1>2, <1>4, <1>5, ManyNames DEF ManyInv, ManyNumbers, ManyFresh
<1>9. ManyPaths'
  <2>1. ASSUME NEW k \in Many!Consumers, NEW S
        PROVE  Related(S, {x}, ManyMade[k], ManyDiffer)
    BY <1>2, ManyForeign
  <2>2. PathsHold(ManyQueues, Many!Messages, Many!Consumers, received, queue',
                  ManyMade, ManyDiffer)
    BY <1>3, <2>1, EnterPaths DEF ManyInv, ManyPaths
  <2> QED
    BY <1>1, <2>2 DEF ManyPaths
<1>10. ManyStops'
  BY <1>1, <1>4 DEF ManyInv, ManyStops, ChainsHold
<1> QED
  BY <1>6, <1>7, <1>8, <1>9, <1>10 DEF ManyInv

\* The dispatcher hands a message to the queue of its target.
LEMMA ManyDispatch == ASSUME ManyInv, Many!Dispatch  PROVE ManyInv'
<1> DEFINE x == Head(queue[0])
           t == x.target
<1>1. /\ pc.dispatcher = "consume" /\ queue[0] # <<>> /\ x # Many!StopMessage
      /\ queue' = [queue EXCEPT ![0] = Tail(@), ![t] = Append(@, x)]
      /\ UNCHANGED <<pc, worker, producer, packagesLeft, received>>
  BY DEF Many!Dispatch, Many!Ready, Many!First
<1>2. x \in Many!Messages /\ x \in Range(queue[0])
  BY <1>1, ManySets, RangeTail
<1>3. t \in Many!ToQueues
  BY <1>1, <1>2 DEF ManyInv, ManyTargets
<1>4. Moves(ManyQueues, Many!Messages, queue, t, queue')
  BY <1>1, <1>3, ManySets, ManyNames DEF Moves
<1>5. x = Head(queue[0])
  OBVIOUS
<1> HIDE DEF x, t
<1>6. /\ Queues(ManyQueues, Many!Messages, queue')
      /\ \A k \in Many!ToQueues : k # t => queue'[k] = queue[k]
      /\ Range(queue[0]) = {x} \cup Range(queue'[0])
      /\ Range(queue'[t]) = Range(queue[t]) \cup {x}
  <2>1. /\ Queues(ManyQueues, Many!Messages, queue')
        /\ \A k \in ManyQueues : k # t /\ k # 0 => queue'[k] = queue[k]
        /\ Range(queue[0]) = {Head(queue[0])} \cup Range(queue'[0])
        /\ Range(queue'[t]) = Range(queue[t]) \cup {Head(queue[0])}
    BY <1>4, MoveQueues, SMTT(20)
  <2> QED
    BY <1>5, <2>1, ManyNames
<1>7. \A k \in Many!ToQueues : Range(queue'[k]) \subseteq Range(queue[k]) \cup {x}
  BY <1>6
<1>8. ManyTypes' /\ ManyStart' /\ ManyTargets' /\ ManyHands'
  BY <1>1, <1>6 DEF ManyInv, ManyTypes, ManyStart, ManyTargets, ManyHands
<1>9. ManyNumbers'
  <2>1. ManyFresh({x}) /\ ManyFresh(Range(queue'[0]))
    BY <1>2, <1>6 DEF ManyInv, ManyNumbers, ManyFresh
  <2>2. ASSUME NEW k \in Many!Consumers  PROVE ManyFresh(Range(queue'[k]))
    BY <1>7, <2>1, ManyNames DEF ManyInv, ManyNumbers, ManyFresh
  <2> QED
    BY <1>1, <2>1, <2>2 DEF ManyInv, ManyNumbers, ManyFresh
<1>10. ManyPaths'
  BY <1>1, <1>4, MovePaths DEF ManyInv, ManyPaths
<1>11. ManyStops'
  <2>1. \A k \in Many!ToQueues : Many!StopMessage \notin Range(queue[k])
    BY <1>1 DEF ManyInv, ManyStops
  <2>2. ASSUME NEW k \in Many!ToQueues
        PROVE  Related(Range(queue[k]), {Head(queue[0])}, Many!Messages, ManyNoneAfter)
    BY <2>1 DEF Related, ManyNoneAfter, ManyPairs
  <2>3. /\ ChainsHold(queue, Many!ToQueues, Many!Messages, ManyNoneAfter)
        /\ Many!ToQueues \subseteq ManyQueues \ {0}
    BY ManyNames DEF ManyInv, ManyStops
  <2>4. ChainsHold(queue', Many!ToQueues, Many!Messages, ManyNoneAfter)
    BY <1>4, <2>2, <2>3, MoveChains
  <2>5. \A k \in Many!ToQueues : Many!StopMessage \notin Range(queue'[k])
    BY <1>1, <1>7, <2>1
  <2> QED
    BY <1>1, <2>4, <2>5 DEF ManyInv, ManyStops
<1> QED
  BY <1>8, <1>9, <1>10, <1>11 DEF ManyInv

\* The dispatcher hands the first stop to everyone.
LEMMA ManyDispatcherStop == ASSUME ManyInv, Many!DispatcherStop  PROVE ManyInv'
<1> DEFINE x == Many!StopMessage
<1>1. /\ pc.dispatcher = "consume" /\ queue[0] # <<>> /\ Head(queue[0]) = x
      /\ queue' = [k \in 0..Many!Assembler |-> IF k = 0 THEN Tail(queue[0])
                                               ELSE Append(queue[k], x)]
      /\ pc' = [pc EXCEPT !.dispatcher = "done"]
      /\ UNCHANGED <<worker, producer, packagesLeft, received>>
  BY DEF Many!DispatcherStop, Many!Stopped, Many!First
<1>2. x \in Many!Messages /\ x.source = 0 /\ x = Many!StopMessage
  BY ManyStopIs
<1> HIDE DEF x
<1>3. Spreads(ManyQueues, Many!Messages, queue, queue')
  BY <1>1, ManySets DEF Spreads, ManyQueues
<1>4. /\ Queues(ManyQueues, Many!Messages, queue')
      /\ \A k \in Many!ToQueues : Range(queue'[k]) = Range(queue[k]) \cup {x}
      /\ Range(queue'[0]) \subseteq Range(queue[0])
  <2>1. /\ Queues(ManyQueues, Many!Messages, queue')
        /\ \A k \in ManyQueues : k # 0 =>
             /\ queue'[k] = Append(queue[k], Head(queue[0]))
             /\ Range(queue'[k]) = Range(queue[k]) \cup {Head(queue[0])}
        /\ Range(queue[0]) = {Head(queue[0])} \cup Range(queue'[0])
    BY <1>3, SpreadQueues, SMTT(20)
  <2> QED
    BY <1>1, <2>1, ManyNames
<1>5. ManyTypes' /\ pc'.main = pc.main /\ pc'.dispatcher = "done"
  BY <1>1, <1>4 DEF ManyInv, ManyTypes
<1>6. ManyStart' /\ ManyTargets' /\ ManyHands'
  BY <1>1, <1>4, <1>5 DEF ManyInv, ManyStart, ManyTargets, ManyHands
<1>7. ManyNumbers'
  <2>1. ManyFresh(Range(queue'[0]))
    BY <1>4 DEF ManyInv, ManyNumbers, ManyFresh
  <2>2. ASSUME NEW k \in Many!Consumers  PROVE ManyFresh(Range(queue'[k]))
    BY <1>2, <1>4, ManyNames DEF ManyInv, ManyNumbers, ManyFresh
  <2> QED
    BY <1>1, <2>1, <2>2 DEF ManyInv, ManyNumbers, ManyFresh
<1>8. ManyPaths'
  BY <1>1, <1>3, SpreadPaths DEF ManyInv, ManyPaths
<1>9. ManyStops'
  <2>1. \A k \in Many!ToQueues : Many!StopMessage \notin Range(queue[k])
    BY <1>1 DEF ManyInv, ManyStops
  <2>2. ASSUME NEW k \in Many!ToQueues
        PROVE  Related(Range(queue[k]), {Head(queue[0])}, Many!Messages, ManyNoneAfter)
    BY <2>1 DEF Related, ManyNoneAfter, ManyPairs
  <2>3. /\ ChainsHold(queue, Many!ToQueues, Many!Messages, ManyNoneAfter)
        /\ Many!ToQueues \subseteq ManyQueues \ {0}
    BY ManyNames DEF ManyInv, ManyStops
  <2>4. ChainsHold(queue', Many!ToQueues, Many!Messages, ManyNoneAfter)
    BY <1>3, <2>2, <2>3, SpreadChains
  <2>5. \A k \in Many!ToQueues : worker'[k] # "done"
    BY <1>1 DEF ManyInv, ManyStops
  <2> QED
    BY <1>5, <2>4, <2>5 DEF ManyStops
<1> QED
  BY <1>5, <1>6, <1>7, <1>8, <1>9 DEF ManyInv

\* What the pop of a consumer or of the assembler leaves true.
LEMMA ManyTaken ==
  ASSUME ManyInv, NEW t \in Many!ToQueues,
         Takes(ManyQueues, Many!Messages, queue, t, queue'),
         \/ received' = received
         \/ /\ t \in Many!Consumers
            /\ received' = [received EXCEPT ![t] = Append(@, Head(queue[t]))],
         UNCHANGED <<producer, packagesLeft>>
  PROVE  /\ ManyTargets' /\ ManyHands' /\ ManyNumbers' /\ ManyPaths'
         /\ Queues(ManyQueues, Many!Messages, queue')
         /\ received' \in [Many!Consumers -> Seq(Many!Messages)]
         /\ \A k \in Many!ToQueues : Range(queue'[k]) \subseteq Range(queue[k])
         /\ \A k \in Many!ToQueues : k # t => queue'[k] = queue[k]
         /\ Head(queue[t]) \in Range(queue[t])
         /\ ChainsHold(queue', Many!ToQueues, Many!Messages, ManyNoneAfter)
         /\ Related({Head(queue[t])}, Range(queue'[t]), Many!Messages, ManyNoneAfter)
<1> DEFINE x == Head(queue[t])
<1>1. /\ Queues(ManyQueues, Many!Messages, queue') /\ queue'[0] = queue[0]
      /\ \A k \in ManyQueues : k # t => queue'[k] = queue[k]
      /\ x \in Many!Messages /\ Range(queue[t]) = {x} \cup Range(queue'[t])
  BY TakeQueues
<1>2. /\ \A k \in Many!ToQueues : k # t => queue'[k] = queue[k]
      /\ \A k \in Many!ToQueues : Range(queue'[k]) \subseteq Range(queue[k])
      /\ x \in Range(queue[t])
  BY <1>1, ManyNames
<1>3. ManyPaths'
  <2>1. \/ received' = received
        \/ /\ t \in Many!Consumers
           /\ received' = [received EXCEPT ![t] = Append(@, Head(queue[t]))]
    OBVIOUS
  <2>2. PathsHold(ManyQueues, Many!Messages, Many!Consumers, received, queue,
                  ManyMade, ManyDiffer)
    BY DEF ManyInv, ManyPaths
  <2>3. PathsHold(ManyQueues, Many!Messages, Many!Consumers, received', queue',
                  ManyMade, ManyDiffer)
    BY <2>1, <2>2, TakePaths
  <2> QED
    BY <2>3 DEF ManyPaths
<1>4. /\ received' \in [Many!Consumers -> Seq(Many!Messages)]
      /\ \A k \in Many!Consumers :
           Range(received'[k]) \subseteq Range(received[k]) \cup Range(queue[k])
  <2>1. received' \in [Many!Consumers -> Seq(Many!Messages)]
    BY <1>3 DEF ManyPaths, PathsHold
  <2>2. CASE received' = received
    BY <2>1, <2>2
  <2>3. CASE /\ t \in Many!Consumers
             /\ received' = [received EXCEPT ![t] = Append(@, x)]
    <3>1. received \in [Many!Consumers -> Seq(Many!Messages)]
      BY DEF ManyInv, ManyTypes
    <3> HIDE DEF x
    <3>2. Range(Append(received[t], x)) = Range(received[t]) \cup {x}
      BY <1>1, <2>3, <3>1, RangeAppend
    <3>3. \A k \in Many!Consumers :
            received'[k] = IF k = t THEN Append(received[t], x) ELSE received[k]
      BY <2>3, <3>1
    <3> QED
      BY <1>2, <2>1, <2>3, <3>2, <3>3
  <2> QED
    BY <2>1, <2>2, <2>3
<1> HIDE DEF x
<1>5. ManyTargets' /\ ManyHands'
  BY <1>1 DEF ManyInv, ManyTargets, ManyHands
<1>6. ManyNumbers'
  <2>1. ASSUME NEW k \in Many!Consumers
        PROVE  ManyFresh(Range(queue'[k])) /\ ManyFresh(Range(received'[k]))
    <3>1. ManyFresh(Range(queue[k]) \cup Range(received[k]))
      BY DEF ManyInv, ManyNumbers, ManyFresh
    <3>2. /\ Range(queue'[k]) \subseteq Range(queue[k]) \cup Range(received[k])
          /\ Range(received'[k]) \subseteq Range(queue[k]) \cup Range(received[k])
      BY <1>2, <1>4, ManyNames
    <3> QED
      BY <3>1, <3>2 DEF ManyFresh
  <2> QED
    BY <1>1, <2>1 DEF ManyInv, ManyNumbers, ManyFresh
<1>7. /\ ChainsHold(queue', Many!ToQueues, Many!Messages, ManyNoneAfter)
      /\ Related({Head(queue[t])}, Range(queue'[t]), Many!Messages, ManyNoneAfter)
  <2>1. ChainsHold(queue, Many!ToQueues, Many!Messages, ManyNoneAfter)
    BY DEF ManyInv, ManyStops
  <2>2. Many!ToQueues \subseteq ManyQueues \ {0}
    BY ManyNames
  <2> QED
    BY <2>1, <2>2, TakeChains
<1> QED
  BY <1>1, <1>2, <1>3, <1>4, <1>5, <1>6, <1>7 DEF x

\* A consumer's message, and one the assembler loses.
LEMMA ManyConsume ==
  ASSUME ManyInv, NEW t \in Many!ToQueues,
         \/ t \in Many!Consumers /\ Many!Consume(t)
         \/ t = Many!Assembler /\ Many!Discard
  PROVE  ManyInv'
<1>1. /\ worker[t] = "consume" /\ queue[t] # <<>>
      /\ queue' = [queue EXCEPT ![t] = Tail(@)]
      /\ \/ received' = received
         \/ /\ t \in Many!Consumers
            /\ received' = [received EXCEPT ![t] = Append(@, Head(queue[t]))]
      /\ UNCHANGED <<pc, worker, producer, packagesLeft>>
  BY DEF Many!Consume, Many!Discard, Many!Ready, Many!First
<1>2. Takes(ManyQueues, Many!Messages, queue, t, queue')
  BY <1>1, ManySets, ManyNames DEF Takes
<1>3. /\ ManyTargets' /\ ManyHands' /\ ManyNumbers' /\ ManyPaths'
      /\ Queues(ManyQueues, Many!Messages, queue')
      /\ received' \in [Many!Consumers -> Seq(Many!Messages)]
      /\ \A k \in Many!ToQueues : Range(queue'[k]) \subseteq Range(queue[k])
      /\ \A k \in Many!ToQueues : k # t => queue'[k] = queue[k]
      /\ ChainsHold(queue', Many!ToQueues, Many!Messages, ManyNoneAfter)
  BY <1>1, <1>2, ManyTaken
<1>4. ManyTypes' /\ ManyStart'
  BY <1>1, <1>3 DEF ManyInv, ManyTypes, ManyStart
<1>5. ManyStops'
  BY <1>1, <1>3 DEF ManyInv, ManyStops
<1> QED
  BY <1>3, <1>4, <1>5 DEF ManyInv

\* A consumer or the assembler takes the stop; nothing is left behind it.
LEMMA ManyWorkerStop ==
  ASSUME ManyInv, NEW t \in Many!ToQueues, Many!WorkerStop(t)  PROVE ManyInv'
<1>1. /\ worker[t] = "consume" /\ queue[t] # <<>> /\ Head(queue[t]) = Many!StopMessage
      /\ queue' = [queue EXCEPT ![t] = Tail(@)]
      /\ worker' = [worker EXCEPT ![t] = "done"]
      /\ UNCHANGED <<pc, producer, packagesLeft, received>>
  BY DEF Many!WorkerStop, Many!Stopped, Many!First
<1>2. Takes(ManyQueues, Many!Messages, queue, t, queue')
  BY <1>1, ManySets, ManyNames DEF Takes
<1>3. /\ ManyTargets' /\ ManyHands' /\ ManyNumbers' /\ ManyPaths'
      /\ Queues(ManyQueues, Many!Messages, queue')
      /\ received' \in [Many!Consumers -> Seq(Many!Messages)]
      /\ \A k \in Many!ToQueues : Range(queue'[k]) \subseteq Range(queue[k])
      /\ \A k \in Many!ToQueues : k # t => queue'[k] = queue[k]
      /\ Head(queue[t]) \in Range(queue[t])
      /\ ChainsHold(queue', Many!ToQueues, Many!Messages, ManyNoneAfter)
      /\ Related({Head(queue[t])}, Range(queue'[t]), Many!Messages, ManyNoneAfter)
  BY <1>1, <1>2, ManyTaken
<1>4. /\ ManyTypes'
      /\ worker'[t] = "done" /\ \A k \in Many!ToQueues : k # t => worker'[k] = worker[k]
  BY <1>1, <1>3 DEF ManyInv, ManyTypes
<1>5. pc.dispatcher = "done"
  BY <1>1, <1>3 DEF ManyInv, ManyStops
<1>6. ManyStart'
  BY <1>1, <1>5 DEF ManyInv, ManyStart
<1>7. queue'[t] = <<>>
  <2>1. queue'[t] \in Seq(Many!Messages)
    BY <1>3, QueuesAre, ManyNames
  <2>2. Range(queue'[t]) \subseteq Many!Messages
    BY <2>1, RangeType
  <2>3. \A y \in Range(queue'[t]) : FALSE
    BY <1>1, <1>3, <2>2, ManyStopIs DEF Related, ManyNoneAfter
  <2> QED
    BY <2>1, <2>3, RangeType
<1>8. ManyStops'
  BY <1>1, <1>3, <1>4, <1>5, <1>7 DEF ManyInv, ManyStops
<1> QED
  BY <1>3, <1>4, <1>6, <1>8 DEF ManyInv

\* The assembler sends a packet again.
LEMMA ManyRedirect ==
  ASSUME ManyInv, NEW target \in Many!Consumers, Many!Redirect(target)  PROVE ManyInv'
<1> DEFINE t == Many!Assembler
           x == [target |-> target, source |-> Many!Assembler, number |-> 0]
           q == [queue EXCEPT ![t] = Tail(@)]
<1>1. /\ worker[t] = "consume" /\ queue[t] # <<>>
      /\ queue' = [queue EXCEPT ![t] = Tail(@), ![0] = Append(@, x)]
      /\ UNCHANGED <<pc, worker, producer, packagesLeft, received>>
  BY DEF Many!Redirect, Many!Ready, Many!First
<1>2. /\ x \in Many!Messages /\ x.target = target /\ x # Many!StopMessage
      /\ x.source # 1
  <2>1. /\ target \in 0..Many!Assembler /\ Many!Assembler \in 0..Many!Assembler
        /\ 0 \in 0..PackageCount /\ Many!Assembler # 1 /\ Many!Assembler # 0
    BY ManyConstants, ManyNames
  <2> QED
    BY <2>1, ManyMessage, ManyStopIs
<1>3. t \in Many!ToQueues /\ t \in ManyQueues \ {0} /\ t # 0 /\ 0 \in ManyQueues
  BY ManyNames
<1>4. queue \in [ManyQueues -> Seq(Many!Messages)]
  BY ManySets, QueuesAre
<1> HIDE DEF x, t
<1>5. queue' = [q EXCEPT ![0] = Append(@, x)]
  BY <1>1, <1>3, <1>4
<1>6. Takes(ManyQueues, Many!Messages, queue, t, q)
  BY <1>1, <1>3, ManySets DEF Takes
<1> HIDE DEF q
<1>7. /\ Queues(ManyQueues, Many!Messages, q) /\ q[0] = queue[0]
      /\ \A k \in ManyQueues : k # t => q[k] = queue[k]
      /\ Range(queue[t]) = {Head(queue[t])} \cup Range(q[t])
  BY <1>6, TakeQueues
<1>8. Enters(ManyQueues, Many!Messages, q, x, queue')
  BY <1>2, <1>5, <1>7 DEF Enters
<1>9. /\ Queues(ManyQueues, Many!Messages, queue')
      /\ Range(queue'[0]) = Range(queue[0]) \cup {x}
      /\ \A k \in ManyQueues : k # 0 => queue'[k] = q[k]
  <2>1. /\ Queues(ManyQueues, Many!Messages, queue')
        /\ Range(queue'[0]) = Range(q[0]) \cup {x}
        /\ \A k \in ManyQueues : k # 0 => queue'[k] = q[k]
    BY <1>8, EnterQueues
  <2> QED
    BY <1>7, <2>1
<1>10. /\ \A k \in Many!ToQueues : Range(queue'[k]) \subseteq Range(queue[k])
       /\ \A k \in Many!ToQueues : k # t => queue'[k] = queue[k]
       /\ \A k \in Many!Consumers : queue'[k] = queue[k]
  BY <1>7, <1>9, ManyNames DEF t
<1>11. ManyTypes' /\ ManyStart' /\ ManyHands'
  BY <1>1, <1>9 DEF ManyInv, ManyTypes, ManyStart, ManyHands
<1>12. ManyTargets'
  BY <1>2, <1>9, ManyNames DEF ManyInv, ManyTargets
<1>13. ManyNumbers'
  <2>1. ManyFresh(Range(queue'[0]))
    BY <1>2, <1>9 DEF ManyInv, ManyNumbers, ManyFresh
  <2>2. \A k \in Many!Consumers : ManyFresh(Range(queue'[k]))
    BY <1>10 DEF ManyInv, ManyNumbers
  <2> QED
    BY <1>1, <2>1, <2>2 DEF ManyInv, ManyNumbers, ManyFresh
<1>14. ManyPaths'
  <2>1. PathsHold(ManyQueues, Many!Messages, Many!Consumers, received, queue,
                  ManyMade, ManyDiffer)
    BY DEF ManyInv, ManyPaths
  <2>2. PathsHold(ManyQueues, Many!Messages, Many!Consumers, received, q,
                  ManyMade, ManyDiffer)
    BY <1>6, <2>1, TakePaths
  <2>3. ASSUME NEW k \in Many!Consumers, NEW S
        PROVE  Related(S, {x}, ManyMade[k], ManyDiffer)
    BY <1>2, ManyForeign
  <2>4. PathsHold(ManyQueues, Many!Messages, Many!Consumers, received, queue',
                  ManyMade, ManyDiffer)
    BY <1>8, <2>2, <2>3, EnterPaths
  <2> QED
    BY <1>1, <2>4 DEF ManyPaths
<1>15. ManyStops'
  <2>1. /\ ChainsHold(queue, Many!ToQueues, Many!Messages, ManyNoneAfter)
        /\ Many!ToQueues \subseteq ManyQueues \ {0}
    BY ManyNames DEF ManyInv, ManyStops
  <2>2. ChainsHold(q, Many!ToQueues, Many!Messages, ManyNoneAfter)
    BY <1>6, <2>1, TakeChains
  <2>3. ChainsHold(queue', Many!ToQueues, Many!Messages, ManyNoneAfter)
    BY <1>9, <2>1, <2>2 DEF ChainsHold
  <2>4. \A k \in Many!ToQueues : worker[k] = "done" => queue'[k] = <<>> /\ pc.dispatcher = "done"
    BY <1>1, <1>10 DEF ManyInv, ManyStops
  <2>5. pc.dispatcher # "done" =>
          \A k \in Many!ToQueues : Many!StopMessage \notin Range(queue'[k])
    BY <1>10 DEF ManyInv, ManyStops
  <2> QED
    BY <1>1, <2>3, <2>4, <2>5 DEF ManyStops
<1> QED
  BY <1>11, <1>12, <1>13, <1>14, <1>15 DEF ManyInv

\* Every step of the simulation preserves the invariant.
LEMMA ManyStep == ManyInv /\ [Many!Next]_(Many!vars) => ManyInv'
<1> SUFFICES ASSUME ManyInv, [Many!Next]_(Many!vars)  PROVE ManyInv'
  OBVIOUS
<1>1. CASE Many!StartThreads \/ Many!Join \/ UNCHANGED Many!vars
  BY <1>1, ManyMain
<1>2. ASSUME NEW p \in Many!Producers, Many!ProducerSteps(p)  PROVE ManyInv'
  BY <1>2, ManyGetIndex, ManyProduce, ManyProducerStop DEF Many!ProducerSteps
<1>3. CASE Many!DispatcherSteps
  BY <1>3, ManyDispatch, ManyDispatcherStop DEF Many!DispatcherSteps
<1>4. ASSUME NEW k \in Many!Consumers, Many!ConsumerSteps(k)  PROVE ManyInv'
  BY <1>4, ManyConsume, ManyWorkerStop, ManyNames DEF Many!ConsumerSteps
<1>5. CASE Many!AssemblerSteps
  BY <1>5, ManyConsume, ManyWorkerStop, ManyRedirect, ManyNames DEF Many!AssemblerSteps
<1> QED
  BY <1>1, <1>2, <1>3, <1>4, <1>5 DEF Many!Next

\* No number is taken twice, and nothing is left behind the stop.
LEMMA ManyOrder == ManyInv => Many!NumbersTakenOnce /\ Many!LeavesNothing
<1> SUFFICES ASSUME ManyInv  PROVE Many!NumbersTakenOnce /\ Many!LeavesNothing
  OBVIOUS
<1>1. Many!LeavesNothing
  BY DEF ManyInv, ManyStops, Many!LeavesNothing
<1>2. ASSUME NEW k \in Many!Consumers,
             NEW i \in 1..Len(received[k]), NEW j \in 1..Len(received[k]), i # j,
             received[k][i].source = 1, received[k][j].source = 1
      PROVE  received[k][i].number # received[k][j].number
  <2>1. received[k] \in Seq(Many!Messages)
    BY ManySets
  <2>2. received[k][i] \in ManyMade[k] /\ received[k][j] \in ManyMade[k]
    BY <1>2, <2>1 DEF ManyMade
  <2>3. Chain(received[k], ManyMade[k], ManyDiffer)
    BY DEF ManyInv, ManyPaths, PathsHold, InPath
  <2>4. i < j \/ j < i
    BY <1>2, <2>1
  <2>5. <<received[k][i], received[k][j]>> \in ManyDiffer
        \/ <<received[k][j], received[k][i]>> \in ManyDiffer
    BY <2>2, <2>3, <2>4 DEF Chain
  <2> QED
    BY <2>5 DEF ManyDiffer
<1>3. Many!NumbersTakenOnce
  BY <1>2 DEF ManyInv, ManyHands, Many!NumbersTakenOnce
<1> QED
  BY <1>1, <1>3

-----------------------------------------------------------------------------
(* network_simul_bounded                                                   *)

BoundedTypes ==
  /\ pc \in [main : {"start", "join", "done", "aborted"},
             producer : {"unstarted", "reserve", "push", "done"},
             dispatcher : {"unstarted", "take", "pop", "find", "reserve", "push",
                           "done"}]
  /\ worker \in [Bounded!Consumers -> {"unstarted", "take", "pop", "done"}]
  /\ Queues(Bounded!Queues, Bounded!Messages, queue)
  /\ canConsume \in [Bounded!Queues -> Nat]
  /\ hand \in [message : Bounded!Messages, target : 0..(ConsumerCount + 1)]
  /\ produced \in 0..PackageCount
  /\ received \in [Bounded!Consumers -> Seq(Bounded!Messages)]

\* Nothing runs before main starts it.
BoundedStart ==
  pc.main = "start" =>
    /\ pc.dispatcher = "unstarted"
    /\ \A k \in Bounded!Consumers : worker[k] = "unstarted"

\* What is in a queue was signalled to a pop that has not begun, or is what the
\* pop that waited for it will take.
BoundedCounts ==
  /\ Len(queue[0]) = canConsume[0] + (IF pc.dispatcher = "pop" THEN 1 ELSE 0)
  /\ \A k \in Bounded!Consumers :
       Len(queue[k]) = canConsume[k] + (IF worker[k] = "pop" THEN 1 ELSE 0)

\* A message that the producer has made.
BoundedMade(m) == m.source = 1 /\ m.number < produced

\* Messages were made, and are in the way to their target.
BoundedTargets ==
  /\ \A m \in Range(queue[0]) : m = Bounded!StopMessage \/ BoundedMade(m)
  /\ \A k \in Bounded!Consumers :
       /\ \A m \in Range(queue[k]) :
            m = Bounded!StopMessage \/ (BoundedMade(m) /\ m.target = k)
       /\ \A m \in Range(received[k]) : BoundedMade(m) /\ m.target = k

BoundedMine ==
  [k \in Bounded!Consumers |->
     {m \in Bounded!Messages : m.source = 1 /\ m.target = k}]

BoundedEarlier ==
  {p \in Bounded!Messages \X Bounded!Messages : p[1].number < p[2].number}

\* Each consumer's messages are in the way in the order of their numbers.
BoundedPaths ==
  PathsHold(Bounded!Queues, Bounded!Messages, Bounded!Consumers, received, queue,
            BoundedMine, BoundedEarlier)

\* The message in the dispatcher's hand is on its way from queue[0] to a
\* consumer's queue: behind what is in the latter, before what is in the former.
BoundedBetween(m) ==
  \A k \in Bounded!Consumers :
    /\ Related(Range(received[k]), {m}, BoundedMine[k], BoundedEarlier)
    /\ Related(Range(queue[k]), {m}, BoundedMine[k], BoundedEarlier)
    /\ Related({m}, Range(queue[0]), BoundedMine[k], BoundedEarlier)

BoundedHand ==
  /\ pc.dispatcher \in {"find", "reserve", "push"} =>
       /\ \/ hand.message = Bounded!StopMessage
          \/ BoundedMade(hand.message) /\ hand.target = hand.message.target
       /\ BoundedBetween(hand.message)
  /\ pc.dispatcher \in {"reserve", "push"} => hand.target \in Bounded!Consumers

BoundedInv ==
  /\ BoundedTypes /\ BoundedStart /\ BoundedCounts /\ BoundedTargets
  /\ BoundedPaths /\ BoundedHand

\* What the constants are, and which queue is whose.
LEMMA BoundedNames ==
  /\ ConsumerCount \in Nat /\ ConsumerCount > 0 /\ PackageCount \in Nat
  /\ Bounded!Queues = Bounded!Consumers \cup {0}
  /\ 0 \in Bounded!Queues /\ 0 \notin Bounded!Consumers
  /\ Bounded!Consumers \subseteq Bounded!Queues \ {0}
  /\ \A k \in Bounded!Consumers : k \in Bounded!Queues /\ k # 0
<1>1. ConsumerCount \in Nat /\ ConsumerCount > 0 /\ PackageCount \in Nat
  BY SimulationsAssumption DEF Bounded!CountsAssumption
<1> QED
  BY <1>1 DEF Bounded!Consumers, Bounded!Queues

\* What the stop and the messages are.
LEMMA BoundedMessages ==
  /\ Bounded!StopMessage \in Bounded!Messages
  /\ Bounded!StopMessage.source = 0
  /\ \A m \in Bounded!Messages : m.number \in Int /\ m.target \in 0..(ConsumerCount + 1)
  /\ \A t \in 1..(ConsumerCount + 1), n \in 0..PackageCount :
       LET x == [target |-> t, source |-> 1, number |-> n]
       IN  x \in Bounded!Messages /\ x.target = t /\ x.source = 1 /\ x.number = n
<1>1. /\ 0 \in 0..PackageCount /\ 0 \in 0..1 /\ 1 \in 0..1
      /\ 0 \in 0..(ConsumerCount + 1)
      /\ \A t \in 1..(ConsumerCount + 1) : t \in 0..(ConsumerCount + 1)
      /\ \A n \in 0..PackageCount : n \in Int
  BY BoundedNames
<1> QED
  BY <1>1 DEF Bounded!StopMessage, Bounded!Messages

\* The messages in the queues and in what was received.
LEMMA BoundedSets ==
  ASSUME BoundedInv
  PROVE  /\ Queues(Bounded!Queues, Bounded!Messages, queue)
         /\ queue[0] \in Seq(Bounded!Messages) /\ Range(queue[0]) \subseteq Bounded!Messages
         /\ \A k \in Bounded!Consumers :
              /\ queue[k] \in Seq(Bounded!Messages)
              /\ Range(queue[k]) \subseteq Bounded!Messages
              /\ received[k] \in Seq(Bounded!Messages)
              /\ Range(received[k]) \subseteq Bounded!Messages
<1>1. /\ Queues(Bounded!Queues, Bounded!Messages, queue)
      /\ received \in [Bounded!Consumers -> Seq(Bounded!Messages)]
  BY DEF BoundedInv, BoundedTypes
<1>2. /\ queue[0] \in Seq(Bounded!Messages)
      /\ \A k \in Bounded!Queues : queue[k] \in Seq(Bounded!Messages)
  BY <1>1, QueuesAre
<1> QED
  BY <1>1, <1>2, BoundedNames, RangeType

\* The stop disturbs no order.
LEMMA BoundedForeign ==
  ASSUME NEW k \in Bounded!Consumers, NEW S
  PROVE  /\ Related(S, {Bounded!StopMessage}, BoundedMine[k], BoundedEarlier)
         /\ Related({Bounded!StopMessage}, S, BoundedMine[k], BoundedEarlier)
  BY BoundedMessages DEF Related, BoundedMine

\* The empty network satisfies the invariant.
LEMMA BoundedInitially == Bounded!Init => BoundedInv
<1> SUFFICES ASSUME Bounded!Init  PROVE BoundedInv
  OBVIOUS
<1>1. /\ pc = [main |-> "start", producer |-> "unstarted", dispatcher |-> "unstarted"]
      /\ worker = [k \in Bounded!Consumers |-> "unstarted"]
      /\ queue = [k \in Bounded!Queues |-> <<>>]
      /\ canConsume = [k \in Bounded!Queues |-> 0]
      /\ hand = [message |-> Bounded!StopMessage, target |-> 0]
      /\ produced = 0
      /\ received = [k \in Bounded!Consumers |-> <<>>]
  BY DEF Bounded!Init
<1>2. BoundedTypes
  <2>1. /\ <<>> \in Seq(Bounded!Messages) /\ produced \in 0..PackageCount
        /\ 0 \in 0..(ConsumerCount + 1) /\ Bounded!StopMessage \in Bounded!Messages
        /\ Queues(Bounded!Queues, Bounded!Messages, queue)
    BY <1>1, BoundedNames, BoundedMessages DEF Queues
  <2> QED
    BY <1>1, <2>1 DEF BoundedTypes
<1>3. /\ queue[0] = <<>> /\ canConsume[0] = 0
      /\ \A k \in Bounded!Consumers :
           queue[k] = <<>> /\ received[k] = <<>> /\ canConsume[k] = 0
  BY <1>1, BoundedNames
<1>4. Range(<<>>) = {}
  <2>1. <<>> \in Seq(Bounded!Messages)
    OBVIOUS
  <2> QED
    BY <2>1, RangeType
<1>5. BoundedStart /\ BoundedHand
  BY <1>1 DEF BoundedStart, BoundedHand
<1>6. BoundedTargets
  BY <1>3, <1>4 DEF BoundedTargets
<1>7. BoundedCounts
  <2>1. Len(<<>>) = 0
    OBVIOUS
  <2> QED
    BY <1>1, <1>3, <2>1 DEF BoundedCounts
<1>8. BoundedPaths
  <2>1. \A K, R : InPath(<<>>, <<>>, <<>>, K, R)
    BY <1>4, ChainEmpty DEF InPath, Related
  <2> QED
    BY <1>2, <1>3, <2>1, BoundedNames DEF BoundedTypes, BoundedPaths, PathsHold
<1> QED
  BY <1>2, <1>5, <1>6, <1>7, <1>8 DEF BoundedInv

\* Steps that move no message and take no signal: main starts and joins the
\* threads, the producer and the dispatcher wait for a place, and the
\* dispatcher looks for the target.
LEMMA BoundedQuiet ==
  ASSUME BoundedInv,
         \/ Bounded!StartThreads \/ Bounded!Join \/ Bounded!ProducerReserve
         \/ Bounded!DispatcherFind \/ Bounded!DispatcherReserve \/ UNCHANGED Bounded!vars
  PROVE  BoundedInv'
<1>1. UNCHANGED <<queue, canConsume, hand, produced, received>>
  BY DEF Bounded!StartThreads, Bounded!Join, Bounded!ProducerReserve,
         Bounded!DispatcherFind, Bounded!DispatcherReserve, Bounded!Reserve,
         Bounded!vars, Bounded!semaphores
<1>2. BoundedTargets' /\ BoundedPaths'
  BY <1>1 DEF BoundedInv, BoundedTargets, BoundedMade, BoundedPaths, PathsHold
<1>3. (BoundedMade(hand.message) <=> BoundedMade(hand.message)')
      /\ (BoundedBetween(hand.message) <=> BoundedBetween(hand.message)')
  BY <1>1 DEF BoundedMade, BoundedBetween
<1>4. /\ pc \in [main : {"start", "join", "done", "aborted"},
                 producer : {"unstarted", "reserve", "push", "done"},
                 dispatcher : {"unstarted", "take", "pop", "find", "reserve", "push",
                               "done"}]
      /\ worker \in [Bounded!Consumers -> {"unstarted", "take", "pop", "done"}]
  BY DEF BoundedInv, BoundedTypes
<1>5. CASE Bounded!StartThreads
  <2>1. /\ pc' = [main |-> "join", producer |-> "reserve", dispatcher |-> "take"]
        /\ worker' = [k \in Bounded!Consumers |-> "take"]
        /\ pc.dispatcher = "unstarted"
        /\ \A k \in Bounded!Consumers : worker[k] = "unstarted"
    BY <1>5 DEF Bounded!StartThreads, BoundedInv, BoundedStart
  <2>2. BoundedTypes' /\ BoundedStart' /\ BoundedHand'
    BY <1>1, <2>1 DEF BoundedInv, BoundedTypes, BoundedStart, BoundedHand
  <2>3. BoundedCounts'
    BY <1>1, <2>1 DEF BoundedInv, BoundedCounts
  <2> QED
    BY <1>2, <2>2, <2>3 DEF BoundedInv
<1>6. ASSUME worker' = worker,
             pc' \in [main : {"start", "join", "done", "aborted"},
                      producer : {"unstarted", "reserve", "push", "done"},
                      dispatcher : {"unstarted", "take", "pop", "find", "reserve",
                                    "push", "done"}],
             pc'.main = "start" => pc.main = "start" /\ pc'.dispatcher = pc.dispatcher,
             \/ pc'.dispatcher = pc.dispatcher
             \/ /\ pc.dispatcher = "find" /\ pc'.dispatcher = "reserve"
                /\ hand.target \in Bounded!Consumers
             \/ pc.dispatcher = "reserve" /\ pc'.dispatcher = "push"
      PROVE  BoundedInv'
  <2>1. BoundedTypes' /\ BoundedStart'
    BY <1>1, <1>6 DEF BoundedInv, BoundedTypes, BoundedStart
  <2>2. BoundedCounts'
    BY <1>1, <1>6 DEF BoundedInv, BoundedCounts
  <2>3. BoundedHand'
    BY <1>1, <1>3, <1>6 DEF BoundedInv, BoundedHand
  <2> QED
    BY <1>2, <2>1, <2>2, <2>3 DEF BoundedInv
<1>7. CASE Bounded!Join \/ Bounded!ProducerReserve \/ UNCHANGED Bounded!vars
  <2>1. /\ worker' = worker
        /\ \/ pc' = [pc EXCEPT !.main = "done"]
           \/ pc' = [pc EXCEPT !.producer = "push"]
           \/ pc' = pc
    BY <1>7 DEF Bounded!Join, Bounded!ProducerReserve, Bounded!vars
  <2> QED
    BY <1>4, <1>6, <2>1
<1>8. CASE Bounded!DispatcherFind
  <2>1. /\ worker' = worker /\ pc.dispatcher = "find"
        /\ \/ /\ hand.target \in Bounded!Consumers
              /\ pc' = [pc EXCEPT !.dispatcher = "reserve"]
           \/ pc' = [pc EXCEPT !.main = "aborted"]
    BY <1>8 DEF Bounded!DispatcherFind
  <2>2. pc.main # "start"
    BY <2>1 DEF BoundedInv, BoundedStart
  <2> QED
    BY <1>4, <1>6, <2>1, <2>2
<1>9. CASE Bounded!DispatcherReserve
  <2>1. /\ worker' = worker /\ pc.dispatcher = "reserve"
        /\ pc' = [pc EXCEPT !.dispatcher = "push"]
    BY <1>9 DEF Bounded!DispatcherReserve
  <2>2. pc.main # "start"
    BY <2>1 DEF BoundedInv, BoundedStart
  <2> QED
    BY <1>4, <1>6, <2>1, <2>2
<1> QED
  BY <1>5, <1>7, <1>8, <1>9

\* The dispatcher or a consumer waited for an element.
LEMMA BoundedTake ==
  ASSUME BoundedInv,
         Bounded!DispatcherTake \/ \E k \in Bounded!Consumers : Bounded!ConsumerTake(k)
  PROVE  BoundedInv'
<1>1. UNCHANGED <<queue, hand, produced, received>>
  BY DEF Bounded!DispatcherTake, Bounded!ConsumerTake, Bounded!Take
<1>2. BoundedTargets' /\ BoundedPaths'
  BY <1>1 DEF BoundedInv, BoundedTargets, BoundedMade, BoundedPaths, PathsHold
<1>3. (BoundedMade(hand.message) <=> BoundedMade(hand.message)')
      /\ (BoundedBetween(hand.message) <=> BoundedBetween(hand.message)')
  BY <1>1 DEF BoundedMade, BoundedBetween
<1>4. /\ pc \in [main : {"start", "join", "done", "aborted"},
                 producer : {"unstarted", "reserve", "push", "done"},
                 dispatcher : {"unstarted", "take", "pop", "find", "reserve", "push",
                               "done"}]
      /\ worker \in [Bounded!Consumers -> {"unstarted", "take", "pop", "done"}]
      /\ canConsume \in [Bounded!Queues -> Nat]
  BY DEF BoundedInv, BoundedTypes
<1>5. CASE Bounded!DispatcherTake
  <2>1. /\ pc.dispatcher = "take" /\ canConsume[0] > 0
        /\ canConsume' = [canConsume EXCEPT ![0] = @ - 1]
        /\ pc' = [pc EXCEPT !.dispatcher = "pop"] /\ worker' = worker
    BY <1>5 DEF Bounded!DispatcherTake, Bounded!Take
  <2>2. /\ canConsume' \in [Bounded!Queues -> Nat]
        /\ canConsume[0] \in Int /\ canConsume'[0] = canConsume[0] - 1
        /\ \A k \in Bounded!Consumers : canConsume'[k] = canConsume[k]
    BY <1>4, <2>1, BoundedNames
  <2>3. pc.main # "start"
    BY <2>1 DEF BoundedInv, BoundedStart
  <2>4. BoundedTypes' /\ BoundedStart'
    BY <1>1, <2>1, <2>2, <2>3 DEF BoundedInv, BoundedTypes, BoundedStart
  <2>5. pc'.dispatcher = "pop"
    BY <1>4, <2>1
  <2>6. BoundedCounts'
    <3>1. Len(queue[0]) = canConsume[0]
      BY <2>1, <2>2 DEF BoundedInv, BoundedCounts
    <3>2. Len(queue'[0]) = canConsume'[0] + 1
      BY <1>1, <2>2, <3>1
    <3> QED
      BY <1>1, <2>1, <2>2, <2>5, <3>2 DEF BoundedInv, BoundedCounts
  <2>7. BoundedHand'
    BY <2>5 DEF BoundedHand
  <2> QED
    BY <1>2, <2>4, <2>6, <2>7 DEF BoundedInv
<1>6. ASSUME NEW t \in Bounded!Consumers, Bounded!ConsumerTake(t)  PROVE BoundedInv'
  <2>1. /\ worker[t] = "take" /\ canConsume[t] > 0
        /\ canConsume' = [canConsume EXCEPT ![t] = @ - 1]
        /\ worker' = [worker EXCEPT ![t] = "pop"] /\ pc' = pc
    BY <1>6 DEF Bounded!ConsumerTake, Bounded!Take
  <2>2. /\ canConsume' \in [Bounded!Queues -> Nat]
        /\ canConsume[t] \in Int /\ canConsume'[t] = canConsume[t] - 1
        /\ canConsume'[0] = canConsume[0]
        /\ \A k \in Bounded!Consumers : k # t => canConsume'[k] = canConsume[k]
    BY <1>4, <2>1, BoundedNames
  <2>3. /\ worker' \in [Bounded!Consumers -> {"unstarted", "take", "pop", "done"}]
        /\ worker'[t] = "pop"
        /\ \A k \in Bounded!Consumers : k # t => worker'[k] = worker[k]
    BY <1>4, <2>1
  <2>4. pc.main # "start"
    BY <2>1 DEF BoundedInv, BoundedStart
  <2>5. BoundedTypes' /\ BoundedStart'
    BY <1>1, <2>1, <2>2, <2>3, <2>4 DEF BoundedInv, BoundedTypes, BoundedStart
  <2>6. BoundedCounts'
    <3>1. Len(queue[t]) = canConsume[t]
      BY <2>1, <2>2 DEF BoundedInv, BoundedCounts
    <3>2. Len(queue'[t]) = canConsume'[t] + 1
      BY <1>1, <2>2, <3>1
    <3>3. \A k \in Bounded!Consumers : k # t =>
            Len(queue'[k]) = canConsume'[k] + (IF worker'[k] = "pop" THEN 1 ELSE 0)
      BY <1>1, <2>2, <2>3 DEF BoundedInv, BoundedCounts
    <3>4. Len(queue'[0]) = canConsume'[0] + (IF pc'.dispatcher = "pop" THEN 1 ELSE 0)
      BY <1>1, <2>1, <2>2 DEF BoundedInv, BoundedCounts
    <3> QED
      BY <2>3, <3>2, <3>3, <3>4 DEF BoundedCounts
  <2>7. BoundedHand'
    BY <1>1, <1>3, <2>1 DEF BoundedInv, BoundedHand
  <2> QED
    BY <1>2, <2>5, <2>6, <2>7 DEF BoundedInv
<1> QED
  BY <1>5, <1>6

\* What a signal of a push leaves of the counts.
LEMMA BoundedPushed ==
  ASSUME BoundedInv, NEW t \in Bounded!Queues,
         canConsume' = [canConsume EXCEPT ![t] = @ + 1],
         queue'[t] \in Seq(Bounded!Messages), Len(queue'[t]) = Len(queue[t]) + 1,
         \A k \in Bounded!Queues : k # t => queue'[k] = queue[k],
         worker' = worker, pc'.dispatcher = "pop" <=> pc.dispatcher = "pop"
  PROVE  canConsume' \in [Bounded!Queues -> Nat] /\ BoundedCounts'
<1>1. canConsume \in [Bounded!Queues -> Nat]
  BY DEF BoundedInv, BoundedTypes
<1>2. /\ canConsume' \in [Bounded!Queues -> Nat] /\ canConsume[t] \in Nat
      /\ canConsume'[t] = canConsume[t] + 1
      /\ \A k \in Bounded!Queues : k # t => canConsume'[k] = canConsume[k]
  BY <1>1
<1>3. ASSUME NEW k \in Bounded!Queues, NEW b \in {0, 1}, Len(queue[k]) = canConsume[k] + b
      PROVE  Len(queue'[k]) = canConsume'[k] + b
  <2>1. CASE k = t
    BY <1>2, <1>3, <2>1
  <2>2. CASE k # t
    BY <1>2, <1>3, <2>2
  <2> QED
    BY <2>1, <2>2
<1>4. Len(queue'[0]) = canConsume'[0] + (IF pc'.dispatcher = "pop" THEN 1 ELSE 0)
  <2>1. Len(queue[0]) = canConsume[0] + (IF pc.dispatcher = "pop" THEN 1 ELSE 0)
    BY DEF BoundedInv, BoundedCounts
  <2> QED
    BY <1>3, <2>1, BoundedNames
<1>5. ASSUME NEW k \in Bounded!Consumers
      PROVE  Len(queue'[k]) = canConsume'[k] + (IF worker'[k] = "pop" THEN 1 ELSE 0)
  <2>1. Len(queue[k]) = canConsume[k] + (IF worker[k] = "pop" THEN 1 ELSE 0)
    BY DEF BoundedInv, BoundedCounts
  <2> QED
    BY <1>3, <2>1, BoundedNames
<1> QED
  BY <1>2, <1>4, <1>5 DEF BoundedCounts

\* A new message of the producer.
LEMMA BoundedProduce ==
  ASSUME BoundedInv, NEW target \in 1..(ConsumerCount + 1), Bounded!ProducerPush(target)
  PROVE  BoundedInv'
<1> DEFINE x == [target |-> target, source |-> 1, number |-> produced]
<1>1. /\ pc.producer = "push" /\ produced < PackageCount
      /\ queue' = [queue EXCEPT ![0] = Append(@, x)]
      /\ canConsume' = [canConsume EXCEPT ![0] = @ + 1]
      /\ produced' = produced + 1 /\ pc' = [pc EXCEPT !.producer = "reserve"]
      /\ UNCHANGED <<worker, hand, received>>
  BY DEF Bounded!ProducerPush, Bounded!Push
<1>2. /\ produced \in 0..PackageCount /\ produced' \in 0..PackageCount
      /\ produced < produced' /\ produced \in Int /\ produced' \in Int
  BY <1>1, BoundedNames DEF BoundedInv, BoundedTypes
<1>3. x \in Bounded!Messages /\ x.source = 1 /\ x.number = produced
  BY <1>2, BoundedMessages
<1> HIDE DEF x
<1>4. Enters(Bounded!Queues, Bounded!Messages, queue, x, queue')
  BY <1>1, <1>3, BoundedSets DEF Enters
<1>5. /\ Queues(Bounded!Queues, Bounded!Messages, queue')
      /\ queue'[0] = Append(queue[0], x)
      /\ Range(queue'[0]) = Range(queue[0]) \cup {x}
      /\ \A k \in Bounded!Queues : k # 0 => queue'[k] = queue[k]
      /\ \A k \in Bounded!Consumers : queue'[k] = queue[k]
  BY <1>4, EnterQueues, BoundedNames
<1>6. /\ pc' \in [main : {"start", "join", "done", "aborted"},
                  producer : {"unstarted", "reserve", "push", "done"},
                  dispatcher : {"unstarted", "take", "pop", "find", "reserve", "push",
                                "done"}]
      /\ pc'.main = pc.main /\ pc'.dispatcher = pc.dispatcher
  BY <1>1 DEF BoundedInv, BoundedTypes
<1>7. canConsume' \in [Bounded!Queues -> Nat] /\ BoundedCounts'
  <2>1. Len(queue'[0]) = Len(queue[0]) + 1 /\ queue'[0] \in Seq(Bounded!Messages)
    BY <1>3, <1>5, BoundedSets, RangeAppend
  <2> QED
    BY <1>1, <1>5, <1>6, <2>1, BoundedPushed, BoundedNames
<1>8. BoundedTypes' /\ BoundedStart'
  BY <1>1, <1>2, <1>5, <1>6, <1>7 DEF BoundedInv, BoundedTypes, BoundedStart
<1>9. \A m \in Bounded!Messages : BoundedMade(m) => BoundedMade(m)'
  BY <1>2, BoundedMessages DEF BoundedMade
<1>10. BoundedTargets'
  <2>1. x.source = 1 /\ x.number < produced'
    BY <1>2, <1>3
  <2>2. \A m \in Range(queue[0]) : m = Bounded!StopMessage \/ BoundedMade(m)'
    BY <1>9, BoundedSets DEF BoundedInv, BoundedTargets
  <2>3. ASSUME NEW k \in Bounded!Consumers
        PROVE  /\ \A m \in Range(queue[k]) :
                    m = Bounded!StopMessage \/ (BoundedMade(m)' /\ m.target = k)
               /\ \A m \in Range(received[k]) : BoundedMade(m)' /\ m.target = k
    BY <1>9, BoundedSets DEF BoundedInv, BoundedTargets
  <2>4. \A m \in Range(queue'[0]) :
          m = Bounded!StopMessage \/ (m.source = 1 /\ m.number < produced')
    BY <1>5, <2>1, <2>2 DEF BoundedMade
  <2> QED
    BY <1>1, <1>5, <2>3, <2>4 DEF BoundedTargets, BoundedMade
<1>11. ASSUME NEW k \in Bounded!Consumers, NEW S, S \subseteq Bounded!Messages,
              \A m \in S : m = Bounded!StopMessage \/ BoundedMade(m)
       PROVE  Related(S, {x}, BoundedMine[k], BoundedEarlier)
  <2>1. ASSUME NEW m \in S, m \in BoundedMine[k]  PROVE <<m, x>> \in BoundedEarlier
    <3>1. m \in Bounded!Messages /\ m.source = 1 /\ m # Bounded!StopMessage
      BY <2>1, BoundedMessages DEF BoundedMine
    <3> QED
      BY <1>3, <1>11, <3>1 DEF BoundedMade, BoundedEarlier
  <2> QED
    BY <2>1 DEF Related
<1>12. BoundedPaths'
  <2>1. \A k \in Bounded!Consumers :
          /\ Related(Range(received[k]), {x}, BoundedMine[k], BoundedEarlier)
          /\ Related(Range(queue[k]), {x}, BoundedMine[k], BoundedEarlier)
          /\ Related(Range(queue[0]), {x}, BoundedMine[k], BoundedEarlier)
    BY <1>11, BoundedSets DEF BoundedInv, BoundedTargets
  <2>2. PathsHold(Bounded!Queues, Bounded!Messages, Bounded!Consumers, received, queue',
                  BoundedMine, BoundedEarlier)
    BY <1>4, <2>1, EnterPaths DEF BoundedInv, BoundedPaths
  <2> QED
    BY <1>1, <2>2 DEF BoundedPaths
<1>13. BoundedHand'
  <2>1. hand.message \in Bounded!Messages
    BY DEF BoundedInv, BoundedTypes
  <2>2. ASSUME pc.dispatcher \in {"find", "reserve", "push"}
        PROVE  BoundedBetween(hand.message)'
    <3>1. \A m \in {hand.message} : m = Bounded!StopMessage \/ BoundedMade(m)
      BY <2>2 DEF BoundedInv, BoundedHand
    <3>2. \A k \in Bounded!Consumers :
            Related({hand.message}, {x}, BoundedMine[k], BoundedEarlier)
      BY <1>11, <2>1, <3>1
    <3>3. BoundedBetween(hand.message)
      BY <2>2 DEF BoundedInv, BoundedHand
    <3> QED
      BY <1>1, <1>5, <3>2, <3>3 DEF BoundedBetween, Related
  <2> QED
    BY <1>1, <1>6, <1>9, <2>1, <2>2 DEF BoundedInv, BoundedHand, BoundedMade
<1> QED
  BY <1>7, <1>8, <1>10, <1>12, <1>13 DEF BoundedInv

\* The producer's stop.
LEMMA BoundedProducerStop == ASSUME BoundedInv, Bounded!ProducerStop  PROVE BoundedInv'
<1> DEFINE x == Bounded!StopMessage
<1>1. /\ queue' = [queue EXCEPT ![0] = Append(@, x)]
      /\ canConsume' = [canConsume EXCEPT ![0] = @ + 1]
      /\ pc' = [pc EXCEPT !.producer = "done"]
      /\ UNCHANGED <<worker, hand, produced, received>>
  BY DEF Bounded!ProducerStop, Bounded!Push
<1>2. x \in Bounded!Messages /\ x = Bounded!StopMessage
  BY BoundedMessages
<1> HIDE DEF x
<1>3. Enters(Bounded!Queues, Bounded!Messages, queue, x, queue')
  BY <1>1, <1>2, BoundedSets DEF Enters
<1>4. /\ Queues(Bounded!Queues, Bounded!Messages, queue')
      /\ queue'[0] = Append(queue[0], x)
      /\ Range(queue'[0]) = Range(queue[0]) \cup {x}
      /\ \A k \in Bounded!Queues : k # 0 => queue'[k] = queue[k]
      /\ \A k \in Bounded!Consumers : queue'[k] = queue[k]
  BY <1>3, EnterQueues, BoundedNames
<1>5. /\ pc' \in [main : {"start", "join", "done", "aborted"},
                  producer : {"unstarted", "reserve", "push", "done"},
                  dispatcher : {"unstarted", "take", "pop", "find", "reserve", "push",
                                "done"}]
      /\ pc'.main = pc.main /\ pc'.dispatcher = pc.dispatcher
  BY <1>1 DEF BoundedInv, BoundedTypes
<1>6. canConsume' \in [Bounded!Queues -> Nat] /\ BoundedCounts'
  <2>1. Len(queue'[0]) = Len(queue[0]) + 1 /\ queue'[0] \in Seq(Bounded!Messages)
    BY <1>2, <1>4, BoundedSets, RangeAppend
  <2> QED
    BY <1>1, <1>4, <1>5, <2>1, BoundedPushed, BoundedNames
<1>7. BoundedTypes' /\ BoundedStart'
  BY <1>1, <1>4, <1>5, <1>6 DEF BoundedInv, BoundedTypes, BoundedStart
<1>8. BoundedTargets'
  BY <1>1, <1>2, <1>4 DEF BoundedInv, BoundedTargets, BoundedMade
<1>9. ASSUME NEW k \in Bounded!Consumers, NEW S
      PROVE  Related(S, {x}, BoundedMine[k], BoundedEarlier)
  BY <1>2, BoundedForeign
<1>10. BoundedPaths'
  <2>1. PathsHold(Bounded!Queues, Bounded!Messages, Bounded!Consumers, received, queue',
                  BoundedMine, BoundedEarlier)
    BY <1>3, <1>9, EnterPaths DEF BoundedInv, BoundedPaths
  <2> QED
    BY <1>1, <2>1 DEF BoundedPaths
<1>11. BoundedHand'
  <2>1. BoundedBetween(hand.message) => BoundedBetween(hand.message)'
    <3>1. \A k \in Bounded!Consumers :
            Related({hand.message}, {x}, BoundedMine[k], BoundedEarlier)
      BY <1>9
    <3> QED
      BY <1>1, <1>4, <3>1 DEF BoundedBetween, Related
  <2> QED
    BY <1>1, <1>5, <2>1 DEF BoundedInv, BoundedHand, BoundedMade
<1> QED
  BY <1>6, <1>7, <1>8, <1>10, <1>11 DEF BoundedInv

\* The dispatcher takes the first message of its queue into its hand.
LEMMA BoundedDispatcherPop == ASSUME BoundedInv, Bounded!DispatcherPop  PROVE BoundedInv'
<1> DEFINE x == Head(queue[0])
<1>1. /\ pc.dispatcher = "pop" /\ queue' = [queue EXCEPT ![0] = Tail(@)]
      /\ \/ /\ x = Bounded!StopMessage /\ hand' = [message |-> x, target |-> 1]
            /\ pc' = [pc EXCEPT !.dispatcher = "reserve"]
         \/ /\ x # Bounded!StopMessage
            /\ hand' = [message |-> x, target |-> x.target]
            /\ pc' = [pc EXCEPT !.dispatcher = "find"]
      /\ UNCHANGED <<worker, canConsume, produced, received>>
  BY DEF Bounded!DispatcherPop, Bounded!Pop
<1>2. /\ canConsume[0] \in Nat /\ Len(queue[0]) = canConsume[0] + 1
      /\ queue[0] \in Seq(Bounded!Messages)
  BY <1>1, BoundedSets, BoundedNames DEF BoundedInv, BoundedTypes, BoundedCounts
<1>3. queue[0] # <<>> /\ Len(Tail(queue[0])) = canConsume[0]
  BY <1>2
<1>4. Leaves(Bounded!Queues, Bounded!Messages, queue, queue')
  BY <1>1, <1>3, BoundedSets DEF Leaves
<1>5. /\ Queues(Bounded!Queues, Bounded!Messages, queue') /\ queue'[0] = Tail(queue[0])
      /\ \A k \in Bounded!Queues : k # 0 => queue'[k] = queue[k]
      /\ x \in Bounded!Messages
      /\ Range(queue[0]) = {x} \cup Range(queue'[0])
  BY <1>4, LeaveQueues
<1>6. \A k \in Bounded!Consumers : queue'[k] = queue[k]
  BY <1>5, BoundedNames
<1>7. /\ PathsHold(Bounded!Queues, Bounded!Messages, Bounded!Consumers, received, queue',
                   BoundedMine, BoundedEarlier)
      /\ \A k \in Bounded!Consumers :
           /\ Related(Range(received[k]), {x}, BoundedMine[k], BoundedEarlier)
           /\ Related(Range(queue'[k]), {x}, BoundedMine[k], BoundedEarlier)
           /\ Related({x}, Range(queue'[0]), BoundedMine[k], BoundedEarlier)
  <2>1. PathsHold(Bounded!Queues, Bounded!Messages, Bounded!Consumers, received, queue,
                  BoundedMine, BoundedEarlier)
    BY DEF BoundedInv, BoundedPaths
  <2> QED
    BY <1>4, <2>1, LeavePaths
<1>8. x \in Range(queue[0])
  BY <1>5
<1>9. x = Bounded!StopMessage \/ BoundedMade(x)
  BY <1>8 DEF BoundedInv, BoundedTargets
<1>10. x.target \in 0..(ConsumerCount + 1) /\ 1 \in 0..(ConsumerCount + 1)
       /\ 1 \in Bounded!Consumers
  BY <1>5, BoundedMessages, BoundedNames DEF Bounded!Consumers
<1> HIDE DEF x
<1>11. /\ pc \in [main : {"start", "join", "done", "aborted"},
                  producer : {"unstarted", "reserve", "push", "done"},
                  dispatcher : {"unstarted", "take", "pop", "find", "reserve", "push",
                                "done"}]
       /\ pc.main # "start"
  BY <1>1 DEF BoundedInv, BoundedTypes, BoundedStart
<1>12. /\ pc' \in [main : {"start", "join", "done", "aborted"},
                   producer : {"unstarted", "reserve", "push", "done"},
                   dispatcher : {"unstarted", "take", "pop", "find", "reserve", "push",
                                 "done"}]
       /\ pc'.main # "start"
       /\ hand' \in [message : Bounded!Messages, target : 0..(ConsumerCount + 1)]
       /\ hand'.message = x
       /\ \/ x = Bounded!StopMessage /\ hand'.target = 1 /\ pc'.dispatcher = "reserve"
          \/ x # Bounded!StopMessage /\ hand'.target = x.target /\ pc'.dispatcher = "find"
  BY <1>1, <1>5, <1>10, <1>11
<1>13. BoundedTypes' /\ BoundedStart'
  BY <1>1, <1>5, <1>12 DEF BoundedInv, BoundedTypes, BoundedStart
<1>14. BoundedCounts'
  <2>1. Len(queue'[0]) = canConsume'[0]
    BY <1>1, <1>3, <1>5
  <2>2. pc'.dispatcher # "pop"
    BY <1>12
  <2>3. canConsume'[0] = canConsume'[0] + 0
    BY <1>1, <1>2
  <2> QED
    BY <1>1, <1>6, <2>1, <2>2, <2>3 DEF BoundedInv, BoundedCounts
<1>15. BoundedTargets'
  BY <1>1, <1>5, <1>6 DEF BoundedInv, BoundedTargets, BoundedMade
<1>16. BoundedPaths'
  BY <1>1, <1>7 DEF BoundedPaths
<1>17. BoundedHand'
  <2>1. BoundedBetween(hand.message)'
    BY <1>1, <1>7, <1>12 DEF BoundedBetween
  <2>2. \/ hand'.message = Bounded!StopMessage
        \/ BoundedMade(hand.message)' /\ hand'.target = hand'.message.target
    BY <1>1, <1>9, <1>12 DEF BoundedMade
  <2>3. pc'.dispatcher \in {"reserve", "push"} => hand'.target \in Bounded!Consumers
    BY <1>10, <1>12
  <2> QED
    BY <2>1, <2>2, <2>3 DEF BoundedHand
<1> QED
  BY <1>13, <1>14, <1>15, <1>16, <1>17 DEF BoundedInv

\* The dispatcher pushes what it has in its hand; a stop it keeps for the next
\* queue.
LEMMA BoundedDispatcherPush ==
  ASSUME BoundedInv, Bounded!DispatcherPush \/ Bounded!DispatcherPushStop
  PROVE  BoundedInv'
<1> DEFINE x == hand.message
           t == hand.target
<1>1. /\ pc.dispatcher = "push" /\ queue' = [queue EXCEPT ![t] = Append(@, x)]
      /\ canConsume' = [canConsume EXCEPT ![t] = @ + 1]
      /\ \/ pc' = [pc EXCEPT !.dispatcher = "take"] /\ hand' = hand
         \/ pc' = [pc EXCEPT !.dispatcher = "done"] /\ hand' = hand
         \/ /\ x = Bounded!StopMessage /\ t # ConsumerCount
            /\ pc' = [pc EXCEPT !.dispatcher = "reserve"]
            /\ hand' = [hand EXCEPT !.target = @ + 1]
      /\ UNCHANGED <<worker, produced, received>>
  BY DEF Bounded!DispatcherPush, Bounded!DispatcherPushStop, Bounded!Push
<1>2. /\ t \in Bounded!Consumers /\ x \in Bounded!Messages
      /\ t \in Bounded!Queues /\ t # 0
      /\ hand \in [message : Bounded!Messages, target : 0..(ConsumerCount + 1)]
  BY <1>1, BoundedNames DEF BoundedInv, BoundedTypes, BoundedHand
<1>3. /\ x = Bounded!StopMessage \/ (BoundedMade(x) /\ t = x.target)
      /\ BoundedBetween(x)
  BY <1>1 DEF BoundedInv, BoundedHand
<1>4. t # ConsumerCount => t + 1 \in Bounded!Consumers /\ t + 1 \in 0..(ConsumerCount + 1)
  BY <1>2, BoundedNames DEF Bounded!Consumers
<1>5. /\ hand' \in [message : Bounded!Messages, target : 0..(ConsumerCount + 1)]
      /\ hand'.message = x
      /\ \/ hand'.target = t
         \/ x = Bounded!StopMessage /\ t # ConsumerCount /\ hand'.target = t + 1
  BY <1>1, <1>2, <1>4
<1> HIDE DEF x, t
<1>6. Passes(Bounded!Queues, Bounded!Messages, queue, x, t, queue')
  BY <1>1, <1>2, BoundedSets DEF Passes
<1>7. /\ Queues(Bounded!Queues, Bounded!Messages, queue') /\ queue'[0] = queue[0]
      /\ queue[t] \in Seq(Bounded!Messages) /\ queue'[t] = Append(queue[t], x)
      /\ \A k \in Bounded!Queues : k # t => queue'[k] = queue[k]
      /\ Range(queue'[t]) = Range(queue[t]) \cup {x}
  BY <1>6, PassQueues
<1>8. \A k \in Bounded!Consumers : k # t => queue'[k] = queue[k]
  BY <1>7, BoundedNames
<1>9. /\ pc \in [main : {"start", "join", "done", "aborted"},
                 producer : {"unstarted", "reserve", "push", "done"},
                 dispatcher : {"unstarted", "take", "pop", "find", "reserve", "push",
                               "done"}]
      /\ pc.main # "start"
  BY <1>1 DEF BoundedInv, BoundedTypes, BoundedStart
<1>10. /\ pc' \in [main : {"start", "join", "done", "aborted"},
                   producer : {"unstarted", "reserve", "push", "done"},
                   dispatcher : {"unstarted", "take", "pop", "find", "reserve", "push",
                                 "done"}]
       /\ pc'.main # "start" /\ pc'.dispatcher \in {"take", "done", "reserve"}
       /\ pc'.dispatcher = "reserve" =>
            x = Bounded!StopMessage /\ hand'.target \in Bounded!Consumers
  <2>1. hand' = [hand EXCEPT !.target = @ + 1] => hand'.target = t + 1
    BY <1>2 DEF t
  <2> QED
    BY <1>1, <1>4, <1>9, <2>1
<1>11. canConsume' \in [Bounded!Queues -> Nat] /\ BoundedCounts'
  <2>1. Len(queue'[t]) = Len(queue[t]) + 1 /\ queue'[t] \in Seq(Bounded!Messages)
    BY <1>2, <1>7, RangeAppend
  <2> QED
    BY <1>1, <1>2, <1>7, <1>10, <2>1, BoundedPushed
<1>12. BoundedTypes' /\ BoundedStart'
  BY <1>1, <1>5, <1>7, <1>10, <1>11 DEF BoundedInv, BoundedTypes, BoundedStart
<1>13. BoundedTargets'
  <2>1. \A m \in Range(queue'[t]) : m = Bounded!StopMessage \/ (BoundedMade(m) /\ m.target = t)
    BY <1>2, <1>3, <1>7 DEF BoundedInv, BoundedTargets
  <2> QED
    BY <1>1, <1>7, <1>8, <2>1 DEF BoundedInv, BoundedTargets, BoundedMade
<1>14. BoundedPaths'
  <2>1. PathsHold(Bounded!Queues, Bounded!Messages, Bounded!Consumers, received, queue,
                  BoundedMine, BoundedEarlier)
    BY DEF BoundedInv, BoundedPaths
  <2>2. \A k \in Bounded!Consumers :
          /\ Related(Range(received[k]), {x}, BoundedMine[k], BoundedEarlier)
          /\ Related(Range(queue[k]), {x}, BoundedMine[k], BoundedEarlier)
          /\ Related({x}, Range(queue[0]), BoundedMine[k], BoundedEarlier)
    BY <1>3 DEF BoundedBetween
  <2>3. PathsHold(Bounded!Queues, Bounded!Messages, Bounded!Consumers, received, queue',
                  BoundedMine, BoundedEarlier)
    BY <1>6, <2>1, <2>2, PassPaths
  <2> QED
    BY <1>1, <2>3 DEF BoundedPaths
<1>15. BoundedHand'
  <2> SUFFICES ASSUME pc'.dispatcher = "reserve"  PROVE BoundedHand'
    BY <1>10 DEF BoundedHand
  <2>1. /\ hand'.message = Bounded!StopMessage /\ hand'.target \in Bounded!Consumers
    BY <1>5, <1>10
  <2>2. BoundedBetween(hand.message)'
    BY <2>1, BoundedForeign DEF BoundedBetween
  <2> QED
    BY <2>1, <2>2 DEF BoundedHand
<1> QED
  BY <1>11, <1>12, <1>13, <1>14, <1>15 DEF BoundedInv

\* A consumer takes the message it waited for.
LEMMA BoundedConsumerPop ==
  ASSUME BoundedInv, NEW t \in Bounded!Consumers, Bounded!ConsumerPop(t)
  PROVE  BoundedInv'
<1> DEFINE x == Head(queue[t])
<1>1. /\ worker[t] = "pop" /\ queue' = [queue EXCEPT ![t] = Tail(@)]
      /\ \/ /\ received' = received
            /\ worker' = [worker EXCEPT ![t] = "done"]
         \/ /\ x # Bounded!StopMessage
            /\ received' = [received EXCEPT ![t] = Append(@, x)]
            /\ worker' = [worker EXCEPT ![t] = "take"]
      /\ UNCHANGED <<pc, canConsume, hand, produced>>
  BY DEF Bounded!ConsumerPop, Bounded!Pop
<1>2. /\ t \in Bounded!Queues /\ t # 0
      /\ canConsume[t] \in Nat /\ Len(queue[t]) = canConsume[t] + 1
      /\ queue[t] \in Seq(Bounded!Messages)
  BY <1>1, BoundedSets, BoundedNames DEF BoundedInv, BoundedTypes, BoundedCounts
<1>3. queue[t] # <<>> /\ Len(Tail(queue[t])) = canConsume[t]
  BY <1>2
<1>4. Takes(Bounded!Queues, Bounded!Messages, queue, t, queue')
  BY <1>1, <1>2, <1>3, BoundedSets DEF Takes
<1>5. /\ Queues(Bounded!Queues, Bounded!Messages, queue')
      /\ queue'[t] = Tail(queue[t]) /\ queue'[0] = queue[0]
      /\ \A k \in Bounded!Queues : k # t => queue'[k] = queue[k]
      /\ x \in Bounded!Messages
      /\ Range(queue[t]) = {x} \cup Range(queue'[t])
  BY <1>4, TakeQueues
<1>6. \A k \in Bounded!Consumers : k # t => queue'[k] = queue[k]
  BY <1>5, BoundedNames
<1>7. PathsHold(Bounded!Queues, Bounded!Messages, Bounded!Consumers, received', queue',
                BoundedMine, BoundedEarlier)
  <2>1. PathsHold(Bounded!Queues, Bounded!Messages, Bounded!Consumers, received, queue,
                  BoundedMine, BoundedEarlier)
    BY DEF BoundedInv, BoundedPaths
  <2>2. \/ received' = received
        \/ /\ t \in Bounded!Consumers
           /\ received' = [received EXCEPT ![t] = Append(@, Head(queue[t]))]
    BY <1>1
  <2> QED
    BY <1>4, <2>1, <2>2, TakePaths
<1> HIDE DEF x
<1>8. /\ received' \in [Bounded!Consumers -> Seq(Bounded!Messages)]
      /\ \A k \in Bounded!Consumers : k # t => received'[k] = received[k]
      /\ \/ Range(received'[t]) = Range(received[t])
         \/ /\ x # Bounded!StopMessage
            /\ Range(received'[t]) = Range(received[t]) \cup {x}
  <2>1. received' \in [Bounded!Consumers -> Seq(Bounded!Messages)]
    BY <1>7 DEF PathsHold
  <2>2. received \in [Bounded!Consumers -> Seq(Bounded!Messages)]
    BY DEF BoundedInv, BoundedTypes
  <2>3. received[t] \in Seq(Bounded!Messages)
    BY <2>2
  <2>4. Range(Append(received[t], x)) = Range(received[t]) \cup {x}
    BY <1>5, <2>3, RangeAppend
  <2>5. CASE received' = received
    BY <2>1, <2>5
  <2>6. CASE x # Bounded!StopMessage /\ received' = [received EXCEPT ![t] = Append(@, x)]
    <3> DEFINE b == Append(received[t], x)
    <3>1. received' = [received EXCEPT ![t] = b]
      BY <2>6
    <3> HIDE DEF b
    <3>2. received'[t] = b /\ \A k \in Bounded!Consumers : k # t => received'[k] = received[k]
      BY <2>2, <3>1
    <3> QED
      BY <2>1, <2>4, <2>6, <3>2 DEF b
  <2> QED
    BY <1>1, <2>5, <2>6
<1>9. /\ worker' \in [Bounded!Consumers -> {"unstarted", "take", "pop", "done"}]
      /\ worker'[t] # "pop" /\ \A k \in Bounded!Consumers : k # t => worker'[k] = worker[k]
      /\ pc.main # "start"
  <2>1. worker \in [Bounded!Consumers -> {"unstarted", "take", "pop", "done"}]
    BY DEF BoundedInv, BoundedTypes
  <2>2. pc.main # "start"
    BY <1>1 DEF BoundedInv, BoundedStart
  <2> QED
    BY <1>1, <2>1, <2>2
<1>10. BoundedTypes' /\ BoundedStart'
  BY <1>1, <1>5, <1>8, <1>9 DEF BoundedInv, BoundedTypes, BoundedStart
<1>11. BoundedCounts'
  <2>1. Len(queue'[t]) = canConsume'[t] + 0
    <3>1. Len(queue'[t]) = canConsume[t] /\ canConsume[t] = canConsume[t] + 0
      BY <1>2, <1>3, <1>5
    <3> QED
      BY <1>1, <3>1
  <2>2. \A k \in Bounded!Consumers : k # t =>
          Len(queue'[k]) = canConsume'[k] + (IF worker'[k] = "pop" THEN 1 ELSE 0)
    BY <1>1, <1>6, <1>9 DEF BoundedInv, BoundedCounts
  <2>3. Len(queue'[0]) = canConsume'[0] + (IF pc'.dispatcher = "pop" THEN 1 ELSE 0)
    BY <1>1, <1>5 DEF BoundedInv, BoundedCounts
  <2> QED
    BY <1>9, <2>1, <2>2, <2>3 DEF BoundedCounts
<1>12. BoundedTargets'
  <2>1. /\ \A m \in Range(queue[t]) :
             m = Bounded!StopMessage \/ (BoundedMade(m) /\ m.target = t)
        /\ \A m \in Range(received[t]) : BoundedMade(m) /\ m.target = t
    BY DEF BoundedInv, BoundedTargets
  <2>2. /\ \A m \in Range(queue'[t]) :
             m = Bounded!StopMessage \/ (BoundedMade(m) /\ m.target = t)
        /\ \A m \in Range(received'[t]) : BoundedMade(m) /\ m.target = t
    BY <1>5, <1>8, <2>1
  <2> QED
    BY <1>1, <1>5, <1>6, <1>8, <2>2 DEF BoundedInv, BoundedTargets, BoundedMade
<1>13. BoundedPaths'
  BY <1>7 DEF BoundedPaths
<1>14. BoundedHand'
  <2>1. ASSUME BoundedBetween(hand.message)  PROVE BoundedBetween(hand.message)'
    <3>1. Related(Range(received'[t]), {hand.message}, BoundedMine[t], BoundedEarlier)
      BY <1>5, <1>8, <2>1 DEF BoundedBetween, Related
    <3>2. Related(Range(queue'[t]), {hand.message}, BoundedMine[t], BoundedEarlier)
      BY <1>5, <2>1 DEF BoundedBetween, Related
    <3> QED
      BY <1>1, <1>5, <1>6, <1>8, <2>1, <3>1, <3>2 DEF BoundedBetween
  <2> QED
    BY <1>1, <2>1 DEF BoundedInv, BoundedHand, BoundedMade
<1> QED
  BY <1>10, <1>11, <1>12, <1>13, <1>14 DEF BoundedInv

\* Every step of the simulation preserves the invariant.
LEMMA BoundedStep == BoundedInv /\ [Bounded!Next]_(Bounded!vars) => BoundedInv'
<1> SUFFICES ASSUME BoundedInv, [Bounded!Next]_(Bounded!vars)  PROVE BoundedInv'
  OBVIOUS
<1>1. CASE Bounded!StartThreads \/ Bounded!Join \/ UNCHANGED Bounded!vars
  BY <1>1, BoundedQuiet
<1>2. CASE Bounded!ProducerSteps
  BY <1>2, BoundedQuiet, BoundedProduce, BoundedProducerStop DEF Bounded!ProducerSteps
<1>3. CASE Bounded!DispatcherSteps
  BY <1>3, BoundedQuiet, BoundedTake, BoundedDispatcherPop, BoundedDispatcherPush
     DEF Bounded!DispatcherSteps
<1>4. ASSUME NEW k \in Bounded!Consumers, Bounded!ConsumerSteps(k)  PROVE BoundedInv'
  BY <1>4, BoundedTake, BoundedConsumerPop DEF Bounded!ConsumerSteps
<1> QED
  BY <1>1, <1>2, <1>3, <1>4 DEF Bounded!Next

\* A consumer has received its own messages in the order they were made, and
\* whoever was signalled finds an element.
LEMMA BoundedOrder == BoundedInv => Bounded!InOrder /\ Bounded!PopsAnElement
<1> SUFFICES ASSUME BoundedInv  PROVE Bounded!InOrder /\ Bounded!PopsAnElement
  OBVIOUS
<1>1. ASSUME NEW k \in Bounded!Consumers,
             NEW i \in 1..Len(received[k]), NEW j \in 1..Len(received[k])
      PROVE  /\ received[k][i].target = k
             /\ i < j => received[k][i].number < received[k][j].number
  <2>1. received[k] \in Seq(Bounded!Messages) /\ Range(received[k]) \subseteq Bounded!Messages
    BY BoundedSets
  <2>2. Chain(received[k], BoundedMine[k], BoundedEarlier)
    BY DEF BoundedInv, BoundedPaths, PathsHold, InPath
  <2>3. received[k][i] \in Range(received[k]) /\ received[k][j] \in Range(received[k])
    BY <2>1 DEF Range
  <2>4. \A m \in Range(received[k]) : m \in BoundedMine[k] /\ m.target = k
    BY <2>1 DEF BoundedInv, BoundedTargets, BoundedMade, BoundedMine
  <2>5. i < j => <<received[k][i], received[k][j]>> \in BoundedEarlier
    BY <2>2, <2>3, <2>4 DEF Chain
  <2> QED
    BY <2>3, <2>4, <2>5 DEF BoundedEarlier
<1>2. Bounded!InOrder
  BY <1>1 DEF Bounded!InOrder
<1>3. ASSUME NEW k \in Bounded!Queues, Len(queue[k]) = canConsume[k] + 1
      PROVE  queue[k] # <<>>
  <2>1. canConsume[k] \in Nat
    BY DEF BoundedInv, BoundedTypes
  <2>2. Len(<<>>) = 0
    OBVIOUS
  <2> QED
    BY <1>3, <2>1, <2>2
<1>4. Bounded!PopsAnElement
  BY <1>3, BoundedNames DEF BoundedInv, BoundedCounts, Bounded!PopsAnElement
<1> QED
  BY <1>2, <1>4

-----------------------------------------------------------------------------
(* How many messages wait in the queues D and were received by C           *)

\* The messages of a queue that are not stops.
Others(s, stop) == Cardinality({i \in 1..Len(s) : s[i] # stop})

Waiting(D, q, stop) == SumFunction([k \in D |-> Others(q[k], stop)])
Taken(C, r) == SumFunction([k \in C |-> Len(r[k])])
InNetwork(D, C, q, r, stop) == Waiting(D, q, stop) + Taken(C, r)

Network(D, M, C, q, r) ==
  /\ IsFiniteSet(D) /\ IsFiniteSet(C)
  /\ Queues(D, M, q) /\ r \in [C -> Seq(M)]

\* A stop is not counted.
Counts(x, stop) == IF x = stop THEN 0 ELSE 1

\* The elements of a queue other than the stop, and what push and pop do to
\* their number.
LEMMA OthersAre ==
  ASSUME NEW M, NEW s \in Seq(M), NEW stop
  PROVE  /\ Others(s, stop) \in Nat
         /\ Others(s, stop) = Len(s) - Cardinality(Positions(stop, s))
<1> DEFINE I == 1..Len(s)
           P == Positions(stop, s)
           O == {i \in 1..Len(s) : s[i] # stop}
<1>1. IsFiniteSet(I) /\ Cardinality(I) = Len(s) /\ Len(s) \in Nat
  <2>1. PICK n \in Nat : n = Len(s)
    OBVIOUS
  <2>2. IsFiniteSet(1..n) /\ Cardinality(1..n) = n
    <3>1. 1 \in Int /\ n \in Int
      OBVIOUS
    <3>2. IsFiniteSet(1..n) /\ Cardinality(1..n) = IF 1 > n THEN 0 ELSE n - 1 + 1
      BY <3>1, FS_Interval, Zenon
    <3> QED
      BY <3>2
  <2> QED
    BY <2>1, <2>2, Zenon
<1>2. P \in SUBSET I /\ O = I \ P
  BY DEF Positions
<1>3. I \cap P = P
  BY <1>2
<1>4. Others(s, stop) = Cardinality(O)
  BY DEF Others
<1> HIDE DEF I, P, O
<1>5. Cardinality(I \ P) = Cardinality(I) - Cardinality(I \cap P)
  BY <1>1, FS_Difference
<1>6. IsFiniteSet(I \ P)
  BY <1>1, FS_Difference
<1>7. Cardinality(O) \in Nat
  BY <1>2, <1>6, FS_CardinalityType
<1> QED
  BY <1>1, <1>2, <1>3, <1>4, <1>5, <1>7 DEF P

\* Push and pop change their number by the message that is no stop.
LEMMA OthersChange ==
  ASSUME NEW M, NEW s \in Seq(M), NEW stop
  PROVE  /\ Others(s, stop) \in Nat
         /\ s = <<>> => Others(s, stop) = 0
         /\ \A x \in M :
              Others(Append(s, x), stop) = Others(s, stop) + Counts(x, stop)
         /\ s # <<>> =>
              Others(s, stop) = Others(Tail(s), stop) + Counts(Head(s), stop)
<1>1. Others(s, stop) \in Nat
  BY OthersAre
<1>2. /\ Others(s, stop) = Len(s) - Cardinality(Positions(stop, s))
      /\ Len(s) \in Nat /\ Cardinality(Positions(stop, s)) \in Nat
  BY OthersAre, CountType
<1>3. s = <<>> => Others(s, stop) = 0
  BY <1>1, <1>2
<1>4. ASSUME NEW x \in M
      PROVE  Others(Append(s, x), stop) = Others(s, stop) + Counts(x, stop)
  <2> DEFINE a == Append(s, x)
  <2>1. a \in Seq(M) /\ Len(a) = Len(s) + 1
    OBVIOUS
  <2>2. Cardinality(Positions(stop, a))
          = Cardinality(Positions(stop, s)) + (IF x = stop THEN 1 ELSE 0)
    BY CountAppend
  <2> HIDE DEF a
  <2>3. Others(a, stop) = Len(a) - Cardinality(Positions(stop, a))
    BY <2>1, OthersAre
  <2>4. Others(a, stop) = Others(s, stop) + Counts(x, stop)
    BY <1>2, <2>1, <2>2, <2>3 DEF Counts
  <2> QED
    BY <2>4 DEF a
<1>5. ASSUME s # <<>>
      PROVE  Others(s, stop) = Others(Tail(s), stop) + Counts(Head(s), stop)
  <2>1. Tail(s) \in Seq(M) /\ Len(s) = Len(Tail(s)) + 1 /\ Len(Tail(s)) \in Nat
    BY <1>5, RangeTail
  <2>2. Others(Tail(s), stop)
          = Len(Tail(s)) - Cardinality(Positions(stop, Tail(s)))
    BY <2>1, OthersAre
  <2>3. Cardinality(Positions(stop, s))
          = Cardinality(Positions(stop, Tail(s)))
              + (IF Head(s) = stop THEN 1 ELSE 0)
    BY <1>5, CountTail
  <2>4. Cardinality(Positions(stop, Tail(s))) \in Nat
    BY <2>1, CountType
  <2> QED
    BY <1>2, <2>1, <2>2, <2>3, <2>4 DEF Counts
<1> QED
  BY <1>1, <1>3, <1>4, <1>5

\* The number of messages waiting changes as that of one queue does.
LEMMA WaitingChange ==
  ASSUME NEW D, NEW M, NEW q, NEW p, NEW t, Differ(D, Seq(M), q, p, t),
         NEW stop, NEW c \in Int,
         Others(p[t], stop) = Others(q[t], stop) + c
  PROVE  /\ Waiting(D, q, stop) \in Nat /\ Waiting(D, p, stop) \in Nat
         /\ Waiting(D, p, stop) = Waiting(D, q, stop) + c
<1> DEFINE f == [k \in D |-> Others(q[k], stop)]
           g == [k \in D |-> Others(p[k], stop)]
<1>1. f \in [D -> Nat] /\ g \in [D -> Nat] /\ t \in D
  BY OthersChange DEF Differ
<1>2. g[t] = f[t] + c
  BY <1>1
<1>3. Waiting(D, q, stop) = SumFunction(f) /\ Waiting(D, p, stop) = SumFunction(g)
  BY DEF Waiting
<1>4. \A k \in D \ {t} : g[k] = f[k]
  BY DEF Differ
<1> HIDE DEF f, g
<1>5. Differ(D, Nat, f, g, t)
  BY <1>1, <1>4 DEF Differ
<1>6. /\ SumFunction(g) = SumFunction(f) + (g[t] - f[t])
      /\ SumFunction(f) \in Nat /\ SumFunction(g) \in Nat /\ f[t] \in Nat
  BY <1>5, SumChange
<1> QED
  BY <1>2, <1>3, <1>6

\* Both are numbers, and nothing is in a network of empty queues.
LEMMA InNetworkType ==
  ASSUME NEW D, NEW M, NEW C, NEW q, NEW r, Network(D, M, C, q, r), NEW stop
  PROVE  /\ Waiting(D, q, stop) \in Nat /\ Taken(C, r) \in Nat
         /\ InNetwork(D, C, q, r, stop) \in Nat
         /\ (\A k \in D : q[k] = <<>>) /\ (\A k \in C : r[k] = <<>>) =>
              InNetwork(D, C, q, r, stop) = 0
<1> DEFINE f == [k \in D |-> Others(q[k], stop)]
           g == [k \in C |-> Len(r[k])]
<1>1. f \in [D -> Nat] /\ g \in [C -> Nat]
  BY OthersChange DEF Network, Queues
<1>2. (\A k \in D : q[k] = <<>>) => \A k \in D : f[k] = 0
  BY OthersChange DEF Network, Queues
<1>3. (\A k \in C : r[k] = <<>>) => \A k \in C : g[k] = 0
  OBVIOUS
<1>4. Waiting(D, q, stop) = SumFunction(f) /\ Taken(C, r) = SumFunction(g)
  BY DEF Waiting, Taken
<1> HIDE DEF f, g
<1>5. /\ SumFunction(f) \in Nat /\ SumFunction(g) \in Nat
      /\ (\A k \in D : f[k] = 0) => SumFunction(f) = 0
      /\ (\A k \in C : g[k] = 0) => SumFunction(g) = 0
  BY <1>1, SumType DEF Network
<1> QED
  BY <1>2, <1>3, <1>4, <1>5 DEF InNetwork

\* A queue t gets the message x, or its first one is taken.
Pushes(D, M, q, t, x, p) ==
  /\ Queues(D, M, q) /\ t \in D /\ x \in M
  /\ p = [q EXCEPT ![t] = Append(@, x)]
Pops(D, M, q, t, p) ==
  /\ Queues(D, M, q) /\ t \in D /\ q[t] # <<>>
  /\ p = [q EXCEPT ![t] = Tail(@)]

\* A message that enters a queue is counted once.
LEMMA PushCounts ==
  ASSUME NEW D, NEW M, NEW C, NEW q, NEW r, Network(D, M, C, q, r), NEW stop,
         NEW t, NEW x, NEW p, Pushes(D, M, q, t, x, p)
  PROVE  /\ Network(D, M, C, p, r)
         /\ InNetwork(D, C, p, r, stop) = InNetwork(D, C, q, r, stop) + Counts(x, stop)
<1> DEFINE a == Append(q[t], x)
<1>1. /\ IsFiniteSet(D) /\ 0 \in D /\ t \in D /\ q \in [D -> Seq(M)]
      /\ q[t] \in Seq(M) /\ x \in M /\ a \in Seq(M)
  BY DEF Pushes, Queues, Network
<1>2. p = [q EXCEPT ![t] = a]
  BY DEF Pushes
<1>3. Counts(x, stop) \in Int /\ Others(a, stop) = Others(q[t], stop) + Counts(x, stop)
  BY <1>1, OthersChange DEF Counts
<1> HIDE DEF a
<1>4. Differ(D, Seq(M), q, p, t) /\ p[t] = a
  BY <1>1, <1>2 DEF Differ
<1>5. /\ Waiting(D, q, stop) \in Nat
      /\ Waiting(D, p, stop) = Waiting(D, q, stop) + Counts(x, stop)
  BY <1>3, <1>4, WaitingChange
<1>6. Taken(C, r) \in Nat
  BY InNetworkType
<1>7. Network(D, M, C, p, r)
  BY <1>1, <1>4 DEF Differ, Network, Queues
<1> QED
  BY <1>3, <1>5, <1>6, <1>7 DEF InNetwork

\* A message taken from a queue no longer waits there.
LEMMA PopCounts ==
  ASSUME NEW D, NEW M, NEW C, NEW q, NEW r, Network(D, M, C, q, r), NEW stop,
         NEW t, NEW p, Pops(D, M, q, t, p)
  PROVE  /\ Network(D, M, C, p, r) /\ Head(q[t]) \in M
         /\ InNetwork(D, C, q, r, stop)
              = InNetwork(D, C, p, r, stop) + Counts(Head(q[t]), stop)
<1> DEFINE a == Tail(q[t])
           c == Counts(Head(q[t]), stop)
<1>1. /\ IsFiniteSet(D) /\ 0 \in D /\ t \in D /\ q \in [D -> Seq(M)]
      /\ q[t] \in Seq(M) /\ q[t] # <<>>
  BY DEF Pops, Queues, Network
<1>2. a \in Seq(M) /\ Head(q[t]) \in M
  BY <1>1, RangeTail
<1>3. p = [q EXCEPT ![t] = a]
  BY DEF Pops
<1>4. c \in Int /\ -c \in Int
  BY DEF Counts
<1>5. Others(q[t], stop) = Others(a, stop) + c /\ Others(a, stop) \in Nat
  BY <1>1, <1>2, OthersChange
<1> HIDE DEF a, c
<1>6. Differ(D, Seq(M), q, p, t) /\ p[t] = a
  BY <1>1, <1>2, <1>3 DEF Differ
<1>7. Others(p[t], stop) = Others(q[t], stop) + (-c)
  BY <1>4, <1>5, <1>6
<1>8. /\ Waiting(D, q, stop) \in Nat
      /\ Waiting(D, p, stop) = Waiting(D, q, stop) + (-c)
  BY <1>4, <1>6, <1>7, WaitingChange
<1>9. Taken(C, r) \in Nat
  BY InNetworkType
<1>10. Network(D, M, C, p, r)
  BY <1>1, <1>6 DEF Differ, Network, Queues
<1> QED
  BY <1>2, <1>4, <1>8, <1>9, <1>10 DEF InNetwork, c

\* The consumer k has received x.
Receives(C, M, r, k, x, s) == k \in C /\ x \in M /\ s = [r EXCEPT ![k] = Append(@, x)]

\* What a consumer receives is counted once.
LEMMA ReceiveCounts ==
  ASSUME NEW D, NEW M, NEW C, NEW q, NEW r, Network(D, M, C, q, r), NEW stop,
         NEW k, NEW x, NEW s, Receives(C, M, r, k, x, s)
  PROVE  /\ Network(D, M, C, q, s)
         /\ InNetwork(D, C, q, s, stop) = InNetwork(D, C, q, r, stop) + 1
<1> DEFINE a == Append(r[k], x)
<1>1. /\ k \in C /\ IsFiniteSet(C) /\ r \in [C -> Seq(M)] /\ a \in Seq(M)
      /\ Len(a) = Len(r[k]) + 1
  BY DEF Network, Receives
<1>2. s = [r EXCEPT ![k] = a]
  BY DEF Receives
<1> HIDE DEF a
<1>3. s \in [C -> Seq(M)] /\ s[k] = a /\ \A j \in C \ {k} : s[j] = r[j]
  BY <1>1, <1>2
<1> DEFINE f == [j \in C |-> Len(r[j])]
           g == [j \in C |-> Len(s[j])]
<1>4. f \in [C -> Nat] /\ g \in [C -> Nat]
  BY <1>1, <1>3
<1>5. g[k] = f[k] + 1 /\ \A j \in C \ {k} : g[j] = f[j]
  BY <1>1, <1>3
<1>6. Taken(C, r) = SumFunction(f) /\ Taken(C, s) = SumFunction(g)
  BY DEF Taken
<1> HIDE DEF f, g
<1>7. Differ(C, Nat, f, g, k)
  BY <1>1, <1>4, <1>5 DEF Differ
<1>8. /\ SumFunction(g) = SumFunction(f) + (g[k] - f[k])
      /\ SumFunction(f) \in Nat /\ f[k] \in Nat
  BY <1>7, SumChange
<1>9. Taken(C, s) = Taken(C, r) + 1
  BY <1>5, <1>6, <1>8
<1>10. Waiting(D, q, stop) \in Nat /\ Taken(C, r) \in Nat
  BY InNetworkType
<1>11. Network(D, M, C, q, s)
  BY <1>3 DEF Network
<1>12. InNetwork(D, C, q, s, stop) = InNetwork(D, C, q, r, stop) + 1
  BY <1>9, <1>10 DEF InNetwork
<1> QED
  BY <1>11, <1>12

\* What moves from queue to queue waits all the time.
LEMMA DispatchCounts ==
  ASSUME NEW D, NEW M, NEW C, NEW q, NEW r, Network(D, M, C, q, r), NEW stop,
         NEW t, NEW p, Moves(D, M, q, t, p)
  PROVE  /\ Network(D, M, C, p, r)
         /\ InNetwork(D, C, p, r, stop) = InNetwork(D, C, q, r, stop)
<1> DEFINE x == Head(q[0])
           a == Tail(q[0])
           o == [q EXCEPT ![0] = a]
<1>1. /\ q \in [D -> Seq(M)] /\ 0 \in D /\ t \in D /\ t # 0 /\ q[0] # <<>>
      /\ p = [q EXCEPT ![0] = a, ![t] = Append(@, x)]
  BY DEF Moves, Queues
<1>2. Pops(D, M, q, 0, o)
  BY <1>1 DEF Pops, Queues
<1>3. /\ Network(D, M, C, o, r) /\ x \in M
      /\ InNetwork(D, C, q, r, stop) = InNetwork(D, C, o, r, stop) + Counts(x, stop)
  BY <1>2, PopCounts
<1>4. p = [o EXCEPT ![t] = Append(@, x)]
  <2> HIDE DEF a, x
  <2> QED
    BY <1>1
<1> HIDE DEF o, x
<1>5. Pushes(D, M, o, t, x, p)
  BY <1>1, <1>3, <1>4 DEF Pushes, Network
<1>6. /\ Network(D, M, C, p, r)
      /\ InNetwork(D, C, p, r, stop) = InNetwork(D, C, o, r, stop) + Counts(x, stop)
  BY <1>3, <1>5, PushCounts
<1> QED
  BY <1>3, <1>6

\* A stop that spreads is none of the messages.
LEMMA SpreadCounts ==
  ASSUME NEW D, NEW M, NEW C, NEW q, NEW r, Network(D, M, C, q, r), NEW stop,
         NEW p, Spreads(D, M, q, p), Head(q[0]) = stop, stop \in M
  PROVE  /\ Network(D, M, C, p, r)
         /\ InNetwork(D, C, p, r, stop) = InNetwork(D, C, q, r, stop)
<1>1. /\ Queues(D, M, p) /\ 0 \in D /\ q[0] # <<>> /\ p[0] = Tail(q[0])
      /\ \A k \in D : k # 0 => p[k] = Append(q[k], stop)
  BY SpreadQueues DEF Spreads, Queues
<1>2. \A k \in D : q[k] \in Seq(M) /\ p[k] \in Seq(M)
  BY <1>1 DEF Network, Queues
<1>3. Counts(stop, stop) = 0
  BY DEF Counts
<1>4. ASSUME NEW k \in D
      PROVE  Others(p[k], stop) = Others(q[k], stop)
  <2>1. /\ Others(p[k], stop) \in Nat
        /\ Others(q[k], stop) \in Nat
    BY <1>2, OthersChange
  <2>2. CASE k = 0
    <3>1. Others(q[k], stop) = Others(p[k], stop) + 0
      BY <1>1, <1>2, <1>3, <2>2, OthersChange
    <3> QED
      BY <2>1, <3>1
  <2>3. CASE k # 0
    <3>1. p[k] = Append(q[k], stop)
      BY <1>1, <2>3
    <3>2. Others(Append(q[k], stop), stop) = Others(q[k], stop) + Counts(stop, stop)
      BY <1>2, OthersChange
    <3> QED
      BY <1>3, <2>1, <3>1, <3>2
  <2> QED
    BY <2>2, <2>3
<1>5. Waiting(D, p, stop) = Waiting(D, q, stop)
  <2>1. [k \in D |-> Others(p[k], stop)]
          = [k \in D |-> Others(q[k], stop)]
    BY <1>4
  <2> QED
    BY <2>1 DEF Waiting
<1> QED
  BY <1>1, <1>5 DEF InNetwork, Network

\* A message that a consumer takes and receives is counted all the time.
LEMMA ConsumeCounts ==
  ASSUME NEW D, NEW M, NEW C, NEW q, NEW r, Network(D, M, C, q, r), NEW stop,
         NEW k, NEW p, Pops(D, M, q, k, p), Head(q[k]) # stop,
         NEW s, Receives(C, M, r, k, Head(q[k]), s)
  PROVE  /\ Network(D, M, C, p, s)
         /\ InNetwork(D, C, p, s, stop) = InNetwork(D, C, q, r, stop)
<1>1. /\ Network(D, M, C, p, r)
      /\ InNetwork(D, C, q, r, stop)
           = InNetwork(D, C, p, r, stop) + Counts(Head(q[k]), stop)
  BY PopCounts
<1>2. /\ Network(D, M, C, p, s)
      /\ InNetwork(D, C, p, s, stop) = InNetwork(D, C, p, r, stop) + 1
  BY <1>1, ReceiveCounts
<1>3. Counts(Head(q[k]), stop) = 1
  BY DEF Counts
<1> QED
  BY <1>1, <1>2, <1>3

\* A message that takes the place of another keeps the number.
LEMMA ReplaceCounts ==
  ASSUME NEW D, NEW M, NEW C, NEW q, NEW r, Network(D, M, C, q, r), NEW stop,
         NEW k, NEW o, Pops(D, M, q, k, o), Head(q[k]) # stop,
         NEW t, NEW x, NEW p, Pushes(D, M, o, t, x, p), x # stop
  PROVE  /\ Network(D, M, C, p, r)
         /\ InNetwork(D, C, p, r, stop) = InNetwork(D, C, q, r, stop)
<1>1. /\ Network(D, M, C, o, r)
      /\ InNetwork(D, C, q, r, stop)
           = InNetwork(D, C, o, r, stop) + Counts(Head(q[k]), stop)
  BY PopCounts
<1>2. /\ Network(D, M, C, p, r)
      /\ InNetwork(D, C, p, r, stop) = InNetwork(D, C, o, r, stop) + Counts(x, stop)
  BY <1>1, PushCounts
<1>3. Counts(Head(q[k]), stop) = 1 /\ Counts(x, stop) = 1
  BY DEF Counts
<1> QED
  BY <1>1, <1>2, <1>3

-----------------------------------------------------------------------------
(* How many messages packet_loss has in the network                        *)

\* What was produced is in the network, or lost.
LossIn == InNetwork(LossQueues, Loss!Consumers, queue, received, Loss!StopMessage)
LossBalance == discarded \in Nat /\ produced = discarded + LossIn

\* Its queues and consumers are a network.
LEMMA LossNetwork ==
  ASSUME LossInv
  PROVE  /\ Network(LossQueues, Loss!Messages, Loss!Consumers, queue, received)
         /\ LossIn \in Nat
         /\ produced \in 0..PackageCount /\ produced \in Nat /\ PackageCount \in Nat
<1>1. IsFiniteSet(LossQueues) /\ IsFiniteSet(Loss!Consumers)
  BY LossConstants, FS_Interval DEF LossQueues, Loss!Consumers
<1>2. Network(LossQueues, Loss!Messages, Loss!Consumers, queue, received)
  BY <1>1 DEF LossInv, LossTypes, Network
<1>3. LossIn \in Nat
  BY <1>2, InNetworkType DEF LossIn
<1> QED
  BY <1>2, <1>3, LossConstants DEF LossInv, LossTypes

\* Nothing is there when the program starts.
LEMMA LossBalanced == Loss!Init => LossBalance
<1> SUFFICES ASSUME Loss!Init  PROVE LossBalance
  OBVIOUS
<1>1. Network(LossQueues, Loss!Messages, Loss!Consumers, queue, received)
  BY LossInitially, LossNetwork
<1>2. /\ produced = 0 /\ discarded = 0
      /\ \A k \in LossQueues : queue[k] = <<>>
      /\ \A k \in Loss!Consumers : received[k] = <<>>
  BY DEF Loss!Init, LossQueues
<1>3. LossIn = 0
  BY <1>1, <1>2, InNetworkType DEF LossIn
<1> QED
  BY <1>2, <1>3 DEF LossBalance

\* No step changes the balance.
LEMMA LossKeepsBalance ==
  ASSUME LossInv, LossBalance, [Loss!Next]_(Loss!vars)  PROVE LossBalance'
<1>1. /\ LossIn \in Nat /\ discarded \in Nat /\ produced \in Nat
      /\ produced = discarded + LossIn
  BY LossNetwork DEF LossBalance
<1>2. SUFFICES discarded' \in Nat /\ produced' = discarded' + LossIn'
  BY DEF LossBalance
<1>3. Network(LossQueues, Loss!Messages, Loss!Consumers, queue, received)
  BY LossNetwork
<1>4. /\ Queues(LossQueues, Loss!Messages, queue)
      /\ 0 \in LossQueues /\ \A k \in Loss!ToQueues : k \in LossQueues
      /\ Loss!Consumers \subseteq Loss!ToQueues /\ Loss!Assembler \in Loss!ToQueues
      /\ Loss!StopMessage \in Loss!Messages
      /\ Counts(Loss!StopMessage, Loss!StopMessage) = 0
  BY LossSets, LossNames, LossStopIs DEF Counts
<1>5. CASE Loss!StartThreads \/ Loss!Join \/ UNCHANGED Loss!vars
  <2>1. UNCHANGED <<queue, received, produced, discarded>>
    BY <1>5 DEF Loss!StartThreads, Loss!Join, Loss!vars
  <2> QED
    BY <1>1, <2>1 DEF LossIn
<1>6. ASSUME NEW target \in Loss!ToQueues, Loss!Produce(target)
      PROVE  discarded' \in Nat /\ produced' = discarded' + LossIn'
  <2> DEFINE x == [target |-> target, source |-> 1, number |-> produced]
  <2>1. /\ queue' = [queue EXCEPT ![0] = Append(@, x)]
        /\ produced' = produced + 1 /\ UNCHANGED <<received, discarded>>
    BY <1>6 DEF Loss!Produce, Loss!Push
  <2>2. x \in Loss!Messages /\ x # Loss!StopMessage
    <3>1. target \in 0..Loss!Assembler /\ 1 \in 0..Loss!Assembler /\ produced \in 0..PackageCount
      BY LossConstants, LossNetwork
    <3> QED
      BY <3>1, LossMessage, LossStopIs
  <2> HIDE DEF x
  <2>3. Pushes(LossQueues, Loss!Messages, queue, 0, x, queue')
    BY <1>4, <2>1, <2>2 DEF Pushes
  <2>4. LossIn' = LossIn + Counts(x, Loss!StopMessage)
    BY <1>3, <2>1, <2>3, PushCounts DEF LossIn
  <2>5. Counts(x, Loss!StopMessage) = 1
    BY <2>2 DEF Counts
  <2> QED
    BY <1>1, <2>1, <2>4, <2>5
<1>7. CASE Loss!ProducerStop
  <2>1. /\ queue' = [queue EXCEPT ![0] = Append(@, Loss!StopMessage)]
        /\ UNCHANGED <<produced, received, discarded>>
    BY <1>7 DEF Loss!ProducerStop, Loss!Push
  <2>2. Pushes(LossQueues, Loss!Messages, queue, 0, Loss!StopMessage, queue')
    BY <1>4, <2>1 DEF Pushes
  <2>3. LossIn' = LossIn + Counts(Loss!StopMessage, Loss!StopMessage)
    BY <1>3, <2>1, <2>2, PushCounts DEF LossIn
  <2> QED
    BY <1>1, <1>4, <2>1, <2>3
<1>8. CASE Loss!Dispatch
  <2> DEFINE t == Head(queue[0]).target
  <2>1. /\ queue[0] # <<>> /\ Head(queue[0]) # Loss!StopMessage
        /\ UNCHANGED <<produced, received, discarded>>
        /\ queue' = [queue EXCEPT ![0] = Tail(@), ![t] = Append(@, Head(queue[0]))]
    BY <1>8 DEF Loss!Dispatch, Loss!Ready, Loss!First
  <2>2. t \in LossQueues \ {0}
    <3>1. Head(queue[0]) \in Range(queue[0])
      BY <2>1, LossSets, RangeTail
    <3> QED
      BY <2>1, <3>1, LossNames DEF LossInv, LossTargets
  <2> HIDE DEF t
  <2>3. Moves(LossQueues, Loss!Messages, queue, t, queue')
    BY <1>4, <2>1, <2>2 DEF Moves
  <2>4. LossIn' = LossIn
    BY <1>3, <2>1, <2>3, DispatchCounts DEF LossIn
  <2> QED
    BY <1>1, <2>1, <2>4
<1>9. CASE Loss!DispatcherStop
  <2>1. /\ queue[0] # <<>> /\ Head(queue[0]) = Loss!StopMessage
        /\ UNCHANGED <<produced, received, discarded>>
        /\ queue' = [k \in LossQueues |->
             IF k = 0 THEN Tail(queue[0]) ELSE Append(queue[k], Head(queue[0]))]
    BY <1>9 DEF Loss!DispatcherStop, Loss!Stopped, Loss!First, LossQueues
  <2>2. Spreads(LossQueues, Loss!Messages, queue, queue')
    BY <1>4, <2>1 DEF Spreads
  <2>3. LossIn' = LossIn
    BY <1>3, <1>4, <2>1, <2>2, SpreadCounts DEF LossIn
  <2> QED
    BY <1>1, <2>1, <2>3
<1>10. ASSUME NEW k \in Loss!Consumers, Loss!Consume(k)
       PROVE  discarded' \in Nat /\ produced' = discarded' + LossIn'
  <2>1. /\ queue[k] # <<>> /\ Head(queue[k]) # Loss!StopMessage
        /\ queue' = [queue EXCEPT ![k] = Tail(@)]
        /\ received' = [received EXCEPT ![k] = Append(@, Head(queue[k]))]
        /\ UNCHANGED <<produced, discarded>>
    BY <1>10 DEF Loss!Consume, Loss!Ready, Loss!First
  <2>2. Pops(LossQueues, Loss!Messages, queue, k, queue')
    BY <1>4, <2>1 DEF Pops
  <2>3. Receives(Loss!Consumers, Loss!Messages, received, k, Head(queue[k]), received')
    BY <1>3, <2>1, <2>2, PopCounts DEF Receives
  <2>4. LossIn' = LossIn
    BY <1>3, <2>1, <2>2, <2>3, ConsumeCounts DEF LossIn
  <2> QED
    BY <1>1, <2>1, <2>4
<1>11. ASSUME NEW k \in Loss!ToQueues, Loss!WorkerStop(k)
       PROVE  discarded' \in Nat /\ produced' = discarded' + LossIn'
  <2>1. /\ queue[k] # <<>> /\ Head(queue[k]) = Loss!StopMessage
        /\ queue' = [queue EXCEPT ![k] = Tail(@)]
        /\ UNCHANGED <<produced, discarded, received>>
    BY <1>11 DEF Loss!WorkerStop, Loss!Stopped, Loss!First
  <2>2. Pops(LossQueues, Loss!Messages, queue, k, queue')
    BY <1>4, <2>1 DEF Pops
  <2>3. LossIn = LossIn' + Counts(Head(queue[k]), Loss!StopMessage) /\ LossIn' \in Nat
    BY <1>3, <2>1, <2>2, PopCounts, InNetworkType DEF LossIn
  <2> QED
    BY <1>1, <1>4, <2>1, <2>3
<1>12. CASE Loss!Discard
  <2> DEFINE a == Loss!Assembler
  <2>1. /\ queue[a] # <<>> /\ Head(queue[a]) # Loss!StopMessage
        /\ queue' = [queue EXCEPT ![a] = Tail(@)]
        /\ discarded' = discarded + 1 /\ UNCHANGED <<produced, received>>
    BY <1>12 DEF Loss!Discard, Loss!Ready, Loss!First
  <2>2. Pops(LossQueues, Loss!Messages, queue, a, queue')
    BY <1>4, <2>1 DEF Pops
  <2>3. LossIn = LossIn' + Counts(Head(queue[a]), Loss!StopMessage) /\ LossIn' \in Nat
    BY <1>3, <2>1, <2>2, PopCounts, InNetworkType DEF LossIn
  <2>4. Counts(Head(queue[a]), Loss!StopMessage) = 1
    BY <2>1 DEF Counts
  <2> QED
    BY <1>1, <2>1, <2>3, <2>4
<1>13. ASSUME NEW target \in Loss!Consumers, Loss!Redirect(target)
       PROVE  discarded' \in Nat /\ produced' = discarded' + LossIn'
  <2> DEFINE x == [target |-> target, source |-> Loss!Assembler, number |-> 0]
             a == Loss!Assembler
             q == [queue EXCEPT ![a] = Tail(@)]
  <2>1. /\ queue[a] # <<>> /\ Head(queue[a]) # Loss!StopMessage
        /\ queue' = [queue EXCEPT ![a] = Tail(@), ![0] = Append(@, x)]
        /\ UNCHANGED <<produced, received, discarded>>
    BY <1>13 DEF Loss!Redirect, Loss!Ready, Loss!First
  <2>2. x \in Loss!Messages /\ x # Loss!StopMessage
    <3>1. target \in 0..Loss!Assembler /\ a \in 0..Loss!Assembler /\ a # 0 /\ 0 \in 0..PackageCount
      BY LossConstants
    <3> QED
      BY <3>1, LossMessage, LossStopIs
  <2>3. a \in LossQueues /\ a # 0
    BY LossNames
  <2>4. Pops(LossQueues, Loss!Messages, queue, a, q)
    BY <2>1, <2>3, <1>4 DEF Pops
  <2> HIDE DEF x, a
  <2>5. queue' = [q EXCEPT ![0] = Append(@, x)]
    BY <1>4, <2>1, <2>3 DEF Queues
  <2> HIDE DEF q
  <2>6. Pushes(LossQueues, Loss!Messages, q, 0, x, queue')
    BY <1>3, <1>4, <2>2, <2>4, <2>5, PopCounts DEF Pushes, Network
  <2>7. LossIn' = LossIn
    BY <1>3, <2>1, <2>2, <2>4, <2>6, ReplaceCounts DEF LossIn
  <2> QED
    BY <1>1, <2>1, <2>7
<1> QED
  BY <1>4, <1>5, <1>6, <1>7, <1>8, <1>9, <1>10, <1>11, <1>12, <1>13
     DEF Loss!Next, Loss!ProducerSteps, Loss!DispatcherSteps, Loss!ConsumerSteps,
         Loss!AssemblerSteps

\* The sums of the model are those of the lemmas.
LEMMA LossCounted ==
  ASSUME LossInv, LossBalance  PROVE Loss!Conserved /\ Loss!TypeOK
<1> DEFINE others == [k \in LossQueues |-> Others(queue[k], Loss!StopMessage)]
           taken == [k \in Loss!Consumers |-> Len(received[k])]
<1>1. /\ Loss!SumFunction(others) = SumFunction(others)
      /\ Loss!SumFunction(taken) = SumFunction(taken)
  BY DEF SumFunction, SumFunctionOnSet, FoldFunctionOnSet, MapThenFoldSet,
         Loss!SumFunction, Loss!SumFunctionOnSet, Loss!FoldFunctionOnSet, Loss!MapThenFoldSet
<1>2. \A S : Loss!Cardinality(S) = Cardinality(S)
  BY DEF Cardinality, Loss!Cardinality
<1>3. others = [k \in 0..Loss!Assembler |->
                 Loss!Cardinality({i \in 1..Len(queue[k]) : queue[k][i] # Loss!StopMessage})]
  BY <1>2 DEF Others, LossQueues
<1>4. /\ produced = discarded + (SumFunction(others) + SumFunction(taken))
      /\ SumFunction(others) \in Nat /\ SumFunction(taken) \in Nat
      /\ discarded \in Nat /\ produced \in 0..PackageCount /\ PackageCount \in Nat
  <2>1. /\ Waiting(LossQueues, queue, Loss!StopMessage) \in Nat
        /\ Taken(Loss!Consumers, received) \in Nat
    BY LossNetwork, InNetworkType
  <2> QED
    BY <2>1, LossNetwork DEF LossBalance, LossIn, InNetwork, Waiting, Taken
<1>5. produced = discarded + Loss!SumFunction(others) + Loss!SumFunction(taken)
  <2> HIDE DEF others, taken
  <2> QED
    BY <1>1, <1>4
<1>6. Loss!Conserved
  BY <1>3, <1>5 DEF Loss!Conserved
<1> HIDE DEF others, taken
<1>7. discarded \in 0..PackageCount
  BY <1>4
<1>8. Loss!TypeOK
  BY <1>7 DEF Loss!TypeOK, LossInv, LossTypes, Queues, LossQueues
<1> QED
  BY <1>6, <1>8

-----------------------------------------------------------------------------
(* How many messages packet_loss2 has in the network                       *)

Loss2Queues == 0..Loss2!Assembler

Loss2Types ==
  /\ pc \in [main : {"start", "join", "done"},
             producer : {"unstarted", "produce", "done"},
             assembler : {"unstarted", "consume", "done"},
             dispatcher : {"unstarted", "consume", "done"}]
  /\ worker \in [Loss2!Consumers -> {"unstarted", "consume", "done"}]
  /\ received \in [Loss2!Consumers -> Seq(Loss2!Messages)]

\* What was produced is in the network, or lost.
Loss2In == InNetwork(Loss2Queues, Loss2!Consumers, queue, received, Loss2!StopMessage)
Loss2Balance ==
  Loss2Types /\ discarded \in Nat /\ produced = discarded + Loss2In

\* Its queues and consumers are a network.
LEMMA Loss2Network ==
  ASSUME Loss2Inv, Loss2Types
  PROVE  /\ Network(Loss2Queues, Loss2!Messages, Loss2!Consumers, queue, received)
         /\ Queues(Loss2Queues, Loss2!Messages, queue)
         /\ Loss2In \in Nat
         /\ produced \in 0..PackageCount /\ produced \in Nat /\ PackageCount \in Nat
<1>1. ConsumerCount \in Nat /\ ConsumerCount > 0 /\ PackageCount \in Nat
  BY SimulationsAssumption DEF Loss2!CountsAssumption
<1>2. IsFiniteSet(Loss2Queues) /\ IsFiniteSet(Loss2!Consumers)
  BY <1>1, FS_Interval DEF Loss2Queues, Loss2!Consumers, Loss2!Assembler
<1>3. Queues(Loss2Queues, Loss2!Messages, queue)
  BY Loss2Sets DEF Queues, Loss2Inv, Loss2Queues
<1>4. Network(Loss2Queues, Loss2!Messages, Loss2!Consumers, queue, received)
  BY <1>2, <1>3 DEF Loss2Types, Network
<1>5. Loss2In \in Nat
  BY <1>4, InNetworkType DEF Loss2In
<1> QED
  BY <1>1, <1>3, <1>4, <1>5 DEF Loss2Inv

\* Nothing is there when the program starts.
LEMMA Loss2Balanced == Loss2!Init => Loss2Balance
<1> SUFFICES ASSUME Loss2!Init  PROVE Loss2Balance
  OBVIOUS
<1>1. Loss2Types
  BY DEF Loss2!Init, Loss2Types
<1>2. Network(Loss2Queues, Loss2!Messages, Loss2!Consumers, queue, received)
  BY <1>1, Loss2Initially, Loss2Network
<1>3. /\ produced = 0 /\ discarded = 0
      /\ \A k \in Loss2Queues : queue[k] = <<>>
      /\ \A k \in Loss2!Consumers : received[k] = <<>>
  BY DEF Loss2!Init, Loss2Queues
<1>4. Loss2In = 0
  BY <1>2, <1>3, InNetworkType DEF Loss2In
<1> QED
  BY <1>1, <1>3, <1>4 DEF Loss2Balance

\* No step changes the balance.
LEMMA Loss2KeepsBalance ==
  ASSUME Loss2Inv, Loss2Balance, [Loss2!Next]_(Loss2!vars)  PROVE Loss2Balance'
<1> DEFINE Kept == discarded' \in Nat /\ produced' = discarded' + Loss2In'
           D == Loss2Queues
           M == Loss2!Messages
           C == Loss2!Consumers
           a == Loss2!Assembler
           stop == Loss2!StopMessage
<1>1. /\ Loss2In \in Nat /\ discarded \in Nat /\ produced \in Nat /\ Loss2Types
      /\ produced = discarded + Loss2In
      /\ Network(D, M, C, queue, received)
  BY Loss2Network DEF Loss2Balance
<1>2. /\ Queues(D, M, queue)
      /\ 0 \in D /\ a \in D /\ a # 0 /\ \A k \in C : k \in D /\ k # 0
      /\ stop \in M /\ Counts(stop, stop) = 0
  BY <1>1, Loss2Network, Loss2Sets, Loss2Message DEF Loss2Queues, Counts
<1>3. Loss2In = InNetwork(D, C, queue, received, stop)
  BY DEF Loss2In
<1>4. Loss2In' = InNetwork(D, C, queue', received', stop)
  BY DEF Loss2In
<1> HIDE DEF D, M, C, stop
<1>5. CASE Loss2!StartThreads \/ UNCHANGED Loss2!vars
  <2>1. UNCHANGED <<queue, received, produced, discarded>>
    BY <1>5 DEF Loss2!StartThreads, Loss2!vars
  <2>2. Loss2Types'
    BY <1>1, <1>5 DEF Loss2!StartThreads, Loss2!vars, Loss2Types
  <2> QED
    BY <1>1, <1>3, <1>4, <2>1, <2>2 DEF Loss2Balance
<1>6. ASSUME NEW target \in 1..Loss2!Assembler, Loss2!Produce(target)
      PROVE  Loss2Balance'
  <2> DEFINE x == [target |-> target, source |-> 1, number |-> produced]
  <2>1. /\ queue' = [queue EXCEPT ![a] = Append(@, x)]
        /\ produced' = produced + 1 /\ UNCHANGED <<received, discarded, pc, worker>>
    BY <1>6 DEF Loss2!Produce, Loss2!Push
  <2>2. x \in M /\ x # stop
    <3>1. x \in M /\ x.source = 1
      BY Loss2Message DEF M
    <3>2. stop.source = 0
      BY DEF stop, Loss2!StopMessage
    <3> QED
      BY <3>1, <3>2
  <2> HIDE DEF x
  <2>3. Pushes(D, M, queue, a, x, queue')
    BY <1>2, <2>1, <2>2 DEF Pushes
  <2>4. Loss2In' = Loss2In + Counts(x, stop)
    BY <1>1, <1>3, <1>4, <2>1, <2>3, PushCounts
  <2>5. Counts(x, stop) = 1
    BY <2>2 DEF Counts
  <2>6. Loss2Types'
    BY <1>1, <2>1 DEF Loss2Types
  <2> QED
    BY <1>1, <2>1, <2>4, <2>5, <2>6 DEF Loss2Balance
<1>7. CASE Loss2!ProducerStop
  <2>1. /\ queue' = [queue EXCEPT ![a] = Append(@, stop)]
        /\ pc' = [pc EXCEPT !.producer = "done"]
        /\ UNCHANGED <<produced, received, discarded, worker>>
    BY <1>7 DEF Loss2!ProducerStop, Loss2!Push, stop
  <2>2. Pushes(D, M, queue, a, stop, queue')
    BY <1>2, <2>1 DEF Pushes
  <2>3. Loss2In' = Loss2In + Counts(stop, stop)
    BY <1>1, <1>3, <1>4, <2>1, <2>2, PushCounts
  <2>4. Loss2Types'
    BY <1>1, <2>1 DEF Loss2Types
  <2> QED
    BY <1>1, <1>2, <2>1, <2>3, <2>4 DEF Loss2Balance
<1>8. CASE Loss2!Dispatch
  <2> DEFINE t == Head(queue[0]).target
  <2>1. /\ queue[0] # <<>>
        /\ UNCHANGED <<produced, received, discarded, pc, worker>>
        /\ queue' = [queue EXCEPT ![0] = Tail(@), ![t] = Append(@, Head(queue[0]))]
    BY <1>8 DEF Loss2!Dispatch, Loss2!Ready, Loss2!First
  <2>2. t \in D \ {0}
    <3>1. Head(queue[0]) \in Range(queue[0])
      BY <2>1, Loss2Sets, RangeTail
    <3> QED
      BY <1>2, <3>1 DEF Loss2Inv, C
  <2> HIDE DEF t
  <2>3. Moves(D, M, queue, t, queue')
    BY <1>2, <2>1, <2>2 DEF Moves
  <2>4. Loss2In' = Loss2In
    BY <1>1, <1>3, <1>4, <2>1, <2>3, DispatchCounts
  <2>5. Loss2Types'
    BY <1>1, <2>1 DEF Loss2Types
  <2> QED
    BY <1>1, <2>1, <2>4, <2>5 DEF Loss2Balance
<1>9. ASSUME NEW k \in C, Loss2!Consume(k)  PROVE Loss2Balance'
  <2>1. /\ queue[k] # <<>> /\ Head(queue[k]) # stop
        /\ queue' = [queue EXCEPT ![k] = Tail(@)]
        /\ received' = [received EXCEPT ![k] = Append(@, Head(queue[k]))]
        /\ UNCHANGED <<produced, discarded, pc, worker>>
    BY <1>9 DEF Loss2!Consume, Loss2!Ready, Loss2!First, stop
  <2>2. Pops(D, M, queue, k, queue')
    BY <1>2, <2>1 DEF Pops
  <2>3. Receives(C, M, received, k, Head(queue[k]), received')
    BY <1>1, <1>9, <2>1, <2>2, PopCounts DEF Receives
  <2>4. Loss2In' = Loss2In /\ Network(D, M, C, queue', received')
    BY <1>1, <1>3, <1>4, <2>1, <2>2, <2>3, ConsumeCounts
  <2>5. Loss2Types'
    BY <1>1, <2>1, <2>4 DEF Loss2Types, Network, C, M
  <2> QED
    BY <1>1, <2>1, <2>4, <2>5 DEF Loss2Balance
<1>10. CASE Loss2!Discard
  <2>1. /\ queue[a] # <<>> /\ Head(queue[a]) # stop
        /\ queue' = [queue EXCEPT ![a] = Tail(@)]
        /\ discarded' = discarded + 1 /\ UNCHANGED <<produced, received, pc, worker>>
    BY <1>10 DEF Loss2!Discard, Loss2!Ready, Loss2!First, stop
  <2>2. Pops(D, M, queue, a, queue')
    BY <1>2, <2>1 DEF Pops
  <2>3. Loss2In = Loss2In' + Counts(Head(queue[a]), stop) /\ Loss2In' \in Nat
    BY <1>1, <1>3, <1>4, <2>1, <2>2, PopCounts, InNetworkType
  <2>4. Counts(Head(queue[a]), stop) = 1
    BY <2>1 DEF Counts
  <2>5. Loss2Types'
    BY <1>1, <2>1 DEF Loss2Types
  <2> QED
    BY <1>1, <2>1, <2>3, <2>4, <2>5 DEF Loss2Balance
<1>11. CASE Loss2!AssemblerStop
  <2>1. /\ queue[a] # <<>> /\ Head(queue[a]) = stop
        /\ queue' = [queue EXCEPT ![a] = Tail(@)]
        /\ pc' = [pc EXCEPT !.assembler = "done"]
        /\ UNCHANGED <<discarded, produced, received, worker>>
    BY <1>11 DEF Loss2!AssemblerStop, Loss2!Stopped, Loss2!First, stop
  <2>2. Pops(D, M, queue, a, queue')
    BY <1>2, <2>1 DEF Pops
  <2>3. Loss2In = Loss2In' + Counts(Head(queue[a]), stop) /\ Loss2In' \in Nat
    BY <1>1, <1>3, <1>4, <2>1, <2>2, PopCounts, InNetworkType
  <2>4. Loss2Types'
    BY <1>1, <2>1 DEF Loss2Types
  <2> QED
    BY <1>1, <1>2, <2>1, <2>3, <2>4 DEF Loss2Balance
<1>12. ASSUME NEW target \in C, Loss2!Redirect(target)  PROVE Loss2Balance'
  <2> DEFINE x == [target |-> target, source |-> a, number |-> 0]
             q == [queue EXCEPT ![a] = Tail(@)]
  <2>1. /\ queue[a] # <<>> /\ Head(queue[a]) # stop
        /\ queue' = [queue EXCEPT ![a] = Tail(@), ![0] = Append(@, x)]
        /\ UNCHANGED <<produced, received, discarded, pc, worker>>
    BY <1>12 DEF Loss2!Redirect, Loss2!Ready, Loss2!First, stop
  <2>2. x \in M /\ x # stop
    BY <1>12, Loss2Message DEF C, M, stop
  <2>3. Pops(D, M, queue, a, q)
    BY <1>2, <2>1 DEF Pops
  <2> HIDE DEF x, a
  <2>4. queue' = [q EXCEPT ![0] = Append(@, x)]
    BY <1>2, <2>1 DEF Queues
  <2> HIDE DEF q
  <2>5. Pushes(D, M, q, 0, x, queue')
    BY <1>1, <1>2, <2>2, <2>3, <2>4, PopCounts DEF Pushes, Network
  <2>6. Loss2In' = Loss2In
    BY <1>1, <1>3, <1>4, <2>1, <2>2, <2>3, <2>5, ReplaceCounts
  <2>7. Loss2Types'
    BY <1>1, <2>1 DEF Loss2Types
  <2> QED
    BY <1>1, <2>1, <2>6, <2>7 DEF Loss2Balance
<1> QED
  BY <1>5, <1>6, <1>7, <1>8, <1>9, <1>10, <1>11, <1>12
     DEF Loss2!Next, Loss2!ProducerSteps, Loss2!AssemblerSteps, C

\* The sums of the model are those of the lemmas.
LEMMA Loss2Counted ==
  ASSUME Loss2Inv, Loss2Balance  PROVE Loss2!Conserved /\ Loss2!TypeOK
<1> DEFINE others == [k \in Loss2Queues |-> Others(queue[k], Loss2!StopMessage)]
           taken == [k \in Loss2!Consumers |-> Len(received[k])]
<1>1. /\ Loss2!SumFunction(others) = SumFunction(others)
      /\ Loss2!SumFunction(taken) = SumFunction(taken)
  BY DEF SumFunction, SumFunctionOnSet, FoldFunctionOnSet, MapThenFoldSet,
         Loss2!SumFunction, Loss2!SumFunctionOnSet, Loss2!FoldFunctionOnSet,
         Loss2!MapThenFoldSet
<1>2. \A S : Loss2!Cardinality(S) = Cardinality(S)
  BY DEF Cardinality, Loss2!Cardinality
<1>3. others = [k \in 0..Loss2!Assembler |->
        Loss2!Cardinality({i \in 1..Len(queue[k]) : queue[k][i] # Loss2!StopMessage})]
  BY <1>2 DEF Others, Loss2Queues
<1>4. /\ produced = discarded + (SumFunction(others) + SumFunction(taken))
      /\ SumFunction(others) \in Nat /\ SumFunction(taken) \in Nat
      /\ discarded \in Nat /\ produced \in 0..PackageCount /\ PackageCount \in Nat
  <2>1. /\ Waiting(Loss2Queues, queue, Loss2!StopMessage) \in Nat
        /\ Taken(Loss2!Consumers, received) \in Nat
    BY Loss2Network, InNetworkType DEF Loss2Balance
  <2> QED
    BY <2>1, Loss2Network DEF Loss2Balance, Loss2In, InNetwork, Waiting, Taken
<1>5. produced = discarded + Loss2!SumFunction(others) + Loss2!SumFunction(taken)
  <2> HIDE DEF others, taken
  <2> QED
    BY <1>1, <1>4
<1>6. Loss2!Conserved
  BY <1>3, <1>5 DEF Loss2!Conserved
<1> HIDE DEF others, taken
<1>7. discarded \in 0..PackageCount
  BY <1>4
<1>8. Loss2!TypeOK
  BY <1>7, Loss2Network DEF Loss2!TypeOK, Loss2Balance, Loss2Types, Loss2Inv
<1> QED
  BY <1>6, <1>8

-----------------------------------------------------------------------------
(* How many messages the several producers have in the network             *)

\* The producers that hold a number, and what is in the network.
ManyIndex == [p \in Many!Producers |-> producer[p].index]
ManyHeld == Cardinality(At(Many!Producers, ManyIndex, 1..PackageCount))
ManyIn == InNetwork(ManyQueues, Many!Consumers, queue, received, Many!StopMessage)

\* A producer that has not yet taken a number has none.
ManyIdle ==
  /\ \A p \in Many!Producers :
       producer[p].at \in {"unstarted", "take"} => producer[p].index = 0
  /\ pc.main = "start" => \A p \in Many!Producers : producer[p].at = "unstarted"

\* The numbers taken are in the network, in a producer's hand, or lost.
ManyBalance ==
  /\ ManyIdle /\ discarded \in Nat
  /\ PackageCount - packagesLeft = discarded + ManyHeld + ManyIn

\* Its queues and consumers are a network.
LEMMA ManyNetwork ==
  ASSUME ManyInv
  PROVE  /\ Network(ManyQueues, Many!Messages, Many!Consumers, queue, received)
         /\ ManyIn \in Nat
         /\ packagesLeft \in 0..PackageCount /\ packagesLeft \in Nat /\ PackageCount \in Nat
         /\ IsFiniteSet(Many!Producers)
         /\ producer \in [Many!Producers -> [at : {"unstarted", "take", "produce", "done"},
                                             index : 0..PackageCount]]
<1>1. IsFiniteSet(ManyQueues) /\ IsFiniteSet(Many!Consumers)
  BY ManyConstants, FS_Interval DEF ManyQueues, Many!Consumers
<1>2. Network(ManyQueues, Many!Messages, Many!Consumers, queue, received)
  BY <1>1 DEF ManyInv, ManyTypes, Network
<1>3. ManyIn \in Nat
  BY <1>2, InNetworkType DEF ManyIn
<1>4. IsFiniteSet(Many!Producers)
  BY SimulationsAssumption, FS_Interval DEF Many!CountsAssumption, Many!Producers
<1> QED
  BY <1>2, <1>3, <1>4, ManyConstants DEF ManyInv, ManyTypes

\* What a producer takes into its hand or puts out of it.
LEMMA ManyHolds ==
  ASSUME ManyInv, NEW p \in Many!Producers, NEW n \in 0..PackageCount,
         producer' \in [Many!Producers -> [at : {"unstarted", "take", "produce", "done"},
                                           index : 0..PackageCount]],
         producer'[p].index = n,
         \A q \in Many!Producers \ {p} : producer'[q] = producer[q]
  PROVE  /\ ManyHeld \in Nat
         /\ ManyHeld' = ManyHeld + (IF n = 0 THEN 0 ELSE 1)
                                 - (IF producer[p].index = 0 THEN 0 ELSE 1)
<1> DEFINE f == ManyIndex
           g == ManyIndex'
           L == 1..PackageCount
<1>1. /\ IsFiniteSet(Many!Producers) /\ PackageCount \in Nat
      /\ producer[p].index \in 0..PackageCount
  BY ManyNetwork
<1>2. /\ \A q \in Many!Producers \ {p} : g[q] = f[q]
      /\ g[p] = n /\ f[p] = producer[p].index
  BY DEF ManyIndex
<1>3. ManyHeld = Cardinality(At(Many!Producers, f, L))
  BY DEF ManyHeld
<1>4. ManyHeld' = Cardinality(At(Many!Producers, g, L))
  BY DEF ManyHeld, At, Many!Producers
<1>5. /\ One(n, L) = (IF n = 0 THEN 0 ELSE 1)
      /\ One(producer[p].index, L) = (IF producer[p].index = 0 THEN 0 ELSE 1)
  BY <1>1 DEF One
<1> HIDE DEF f, g, L
<1>6. /\ Cardinality(At(Many!Producers, f, L)) \in Nat
      /\ Cardinality(At(Many!Producers, g, L))
           = Cardinality(At(Many!Producers, f, L)) + One(g[p], L) - One(f[p], L)
  BY <1>1, <1>2, MoveCounts
<1> QED
  BY <1>2, <1>3, <1>4, <1>5, <1>6

\* Nothing is there when the program starts.
LEMMA ManyBalanced == Many!Init => ManyBalance
<1> SUFFICES ASSUME Many!Init  PROVE ManyBalance
  OBVIOUS
<1>1. Network(ManyQueues, Many!Messages, Many!Consumers, queue, received)
      /\ PackageCount \in Nat
  BY ManyInitially, ManyNetwork
<1>2. /\ packagesLeft = PackageCount /\ discarded = 0
      /\ producer = [p \in Many!Producers |-> [at |-> "unstarted", index |-> 0]]
      /\ \A k \in ManyQueues : queue[k] = <<>>
      /\ \A k \in Many!Consumers : received[k] = <<>>
  BY DEF Many!Init, ManyQueues
<1>3. ManyIn = 0
  BY <1>1, <1>2, InNetworkType DEF ManyIn
<1>4. At(Many!Producers, ManyIndex, 1..PackageCount) = {}
  BY <1>1, <1>2 DEF At, ManyIndex
<1>5. ManyHeld = 0
  BY <1>4, FS_EmptySet DEF ManyHeld
<1>6. ManyIdle
  BY <1>2 DEF ManyIdle
<1> QED
  BY <1>1, <1>2, <1>3, <1>5, <1>6 DEF ManyBalance

\* No step changes the balance.
LEMMA ManyKeepsBalance ==
  ASSUME ManyInv, ManyBalance, [Many!Next]_(Many!vars)  PROVE ManyBalance'
<1> DEFINE D == ManyQueues
           M == Many!Messages
           C == Many!Consumers
           stop == Many!StopMessage
           Kept == /\ discarded' \in Nat
                   /\ PackageCount - packagesLeft' = discarded' + ManyHeld' + ManyIn'
<1>1. /\ ManyIn \in Nat /\ discarded \in Nat /\ packagesLeft \in Nat
      /\ PackageCount \in Nat /\ ManyHeld \in Nat
      /\ PackageCount - packagesLeft = discarded + ManyHeld + ManyIn
  <2>1. At(Many!Producers, ManyIndex, 1..PackageCount) \in SUBSET Many!Producers
    BY DEF At
  <2>2. ManyHeld \in Nat
    BY <2>1, ManyNetwork, FS_Subset, FS_CardinalityType DEF ManyHeld
  <2> QED
    BY <2>2, ManyNetwork DEF ManyBalance
<1>2. Network(D, M, C, queue, received)
  BY ManyNetwork
<1>3. /\ Queues(D, M, queue)
      /\ 0 \in D /\ \A k \in Many!ToQueues : k \in D
      /\ C \subseteq Many!ToQueues /\ Many!Assembler \in Many!ToQueues
      /\ stop \in M /\ Counts(stop, stop) = 0
  BY ManySets, ManyNames, ManyStopIs DEF Counts
<1>4. ManyIn = InNetwork(D, C, queue, received, stop)
  BY DEF ManyIn
<1>5. ManyIn' = InNetwork(D, C, queue', received', stop)
  BY DEF ManyIn
<1>6. UNCHANGED producer => ManyHeld' = ManyHeld
  BY DEF ManyHeld, ManyIndex, At, Many!Producers
<1>7. UNCHANGED <<producer, pc>> => ManyIdle'
  BY DEF ManyBalance, ManyIdle
<1> HIDE DEF D, M, C, stop
<1>8. CASE Many!StartThreads
  <2>1. /\ UNCHANGED <<queue, received, packagesLeft, discarded>>
        /\ pc'.main = "join"
        /\ pc.main = "start"
        /\ producer' = [p \in Many!Producers |-> [producer[p] EXCEPT !.at = "take"]]
    BY <1>8 DEF Many!StartThreads
  <2>2. \A p \in Many!Producers : producer'[p].index = producer[p].index
    BY <2>1, ManyNetwork
  <2>3. ManyIdle'
    BY <2>1, <2>2 DEF ManyBalance, ManyIdle
  <2>4. ManyIndex' = ManyIndex
    BY <2>2 DEF ManyIndex, Many!Producers
  <2>5. ManyHeld' = ManyHeld
    BY <2>4 DEF ManyHeld, At, Many!Producers
  <2> QED
    BY <1>1, <1>4, <1>5, <2>1, <2>3, <2>5 DEF ManyBalance
<1>9. CASE Many!Join \/ UNCHANGED Many!vars
  <2>1. /\ UNCHANGED <<queue, received, packagesLeft, discarded, producer>>
        /\ pc'.main = pc.main \/ pc'.main = "done"
    BY <1>9 DEF Many!Join, Many!vars, ManyInv, ManyTypes
  <2>2. ManyIdle'
    BY <2>1 DEF ManyBalance, ManyIdle
  <2> QED
    BY <1>1, <1>4, <1>5, <1>6, <2>1, <2>2 DEF ManyBalance
<1>10. ASSUME NEW p \in Many!Producers, Many!GetIndex(p)  PROVE ManyBalance'
  <2>1. /\ producer[p].at = "take"
        /\ producer' = [producer EXCEPT ![p] = [at |-> "produce", index |-> packagesLeft]]
        /\ packagesLeft' = IF packagesLeft > 0 THEN packagesLeft - 1 ELSE 0
        /\ UNCHANGED <<pc, queue, received, discarded>>
    BY <1>10 DEF Many!GetIndex
  <2>2. /\ producer' \in [Many!Producers -> [at : {"unstarted", "take", "produce", "done"},
                                             index : 0..PackageCount]]
        /\ producer'[p] = [at |-> "produce", index |-> packagesLeft]
        /\ \A q \in Many!Producers \ {p} : producer'[q] = producer[q]
        /\ packagesLeft \in 0..PackageCount
    BY <2>1, ManyNetwork
  <2>3. producer[p].index = 0
    BY <2>1 DEF ManyBalance, ManyIdle
  <2>4. ManyHeld' = ManyHeld + (IF packagesLeft = 0 THEN 0 ELSE 1) - 0
    BY <2>2, <2>3, ManyHolds
  <2>5. ManyIdle'
    <3>1. ~(pc'.main = "start")
      BY <2>1 DEF ManyBalance, ManyIdle
    <3> QED
      BY <2>1, <2>2, <3>1 DEF ManyBalance, ManyIdle
  <2>6. ManyIn' = ManyIn
    BY <1>4, <1>5, <2>1
  <2>7. Kept
    BY <1>1, <2>1, <2>4, <2>6
  <2> QED
    BY <2>5, <2>7 DEF ManyBalance
<1>11. ASSUME NEW p \in Many!Producers, NEW target \in Many!ToQueues,
              Many!Produce(p, target)
       PROVE  ManyBalance'
  <2> DEFINE x == [target |-> target, source |-> 1, number |-> producer[p].index]
  <2>1. /\ producer[p].at = "produce" /\ producer[p].index # 0
        /\ queue' = [queue EXCEPT ![0] = Append(@, x)]
        /\ producer' = [producer EXCEPT ![p] = [at |-> "take", index |-> 0]]
        /\ UNCHANGED <<pc, packagesLeft, received, discarded>>
    BY <1>11 DEF Many!Produce, Many!Push
  <2>2. x \in M /\ x # stop
    <3>1. /\ target \in 0..Many!Assembler /\ 1 \in 0..Many!Assembler
          /\ producer[p].index \in 0..PackageCount
      BY ManyConstants, ManyNetwork
    <3> QED
      BY <3>1, ManyMessage, ManyStopIs DEF M, stop
  <2> HIDE DEF x
  <2>3. Pushes(D, M, queue, 0, x, queue')
    BY <1>3, <2>1, <2>2 DEF Pushes
  <2>4. ManyIn' = ManyIn + Counts(x, stop)
    BY <1>2, <1>4, <1>5, <2>1, <2>3, PushCounts
  <2>5. Counts(x, stop) = 1
    BY <2>2 DEF Counts
  <2>6. /\ producer' \in [Many!Producers -> [at : {"unstarted", "take", "produce", "done"},
                                             index : 0..PackageCount]]
        /\ producer'[p] = [at |-> "take", index |-> 0]
        /\ \A q \in Many!Producers \ {p} : producer'[q] = producer[q]
        /\ 0 \in 0..PackageCount
    BY <2>1, ManyNetwork
  <2>7. ManyHeld' = ManyHeld + 0 - 1
    BY <2>1, <2>6, ManyHolds
  <2>8. ManyIdle'
    <3>1. ~(pc'.main = "start")
      BY <2>1 DEF ManyBalance, ManyIdle
    <3> QED
      BY <2>1, <2>6, <3>1 DEF ManyBalance, ManyIdle
  <2>9. Kept
    BY <1>1, <2>1, <2>4, <2>5, <2>7
  <2> QED
    BY <2>8, <2>9 DEF ManyBalance
<1>12. ASSUME NEW p \in Many!Producers, Many!ProducerStop(p)  PROVE ManyBalance'
  <2>1. /\ producer[p].at = "produce" /\ producer[p].index = 0
        /\ queue' = [queue EXCEPT ![0] = Append(@, stop)]
        /\ producer' = [producer EXCEPT ![p].at = "done"]
        /\ UNCHANGED <<pc, packagesLeft, received, discarded>>
    BY <1>12 DEF Many!ProducerStop, Many!Push, stop
  <2>2. Pushes(D, M, queue, 0, stop, queue')
    BY <1>3, <2>1 DEF Pushes
  <2>3. ManyIn' = ManyIn + Counts(stop, stop)
    BY <1>2, <1>4, <1>5, <2>1, <2>2, PushCounts
  <2>4. /\ producer' \in [Many!Producers -> [at : {"unstarted", "take", "produce", "done"},
                                             index : 0..PackageCount]]
        /\ producer'[p].at = "done" /\ producer'[p].index = 0
        /\ \A q \in Many!Producers \ {p} : producer'[q] = producer[q]
        /\ 0 \in 0..PackageCount
    BY <2>1, ManyNetwork
  <2>5. ManyHeld' = ManyHeld + 0 - 0
    BY <2>1, <2>4, ManyHolds
  <2>6. ManyIdle'
    <3>1. ~(pc'.main = "start")
      BY <2>1 DEF ManyBalance, ManyIdle
    <3> QED
      BY <2>1, <2>4, <3>1 DEF ManyBalance, ManyIdle
  <2>7. Kept
    BY <1>1, <1>3, <2>1, <2>3, <2>5
  <2> QED
    BY <2>6, <2>7 DEF ManyBalance
<1>13. CASE Many!Dispatch
  <2> DEFINE t == Head(queue[0]).target
  <2>1. /\ queue[0] # <<>> /\ Head(queue[0]) # stop
        /\ UNCHANGED <<pc, producer, packagesLeft, received, discarded>>
        /\ queue' = [queue EXCEPT ![0] = Tail(@), ![t] = Append(@, Head(queue[0]))]
    BY <1>13 DEF Many!Dispatch, Many!Ready, Many!First, stop
  <2>2. t \in D \ {0}
    <3>1. Head(queue[0]) \in Range(queue[0])
      BY <2>1, ManySets, RangeTail
    <3> QED
      BY <2>1, <3>1, ManyNames DEF ManyInv, ManyTargets, D, stop
  <2> HIDE DEF t
  <2>3. Moves(D, M, queue, t, queue')
    BY <1>3, <2>1, <2>2 DEF Moves
  <2>4. ManyIn' = ManyIn
    BY <1>2, <1>4, <1>5, <2>1, <2>3, DispatchCounts
  <2> QED
    BY <1>1, <1>6, <1>7, <2>1, <2>4 DEF ManyBalance
<1>14. CASE Many!DispatcherStop
  <2>1. /\ queue[0] # <<>> /\ Head(queue[0]) = stop
        /\ UNCHANGED <<producer, packagesLeft, received, discarded>>
        /\ pc' = [pc EXCEPT !.dispatcher = "done"]
        /\ queue' = [k \in D |->
             IF k = 0 THEN Tail(queue[0]) ELSE Append(queue[k], Head(queue[0]))]
    BY <1>14 DEF Many!DispatcherStop, Many!Stopped, Many!First, ManyQueues, D, stop
  <2>2. Spreads(D, M, queue, queue')
    BY <1>3, <2>1 DEF Spreads
  <2>3. ManyIn' = ManyIn
    BY <1>2, <1>3, <1>4, <1>5, <2>1, <2>2, SpreadCounts
  <2>4. pc'.main = pc.main
    BY <2>1 DEF ManyInv, ManyTypes
  <2>5. ManyIdle'
    BY <2>1, <2>4 DEF ManyBalance, ManyIdle
  <2> QED
    BY <1>1, <1>6, <2>1, <2>3, <2>5 DEF ManyBalance
<1>15. ASSUME NEW k \in C, Many!Consume(k)  PROVE ManyBalance'
  <2>1. /\ queue[k] # <<>> /\ Head(queue[k]) # stop
        /\ queue' = [queue EXCEPT ![k] = Tail(@)]
        /\ received' = [received EXCEPT ![k] = Append(@, Head(queue[k]))]
        /\ UNCHANGED <<pc, producer, packagesLeft, discarded>>
    BY <1>15 DEF Many!Consume, Many!Ready, Many!First, stop
  <2>2. Pops(D, M, queue, k, queue')
    BY <1>3, <1>15, <2>1 DEF Pops
  <2>3. Receives(C, M, received, k, Head(queue[k]), received')
    BY <1>2, <1>15, <2>1, <2>2, PopCounts DEF Receives
  <2>4. ManyIn' = ManyIn
    BY <1>2, <1>4, <1>5, <2>1, <2>2, <2>3, ConsumeCounts
  <2> QED
    BY <1>1, <1>6, <1>7, <2>1, <2>4 DEF ManyBalance
<1>16. ASSUME NEW k \in Many!ToQueues, Many!WorkerStop(k)  PROVE ManyBalance'
  <2>1. /\ queue[k] # <<>> /\ Head(queue[k]) = stop
        /\ queue' = [queue EXCEPT ![k] = Tail(@)]
        /\ UNCHANGED <<pc, producer, packagesLeft, received, discarded>>
    BY <1>16 DEF Many!WorkerStop, Many!Stopped, Many!First, stop
  <2>2. Pops(D, M, queue, k, queue')
    BY <1>3, <2>1 DEF Pops
  <2>3. ManyIn = ManyIn' + Counts(Head(queue[k]), stop) /\ ManyIn' \in Nat
    BY <1>2, <1>4, <1>5, <2>1, <2>2, PopCounts, InNetworkType
  <2>4. ManyIn' = ManyIn
    BY <1>1, <1>3, <2>1, <2>3
  <2> QED
    BY <1>1, <1>6, <1>7, <2>1, <2>4 DEF ManyBalance
<1>17. CASE Many!Discard
  <2> DEFINE a == Many!Assembler
  <2>1. /\ queue[a] # <<>> /\ Head(queue[a]) # stop
        /\ queue' = [queue EXCEPT ![a] = Tail(@)]
        /\ discarded' = discarded + 1 /\ UNCHANGED <<pc, producer, packagesLeft, received>>
    BY <1>17 DEF Many!Discard, Many!Ready, Many!First, stop
  <2>2. Pops(D, M, queue, a, queue')
    BY <1>3, <2>1 DEF Pops
  <2>3. ManyIn = ManyIn' + Counts(Head(queue[a]), stop) /\ ManyIn' \in Nat
    BY <1>2, <1>4, <1>5, <2>1, <2>2, PopCounts, InNetworkType
  <2>4. Counts(Head(queue[a]), stop) = 1
    BY <2>1 DEF Counts
  <2>5. /\ ManyHeld' = ManyHeld /\ ManyIdle'
        /\ discarded' = discarded + 1 /\ packagesLeft' = packagesLeft
    BY <1>6, <1>7, <2>1
  <2>6. PICK n \in Nat : n = ManyIn'
    BY <2>3
  <2>7. ManyIn = n + 1
    BY <2>3, <2>4, <2>6
  <2>8. PackageCount - packagesLeft = (discarded + 1) + ManyHeld + n
    BY <1>1, <2>7
  <2>9. PackageCount - packagesLeft' = discarded' + ManyHeld' + ManyIn'
    BY <2>5, <2>6, <2>8, Zenon
  <2>10. discarded' \in Nat
    BY <1>1, <2>5
  <2> QED
    BY <2>5, <2>9, <2>10 DEF ManyBalance
<1>18. ASSUME NEW target \in C, Many!Redirect(target)  PROVE ManyBalance'
  <2> DEFINE x == [target |-> target, source |-> Many!Assembler, number |-> 0]
             a == Many!Assembler
             q == [queue EXCEPT ![a] = Tail(@)]
  <2>1. /\ queue[a] # <<>> /\ Head(queue[a]) # stop
        /\ queue' = [queue EXCEPT ![a] = Tail(@), ![0] = Append(@, x)]
        /\ UNCHANGED <<pc, producer, packagesLeft, received, discarded>>
    BY <1>18 DEF Many!Redirect, Many!Ready, Many!First, stop
  <2>2. x \in M /\ x # stop
    <3>1. target \in 0..Many!Assembler /\ a \in 0..Many!Assembler /\ a # 0 /\ 0 \in 0..PackageCount
      BY <1>18, <1>3, ManyConstants
    <3> QED
      BY <3>1, ManyMessage, ManyStopIs DEF M, stop
  <2>3. a \in D /\ a # 0
    BY ManyNames DEF D
  <2>4. Pops(D, M, queue, a, q)
    BY <2>1, <2>3, <1>3 DEF Pops
  <2> HIDE DEF x, a
  <2>5. queue' = [q EXCEPT ![0] = Append(@, x)]
    BY <1>3, <2>1, <2>3 DEF Queues
  <2> HIDE DEF q
  <2>6. Pushes(D, M, q, 0, x, queue')
    BY <1>2, <1>3, <2>2, <2>4, <2>5, PopCounts DEF Pushes, Network
  <2>7. ManyIn' = ManyIn
    BY <1>2, <1>4, <1>5, <2>1, <2>2, <2>4, <2>6, ReplaceCounts
  <2> QED
    BY <1>1, <1>6, <1>7, <2>1, <2>7 DEF ManyBalance
<1> QED
  BY <1>3, <1>8, <1>9, <1>10, <1>11, <1>12, <1>13, <1>14, <1>15, <1>16, <1>17, <1>18
     DEF Many!Next, Many!ProducerSteps, Many!DispatcherSteps, Many!ConsumerSteps,
         Many!AssemblerSteps, C

\* The sums of the model are those of the lemmas.
LEMMA ManyCounted ==
  ASSUME ManyInv, ManyBalance  PROVE Many!Conserved /\ Many!TypeOK
<1> DEFINE others == [k \in ManyQueues |-> Others(queue[k], Many!StopMessage)]
           taken == [k \in Many!Consumers |-> Len(received[k])]
           inHand == {p \in Many!Producers : producer[p].index # 0}
<1>1. /\ Many!SumFunction(others) = SumFunction(others)
      /\ Many!SumFunction(taken) = SumFunction(taken)
  BY DEF SumFunction, SumFunctionOnSet, FoldFunctionOnSet, MapThenFoldSet,
         Many!SumFunction, Many!SumFunctionOnSet, Many!FoldFunctionOnSet,
         Many!MapThenFoldSet
<1>2. \A S : Many!Cardinality(S) = Cardinality(S)
  BY DEF Cardinality, Many!Cardinality
<1>3. others = [k \in 0..Many!Assembler |->
        Many!Cardinality({i \in 1..Len(queue[k]) : queue[k][i] # Many!StopMessage})]
  BY <1>2 DEF Others, ManyQueues
<1>4. inHand = At(Many!Producers, ManyIndex, 1..PackageCount)
  <2>1. \A p \in Many!Producers : producer[p].index # 0 <=> producer[p].index \in 1..PackageCount
    BY ManyNetwork
  <2> QED
    BY <2>1 DEF At, ManyIndex
<1>5. Many!Cardinality(inHand) = ManyHeld /\ ManyHeld \in Nat
  <2>1. IsFiniteSet(inHand)
    BY ManyNetwork, FS_Subset
  <2>2. Many!Cardinality(inHand) = Cardinality(inHand)
    BY <1>2
  <2> QED
    BY <1>4, <2>1, <2>2, FS_CardinalityType DEF ManyHeld
<1>6. /\ PackageCount - packagesLeft
            = discarded + ManyHeld + (SumFunction(others) + SumFunction(taken))
      /\ SumFunction(others) \in Nat /\ SumFunction(taken) \in Nat
      /\ discarded \in Nat /\ packagesLeft \in 0..PackageCount /\ PackageCount \in Nat
  <2>1. /\ Waiting(ManyQueues, queue, Many!StopMessage) \in Nat
        /\ Taken(Many!Consumers, received) \in Nat
    BY ManyNetwork, InNetworkType
  <2> QED
    BY <2>1, ManyNetwork DEF ManyBalance, ManyIn, InNetwork, Waiting, Taken
<1>7. PackageCount - packagesLeft
        = discarded + Many!Cardinality(inHand) + Many!SumFunction(others)
            + Many!SumFunction(taken)
  <2> HIDE DEF others, taken, inHand
  <2> QED
    BY <1>1, <1>5, <1>6
<1>8. Many!Conserved
  BY <1>3, <1>7 DEF Many!Conserved
<1> HIDE DEF others, taken, inHand
<1>9. discarded \in 0..PackageCount
  BY <1>5, <1>6
<1>10. Many!TypeOK
  BY <1>9 DEF Many!TypeOK, ManyInv, ManyTypes, Queues, ManyQueues
<1> QED
  BY <1>8, <1>10

-----------------------------------------------------------------------------
(* The stops of network_simul_bounded                                      *)

\* A queue without a stop, and one with nothing after a stop.
Endless(s, stop) == stop \notin Range(s)
Ended(s, stop) == \A i \in 1..Len(s) : s[i] = stop => i = Len(s)

\* The empty queue has neither a stop nor anything after it.
LEMMA EndedEmpty == ASSUME NEW stop  PROVE Endless(<<>>, stop) /\ Ended(<<>>, stop)
<1>1. <<>> \in Seq({}) /\ Len(<<>>) = 0
  OBVIOUS
<1>2. Range(<<>>) = {}
  BY <1>1, RangeType
<1> QED
  BY <1>1, <1>2 DEF Endless, Ended

\* A stop is put behind everything.
LEMMA EndedAppend ==
  ASSUME NEW M, NEW s \in Seq(M), NEW stop, Endless(s, stop), NEW x \in M
  PROVE  /\ Ended(s, stop) /\ Ended(Append(s, x), stop)
         /\ x # stop => Endless(Append(s, x), stop)
<1> DEFINE a == Append(s, x)
<1>1. /\ Len(a) = Len(s) + 1 /\ Range(a) = Range(s) \cup {x}
      /\ \A i \in 1..Len(s) : a[i] = s[i]
  BY RangeAppend
<1>2. Len(s) \in Nat /\ \A i \in 1..Len(s) : s[i] # stop
  BY RangeType DEF Endless
<1> HIDE DEF a
<1>3. Ended(a, stop) /\ Ended(s, stop)
  BY <1>1, <1>2 DEF Ended
<1>4. x # stop => Endless(a, stop)
  BY <1>1 DEF Endless
<1> QED
  BY <1>3, <1>4 DEF a

\* Whoever takes the stop leaves nothing.
LEMMA EndedTail ==
  ASSUME NEW M, NEW s \in Seq(M), NEW stop, s # <<>>, Ended(s, stop)
  PROVE  /\ Ended(Tail(s), stop)
         /\ Head(s) = stop => Tail(s) = <<>>
         /\ Endless(s, stop) => Head(s) # stop /\ Endless(Tail(s), stop)
<1> DEFINE t == Tail(s)
<1>1. /\ Head(s) \in M /\ t \in Seq(M)
      /\ Len(s) \in Nat \ {0} /\ Len(t) = Len(s) - 1
      /\ Head(s) = s[1]
      /\ \A i \in 1..Len(t) : t[i] = s[i + 1]
      /\ Range(s) = {Head(s)} \cup Range(t)
  BY RangeTail
<1> HIDE DEF t
<1>2. Endless(s, stop) => Head(s) # stop /\ Endless(t, stop)
  BY <1>1 DEF Endless
<1>3. Ended(t, stop)
  BY <1>1 DEF Ended
<1>4. ASSUME Head(s) = stop  PROVE t = <<>>
  <2>1. 1 = Len(s)
    BY <1>1, <1>4 DEF Ended
  <2>2. Len(t) = 0
    BY <1>1, <2>1
  <2> QED
    BY <1>1, <2>2
<1> QED
  BY <1>2, <1>3, <1>4 DEF t

\* The dispatcher has a stop to pass on.
BoundedStopping ==
  pc.dispatcher \in {"reserve", "push"} /\ hand.message = Bounded!StopMessage

\* The consumer k has been sent the stop.
BoundedSent(k) == pc.dispatcher = "done" \/ (BoundedStopping /\ k < hand.target)

\* The producer's stop is the last message that it makes, the dispatcher passes
\* it to each consumer, and whoever ends has an empty queue.
BoundedEnds ==
  /\ pc.main = "start" => pc.producer = "unstarted"
  /\ pc.producer # "done" =>
       /\ Endless(queue[0], Bounded!StopMessage)
       /\ ~BoundedStopping /\ pc.dispatcher # "done"
  /\ pc.producer = "done" => produced = PackageCount
  /\ BoundedStopping \/ pc.dispatcher = "done" => queue[0] = <<>>
  /\ pc.dispatcher = "find" => hand.message # Bounded!StopMessage
  /\ pc.main = "done" =>
       /\ pc.producer = "done" /\ pc.dispatcher = "done"
       /\ \A k \in Bounded!Consumers : worker[k] = "done"
  /\ Ended(queue[0], Bounded!StopMessage)
  /\ \A k \in Bounded!Consumers :
       /\ ~BoundedSent(k) => Endless(queue[k], Bounded!StopMessage)
       /\ Ended(queue[k], Bounded!StopMessage)
       /\ worker[k] = "done" => BoundedSent(k) /\ queue[k] = <<>>

\* What the steps start from.
LEMMA BoundedFacts ==
  ASSUME BoundedInv
  PROVE  /\ queue \in [Bounded!Queues -> Seq(Bounded!Messages)]
         /\ \A k \in Bounded!Consumers : k \in Nat /\ k <= ConsumerCount
         /\ pc.dispatcher \in {"reserve", "push"} => hand.target \in Bounded!Consumers
         /\ pc.dispatcher = "pop" => queue[0] # <<>>
         /\ \A k \in Bounded!Consumers : worker[k] = "pop" => queue[k] # <<>>
         /\ pc.main = "start" =>
              /\ pc.dispatcher = "unstarted"
              /\ \A k \in Bounded!Consumers : worker[k] = "unstarted"
<1>1. /\ queue \in [Bounded!Queues -> Seq(Bounded!Messages)]
      /\ pc.dispatcher \in {"reserve", "push"} => hand.target \in Bounded!Consumers
      /\ pc.main = "start" =>
           /\ pc.dispatcher = "unstarted"
           /\ \A k \in Bounded!Consumers : worker[k] = "unstarted"
  BY DEF BoundedInv, BoundedTypes, BoundedHand, BoundedStart, Queues
<1>2. \A k \in Bounded!Consumers : k \in Nat /\ k <= ConsumerCount
  BY BoundedNames DEF Bounded!Consumers
<1>3. Bounded!PopsAnElement
  BY BoundedOrder
<1> QED
  BY <1>1, <1>2, <1>3 DEF Bounded!PopsAnElement

\* In the empty network no one has ended.
LEMMA BoundedEndsInitially == Bounded!Init => BoundedEnds
<1> SUFFICES ASSUME Bounded!Init  PROVE BoundedEnds
  OBVIOUS
<1>1. /\ pc = [main |-> "start", producer |-> "unstarted", dispatcher |-> "unstarted"]
      /\ worker = [k \in Bounded!Consumers |-> "unstarted"]
      /\ queue[0] = <<>> /\ \A k \in Bounded!Consumers : queue[k] = <<>>
  BY BoundedNames DEF Bounded!Init
<1> QED
  BY <1>1, EndedEmpty DEF BoundedEnds, BoundedStopping

\* The steps of main and those that wait.
LEMMA BoundedQuietEnds ==
  ASSUME BoundedInv, BoundedEnds,
         \/ Bounded!StartThreads \/ Bounded!Join \/ Bounded!ProducerReserve
         \/ Bounded!DispatcherTake \/ Bounded!DispatcherFind
         \/ Bounded!DispatcherReserve
         \/ (\E k \in Bounded!Consumers : Bounded!ConsumerTake(k))
         \/ UNCHANGED Bounded!vars
  PROVE  BoundedEnds'
<1> USE DEF BoundedStopping, BoundedSent
<1>1. /\ pc \in [main : {"start", "join", "done", "aborted"},
             producer : {"unstarted", "reserve", "push", "done"},
             dispatcher : {"unstarted", "take", "pop", "find", "reserve", "push",
                           "done"}]
      /\ worker \in [Bounded!Consumers -> {"unstarted", "take", "pop", "done"}]
      /\ pc.main = "start" =>
              /\ pc.dispatcher = "unstarted"
              /\ \A k \in Bounded!Consumers : worker[k] = "unstarted"
  BY BoundedFacts DEF BoundedInv, BoundedTypes
<1>2. CASE Bounded!StartThreads
  <2>1. /\ pc.main = "start"
        /\ pc' = [main |-> "join", producer |-> "reserve", dispatcher |-> "take"]
        /\ \A k \in Bounded!Consumers : worker'[k] = "take"
        /\ UNCHANGED <<queue, hand, produced>>
    BY <1>2 DEF Bounded!StartThreads
  <2> QED
    BY <1>1, <2>1 DEF BoundedEnds
<1>3. CASE Bounded!Join
  <2>1. /\ pc.main = "join" /\ pc' = [pc EXCEPT !.main = "done"]
        /\ pc.producer = "done" /\ pc.dispatcher = "done"
        /\ \A k \in Bounded!Consumers : worker[k] = "done"
        /\ UNCHANGED <<queue, hand, produced, worker>>
    BY <1>3 DEF Bounded!Join
  <2> QED
    BY <1>1, <2>1 DEF BoundedEnds
<1>4. CASE Bounded!ProducerReserve
  <2>1. /\ pc.producer = "reserve" /\ pc' = [pc EXCEPT !.producer = "push"]
        /\ UNCHANGED <<queue, hand, produced, worker>>
    BY <1>4 DEF Bounded!ProducerReserve, Bounded!Reserve
  <2> QED
    BY <1>1, <2>1 DEF BoundedEnds
<1>5. CASE Bounded!DispatcherTake
  <2>1. /\ pc.dispatcher = "take" /\ pc' = [pc EXCEPT !.dispatcher = "pop"]
        /\ UNCHANGED <<queue, hand, produced, worker>>
    BY <1>5 DEF Bounded!DispatcherTake, Bounded!Take
  <2> QED
    BY <1>1, <2>1 DEF BoundedEnds
<1>6. CASE Bounded!DispatcherFind
  <2>1. /\ pc.dispatcher = "find"
        /\ \/ pc' = [pc EXCEPT !.dispatcher = "reserve"]
           \/ pc' = [pc EXCEPT !.main = "aborted"]
        /\ UNCHANGED <<queue, hand, produced, worker>>
    BY <1>6 DEF Bounded!DispatcherFind
  <2> QED
    BY <1>1, <2>1 DEF BoundedEnds
<1>7. CASE Bounded!DispatcherReserve
  <2>1. /\ pc.dispatcher = "reserve" /\ pc' = [pc EXCEPT !.dispatcher = "push"]
        /\ UNCHANGED <<queue, hand, produced, worker>>
    BY <1>7 DEF Bounded!DispatcherReserve, Bounded!Reserve
  <2> QED
    BY <1>1, <2>1 DEF BoundedEnds
<1>8. ASSUME NEW k \in Bounded!Consumers, Bounded!ConsumerTake(k)
      PROVE  BoundedEnds'
  <2>1. /\ worker[k] = "take" /\ worker' = [worker EXCEPT ![k] = "pop"]
        /\ UNCHANGED <<queue, hand, produced, pc>>
    BY <1>8 DEF Bounded!ConsumerTake, Bounded!Take
  <2> QED
    BY <1>1, <2>1 DEF BoundedEnds
<1>9. CASE UNCHANGED Bounded!vars
  BY <1>9 DEF Bounded!vars, BoundedEnds
<1> QED
  BY <1>2, <1>3, <1>4, <1>5, <1>6, <1>7, <1>8, <1>9

\* Every step keeps the stops last.
LEMMA BoundedKeepsEnds ==
  ASSUME BoundedInv, BoundedEnds, [Bounded!Next]_(Bounded!vars)  PROVE BoundedEnds'
<1> DEFINE C == Bounded!Consumers
           M == Bounded!Messages
           stop == Bounded!StopMessage
<1>1. /\ pc \in [main : {"start", "join", "done", "aborted"},
             producer : {"unstarted", "reserve", "push", "done"},
             dispatcher : {"unstarted", "take", "pop", "find", "reserve", "push",
                           "done"}]
      /\ worker \in [C -> {"unstarted", "take", "pop", "done"}]
      /\ hand \in [message : M, target : 0..(ConsumerCount + 1)]
  BY DEF BoundedInv, BoundedTypes
<1>2. /\ queue \in [Bounded!Queues -> Seq(M)]
      /\ 0 \in Bounded!Queues /\ 0 \notin C
      /\ \A k \in C : k \in Bounded!Queues /\ k # 0 /\ k \in Nat /\ k <= ConsumerCount
      /\ pc.dispatcher \in {"reserve", "push"} => hand.target \in C
      /\ pc.dispatcher = "pop" => queue[0] # <<>>
      /\ \A k \in C : worker[k] = "pop" => queue[k] # <<>>
      /\ pc.main = "start" => pc.dispatcher = "unstarted"
      /\ stop \in M /\ ConsumerCount \in Nat
  BY BoundedFacts, BoundedNames, BoundedMessages
<1>3. queue[0] \in Seq(M) /\ \A k \in C : queue[k] \in Seq(M)
  BY <1>2
<1>4. ASSUME NEW target \in 1..(ConsumerCount + 1), Bounded!ProducerPush(target)
      PROVE  BoundedEnds'
  <2> DEFINE x == [target |-> target, source |-> 1, number |-> produced]
  <2>1. /\ pc.producer = "push" /\ pc' = [pc EXCEPT !.producer = "reserve"]
        /\ queue' = [queue EXCEPT ![0] = Append(@, x)]
        /\ UNCHANGED <<worker, hand>>
    BY <1>4 DEF Bounded!ProducerPush, Bounded!Push
  <2>2. x \in M /\ x # stop
    <3>1. produced \in 0..PackageCount
      BY DEF BoundedInv, BoundedTypes
    <3>2. x \in M /\ x.source = 1
      BY <3>1, BoundedMessages
    <3> QED
      BY <3>2, BoundedMessages
  <2> HIDE DEF C, M, stop, x
  <2>3. /\ pc'.main = pc.main /\ pc'.dispatcher = pc.dispatcher
        /\ pc'.producer = "reserve"
        /\ queue'[0] = Append(queue[0], x) /\ \A k \in C : queue'[k] = queue[k]
    BY <1>1, <1>2, <2>1
  <2>4. pc.main # "start" /\ pc.main # "done" /\ Endless(queue[0], stop)
    BY <2>1 DEF BoundedEnds, stop
  <2>5. Endless(queue'[0], stop) /\ Ended(queue'[0], stop)
    BY <1>3, <2>2, <2>3, <2>4, EndedAppend
  <2> QED
    BY <2>1, <2>3, <2>4, <2>5
       DEF BoundedEnds, BoundedStopping, BoundedSent, C, stop
<1>5. CASE Bounded!ProducerStop
  <2>1. /\ pc.producer = "push" /\ pc' = [pc EXCEPT !.producer = "done"]
        /\ queue' = [queue EXCEPT ![0] = Append(@, stop)] /\ produced = PackageCount
        /\ UNCHANGED <<worker, hand, produced>>
    BY <1>5 DEF Bounded!ProducerStop, Bounded!Push
  <2> HIDE DEF C, M, stop
  <2>2. /\ pc'.main = pc.main /\ pc'.dispatcher = pc.dispatcher
        /\ pc'.producer = "done"
        /\ queue'[0] = Append(queue[0], stop) /\ \A k \in C : queue'[k] = queue[k]
    BY <1>1, <1>2, <2>1
  <2>3. pc.main # "start" /\ pc.main # "done" /\ Endless(queue[0], stop)
    BY <2>1 DEF BoundedEnds, stop
  <2>4. Ended(queue'[0], stop)
    BY <1>2, <1>3, <2>2, <2>3, EndedAppend
  <2> QED
    BY <2>1, <2>2, <2>3, <2>4
       DEF BoundedEnds, BoundedStopping, BoundedSent, C, stop
<1>6. CASE Bounded!DispatcherPop
  <2>1. /\ pc.dispatcher = "pop" /\ queue' = [queue EXCEPT ![0] = Tail(@)]
        /\ UNCHANGED <<worker, produced>>
        /\ \/ /\ Head(queue[0]) = stop
              /\ hand' = [message |-> Head(queue[0]), target |-> 1]
              /\ pc' = [pc EXCEPT !.dispatcher = "reserve"]
           \/ /\ Head(queue[0]) # stop
              /\ hand' = [message |-> Head(queue[0]), target |-> Head(queue[0]).target]
              /\ pc' = [pc EXCEPT !.dispatcher = "find"]
    BY <1>6 DEF Bounded!DispatcherPop, Bounded!Pop
  <2> HIDE DEF C, M, stop
  <2>2. /\ queue'[0] = Tail(queue[0]) /\ \A k \in C : queue'[k] = queue[k]
        /\ pc'.main = pc.main /\ pc'.producer = pc.producer
        /\ queue[0] # <<>>
        /\ \A k \in C : ~(k < 1)
    BY <1>1, <1>2, <2>1
  <2>3. /\ Endless(queue[0], stop) => Head(queue[0]) # stop /\ Endless(queue'[0], stop)
        /\ Ended(queue'[0], stop)
        /\ Head(queue[0]) = stop => queue'[0] = <<>>
    <3>1. Ended(queue[0], stop)
      BY DEF BoundedEnds, stop
    <3> QED
      BY <1>3, <2>2, <3>1, EndedTail
  <2>4. \A k \in C : /\ Endless(queue[k], stop) /\ Ended(queue[k], stop)
                     /\ worker[k] # "done"
    BY <2>1 DEF BoundedEnds, BoundedSent, BoundedStopping, C, stop
  <2>5. pc.main # "start" /\ pc.main # "done"
    BY <1>2, <2>1 DEF BoundedEnds
  <2>6. CASE Head(queue[0]) = stop
    <3>1. /\ hand'.message = stop /\ hand'.target = 1 /\ pc'.dispatcher = "reserve"
      BY <1>1, <2>1, <2>6
    <3>2. pc.producer = "done" /\ queue'[0] = <<>>
      BY <1>1, <2>3, <2>6 DEF BoundedEnds, stop
    <3> QED
      BY <2>1, <2>2, <2>3, <2>4, <2>5, <3>1, <3>2
         DEF BoundedEnds, BoundedStopping, BoundedSent, C, stop
  <2>7. CASE Head(queue[0]) # stop
    <3>1. /\ hand'.message # stop /\ pc'.dispatcher = "find"
      BY <1>1, <2>1, <2>7
    <3> QED
      BY <2>1, <2>2, <2>3, <2>4, <2>5, <3>1
         DEF BoundedEnds, BoundedStopping, BoundedSent, C, stop
  <2> QED
    BY <2>6, <2>7
<1>7. CASE Bounded!DispatcherPush
  <2> DEFINE t == hand.target
  <2>1. /\ pc.dispatcher = "push" /\ hand.message # stop
        /\ queue' = [queue EXCEPT ![t] = Append(@, hand.message)]
        /\ pc' = [pc EXCEPT !.dispatcher = "take"]
        /\ UNCHANGED <<worker, produced, hand>>
    BY <1>7 DEF Bounded!DispatcherPush, Bounded!Push
  <2>2. t \in C /\ hand.message \in M
    BY <1>1, <1>2, <2>1
  <2> HIDE DEF C, M, stop, t
  <2>3. /\ queue'[0] = queue[0] /\ queue'[t] = Append(queue[t], hand.message)
        /\ \A k \in C : k # t => queue'[k] = queue[k]
        /\ pc'.main = pc.main /\ pc'.producer = pc.producer /\ pc'.dispatcher = "take"
    BY <1>1, <1>2, <2>1, <2>2
  <2>4. \A k \in C : /\ Endless(queue[k], stop) /\ Ended(queue[k], stop)
                     /\ worker[k] # "done"
    BY <2>1 DEF BoundedEnds, BoundedSent, BoundedStopping, C, stop
  <2>5. Endless(queue'[t], stop) /\ Ended(queue'[t], stop)
    BY <1>3, <2>1, <2>2, <2>3, <2>4, EndedAppend
  <2>6. pc.main # "start" /\ pc.main # "done"
    BY <1>2, <2>1 DEF BoundedEnds
  <2>7. \A k \in C : Endless(queue'[k], stop) /\ Ended(queue'[k], stop)
    BY <2>3, <2>4, <2>5
  <2> QED
    BY <2>1, <2>3, <2>4, <2>6, <2>7
       DEF BoundedEnds, BoundedStopping, BoundedSent, C, stop
<1>8. CASE Bounded!DispatcherPushStop
  <2>0. PICK t \in C : t = hand.target
    BY <1>2, <1>8 DEF Bounded!DispatcherPushStop
  <2>1. /\ pc.dispatcher = "push" /\ hand.message = stop
        /\ queue' = [queue EXCEPT ![t] = Append(@, stop)]
        /\ UNCHANGED <<worker, produced>>
        /\ \/ /\ t = ConsumerCount /\ hand' = hand
              /\ pc' = [pc EXCEPT !.dispatcher = "done"]
           \/ /\ t # ConsumerCount /\ hand' = [hand EXCEPT !.target = t + 1]
              /\ pc' = [pc EXCEPT !.dispatcher = "reserve"]
    BY <1>8, <2>0 DEF Bounded!DispatcherPushStop, Bounded!Push
  <2>2. t \in C
    BY <2>0
  <2>3. \A k \in C : BoundedSent(k) <=> k < t
    BY <2>0, <2>1 DEF BoundedSent, BoundedStopping
  <2>4. /\ hand'.message = stop
        /\ \/ pc'.dispatcher = "done" /\ t = ConsumerCount
           \/ pc'.dispatcher = "reserve" /\ hand'.target = t + 1
        /\ pc'.main = pc.main /\ pc'.producer = pc.producer
    BY <1>1, <2>1
  <2> HIDE DEF C, M, stop
  <2>5. /\ queue'[0] = queue[0] /\ queue'[t] = Append(queue[t], stop)
        /\ \A k \in C : k # t => queue'[k] = queue[k]
    BY <1>2, <2>1, <2>2
  <2>6. BoundedSent(t)' /\ \A k \in C : BoundedSent(k) => BoundedSent(k)'
    <3>1. /\ t \in Nat /\ t <= ConsumerCount
          /\ \A k \in C : k \in Nat /\ k <= ConsumerCount
      BY <1>2, <2>2
    <3>2. CASE pc'.dispatcher = "done"
      BY <3>2 DEF BoundedSent
    <3>3. CASE pc'.dispatcher = "reserve" /\ hand'.target = t + 1
      BY <2>2, <2>3, <2>4, <3>1, <3>3 DEF BoundedSent, BoundedStopping, stop
    <3> QED
      BY <2>4, <3>2, <3>3
  <2>7. \A k \in C : ~BoundedSent(k)' => k # t /\ ~BoundedSent(k)
    BY <2>6, Zenon
  <2>8. Endless(queue[t], stop) /\ worker[t] # "done"
    <3>1. ~BoundedSent(t)
      BY <1>2, <2>2, <2>3
    <3> QED
      BY <2>2, <3>1 DEF BoundedEnds, C, stop
  <2>9. Ended(queue'[t], stop)
    BY <1>2, <1>3, <2>2, <2>5, <2>8, EndedAppend
  <2>10. /\ pc.main # "start" /\ pc.main # "done" /\ queue[0] = <<>>
         /\ pc.producer = "done" /\ produced = PackageCount
         /\ Ended(queue[0], stop)
    BY <1>1, <1>2, <2>1 DEF BoundedEnds, BoundedStopping, stop
  <2>11. ASSUME NEW k \in C
         PROVE  /\ ~BoundedSent(k)' => Endless(queue'[k], stop)
                /\ Ended(queue'[k], stop)
                /\ worker'[k] = "done" => BoundedSent(k)' /\ queue'[k] = <<>>
    <3>1. /\ ~BoundedSent(k) => Endless(queue[k], stop)
          /\ Ended(queue[k], stop)
          /\ worker[k] = "done" => BoundedSent(k) /\ queue[k] = <<>>
      BY <2>11 DEF BoundedEnds, C, stop
    <3> QED
      BY <2>1, <2>5, <2>6, <2>7, <2>8, <2>9, <2>11, <3>1
  <2> QED
    BY <2>1, <2>4, <2>5, <2>10, <2>11 DEF BoundedEnds, C, stop
<1>9. ASSUME NEW c \in C, Bounded!ConsumerPop(c)  PROVE BoundedEnds'
  <2>1. /\ worker[c] = "pop" /\ queue' = [queue EXCEPT ![c] = Tail(@)]
        /\ \/ Head(queue[c]) = stop /\ worker' = [worker EXCEPT ![c] = "done"]
           \/ Head(queue[c]) # stop /\ worker' = [worker EXCEPT ![c] = "take"]
        /\ UNCHANGED <<pc, hand, produced>>
    BY <1>9 DEF Bounded!ConsumerPop, Bounded!Pop
  <2> HIDE DEF C, M, stop
  <2>2. /\ queue'[0] = queue[0] /\ queue'[c] = Tail(queue[c])
        /\ \A k \in C : k # c => queue'[k] = queue[k] /\ worker'[k] = worker[k]
        /\ queue[c] # <<>> /\ worker'[c] = "done" => Head(queue[c]) = stop
    BY <1>1, <1>2, <1>9, <2>1
  <2>3. /\ Endless(queue[c], stop) => Head(queue[c]) # stop /\ Endless(queue'[c], stop)
        /\ Ended(queue'[c], stop)
        /\ Head(queue[c]) = stop => queue'[c] = <<>>
    <3>1. Ended(queue[c], stop) /\ queue[c] # <<>>
      BY <1>2, <1>9, <2>1 DEF BoundedEnds, stop, C
    <3> QED
      BY <1>3, <1>9, <2>2, <3>1, EndedTail
  <2>4. \A k \in C : BoundedSent(k)' <=> BoundedSent(k)
    BY <2>1 DEF BoundedSent, BoundedStopping
  <2>5. worker'[c] = "done" => BoundedSent(c) /\ queue'[c] = <<>>
    BY <1>2, <1>9, <2>1, <2>2, <2>3 DEF BoundedEnds, C, stop
  <2>6. ASSUME NEW k \in C
        PROVE  /\ ~BoundedSent(k)' => Endless(queue'[k], stop)
               /\ Ended(queue'[k], stop)
               /\ worker'[k] = "done" => BoundedSent(k)' /\ queue'[k] = <<>>
    <3>1. /\ ~BoundedSent(k) => Endless(queue[k], stop)
          /\ Ended(queue[k], stop)
          /\ worker[k] = "done" => BoundedSent(k) /\ queue[k] = <<>>
      BY <2>6 DEF BoundedEnds, C, stop
    <3> QED
      BY <2>2, <2>3, <2>4, <2>5, <2>6, <3>1
  <2>7. pc.main # "done"
    BY <1>9, <2>1 DEF BoundedEnds, C
  <2> QED
    BY <2>1, <2>2, <2>6, <2>7 DEF BoundedEnds, BoundedStopping, C, stop
<1> QED
  BY <1>4, <1>5, <1>6, <1>7, <1>8, <1>9, BoundedQuietEnds
     DEF Bounded!Next, Bounded!ProducerSteps, Bounded!DispatcherSteps,
         Bounded!ConsumerSteps, C

-----------------------------------------------------------------------------
(* The places of network_simul_bounded                                     *)

\* A place is free, taken, or reserved by the one who will push; its queue
\* keeps the number of places.
BoundedPlaces == canProduce \in [Bounded!Queues -> Nat] /\ Bounded!PlacesAccounted

\* Each step moves a place from one to the next of these.
LEMMA BoundedKeepsPlaces ==
  ASSUME BoundedInv, BoundedEnds, BoundedPlaces, [Bounded!Next]_(Bounded!vars)
  PROVE  BoundedPlaces'
<1> DEFINE C == Bounded!Consumers
           D == Bounded!Queues
           M == Bounded!Messages
           Reserved == IF pc.producer = "push" THEN 1 ELSE 0
           ReservedOf(k) == IF pc.dispatcher = "push" /\ hand.target = k THEN 1 ELSE 0
           First == Len(queue[0]) + canProduce[0] + Reserved = Capacity
           Of(k) == Len(queue[k]) + canProduce[k] + ReservedOf(k) = Capacity
<1>1. /\ pc \in [main : {"start", "join", "done", "aborted"},
             producer : {"unstarted", "reserve", "push", "done"},
             dispatcher : {"unstarted", "take", "pop", "find", "reserve", "push",
                           "done"}]
      /\ hand \in [message : M, target : 0..(ConsumerCount + 1)]
  BY DEF BoundedInv, BoundedTypes
<1>2. /\ queue \in [D -> Seq(M)]
      /\ 0 \in D /\ 0 \notin C
      /\ \A k \in C : k \in D /\ k # 0
      /\ pc.dispatcher \in {"reserve", "push"} => hand.target \in C
      /\ pc.dispatcher = "pop" => queue[0] # <<>>
      /\ \A k \in C : worker[k] = "pop" => queue[k] # <<>>
      /\ pc.main = "start" => pc.dispatcher = "unstarted" /\ pc.producer = "unstarted"
  BY BoundedFacts, BoundedNames DEF BoundedEnds
<1>3. /\ \A k \in D : Len(queue[k]) \in Nat /\ queue[k] \in Seq(M)
      /\ canProduce \in [D -> Nat] /\ \A k \in D : canProduce[k] \in Nat
      /\ Len(queue[0]) \in Nat /\ canProduce[0] \in Nat
      /\ First /\ \A k \in C : Of(k)
  <2>1. canProduce \in [D -> Nat] /\ First /\ \A k \in C : Of(k)
    BY DEF BoundedPlaces, Bounded!PlacesAccounted
  <2> QED
    BY <1>2, <2>1
<1>4. SUFFICES canProduce' \in [D -> Nat] /\ First' /\ \A k \in C : Of(k)'
  BY DEF BoundedPlaces, Bounded!PlacesAccounted
<1> HIDE DEF C, D, M
<1>5. ASSUME UNCHANGED <<queue, canProduce>>, Reserved' = Reserved,
             \A k \in C : ReservedOf(k)' = ReservedOf(k)
      PROVE  canProduce' \in [D -> Nat] /\ First' /\ \A k \in C : Of(k)'
  <2> HIDE DEF Reserved, ReservedOf
  <2> QED
    BY <1>3, <1>5
<1>6. CASE Bounded!StartThreads \/ Bounded!Join \/ Bounded!DispatcherTake
           \/ Bounded!DispatcherFind \/ UNCHANGED Bounded!vars
           \/ \E k \in C : Bounded!ConsumerTake(k)
  <2>1. /\ UNCHANGED <<queue, canProduce, hand>>
        /\ \/ /\ pc.producer = "unstarted" /\ pc.dispatcher = "unstarted"
              /\ pc'.producer = "reserve" /\ pc'.dispatcher = "take"
           \/ /\ pc'.producer = pc.producer
              /\ \/ pc'.dispatcher = pc.dispatcher
                 \/ pc.dispatcher # "push" /\ pc'.dispatcher # "push"
    BY <1>1, <1>2, <1>6
       DEF Bounded!StartThreads, Bounded!Join, Bounded!DispatcherTake, Bounded!Take,
           Bounded!DispatcherFind, Bounded!ConsumerTake, Bounded!vars,
           Bounded!semaphores
  <2>2. Reserved' = Reserved /\ \A k \in C : ReservedOf(k)' = ReservedOf(k)
    BY <2>1
  <2> QED
    BY <1>5, <2>1, <2>2
<1>7. CASE Bounded!ProducerReserve
  <2>1. /\ pc.producer = "reserve" /\ pc' = [pc EXCEPT !.producer = "push"]
        /\ canProduce[0] > 0 /\ canProduce' = [canProduce EXCEPT ![0] = @ - 1]
        /\ UNCHANGED <<queue, hand>>
    BY <1>7 DEF Bounded!ProducerReserve, Bounded!Reserve
  <2>2. /\ Reserved = 0 /\ Reserved' = 1 /\ \A k \in C : ReservedOf(k)' = ReservedOf(k)
    BY <1>1, <2>1
  <2>3. /\ canProduce'[0] = canProduce[0] - 1 /\ canProduce' \in [D -> Nat]
        /\ \A k \in C : canProduce'[k] = canProduce[k]
    BY <1>2, <1>3, <2>1
  <2> HIDE DEF Reserved, ReservedOf
  <2> QED
    BY <1>2, <1>3, <2>1, <2>2, <2>3
<1>8. CASE Bounded!ProducerStop \/ \E t \in 1..(ConsumerCount + 1) : Bounded!ProducerPush(t)
  <2>1. /\ pc.producer = "push"
        /\ pc'.producer # "push" /\ pc'.dispatcher = pc.dispatcher
        /\ \E x : queue' = [queue EXCEPT ![0] = Append(@, x)]
        /\ UNCHANGED <<canProduce, hand>>
    <3>1. CASE Bounded!ProducerStop
      BY <1>1, <3>1 DEF Bounded!ProducerStop, Bounded!Push
    <3>2. ASSUME NEW t \in 1..(ConsumerCount + 1), Bounded!ProducerPush(t)
          PROVE  /\ pc.producer = "push"
                 /\ pc'.producer # "push" /\ pc'.dispatcher = pc.dispatcher
                 /\ \E x : queue' = [queue EXCEPT ![0] = Append(@, x)]
                 /\ UNCHANGED <<canProduce, hand>>
      BY <1>1, <3>2 DEF Bounded!ProducerPush, Bounded!Push
    <3> QED
      BY <1>8, <3>1, <3>2
  <2>2. /\ Reserved = 1 /\ Reserved' = 0 /\ \A k \in C : ReservedOf(k)' = ReservedOf(k)
    BY <1>1, <2>1
  <2>3. Len(queue'[0]) = Len(queue[0]) + 1 /\ \A k \in C : queue'[k] = queue[k]
    BY <1>2, <1>3, <2>1
  <2> HIDE DEF Reserved, ReservedOf
  <2>4. First'
    BY <1>3, <2>1, <2>2, <2>3
  <2>5. \A k \in C : Of(k)'
    BY <1>3, <2>1, <2>2, <2>3
  <2> QED
    BY <1>3, <2>1, <2>4, <2>5
<1>9. CASE Bounded!DispatcherPop
  <2>1. /\ pc.dispatcher = "pop" /\ pc'.dispatcher # "push"
        /\ pc'.producer = pc.producer
        /\ queue' = [queue EXCEPT ![0] = Tail(@)]
        /\ canProduce' = [canProduce EXCEPT ![0] = @ + 1]
    BY <1>1, <1>9 DEF Bounded!DispatcherPop, Bounded!Pop
  <2>2. Reserved = Reserved' /\ \A k \in C : ReservedOf(k)' = ReservedOf(k)
    BY <2>1
  <2>3. /\ Len(queue'[0]) = Len(queue[0]) - 1
        /\ canProduce'[0] = canProduce[0] + 1 /\ canProduce' \in [D -> Nat]
        /\ \A k \in C : queue'[k] = queue[k] /\ canProduce'[k] = canProduce[k]
    BY <1>2, <1>3, <2>1
  <2> HIDE DEF Reserved, ReservedOf
  <2>4. Len(queue'[0]) + canProduce'[0] = Len(queue[0]) + canProduce[0]
    BY <1>2, <1>3, <2>3
  <2> QED
    BY <1>2, <1>3, <2>2, <2>3, <2>4
<1>10. CASE Bounded!DispatcherReserve
  <2>0. PICK t \in C : t = hand.target
    BY <1>2, <1>10 DEF Bounded!DispatcherReserve
  <2>1. /\ pc.dispatcher = "reserve" /\ pc' = [pc EXCEPT !.dispatcher = "push"]
        /\ canProduce[t] > 0 /\ canProduce' = [canProduce EXCEPT ![t] = @ - 1]
        /\ UNCHANGED <<queue, hand>>
    BY <1>10, <2>0 DEF Bounded!DispatcherReserve, Bounded!Reserve
  <2>2. /\ Reserved' = Reserved /\ ReservedOf(t) = 0 /\ ReservedOf(t)' = 1
        /\ \A k \in C : k # t => ReservedOf(k)' = ReservedOf(k)
    BY <1>1, <2>0, <2>1
  <2>3. /\ canProduce'[t] = canProduce[t] - 1 /\ canProduce' \in [D -> Nat]
        /\ canProduce'[0] = canProduce[0]
        /\ \A k \in C : k # t => canProduce'[k] = canProduce[k]
    BY <1>2, <1>3, <2>1
  <2> HIDE DEF Reserved, ReservedOf
  <2>4. Of(t)'
    BY <1>2, <1>3, <2>1, <2>2, <2>3
  <2> QED
    BY <1>2, <1>3, <2>1, <2>2, <2>3, <2>4
<1>11. CASE Bounded!DispatcherPush \/ Bounded!DispatcherPushStop
  <2>0. PICK t \in C : t = hand.target
    BY <1>2, <1>11 DEF Bounded!DispatcherPush, Bounded!DispatcherPushStop
  <2>1. /\ pc.dispatcher = "push" /\ pc'.dispatcher # "push"
        /\ pc'.producer = pc.producer
        /\ \E x : queue' = [queue EXCEPT ![t] = Append(@, x)]
        /\ UNCHANGED canProduce
    BY <1>1, <1>11, <2>0
       DEF Bounded!DispatcherPush, Bounded!DispatcherPushStop, Bounded!Push
  <2>2. /\ Reserved' = Reserved /\ ReservedOf(t) = 1 /\ ReservedOf(t)' = 0
        /\ \A k \in C : k # t => ReservedOf(k)' = ReservedOf(k)
    BY <2>0, <2>1
  <2>3. /\ Len(queue'[t]) = Len(queue[t]) + 1 /\ queue'[0] = queue[0]
        /\ \A k \in C : k # t => queue'[k] = queue[k]
    BY <1>2, <1>3, <2>1
  <2> HIDE DEF Reserved, ReservedOf
  <2>4. Of(t)'
    BY <1>2, <1>3, <2>1, <2>2, <2>3
  <2> QED
    BY <1>2, <1>3, <2>1, <2>2, <2>3, <2>4
<1>12. ASSUME NEW c \in C, Bounded!ConsumerPop(c)
       PROVE  canProduce' \in [D -> Nat] /\ First' /\ \A k \in C : Of(k)'
  <2>1. /\ worker[c] = "pop" /\ queue' = [queue EXCEPT ![c] = Tail(@)]
        /\ canProduce' = [canProduce EXCEPT ![c] = @ + 1]
        /\ UNCHANGED <<pc, hand>>
    BY <1>12 DEF Bounded!ConsumerPop, Bounded!Pop
  <2>2. /\ Reserved' = Reserved /\ \A k \in C : ReservedOf(k)' = ReservedOf(k)
    BY <2>1
  <2>3. /\ Len(queue'[c]) = Len(queue[c]) - 1
        /\ canProduce'[c] = canProduce[c] + 1 /\ canProduce' \in [D -> Nat]
        /\ queue'[0] = queue[0] /\ canProduce'[0] = canProduce[0]
        /\ \A k \in C : k # c => queue'[k] = queue[k] /\ canProduce'[k] = canProduce[k]
    BY <1>2, <1>3, <1>12, <2>1
  <2> HIDE DEF Reserved, ReservedOf
  <2>4. Len(queue'[c]) + canProduce'[c] = Len(queue[c]) + canProduce[c]
    BY <1>2, <1>3, <1>12, <2>3
  <2>5. Of(c)'
    BY <1>3, <2>2, <2>4
  <2> QED
    BY <1>2, <1>3, <2>2, <2>3, <2>5
<1> QED
  BY <1>6, <1>7, <1>8, <1>9, <1>10, <1>11, <1>12
     DEF Bounded!Next, Bounded!ProducerSteps, Bounded!DispatcherSteps,
         Bounded!ConsumerSteps, C

-----------------------------------------------------------------------------
(* How many messages network_simul_bounded has in the network              *)

\* What was produced is in the network, or in the dispatcher's hand.
BoundedIn ==
  InNetwork(Bounded!Queues, Bounded!Consumers, queue, received, Bounded!StopMessage)
BoundedCarried ==
  IF pc.dispatcher \in {"find", "reserve", "push"}
  THEN Counts(hand.message, Bounded!StopMessage) ELSE 0
BoundedBalance == produced = BoundedIn + BoundedCarried

\* Its queues and consumers are a network.
LEMMA BoundedNetwork ==
  ASSUME BoundedInv
  PROVE  /\ Network(Bounded!Queues, Bounded!Messages, Bounded!Consumers, queue, received)
         /\ Queues(Bounded!Queues, Bounded!Messages, queue)
         /\ BoundedIn \in Nat
<1>1. IsFiniteSet(Bounded!Queues) /\ IsFiniteSet(Bounded!Consumers)
  BY BoundedNames, FS_Interval DEF Bounded!Queues, Bounded!Consumers
<1>2. Network(Bounded!Queues, Bounded!Messages, Bounded!Consumers, queue, received)
  BY <1>1, BoundedSets DEF Network, BoundedInv, BoundedTypes
<1> QED
  BY <1>2, InNetworkType DEF BoundedIn, Network

\* Nothing is there when the program starts, and every place is free.
LEMMA BoundedBalanced == Bounded!Init => BoundedBalance /\ BoundedPlaces
<1> SUFFICES ASSUME Bounded!Init  PROVE BoundedBalance /\ BoundedPlaces
  OBVIOUS
<1>1. /\ pc = [main |-> "start", producer |-> "unstarted", dispatcher |-> "unstarted"]
      /\ queue = [k \in Bounded!Queues |-> <<>>]
      /\ canProduce = [k \in Bounded!Queues |-> 1 + (Capacity - 1)]
      /\ produced = 0 /\ received = [k \in Bounded!Consumers |-> <<>>]
  BY DEF Bounded!Init
<1>2. BoundedIn = 0
  BY <1>1, BoundedInitially, BoundedNetwork, InNetworkType DEF BoundedIn
<1>3. BoundedBalance
  BY <1>1, <1>2 DEF BoundedBalance, BoundedCarried
<1>4. Capacity \in Nat \ {0} /\ 1 + (Capacity - 1) = Capacity
  BY SimulationsAssumption DEF Bounded!CountsAssumption
<1>5. /\ \A k \in Bounded!Queues : queue[k] = <<>> /\ canProduce[k] = Capacity
      /\ canProduce \in [Bounded!Queues -> Nat]
  BY <1>1, <1>4
<1>6. Len(<<>>) + Capacity + 0 = Capacity
  BY <1>4
<1>7. BoundedPlaces
  BY <1>1, <1>5, <1>6, BoundedNames DEF BoundedPlaces, Bounded!PlacesAccounted
<1> QED
  BY <1>3, <1>7

\* No step changes the balance.
LEMMA BoundedKeepsBalance ==
  ASSUME BoundedInv, BoundedEnds, BoundedBalance, [Bounded!Next]_(Bounded!vars)
  PROVE  BoundedBalance'
<1> DEFINE C == Bounded!Consumers
           D == Bounded!Queues
           M == Bounded!Messages
           stop == Bounded!StopMessage
<1>1. /\ pc \in [main : {"start", "join", "done", "aborted"},
             producer : {"unstarted", "reserve", "push", "done"},
             dispatcher : {"unstarted", "take", "pop", "find", "reserve", "push",
                           "done"}]
      /\ hand \in [message : M, target : 0..(ConsumerCount + 1)]
      /\ produced \in 0..PackageCount /\ produced \in Nat
  BY BoundedNames DEF BoundedInv, BoundedTypes
<1>2. /\ Queues(D, M, queue) /\ Network(D, M, C, queue, received)
      /\ 0 \in D /\ 0 \notin C
      /\ \A k \in C : k \in D /\ k # 0
      /\ pc.dispatcher \in {"reserve", "push"} => hand.target \in C
      /\ pc.dispatcher = "pop" => queue[0] # <<>>
      /\ \A k \in C : worker[k] = "pop" => queue[k] # <<>>
      /\ pc.main = "start" => pc.dispatcher = "unstarted"
      /\ stop \in M /\ Counts(stop, stop) = 0
      /\ pc.dispatcher = "find" => hand.message # stop
  BY BoundedFacts, BoundedNames, BoundedNetwork, BoundedMessages DEF Counts, BoundedEnds
<1>3. /\ BoundedIn \in Nat /\ BoundedCarried \in Nat
      /\ produced = BoundedIn + BoundedCarried
  BY BoundedNetwork DEF BoundedCarried, Counts, BoundedBalance
<1>4. BoundedIn = InNetwork(D, C, queue, received, stop)
  BY DEF BoundedIn
<1>5. BoundedIn' = InNetwork(D, C, queue', received', stop)
  BY DEF BoundedIn
<1>6. SUFFICES produced' = BoundedIn' + BoundedCarried'
  BY DEF BoundedBalance
<1> DEFINE Carries == pc.dispatcher \in {"find", "reserve", "push"}
<1>7. /\ Carries => BoundedCarried = Counts(hand.message, stop)
      /\ ~Carries => BoundedCarried = 0
      /\ Carries' => BoundedCarried' = Counts(hand'.message, stop)
      /\ ~Carries' => BoundedCarried' = 0
  BY DEF BoundedCarried
<1> HIDE DEF C, D, M, stop
<1>8. CASE Bounded!StartThreads \/ Bounded!Join \/ Bounded!ProducerReserve
           \/ Bounded!DispatcherTake \/ Bounded!DispatcherFind
           \/ Bounded!DispatcherReserve \/ UNCHANGED Bounded!vars
           \/ \E k \in C : Bounded!ConsumerTake(k)
  <2>1. /\ UNCHANGED <<queue, received, produced, hand>>
        /\ Carries' = Carries
    BY <1>1, <1>2, <1>8
       DEF Bounded!StartThreads, Bounded!Join, Bounded!DispatcherTake, Bounded!Take,
           Bounded!DispatcherFind, Bounded!ConsumerTake, Bounded!vars,
           Bounded!ProducerReserve, Bounded!DispatcherReserve, Bounded!Reserve,
           Bounded!semaphores
  <2>2. BoundedIn' = BoundedIn /\ BoundedCarried' = BoundedCarried
    BY <1>4, <1>5, <1>7, <2>1
  <2> QED
    BY <1>3, <2>1, <2>2
<1>9. ASSUME NEW target \in 1..(ConsumerCount + 1), Bounded!ProducerPush(target)
      PROVE  produced' = BoundedIn' + BoundedCarried'
  <2> DEFINE x == [target |-> target, source |-> 1, number |-> produced]
  <2>1. /\ queue' = [queue EXCEPT ![0] = Append(@, x)]
        /\ pc' = [pc EXCEPT !.producer = "reserve"]
        /\ produced' = produced + 1 /\ UNCHANGED <<hand, received>>
    BY <1>9 DEF Bounded!ProducerPush, Bounded!Push
  <2>2. x \in M /\ x # stop
    <3>1. x \in M /\ x.source = 1
      BY <1>1, BoundedMessages DEF M
    <3> QED
      BY <3>1, BoundedMessages DEF stop
  <2> HIDE DEF x
  <2>3. Pushes(D, M, queue, 0, x, queue')
    BY <1>2, <2>1, <2>2 DEF Pushes
  <2>4. BoundedIn' = BoundedIn + Counts(x, stop)
    BY <1>2, <1>4, <1>5, <2>1, <2>3, PushCounts
  <2>5. Counts(x, stop) = 1
    BY <2>2 DEF Counts
  <2>6. BoundedCarried' = BoundedCarried
    BY <1>1, <2>1 DEF BoundedCarried
  <2> QED
    BY <1>3, <2>1, <2>4, <2>5, <2>6
<1>10. CASE Bounded!ProducerStop
  <2>1. /\ queue' = [queue EXCEPT ![0] = Append(@, stop)]
        /\ pc' = [pc EXCEPT !.producer = "done"]
        /\ UNCHANGED <<produced, hand, received>>
    BY <1>10 DEF Bounded!ProducerStop, Bounded!Push, stop
  <2>2. Pushes(D, M, queue, 0, stop, queue')
    BY <1>2, <2>1 DEF Pushes
  <2>3. BoundedIn' = BoundedIn + Counts(stop, stop)
    BY <1>2, <1>4, <1>5, <2>1, <2>2, PushCounts
  <2>4. BoundedCarried' = BoundedCarried
    BY <1>1, <2>1 DEF BoundedCarried
  <2> QED
    BY <1>2, <1>3, <2>1, <2>3, <2>4
<1>11. CASE Bounded!DispatcherPop
  <2>1. /\ pc.dispatcher = "pop" /\ pc'.dispatcher \in {"find", "reserve"}
        /\ queue' = [queue EXCEPT ![0] = Tail(@)]
        /\ hand'.message = Head(queue[0])
        /\ UNCHANGED <<produced, received>>
    BY <1>1, <1>11 DEF Bounded!DispatcherPop, Bounded!Pop
  <2>2. Pops(D, M, queue, 0, queue')
    BY <1>2, <2>1 DEF Pops
  <2>3. BoundedIn = BoundedIn' + Counts(Head(queue[0]), stop)
    BY <1>2, <1>4, <1>5, <2>1, <2>2, PopCounts
  <2>4. BoundedCarried = 0 /\ BoundedCarried' = Counts(Head(queue[0]), stop)
    BY <1>7, <2>1
  <2>5. produced = BoundedIn
    BY <1>3, <2>4
  <2> QED
    BY <2>1, <2>3, <2>4, <2>5, Zenon
<1>12. CASE Bounded!DispatcherPush \/ Bounded!DispatcherPushStop
  <2>0. PICK t \in C : t = hand.target
    BY <1>2, <1>12 DEF Bounded!DispatcherPush, Bounded!DispatcherPushStop
  <2>1. /\ pc.dispatcher = "push"
        /\ queue' = [queue EXCEPT ![t] = Append(@, hand.message)]
        /\ pc'.dispatcher \in {"take", "done"}
             \/ (pc'.dispatcher = "reserve" /\ hand.message = stop /\ hand'.message = stop)
        /\ UNCHANGED <<produced, received>>
    BY <1>1, <1>12, <2>0
       DEF Bounded!DispatcherPush, Bounded!DispatcherPushStop, Bounded!Push, stop
  <2>2. Pushes(D, M, queue, t, hand.message, queue')
    BY <1>1, <1>2, <2>1 DEF Pushes
  <2>3. BoundedIn' = BoundedIn + Counts(hand.message, stop)
    BY <1>2, <1>4, <1>5, <2>1, <2>2, PushCounts
  <2>4. BoundedCarried = Counts(hand.message, stop) /\ BoundedCarried' = 0
    BY <1>2, <1>7, <2>1
  <2> QED
    BY <1>3, <2>1, <2>3, <2>4
<1>13. ASSUME NEW k \in C, Bounded!ConsumerPop(k)
       PROVE  produced' = BoundedIn' + BoundedCarried'
  <2>1. /\ worker[k] = "pop" /\ queue' = [queue EXCEPT ![k] = Tail(@)]
        /\ \/ Head(queue[k]) = stop /\ received' = received
           \/ /\ Head(queue[k]) # stop
              /\ received' = [received EXCEPT ![k] = Append(@, Head(queue[k]))]
        /\ UNCHANGED <<produced, pc, hand>>
    BY <1>13 DEF Bounded!ConsumerPop, Bounded!Pop, stop
  <2>2. Pops(D, M, queue, k, queue')
    BY <1>2, <1>13, <2>1 DEF Pops
  <2>3. BoundedCarried' = BoundedCarried
    BY <2>1 DEF BoundedCarried
  <2>4. CASE Head(queue[k]) = stop /\ received' = received
    <3>1. BoundedIn = BoundedIn' + Counts(stop, stop) /\ BoundedIn' \in Nat
      BY <1>2, <1>4, <1>5, <2>2, <2>4, PopCounts, InNetworkType
    <3> QED
      BY <1>2, <1>3, <2>1, <2>3, <3>1
  <2>5. CASE /\ Head(queue[k]) # stop
             /\ received' = [received EXCEPT ![k] = Append(@, Head(queue[k]))]
    <3>1. Receives(C, M, received, k, Head(queue[k]), received')
      BY <1>2, <1>13, <2>2, <2>5, PopCounts DEF Receives
    <3>2. BoundedIn' = BoundedIn
      BY <1>2, <1>4, <1>5, <2>2, <2>5, <3>1, ConsumeCounts
    <3> QED
      BY <1>3, <2>1, <2>3, <3>2
  <2> QED
    BY <2>1, <2>4, <2>5
<1> QED
  BY <1>8, <1>9, <1>10, <1>11, <1>12, <1>13
     DEF Bounded!Next, Bounded!ProducerSteps, Bounded!DispatcherSteps,
         Bounded!ConsumerSteps, C

\* When main has joined everyone, nothing is left in the network.
LEMMA BoundedCounted ==
  ASSUME BoundedInv, BoundedEnds, BoundedPlaces, BoundedBalance
  PROVE  Bounded!PlacesAccounted /\ Bounded!AllConsumed /\ Bounded!TypeOK
<1> DEFINE taken == [k \in Bounded!Consumers |-> Len(received[k])]
           others == [k \in Bounded!Queues |-> Others(queue[k], Bounded!StopMessage)]
<1>1. Bounded!SumFunction(taken) = SumFunction(taken)
  BY DEF SumFunction, SumFunctionOnSet, FoldFunctionOnSet, MapThenFoldSet,
         Bounded!SumFunction, Bounded!SumFunctionOnSet, Bounded!FoldFunctionOnSet,
         Bounded!MapThenFoldSet
<1>2. ASSUME pc.main = "done"  PROVE PackageCount = SumFunction(taken)
  <2>1. /\ pc.producer = "done" /\ pc.dispatcher = "done"
        /\ \A k \in Bounded!Consumers : worker[k] = "done"
    BY <1>2 DEF BoundedEnds
  <2>2. \A k \in Bounded!Queues : queue[k] = <<>>
    BY <2>1, BoundedNames DEF BoundedEnds
  <2>3. Network(Bounded!Queues, Bounded!Messages, Bounded!Consumers, queue, received)
    BY BoundedNetwork
  <2>4. others \in [Bounded!Queues -> Nat] /\ \A k \in Bounded!Queues : others[k] = 0
    BY <2>2, <2>3, OthersChange DEF Network, Queues
  <2>5. Waiting(Bounded!Queues, queue, Bounded!StopMessage) = 0
    <3>1. IsFiniteSet(Bounded!Queues)
      BY <2>3 DEF Network
    <3> HIDE DEF others
    <3>2. SumFunction(others) = 0
      BY <2>4, <3>1, SumType
    <3> QED
      BY <3>2 DEF Waiting, others
  <2>6. produced = PackageCount /\ BoundedCarried = 0
    BY <2>1 DEF BoundedEnds, BoundedCarried
  <2>7. Taken(Bounded!Consumers, received) \in Nat
    BY <2>3, InNetworkType
  <2>8. PackageCount = Taken(Bounded!Consumers, received)
    BY <2>5, <2>6, <2>7 DEF BoundedBalance, BoundedIn, InNetwork
  <2> QED
    BY <2>8 DEF Taken
<1>3. Bounded!AllConsumed
  BY <1>1, <1>2 DEF Bounded!AllConsumed
<1>4. Bounded!PlacesAccounted /\ canProduce \in [Bounded!Queues -> Nat]
  BY DEF BoundedPlaces
<1>5. Bounded!TypeOK
  BY <1>4 DEF Bounded!TypeOK, BoundedInv, BoundedTypes, Queues
<1> QED
  BY <1>3, <1>4, <1>5

-----------------------------------------------------------------------------
(* The four programs                                                       *)

\* The invariant of the program that this behaviour is of.
OrderInv ==
  /\ program \in {"packet_loss", "packet_loss2", "producers", "bounded"}
  /\ program = "packet_loss" => LossInv
  /\ program = "packet_loss2" => Loss2Inv
  /\ program = "producers" => ManyInv
  /\ program = "bounded" => BoundedInv

\* Each program keeps its invariant.
LEMMA OrderInvInitially == Init => OrderInv
  BY LossInitially, Loss2Initially, ManyInitially, BoundedInitially
     DEF Init, OrderInv

\* And no step of any of them breaks it.
LEMMA OrderInvKept == OrderInv /\ [Next]_vars => OrderInv'
<1> SUFFICES ASSUME OrderInv, [Next]_vars  PROVE OrderInv'
  OBVIOUS
<1>1. CASE LossNext
  <2>1. program = "packet_loss" /\ program' = program /\ Loss!Next
    BY <1>1 DEF LossNext, Running
  <2>2. LossInv'
    BY <2>1, LossStep DEF OrderInv
  <2> QED
    BY <2>1, <2>2 DEF OrderInv
<1>2. CASE Loss2Next
  <2>1. program = "packet_loss2" /\ program' = program /\ Loss2!Next
    BY <1>2 DEF Loss2Next, Running
  <2>2. Loss2Inv'
    BY <2>1, Loss2Step DEF OrderInv
  <2> QED
    BY <2>1, <2>2 DEF OrderInv
<1>3. CASE ManyNext
  <2>1. program = "producers" /\ program' = program /\ Many!Next
    BY <1>3 DEF ManyNext, Running
  <2>2. ManyInv'
    BY <2>1, ManyStep DEF OrderInv
  <2> QED
    BY <2>1, <2>2 DEF OrderInv
<1>4. CASE BoundedNext
  <2>1. program = "bounded" /\ program' = program /\ Bounded!Next
    BY <1>4 DEF BoundedNext, Running
  <2>2. BoundedInv'
    BY <2>1, BoundedStep DEF OrderInv
  <2> QED
    BY <2>1, <2>2 DEF OrderInv
<1>5. CASE UNCHANGED vars
  <2>1. UNCHANGED <<program, pc, worker, queue, produced, received, discarded,
                    producer, packagesLeft, canConsume, canProduce, hand>>
    BY <1>5 DEF vars
  <2>2. /\ UNCHANGED Loss!vars /\ UNCHANGED Loss2!vars
        /\ UNCHANGED Many!vars /\ UNCHANGED Bounded!vars
    BY <2>1 DEF Loss!vars, Loss2!vars, Many!vars, Bounded!vars
  <2> QED
    BY <2>1, <2>2, LossStep, Loss2Step, ManyStep, BoundedStep DEF OrderInv
<1> QED
  BY <1>1, <1>2, <1>3, <1>4, <1>5 DEF Next

\* A producer's messages arrive at their consumer in the order they were made;
\* of several producers no two take the same number; whoever takes the stop
\* has taken everything before it, and in packet_loss2 no stop passes the
\* assembler; in the bounded simulation pop() finds an element though it waits
\* for it outside of the mutex: MessagesInOrder of the four main.cpp.
THEOREM OrderKept == Spec => []MessagesInOrder
<1>1. OrderInv => MessagesInOrder
  BY LossOrder, Loss2Order, ManyOrder, BoundedOrder DEF OrderInv, MessagesInOrder
<1> QED
  BY <1>1, OrderInvInitially, OrderInvKept, PTL DEF Spec

\* What each program has produced is accounted for.
CountInv ==
  /\ OrderInv
  /\ program = "packet_loss" => LossBalance
  /\ program = "packet_loss2" => Loss2Balance
  /\ program = "producers" => ManyBalance
  /\ program = "bounded" => BoundedEnds /\ BoundedPlaces /\ BoundedBalance

\* Nothing is in the network of a program that starts.
LEMMA CountInvInitially == Init => CountInv
  BY OrderInvInitially, LossBalanced, Loss2Balanced, ManyBalanced, BoundedBalanced,
     BoundedEndsInitially
     DEF Init, CountInv

\* Each program keeps its accounts.
LEMMA CountInvKept == CountInv /\ [Next]_vars => CountInv'
<1> SUFFICES ASSUME CountInv, [Next]_vars  PROVE CountInv'
  OBVIOUS
<1>1. OrderInv /\ OrderInv' /\ program' = program
  BY OrderInvKept
     DEF CountInv, Next, LossNext, Loss2Next, ManyNext, BoundedNext, Running, vars
<1>2. CASE program = "packet_loss"
  <2>1. LossInv /\ LossBalance /\ [Loss!Next]_(Loss!vars)
    BY <1>1, <1>2 DEF CountInv, OrderInv, Next, LossNext, Loss2Next, ManyNext,
                      BoundedNext, Running, vars, Loss!vars
  <2> QED
    BY <1>1, <1>2, <2>1, LossKeepsBalance DEF CountInv
<1>3. CASE program = "packet_loss2"
  <2>1. Loss2Inv /\ Loss2Balance /\ [Loss2!Next]_(Loss2!vars)
    BY <1>1, <1>3 DEF CountInv, OrderInv, Next, LossNext, Loss2Next, ManyNext,
                      BoundedNext, Running, vars, Loss2!vars
  <2> QED
    BY <1>1, <1>3, <2>1, Loss2KeepsBalance DEF CountInv
<1>4. CASE program = "producers"
  <2>1. ManyInv /\ ManyBalance /\ [Many!Next]_(Many!vars)
    BY <1>1, <1>4 DEF CountInv, OrderInv, Next, LossNext, Loss2Next, ManyNext,
                      BoundedNext, Running, vars, Many!vars
  <2> QED
    BY <1>1, <1>4, <2>1, ManyKeepsBalance DEF CountInv
<1>5. CASE program = "bounded"
  <2>1. BoundedInv /\ BoundedEnds /\ BoundedPlaces /\ BoundedBalance
    BY <1>1, <1>5 DEF CountInv, OrderInv
  <2>2. [Bounded!Next]_(Bounded!vars)
    BY <1>1, <1>5 DEF Next, LossNext, Loss2Next, ManyNext,
                      BoundedNext, Running, vars, Bounded!vars
  <2> QED
    BY <1>1, <1>5, <2>1, <2>2, BoundedKeepsEnds, BoundedKeepsPlaces,
       BoundedKeepsBalance DEF CountInv
<1> QED
  BY <1>1, <1>2, <1>3, <1>4, <1>5 DEF OrderInv

\* No message is lost on the way or duplicated: what was produced waits in one
\* queue, is in a thread's hand, was consumed, or is counted as discarded; when
\* the bounded simulation has ended all was consumed, and its semaphores account
\* for each place of its queues: MessagesConserved, of what the push() and pop()
\* of the four Queue.hpp and the threads' consume() do.
THEOREM MessagesKept == Spec => []MessagesConserved
<1>1. CountInv => MessagesConserved
  BY LossCounted, Loss2Counted, ManyCounted, BoundedCounted
     DEF CountInv, OrderInv, MessagesConserved
<1> QED
  BY <1>1, CountInvInitially, CountInvKept, PTL DEF Spec

\* Every variable of the four simulations keeps its type; discarded does not
\* exceed what was produced, which rests on the accounts above.
THEOREM TypeCorrect == Spec => []TypeOK
<1>1. CountInv => TypeOK
  BY LossCounted, Loss2Counted, ManyCounted, BoundedCounted
     DEF CountInv, OrderInv, TypeOK
<1> QED
  BY <1>1, CountInvInitially, CountInvKept, PTL DEF Spec

=============================================================================
