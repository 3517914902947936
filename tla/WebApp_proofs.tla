--------------------------- MODULE WebApp_proofs ---------------------------
(***************************************************************************)
(* The pipeline of a web application, for any requests and any number of   *)
(* calculators: its pointers, its pages, the order of its stops, what is   *)
(* left when its threads are deleted, and that it is an AppService.        *)
(***************************************************************************)
EXTENDS WebApp, CommonLemmas, TLAPS

C == Cardinality(Calculators)

\* The request the analyzer is working on.
Current(r) == analyzer.at \in {"produce", "home"} /\ analyzer.req = r

\* The numbers in the three places they travel through, and in the packages.
Waiting == Range(appQueue) \ {Stop}
InSolution == {calculator[k].number : k \in Calculators} \ {Stop}
Solved == Range(packQueue) \ {Stop}
Packaged == (UNION {Range(packages[id]) : id \in Ids}) \ {Stop}
Made == Waiting \cup InSolution \cup Solved \cup Packaged

\* The requests whose numbers have all been made; each one has used up an id.
Numbered == {r \in submitted : Count[r] > 0 /\ r \notin Range(inbox) /\ ~Current(r)}

\* The package of r is on its way to msg or has been there.
Sent(r) == replies[r] > 0 \/ \E p \in Range(msgQueue) \ {Stop} : p.req = r

Same(n, m) == n.req = m.req /\ n.pos = m.pos

\* No number is in the queue twice.
EachOnce(queue) ==
  \A i, j \in 1..Len(queue) :
    /\ queue[i] # Stop /\ queue[j] # Stop
    /\ Same(queue[i], queue[j])
    => i = j

Filled(slots) == {i \in 1..Len(slots) : slots[i] # Stop}

\* What slots shows is the solved numbers of r, in their order.
ShowsNumbers(slots, r) ==
  \A i \in 1..Count[r] :
    slots[i] # Stop =>
      /\ slots[i].req = r
      /\ slots[i].pos = i - 1
      /\ slots[i].solved

Whole(slots, r) ==
  /\ Count[r] > 0
  /\ Len(slots) = Count[r] + 1
  /\ ShowsNumbers(slots, r)
  /\ \A i \in 1..Count[r] : slots[i] # Stop

-----------------------------------------------------------------------------
(***************************************************************************)
(* The inductive invariant.                                                *)
(***************************************************************************)

\* What a thread's location says of the rest of its state.
Locations ==
  /\ \A r \in Requests : Current(r) => r \in submitted /\ r \notin Range(inbox)
  /\ analyzer.at \in {"produce", "home"} => analyzer.req \in Requests
  /\ analyzer.at = "produce" => analyzer.next < Count[analyzer.req]
  /\ analyzer.at = "home" => Count[analyzer.req] = 0
  /\ \A k \in Calculators :
       calculator[k].at = "solve" <=> calculator[k].number # Stop

\* Each request is in the inbox at most once, and the stop behind them all.
InboxInOrder ==
  /\ Range(inbox) \ {Stop} \subseteq submitted
  /\ \A i, j \in 1..Len(inbox) : inbox[i] = inbox[j] => i = j
  /\ \A i \in 1..Len(inbox) : inbox[i] = Stop => i = Len(inbox)
  /\ open => Stop \notin Range(inbox) /\ analyzer.at \notin {"stop", "done"}
  /\ ~open => (Stop \in Range(inbox) <=> analyzer.at \notin {"stop", "done"})
  /\ analyzer.at \in {"stop", "done"} => inbox = <<>>

\* A request is allocated until the analyzer is done with it, a response until
\* it has been sent.
ObjectsOwned ==
  /\ requestObjs = {r \in submitted : r \in Range(inbox) \/ Current(r)}
  /\ responseObjs = {r \in submitted : replies[r] = 0}

\* ++cont once per request: the ids in use are as many as the requests.
IdsCounted == cont = Cardinality(Numbered)

\* A number is one of its request's, which has one id that no other has.
NumbersMade ==
  /\ \A n \in Made :
       /\ n.total = Count[n.req]
       /\ n.pos < n.total
       /\ n.req \in submitted
       /\ n.req \notin Range(inbox)
       /\ IF Current(n.req) THEN n.id = cont /\ n.pos < analyzer.next
                            ELSE n.id < cont
  /\ \A n, m \in Made : n.req = m.req <=> n.id = m.id
  /\ \A n \in Solved \cup Packaged : n.solved

\* A number is in one place only.
NumbersApart ==
  /\ EachOnce(appQueue) /\ EachOnce(packQueue)
  /\ \A k, l \in Calculators :
       /\ calculator[k].number # Stop /\ calculator[l].number # Stop
       /\ Same(calculator[k].number, calculator[l].number)
       => k = l
  /\ \A n \in Waiting, m \in InSolution : ~Same(n, m)
  /\ \A n \in Waiting, m \in Solved : ~Same(n, m)
  /\ \A n \in InSolution, m \in Solved : ~Same(n, m)
  /\ \A n \in Travelling :
       packages[n.id] # <<>> => packages[n.id][n.pos + 1] = Stop

\* A package has room for its request's numbers and one more, which stays
\* empty; the counter says how many have come, and with the last it is sent.
PackageFits(id, r) ==
  /\ Count[r] > 0
  /\ Len(packages[id]) = Count[r] + 1
  /\ packages[id][Count[r] + 1] = Stop
  /\ ShowsNumbers(packages[id], r)
  /\ \A i \in 1..Count[r] : packages[id][i] # Stop => packages[id][i].id = id
  /\ Filled(packages[id]) # {}
  /\ counters[id] = Cardinality(Filled(packages[id]))
  /\ counters[id] = Count[r] => Sent(r)

PackagesFit ==
  \A id \in Ids : packages[id] # <<>> => \E r \in Requests : PackageFits(id, r)

\* A package is sent once, whole, when no number of its request travels.
SentWhole ==
  /\ \A n \in Travelling : ~Sent(n.req)
  /\ \A r \in Requests :
       r \notin submitted \/ r \in Range(inbox) \/ Current(r) => ~Sent(r)
  /\ \A p \in Range(msgQueue) \ {Stop} : Whole(p.slots, p.req) /\ replies[p.req] = 0
  /\ \A i, j \in 1..Len(msgQueue) :
       /\ msgQueue[i] # Stop /\ msgQueue[j] # Stop
       /\ msgQueue[i].req = msgQueue[j].req
       => i = j

\* A page shows its request; a homepage shows no numbers.
PagesShown ==
  /\ PageShowsRequest
  /\ \A r \in Requests : Count[r] = 0 => page[r] = <<>>

\* Nothing that was asked gets lost.
NothingLost ==
  \A r \in submitted :
    \/ r \in Range(inbox)
    \/ Count[r] = 0 /\ (Current(r) \/ replies[r] > 0)
    \/ /\ Count[r] > 0
       /\ \A p \in 0..(Count[r] - 1) :
            (Current(r) => p < analyzer.next) =>
              \E n \in Made : n.req = r /\ n.pos = p

\* The stops the analyzer has sent wait or have been taken, behind the numbers.
CalculatorsAt(locations) ==
  Cardinality(At(Calculators, [k \in Calculators |-> calculator[k].at], locations))

AnalyzerStops ==
  /\ analyzer.at \notin {"stop", "done"} => analyzer.stops = 0
  /\ analyzer.at = "stop" => analyzer.stops < C
  /\ analyzer.at = "done" => analyzer.stops = C
  /\ analyzer.stops
       = Cardinality(Positions(Stop, appQueue)) + CalculatorsAt({"stop", "done"})
  /\ \A i, j \in 1..Len(appQueue) :
       i < j /\ appQueue[i] = Stop => appQueue[j] = Stop
  /\ \A k \in Calculators :
       calculator[k].at \in {"stop", "done"} => Range(appQueue) \subseteq {Stop}

\* The packer's count of stops and those on their way to it are as many as the
\* calculators that are done; when all are, a stop is the last in its queue.
PackerCounts ==
  /\ packer.stops + Cardinality(Positions(Stop, packQueue)) = CalculatorsAt({"done"})
  /\ packer.at = "take" => packer.stops < C
  /\ packer.at # "take" => packer.stops = C
  /\ (\A k \in Calculators : calculator[k].at = "done") /\ packQueue # <<>> =>
       packQueue[Len(packQueue)] = Stop

\* msg gets its stop behind all the packages.
MsgStopsLast ==
  /\ \A i \in 1..Len(msgQueue) : msgQueue[i] = Stop => i = Len(msgQueue)
  /\ packer.at # "done" => Stop \notin Range(msgQueue) /\ msg = "take"
  /\ packer.at = "done" /\ msg = "take" => Stop \in Range(msgQueue)
  /\ msg = "done" => msgQueue = <<>>

\* A join that has returned has seen its thread end.
JoinsInOrder ==
  /\ joined > 0 => ~open
  /\ \A i \in 0..3 : i < joined => Finished(i)

IInv ==
  /\ TypeOK
  /\ Locations
  /\ InboxInOrder
  /\ ObjectsOwned
  /\ IdsCounted
  /\ NumbersMade
  /\ NumbersApart
  /\ PackagesFit
  /\ SentWhole
  /\ PagesShown
  /\ NothingLost
  /\ AnalyzerStops
  /\ PackerCounts
  /\ MsgStopsLast
  /\ JoinsInOrder

-----------------------------------------------------------------------------
(* Data                                                                    *)

\* A stop is neither a request nor a number nor a package.
LEMMA StopIsItself ==
  Stop \notin Requests /\ Stop \notin Numbers /\ Stop \notin Packages
BY RequestsAssumption, StopAssumption

\* There are calculators, and they can be counted.
LEMMA CalculatorsFinite == C \in Nat \ {0}
BY CalculatorsAssumption, FS_CardinalityType, FS_EmptySet DEF C

\* The numbers under way and in packages are numbers.
LEMMA MadeAreNumbers ==
  ASSUME TypeOK
  PROVE  /\ Waiting \subseteq Numbers /\ InSolution \subseteq Numbers
         /\ Solved \subseteq Numbers /\ Packaged \subseteq Numbers
         /\ Made \subseteq Numbers
         /\ Travelling = Waiting \cup InSolution \cup Solved
         /\ Made = Travelling \cup Packaged
<1>1. Range(appQueue) \subseteq Numbers \cup {Stop}
  BY RangeType DEF TypeOK
<1>2. Range(packQueue) \subseteq Numbers \cup {Stop}
  BY RangeType DEF TypeOK
<1>3. InSolution \subseteq Numbers
  BY DEF TypeOK, CalculatorStates, InSolution
<1>4. \A id \in Ids : Range(packages[id]) \subseteq Numbers \cup {Stop}
  BY RangeType DEF TypeOK
<1>5. Packaged \subseteq Numbers
  BY <1>4 DEF Packaged
<1>6. Travelling = Waiting \cup InSolution \cup Solved
  BY DEF Travelling, Waiting, InSolution, Solved
<1> QED
  BY <1>1, <1>2, <1>3, <1>5, <1>6 DEF Waiting, Solved, Made

\* A filled slot of a package is a number that has been made.
LEMMA SlotIsMade ==
  ASSUME TypeOK, NEW id \in Ids, NEW i \in 1..Len(packages[id]),
         packages[id][i] # Stop
  PROVE  packages[id][i] \in Packaged /\ packages[id][i] \in Made
<1>1. packages[id] \in Seq(Numbers \cup {Stop})
  BY DEF TypeOK
<1>2. packages[id][i] \in Range(packages[id])
  BY <1>1, RangeType
<1> QED
  BY <1>2 DEF Packaged, Made

\* A number that has been packaged fills a slot of a package.
LEMMA PackagedHasSlot ==
  ASSUME TypeOK, NEW n \in Packaged
  PROVE  \E id \in Ids : \E i \in 1..Len(packages[id]) :
           n # Stop /\ packages[id][i] = n
<1>1. PICK id \in Ids : n \in Range(packages[id]) /\ n # Stop
  BY DEF Packaged
<1>2. packages[id] \in Seq(Numbers \cup {Stop})
  BY DEF TypeOK
<1>3. \E i \in 1..Len(packages[id]) : packages[id][i] = n
  BY <1>1, <1>2, RangeType
<1> QED
  BY <1>1, <1>3

\* The requests that are numbered can be counted, and there is an id for one
\* more as long as the analyzer is producing.
LEMMA NumberedFinite ==
  ASSUME TypeOK
  PROVE  /\ IsFiniteSet(Numbered) /\ Cardinality(Numbered) \in Nat
         /\ Cardinality(Requests) \in Nat
         /\ \A r \in Requests \ Numbered :
              /\ Cardinality(Numbered \cup {r}) = Cardinality(Numbered) + 1
              /\ Cardinality(Numbered) + 1 <= Cardinality(Requests)
<1>1. Numbered \subseteq Requests
  BY DEF TypeOK, Numbered
<1>2. IsFiniteSet(Numbered) /\ Cardinality(Numbered) \in Nat
  BY <1>1, RequestsAssumption, FS_Subset, FS_CardinalityType
<1>3. Cardinality(Requests) \in Nat
  BY RequestsAssumption, FS_CardinalityType
<1>4. ASSUME NEW r \in Requests \ Numbered
      PROVE  /\ Cardinality(Numbered \cup {r}) = Cardinality(Numbered) + 1
             /\ Cardinality(Numbered) + 1 <= Cardinality(Requests)
  <2>1. Cardinality(Numbered \cup {r}) = Cardinality(Numbered) + 1
    BY <1>2, FS_AddElement
  <2>2. Numbered \cup {r} \in SUBSET Requests
    BY <1>1
  <2>3. Cardinality(Numbered \cup {r}) <= Cardinality(Requests)
    BY <2>2, RequestsAssumption, FS_Subset
  <2> QED  BY <2>1, <2>3
<1> QED
  BY <1>2, <1>3, <1>4

-----------------------------------------------------------------------------
(* The initial state                                                       *)

\* An application that has just started satisfies the invariant.
LEMMA InitIInv == Init => IInv
<1> SUFFICES ASSUME Init  PROVE IInv
  OBVIOUS
<1>1. /\ Range(inbox) = {} /\ Range(appQueue) = {} /\ Range(packQueue) = {}
      /\ Range(msgQueue) = {} /\ \A id \in Ids : Range(packages[id]) = {}
  <2>1. <<>> \in Seq(Requests)
    OBVIOUS
  <2>2. Range(<<>>) = {}
    BY <2>1, RangeType
  <2> QED
    BY <2>2 DEF Init
<1>2. /\ 0 \in Ids
      /\ Cardinality(Requests) \in Nat
  BY RequestsAssumption, FS_CardinalityType DEF Ids
<1>3. TypeOK
  <2>1. /\ analyzer \in AnalyzerStates
        /\ calculator \in [Calculators -> CalculatorStates]
        /\ packer \in PackerStates
    BY DEF Init, AnalyzerStates, CalculatorStates, PackerStates
  <2>2. /\ packages \in [Ids -> Seq(Numbers \cup {Stop})]
        /\ counters \in [Ids -> Nat] /\ cont \in Ids
        /\ replies \in [Requests -> Nat]
        /\ page \in [Requests -> Seq(Numbers \cup {Stop})]
    BY <1>2 DEF Init
  <2>3. /\ inbox = <<>> /\ appQueue = <<>> /\ packQueue = <<>> /\ msgQueue = <<>>
        /\ alive = TRUE /\ open = TRUE /\ submitted = {} /\ msg = "take"
        /\ requestObjs = {} /\ responseObjs = {} /\ joined = 0
    BY DEF Init
  <2> QED
    BY <2>1, <2>2, <2>3 DEF TypeOK
<1>4. /\ Waiting = {} /\ InSolution = {} /\ Solved = {} /\ Packaged = {}
      /\ Made = {} /\ Travelling = {}
  <2>1. Waiting = {} /\ Solved = {} /\ Packaged = {}
    BY <1>1 DEF Waiting, Solved, Packaged
  <2>2. InSolution = {}
    BY DEF Init, InSolution
  <2> QED
    BY <1>3, <2>1, <2>2, MadeAreNumbers
<1>5. \A r \in Requests : ~Current(r) /\ ~Sent(r)
  BY <1>1 DEF Init, Current, Sent
<1>6. Locations
  BY <1>5 DEF Init, Locations
<1>7. InboxInOrder
  BY <1>1 DEF Init, InboxInOrder
<1>8. ObjectsOwned
  BY DEF Init, ObjectsOwned
<1>9. IdsCounted
  <2>1. Numbered = {}
    BY DEF Init, Numbered
  <2> QED
    BY <2>1, FS_EmptySet DEF Init, IdsCounted
<1>10. NumbersMade
  BY <1>4 DEF NumbersMade
<1>11. NumbersApart
  BY <1>4 DEF Init, NumbersApart, EachOnce
<1>12. PackagesFit
  BY DEF Init, PackagesFit
<1>13. SentWhole
  BY <1>1, <1>4, <1>5 DEF Init, SentWhole
<1>14. PagesShown
  BY DEF Init, PagesShown, PageShowsRequest
<1>15. NothingLost
  BY DEF Init, NothingLost
<1>16. AnalyzerStops /\ PackerCounts
  <2>1. Positions(Stop, appQueue) = {} /\ Positions(Stop, packQueue) = {}
    BY DEF Init, Positions
  <2>2. \A L \in SUBSET {"stop", "done"} :
          At(Calculators, [k \in Calculators |-> calculator[k].at], L) = {}
    BY DEF Init, At
  <2>3. CalculatorsAt({"stop", "done"}) = 0 /\ CalculatorsAt({"done"}) = 0
    BY <2>2, FS_EmptySet DEF CalculatorsAt
  <2>4. 0 < C
    BY CalculatorsFinite
  <2> QED
    <3>1. /\ Cardinality(Positions(Stop, appQueue)) = 0
          /\ Cardinality(Positions(Stop, packQueue)) = 0
      BY <2>1, FS_EmptySet
    <3>2. /\ analyzer.at = "take" /\ analyzer.stops = 0
          /\ packer.at = "take" /\ packer.stops = 0
          /\ appQueue = <<>> /\ packQueue = <<>>
          /\ \A k \in Calculators : calculator[k].at = "take"
      BY DEF Init
    <3>3. AnalyzerStops
      BY <1>1, <2>3, <3>1, <3>2 DEF AnalyzerStops
    <3>4. PackerCounts
      BY <2>3, <2>4, <3>1, <3>2 DEF PackerCounts
    <3> QED  BY <3>3, <3>4
<1>17. MsgStopsLast /\ JoinsInOrder
  BY <1>1 DEF Init, MsgStopsLast, JoinsInOrder
<1> QED
  BY <1>3, <1>6, <1>7, <1>8, <1>9, <1>10, <1>11, <1>12, <1>13, <1>14, <1>15,
     <1>16, <1>17 DEF IInv

-----------------------------------------------------------------------------
(* Packages                                                                *)

\* InsertAt makes room for what it inserts.
LEMMA InsertAtSlots ==
  ASSUME NEW S, NEW s \in Seq(S), NEW p \in 1..Len(s), NEW x \in S
  PROVE  /\ InsertAt(s, p, x) \in Seq(S)
         /\ Len(InsertAt(s, p, x)) = Len(s) + 1
         /\ InsertAt(s, p, x)[p] = x
         /\ \A j \in 1..(Len(s) + 1) :
              /\ j < p => InsertAt(s, p, x)[j] = s[j]
              /\ j > p => InsertAt(s, p, x)[j] = s[j - 1]
<1> DEFINE a == SubSeq(s, 1, p - 1)
           b == SubSeq(s, p, Len(s))
<1>1. Len(s) \in Nat /\ p \in Nat /\ p <= Len(s) /\ p >= 1
  OBVIOUS
<1>2. /\ a \in Seq(S) /\ Len(a) = p - 1
      /\ \A j \in 1..(p - 1) : a[j] = s[j]
  <2>1. \A j \in 1..(p - 1) : s[j] \in S
    BY <1>1
  <2> QED  BY <1>1, <2>1, SubSeqProperties
<1>3. /\ b \in Seq(S) /\ Len(b) = Len(s) - p + 1
      /\ \A j \in 1..(Len(s) - p + 1) : b[j] = s[p + j - 1]
  <2>1. \A j \in p..Len(s) : s[j] \in S
    BY <1>1
  <2> QED  BY <1>1, <2>1, SubSeqProperties
<1>4. InsertAt(s, p, x) = (a \o <<x>>) \o b
  BY DEF InsertAt
<1> HIDE DEF a, b
<1> DEFINE g == a \o <<x>>
<1>5. /\ g \in Seq(S) /\ Len(g) = p
      /\ \A j \in 1..(p - 1) : g[j] = s[j]
      /\ g[p] = x
  BY <1>1, <1>2
<1>6. InsertAt(s, p, x) = g \o b
  BY <1>4
<1> HIDE DEF g
<1>7. /\ g \o b \in Seq(S)
      /\ Len(g \o b) = Len(s) + 1
      /\ \A j \in 1..(Len(s) + 1) :
           (g \o b)[j] = IF j <= p THEN g[j] ELSE b[j - p]
  <2>1. /\ g \o b \in Seq(S) /\ Len(g \o b) = Len(g) + Len(b)
        /\ \A j \in 1..(Len(g) + Len(b)) :
             (g \o b)[j] = IF j <= Len(g) THEN g[j] ELSE b[j - Len(g)]
    BY <1>3, <1>5, ConcatProperties
  <2>2. Len(g) + Len(b) = Len(s) + 1
    BY <1>1, <1>3, <1>5
  <2> QED  BY <1>5, <2>1, <2>2
<1>8. ASSUME NEW j \in 1..(Len(s) + 1)
      PROVE  /\ j < p => (g \o b)[j] = s[j]
             /\ j > p => (g \o b)[j] = s[j - 1]
  <2>1. CASE j < p
    BY <1>1, <1>5, <1>7, <2>1
  <2>2. CASE j > p
    <3>1. j - p \in 1..(Len(s) - p + 1) /\ p + (j - p) - 1 = j - 1
      BY <1>1, <2>2
    <3>2. (g \o b)[j] = b[j - p]
      BY <1>1, <1>7, <2>2
    <3> QED  BY <1>3, <3>1, <3>2, SMTT(20)
  <2> QED  BY <1>1, <2>1, <2>2
<1>9. (g \o b)[p] = x
  BY <1>1, <1>5, <1>7
<1> QED
  BY <1>6, <1>7, <1>8, <1>9

\* What resize() and insert() make of a request's first number to come.
LEMMA NewPackageSlots ==
  ASSUME NEW n \in Numbers, n.pos < n.total
  PROVE  /\ NewPackage(n) \in Seq(Numbers \cup {Stop})
         /\ Len(NewPackage(n)) = n.total + 1
         /\ NewPackage(n)[n.pos + 1] = n
         /\ \A i \in 1..(n.total + 1) : i # n.pos + 1 => NewPackage(n)[i] = Stop
<1> DEFINE s == [i \in 1..n.total |-> Stop]
<1>1. /\ n.total \in Nat /\ n.pos \in Nat
      /\ s \in Seq(Numbers \cup {Stop}) /\ Len(s) = n.total
      /\ \A i \in 1..n.total : s[i] = Stop
  BY DEF Numbers
<1>2. NewPackage(n) = InsertAt(s, n.pos + 1, n)
  BY DEF NewPackage
<1> HIDE DEF s
<1>3. n.pos + 1 \in 1..Len(s)
  BY <1>1
<1>4. /\ NewPackage(n) \in Seq(Numbers \cup {Stop})
      /\ Len(NewPackage(n)) = n.total + 1
      /\ NewPackage(n)[n.pos + 1] = n
      /\ \A j \in 1..(n.total + 1) :
           /\ j < n.pos + 1 => NewPackage(n)[j] = s[j]
           /\ j > n.pos + 1 => NewPackage(n)[j] = s[j - 1]
  <2> DEFINE p == n.pos + 1
             S == Numbers \cup {Stop}
  <2>1. n \in S /\ p \in 1..Len(s) /\ s \in Seq(S)
    BY <1>1, <1>3
  <2> HIDE DEF p, S
  <2>2. /\ InsertAt(s, p, n) \in Seq(S)
        /\ Len(InsertAt(s, p, n)) = Len(s) + 1
        /\ InsertAt(s, p, n)[p] = n
        /\ \A j \in 1..(Len(s) + 1) :
             /\ j < p => InsertAt(s, p, n)[j] = s[j]
             /\ j > p => InsertAt(s, p, n)[j] = s[j - 1]
    BY <2>1, InsertAtSlots
  <2> QED  BY <1>1, <1>2, <2>2 DEF p, S
<1>5. ASSUME NEW i \in 1..(n.total + 1), i # n.pos + 1
      PROVE  NewPackage(n)[i] = Stop
  <2>1. CASE i < n.pos + 1
    BY <1>1, <1>4, <2>1
  <2>2. CASE i > n.pos + 1
    <3>1. i - 1 \in 1..n.total
      BY <1>1, <2>2
    <3> QED  BY <1>1, <1>4, <2>2, <3>1
  <2> QED  BY <1>1, <1>5, <2>1, <2>2
<1> QED
  BY <1>4, <1>5

\* The package of a number's id is that of the number's request.
LEMMA PackageOfNumber ==
  ASSUME IInv, NEW n \in Made, packages[n.id] # <<>>
  PROVE  PackageFits(n.id, n.req)
<1>1. n \in Numbers /\ n.id \in Ids
  BY MadeAreNumbers DEF IInv, Numbers
<1>2. PICK r \in Requests : PackageFits(n.id, r)
  BY <1>1 DEF IInv, PackagesFit
<1>3. PICK i \in 1..Len(packages[n.id]) : packages[n.id][i] # Stop
  BY <1>2 DEF PackageFits, Filled
<1> DEFINE m == packages[n.id][i]
<1>4. Count[r] \in Nat /\ i \in 1..Count[r]
  BY <1>2, <1>3, RequestsAssumption DEF PackageFits
<1>5. m.req = r /\ m.id = n.id
  BY <1>2, <1>3, <1>4 DEF PackageFits, ShowsNumbers
<1>6. m \in Made
  BY <1>1, <1>3, SlotIsMade DEF IInv
<1>7. m.req = n.req
  BY <1>5, <1>6 DEF IInv, NumbersMade
<1> QED
  BY <1>2, <1>5, <1>7

\* What FactPacker::consume() does to the package of a number.
LEMMA PackedSlots ==
  ASSUME IInv, NEW n \in Made
  PROVE  /\ Packed(n) \in Seq(Numbers \cup {Stop})
         /\ Len(Packed(n)) = Count[n.req] + 1
         /\ Count[n.req] \in Nat /\ n.pos + 1 \in 1..Count[n.req]
         /\ Packed(n)[n.pos + 1] = n
         /\ \A i \in 1..(Count[n.req] + 1) :
              i # n.pos + 1 =>
                Packed(n)[i] = IF packages[n.id] = <<>> THEN Stop
                                                        ELSE packages[n.id][i]
<1>1. n \in Numbers /\ n.id \in Ids /\ n.req \in Requests /\ n.pos \in Nat
  BY MadeAreNumbers DEF IInv, Numbers
<1>2. n.pos < n.total /\ n.total = Count[n.req] /\ Count[n.req] \in Nat
  BY <1>1, RequestsAssumption DEF IInv, NumbersMade
<1>3. CASE packages[n.id] = <<>>
  BY <1>1, <1>2, <1>3, NewPackageSlots DEF Packed
<1>4. CASE packages[n.id] # <<>>
  <2>1. PackageFits(n.id, n.req) /\ Len(packages[n.id]) = Count[n.req] + 1
    BY <1>4, PackageOfNumber DEF PackageFits
  <2>2. packages[n.id] \in Seq(Numbers \cup {Stop})
    BY <1>1 DEF IInv, TypeOK
  <2>3. n.pos + 1 \in 1..Len(packages[n.id])
    BY <1>1, <1>2, <2>1
  <2>4. Packed(n) = [packages[n.id] EXCEPT ![n.pos + 1] = n]
    BY <1>4 DEF Packed
  <2> QED
    BY <1>1, <1>2, <2>1, <2>2, <2>3, <2>4, ExceptSeq
<1> QED
  BY <1>3, <1>4


-----------------------------------------------------------------------------
(* Types                                                                   *)

\* What the analyzer produces is one of the numbers of its request.
LEMMA ProducedNumber ==
  ASSUME IInv, analyzer.at = "produce"
  PROVE  /\ analyzer.req \in Requests /\ Current(analyzer.req)
         /\ analyzer.next \in Nat /\ Count[analyzer.req] \in Nat
         /\ analyzer.next < Count[analyzer.req]
         /\ Number(analyzer.req, analyzer.next, cont) \in Numbers
         /\ Cardinality(Numbered \cup {analyzer.req}) = cont + 1
         /\ cont + 1 \in Ids
<1>1. /\ analyzer.req \in Requests /\ Current(analyzer.req)
      /\ analyzer.next \in Nat /\ cont \in Ids
      /\ analyzer.next < Count[analyzer.req]
  BY DEF IInv, TypeOK, AnalyzerStates, Locations, Current
<1>2. Count[analyzer.req] \in Nat
  BY <1>1, RequestsAssumption
<1>3. Number(analyzer.req, analyzer.next, cont) \in Numbers
  BY <1>1, <1>2 DEF Number, Numbers
<1>4. analyzer.req \in Requests \ Numbered
  BY <1>1 DEF Numbered
<1>5. /\ Cardinality(Numbered \cup {analyzer.req}) = cont + 1
      /\ cont + 1 <= Cardinality(Requests)
      /\ Cardinality(Requests) \in Nat
  BY <1>4, NumberedFinite DEF IInv, IdsCounted
<1> QED
  BY <1>1, <1>2, <1>3, <1>5 DEF Ids

\* A calculator that moves leaves the others as they are.
LEMMA CalculatorMove ==
  ASSUME TypeOK, NEW k \in Calculators, NEW state,
         state \in CalculatorStates,
         calculator' = [calculator EXCEPT ![k] = state]
  PROVE  /\ calculator' \in [Calculators -> CalculatorStates]
         /\ calculator'[k] = state
         /\ \A l \in Calculators \ {k} : calculator'[l] = calculator[l]
BY DEF TypeOK

\* The package msg shows belongs to a request and is whole.
LEMMA ShownPackage ==
  ASSUME IInv, msgQueue # <<>>, Head(msgQueue) # Stop
  PROVE  LET p == Head(msgQueue)
         IN  /\ p \in Packages /\ p.req \in Requests
             /\ p \in Range(msgQueue) \ {Stop}
             /\ p.slots \in Seq(Numbers \cup {Stop})
             /\ Whole(p.slots, p.req) /\ replies[p.req] = 0
             /\ Front(p.slots) \in Seq(Numbers \cup {Stop})
             /\ Len(Front(p.slots)) = Count[p.req]
             /\ \A i \in 1..Count[p.req] : Front(p.slots)[i] = p.slots[i]
<1> DEFINE p == Head(msgQueue)
<1>1. p \in Packages /\ p \in Range(msgQueue) \ {Stop}
  BY RangeTail DEF IInv, TypeOK
<1>2. p.req \in Requests /\ p.slots \in Seq(Numbers \cup {Stop})
  BY <1>1 DEF Packages
<1>3. Whole(p.slots, p.req) /\ replies[p.req] = 0
  BY <1>1 DEF IInv, SentWhole
<1> DEFINE slots == p.slots
           c == Count[p.req]
<1>4. c \in Nat /\ Len(slots) = c + 1 /\ slots \in Seq(Numbers \cup {Stop})
  BY <1>2, <1>3, RequestsAssumption DEF Whole
<1>5. Front(slots) = SubSeq(slots, 1, c)
  BY <1>4 DEF Front
<1>6. /\ SubSeq(slots, 1, c) \in Seq(Numbers \cup {Stop})
      /\ Len(SubSeq(slots, 1, c)) = c
      /\ \A i \in 1..c : SubSeq(slots, 1, c)[i] = slots[i]
  <2> HIDE DEF slots, c
  <2>1. \A i \in 1..c : slots[i] \in Numbers \cup {Stop}
    BY <1>4
  <2> QED  BY <1>4, <2>1, SubSeqProperties
<1> QED
  BY <1>1, <1>2, <1>3, <1>5, <1>6

\* Every step keeps the variables in their types.
LEMMA TypeStep ==
  ASSUME IInv, Next
  PROVE  TypeOK'
<1> USE DEF inputVars, analyzerVars, packerVars, heapVars, clientVars
<1>1. TypeOK
  BY DEF IInv
<1>2. ASSUME NEW r \in Requests, Submit(r), UNCHANGED alive  PROVE TypeOK'
  BY <1>1, <1>2, SMTT(20) DEF TypeOK, Submit
<1>3. CASE SubmitStop /\ UNCHANGED alive
  <2>1. inbox \in Seq(Requests \cup {Stop}) /\ inbox' = Append(inbox, Stop)
    BY <1>1, <1>3 DEF TypeOK, SubmitStop
  <2>2. inbox' \in Seq(Requests \cup {Stop})
    BY <2>1
  <2> QED  BY <1>1, <1>3, <2>2 DEF TypeOK, SubmitStop
<1>4. CASE AnalyzerTake
  <2>1. Head(inbox) \in Requests \cup {Stop} /\ Tail(inbox) \in Seq(Requests \cup {Stop})
    BY <1>1, <1>4, RangeTail DEF TypeOK, AnalyzerTake
  <2>2. analyzer' \in AnalyzerStates
    BY <1>4, <2>1 DEF AnalyzerTake, AnalyzerStates
  <2>3. alive' \in BOOLEAN
    BY <1>4 DEF AnalyzerTake
  <2>4. inbox' \in Seq(Requests \cup {Stop})
    BY <1>4, <2>1 DEF AnalyzerTake
  <2> QED  BY <1>1, <1>4, <2>2, <2>3, <2>4 DEF TypeOK, AnalyzerTake
<1>5. CASE AnalyzerProduce /\ UNCHANGED alive
  <2> DEFINE n == Number(analyzer.req, analyzer.next, cont)
  <2>1. /\ n \in Numbers /\ analyzer.next \in Nat
        /\ cont + 1 \in Ids /\ cont \in Ids
    BY <1>1, <1>5, ProducedNumber DEF AnalyzerProduce, TypeOK
  <2>2. /\ appQueue' = Append(appQueue, n)
        /\ analyzer' \in {[analyzer EXCEPT !.at = "take"],
                          [analyzer EXCEPT !.next = @ + 1]}
        /\ requestObjs' \subseteq requestObjs
        /\ cont' \in {cont, cont + 1}
        /\ UNCHANGED <<alive, inputVars, calculator, packQueue, packerVars, msgQueue, msg,
                       responseObjs, clientVars, joined>>
    BY <1>5 DEF AnalyzerProduce
  <2> HIDE DEF n
  <2>3. analyzer' \in AnalyzerStates
    <3>1. analyzer \in AnalyzerStates
      BY <1>1 DEF TypeOK
    <3> QED  BY <2>1, <2>2, <3>1 DEF AnalyzerStates
  <2>4. appQueue' \in Seq(Numbers \cup {Stop})
    BY <1>1, <2>1, <2>2 DEF TypeOK
  <2> QED  BY <1>1, <2>1, <2>2, <2>3, <2>4 DEF TypeOK
<1>6. CASE AnalyzerServeHomepage /\ UNCHANGED alive
  <2>1. analyzer' \in AnalyzerStates
    BY <1>1, <1>6 DEF TypeOK, AnalyzerStates, AnalyzerServeHomepage
  <2>2. replies \in [Requests -> Nat] /\ analyzer.req \in Requests
    BY <1>1, <1>6 DEF IInv, TypeOK, Locations, AnalyzerServeHomepage
  <2>3. replies' \in [Requests -> Nat]
    BY <1>6, <2>2 DEF AnalyzerServeHomepage
  <2> QED  BY <1>1, <1>6, <2>1, <2>3 DEF TypeOK, AnalyzerServeHomepage
<1>7. CASE AnalyzerStop /\ UNCHANGED alive
  <2>1. analyzer \in AnalyzerStates /\ appQueue \in Seq(Numbers \cup {Stop})
    BY <1>1 DEF TypeOK
  <2>2. analyzer' \in AnalyzerStates
    <3> DEFINE location == IF analyzer.stops + 1 = C THEN "done" ELSE "stop"
    <3>1. /\ location \in {"done", "stop"}
          /\ analyzer' = [analyzer EXCEPT !.stops = @ + 1, !.at = location]
      BY <1>7 DEF AnalyzerStop, C
    <3> HIDE DEF location
    <3>2. [analyzer EXCEPT !.stops = @ + 1] \in AnalyzerStates
      BY <2>1 DEF AnalyzerStates
    <3>3. analyzer' = [[analyzer EXCEPT !.stops = @ + 1] EXCEPT !.at = location]
      BY <3>1
    <3> QED  BY <3>1, <3>2, <3>3 DEF AnalyzerStates
  <2>3. appQueue' \in Seq(Numbers \cup {Stop})
    BY <1>7, <2>1 DEF AnalyzerStop
  <2> QED  BY <1>1, <1>7, <2>2, <2>3 DEF TypeOK, AnalyzerStop
<1>8. ASSUME NEW k \in Calculators, CalculatorTake(k), UNCHANGED alive  PROVE TypeOK'
  <2>1. /\ Head(appQueue) \in Numbers \cup {Stop}
        /\ Tail(appQueue) \in Seq(Numbers \cup {Stop})
    BY <1>1, <1>8, RangeTail DEF TypeOK, CalculatorTake
  <2>2. [at |-> IF Head(appQueue) = Stop THEN "stop" ELSE "solve",
         number |-> Head(appQueue)] \in CalculatorStates
    BY <2>1 DEF CalculatorStates
  <2>3. calculator' \in [Calculators -> CalculatorStates]
    BY <1>1, <1>8, <2>2, CalculatorMove DEF CalculatorTake
  <2> QED  BY <1>1, <1>8, <2>1, <2>3 DEF TypeOK, CalculatorTake
<1>9. ASSUME NEW k \in Calculators, CalculatorSolve(k), UNCHANGED alive  PROVE TypeOK'
  <2>1. calculator[k].number \in Numbers
    BY <1>9 DEF IInv, TypeOK, CalculatorStates, Locations, CalculatorSolve
  <2>2. [calculator[k].number EXCEPT !.solved = TRUE] \in Numbers
    BY <2>1 DEF Numbers
  <2>3. packQueue' \in Seq(Numbers \cup {Stop})
    BY <1>1, <1>9, <2>2 DEF TypeOK, CalculatorSolve
  <2>4. calculator' \in [Calculators -> CalculatorStates]
    BY <1>1, <1>9 DEF TypeOK, CalculatorStates, CalculatorSolve
  <2> QED  BY <1>1, <1>9, <2>3, <2>4 DEF TypeOK, CalculatorSolve
<1>10. ASSUME NEW k \in Calculators, CalculatorStop(k), UNCHANGED alive  PROVE TypeOK'
  <2>1. calculator' \in [Calculators -> CalculatorStates]
    BY <1>1, <1>10 DEF TypeOK, CalculatorStates, CalculatorStop
  <2> QED  BY <1>1, <1>10, <2>1, SMTT(20) DEF TypeOK, CalculatorStop
<1>11. CASE PackerPack /\ UNCHANGED alive
  <2> DEFINE n == Head(packQueue)
  <2>1. n \in Made /\ n \in Numbers /\ Tail(packQueue) \in Seq(Numbers \cup {Stop})
    BY <1>1, <1>11, RangeTail DEF TypeOK, PackerPack, Made, Solved
  <2>2. n.id \in Ids /\ n.req \in Requests
    BY <2>1 DEF Numbers
  <2>3. Packed(n) \in Seq(Numbers \cup {Stop})
    BY <2>1, PackedSlots
  <2>4. Arrived(n) \in Nat
    BY <1>1, <2>2 DEF TypeOK, Arrived
  <2>5. [req |-> n.req, slots |-> Packed(n)] \in Packages
    BY <2>2, <2>3 DEF Packages
  <2>6. /\ packages' = [packages EXCEPT ![n.id] = Packed(n)]
        /\ counters' = [counters EXCEPT ![n.id] = Arrived(n)]
        /\ msgQueue' \in {msgQueue, Append(msgQueue, [req |-> n.req, slots |-> Packed(n)])}
        /\ packQueue' = Tail(packQueue)
    BY <1>11 DEF PackerPack
  <2> HIDE DEF n
  <2>7. /\ packages' \in [Ids -> Seq(Numbers \cup {Stop})]
        /\ counters' \in [Ids -> Nat]
    BY <1>1, <2>2, <2>3, <2>4, <2>6 DEF TypeOK
  <2>8. msgQueue' \in Seq(Packages \cup {Stop})
    <3>1. msgQueue \in Seq(Packages \cup {Stop})
      BY <1>1 DEF TypeOK
    <3> QED  BY <2>5, <2>6, <3>1
  <2> QED  BY <1>1, <1>11, <2>1, <2>6, <2>7, <2>8 DEF TypeOK, PackerPack
<1>12. CASE PackerCountStop /\ UNCHANGED alive
  <2>1. packer' \in PackerStates
    BY <1>1, <1>12 DEF TypeOK, PackerStates, PackerCountStop
  <2> QED  BY <1>1, <1>12, <2>1 DEF TypeOK, PackerCountStop
<1>13. CASE PackerStop /\ UNCHANGED alive
  <2>1. packer' \in PackerStates
    BY <1>1, <1>13 DEF TypeOK, PackerStates, PackerStop
  <2> QED  BY <1>1, <1>13, <2>1, SMTT(20) DEF TypeOK, PackerStop
<1>14. CASE MsgShow /\ UNCHANGED alive
  <2> DEFINE p == Head(msgQueue)
  <2>1. p.req \in Requests /\ Front(p.slots) \in Seq(Numbers \cup {Stop})
    BY <1>14, ShownPackage DEF MsgShow
  <2>2. /\ page' = [page EXCEPT ![p.req] = Front(p.slots)]
        /\ replies' = [replies EXCEPT ![p.req] = @ + 1]
        /\ responseObjs' = responseObjs \ {p.req}
        /\ msgQueue' = Tail(msgQueue) /\ msgQueue # <<>>
    BY <1>14 DEF MsgShow
  <2> HIDE DEF p
  <2>3. /\ page' \in [Requests -> Seq(Numbers \cup {Stop})]
        /\ replies' \in [Requests -> Nat]
        /\ responseObjs' \subseteq Requests
        /\ msgQueue' \in Seq(Packages \cup {Stop})
    BY <1>1, <2>1, <2>2, SMTT(20) DEF TypeOK
  <2> QED  BY <1>1, <1>14, <2>3 DEF TypeOK, MsgShow
<1>15. CASE MsgStop /\ UNCHANGED alive
  BY <1>1, <1>15, SMTT(20) DEF TypeOK, MsgStop
<1>16. CASE Join /\ UNCHANGED alive
  BY <1>1, <1>16 DEF TypeOK, Join
<1> QED
  BY <1>2, <1>3, <1>4, <1>5, <1>6, <1>7, <1>8, <1>9, <1>10, <1>11, <1>12,
     <1>13, <1>14, <1>15, <1>16
     DEF Next, Steps, AnalyzerSteps, CalculatorSteps, PackerSteps, MsgSteps

-----------------------------------------------------------------------------
(* Requests and their objects                                              *)

\* A step that leaves the requests and what was answered alone.
LEMMA RequestsFrame ==
  ASSUME IInv,
         UNCHANGED <<inbox, open, submitted, analyzer, cont, requestObjs,
                     responseObjs, replies>>
  PROVE  InboxInOrder' /\ ObjectsOwned' /\ IdsCounted'
<1>1. Numbered' = Numbered
  BY DEF Numbered, Current
<1> QED
  BY <1>1 DEF IInv, InboxInOrder, ObjectsOwned, IdsCounted, Current

\* The dispatcher sends a request: one that is new.
LEMMA SubmitRequests ==
  ASSUME IInv, NEW r \in Requests, Submit(r)
  PROVE  /\ Range(inbox)' = Range(inbox) \cup {r}
         /\ InboxInOrder' /\ ObjectsOwned' /\ IdsCounted'
<1>1. /\ inbox \in Seq(Requests \cup {Stop}) /\ inbox' = Append(inbox, r)
      /\ submitted' = submitted \cup {r} /\ r \notin submitted
      /\ open /\ open' = open /\ r # Stop
      /\ UNCHANGED <<analyzer, cont, replies>>
  BY StopIsItself DEF IInv, TypeOK, Submit, analyzerVars, clientVars
<1>2. /\ Range(inbox)' = Range(inbox) \cup {r}
      /\ Len(inbox') = Len(inbox) + 1 /\ Len(inbox) \in Nat
      /\ \A i \in 1..Len(inbox) : inbox'[i] = inbox[i] /\ inbox[i] \in Range(inbox)
      /\ inbox'[Len(inbox) + 1] = r
  BY <1>1, RangeAppend, RangeType
<1>3. r \notin Range(inbox) /\ Stop \notin Range(inbox)
  BY <1>1 DEF IInv, InboxInOrder
<1>4. InboxInOrder'
  <2>1. \A i, j \in 1..Len(inbox') : inbox'[i] = inbox'[j] => i = j
    BY <1>2, <1>3 DEF IInv, InboxInOrder
  <2>2. \A i \in 1..Len(inbox') : inbox'[i] = Stop => i = Len(inbox')
    BY <1>1, <1>2, <1>3
  <2> QED
    BY <1>1, <1>2, <2>1, <2>2 DEF IInv, InboxInOrder
<1>5. \A s \in Requests : Current(s)' <=> Current(s)
  BY <1>1 DEF Current
<1>6. ~Current(r) /\ replies[r] = 0 /\ submitted \subseteq Requests
  BY <1>1 DEF IInv, TypeOK, Locations, SentWhole, Sent
<1>7. ObjectsOwned'
  <2>1. requestObjs' = requestObjs \cup {r} /\ responseObjs' = responseObjs \cup {r}
    BY DEF Submit
  <2> QED
    BY <1>1, <1>2, <1>5, <1>6, <2>1 DEF IInv, ObjectsOwned, Current
<1>8. Numbered' = Numbered
  BY <1>1, <1>2, <1>5, <1>6 DEF Numbered, Current
<1> QED
  BY <1>1, <1>2, <1>4, <1>7, <1>8 DEF IInv, IdsCounted

\* The dispatcher sends its stop, the last in the inbox.
LEMMA SubmitStopRequests ==
  ASSUME IInv, SubmitStop
  PROVE  /\ Range(inbox)' = Range(inbox) \cup {Stop}
         /\ InboxInOrder' /\ ObjectsOwned' /\ IdsCounted'
<1>1. /\ inbox \in Seq(Requests \cup {Stop}) /\ inbox' = Append(inbox, Stop)
      /\ open /\ ~open'
      /\ UNCHANGED <<submitted, analyzer, cont, replies, requestObjs, responseObjs>>
  BY DEF IInv, TypeOK, SubmitStop, analyzerVars, clientVars, heapVars
<1>2. /\ Range(inbox)' = Range(inbox) \cup {Stop}
      /\ Len(inbox') = Len(inbox) + 1 /\ Len(inbox) \in Nat
      /\ \A i \in 1..Len(inbox) : inbox'[i] = inbox[i] /\ inbox[i] \in Range(inbox)
      /\ inbox'[Len(inbox) + 1] = Stop
  BY <1>1, RangeAppend, RangeType
<1>3. Stop \notin Range(inbox) /\ Stop \notin submitted
  BY <1>1, StopIsItself DEF IInv, TypeOK, InboxInOrder
<1>4. InboxInOrder'
  <2>1. \A i, j \in 1..Len(inbox') : inbox'[i] = inbox'[j] => i = j
    BY <1>2, <1>3 DEF IInv, InboxInOrder
  <2>2. \A i \in 1..Len(inbox') : inbox'[i] = Stop => i = Len(inbox')
    BY <1>1, <1>2, <1>3
  <2> QED
    BY <1>1, <1>2, <2>1, <2>2 DEF IInv, InboxInOrder
<1>5. ObjectsOwned'
  BY <1>1, <1>2, <1>3 DEF IInv, ObjectsOwned, Current
<1>6. Numbered' = Numbered
  BY <1>1, <1>2, <1>3 DEF Numbered, Current
<1> QED
  BY <1>1, <1>2, <1>4, <1>5, <1>6 DEF IInv, IdsCounted

\* The analyzer takes what comes first.
LEMMA TakeRequests ==
  ASSUME IInv, AnalyzerTake
  PROVE  /\ \A r \in Requests :
              /\ ~Current(r)
              /\ Current(r)' <=> r = Head(inbox)
              /\ r \in Range(inbox)' <=> r \in Range(inbox) /\ r # Head(inbox)
         /\ Head(inbox) \in Range(inbox)
         /\ Head(inbox) = Stop <=> analyzer'.at = "stop"
         /\ Head(inbox) # Stop => Head(inbox) \in submitted
         /\ InboxInOrder' /\ ObjectsOwned' /\ IdsCounted'
<1> DEFINE head == Head(inbox)
<1>1. /\ inbox \in Seq(Requests \cup {Stop}) /\ inbox # <<>> /\ inbox' = Tail(inbox)
      /\ analyzer.at = "take"
      /\ UNCHANGED <<submitted, open, cont, replies, requestObjs, responseObjs>>
  BY DEF IInv, TypeOK, AnalyzerTake, heapVars, clientVars
<1>2. /\ analyzer'.at = IF head = Stop THEN "stop"
                        ELSE IF Count[head] > 0 THEN "produce" ELSE "home"
      /\ head # Stop => analyzer'.req = head
  BY DEF AnalyzerTake
<1>3. /\ head \in Requests \cup {Stop} /\ head = inbox[1]
      /\ Len(inbox) \in Nat \ {0} /\ Len(inbox') = Len(inbox) - 1
      /\ \A i \in 1..Len(inbox') : inbox'[i] = inbox[i + 1]
      /\ Range(inbox) = {head} \cup Range(inbox')
      /\ inbox' \in Seq(Requests \cup {Stop})
  BY <1>1, RangeTail
<1>4. head \notin Range(inbox')
  <2>1. \A i \in 1..Len(inbox') : inbox'[i] # head
    BY <1>3 DEF IInv, InboxInOrder
  <2> QED  BY <1>3, <2>1, RangeType
<1>5. head = Stop => inbox' = <<>>
  BY <1>3 DEF IInv, InboxInOrder
<1>6. head # Stop => head \in submitted /\ head \in Requests
  BY <1>3 DEF IInv, TypeOK, InboxInOrder
<1> HIDE DEF head
<1>7. \A r \in Requests :
        /\ ~Current(r)
        /\ Current(r)' <=> r = head
        /\ r \in Range(inbox)' <=> r \in Range(inbox) /\ r # head
  BY <1>1, <1>2, <1>3, <1>4, <1>6, StopIsItself DEF Current
<1>8. InboxInOrder'
  <2>1. Range(inbox') = Range(inbox) \ {head}
    BY <1>3, <1>4
  <2>2. \A i, j \in 1..Len(inbox') : inbox'[i] = inbox'[j] => i = j
    BY <1>3 DEF IInv, InboxInOrder
  <2>3. \A i \in 1..Len(inbox') : inbox'[i] = Stop => i = Len(inbox')
    BY <1>3 DEF IInv, InboxInOrder
  <2>4. open' => Stop \notin Range(inbox') /\ analyzer'.at \notin {"stop", "done"}
    BY <1>1, <1>2, <1>3, <2>1 DEF IInv, InboxInOrder
  <2>5. ~open' => (Stop \in Range(inbox') <=> analyzer'.at \notin {"stop", "done"})
    BY <1>1, <1>2, <1>3, <2>1 DEF IInv, InboxInOrder
  <2>6. analyzer'.at \in {"stop", "done"} => inbox' = <<>>
    BY <1>2, <1>5
  <2> QED
    BY <1>1, <2>1, <2>2, <2>3, <2>4, <2>5, <2>6 DEF IInv, InboxInOrder
<1>9. submitted \subseteq Requests
  BY DEF IInv, TypeOK
<1>10. ObjectsOwned'
  <2>1. \A r \in Requests : r \in Range(inbox)' \/ Current(r)'
                              <=> r \in Range(inbox) \/ Current(r)
    BY <1>3, <1>7
  <2> QED
    BY <1>1, <1>9, <2>1 DEF IInv, ObjectsOwned, Current
<1>11. Numbered' = Numbered
  <2>1. \A r \in Requests : r \notin Range(inbox)' /\ ~Current(r)'
                              <=> r \notin Range(inbox) /\ ~Current(r)
    BY <1>3, <1>7
  <2> QED
    BY <1>1, <1>9, <2>1 DEF Numbered, Current
<1>12. IdsCounted'
  BY <1>1, <1>11 DEF IInv, IdsCounted
<1> QED
  BY <1>2, <1>3, <1>6, <1>7, <1>8, <1>10, <1>12 DEF head

\* The analyzer has made a number; with the last one the request is deleted and
\* its id is used up.
LEMMA ProduceRequests ==
  ASSUME IInv, AnalyzerProduce
  PROVE  InboxInOrder' /\ ObjectsOwned' /\ IdsCounted'
<1> DEFINE r == analyzer.req
           last == analyzer.next + 1 = Count[r]
<1>1. /\ analyzer' = IF last THEN [analyzer EXCEPT !.at = "take"]
                             ELSE [analyzer EXCEPT !.next = @ + 1]
      /\ requestObjs' = IF last THEN requestObjs \ {r} ELSE requestObjs
      /\ cont' = IF last THEN cont + 1 ELSE cont
      /\ analyzer.at = "produce"
      /\ UNCHANGED <<inbox, open, submitted, responseObjs, replies>>
  BY DEF AnalyzerProduce, inputVars, clientVars
<1>2. /\ r \in Requests /\ Current(r) /\ r \in submitted /\ r \notin Range(inbox)
      /\ Count[r] > 0 /\ Cardinality(Numbered \cup {r}) = cont + 1
  BY <1>1, ProducedNumber DEF IInv, Locations
<1>3. analyzer \in AnalyzerStates
  BY DEF IInv, TypeOK
<1> HIDE DEF r, last
<1>4. /\ analyzer'.at = IF last THEN "take" ELSE "produce"
      /\ analyzer'.req = r
  BY <1>1, <1>3 DEF AnalyzerStates, r
<1>5. \A s : Current(s)' <=> s = r /\ ~last
  BY <1>4 DEF Current
<1>6. \A s : Current(s) <=> s = r
  BY <1>1 DEF Current, r
<1>7. InboxInOrder'
  BY <1>1, <1>4 DEF IInv, InboxInOrder
<1>8. ObjectsOwned'
  BY <1>1, <1>2, <1>5, <1>6 DEF IInv, ObjectsOwned
<1>9. IdsCounted'
  <2>1. Numbered' = IF last THEN Numbered \cup {r} ELSE Numbered
    BY <1>1, <1>2, <1>5, <1>6 DEF Numbered
  <2> QED
    BY <1>1, <1>2, <2>1 DEF IInv, IdsCounted
<1> QED
  BY <1>7, <1>8, <1>9

\* The homepage is served, its request and response are deleted.
LEMMA HomepageRequests ==
  ASSUME IInv, AnalyzerServeHomepage
  PROVE  InboxInOrder' /\ ObjectsOwned' /\ IdsCounted'
<1> DEFINE r == analyzer.req
<1>1. /\ r \in Requests /\ analyzer.at = "home" /\ Count[r] = 0
      /\ analyzer'.at = "take"
      /\ requestObjs' = requestObjs \ {r} /\ responseObjs' = responseObjs \ {r}
      /\ replies' = [replies EXCEPT ![r] = @ + 1]
      /\ UNCHANGED <<inbox, open, submitted, cont>>
  BY DEF IInv, TypeOK, AnalyzerStates, Locations, AnalyzerServeHomepage, inputVars
<1>2. /\ r \in submitted /\ r \notin Range(inbox) /\ submitted \subseteq Requests
      /\ replies \in [Requests -> Nat]
  BY <1>1 DEF IInv, TypeOK, Locations, Current
<1>3. \A s : ~Current(s)' /\ (Current(s) <=> s = r)
  BY <1>1 DEF Current
<1> HIDE DEF r
<1>4. \A s \in Requests : replies'[s] = IF s = r THEN replies[r] + 1 ELSE replies[s]
  BY <1>1, <1>2
<1>5. InboxInOrder'
  <2>1. analyzer.at \notin {"stop", "done"} /\ analyzer'.at \notin {"stop", "done"}
    BY <1>1
  <2> QED  BY <1>1, <2>1 DEF IInv, InboxInOrder
<1>6. ObjectsOwned'
  <2>1. requestObjs' = {s \in submitted : s \in Range(inbox) \/ Current(s)'}
    BY <1>1, <1>2, <1>3 DEF IInv, ObjectsOwned
  <2>2. replies[r] + 1 # 0
    BY <1>1, <1>2
  <2>3. responseObjs' = {s \in submitted : replies'[s] = 0}
    BY <1>1, <1>2, <1>4, <2>2 DEF IInv, ObjectsOwned
  <2> QED  BY <1>1, <2>1, <2>3 DEF ObjectsOwned
<1>7. Numbered' = Numbered
  BY <1>1, <1>2, <1>3 DEF Numbered
<1> QED
  BY <1>1, <1>5, <1>6, <1>7 DEF IInv, IdsCounted

\* The analyzer sends a stop; it is not working on any request.
LEMMA StopRequests ==
  ASSUME IInv, AnalyzerStop
  PROVE  /\ \A r : ~Current(r) /\ ~Current(r)'
         /\ InboxInOrder' /\ ObjectsOwned' /\ IdsCounted'
<1>1. /\ analyzer.at = "stop" /\ analyzer'.at \in {"stop", "done"}
      /\ UNCHANGED <<inbox, open, submitted, cont, requestObjs, responseObjs, replies>>
  <2>1. analyzer \in AnalyzerStates
    BY DEF IInv, TypeOK
  <2> DEFINE location == IF analyzer.stops + 1 = C THEN "done" ELSE "stop"
  <2>2. analyzer' = [[analyzer EXCEPT !.stops = @ + 1] EXCEPT !.at = location]
    BY DEF AnalyzerStop, C
  <2>3. location \in {"stop", "done"}
    OBVIOUS
  <2> HIDE DEF location
  <2>4. analyzer'.at = location
    BY <2>1, <2>2 DEF AnalyzerStates
  <2> QED
    BY <2>3, <2>4 DEF AnalyzerStop, inputVars, heapVars, clientVars
<1>2. \A r : ~Current(r) /\ ~Current(r)'
  BY <1>1 DEF Current
<1>3. Numbered' = Numbered
  BY <1>1, <1>2 DEF Numbered
<1> QED
  BY <1>1, <1>2, <1>3 DEF IInv, InboxInOrder, ObjectsOwned, IdsCounted

\* msg deletes the response of the request it has answered.
LEMMA ShowRequests ==
  ASSUME IInv, MsgShow
  PROVE  InboxInOrder' /\ ObjectsOwned' /\ IdsCounted'
<1> DEFINE r == Head(msgQueue).req
<1>1. /\ r \in Requests
      /\ replies' = [replies EXCEPT ![r] = @ + 1]
      /\ responseObjs' = responseObjs \ {r}
      /\ UNCHANGED <<inbox, open, submitted, analyzer, cont, requestObjs>>
  BY ShownPackage DEF MsgShow, inputVars, analyzerVars
<1> HIDE DEF r
<1>2. replies \in [Requests -> Nat] /\ submitted \subseteq Requests
  BY DEF IInv, TypeOK
<1>3. Numbered' = Numbered
  BY <1>1 DEF Numbered, Current
<1>4. responseObjs' = {s \in submitted : replies'[s] = 0}
  BY <1>1, <1>2 DEF IInv, ObjectsOwned
<1> QED
  BY <1>1, <1>3, <1>4 DEF IInv, InboxInOrder, ObjectsOwned, IdsCounted, Current

\* The state of a thread fits its location after every step.
LEMMA LocationsStep ==
  ASSUME IInv, Next
  PROVE  Locations'
<1> USE DEF inputVars, analyzerVars, packerVars, heapVars, clientVars
<1>1. IInv /\ Locations /\ TypeOK
  BY DEF IInv
<1>2. ASSUME UNCHANGED <<inbox, submitted, analyzer, calculator>>
      PROVE  Locations'
  BY <1>1, <1>2 DEF Locations, Current
<1>3. ASSUME UNCHANGED <<inbox, submitted, analyzer>>,
             NEW k \in Calculators, NEW state \in CalculatorStates,
             calculator' = [calculator EXCEPT ![k] = state],
             state.at = "solve" <=> state.number # Stop
      PROVE  Locations'
  <2>1. \A l \in Calculators :
          calculator'[l].at = "solve" <=> calculator'[l].number # Stop
    BY <1>1, <1>3, CalculatorMove DEF Locations
  <2> QED  BY <1>1, <1>3, <2>1 DEF Locations, Current
<1>4. ASSUME NEW r \in Requests, Submit(r)  PROVE Locations'
  <2>1. /\ Range(inbox)' = Range(inbox) \cup {r}
        /\ submitted' = submitted \cup {r} /\ r \notin submitted
        /\ UNCHANGED <<analyzer, calculator>>
    BY <1>1, <1>4, SubmitRequests DEF Submit
  <2> QED  BY <1>1, <2>1 DEF Locations, Current
<1>5. CASE SubmitStop
  <2>1. /\ Range(inbox)' = Range(inbox) \cup {Stop}
        /\ UNCHANGED <<submitted, analyzer, calculator>>
    BY <1>1, <1>5, SubmitStopRequests DEF SubmitStop
  <2> QED  BY <1>1, <2>1, StopIsItself DEF Locations, Current
<1>6. CASE AnalyzerTake
  <2> DEFINE head == Head(inbox)
  <2>1. /\ \A r \in Requests : Current(r)' => r \in submitted /\ r \notin Range(inbox)'
        /\ head = Stop \/ head \in submitted
    <3>1. /\ \A r \in Requests :
               /\ Current(r)' <=> r = Head(inbox)
               /\ r \in Range(inbox)' <=> r \in Range(inbox) /\ r # Head(inbox)
          /\ Head(inbox) # Stop => Head(inbox) \in submitted
      BY <1>1, <1>6, TakeRequests
    <3> QED  BY <3>1, StopIsItself
  <2>2. /\ analyzer'.at = IF head = Stop THEN "stop"
                          ELSE IF Count[head] > 0 THEN "produce" ELSE "home"
        /\ analyzer'.next = 0
        /\ head # Stop => analyzer'.req = head
        /\ UNCHANGED <<submitted, calculator>>
    BY <1>6 DEF AnalyzerTake
  <2> HIDE DEF head
  <2>3. head # Stop => head \in Requests /\ Count[head] \in Nat
    BY <1>1, <2>1, RequestsAssumption DEF TypeOK
  <2> QED  BY <1>1, <2>1, <2>2, <2>3 DEF Locations
<1>7. CASE AnalyzerProduce
  <2> DEFINE last == analyzer.next + 1 = Count[analyzer.req]
  <2>1. /\ analyzer' = IF last THEN [analyzer EXCEPT !.at = "take"]
                               ELSE [analyzer EXCEPT !.next = @ + 1]
        /\ analyzer.at = "produce"
        /\ UNCHANGED <<inbox, submitted, calculator>>
    BY <1>7 DEF AnalyzerProduce
  <2>2. analyzer \in AnalyzerStates /\ analyzer.next \in Nat
        /\ Count[analyzer.req] \in Nat /\ analyzer.next < Count[analyzer.req]
    BY <1>1, <2>1, ProducedNumber DEF TypeOK
  <2>3. ~last => analyzer.next + 1 < Count[analyzer.req]
    BY <2>2
  <2> HIDE DEF last
  <2>4. /\ analyzer'.at = IF last THEN "take" ELSE "produce"
        /\ analyzer'.req = analyzer.req
        /\ ~last => analyzer'.next = analyzer.next + 1
    BY <2>1, <2>2 DEF AnalyzerStates
  <2> QED  BY <1>1, <2>1, <2>3, <2>4 DEF Locations, Current
<1>8. CASE AnalyzerServeHomepage
  <2>1. analyzer'.at = "take" /\ UNCHANGED <<inbox, submitted, calculator>>
    BY <1>1, <1>8 DEF TypeOK, AnalyzerStates, AnalyzerServeHomepage
  <2> QED  BY <1>1, <2>1 DEF Locations, Current
<1>9. CASE AnalyzerStop
  <2>1. /\ \A r : ~Current(r)'
        /\ UNCHANGED <<inbox, submitted, calculator>>
        /\ analyzer'.at \notin {"produce", "home"}
    <3>1. \A r : ~Current(r)'
      BY <1>1, <1>9, StopRequests
    <3>2. ~Current(analyzer.req)'
      BY <3>1
    <3> QED  BY <1>9, <3>1 DEF AnalyzerStop, Current
  <2> QED  BY <1>1, <2>1 DEF Locations
<1>10. ASSUME NEW k \in Calculators, CalculatorTake(k)  PROVE Locations'
  <2> DEFINE state == [at |-> IF Head(appQueue) = Stop THEN "stop" ELSE "solve",
                       number |-> Head(appQueue)]
  <2>1. Head(appQueue) \in Numbers \cup {Stop}
    BY <1>1, <1>10, RangeTail DEF TypeOK, CalculatorTake
  <2>2. /\ state \in CalculatorStates
        /\ state.at = "solve" <=> state.number # Stop
    BY <2>1 DEF CalculatorStates
  <2>3. /\ calculator' = [calculator EXCEPT ![k] = state]
        /\ UNCHANGED <<inbox, submitted, analyzer>>
    BY <1>10 DEF CalculatorTake
  <2> QED  BY <1>3, <2>2, <2>3
<1>11. ASSUME NEW k \in Calculators, CalculatorSolve(k)  PROVE Locations'
  <2> DEFINE state == [at |-> "take", number |-> Stop]
  <2>1. /\ state \in CalculatorStates
        /\ state.at = "solve" <=> state.number # Stop
    BY DEF CalculatorStates
  <2>2. /\ calculator' = [calculator EXCEPT ![k] = state]
        /\ UNCHANGED <<inbox, submitted, analyzer>>
    BY <1>11 DEF CalculatorSolve
  <2> QED  BY <1>3, <2>1, <2>2
<1>12. ASSUME NEW k \in Calculators, CalculatorStop(k)  PROVE Locations'
  <2> DEFINE state == [calculator[k] EXCEPT !.at = "done"]
  <2>1. calculator[k] \in CalculatorStates /\ calculator[k].at = "stop"
    BY <1>1, <1>12 DEF TypeOK, CalculatorStop
  <2>2. calculator[k].number = Stop
    BY <1>1, <2>1 DEF Locations
  <2>3. /\ state \in CalculatorStates
        /\ state.at = "solve" <=> state.number # Stop
    BY <2>1, <2>2 DEF CalculatorStates
  <2>4. /\ calculator' = [calculator EXCEPT ![k] = state]
        /\ UNCHANGED <<inbox, submitted, analyzer>>
    BY <1>12 DEF CalculatorStop
  <2> QED  BY <1>3, <2>3, <2>4
<1>13. CASE PackerSteps
  BY <1>2, <1>13 DEF PackerSteps, PackerPack, PackerCountStop, PackerStop
<1>14. CASE MsgSteps
  BY <1>2, <1>14 DEF MsgSteps, MsgShow, MsgStop
<1>15. CASE Join
  BY <1>2, <1>15 DEF Join
<1> QED
  BY <1>4, <1>5, <1>6, <1>7, <1>8, <1>9, <1>10, <1>11, <1>12, <1>13, <1>14, <1>15
     DEF Next, Steps, AnalyzerSteps, CalculatorSteps

\* The requests, their objects and their ids after every step.
LEMMA RequestsStep ==
  ASSUME IInv, Next
  PROVE  InboxInOrder' /\ ObjectsOwned' /\ IdsCounted'
<1> USE DEF inputVars, analyzerVars, packerVars, heapVars, clientVars
<1>1. CASE \E r \in Requests : Submit(r)
  BY <1>1, SubmitRequests
<1>2. CASE SubmitStop
  BY <1>2, SubmitStopRequests
<1>3. CASE AnalyzerTake
  BY <1>3, TakeRequests
<1>4. CASE AnalyzerSteps
  BY <1>4, ProduceRequests, HomepageRequests, StopRequests DEF AnalyzerSteps
<1>5. CASE \E k \in Calculators : CalculatorSteps(k)
  <2>1. PICK k \in Calculators : CalculatorSteps(k)
    BY <1>5
  <2> QED
    BY <2>1, RequestsFrame
       DEF CalculatorSteps, CalculatorTake, CalculatorSolve, CalculatorStop
<1>6. CASE PackerSteps
  BY <1>6, RequestsFrame DEF PackerSteps, PackerPack, PackerCountStop, PackerStop
<1>7. CASE MsgSteps
  <2>1. CASE MsgShow
    BY <2>1, ShowRequests
  <2>2. CASE MsgStop
    BY <2>2, RequestsFrame DEF MsgStop
  <2> QED  BY <1>7, <2>1, <2>2 DEF MsgSteps
<1>8. CASE Join
  BY <1>8, RequestsFrame DEF Join
<1> QED
  BY <1>1, <1>2, <1>3, <1>4, <1>5, <1>6, <1>7, <1>8 DEF Next, Steps

-----------------------------------------------------------------------------
(* The numbers under way and the packages                                  *)

NumbersInv ==
  /\ NumbersMade /\ NumbersApart /\ PackagesFit
  /\ SentWhole /\ PagesShown /\ NothingLost

\* A queue gets a stop or a number that is not in it.
LEMMA EachOnceAppend ==
  ASSUME NEW q \in Seq(Numbers \cup {Stop}), NEW x \in Numbers \cup {Stop},
         EachOnce(q),
         x = Stop \/ \A m \in Range(q) \ {Stop} : ~Same(m, x)
  PROVE  EachOnce(Append(q, x))
<1> DEFINE a == Append(q, x)
<1>1. /\ Len(a) = Len(q) + 1 /\ Len(q) \in Nat
      /\ \A i \in 1..Len(q) : a[i] = q[i] /\ q[i] \in Range(q)
      /\ a[Len(q) + 1] = x
  BY RangeAppend, RangeType
<1> HIDE DEF a
<1>2. SUFFICES ASSUME NEW i \in 1..Len(a), NEW j \in 1..Len(a),
                      a[i] # Stop, a[j] # Stop, Same(a[i], a[j])
               PROVE  i = j
  BY DEF EachOnce, a
<1>3. CASE i = Len(q) + 1 /\ j # Len(q) + 1
  <2>1. j \in 1..Len(q) /\ a[j] \in Range(q) \ {Stop} /\ a[i] = x
    BY <1>1, <1>2, <1>3
  <2> QED  BY <1>2, <2>1 DEF Same
<1>4. CASE i # Len(q) + 1 /\ j = Len(q) + 1
  <2>1. i \in 1..Len(q) /\ a[i] \in Range(q) \ {Stop} /\ a[j] = x
    BY <1>1, <1>2, <1>4
  <2> QED  BY <1>2, <2>1 DEF Same
<1>5. CASE i # Len(q) + 1 /\ j # Len(q) + 1
  <2>1. i \in 1..Len(q) /\ j \in 1..Len(q)
    BY <1>1, <1>2, <1>5
  <2> QED  BY <1>1, <1>2, <2>1 DEF EachOnce
<1> QED  BY <1>3, <1>4, <1>5

\* What has been taken from a queue is not in it any more.
LEMMA EachOnceTail ==
  ASSUME NEW q \in Seq(Numbers \cup {Stop}), q # <<>>, EachOnce(q)
  PROVE  /\ EachOnce(Tail(q))
         /\ Head(q) # Stop =>
              \A m \in Range(Tail(q)) \ {Stop} : ~Same(m, Head(q))
<1> DEFINE t == Tail(q)
<1>1. /\ t \in Seq(Numbers \cup {Stop}) /\ Head(q) = q[1]
      /\ Len(q) \in Nat \ {0} /\ Len(t) = Len(q) - 1
      /\ \A i \in 1..Len(t) : t[i] = q[i + 1]
  BY RangeTail
<1> HIDE DEF t
<1>2. EachOnce(t)
  <2> SUFFICES ASSUME NEW i \in 1..Len(t), NEW j \in 1..Len(t),
                      t[i] # Stop, t[j] # Stop, Same(t[i], t[j])
               PROVE  i = j
    BY DEF EachOnce
  <2>1. i + 1 \in 1..Len(q) /\ j + 1 \in 1..Len(q) /\ t[i] = q[i + 1] /\ t[j] = q[j + 1]
    BY <1>1
  <2>2. i + 1 = j + 1
    BY <2>1 DEF EachOnce
  <2> QED  BY <2>2
<1>3. ASSUME Head(q) # Stop, NEW m \in Range(t) \ {Stop}, Same(m, Head(q))
      PROVE  FALSE
  <2>1. PICK i \in 1..Len(t) : t[i] = m
    BY <1>1, <1>3, RangeType
  <2>2. i + 1 \in 1..Len(q) /\ q[i + 1] = m /\ 1 \in 1..Len(q)
    BY <1>1, <2>1
  <2>3. i + 1 = 1
    BY <1>1, <1>3, <2>2 DEF EachOnce
  <2> QED  BY <2>3
<1> QED  BY <1>2, <1>3 DEF t

\* Steps that only put a stop in a queue or take one out of it.
LEMMA NumbersFrame ==
  ASSUME IInv,
         UNCHANGED <<Waiting, InSolution, Solved>>,
         EachOnce(appQueue)', EachOnce(packQueue)',
         \A k \in Calculators : calculator'[k].number = calculator[k].number,
         UNCHANGED <<packages, counters, replies, page, inbox, submitted, cont>>,
         \/ UNCHANGED analyzer
         \/ \A r : ~Current(r) /\ ~Current(r)',
         Range(msgQueue)' \ {Stop} = Range(msgQueue) \ {Stop},
         \A i, j \in 1..Len(msgQueue') :
           /\ msgQueue'[i] # Stop /\ msgQueue'[j] # Stop
           /\ msgQueue'[i].req = msgQueue'[j].req
           => i = j
  PROVE  NumbersInv'
<1>1. Packaged' = Packaged
  BY DEF Packaged
<1>2. Made' = Made
  BY <1>1 DEF Made
<1>3. Travelling' = Travelling
  BY DEF Travelling, Waiting, Solved, InSolution
<1>4. \A r : /\ Current(r)' <=> Current(r)
             /\ Current(r) => analyzer'.next = analyzer.next
             /\ Sent(r)' <=> Sent(r)
  BY DEF Current, Sent
<1>5. NumbersMade'
  BY <1>1, <1>2, <1>4 DEF IInv, NumbersMade
<1>6. NumbersApart'
  BY <1>3 DEF IInv, NumbersApart
<1>7. PackagesFit'
  BY <1>4 DEF IInv, PackagesFit, PackageFits
<1>8. SentWhole'
  BY <1>3, <1>4 DEF IInv, SentWhole
<1>9. PagesShown'
  BY DEF IInv, PagesShown, PageShowsRequest
<1>10. NothingLost'
  BY <1>2, <1>4 DEF IInv, NothingLost
<1> QED
  BY <1>5, <1>6, <1>7, <1>8, <1>9, <1>10 DEF NumbersInv

\* Requests arrive and are taken; what has been made of others stays.
LEMMA RequestsMove ==
  ASSUME IInv, submitted' \subseteq Requests,
         UNCHANGED <<appQueue, calculator, packQueue, packages, counters,
                     msgQueue, cont, replies, page>>,
         \A r \in submitted :
           r \notin Range(inbox) =>
             /\ r \in submitted' /\ r \notin Range(inbox)'
             /\ Current(r)' <=> Current(r)
             /\ Current(r) => analyzer'.next = analyzer.next,
         \A r \in submitted' :
           r \notin submitted \/ r \in Range(inbox) =>
             r \in Range(inbox)' \/ (Current(r)' /\ analyzer'.next = 0)
  PROVE  NumbersInv'
<1>1. /\ Packaged' = Packaged /\ Made' = Made /\ Travelling' = Travelling
      /\ Solved' = Solved /\ Waiting' = Waiting /\ InSolution' = InSolution
  BY DEF Packaged, Made, Waiting, InSolution, Solved, Travelling
<1>2. \A r : Sent(r)' <=> Sent(r)
  BY DEF Sent
<1>3. NumbersMade'
  BY <1>1 DEF IInv, NumbersMade
<1>4. NumbersApart'
  BY <1>1 DEF IInv, NumbersApart
<1>5. PackagesFit'
  BY <1>2 DEF IInv, PackagesFit, PackageFits
<1>6. SentWhole'
  <2>1. \A r \in Requests :
          r \notin submitted' \/ r \in Range(inbox)' \/ Current(r)' => ~Sent(r)'
    BY <1>2 DEF IInv, SentWhole
  <2> QED  BY <1>1, <1>2, <2>1 DEF IInv, SentWhole
<1>7. PagesShown'
  BY DEF IInv, PagesShown, PageShowsRequest
<1>8. NothingLost'
  <2> SUFFICES ASSUME NEW r \in submitted', r \notin Range(inbox)'
               PROVE  \/ Count[r] = 0 /\ (Current(r)' \/ replies'[r] > 0)
                      \/ /\ Count[r] > 0
                         /\ \A p \in 0..(Count[r] - 1) :
                              (Current(r)' => p < analyzer'.next) =>
                                \E n \in Made' : n.req = r /\ n.pos = p
    BY DEF NothingLost
  <2>1. Count[r] \in Nat
    BY RequestsAssumption
  <2>2. CASE r \in submitted /\ r \notin Range(inbox)
    BY <1>1, <2>2 DEF IInv, NothingLost
  <2>3. CASE r \notin submitted \/ r \in Range(inbox)
    BY <2>1, <2>3
  <2> QED  BY <2>2, <2>3
<1> QED
  BY <1>3, <1>4, <1>5, <1>6, <1>7, <1>8 DEF NumbersInv

\* The dispatcher's steps and the analyzer's Take.
LEMMA ArrivalNumbers ==
  ASSUME IInv, SubmitStop \/ AnalyzerTake \/ \E r \in Requests : Submit(r)
  PROVE  NumbersInv'
<1> USE DEF inputVars, analyzerVars, packerVars, heapVars, clientVars
<1>1. submitted \subseteq Requests /\ TypeOK /\ Locations /\ InboxInOrder
  BY DEF IInv, TypeOK
<1>2. ASSUME NEW r \in Requests, Submit(r)  PROVE NumbersInv'
  <2>1. /\ Range(inbox)' = Range(inbox) \cup {r}
        /\ submitted' = submitted \cup {r} /\ r \notin submitted
        /\ UNCHANGED <<analyzer, appQueue, calculator, packQueue, packages, counters,
                       msgQueue, cont, replies, page>>
    BY <1>2, SubmitRequests DEF Submit
  <2> QED  BY <1>1, <2>1, RequestsMove DEF Current, InboxInOrder
<1>3. CASE SubmitStop
  <2>1. /\ Range(inbox)' = Range(inbox) \cup {Stop}
        /\ UNCHANGED <<submitted, analyzer, appQueue, calculator, packQueue,
                       packages, counters, msgQueue, cont, replies, page>>
    BY <1>3, SubmitStopRequests DEF SubmitStop
  <2> QED  BY <1>1, <2>1, RequestsMove, StopIsItself DEF Current
<1>4. CASE AnalyzerTake
  <2>1. /\ \A r \in Requests :
             /\ ~Current(r)
             /\ Current(r)' <=> r = Head(inbox)
             /\ r \in Range(inbox)' <=> r \in Range(inbox) /\ r # Head(inbox)
        /\ Head(inbox) \in Range(inbox)
    BY <1>4, TakeRequests
  <2>2. /\ analyzer'.next = 0
        /\ UNCHANGED <<submitted, appQueue, calculator, packQueue, packages, counters,
                       msgQueue, cont, replies, page>>
    BY <1>4 DEF AnalyzerTake
  <2> QED  BY <1>1, <2>1, <2>2, RequestsMove
<1> QED
  BY <1>2, <1>3, <1>4

\* A number of the request in production is made and put in the queue.
LEMMA ProduceNumbers ==
  ASSUME IInv, AnalyzerProduce
  PROVE  NumbersInv'
<1> DEFINE r == analyzer.req
           next == analyzer.next
           last == next + 1 = Count[r]
           n == Number(r, next, cont)
<1>1. /\ appQueue' = Append(appQueue, n)
      /\ analyzer' = IF last THEN [analyzer EXCEPT !.at = "take"]
                             ELSE [analyzer EXCEPT !.next = @ + 1]
      /\ cont' = IF last THEN cont + 1 ELSE cont
      /\ analyzer.at = "produce"
      /\ UNCHANGED <<inbox, submitted, calculator, packQueue, packages, counters,
                     msgQueue, replies, page>>
  BY DEF AnalyzerProduce, inputVars, packerVars, clientVars
<1>2. /\ r \in Requests /\ Current(r) /\ next \in Nat /\ Count[r] \in Nat
      /\ next < Count[r] /\ n \in Numbers /\ cont \in Nat
  BY <1>1, ProducedNumber, SMTT(20) DEF IInv, TypeOK, Ids
<1>3. /\ n.req = r /\ n.total = Count[r] /\ n.pos = next /\ n.id = cont
      /\ n # Stop
  BY <1>2, StopIsItself DEF Number
<1>4. analyzer \in AnalyzerStates /\ appQueue \in Seq(Numbers \cup {Stop})
  BY DEF IInv, TypeOK
<1>5. r \in submitted /\ r \notin Range(inbox)
  BY <1>2 DEF IInv, Locations
<1> HIDE DEF n
<1>6. \A s : Current(s) <=> s = r
  BY <1>1 DEF Current
<1>7. /\ analyzer'.at = IF last THEN "take" ELSE "produce"
      /\ analyzer'.req = r
      /\ ~last => analyzer'.next = next + 1
  BY <1>1, <1>4 DEF AnalyzerStates
<1> HIDE DEF r, next
<1>8. \A s : Current(s)' <=> s = r /\ ~last
  BY <1>7 DEF Current
<1>9. /\ Waiting' = Waiting \cup {n}
      /\ InSolution' = InSolution /\ Solved' = Solved /\ Packaged' = Packaged
      /\ Made' = Made \cup {n} /\ Travelling' = Travelling \cup {n}
  <2>1. Range(appQueue)' = Range(appQueue) \cup {n}
    BY <1>1, <1>2, <1>4, RangeAppend
  <2> QED
    BY <1>1, <1>3, <2>1
       DEF Waiting, InSolution, Solved, Packaged, Made, Travelling
<1>10. \A m \in Made : m.req = r => m.pos < next /\ m.id = cont /\ m.pos \in Nat
  <2>1. \A m \in Made : m \in Numbers
    BY MadeAreNumbers DEF IInv
  <2> QED
    BY <1>6, <2>1 DEF IInv, NumbersMade, Numbers, next
<1>11. \A m \in Made : m.req # r => m.id < cont /\ m.id \in Nat
  <2>1. \A m \in Made : m \in Numbers
    BY MadeAreNumbers DEF IInv
  <2> QED
    BY <1>6, <2>1 DEF IInv, NumbersMade, Numbers, Ids
<1>12. \A m \in Made : ~Same(m, n) /\ ~Same(n, m)
  BY <1>2, <1>3, <1>10 DEF Same
<1>13. NumbersMade'
  <2>1. \A m \in Made' :
          /\ m.total = Count[m.req] /\ m.pos < m.total
          /\ m.req \in submitted' /\ m.req \notin Range(inbox)'
    BY <1>1, <1>2, <1>3, <1>5, <1>9 DEF IInv, NumbersMade
  <2>2. ASSUME NEW m \in Made'
        PROVE  IF Current(m.req)' THEN m.id = cont' /\ m.pos < analyzer'.next
                                  ELSE m.id < cont'
    <3>1. CASE m = n
      BY <1>1, <1>2, <1>3, <1>7, <1>8, <3>1
    <3>2. CASE m \in Made /\ m.req = r
      BY <1>1, <1>2, <1>7, <1>8, <1>10, <3>2
    <3>3. CASE m \in Made /\ m.req # r
      BY <1>1, <1>2, <1>8, <1>11, <3>3
    <3> QED  BY <1>9, <3>1, <3>2, <3>3
  <2>3. \A m, o \in Made' : m.req = o.req <=> m.id = o.id
    <3>1. \A m \in Made : m.req = n.req <=> m.id = n.id
      BY <1>2, <1>3, <1>10, <1>11
    <3> QED  BY <1>9, <3>1 DEF IInv, NumbersMade
  <2>4. \A m \in (Solved \cup Packaged)' : m.solved
    BY <1>9 DEF IInv, NumbersMade
  <2> QED  BY <2>1, <2>2, <2>3, <2>4 DEF NumbersMade
<1>14. NumbersApart'
  <2>1. EachOnce(appQueue')
    <3>1. \A m \in Range(appQueue) \ {Stop} : ~Same(m, n)
      BY <1>12 DEF Made, Waiting
    <3> QED  BY <1>1, <1>2, <1>4, <3>1, EachOnceAppend DEF IInv, NumbersApart
  <2>2. packages[n.id] # <<>> => packages[n.id][n.pos + 1] = Stop
    <3> SUFFICES ASSUME packages[cont] # <<>>, packages[cont][next + 1] # Stop
                 PROVE  FALSE
      BY <1>3
    <3>1. cont \in Ids
      BY DEF IInv, TypeOK
    <3>2. PICK s \in Requests : PackageFits(cont, s)
      BY <3>1 DEF IInv, PackagesFit
    <3>3. Count[s] \in Nat
      BY RequestsAssumption
    <3>4. PICK i \in 1..Len(packages[cont]) : packages[cont][i] # Stop
      BY <3>2 DEF PackageFits, Filled
    <3>5. i \in 1..Count[s]
      BY <3>2, <3>3, <3>4 DEF PackageFits
    <3>6. packages[cont][i].req = s /\ packages[cont][i].id = cont
      BY <3>2, <3>4, <3>5 DEF PackageFits, ShowsNumbers
    <3>7. packages[cont][i] \in Made
      BY <3>1, <3>4, SlotIsMade DEF IInv
    <3>8. s = r
      BY <1>2, <1>11, <3>6, <3>7
    <3>9. next + 1 \in 1..Count[r] /\ next + 1 \in 1..Len(packages[cont])
      BY <1>2, <3>2, <3>8 DEF PackageFits
    <3>10. packages[cont][next + 1] \in Made
      BY <3>1, <3>9, SlotIsMade DEF IInv
    <3>11. /\ packages[cont][next + 1].req = r
           /\ packages[cont][next + 1].pos = (next + 1) - 1
      BY <3>2, <3>8, <3>9 DEF PackageFits, ShowsNumbers
    <3> QED  BY <1>2, <1>10, <3>10, <3>11
  <2>3. \A m \in Waiting', o \in InSolution' \cup Solved' : ~Same(m, o)
    BY <1>9, <1>12 DEF IInv, NumbersApart, Made
  <2> QED
    BY <1>1, <1>9, <2>1, <2>2, <2>3 DEF IInv, NumbersApart
<1>15. \A s : Sent(s)' <=> Sent(s)
  BY <1>1 DEF Sent
<1>16. PackagesFit'
  BY <1>1, <1>15 DEF IInv, PackagesFit, PackageFits
<1>17. SentWhole'
  <2>1. ~Sent(r)
    BY <1>2 DEF IInv, SentWhole
  <2> QED
    BY <1>1, <1>3, <1>6, <1>8, <1>9, <1>15, <2>1 DEF IInv, SentWhole
<1>18. PagesShown'
  BY <1>1 DEF IInv, PagesShown, PageShowsRequest
<1>19. NothingLost'
  <2> SUFFICES ASSUME NEW s \in submitted, s \notin Range(inbox)
               PROVE  \/ Count[s] = 0 /\ (Current(s)' \/ replies'[s] > 0)
                      \/ /\ Count[s] > 0
                         /\ \A p \in 0..(Count[s] - 1) :
                              (Current(s)' => p < analyzer'.next) =>
                                \E m \in Made' : m.req = s /\ m.pos = p
    BY <1>1 DEF NothingLost
  <2>1. CASE s # r
    BY <1>1, <1>6, <1>8, <1>9, <2>1 DEF IInv, NothingLost
  <2>2. CASE s = r
    <3>1. ASSUME NEW p \in 0..(Count[s] - 1), Current(s)' => p < analyzer'.next
          PROVE  \E m \in Made' : m.req = s /\ m.pos = p
      <4>1. p < next + 1
        BY <1>2, <1>7, <1>8, <2>2, <3>1 DEF last
      <4>2. CASE p = next
        BY <1>3, <1>9, <2>2, <4>2
      <4>3. CASE p < next
        <5>1. \E m \in Made : m.req = s /\ m.pos = p
          BY <1>2, <1>5, <1>6, <2>2, <4>3 DEF IInv, NothingLost, next
        <5> QED  BY <1>9, <5>1
      <4> QED  BY <1>2, <4>1, <4>2, <4>3
    <3> QED  BY <1>2, <2>2, <3>1
  <2> QED  BY <2>1, <2>2
<1> QED
  BY <1>13, <1>14, <1>16, <1>17, <1>18, <1>19 DEF NumbersInv

\* A request without numbers is answered by the analyzer.
LEMMA HomepageNumbers ==
  ASSUME IInv, AnalyzerServeHomepage
  PROVE  NumbersInv'
<1> DEFINE r == analyzer.req
<1>1. /\ r \in Requests /\ analyzer.at = "home" /\ Count[r] = 0 /\ Current(r)
      /\ analyzer'.at = "take"
      /\ replies' = [replies EXCEPT ![r] = @ + 1]
      /\ UNCHANGED <<inbox, submitted, cont, appQueue, calculator, packQueue,
                     packages, counters, msgQueue, page>>
  BY DEF IInv, TypeOK, AnalyzerStates, Locations, Current,
         AnalyzerServeHomepage, inputVars, packerVars
<1>2. \A s : ~Current(s)' /\ (Current(s) <=> s = r)
  BY <1>1 DEF Current
<1> HIDE DEF r
<1>3. /\ \A s \in Requests : s # r => replies'[s] = replies[s]
      /\ replies'[r] > 0
  BY <1>1 DEF IInv, TypeOK
<1>4. /\ Packaged' = Packaged /\ Made' = Made /\ Travelling' = Travelling
      /\ Solved' = Solved /\ Waiting' = Waiting /\ InSolution' = InSolution
  BY <1>1 DEF Packaged, Made, Waiting, InSolution, Solved, Travelling
<1>5. \A m \in Made : m.req # r /\ m.req \in Requests
  <2>1. \A m \in Made : m.pos \in Nat /\ m.req \in Requests
    BY MadeAreNumbers DEF IInv, Numbers
  <2> QED  BY <1>1, <2>1 DEF IInv, NumbersMade
<1>6. \A s \in Requests : s # r => (Sent(s)' <=> Sent(s))
  BY <1>1, <1>3 DEF Sent
<1>7. NumbersMade'
  BY <1>1, <1>2, <1>4, <1>5 DEF IInv, NumbersMade
<1>8. NumbersApart'
  BY <1>1, <1>4 DEF IInv, NumbersApart
<1>9. PackagesFit'
  BY <1>1, <1>6 DEF IInv, PackagesFit, PackageFits
<1>10. SentWhole'
  <2>1. \A n \in Travelling : n \in Made
    BY MadeAreNumbers DEF IInv
  <2>2. \A s \in Requests :
          s \notin submitted' \/ s \in Range(inbox)' \/ Current(s)' => ~Sent(s)'
    <3>1. r \in submitted /\ r \notin Range(inbox)
      BY <1>1 DEF IInv, Locations
    <3> QED  BY <1>1, <1>2, <1>6, <3>1 DEF IInv, SentWhole
  <2>3. \A p \in Range(msgQueue) \ {Stop} : p.req # r /\ p.req \in Requests
    <3>1. Range(msgQueue) \subseteq Packages \cup {Stop}
      BY RangeType DEF IInv, TypeOK
    <3> QED  BY <1>1, <3>1 DEF IInv, SentWhole, Whole, Packages
  <2> QED
    BY <1>1, <1>3, <1>4, <1>5, <1>6, <2>1, <2>2, <2>3 DEF IInv, SentWhole
<1>11. PagesShown'
  <2>1. page[r] = <<>>
    BY <1>1 DEF IInv, PagesShown
  <2>2. Len(page[r]) = Count[r]
    BY <1>1, <2>1
  <2> QED
    BY <1>1, <1>3, <2>2 DEF IInv, PagesShown, PageShowsRequest
<1>12. NothingLost'
  <2> SUFFICES ASSUME NEW s \in submitted, s \notin Range(inbox)
               PROVE  \/ Count[s] = 0 /\ (Current(s)' \/ replies'[s] > 0)
                      \/ /\ Count[s] > 0
                         /\ \A p \in 0..(Count[s] - 1) :
                              (Current(s)' => p < analyzer'.next) =>
                                \E m \in Made' : m.req = s /\ m.pos = p
    BY <1>1 DEF NothingLost
  <2>1. s \in Requests
    BY DEF IInv, TypeOK
  <2>2. CASE s = r
    BY <1>1, <1>3, <2>2
  <2>3. CASE s # r
    BY <1>2, <1>3, <1>4, <2>1, <2>3 DEF IInv, NothingLost
  <2> QED  BY <2>2, <2>3
<1> QED
  BY <1>7, <1>8, <1>9, <1>10, <1>11, <1>12 DEF NumbersInv

Alike(n, m) ==
  n.req = m.req /\ n.pos = m.pos /\ n.id = m.id /\ n.total = m.total

\* Numbers that move on, solved or not, remain what they are.
LEMMA NumbersKept ==
  ASSUME IInv,
         UNCHANGED <<inbox, submitted, analyzer, cont, replies, page>>,
         \A n \in Made' : \E m \in Made : Alike(n, m),
         \A m \in Made : \E n \in Made' : Alike(n, m),
         \A n \in (Solved \cup Packaged)' : n.solved
  PROVE  NumbersMade' /\ PagesShown' /\ NothingLost'
<1>1. \A r : Current(r)' <=> Current(r)
  BY DEF Current
<1>2. NumbersMade'
  <2>1. ASSUME NEW n \in Made'
        PROVE  /\ n.total = Count[n.req] /\ n.pos < n.total
               /\ n.req \in submitted' /\ n.req \notin Range(inbox)'
               /\ IF Current(n.req)' THEN n.id = cont' /\ n.pos < analyzer'.next
                                     ELSE n.id < cont'
    <3>1. PICK m \in Made : Alike(n, m)
      BY <2>1
    <3> QED  BY <1>1, <3>1 DEF IInv, NumbersMade, Alike
  <2>2. ASSUME NEW n \in Made', NEW m \in Made'
        PROVE  n.req = m.req <=> n.id = m.id
    <3>1. PICK a \in Made, b \in Made : Alike(n, a) /\ Alike(m, b)
      BY <2>2
    <3> QED  BY <3>1 DEF IInv, NumbersMade, Alike
  <2> QED  BY <2>1, <2>2 DEF NumbersMade
<1>3. PagesShown'
  BY DEF IInv, PagesShown, PageShowsRequest
<1>4. NothingLost'
  <2>1. ASSUME NEW r, NEW p, \E m \in Made : m.req = r /\ m.pos = p
        PROVE  \E n \in Made' : n.req = r /\ n.pos = p
    BY <2>1 DEF Alike
  <2>2. ASSUME NEW r \in submitted, r \notin Range(inbox),
               ~(Count[r] = 0 /\ (Current(r) \/ replies[r] > 0)),
               NEW p \in 0..(Count[r] - 1), Current(r) => p < analyzer.next
        PROVE  Count[r] > 0 /\ \E n \in Made' : n.req = r /\ n.pos = p
    <3>1. Count[r] > 0 /\ \E m \in Made : m.req = r /\ m.pos = p
      BY <2>2 DEF IInv, NothingLost
    <3> QED  BY <2>1, <3>1
  <2>3. ASSUME NEW r \in submitted, r \notin Range(inbox),
               ~(Count[r] = 0 /\ (Current(r) \/ replies[r] > 0))
        PROVE  Count[r] > 0
    BY <2>3 DEF IInv, NothingLost
  <2> QED  BY <1>1, <2>2, <2>3 DEF NothingLost
<1> QED
  BY <1>2, <1>3, <1>4

\* A calculator takes a number that waits; the other numbers wait on.
LEMMA TakeNumbers ==
  ASSUME IInv, NEW k \in Calculators, CalculatorTake(k), Head(appQueue) # Stop
  PROVE  NumbersInv'
<1> DEFINE n == Head(appQueue)
<1>1. /\ calculator[k].at = "take" /\ appQueue # <<>> /\ appQueue' = Tail(appQueue)
      /\ calculator' = [calculator EXCEPT ![k] = [at |-> "solve", number |-> n]]
      /\ UNCHANGED <<inbox, submitted, analyzer, cont, packQueue, packages,
                     counters, msgQueue, replies, page>>
  BY DEF CalculatorTake, inputVars, analyzerVars, packerVars, clientVars
<1>2. /\ TypeOK /\ appQueue \in Seq(Numbers \cup {Stop})
      /\ calculator[k].number = Stop
  BY <1>1 DEF IInv, TypeOK, Locations
<1>3. /\ n \in Numbers /\ n # Stop
      /\ Range(appQueue) = {n} \cup Range(appQueue')
  BY <1>1, <1>2, RangeTail
<1>4. EachOnce(appQueue') /\ \A m \in Range(appQueue') \ {Stop} : ~Same(m, n)
  BY <1>1, <1>2, EachOnceTail DEF IInv, NumbersApart
<1> HIDE DEF n
<1>5. /\ calculator'[k].number = n
      /\ \A l \in Calculators \ {k} : calculator'[l] = calculator[l]
  <2>1. [at |-> "solve", number |-> n] \in CalculatorStates
    BY <1>3 DEF CalculatorStates
  <2> QED  BY <1>1, <1>2, <2>1, CalculatorMove
<1>6. /\ Waiting = Waiting' \cup {n} /\ InSolution' = InSolution \cup {n}
      /\ Solved' = Solved /\ Packaged' = Packaged
  <2>1. Waiting = Waiting' \cup {n}
    BY <1>3 DEF Waiting
  <2>2. InSolution' = InSolution \cup {n}
    BY <1>2, <1>3, <1>5 DEF InSolution
  <2> QED  BY <1>1, <2>1, <2>2 DEF Solved, Packaged
<1>7. Made' = Made /\ Travelling' = Travelling
  <2>1. /\ Travelling = Waiting \cup InSolution \cup Solved
        /\ Travelling' = Waiting' \cup InSolution' \cup Solved'
    BY DEF Travelling, Waiting, InSolution, Solved
  <2> QED  BY <1>6, <2>1 DEF Made
<1>8. NumbersMade' /\ PagesShown' /\ NothingLost'
  <2>1. \A m \in Made : Alike(m, m)
    BY DEF Alike
  <2>2. \A m \in (Solved \cup Packaged)' : m.solved
    BY <1>6 DEF IInv, NumbersMade
  <2> QED  BY <1>1, <1>7, <2>1, <2>2, NumbersKept
<1>9. NumbersApart'
  <2>1. \A m \in Waiting' : ~Same(m, n)
    BY <1>4 DEF Waiting
  <2>2. n \in Waiting /\ (\A m \in InSolution : ~Same(n, m)) /\ \A m \in Solved : ~Same(n, m)
    BY <1>6 DEF IInv, NumbersApart
  <2>3. ASSUME NEW l \in Calculators, NEW j \in Calculators,
               calculator'[l].number # Stop, calculator'[j].number # Stop,
               Same(calculator'[l].number, calculator'[j].number)
        PROVE  l = j
    <3>1. CASE l = k /\ j # k
      <4>1. calculator[j].number \in InSolution
        BY <1>5, <2>3, <3>1 DEF InSolution
      <4> QED  BY <1>5, <2>2, <2>3, <3>1, <4>1
    <3>2. CASE l # k /\ j = k
      <4>1. calculator[l].number \in InSolution
        BY <1>5, <2>3, <3>2 DEF InSolution
      <4> QED  BY <1>5, <2>2, <2>3, <3>2, <4>1 DEF Same
    <3>3. CASE l # k /\ j # k
      BY <1>5, <2>3, <3>3 DEF IInv, NumbersApart
    <3> QED  BY <3>1, <3>2, <3>3
  <2>4. EachOnce(packQueue)'
    BY <1>1 DEF IInv, NumbersApart
  <2>5. \A a \in Waiting', b \in InSolution' \cup Solved' : ~Same(a, b)
    BY <1>6, <2>1 DEF IInv, NumbersApart
  <2>6. \A a \in InSolution', b \in Solved' : ~Same(a, b)
    BY <1>6, <2>2 DEF IInv, NumbersApart
  <2>7. \A m \in Travelling' : packages'[m.id] # <<>> => packages'[m.id][m.pos + 1] = Stop
    BY <1>1, <1>7 DEF IInv, NumbersApart
  <2> QED
    BY <1>4, <2>3, <2>4, <2>5, <2>6, <2>7 DEF NumbersApart
<1>10. PackagesFit' /\ SentWhole'
  <2>1. \A r : (Sent(r)' <=> Sent(r)) /\ (Current(r)' <=> Current(r))
    BY <1>1 DEF Sent, Current
  <2>2. PackagesFit'
    BY <1>1, <2>1 DEF IInv, PackagesFit, PackageFits
  <2>3. SentWhole'
    BY <1>1, <1>7, <2>1 DEF IInv, SentWhole
  <2> QED  BY <2>2, <2>3
<1> QED
  BY <1>8, <1>9, <1>10 DEF NumbersInv

\* A calculator solves its number and hands it to the packer.
LEMMA SolveNumbers ==
  ASSUME IInv, NEW k \in Calculators, CalculatorSolve(k)
  PROVE  NumbersInv'
<1> DEFINE n == calculator[k].number
           s == [n EXCEPT !.solved = TRUE]
<1>1. /\ calculator[k].at = "solve" /\ packQueue' = Append(packQueue, s)
      /\ calculator' = [calculator EXCEPT ![k] = [at |-> "take", number |-> Stop]]
      /\ UNCHANGED <<inbox, submitted, analyzer, cont, appQueue, packages,
                     counters, msgQueue, replies, page>>
  BY DEF CalculatorSolve, inputVars, analyzerVars, packerVars, clientVars
<1>2. /\ TypeOK /\ packQueue \in Seq(Numbers \cup {Stop})
      /\ n \in Numbers /\ n # Stop /\ n \in InSolution
  BY <1>1 DEF IInv, TypeOK, CalculatorStates, Locations, InSolution
<1>3. s \in Numbers /\ s # Stop /\ s.solved /\ Alike(s, n)
  BY <1>2, StopIsItself DEF Numbers, Alike
<1> HIDE DEF n, s
<1>4. /\ calculator'[k].number = Stop
      /\ \A l \in Calculators \ {k} : calculator'[l] = calculator[l]
  <2>1. [at |-> "take", number |-> Stop] \in CalculatorStates
    BY DEF CalculatorStates
  <2> QED  BY <1>1, <1>2, <2>1, CalculatorMove
<1>5. /\ Waiting' = Waiting /\ Packaged' = Packaged
      /\ Solved' = Solved \cup {s} /\ InSolution = InSolution' \cup {n}
      /\ InSolution' \subseteq InSolution
  <2>1. Range(packQueue)' = Range(packQueue) \cup {s}
    BY <1>1, <1>2, <1>3, RangeAppend
  <2>2. /\ InSolution = InSolution' \cup {n}
        /\ InSolution' \subseteq InSolution
    BY <1>2, <1>4 DEF InSolution, n
  <2> QED  BY <1>1, <1>3, <2>1, <2>2 DEF Waiting, Packaged, Solved
<1>6. \A l \in Calculators \ {k} :
        calculator[l].number # Stop => ~Same(calculator[l].number, n)
  BY <1>2 DEF IInv, NumbersApart, n
<1>7. \A m \in InSolution' : ~Same(m, n) /\ ~Same(m, s)
  BY <1>3, <1>4, <1>6 DEF InSolution, Alike, Same
<1>8. NumbersMade' /\ PagesShown' /\ NothingLost'
  <2>1. \A m \in Made' : m = s \/ m \in Made
    BY <1>5 DEF Made
  <2>2. \A m \in Made : m = n \/ m \in Made'
    BY <1>5 DEF Made
  <2>3. s \in Made' /\ n \in Made
    BY <1>2, <1>5 DEF Made
  <2>4. \A m \in (Solved \cup Packaged)' : m.solved
    BY <1>3, <1>5 DEF IInv, NumbersMade
  <2>5. \A m : Alike(m, m) /\ Alike(n, s)
    BY <1>3 DEF Alike
  <2> QED  BY <1>1, <1>3, <2>1, <2>2, <2>3, <2>4, <2>5, NumbersKept
<1>9. \A m \in Travelling' : \E a \in Travelling : Alike(m, a)
  <2>1. /\ Travelling = Waiting \cup InSolution \cup Solved
        /\ Travelling' = Waiting' \cup InSolution' \cup Solved'
    BY DEF Travelling, Waiting, InSolution, Solved
  <2>2. \A m : Alike(m, m)
    BY DEF Alike
  <2> QED  BY <1>2, <1>3, <1>5, <2>1, <2>2
<1>10. NumbersApart'
  <2>1. \A m \in Waiting \cup Solved : ~Same(m, s) /\ ~Same(n, m)
    BY <1>2, <1>3 DEF IInv, NumbersApart, Same, Alike
  <2>2. EachOnce(packQueue')
    <3>1. \A m \in Range(packQueue) \ {Stop} : ~Same(m, s)
      BY <2>1 DEF Solved
    <3> QED  BY <1>1, <1>2, <1>3, <3>1, EachOnceAppend DEF IInv, NumbersApart
  <2>3. \A l, j \in Calculators :
          /\ calculator'[l].number # Stop /\ calculator'[j].number # Stop
          /\ Same(calculator'[l].number, calculator'[j].number)
          => l = j
    BY <1>4 DEF IInv, NumbersApart
  <2>4. \A m \in Travelling' : packages'[m.id] # <<>> => packages'[m.id][m.pos + 1] = Stop
    BY <1>1, <1>9 DEF IInv, NumbersApart, Alike
  <2>5. \A a \in Waiting', b \in InSolution' \cup Solved' : ~Same(a, b)
    BY <1>5, <2>1 DEF IInv, NumbersApart
  <2>6. \A a \in InSolution', b \in Solved' : ~Same(a, b)
    BY <1>5, <1>7 DEF IInv, NumbersApart
  <2>7. EachOnce(appQueue')
    BY <1>1 DEF IInv, NumbersApart
  <2> QED  BY <2>2, <2>3, <2>4, <2>5, <2>6, <2>7 DEF NumbersApart
<1>11. PackagesFit' /\ SentWhole'
  <2>1. \A r : (Sent(r)' <=> Sent(r)) /\ (Current(r)' <=> Current(r))
    BY <1>1 DEF Sent, Current
  <2>2. PackagesFit'
    BY <1>1, <2>1 DEF IInv, PackagesFit, PackageFits
  <2>3. \A m \in Travelling' : ~Sent(m.req)'
    BY <1>9, <2>1 DEF IInv, SentWhole, Alike
  <2>4. SentWhole'
    BY <1>1, <2>1, <2>3 DEF IInv, SentWhole
  <2> QED  BY <2>2, <2>4
<1> QED
  BY <1>8, <1>10, <1>11 DEF NumbersInv

\* The page of a request is sent: the package is its last trace.
LEMMA ShowNumbers ==
  ASSUME IInv, MsgShow
  PROVE  NumbersInv'
<1> DEFINE p == Head(msgQueue)
           r == p.req
<1>1. /\ msgQueue # <<>> /\ p # Stop /\ msgQueue' = Tail(msgQueue)
      /\ page' = [page EXCEPT ![r] = Front(p.slots)]
      /\ replies' = [replies EXCEPT ![r] = @ + 1]
      /\ UNCHANGED <<inbox, submitted, analyzer, cont, appQueue, calculator,
                     packQueue, packages, counters>>
  BY DEF MsgShow, inputVars, analyzerVars, packerVars
<1>2. /\ r \in Requests /\ p \in Range(msgQueue) \ {Stop}
      /\ Whole(p.slots, r) /\ replies[r] = 0
      /\ Len(Front(p.slots)) = Count[r]
      /\ \A i \in 1..Count[r] : Front(p.slots)[i] = p.slots[i]
  BY <1>1, ShownPackage
<1>3. /\ msgQueue \in Seq(Packages \cup {Stop})
      /\ page \in [Requests -> Seq(Numbers \cup {Stop})]
      /\ replies \in [Requests -> Nat]
  BY DEF IInv, TypeOK
<1>4. /\ p = msgQueue[1] /\ msgQueue' \in Seq(Packages \cup {Stop})
      /\ Len(msgQueue) \in Nat \ {0} /\ Len(msgQueue') = Len(msgQueue) - 1
      /\ \A i \in 1..Len(msgQueue') : msgQueue'[i] = msgQueue[i + 1]
      /\ Range(msgQueue) = {p} \cup Range(msgQueue')
  BY <1>1, <1>3, RangeTail
<1> HIDE DEF p
<1>5. \A i \in 1..Len(msgQueue') : msgQueue'[i] # Stop => msgQueue'[i].req # r
  <2> SUFFICES ASSUME NEW i \in 1..Len(msgQueue'), msgQueue'[i] # Stop,
                      msgQueue'[i].req = r
               PROVE  FALSE
    OBVIOUS
  <2>1. i + 1 \in 1..Len(msgQueue) /\ 1 \in 1..Len(msgQueue)
        /\ msgQueue'[i] = msgQueue[i + 1]
    BY <1>4
  <2>2. i + 1 = 1
    BY <1>1, <1>4, <2>1 DEF IInv, SentWhole
  <2> QED  BY <2>2
<1>6. \A q \in Range(msgQueue') \ {Stop} : q.req # r /\ q.req \in Requests
  <2>1. \A q \in Range(msgQueue') : \E i \in 1..Len(msgQueue') : msgQueue'[i] = q
    BY <1>4, RangeType
  <2>2. Range(msgQueue') \subseteq Packages \cup {Stop}
    BY <1>4, RangeType
  <2> QED  BY <1>5, <2>1, <2>2 DEF Packages
<1> HIDE DEF r
<1>7. /\ \A q \in Requests : q # r => replies'[q] = replies[q] /\ page'[q] = page[q]
      /\ replies'[r] > 0 /\ page'[r] = Front(p.slots)
  BY <1>1, <1>2, <1>3
<1>8. \A q \in Requests : Sent(q)' <=> Sent(q)
  <2>1. \A q \in Requests : q = r => Sent(q)' /\ Sent(q)
    BY <1>2, <1>7 DEF Sent, r
  <2>2. \A q \in Requests : q # r => (Sent(q)' <=> Sent(q))
    BY <1>4, <1>7 DEF Sent, r
  <2> QED  BY <2>1, <2>2
<1>9. /\ Packaged' = Packaged /\ Made' = Made /\ Travelling' = Travelling
      /\ Solved' = Solved /\ Waiting' = Waiting /\ InSolution' = InSolution
      /\ \A q : Current(q)' <=> Current(q)
  BY <1>1 DEF Packaged, Made, Waiting, InSolution, Solved, Travelling, Current
<1>10. NumbersMade' /\ NumbersApart'
  BY <1>1, <1>9 DEF IInv, NumbersMade, NumbersApart
<1>11. PackagesFit'
  BY <1>1, <1>8 DEF IInv, PackagesFit, PackageFits
<1>12. SentWhole'
  <2>1. \A m \in Travelling : m.req \in Requests
    BY MadeAreNumbers DEF IInv, Numbers
  <2>2. \A q \in Range(msgQueue') \ {Stop} : Whole(q.slots, q.req) /\ replies'[q.req] = 0
    BY <1>4, <1>6, <1>7 DEF IInv, SentWhole
  <2>3. \A i, j \in 1..Len(msgQueue') :
          /\ msgQueue'[i] # Stop /\ msgQueue'[j] # Stop
          /\ msgQueue'[i].req = msgQueue'[j].req
          => i = j
    <3> SUFFICES ASSUME NEW i \in 1..Len(msgQueue'), NEW j \in 1..Len(msgQueue'),
                        msgQueue'[i] # Stop, msgQueue'[j] # Stop,
                        msgQueue'[i].req = msgQueue'[j].req
                 PROVE  i = j
      OBVIOUS
    <3>1. /\ i + 1 \in 1..Len(msgQueue) /\ msgQueue'[i] = msgQueue[i + 1]
          /\ j + 1 \in 1..Len(msgQueue) /\ msgQueue'[j] = msgQueue[j + 1]
      BY <1>4
    <3>2. i + 1 = j + 1
      BY <3>1 DEF IInv, SentWhole
    <3> QED  BY <3>2
  <2> QED
    BY <1>1, <1>8, <1>9, <2>1, <2>2, <2>3 DEF IInv, SentWhole
<1>13. PagesShown'
  <2>1. Count[r] > 0
    BY <1>2 DEF Whole
  <2>2. \A i \in 1..Count[r] :
          /\ page'[r][i] # Stop /\ page'[r][i].req = r
          /\ page'[r][i].pos = i - 1 /\ page'[r][i].solved
    BY <1>2, <1>7 DEF Whole, ShowsNumbers
  <2>3. Len(page'[r]) = Count[r]
    BY <1>2, <1>7
  <2>4. PageShowsRequest'
    BY <1>7, <2>2, <2>3 DEF IInv, PagesShown, PageShowsRequest
  <2> QED
    BY <1>2, <1>7, <2>1, <2>4 DEF IInv, PagesShown
<1>14. NothingLost'
  <2>1. \A q \in submitted : replies[q] > 0 => replies'[q] > 0
    BY <1>7 DEF IInv, TypeOK
  <2> QED
    BY <1>1, <1>9, <2>1 DEF IInv, NothingLost
<1> QED
  BY <1>10, <1>11, <1>12, <1>13, <1>14 DEF NumbersInv

\* The packer puts a number in its request's package: the slot it fills was
\* empty, and when no slot of a number is empty any more nothing of the request
\* is under way.
LEMMA PackSlots ==
  ASSUME IInv, NEW n \in Solved, \A m \in Travelling : ~Same(m, n) \/ m = n
  PROVE  /\ Filled(Packed(n)) \subseteq 1..Count[n.req]
         /\ Cardinality(Filled(Packed(n))) = Arrived(n)
         /\ Arrived(n) = Count[n.req] =>
              \A i \in 1..Count[n.req] : Packed(n)[i] # Stop
         /\ ShowsNumbers(Packed(n), n.req)
         /\ \A i \in 1..Count[n.req] :
              Packed(n)[i] # Stop =>
                /\ Packed(n)[i].id = n.id /\ Packed(n)[i].req = n.req
                /\ Packed(n)[i].pos = i - 1 /\ Packed(n)[i] \in Made
<1> DEFINE r == n.req
           p == n.pos + 1
           old == packages[n.id]
           new == Packed(n)
<1>1. n \in Made /\ n \in Numbers /\ n \in Travelling /\ n # Stop
  BY MadeAreNumbers, StopIsItself DEF IInv, Made
<1>2. /\ n.id \in Ids /\ r \in Requests /\ n.solved /\ n.pos = p - 1
  BY <1>1 DEF Numbers, IInv, NumbersMade
<1>3. /\ new \in Seq(Numbers \cup {Stop}) /\ Len(new) = Count[r] + 1
      /\ Count[r] \in Nat /\ p \in 1..Count[r] /\ new[p] = n
      /\ \A i \in 1..(Count[r] + 1) :
           i # p => new[i] = IF old = <<>> THEN Stop ELSE old[i]
  BY <1>1, PackedSlots
<1>4. old # <<>> =>
        /\ PackageFits(n.id, r) /\ Len(old) = Count[r] + 1
        /\ old[Count[r] + 1] = Stop /\ old[p] = Stop
        /\ counters[n.id] = Cardinality(Filled(old))
  BY <1>1, PackageOfNumber DEF IInv, NumbersApart, PackageFits
<1> HIDE DEF new
<1>5. Filled(new) = (IF old = <<>> THEN {} ELSE Filled(old)) \cup {p}
  <2>1. new[Count[r] + 1] = Stop
    <3> DEFINE c == Count[r]
    <3>1. c \in Nat /\ p \in 1..c /\ c + 1 \in 1..(c + 1)
      BY <1>3
    <3>2. c + 1 # p
      <4> HIDE DEF c, p
      <4> QED  BY <3>1
    <3>3. new[c + 1] = IF old = <<>> THEN Stop ELSE old[c + 1]
      BY <1>3, <3>1, <3>2
    <3> QED  BY <1>4, <3>3
  <2>2. CASE old = <<>>
    BY <1>1, <1>3, <2>2 DEF Filled
  <2>3. CASE old # <<>>
    BY <1>1, <1>3, <1>4, <2>3, SMTT(20) DEF Filled
  <2> QED  BY <2>2, <2>3
<1>6. /\ Filled(new) \subseteq 1..Count[r]
      /\ old # <<>> => Filled(old) \subseteq 1..Count[r] /\ p \notin Filled(old)
  <2>1. old # <<>> => Filled(old) \subseteq 1..Count[r] /\ p \notin Filled(old)
    BY <1>3, <1>4 DEF Filled
  <2> QED  BY <1>3, <1>5, <2>1
<1>7. IsFiniteSet(1..Count[r]) /\ Cardinality(1..Count[r]) = Count[r]
  <2> DEFINE c == Count[r]
  <2>1. c \in Nat
    BY <1>3
  <2> HIDE DEF c
  <2>2. IsFiniteSet(1..c) /\ Cardinality(1..c) = IF 1 > c THEN 0 ELSE c - 1 + 1
    BY <2>1, FS_Interval
  <2>3. Cardinality(1..c) = c
    BY <2>1, <2>2
  <2> QED  BY <2>2, <2>3 DEF c
<1>8. Cardinality(Filled(new)) = Arrived(n)
  <2>1. CASE old = <<>>
    <3>1. Cardinality(Filled(new)) = 1
      <4>1. Filled(new) = {p}
        BY <1>5, <2>1
      <4> QED  BY <4>1, FS_Singleton
    <3> QED  BY <2>1, <3>1 DEF Arrived
  <2>2. CASE old # <<>>
    <3>1. IsFiniteSet(Filled(old))
      BY <1>6, <1>7, <2>2, FS_Subset
    <3>2. Cardinality(Filled(old) \cup {p}) = Cardinality(Filled(old)) + 1
      BY <1>6, <2>2, <3>1, FS_AddElement
    <3> QED  BY <1>4, <1>5, <2>2, <3>2 DEF Arrived
  <2> QED  BY <2>1, <2>2
<1>9. Arrived(n) = Count[r] => \A i \in 1..Count[r] : new[i] # Stop
  <2>1. ASSUME Arrived(n) = Count[r]  PROVE Filled(new) = 1..Count[r]
    BY <1>6, <1>7, <1>8, <2>1, FS_Subset
  <2> QED  BY <2>1 DEF Filled
<1>10. \A i \in 1..Count[r] :
         new[i] # Stop =>
           /\ new[i].id = n.id /\ new[i].req = r
           /\ new[i].pos = i - 1 /\ new[i].solved /\ new[i] \in Made
  <2> SUFFICES ASSUME NEW i \in 1..Count[r], new[i] # Stop
               PROVE  /\ new[i].id = n.id /\ new[i].req = r
                      /\ new[i].pos = i - 1 /\ new[i].solved /\ new[i] \in Made
    OBVIOUS
  <2>1. CASE i = p
    BY <1>1, <1>2, <1>3, <2>1
  <2>2. CASE i # p
    <3>1. old # <<>> /\ new[i] = old[i] /\ i \in 1..Len(old)
      BY <1>3, <1>4, <2>2
    <3>2. old[i] \in Made
      BY <1>2, <3>1, SlotIsMade DEF IInv
    <3> QED  BY <1>4, <3>1, <3>2 DEF PackageFits, ShowsNumbers
  <2> QED  BY <2>1, <2>2
<1>11. ShowsNumbers(new, r)
  BY <1>10 DEF ShowsNumbers
<1> QED
  BY <1>6, <1>8, <1>9, <1>10, <1>11 DEF new

\* What taking n out of the queue and packing it does to the sets of numbers.
LEMMA PackMoves ==
  ASSUME IInv, PackerPack
  PROVE  LET n == Head(packQueue)
         IN  /\ n \in Solved /\ n \in Numbers /\ n # Stop
             /\ EachOnce(packQueue)'
             /\ Waiting' = Waiting /\ InSolution' = InSolution
             /\ Solved = Solved' \cup {n}
             /\ \A m \in Travelling' : m \in Travelling /\ ~Same(m, n)
             /\ \A m \in Travelling : ~Same(m, n) \/ m = n
             /\ packages' = [packages EXCEPT ![n.id] = Packed(n)]
             /\ Packaged' = Packaged \cup {n}
             /\ Made' = Made
<1> DEFINE n == Head(packQueue)
           new == Packed(n)
           old == packages[n.id]
<1>1. /\ packQueue # <<>> /\ n # Stop /\ packQueue' = Tail(packQueue)
      /\ packages' = [packages EXCEPT ![n.id] = new]
      /\ UNCHANGED <<appQueue, calculator>>
  BY DEF PackerPack
<1>2. /\ TypeOK /\ packQueue \in Seq(Numbers \cup {Stop})
  BY DEF IInv, TypeOK
<1>3. n \in Numbers /\ Range(packQueue) = {n} \cup Range(packQueue')
  BY <1>1, <1>2, RangeTail
<1>4. EachOnce(packQueue') /\ \A m \in Range(packQueue') \ {Stop} : ~Same(m, n)
  BY <1>1, <1>2, EachOnceTail DEF IInv, NumbersApart
<1> HIDE DEF n, new
<1>5. Solved = Solved' \cup {n} /\ \A m \in Solved' : ~Same(m, n)
  BY <1>1, <1>3, <1>4 DEF Solved
<1>6. Waiting' = Waiting /\ InSolution' = InSolution /\ n \in Solved /\ n \in Made
  BY <1>1, <1>5 DEF Waiting, InSolution, Made
<1>7. /\ Travelling = Waiting \cup InSolution \cup Solved
      /\ Travelling' = Waiting' \cup InSolution' \cup Solved'
  BY DEF Travelling, Waiting, InSolution, Solved
<1>8. \A m \in Waiting \cup InSolution : ~Same(m, n)
  BY <1>6 DEF IInv, NumbersApart
<1>9. \A m \in Travelling' : m \in Travelling /\ ~Same(m, n)
  BY <1>5, <1>6, <1>7, <1>8
<1>10. \A m \in Travelling : ~Same(m, n) \/ m = n
  BY <1>5, <1>6, <1>7, <1>8
<1>11. /\ n.id \in Ids /\ packages \in [Ids -> Seq(Numbers \cup {Stop})]
  BY <1>2, <1>3 DEF Numbers, TypeOK
<1>12. /\ new \in Seq(Numbers \cup {Stop}) /\ new[n.pos + 1] = n
       /\ Len(new) = Count[n.req] + 1 /\ Count[n.req] \in Nat
       /\ n.pos + 1 \in 1..Count[n.req]
       /\ \A i \in 1..Len(new) :
            i # n.pos + 1 => new[i] = IF old = <<>> THEN Stop ELSE old[i]
  BY <1>6, PackedSlots DEF new
<1>13. old # <<>> => Len(old) = Count[n.req] + 1 /\ old[n.pos + 1] = Stop
  BY <1>6, <1>7, PackageOfNumber DEF IInv, NumbersApart, PackageFits
<1>14. Range(new) \ {Stop} = (Range(old) \ {Stop}) \cup {n}
  <2>1. old \in Seq(Numbers \cup {Stop})
    BY <1>11
  <2>2. \A x \in Range(new) : \E i \in 1..Len(new) : new[i] = x
    BY <1>12, RangeType
  <2>3. \A x \in Range(old) : \E i \in 1..Len(old) : old[i] = x
    BY <2>1, RangeType
  <2>4. \A i \in 1..Len(new) : new[i] \in Range(new)
    BY <1>12, RangeType
  <2>5. \A i \in 1..Len(old) : old[i] \in Range(old)
    BY <2>1, RangeType
  <2>6. n \in Range(new)
    BY <1>12, <2>4
  <2>7. ASSUME NEW x \in Range(old) \ {Stop}  PROVE x \in Range(new)
    <3>1. PICK i \in 1..Len(old) : old[i] = x
      BY <2>3
    <3>2. old # <<>>
      BY <2>1, <2>7, RangeType
    <3>3. i \in 1..Len(new) /\ i # n.pos + 1 /\ new[i] = x
      BY <1>12, <1>13, <2>7, <3>1, <3>2
    <3> QED  BY <2>4, <3>3
  <2>8. ASSUME NEW x \in Range(new) \ {Stop}  PROVE x = n \/ x \in Range(old)
    <3>1. PICK i \in 1..Len(new) : new[i] = x
      BY <2>2
    <3>2. CASE i = n.pos + 1
      BY <1>12, <3>1, <3>2
    <3>3. CASE i # n.pos + 1
      <4>1. old # <<>> /\ x = old[i]
        BY <1>12, <2>8, <3>1, <3>3
      <4>2. i \in 1..Len(old)
        BY <1>12, <1>13, <4>1
      <4> QED  BY <2>5, <4>1, <4>2
    <3> QED  BY <3>2, <3>3
  <2> QED  BY <1>1, <2>6, <2>7, <2>8
<1>15. Packaged' = Packaged \cup {n}
  <2>1. \A id \in Ids : packages'[id] = IF id = n.id THEN new ELSE packages[id]
    BY <1>1, <1>11
  <2>2. \A id \in Ids : Range(packages'[id]) \ {Stop}
           = IF id = n.id THEN (Range(packages[id]) \ {Stop}) \cup {n}
                          ELSE Range(packages[id]) \ {Stop}
    BY <1>14, <2>1
  <2>3. \A x : x \in Packaged' <=> \E id \in Ids : x \in Range(packages'[id]) \ {Stop}
    BY DEF Packaged, Ids
  <2>4. \A x : x \in Packaged <=> \E id \in Ids : x \in Range(packages[id]) \ {Stop}
    BY DEF Packaged
  <2> QED  BY <1>11, <2>2, <2>3, <2>4
<1>16. Made' = Made
  BY <1>5, <1>6, <1>15 DEF Made
<1> QED
  BY <1>1, <1>3, <1>4, <1>5, <1>6, <1>9, <1>10, <1>15, <1>16 DEF n, new

\* A number goes into the package of its request; with the last one the package
\* is sent, when nothing else of the request is under way.
LEMMA PackNumbers ==
  ASSUME IInv, PackerPack
  PROVE  NumbersInv'
<1> DEFINE n == Head(packQueue)
           r == n.req
           new == Packed(n)
           package == [req |-> r, slots |-> new]
           whole == Arrived(n) = n.total
<1>1. /\ counters' = [counters EXCEPT ![n.id] = Arrived(n)]
      /\ msgQueue' = IF whole THEN Append(msgQueue, package) ELSE msgQueue
      /\ UNCHANGED <<inbox, submitted, analyzer, cont, appQueue, replies, page, calculator>>
  BY DEF PackerPack, inputVars, analyzerVars, clientVars
<1>2. /\ n \in Solved /\ n \in Numbers /\ n # Stop
      /\ EachOnce(packQueue)'
      /\ Waiting' = Waiting /\ InSolution' = InSolution
      /\ Solved = Solved' \cup {n}
      /\ \A m \in Travelling' : m \in Travelling /\ ~Same(m, n)
      /\ \A m \in Travelling : ~Same(m, n) \/ m = n
      /\ packages' = [packages EXCEPT ![n.id] = new]
      /\ Packaged' = Packaged \cup {n}
      /\ Made' = Made
  BY PackMoves
<1>3. /\ n \in Made /\ n \in Travelling
      /\ n.id \in Ids /\ r \in Requests /\ n.total = Count[r]
      /\ r \in submitted /\ r \notin Range(inbox) /\ ~Sent(r) /\ replies[r] = 0
  <2>1. n \in Made /\ n \in Travelling
    BY <1>2, MadeAreNumbers DEF IInv, Made
  <2>2. n.id \in Ids /\ r \in Requests
    BY <1>2 DEF Numbers
  <2>3. n.total = Count[r] /\ r \in submitted /\ r \notin Range(inbox) /\ ~Sent(r)
    BY <2>1 DEF IInv, NumbersMade, SentWhole
  <2>4. replies[r] = 0
    BY <2>2, <2>3 DEF IInv, TypeOK, Sent
  <2> QED  BY <2>1, <2>2, <2>3, <2>4
<1>4. /\ new \in Seq(Numbers \cup {Stop}) /\ Len(new) = Count[r] + 1
      /\ Count[r] \in Nat /\ n.pos + 1 \in 1..Count[r] /\ new[n.pos + 1] = n
      /\ \A i \in 1..(Count[r] + 1) :
           i # n.pos + 1 =>
             new[i] = IF packages[n.id] = <<>> THEN Stop ELSE packages[n.id][i]
  BY <1>3, PackedSlots
<1>5. /\ Filled(new) \subseteq 1..Count[r]
      /\ Cardinality(Filled(new)) = Arrived(n)
      /\ Arrived(n) = Count[r] => \A i \in 1..Count[r] : new[i] # Stop
      /\ ShowsNumbers(new, r)
      /\ \A i \in 1..Count[r] :
           new[i] # Stop =>
             /\ new[i].id = n.id /\ new[i].req = r
             /\ new[i].pos = i - 1 /\ new[i] \in Made
  BY <1>2, PackSlots
<1>6. /\ msgQueue \in Seq(Packages \cup {Stop}) /\ package \in Packages
      /\ package # Stop /\ package.req = r /\ package.slots = new
  <2>1. package \in Packages
    BY <1>3, <1>4 DEF Packages
  <2> QED  BY <2>1, StopIsItself DEF IInv, TypeOK
<1>7. counters \in [Ids -> Nat] /\ packages \in [Ids -> Seq(Numbers \cup {Stop})]
  BY DEF IInv, TypeOK
<1> HIDE DEF package, new, n
<1>8. IF whole
      THEN /\ Len(msgQueue') = Len(msgQueue) + 1
           /\ \A i \in 1..Len(msgQueue) : msgQueue'[i] = msgQueue[i]
           /\ msgQueue'[Len(msgQueue) + 1] = package
           /\ Range(msgQueue') = Range(msgQueue) \cup {package}
      ELSE msgQueue' = msgQueue
  BY <1>1, <1>6, RangeAppend
<1>9. /\ \A id \in Ids : id # n.id =>
           packages'[id] = packages[id] /\ counters'[id] = counters[id]
      /\ packages'[n.id] = new /\ counters'[n.id] = Arrived(n)
  BY <1>1, <1>2, <1>3, <1>7
<1> HIDE DEF r, whole
<1>10. \A s : /\ Sent(s) => Sent(s)'
              /\ Sent(s)' => Sent(s) \/ (whole /\ s = r)
              /\ whole /\ s = r => Sent(s)'
              /\ Current(s)' <=> Current(s)
  <2>1. \A s : Current(s)' <=> Current(s)
    BY <1>1 DEF Current
  <2>2. CASE whole
    BY <1>1, <1>6, <1>8, <2>1, <2>2 DEF Sent
  <2>3. CASE ~whole
    BY <1>1, <1>8, <2>1, <2>3 DEF Sent
  <2> QED  BY <2>2, <2>3
<1>11. NumbersMade' /\ PagesShown' /\ NothingLost'
  <2>1. \A m \in Made : Alike(m, m)
    BY DEF Alike
  <2>2. \A m \in (Solved \cup Packaged)' : m.solved
    BY <1>2 DEF IInv, NumbersMade
  <2> QED  BY <1>1, <1>2, <2>1, <2>2, NumbersKept
<1>12. \A m \in Travelling' :
         packages'[m.id] # <<>> => packages'[m.id][m.pos + 1] = Stop
  <2> SUFFICES ASSUME NEW m \in Travelling', packages'[m.id] # <<>>
               PROVE  packages'[m.id][m.pos + 1] = Stop
    OBVIOUS
  <2>1. m \in Travelling /\ ~Same(m, n) /\ m \in Made /\ m \in Numbers
    BY <1>2, MadeAreNumbers DEF IInv
  <2>2. m.id \in Ids /\ m.pos \in Nat
    BY <2>1 DEF Numbers
  <2>3. CASE m.id # n.id
    BY <1>9, <2>1, <2>2, <2>3 DEF IInv, NumbersApart
  <2>4. CASE m.id = n.id
    <3>1. m.req = r /\ m.pos < Count[r] /\ m.pos # n.pos
      BY <1>3, <2>1, <2>4 DEF IInv, NumbersMade, Same, r
    <3>2. n.pos \in Nat
      BY <1>2 DEF Numbers
    <3>3. m.pos + 1 \in 1..(Count[r] + 1) /\ m.pos + 1 # n.pos + 1
      BY <1>4, <2>2, <3>1, <3>2, SMTT(20)
    <3>4. new[m.pos + 1] = IF packages[n.id] = <<>> THEN Stop
                                                    ELSE packages[n.id][m.pos + 1]
      BY <1>4, <3>3
    <3> QED  BY <1>9, <2>1, <2>4, <3>4 DEF IInv, NumbersApart
  <2> QED  BY <2>3, <2>4
<1>13. NumbersApart'
  <2>1. EachOnce(appQueue)'
    BY <1>1 DEF IInv, NumbersApart
  <2> QED  BY <1>1, <1>2, <1>12, <2>1 DEF IInv, NumbersApart
<1>14. PackagesFit'
  <2> SUFFICES ASSUME NEW id \in Ids, packages'[id] # <<>>
               PROVE  \E s \in Requests : PackageFits(id, s)'
    BY DEF PackagesFit, Ids
  <2>1. CASE id # n.id
    <3>1. PICK s \in Requests : PackageFits(id, s)
      BY <1>9, <2>1 DEF IInv, PackagesFit
    <3>2. PackageFits(id, s)'
      BY <1>9, <1>10, <2>1, <3>1 DEF PackageFits
    <3> QED  BY <3>2
  <2>2. CASE id = n.id
    <3>1. new[Count[r] + 1] = Stop
      <4>1. Count[r] + 1 \notin Filled(new) /\ Count[r] + 1 \in 1..Len(new)
        BY <1>4, <1>5
      <4> QED  BY <4>1 DEF Filled
    <3>2. n.pos + 1 \in Filled(new)
      BY <1>2, <1>4 DEF Filled
    <3>3. Count[r] > 0
      BY <1>4
    <3>4. ASSUME Arrived(n) = Count[r]  PROVE whole
      BY <1>3, <3>4 DEF whole, r
    <3>5. ASSUME NEW s \in Requests, s = r  PROVE PackageFits(id, s)'
      BY <1>4, <1>5, <1>9, <1>10, <2>2, <3>1, <3>2, <3>3, <3>4, <3>5 DEF PackageFits
    <3> QED  BY <1>3, <3>5
  <2> QED  BY <2>1, <2>2
<1>15. whole => (\A i \in 1..Count[r] : new[i] # Stop) /\ Whole(new, r)
  BY <1>3, <1>4, <1>5 DEF Whole, whole, r
<1>16. SentWhole'
  <2>1. ASSUME NEW m \in Travelling'  PROVE ~Sent(m.req)'
    <3>1. m \in Travelling /\ m \in Made /\ m \in Numbers
      BY <1>2, <2>1, MadeAreNumbers DEF IInv
    <3>2. ~Sent(m.req)
      BY <3>1 DEF IInv, SentWhole
    <3>3. ASSUME whole, m.req = r  PROVE FALSE
      <4>1. m.pos \in Nat /\ m.pos < Count[r] /\ m.id = n.id
        BY <1>3, <3>1, <3>3 DEF IInv, NumbersMade, Numbers, r
      <4>2. new[m.pos + 1] # Stop
        BY <1>4, <1>15, <3>3, <4>1
      <4>3. new # <<>>
        BY <1>4
      <4> QED  BY <1>9, <1>12, <4>1, <4>2, <4>3
    <3>4. \A s : s = m.req => ~Sent(s)'
      BY <1>10, <3>2, <3>3
    <3>5. \A s : s = m.req => (Sent(s)' <=> Sent(m.req)')
      BY <1>1 DEF Sent
    <3> QED  BY <3>4, <3>5
  <2>2. ASSUME NEW s \in Requests,
               s \notin submitted' \/ s \in Range(inbox)' \/ Current(s)'
        PROVE  ~Sent(s)'
    <3>1. s \notin submitted \/ s \in Range(inbox) \/ Current(s)
      BY <1>1, <1>10, <2>2
    <3>2. ~Sent(s)
      BY <3>1 DEF IInv, SentWhole
    <3>3. ASSUME whole, s = r  PROVE FALSE
      <4>1. Current(r) /\ analyzer.at \in {"produce", "home"} /\ analyzer.req = r
        BY <1>3, <3>1, <3>3 DEF Current
      <4>2. analyzer.at = "produce"
        BY <1>4, <4>1 DEF IInv, Locations
      <4>3. analyzer.next \in Nat /\ analyzer.next < Count[r]
        BY <4>1, <4>2, ProducedNumber
      <4>4. analyzer.next + 1 \in 1..Count[r] /\ new[analyzer.next + 1] # Stop
        BY <1>4, <1>15, <3>3, <4>3
      <4>5. /\ new[analyzer.next + 1] \in Made
            /\ new[analyzer.next + 1].req = r
            /\ new[analyzer.next + 1].pos = analyzer.next
        BY <1>5, <4>3, <4>4
      <4>6. new[analyzer.next + 1].pos < analyzer.next
        BY <4>1, <4>5 DEF IInv, NumbersMade
      <4> QED  BY <4>3, <4>5, <4>6
    <3> QED  BY <1>10, <3>2, <3>3
  <2>3. \A p \in Range(msgQueue') \ {Stop} : Whole(p.slots, p.req) /\ replies'[p.req] = 0
    <3>1. \A p \in Range(msgQueue) \ {Stop} : Whole(p.slots, p.req) /\ replies[p.req] = 0
      BY DEF IInv, SentWhole
    <3>2. whole => Whole(package.slots, package.req) /\ replies[package.req] = 0
      BY <1>3, <1>6, <1>15
    <3> QED  BY <1>1, <1>8, <3>1, <3>2
  <2>4. \A i, j \in 1..Len(msgQueue') :
          /\ msgQueue'[i] # Stop /\ msgQueue'[j] # Stop
          /\ msgQueue'[i].req = msgQueue'[j].req
          => i = j
    <3>1. CASE ~whole
      BY <1>8, <3>1 DEF IInv, SentWhole
    <3>2. CASE whole
      <4>1. \A i \in 1..Len(msgQueue) : msgQueue[i] # Stop => msgQueue[i].req # r
        <5>1. \A i \in 1..Len(msgQueue) : msgQueue[i] \in Range(msgQueue)
          BY <1>6, RangeType
        <5> QED  BY <1>3, <5>1 DEF Sent
      <4>2. Len(msgQueue) \in Nat
        BY <1>6
      <4>3. \A i, j \in 1..Len(msgQueue) :
              /\ msgQueue[i] # Stop /\ msgQueue[j] # Stop
              /\ msgQueue[i].req = msgQueue[j].req
              => i = j
        BY DEF IInv, SentWhole
      <4>4. \A i \in 1..Len(msgQueue') : i \in 1..Len(msgQueue) \/ i = Len(msgQueue) + 1
        BY <1>8, <3>2, <4>2
      <4> QED  BY <1>6, <1>8, <3>2, <4>1, <4>3, <4>4
    <3> QED  BY <3>1, <3>2
  <2> QED  BY <2>1, <2>2, <2>3, <2>4 DEF SentWhole
<1> QED
  BY <1>11, <1>13, <1>14, <1>16 DEF NumbersInv

\* A stop that is put in a queue of numbers or taken out of it.
LEMMA StopsAreNoNumbers ==
  ASSUME NEW q \in Seq(Numbers \cup {Stop}), EachOnce(q)
  PROVE  /\ EachOnce(Append(q, Stop))
         /\ Range(Append(q, Stop)) \ {Stop} = Range(q) \ {Stop}
         /\ q # <<>> /\ Head(q) = Stop =>
              /\ EachOnce(Tail(q))
              /\ Range(Tail(q)) \ {Stop} = Range(q) \ {Stop}
<1>1. EachOnce(Append(q, Stop))
  BY EachOnceAppend
<1>2. Range(Append(q, Stop)) = Range(q) \cup {Stop}
  BY RangeAppend
<1>3. ASSUME q # <<>>, Head(q) = Stop
      PROVE  EachOnce(Tail(q)) /\ Range(q) = {Stop} \cup Range(Tail(q))
  BY <1>3, EachOnceTail, RangeTail
<1> QED
  BY <1>1, <1>2, <1>3

\* The steps that move a stop through the pipeline, and the joins.
LEMMA StopNumbers ==
  ASSUME IInv,
         \/ AnalyzerStop \/ PackerCountStop \/ PackerStop \/ MsgStop \/ Join
         \/ \E k \in Calculators :
              CalculatorStop(k) \/ (CalculatorTake(k) /\ Head(appQueue) = Stop)
  PROVE  NumbersInv'
<1> USE DEF inputVars, analyzerVars, packerVars, heapVars, clientVars
<1>1. /\ EachOnce(appQueue) /\ EachOnce(packQueue) /\ TypeOK
      /\ appQueue \in Seq(Numbers \cup {Stop}) /\ packQueue \in Seq(Numbers \cup {Stop})
      /\ msgQueue \in Seq(Packages \cup {Stop})
      /\ \A i, j \in 1..Len(msgQueue) :
           /\ msgQueue[i] # Stop /\ msgQueue[j] # Stop
           /\ msgQueue[i].req = msgQueue[j].req
           => i = j
  BY DEF IInv, TypeOK, NumbersApart, SentWhole
<1>2. CASE AnalyzerStop
  <2>1. /\ appQueue' = Append(appQueue, Stop)
        /\ UNCHANGED <<inbox, submitted, cont, calculator, packQueue, packages,
                       counters, msgQueue, replies, page>>
    BY <1>2 DEF AnalyzerStop
  <2>2. Waiting' = Waiting /\ InSolution' = InSolution /\ Solved' = Solved
    BY <1>1, <2>1, StopsAreNoNumbers DEF Waiting, InSolution, Solved
  <2>3. EachOnce(appQueue)' /\ EachOnce(packQueue)'
    BY <1>1, <2>1, StopsAreNoNumbers
  <2>4. \A r : ~Current(r) /\ ~Current(r)'
    BY <1>2, StopRequests
  <2> QED  BY <1>1, <2>1, <2>2, <2>3, <2>4, NumbersFrame
<1>3. ASSUME NEW k \in Calculators,
             CalculatorStop(k) \/ (CalculatorTake(k) /\ Head(appQueue) = Stop)
      PROVE  NumbersInv'
  <2>1. UNCHANGED <<inbox, submitted, analyzer, cont, packages, counters,
                    msgQueue, replies, page>>
    BY <1>3 DEF CalculatorStop, CalculatorTake
  <2>2. \A l \in Calculators : calculator'[l].number = calculator[l].number
    <3>1. CASE CalculatorStop(k)
      <4>1. calculator' = [calculator EXCEPT ![k] = [calculator[k] EXCEPT !.at = "done"]]
        BY <3>1 DEF CalculatorStop
      <4>2. [calculator[k] EXCEPT !.at = "done"] \in CalculatorStates
        BY <1>1 DEF TypeOK, CalculatorStates
      <4>3. [calculator[k] EXCEPT !.at = "done"].number = calculator[k].number
        BY <1>1 DEF TypeOK, CalculatorStates
      <4> QED  BY <1>1, <4>1, <4>2, <4>3, CalculatorMove
    <3>2. CASE CalculatorTake(k) /\ Head(appQueue) = Stop
      <4>1. calculator' = [calculator EXCEPT ![k] = [at |-> "stop", number |-> Stop]]
        BY <3>2 DEF CalculatorTake
      <4>2. [at |-> "stop", number |-> Stop] \in CalculatorStates
        BY DEF CalculatorStates
      <4>3. calculator[k].number = Stop
        BY <3>2 DEF IInv, Locations, CalculatorTake
      <4> QED  BY <1>1, <4>1, <4>2, <4>3, CalculatorMove
    <3> QED  BY <1>3, <3>1, <3>2
  <2>3. InSolution' = InSolution
    BY <2>2 DEF InSolution
  <2>4. /\ Waiting' = Waiting /\ Solved' = Solved
        /\ EachOnce(appQueue)' /\ EachOnce(packQueue)'
    <3>1. CASE CalculatorStop(k)
      <4>1. packQueue' = Append(packQueue, Stop) /\ appQueue' = appQueue
        BY <3>1 DEF CalculatorStop
      <4> QED  BY <1>1, <4>1, StopsAreNoNumbers DEF Waiting, Solved
    <3>2. CASE CalculatorTake(k) /\ Head(appQueue) = Stop
      <4>1. appQueue # <<>> /\ appQueue' = Tail(appQueue) /\ packQueue' = packQueue
        BY <3>2 DEF CalculatorTake
      <4> QED  BY <1>1, <3>2, <4>1, StopsAreNoNumbers DEF Waiting, Solved
    <3> QED  BY <1>3, <3>1, <3>2
  <2> QED  BY <1>1, <2>1, <2>2, <2>3, <2>4, NumbersFrame
<1>4. CASE PackerCountStop
  <2>1. /\ packQueue # <<>> /\ Head(packQueue) = Stop /\ packQueue' = Tail(packQueue)
        /\ UNCHANGED <<inbox, submitted, analyzer, cont, appQueue, calculator,
                       packages, counters, msgQueue, replies, page>>
    BY <1>4 DEF PackerCountStop
  <2>2. /\ Waiting' = Waiting /\ InSolution' = InSolution /\ Solved' = Solved
        /\ EachOnce(appQueue)' /\ EachOnce(packQueue)'
    BY <1>1, <2>1, StopsAreNoNumbers DEF Waiting, InSolution, Solved
  <2> QED  BY <1>1, <2>1, <2>2, NumbersFrame
<1>5. ASSUME UNCHANGED <<inbox, submitted, analyzer, cont, appQueue, calculator,
                         packQueue, packages, counters, replies, page>>,
             Range(msgQueue)' \ {Stop} = Range(msgQueue) \ {Stop},
             \A i, j \in 1..Len(msgQueue') :
               /\ msgQueue'[i] # Stop /\ msgQueue'[j] # Stop
               /\ msgQueue'[i].req = msgQueue'[j].req
               => i = j
      PROVE  NumbersInv'
  <2>1. /\ Waiting' = Waiting /\ InSolution' = InSolution /\ Solved' = Solved
        /\ EachOnce(appQueue)' /\ EachOnce(packQueue)'
    BY <1>1, <1>5 DEF Waiting, InSolution, Solved
  <2> QED  BY <1>5, <2>1, NumbersFrame
<1>6. CASE PackerStop
  <2>1. /\ msgQueue' = Append(msgQueue, Stop)
        /\ UNCHANGED <<inbox, submitted, analyzer, cont, appQueue, calculator,
                       packQueue, packages, counters, replies, page>>
    BY <1>6 DEF PackerStop
  <2>2. /\ Range(msgQueue') = Range(msgQueue) \cup {Stop}
        /\ Len(msgQueue') = Len(msgQueue) + 1 /\ Len(msgQueue) \in Nat
        /\ \A i \in 1..Len(msgQueue) : msgQueue'[i] = msgQueue[i]
        /\ msgQueue'[Len(msgQueue) + 1] = Stop
    BY <1>1, <2>1, RangeAppend
  <2>3. \A i \in 1..Len(msgQueue') : msgQueue'[i] # Stop =>
          i \in 1..Len(msgQueue) /\ msgQueue'[i] = msgQueue[i]
    BY <2>2
  <2> QED  BY <1>1, <1>5, <2>1, <2>2, <2>3
<1>7. CASE MsgStop
  <2>1. /\ msgQueue # <<>> /\ Head(msgQueue) = Stop /\ msgQueue' = Tail(msgQueue)
        /\ UNCHANGED <<inbox, submitted, analyzer, cont, appQueue, calculator,
                       packQueue, packages, counters, replies, page>>
    BY <1>7 DEF MsgStop
  <2>2. /\ Range(msgQueue) = {Stop} \cup Range(msgQueue')
        /\ Len(msgQueue') = Len(msgQueue) - 1 /\ Len(msgQueue) \in Nat
        /\ \A i \in 1..Len(msgQueue') : msgQueue'[i] = msgQueue[i + 1]
    BY <1>1, <2>1, RangeTail
  <2>3. ASSUME NEW i \in 1..Len(msgQueue'), NEW j \in 1..Len(msgQueue'),
               msgQueue'[i] # Stop, msgQueue'[j] # Stop,
               msgQueue'[i].req = msgQueue'[j].req
        PROVE  i = j
    <3>1. /\ i + 1 \in 1..Len(msgQueue) /\ msgQueue'[i] = msgQueue[i + 1]
          /\ j + 1 \in 1..Len(msgQueue) /\ msgQueue'[j] = msgQueue[j + 1]
      BY <2>2
    <3>2. i + 1 = j + 1
      BY <1>1, <2>3, <3>1
    <3> QED  BY <3>2
  <2> QED  BY <1>5, <2>1, <2>2, <2>3
<1>8. CASE Join
  BY <1>1, <1>5, <1>8 DEF Join
<1> QED
  BY <1>2, <1>3, <1>4, <1>6, <1>7, <1>8

\* The numbers and the packages after every step.
LEMMA NumbersStep ==
  ASSUME IInv, Next
  PROVE  NumbersInv'
<1>1. CASE SubmitStop \/ AnalyzerTake \/ \E r \in Requests : Submit(r)
  BY <1>1, ArrivalNumbers
<1>2. CASE AnalyzerSteps
  BY <1>2, ProduceNumbers, HomepageNumbers, StopNumbers DEF AnalyzerSteps
<1>3. ASSUME NEW k \in Calculators, CalculatorSteps(k)  PROVE NumbersInv'
  BY <1>3, TakeNumbers, SolveNumbers, StopNumbers DEF CalculatorSteps
<1>4. CASE PackerSteps
  BY <1>4, PackNumbers, StopNumbers DEF PackerSteps
<1>5. CASE MsgSteps
  BY <1>5, ShowNumbers, StopNumbers DEF MsgSteps
<1>6. CASE Join
  BY <1>6, StopNumbers
<1> QED
  BY <1>1, <1>2, <1>3, <1>4, <1>5, <1>6 DEF Next, Steps

-----------------------------------------------------------------------------
(* The stops                                                               *)

StopsInv == AnalyzerStops /\ PackerCounts

\* What a calculator's move does to the number of them that stop or are done.
LEMMA CalculatorCounts ==
  ASSUME TypeOK, NEW k \in Calculators, NEW state \in CalculatorStates,
         calculator' = [calculator EXCEPT ![k] = state]
  PROVE  LET L == {"stop", "done"}
             D == {"done"}
         IN  /\ CalculatorsAt(L) \in Nat /\ CalculatorsAt(D) \in Nat
             /\ CalculatorsAt(L)'
                  = CalculatorsAt(L) + One(state.at, L) - One(calculator[k].at, L)
             /\ CalculatorsAt(D)'
                  = CalculatorsAt(D) + One(state.at, D) - One(calculator[k].at, D)
<1> DEFINE f == [l \in Calculators |-> calculator[l].at]
           g == [l \in Calculators |-> calculator'[l].at]
<1>1. /\ f[k] = calculator[k].at /\ g[k] = state.at
      /\ \A l \in Calculators \ {k} : g[l] = f[l]
  BY CalculatorMove
<1> HIDE DEF f, g
<1>2. \A L : /\ Cardinality(At(Calculators, f, L)) \in Nat
             /\ Cardinality(At(Calculators, g, L))
                  = Cardinality(At(Calculators, f, L)) + One(g[k], L) - One(f[k], L)
  BY <1>1, CalculatorsAssumption, MoveCounts
<1> QED
  BY <1>1, <1>2 DEF CalculatorsAt, f, g

\* As long as the analyzer works there is no stop behind it.
LEMMA NoStopYet ==
  ASSUME IInv, analyzer.at \notin {"stop", "done"}
  PROVE  /\ analyzer.stops = 0
         /\ \A i \in 1..Len(appQueue) : appQueue[i] # Stop
         /\ \A k \in Calculators : calculator[k].at \notin {"stop", "done"}
<1> DEFINE f == [k \in Calculators |-> calculator[k].at]
           stopped == At(Calculators, f, {"stop", "done"})
<1>1. stopped \subseteq Calculators
  BY DEF At
<1>2. IsFiniteSet(stopped) /\ Cardinality(stopped) \in Nat
  BY <1>1, CalculatorsAssumption, FS_Subset, FS_CardinalityType
<1>3. /\ Cardinality(Positions(Stop, appQueue)) \in Nat
      /\ Cardinality(Positions(Stop, appQueue)) = 0 =>
           \A i \in 1..Len(appQueue) : appQueue[i] # Stop
  BY CountType DEF IInv, TypeOK
<1>4. /\ analyzer.stops = 0
      /\ 0 = Cardinality(Positions(Stop, appQueue)) + Cardinality(stopped)
  BY DEF IInv, AnalyzerStops, CalculatorsAt
<1> HIDE DEF stopped
<1>5. stopped = {} /\ \A i \in 1..Len(appQueue) : appQueue[i] # Stop
  BY <1>2, <1>3, <1>4, FS_EmptySet
<1> QED
  BY <1>4, <1>5 DEF stopped, At

\* Steps that concern neither the stops nor the threads that count them.
LEMMA StopsFrame ==
  ASSUME IInv,
         UNCHANGED <<analyzer, appQueue, calculator, packQueue, packer>>
  PROVE  StopsInv'
<1>1. /\ CalculatorsAt({"stop", "done"})' = CalculatorsAt({"stop", "done"})
      /\ CalculatorsAt({"done"})' = CalculatorsAt({"done"})
  BY DEF CalculatorsAt
<1> QED
  BY <1>1 DEF IInv, StopsInv, AnalyzerStops, PackerCounts

\* The analyzer's steps: its stops come behind everything else.
LEMMA AnalyzerStopsStep ==
  ASSUME IInv, AnalyzerTake \/ AnalyzerSteps
  PROVE  StopsInv'
<1> USE DEF inputVars, analyzerVars, packerVars, heapVars, clientVars
<1>1. UNCHANGED <<calculator, packQueue, packer>>
  BY DEF AnalyzerTake, AnalyzerSteps, AnalyzerProduce, AnalyzerServeHomepage, AnalyzerStop
<1>2. /\ CalculatorsAt({"stop", "done"})' = CalculatorsAt({"stop", "done"})
      /\ CalculatorsAt({"done"})' = CalculatorsAt({"done"})
  BY <1>1 DEF CalculatorsAt
<1>3. PackerCounts'
  BY <1>1, <1>2 DEF IInv, PackerCounts
<1>4. /\ analyzer \in AnalyzerStates /\ appQueue \in Seq(Numbers \cup {Stop})
      /\ analyzer.stops \in Nat
  BY DEF IInv, TypeOK, AnalyzerStates
<1>5. AnalyzerStops /\ C \in Nat \ {0}
  BY CalculatorsFinite DEF IInv
<1>6. CASE AnalyzerTake
  <2>1. /\ analyzer.at = "take" /\ appQueue' = appQueue
        /\ analyzer'.at \in {"produce", "home", "stop"} /\ analyzer'.stops = 0
    BY <1>6 DEF AnalyzerTake
  <2>2. analyzer.stops = 0
    BY <1>5, <2>1 DEF AnalyzerStops
  <2>3. AnalyzerStops'
    BY <1>1, <1>2, <1>5, <2>1, <2>2 DEF AnalyzerStops
  <2> QED  BY <1>3, <2>3 DEF StopsInv
<1>7. CASE AnalyzerProduce
  <2> DEFINE n == Number(analyzer.req, analyzer.next, cont)
  <2>1. /\ analyzer.at = "produce" /\ appQueue' = Append(appQueue, n)
        /\ analyzer'.at \in {"take", "produce"} /\ analyzer'.stops = analyzer.stops
    BY <1>4, <1>7 DEF AnalyzerProduce, AnalyzerStates
  <2>2. n \in Numbers /\ n # Stop
    BY <2>1, ProducedNumber, StopIsItself
  <2> HIDE DEF n
  <2>3. /\ analyzer.stops = 0
        /\ \A i \in 1..Len(appQueue) : appQueue[i] # Stop
        /\ \A k \in Calculators : calculator[k].at \notin {"stop", "done"}
    BY <2>1, NoStopYet
  <2>4. Cardinality(Positions(Stop, appQueue')) = Cardinality(Positions(Stop, appQueue))
    <3>1. Cardinality(Positions(Stop, appQueue)) \in Nat
      BY <1>4, CountType
    <3> QED  BY <1>4, <2>1, <2>2, <3>1, CountAppend
  <2>5. \A i \in 1..Len(appQueue') : appQueue'[i] # Stop
    BY <1>4, <2>1, <2>2, <2>3, RangeAppend
  <2>6. AnalyzerStops'
    BY <1>1, <1>2, <1>5, <2>1, <2>3, <2>4, <2>5 DEF AnalyzerStops
  <2> QED  BY <1>3, <2>6 DEF StopsInv
<1>8. CASE AnalyzerServeHomepage
  <2>1. /\ analyzer.at = "home" /\ analyzer'.at = "take"
        /\ analyzer'.stops = analyzer.stops /\ appQueue' = appQueue
    BY <1>4, <1>8 DEF AnalyzerServeHomepage, AnalyzerStates
  <2>2. AnalyzerStops'
    BY <1>1, <1>2, <1>5, <2>1 DEF AnalyzerStops
  <2> QED  BY <1>3, <2>2 DEF StopsInv
<1>9. CASE AnalyzerStop
  <2> DEFINE location == IF analyzer.stops + 1 = C THEN "done" ELSE "stop"
  <2>1. /\ analyzer.at = "stop" /\ appQueue' = Append(appQueue, Stop)
        /\ analyzer' = [[analyzer EXCEPT !.stops = @ + 1] EXCEPT !.at = location]
    BY <1>9 DEF AnalyzerStop, C
  <2>2. /\ analyzer'.stops = analyzer.stops + 1 /\ analyzer'.at = location
    <3> HIDE DEF location
    <3> QED  BY <1>4, <2>1 DEF AnalyzerStates
  <2>3. analyzer.stops < C
    BY <1>5, <2>1 DEF AnalyzerStops
  <2>4. /\ Cardinality(Positions(Stop, appQueue')) = Cardinality(Positions(Stop, appQueue)) + 1
        /\ Cardinality(Positions(Stop, appQueue)) \in Nat
    BY <1>4, <2>1, CountAppend, CountType
  <2>5. /\ Len(appQueue') = Len(appQueue) + 1 /\ Len(appQueue) \in Nat
        /\ \A i \in 1..Len(appQueue) : appQueue'[i] = appQueue[i]
        /\ appQueue'[Len(appQueue) + 1] = Stop
        /\ Range(appQueue') = Range(appQueue) \cup {Stop}
    BY <1>4, <2>1, RangeAppend
  <2>6. \A i, j \in 1..Len(appQueue') :
          i < j /\ appQueue'[i] = Stop => appQueue'[j] = Stop
    BY <1>5, <2>5 DEF AnalyzerStops
  <2>7. \A k \in Calculators :
          calculator'[k].at \in {"stop", "done"} => Range(appQueue') \subseteq {Stop}
    BY <1>1, <1>5, <2>5 DEF AnalyzerStops
  <2>8. /\ analyzer'.at \in {"stop", "done"}
        /\ analyzer'.at = "stop" => analyzer'.stops < C
        /\ analyzer'.at = "done" => analyzer'.stops = C
    BY <1>4, <1>5, <2>2, <2>3
  <2>9. CalculatorsAt({"stop", "done"}) \in Nat
    <3> DEFINE at == [k \in Calculators |-> calculator[k].at]
    <3>1. At(Calculators, at, {"stop", "done"}) \subseteq Calculators
      BY DEF At
    <3>2. Cardinality(At(Calculators, at, {"stop", "done"})) \in Nat
      BY <3>1, CalculatorsAssumption, FS_Subset, FS_CardinalityType
    <3> QED  BY <3>2 DEF CalculatorsAt
  <2>10. analyzer'.stops
           = Cardinality(Positions(Stop, appQueue')) + CalculatorsAt({"stop", "done"})'
    <3>1. analyzer.stops
            = Cardinality(Positions(Stop, appQueue)) + CalculatorsAt({"stop", "done"})
      BY <1>5 DEF AnalyzerStops
    <3> QED  BY <1>2, <2>2, <2>4, <2>9, <3>1
  <2>11. AnalyzerStops'
    BY <2>6, <2>7, <2>8, <2>10 DEF AnalyzerStops, C
  <2> QED  BY <1>3, <2>11 DEF StopsInv
<1> QED
  BY <1>6, <1>7, <1>8, <1>9 DEF AnalyzerSteps

\* The calculators' steps: each passes on the one stop it takes.
LEMMA CalculatorStopsStep ==
  ASSUME IInv, NEW k \in Calculators, CalculatorSteps(k)
  PROVE  StopsInv'
<1> USE DEF inputVars, analyzerVars, packerVars, heapVars, clientVars
<1> DEFINE L == {"stop", "done"}
           D == {"done"}
<1>1. /\ TypeOK /\ AnalyzerStops /\ PackerCounts
      /\ appQueue \in Seq(Numbers \cup {Stop}) /\ packQueue \in Seq(Numbers \cup {Stop})
      /\ analyzer.stops \in Nat /\ packer.stops \in Nat
  BY DEF IInv, TypeOK, AnalyzerStates, PackerStates
<1>2. UNCHANGED <<analyzer, packer>>
  BY DEF CalculatorSteps, CalculatorTake, CalculatorSolve, CalculatorStop
<1>3. /\ Cardinality(Positions(Stop, appQueue)) \in Nat
      /\ Cardinality(Positions(Stop, packQueue)) \in Nat
  BY <1>1, CountType
<1>4. CASE CalculatorTake(k)
  <2> DEFINE head == Head(appQueue)
             state == [at |-> IF head = Stop THEN "stop" ELSE "solve", number |-> head]
  <2>1. /\ calculator[k].at = "take" /\ appQueue # <<>> /\ appQueue' = Tail(appQueue)
        /\ calculator' = [calculator EXCEPT ![k] = state]
        /\ packQueue' = packQueue
    BY <1>4 DEF CalculatorTake
  <2>2. /\ head \in Numbers \cup {Stop} /\ head = appQueue[1]
        /\ Len(appQueue) \in Nat \ {0} /\ Len(appQueue') = Len(appQueue) - 1
        /\ \A i \in 1..Len(appQueue') : appQueue'[i] = appQueue[i + 1]
        /\ Range(appQueue) = {head} \cup Range(appQueue')
        /\ appQueue' \in Seq(Numbers \cup {Stop})
    BY <1>1, <2>1, RangeTail
  <2>3. state \in CalculatorStates /\ state.at = IF head = Stop THEN "stop" ELSE "solve"
    BY <2>2 DEF CalculatorStates
  <2>4. Cardinality(Positions(Stop, appQueue))
          = Cardinality(Positions(Stop, appQueue')) + (IF head = Stop THEN 1 ELSE 0)
    BY <1>1, <2>1, CountTail
  <2>5. Cardinality(Positions(Stop, appQueue')) \in Nat
    BY <2>2, CountType
  <2> HIDE DEF head, state
  <2>6. /\ CalculatorsAt(L) \in Nat /\ CalculatorsAt(D) \in Nat
        /\ CalculatorsAt(L)' = CalculatorsAt(L) + (IF head = Stop THEN 1 ELSE 0)
        /\ CalculatorsAt(D)' = CalculatorsAt(D)
    <3>1. /\ CalculatorsAt(L) \in Nat /\ CalculatorsAt(D) \in Nat
          /\ CalculatorsAt(L)'
               = CalculatorsAt(L) + One(state.at, L) - One(calculator[k].at, L)
          /\ CalculatorsAt(D)'
               = CalculatorsAt(D) + One(state.at, D) - One(calculator[k].at, D)
      BY <1>1, <2>1, <2>3, CalculatorCounts
    <3>2. /\ One(state.at, L) = (IF head = Stop THEN 1 ELSE 0) /\ One(calculator[k].at, L) = 0
          /\ One(state.at, D) = 0 /\ One(calculator[k].at, D) = 0
      BY <2>1, <2>3 DEF One
    <3> QED  BY <3>1, <3>2
  <2>7. \A i, j \in 1..Len(appQueue') :
          i < j /\ appQueue'[i] = Stop => appQueue'[j] = Stop
    <3> SUFFICES ASSUME NEW i \in 1..Len(appQueue'), NEW j \in 1..Len(appQueue'),
                        i < j, appQueue'[i] = Stop
                 PROVE  appQueue'[j] = Stop
      OBVIOUS
    <3>1. i + 1 \in 1..Len(appQueue) /\ j + 1 \in 1..Len(appQueue) /\ i + 1 < j + 1
      BY <2>2
    <3> QED  BY <1>1, <2>2, <3>1 DEF AnalyzerStops
  <2>8. head = Stop => Range(appQueue') \subseteq {Stop}
    <3> SUFFICES ASSUME head = Stop, NEW x \in Range(appQueue')
                 PROVE  x = Stop
      OBVIOUS
    <3>1. PICK i \in 1..Len(appQueue') : appQueue'[i] = x
      BY <2>2, RangeType
    <3>2. 1 \in 1..Len(appQueue) /\ i + 1 \in 1..Len(appQueue) /\ 1 < i + 1
      BY <2>2, <3>1
    <3> QED  BY <1>1, <2>2, <3>1, <3>2 DEF AnalyzerStops
  <2>9. \A l \in Calculators : calculator'[l].at \in L => Range(appQueue') \subseteq {Stop}
    <3>1. calculator'[k] = state /\ \A l \in Calculators \ {k} : calculator'[l] = calculator[l]
      BY <1>1, <2>1, <2>3, CalculatorMove
    <3> QED  BY <1>1, <2>2, <2>3, <2>8, <3>1 DEF AnalyzerStops
  <2>10. AnalyzerStops'
    <3>1. analyzer'.stops = Cardinality(Positions(Stop, appQueue')) + CalculatorsAt(L)'
      BY <1>1, <1>2, <2>4, <2>5, <2>6 DEF AnalyzerStops
    <3> QED  BY <1>1, <1>2, <2>7, <2>9, <3>1 DEF AnalyzerStops
  <2>11. PackerCounts'
    <3>1. calculator'[k] = state
      BY <1>1, <2>1, <2>3, CalculatorMove
    <3>2. calculator'[k].at # "done"
      BY <2>3, <3>1
    <3> QED  BY <1>1, <1>2, <2>1, <2>6, <3>2 DEF PackerCounts
  <2> QED  BY <2>10, <2>11 DEF StopsInv
<1>5. CASE CalculatorSolve(k)
  <2> DEFINE n == [calculator[k].number EXCEPT !.solved = TRUE]
             state == [at |-> "take", number |-> Stop]
  <2>1. /\ calculator[k].at = "solve" /\ packQueue' = Append(packQueue, n)
        /\ calculator' = [calculator EXCEPT ![k] = state]
        /\ appQueue' = appQueue
    BY <1>5 DEF CalculatorSolve
  <2>2. calculator[k].number \in Numbers
    BY <2>1 DEF IInv, TypeOK, CalculatorStates, Locations
  <2>3. n \in Numbers /\ n # Stop /\ state \in CalculatorStates /\ state.at = "take"
    BY <2>2, StopIsItself DEF Numbers, CalculatorStates
  <2> HIDE DEF n, state
  <2>4. Cardinality(Positions(Stop, packQueue')) = Cardinality(Positions(Stop, packQueue))
    BY <1>1, <1>3, <2>1, <2>3, CountAppend
  <2>5. /\ CalculatorsAt(L)' = CalculatorsAt(L) /\ CalculatorsAt(D)' = CalculatorsAt(D)
    <3>1. /\ CalculatorsAt(L) \in Nat /\ CalculatorsAt(D) \in Nat
          /\ CalculatorsAt(L)'
               = CalculatorsAt(L) + One(state.at, L) - One(calculator[k].at, L)
          /\ CalculatorsAt(D)'
               = CalculatorsAt(D) + One(state.at, D) - One(calculator[k].at, D)
      BY <1>1, <2>1, <2>3, CalculatorCounts
    <3>2. /\ One(state.at, L) = 0 /\ One(calculator[k].at, L) = 0
          /\ One(state.at, D) = 0 /\ One(calculator[k].at, D) = 0
      BY <2>1, <2>3 DEF One
    <3> QED  BY <3>1, <3>2
  <2>6. calculator'[k] = state /\ \A l \in Calculators \ {k} : calculator'[l] = calculator[l]
    BY <1>1, <2>1, <2>3, CalculatorMove
  <2>7. AnalyzerStops'
    <3>1. \A l \in Calculators : calculator'[l].at \in L => calculator[l].at \in L
      BY <2>3, <2>6
    <3> QED  BY <1>1, <1>2, <2>1, <2>5, <3>1 DEF AnalyzerStops
  <2>8. PackerCounts'
    BY <1>1, <1>2, <2>3, <2>4, <2>5, <2>6 DEF PackerCounts
  <2> QED  BY <2>7, <2>8 DEF StopsInv
<1>6. CASE CalculatorStop(k)
  <2> DEFINE state == [calculator[k] EXCEPT !.at = "done"]
  <2>1. /\ calculator[k].at = "stop" /\ packQueue' = Append(packQueue, Stop)
        /\ calculator' = [calculator EXCEPT ![k] = state]
        /\ appQueue' = appQueue
    BY <1>6 DEF CalculatorStop
  <2>2. state \in CalculatorStates /\ state.at = "done"
    BY <1>1 DEF TypeOK, CalculatorStates
  <2> HIDE DEF state
  <2>3. Cardinality(Positions(Stop, packQueue')) = Cardinality(Positions(Stop, packQueue)) + 1
    BY <1>1, <1>3, <2>1, CountAppend
  <2>4. packQueue'[Len(packQueue')] = Stop
    BY <1>1, <2>1, RangeAppend
  <2>5. /\ CalculatorsAt(D) \in Nat
        /\ CalculatorsAt(L)' = CalculatorsAt(L) /\ CalculatorsAt(D)' = CalculatorsAt(D) + 1
    <3>1. /\ CalculatorsAt(L) \in Nat /\ CalculatorsAt(D) \in Nat
          /\ CalculatorsAt(L)'
               = CalculatorsAt(L) + One(state.at, L) - One(calculator[k].at, L)
          /\ CalculatorsAt(D)'
               = CalculatorsAt(D) + One(state.at, D) - One(calculator[k].at, D)
      BY <1>1, <2>1, <2>2, CalculatorCounts
    <3>2. /\ One(state.at, L) = 1 /\ One(calculator[k].at, L) = 1
          /\ One(state.at, D) = 1 /\ One(calculator[k].at, D) = 0
      BY <2>1, <2>2 DEF One
    <3> QED  BY <3>1, <3>2
  <2>6. calculator'[k] = state /\ \A l \in Calculators \ {k} : calculator'[l] = calculator[l]
    BY <1>1, <2>1, <2>2, CalculatorMove
  <2>7. AnalyzerStops'
    <3>1. \A l \in Calculators : calculator'[l].at \in L => calculator[l].at \in L
      BY <2>1, <2>6
    <3> QED  BY <1>1, <1>2, <2>1, <2>5, <3>1 DEF AnalyzerStops
  <2>8. PackerCounts'
    <3>1. packer'.stops + Cardinality(Positions(Stop, packQueue')) = CalculatorsAt(D)'
      BY <1>1, <1>2, <1>3, <2>3, <2>5 DEF PackerCounts
    <3> QED  BY <1>1, <1>2, <2>4, <3>1 DEF PackerCounts
  <2> QED  BY <2>7, <2>8 DEF StopsInv
<1> QED
  BY <1>4, <1>5, <1>6 DEF CalculatorSteps

\* The packer's steps: it counts the stops it takes.
LEMMA PackerStopsStep ==
  ASSUME IInv, PackerSteps
  PROVE  StopsInv'
<1> USE DEF inputVars, analyzerVars, packerVars, heapVars, clientVars
<1>1. UNCHANGED <<analyzer, appQueue, calculator>>
  BY DEF PackerSteps, PackerPack, PackerCountStop, PackerStop
<1>2. /\ CalculatorsAt({"stop", "done"})' = CalculatorsAt({"stop", "done"})
      /\ CalculatorsAt({"done"})' = CalculatorsAt({"done"})
  BY <1>1 DEF CalculatorsAt
<1>3. AnalyzerStops'
  BY <1>1, <1>2 DEF IInv, AnalyzerStops
<1>4. /\ PackerCounts /\ packer \in PackerStates /\ packer.stops \in Nat
      /\ packQueue \in Seq(Numbers \cup {Stop}) /\ C \in Nat \ {0}
      /\ Cardinality(Positions(Stop, packQueue)) \in Nat
  BY CalculatorsFinite, CountType DEF IInv, TypeOK, PackerStates
<1>5. ASSUME packQueue # <<>>, packQueue' = Tail(packQueue)
      PROVE  /\ Cardinality(Positions(Stop, packQueue'))
                  = Cardinality(Positions(Stop, packQueue))
                    - (IF Head(packQueue) = Stop THEN 1 ELSE 0)
             /\ (\A k \in Calculators : calculator'[k].at = "done") /\ packQueue' # <<>> =>
                  packQueue'[Len(packQueue')] = Stop
  <2>1. /\ packQueue' \in Seq(Numbers \cup {Stop})
        /\ Len(packQueue) \in Nat \ {0} /\ Len(packQueue') = Len(packQueue) - 1
        /\ \A i \in 1..Len(packQueue') : packQueue'[i] = packQueue[i + 1]
    BY <1>4, <1>5, RangeTail
  <2>2. /\ Cardinality(Positions(Stop, packQueue')) \in Nat
        /\ Cardinality(Positions(Stop, packQueue))
             = Cardinality(Positions(Stop, packQueue'))
               + (IF Head(packQueue) = Stop THEN 1 ELSE 0)
    BY <1>4, <1>5, <2>1, CountTail, CountType
  <2>3. ASSUME packQueue' # <<>>, \A k \in Calculators : calculator[k].at = "done"
        PROVE  packQueue'[Len(packQueue')] = Stop
    <3>1. Len(packQueue') \in 1..Len(packQueue') /\ Len(packQueue') + 1 = Len(packQueue)
      BY <2>1, <2>3, EmptySeq
    <3> QED  BY <1>4, <1>5, <2>1, <2>3, <3>1 DEF PackerCounts
  <2> QED  BY <1>1, <2>2, <2>3
<1>6. CASE PackerPack
  <2>1. /\ packQueue # <<>> /\ packQueue' = Tail(packQueue) /\ Head(packQueue) # Stop
        /\ packer' = packer
    BY <1>6 DEF PackerPack
  <2>2. Cardinality(Positions(Stop, packQueue')) = Cardinality(Positions(Stop, packQueue))
    BY <1>4, <1>5, <2>1
  <2>3. PackerCounts'
    BY <1>2, <1>4, <1>5, <2>1, <2>2 DEF PackerCounts
  <2> QED  BY <1>3, <2>3 DEF StopsInv
<1>7. CASE PackerCountStop
  <2> DEFINE location == IF packer.stops + 1 = C THEN "stop" ELSE "take"
  <2>1. /\ packQueue # <<>> /\ packQueue' = Tail(packQueue) /\ Head(packQueue) = Stop
        /\ packer.at = "take" /\ packer' = [stops |-> packer.stops + 1, at |-> location]
    BY <1>7 DEF PackerCountStop, C
  <2>2. Cardinality(Positions(Stop, packQueue')) = Cardinality(Positions(Stop, packQueue)) - 1
    BY <1>5, <2>1
  <2>3. /\ packer'.stops = packer.stops + 1 /\ packer'.at = location /\ packer.stops < C
    BY <1>4, <2>1 DEF PackerCounts
  <2>4. /\ packer'.at = "take" => packer'.stops < C
        /\ packer'.at # "take" => packer'.stops = C
    BY <1>4, <2>3
  <2>5. packer'.stops + Cardinality(Positions(Stop, packQueue')) = CalculatorsAt({"done"})'
    BY <1>2, <1>4, <2>2, <2>3 DEF PackerCounts
  <2>6. PackerCounts'
    BY <1>5, <2>1, <2>4, <2>5 DEF PackerCounts, C
  <2> QED  BY <1>3, <2>6 DEF StopsInv
<1>8. CASE PackerStop
  <2>1. packer.at = "stop" /\ packer'.at = "done" /\ packer'.stops = packer.stops
        /\ packQueue' = packQueue
    BY <1>4, <1>8 DEF PackerStop, PackerStates
  <2>2. PackerCounts'
    BY <1>1, <1>2, <1>4, <2>1 DEF PackerCounts
  <2> QED  BY <1>3, <2>2 DEF StopsInv
<1> QED
  BY <1>6, <1>7, <1>8 DEF PackerSteps

\* The stops in the first two queues after every step.
LEMMA StopsStep ==
  ASSUME IInv, Next
  PROVE  StopsInv'
<1> USE DEF inputVars, analyzerVars, packerVars, heapVars, clientVars
<1>1. CASE AnalyzerTake \/ AnalyzerSteps
  BY <1>1, AnalyzerStopsStep
<1>2. CASE \E k \in Calculators : CalculatorSteps(k)
  BY <1>2, CalculatorStopsStep
<1>3. CASE PackerSteps
  BY <1>3, PackerStopsStep
<1>4. CASE SubmitStop \/ Join \/ MsgSteps \/ \E r \in Requests : Submit(r)
  BY <1>4, StopsFrame DEF SubmitStop, Join, MsgSteps, MsgShow, MsgStop, Submit
<1> QED
  BY <1>1, <1>2, <1>3, <1>4 DEF Next, Steps

\* msg takes packages as long as the packer has not sent its stop behind them.
LEMMA MsgStopStep ==
  ASSUME IInv, Next
  PROVE  MsgStopsLast'
<1> USE DEF inputVars, analyzerVars, packerVars, heapVars, clientVars
<1>1. /\ MsgStopsLast /\ PackerCounts /\ msgQueue \in Seq(Packages \cup {Stop})
      /\ packer \in PackerStates
  BY DEF IInv, TypeOK
<1>2. ASSUME UNCHANGED <<packer, msg, msgQueue>>  PROVE MsgStopsLast'
  BY <1>1, <1>2 DEF MsgStopsLast
<1>3. CASE PackerPack
  <2> DEFINE package == [req |-> Head(packQueue).req, slots |-> Packed(Head(packQueue))]
  <2>1. /\ packer.at = "take" /\ packer' = packer /\ msg' = msg
        /\ msgQueue' \in {msgQueue, Append(msgQueue, package)}
    BY <1>3 DEF PackerPack
  <2>2. package \in Packages /\ package # Stop
    <3> DEFINE n == Head(packQueue)
    <3>1. n \in Solved /\ n \in Numbers
      BY <1>3, PackMoves
    <3> HIDE DEF n
    <3>2. n \in Made /\ n.req \in Requests
      BY <3>1 DEF Made, Numbers
    <3>3. Packed(n) \in Seq(Numbers \cup {Stop})
      BY <3>2, PackedSlots
    <3>4. [req |-> n.req, slots |-> Packed(n)] \in Packages
      BY <3>2, <3>3 DEF Packages
    <3> QED  BY <3>4, StopIsItself DEF n
  <2> HIDE DEF package
  <2>3. Stop \notin Range(msgQueue) /\ msg = "take"
    BY <1>1, <2>1 DEF MsgStopsLast
  <2>4. Stop \notin Range(msgQueue') /\ msgQueue' \in Seq(Packages \cup {Stop})
    <3>1. /\ Append(msgQueue, package) \in Seq(Packages \cup {Stop})
          /\ Range(Append(msgQueue, package)) = Range(msgQueue) \cup {package}
      BY <1>1, <2>2, RangeAppend
    <3>2. CASE msgQueue' = msgQueue
      BY <1>1, <2>3, <3>2
    <3>3. CASE msgQueue' = Append(msgQueue, package)
      BY <2>2, <2>3, <3>1, <3>3
    <3> QED  BY <2>1, <3>2, <3>3
  <2>5. \A i \in 1..Len(msgQueue') : msgQueue'[i] # Stop
    BY <2>4, RangeType
  <2> QED  BY <2>1, <2>3, <2>4, <2>5 DEF MsgStopsLast
<1>4. CASE PackerCountStop
  <2>1. /\ packer.at = "take" /\ packer'.at \in {"take", "stop"}
        /\ UNCHANGED <<msg, msgQueue>>
    BY <1>4 DEF PackerCountStop
  <2> QED  BY <1>1, <2>1 DEF MsgStopsLast
<1>5. CASE PackerStop
  <2>1. /\ packer.at = "stop" /\ packer'.at = "done" /\ msg' = msg
        /\ msgQueue' = Append(msgQueue, Stop)
    BY <1>1, <1>5 DEF PackerStop, PackerStates
  <2>2. Stop \notin Range(msgQueue) /\ msg = "take"
    BY <1>1, <2>1 DEF MsgStopsLast
  <2>3. /\ Len(msgQueue') = Len(msgQueue) + 1 /\ Len(msgQueue) \in Nat
        /\ \A i \in 1..Len(msgQueue) : msgQueue'[i] = msgQueue[i] /\ msgQueue[i] # Stop
        /\ Range(msgQueue') = Range(msgQueue) \cup {Stop}
    BY <1>1, <2>1, <2>2, RangeAppend, RangeType
  <2>4. \A i \in 1..Len(msgQueue') : msgQueue'[i] = Stop => i = Len(msgQueue')
    BY <2>3
  <2> QED  BY <2>1, <2>2, <2>3, <2>4 DEF MsgStopsLast
<1>6. ASSUME msg = "take", msgQueue # <<>>, msgQueue' = Tail(msgQueue)
      PROVE  /\ \A i \in 1..Len(msgQueue') : msgQueue'[i] = Stop => i = Len(msgQueue')
             /\ Range(msgQueue) = {Head(msgQueue)} \cup Range(msgQueue')
             /\ Head(msgQueue) = Stop => msgQueue' = <<>> /\ packer.at = "done"
  <2>1. /\ msgQueue' \in Seq(Packages \cup {Stop}) /\ Head(msgQueue) = msgQueue[1]
        /\ Len(msgQueue) \in Nat \ {0} /\ Len(msgQueue') = Len(msgQueue) - 1
        /\ \A i \in 1..Len(msgQueue') : msgQueue'[i] = msgQueue[i + 1]
        /\ Range(msgQueue) = {Head(msgQueue)} \cup Range(msgQueue')
    BY <1>1, <1>6, RangeTail
  <2>2. ASSUME NEW i \in 1..Len(msgQueue'), msgQueue'[i] = Stop
        PROVE  i = Len(msgQueue')
    <3>1. i + 1 \in 1..Len(msgQueue) /\ msgQueue[i + 1] = Stop
      BY <2>1, <2>2
    <3>2. i + 1 = Len(msgQueue)
      BY <1>1, <3>1 DEF MsgStopsLast
    <3> QED  BY <2>1, <3>2
  <2>3. ASSUME Head(msgQueue) = Stop  PROVE msgQueue' = <<>> /\ packer.at = "done"
    <3>1. 1 = Len(msgQueue) /\ packer.at = "done"
      BY <1>1, <2>1, <2>3 DEF MsgStopsLast
    <3>2. Len(msgQueue') = 0
      <4>1. Len(msgQueue') = Len(msgQueue) - 1
        BY <2>1
      <4> QED  BY <3>1, <4>1
    <3> QED  BY <2>1, <3>1, <3>2, EmptySeq
  <2> QED  BY <2>1, <2>2, <2>3
<1>7. CASE MsgShow
  <2>1. /\ msg = "take" /\ msgQueue # <<>> /\ msgQueue' = Tail(msgQueue)
        /\ Head(msgQueue) # Stop /\ UNCHANGED <<packer, msg>>
    BY <1>7 DEF MsgShow
  <2> QED  BY <1>1, <1>6, <2>1 DEF MsgStopsLast
<1>8. CASE MsgStop
  <2>1. /\ msg = "take" /\ msgQueue # <<>> /\ msgQueue' = Tail(msgQueue)
        /\ Head(msgQueue) = Stop /\ packer' = packer /\ msg' = "done"
    BY <1>8 DEF MsgStop
  <2>2. /\ msgQueue' = <<>> /\ packer'.at = "done"
        /\ \A i \in 1..Len(msgQueue') : msgQueue'[i] = Stop => i = Len(msgQueue')
    BY <1>6, <2>1
  <2> QED  BY <2>1, <2>2 DEF MsgStopsLast
<1>9. CASE \/ AnalyzerTake \/ AnalyzerSteps \/ SubmitStop \/ Join
           \/ \E r \in Requests : Submit(r)
           \/ \E k \in Calculators : CalculatorSteps(k)
  BY <1>2, <1>9
     DEF AnalyzerTake, AnalyzerSteps, AnalyzerProduce, AnalyzerServeHomepage,
         AnalyzerStop, SubmitStop, Join, Submit, CalculatorSteps, CalculatorTake,
         CalculatorSolve, CalculatorStop
<1> QED
  BY <1>3, <1>4, <1>5, <1>7, <1>8, <1>9 DEF Next, Steps, PackerSteps, MsgSteps

\* A thread that has ended makes no step, so that what a join has seen stays so.
LEMMA JoinStep ==
  ASSUME IInv, Next
  PROVE  JoinsInOrder'
<1> USE DEF inputVars, analyzerVars, packerVars, heapVars, clientVars
<1>1. JoinsInOrder /\ InboxInOrder /\ joined \in 0..4 /\ TypeOK
  BY DEF IInv, TypeOK
<1>2. SUFFICES /\ \A i \in 0..3 : Finished(i) => Finished(i)'
               /\ open' => open
               /\ joined' = joined \/ (joined' = joined + 1 /\ ~open' /\ Finished(joined))
  <2>1. ASSUME NEW i \in 0..3, Finished(i) => Finished(i)', i < joined'
        PROVE  Finished(i)'
    <3>1. i < joined \/ (i = joined /\ Finished(i))
      BY <1>1, <1>2, <2>1
    <3> QED  BY <1>1, <2>1, <3>1 DEF JoinsInOrder
  <2>2. joined' > 0 => ~open'
    BY <1>1, <1>2 DEF JoinsInOrder
  <2> QED  BY <1>1, <1>2, <2>1, <2>2 DEF JoinsInOrder
<1>3. analyzer.at = "done" => analyzer'.at = "done"
  BY DEF Next, Steps, Submit, SubmitStop, AnalyzerTake, AnalyzerSteps, AnalyzerProduce,
         AnalyzerServeHomepage, AnalyzerStop, CalculatorSteps, CalculatorTake,
         CalculatorSolve, CalculatorStop, PackerSteps, PackerPack, PackerCountStop,
         PackerStop, MsgSteps, MsgShow, MsgStop, Join
<1>4. packer.at = "done" => packer'.at = "done"
  BY DEF Next, Steps, Submit, SubmitStop, AnalyzerTake, AnalyzerSteps, AnalyzerProduce,
         AnalyzerServeHomepage, AnalyzerStop, CalculatorSteps, CalculatorTake,
         CalculatorSolve, CalculatorStop, PackerSteps, PackerPack, PackerCountStop,
         PackerStop, MsgSteps, MsgShow, MsgStop, Join
<1>5. msg = "done" => msg' = "done"
  BY DEF Next, Steps, Submit, SubmitStop, AnalyzerTake, AnalyzerSteps, AnalyzerProduce,
         AnalyzerServeHomepage, AnalyzerStop, CalculatorSteps, CalculatorTake,
         CalculatorSolve, CalculatorStop, PackerSteps, PackerPack, PackerCountStop,
         PackerStop, MsgSteps, MsgShow, MsgStop, Join
<1>6. ASSUME \A k \in Calculators : calculator[k].at = "done"  PROVE calculator' = calculator
  BY <1>6 DEF Next, Steps, Submit, SubmitStop, AnalyzerTake, AnalyzerSteps,
         AnalyzerProduce, AnalyzerServeHomepage, AnalyzerStop, CalculatorSteps,
         CalculatorTake, CalculatorSolve, CalculatorStop, PackerSteps, PackerPack,
         PackerCountStop, PackerStop, MsgSteps, MsgShow, MsgStop, Join
<1>7. open' => open
  BY DEF Next, Steps, Submit, SubmitStop, AnalyzerTake, AnalyzerSteps, AnalyzerProduce,
         AnalyzerServeHomepage, AnalyzerStop, CalculatorSteps, CalculatorTake,
         CalculatorSolve, CalculatorStop, PackerSteps, PackerPack, PackerCountStop,
         PackerStop, MsgSteps, MsgShow, MsgStop, Join
<1>8. joined' = joined \/ (joined' = joined + 1 /\ ~open' /\ Finished(joined))
  BY DEF Next, Steps, Submit, SubmitStop, AnalyzerTake, AnalyzerSteps, AnalyzerProduce,
         AnalyzerServeHomepage, AnalyzerStop, CalculatorSteps, CalculatorTake,
         CalculatorSolve, CalculatorStop, PackerSteps, PackerPack, PackerCountStop,
         PackerStop, MsgSteps, MsgShow, MsgStop, Join
<1>9. \A i \in 0..3 : Finished(i) => Finished(i)'
  <2> SUFFICES ASSUME NEW i \in 0..3, Finished(i)  PROVE Finished(i)'
    OBVIOUS
  <2>1. CASE i = 0
    BY <1>3, <2>1 DEF Finished
  <2>2. CASE i = 1
    BY <1>6, <2>2 DEF Finished
  <2>3. CASE i = 2
    BY <1>4, <2>3 DEF Finished
  <2>4. CASE i = 3
    BY <1>5, <2>4 DEF Finished
  <2> QED  BY <2>1, <2>2, <2>3, <2>4
<1> QED
  BY <1>7, <1>8, <1>9

-----------------------------------------------------------------------------
(* The invariant                                                           *)

\* IInv is inductive.
LEMMA Inductive == IInv /\ [Next]_vars => IInv'
<1> SUFFICES ASSUME IInv, [Next]_vars  PROVE IInv'
  OBVIOUS
<1>1. CASE Next
  <2>1. TypeOK'
    BY <1>1, TypeStep
  <2>2. Locations'
    BY <1>1, LocationsStep
  <2>3. InboxInOrder' /\ ObjectsOwned' /\ IdsCounted'
    BY <1>1, RequestsStep
  <2>4. NumbersInv'
    BY <1>1, NumbersStep
  <2>5. StopsInv'
    BY <1>1, StopsStep
  <2>6. MsgStopsLast' /\ JoinsInOrder'
    BY <1>1, MsgStopStep, JoinStep
  <2> QED
    BY <2>1, <2>2, <2>3, <2>4, <2>5, <2>6 DEF IInv, NumbersInv, StopsInv
<1>2. CASE UNCHANGED vars
  <2> USE <1>2 DEF vars
  <2>1. TypeOK'
    BY DEF IInv, TypeOK
  <2>2. Locations'
    BY DEF IInv, Locations, Current
  <2>3. InboxInOrder' /\ ObjectsOwned' /\ IdsCounted'
    BY RequestsFrame
  <2>4. NumbersInv'
    <3>1. Waiting' = Waiting /\ InSolution' = InSolution /\ Solved' = Solved
      BY DEF Waiting, InSolution, Solved
    <3>2. EachOnce(appQueue)' /\ EachOnce(packQueue)'
      BY DEF IInv, NumbersApart
    <3>3. \A i, j \in 1..Len(msgQueue') :
            /\ msgQueue'[i] # Stop /\ msgQueue'[j] # Stop
            /\ msgQueue'[i].req = msgQueue'[j].req
            => i = j
      BY DEF IInv, SentWhole
    <3> QED  BY <3>1, <3>2, <3>3, NumbersFrame
  <2>5. StopsInv'
    BY StopsFrame
  <2>6. MsgStopsLast'
    BY DEF IInv, MsgStopsLast
  <2>7. JoinsInOrder'
    BY DEF IInv, JoinsInOrder, Finished
  <2> QED
    BY <2>1, <2>2, <2>3, <2>4, <2>5, <2>6, <2>7 DEF IInv, NumbersInv, StopsInv
<1> QED
  BY <1>1, <1>2

\* Every reachable state satisfies the inductive invariant.
LEMMA Invariance == SafeSpec => []IInv
BY InitIInv, Inductive, PTL DEF SafeSpec

\* What is in the variables: queues of numbers, of packages and of stops.
THEOREM TypeCorrect == SafeSpec => []TypeOK
<1>1. IInv => TypeOK
  BY DEF IInv
<1> QED
  BY <1>1, Invariance, PTL

\* A request that is in the inbox or being produced, a number and a package
\* find the objects they point to, in every interleaving of the threads.
THEOREM PointersHold == SafeSpec => []PointersValid
<1>1. IInv => PointersValid
  <2> SUFFICES ASSUME IInv  PROVE PointersValid
    OBVIOUS
  <2>1. /\ submitted \subseteq Requests /\ replies \in [Requests -> Nat]
        /\ \A r \in Requests : ~Sent(r) => replies[r] = 0
    BY DEF IInv, TypeOK, Sent
  <2>2. ASSUME NEW r \in submitted, r \in Range(inbox) \/ Current(r)
        PROVE  r \in requestObjs \cap responseObjs
    <3>1. replies[r] = 0
      BY <2>1, <2>2 DEF IInv, SentWhole
    <3> QED  BY <2>2, <3>1 DEF IInv, ObjectsOwned
  <2>3. \A r \in Range(inbox) \ {Stop} : r \in requestObjs \cap responseObjs
    BY <2>2 DEF IInv, InboxInOrder
  <2>4. analyzer.at \in {"produce", "home"} =>
          analyzer.req \in requestObjs \cap responseObjs
    <3> SUFFICES ASSUME analyzer.at \in {"produce", "home"}
                 PROVE  analyzer.req \in requestObjs \cap responseObjs
      OBVIOUS
    <3>1. Current(analyzer.req) /\ analyzer.req \in submitted
      BY DEF IInv, Locations, Current
    <3> QED  BY <2>2, <3>1
  <2>5. ASSUME NEW n \in Travelling  PROVE n.req \in responseObjs
    <3>1. n \in Made /\ n.req \in submitted /\ ~Sent(n.req)
      BY MadeAreNumbers DEF IInv, NumbersMade, SentWhole
    <3> QED  BY <2>1, <3>1 DEF IInv, ObjectsOwned
  <2>6. ASSUME NEW p \in Range(msgQueue) \ {Stop}  PROVE p.req \in responseObjs
    <3>1. p \in Packages /\ p.req \in Requests
      BY RangeType DEF IInv, TypeOK, Packages
    <3>2. Sent(p.req) /\ replies[p.req] = 0
      BY DEF Sent, IInv, SentWhole
    <3>3. p.req \in submitted
      BY <3>1, <3>2 DEF IInv, SentWhole
    <3> QED  BY <3>2, <3>3 DEF IInv, ObjectsOwned
  <2> QED  BY <2>3, <2>4, <2>5, <2>6 DEF PointersValid
<1> QED
  BY <1>1, Invariance, PTL

\* The page of a request shows its numbers, however many calculators race.
THEOREM PagesRight == SafeSpec => []PageShowsRequest
<1>1. IInv => PageShowsRequest
  BY DEF IInv, PagesShown
<1> QED
  BY <1>1, Invariance, PTL

-----------------------------------------------------------------------------
(* The end of the pipeline                                                 *)

\* When the packer has counted all stops, the calculators and the two queues
\* before them are empty.
LEMMA PackerSeesTheEnd ==
  ASSUME IInv, packer.at # "take"
  PROVE  /\ \A k \in Calculators : calculator[k].at = "done"
         /\ analyzer.at \in {"stop", "done"} /\ inbox = <<>>
         /\ packQueue = <<>> /\ Range(appQueue) \subseteq {Stop}
         /\ Travelling = {}
<1> DEFINE f == [k \in Calculators |-> calculator[k].at]
           finished == At(Calculators, f, {"done"})
           stopped == At(Calculators, f, {"stop", "done"})
<1>1. /\ finished \subseteq Calculators /\ stopped \subseteq Calculators
      /\ finished \subseteq stopped
  BY DEF At
<1>2. /\ IsFiniteSet(finished) /\ Cardinality(finished) \in Nat
      /\ IsFiniteSet(stopped) /\ Cardinality(stopped) \in Nat
      /\ C \in Nat \ {0} /\ Cardinality(finished) <= C
      /\ Cardinality(finished) = C => finished = Calculators
  BY <1>1, CalculatorsAssumption, CalculatorsFinite, FS_Subset, FS_CardinalityType DEF C
<1>3. /\ packQueue \in Seq(Numbers \cup {Stop}) /\ appQueue \in Seq(Numbers \cup {Stop})
      /\ Cardinality(Positions(Stop, packQueue)) \in Nat
      /\ Cardinality(Positions(Stop, packQueue)) = 0 =>
           \A i \in 1..Len(packQueue) : packQueue[i] # Stop
      /\ Cardinality(Positions(Stop, appQueue)) \in Nat
  BY CountType DEF IInv, TypeOK
<1>4. /\ packer.stops = C
      /\ packer.stops + Cardinality(Positions(Stop, packQueue)) = Cardinality(finished)
      /\ analyzer.stops = Cardinality(Positions(Stop, appQueue)) + Cardinality(stopped)
  BY DEF IInv, PackerCounts, AnalyzerStops, CalculatorsAt
<1> HIDE DEF finished, stopped
<1>5. finished = Calculators /\ \A i \in 1..Len(packQueue) : packQueue[i] # Stop
  BY <1>2, <1>3, <1>4
<1>6. \A k \in Calculators : calculator[k].at = "done"
  BY <1>5 DEF finished, At
<1>7. packQueue = <<>>
  <2> SUFFICES ASSUME packQueue # <<>>  PROVE FALSE
    OBVIOUS
  <2>1. packQueue[Len(packQueue)] = Stop /\ Len(packQueue) \in 1..Len(packQueue)
    BY <1>3, <1>6, EmptySeq DEF IInv, PackerCounts
  <2> QED  BY <1>5, <2>1
<1>8. Range(appQueue) \subseteq {Stop}
  BY <1>6, CalculatorsAssumption DEF IInv, AnalyzerStops
<1>9. analyzer.at \in {"stop", "done"} /\ inbox = <<>>
  <2>1. stopped = Calculators
    BY <1>1, <1>5
  <2>2. analyzer.stops # 0
    BY <1>2, <1>3, <1>4, <2>1 DEF C
  <2> QED  BY <2>2 DEF IInv, AnalyzerStops, InboxInOrder
<1>10. Travelling = {}
  <2>1. \A k \in Calculators : calculator[k].number = Stop
    BY <1>6 DEF IInv, Locations
  <2>2. Range(packQueue) = {}
    BY <1>3, <1>7, RangeType
  <2> QED  BY <1>8, <2>1, <2>2 DEF Travelling
<1> QED
  BY <1>6, <1>7, <1>8, <1>9, <1>10

\* When no number travels and all of a request's numbers have been made, its
\* package has been sent.
LEMMA AllPacked ==
  ASSUME IInv, Travelling = {}, NEW r \in submitted, Count[r] > 0,
         r \notin Range(inbox), ~Current(r)
  PROVE  Sent(r)
<1>1. r \in Requests /\ Count[r] \in Nat
  BY RequestsAssumption DEF IInv, TypeOK
<1>2. \A p \in 0..(Count[r] - 1) : \E n \in Packaged : n.req = r /\ n.pos = p
  <2>1. Made = Packaged
    BY MadeAreNumbers DEF IInv
  <2> QED  BY <1>1, <2>1 DEF IInv, NothingLost
<1>3. ASSUME NEW n \in Packaged, n.req = r
      PROVE  /\ n.id \in Ids /\ packages[n.id] # <<>> /\ PackageFits(n.id, r)
             /\ n.pos \in Nat /\ packages[n.id][n.pos + 1] = n /\ n # Stop
  <2>1. PICK id \in Ids : \E i \in 1..Len(packages[id]) :
                            n # Stop /\ packages[id][i] = n
    BY PackagedHasSlot DEF IInv
  <2>2. PICK i \in 1..Len(packages[id]) : n # Stop /\ packages[id][i] = n
    BY <2>1
  <2>3. packages[id] # <<>>
    BY <2>2
  <2>4. PICK s \in Requests : PackageFits(id, s)
    BY <2>3 DEF IInv, PackagesFit
  <2>5. Count[s] \in Nat /\ i \in 1..Count[s]
    BY <2>2, <2>4, RequestsAssumption DEF PackageFits
  <2>6. n.id = id /\ n.req = s /\ n.pos = i - 1
    BY <2>2, <2>4, <2>5 DEF PackageFits, ShowsNumbers
  <2>7. n.pos + 1 = i /\ n.pos \in Nat
    BY <2>5, <2>6
  <2> QED  BY <1>3, <2>2, <2>3, <2>4, <2>6, <2>7
<1>4. PICK m \in Packaged : m.req = r
  <2>1. 0 \in 0..(Count[r] - 1)
    BY <1>1
  <2> QED  BY <1>2, <2>1
<1> DEFINE slots == packages[m.id]
<1>5. PackageFits(m.id, r)
  BY <1>3, <1>4
<1>6. ASSUME NEW i \in 1..Count[r]  PROVE slots[i] # Stop
  <2>1. i - 1 \in 0..(Count[r] - 1) /\ (i - 1) + 1 = i
    BY <1>1
  <2>2. PICK n \in Packaged : n.req = r /\ n.pos = i - 1
    BY <1>2, <2>1
  <2>3. packages[n.id][i] = n /\ n # Stop
    BY <1>3, <2>1, <2>2
  <2>4. n.id = m.id
    BY <1>4, <2>2 DEF IInv, NumbersMade, Made
  <2> QED  BY <2>3, <2>4
<1>7. Filled(slots) = 1..Count[r]
  <2>1. Len(slots) = Count[r] + 1 /\ slots[Count[r] + 1] = Stop
    BY <1>5 DEF PackageFits
  <2>2. \A i \in 1..Len(slots) : i \in 1..Count[r] \/ i = Count[r] + 1
    BY <1>1, <2>1
  <2>3. \A i \in 1..Count[r] : i \in 1..Len(slots)
    BY <1>1, <2>1
  <2> HIDE DEF slots
  <2> QED  BY <1>6, <2>1, <2>2, <2>3 DEF Filled
<1>8. Cardinality(1..Count[r]) = Count[r]
  <2> DEFINE c == Count[r]
  <2>1. c \in Nat
    BY <1>1
  <2> HIDE DEF c
  <2>2. Cardinality(1..c) = IF 1 > c THEN 0 ELSE c - 1 + 1
    BY <2>1, FS_Interval
  <2>3. Cardinality(1..c) = c
    BY <2>1, <2>2
  <2> QED  BY <2>3 DEF c
<1> QED
  BY <1>5, <1>7, <1>8 DEF PackageFits

\* FactPacker::run() sends its stop behind the whole work, for any number of
\* calculators and requests.
THEOREM PackerLast == SafeSpec => []PackerStopsLast
<1>1. IInv => PackerStopsLast
  <2> SUFFICES ASSUME IInv, packer.at # "take"
               PROVE  Travelling = {} /\ \A r \in submitted : Count[r] > 0 => Sent(r)
    BY DEF PackerStopsLast, Sent
  <2>1. /\ Travelling = {} /\ inbox = <<>> /\ analyzer.at \in {"stop", "done"}
    BY PackerSeesTheEnd
  <2>2. \A r : r \notin Range(inbox) /\ ~Current(r)
    <3>1. Range(inbox) = {}
      BY <2>1, RangeType DEF IInv, TypeOK
    <3> QED  BY <2>1, <3>1 DEF Current
  <2> QED  BY <2>1, <2>2, AllPacked
<1> QED
  BY <1>1, Invariance, PTL

\* When the four kinds of threads have ended, their queues are empty and every
\* request has been answered and deleted.
LEMMA EndedMeansEmpty ==
  ASSUME IInv, \A i \in 0..3 : Finished(i)
  PROVE  /\ analyzer.at = "done" /\ packer.at = "done" /\ msg = "done"
         /\ \A k \in Calculators : calculator[k].at = "done"
         /\ inbox = <<>> /\ appQueue = <<>> /\ packQueue = <<>> /\ msgQueue = <<>>
         /\ requestObjs = {} /\ responseObjs = {} /\ held = {}
<1>1. /\ analyzer.at = "done" /\ packer.at = "done" /\ msg = "done"
      /\ \A k \in Calculators : calculator[k].at = "done"
  <2>1. Finished(0) /\ Finished(1) /\ Finished(2) /\ Finished(3)
    OBVIOUS
  <2> QED  BY <2>1 DEF Finished
<1>2. /\ inbox = <<>> /\ packQueue = <<>> /\ Range(appQueue) \subseteq {Stop}
      /\ Travelling = {}
  BY <1>1, PackerSeesTheEnd
<1>3. msgQueue = <<>>
  BY <1>1 DEF IInv, MsgStopsLast
<1>4. Range(inbox) = {} /\ Range(msgQueue) = {}
  BY <1>2, <1>3, RangeType DEF IInv, TypeOK
<1>5. appQueue = <<>>
  <2> DEFINE f == [k \in Calculators |-> calculator[k].at]
             stopped == At(Calculators, f, {"stop", "done"})
  <2>1. stopped = Calculators
    BY <1>1 DEF At
  <2>2. /\ analyzer.stops = C
        /\ analyzer.stops = Cardinality(Positions(Stop, appQueue)) + Cardinality(stopped)
    BY <1>1 DEF IInv, AnalyzerStops, CalculatorsAt
  <2> HIDE DEF stopped
  <2>3. appQueue \in Seq(Numbers \cup {Stop})
    BY DEF IInv, TypeOK
  <2>4. Cardinality(Positions(Stop, appQueue)) \in Nat /\ C \in Nat
    BY <2>3, CountType, CalculatorsFinite
  <2>5. Cardinality(Positions(Stop, appQueue)) = 0
    BY <2>1, <2>2, <2>4 DEF C
  <2>6. \A i \in 1..Len(appQueue) : appQueue[i] # Stop
    BY <2>3, <2>5, CountType
  <2>7. \A x \in Range(appQueue) : FALSE
    BY <1>2, <2>3, <2>6, RangeType
  <2> QED  BY <2>3, <2>7, RangeType
<1>6. \A r : ~Current(r)
  BY <1>1 DEF Current
<1>7. \A r \in submitted : replies[r] # 0
  <2> SUFFICES ASSUME NEW r \in submitted  PROVE replies[r] # 0
    OBVIOUS
  <2>1. CASE Count[r] > 0
    <3>1. Sent(r)
      BY <1>2, <1>4, <1>6, <2>1, AllPacked
    <3>2. replies[r] > 0
      BY <1>4, <3>1 DEF Sent
    <3> QED  BY <3>2
  <2>2. CASE ~(Count[r] > 0)
    <3>1. replies[r] > 0
      BY <1>4, <1>6, <2>2 DEF IInv, NothingLost
    <3> QED  BY <3>1
  <2> QED  BY <2>1, <2>2
<1>8. requestObjs = {} /\ responseObjs = {} /\ held = {}
  BY <1>4, <1>6, <1>7 DEF IInv, ObjectsOwned, held
<1> QED
  BY <1>1, <1>2, <1>3, <1>5, <1>8

\* WebApp::stop() deletes threads that have ended and queues that are empty, and
\* leaks no request or response.
THEOREM DeletesLast == SafeSpec => []DeletesIdleThreads
<1>1. IInv => DeletesIdleThreads
  <2> SUFFICES ASSUME IInv, joined = 4  PROVE DeletesIdleThreads
    BY DEF DeletesIdleThreads
  <2>1. \A i \in 0..3 : Finished(i)
    BY DEF IInv, JoinsInOrder
  <2> QED  BY <2>1, EndedMeansEmpty DEF DeletesIdleThreads
<1> QED
  BY <1>1, Invariance, PTL

-----------------------------------------------------------------------------
(* The pipeline implements AppService                                      *)

\* Steps inside the application change nothing the server can see.
LEMMA HiddenStep ==
  ASSUME UNCHANGED <<inbox, open, submitted, replies, joined>>
  PROVE  UNCHANGED Service!serviceVars
BY DEF Service!serviceVars, phase, held

\* Every step is one of the service's or hidden in the application.
LEMMA ServiceStep ==
  ASSUME IInv, Next
  PROVE  [Service!Next]_(Service!serviceVars)
<1> USE DEF inputVars, analyzerVars, packerVars, heapVars, clientVars
<1>1. /\ TypeOK /\ InboxInOrder /\ JoinsInOrder /\ joined \in 0..4
      /\ submitted \subseteq Requests /\ replies \in [Requests -> Nat]
      /\ Stop \notin Requests
  BY StopIsItself DEF IInv, TypeOK
<1>2. \A r \in Requests : ~Sent(r) => replies[r] = 0
  BY <1>1 DEF Sent
<1>3. ASSUME NEW r \in Requests, Submit(r)  PROVE Service!Next
  <2>1. /\ open /\ open' = open /\ inbox' = Append(inbox, r)
        /\ submitted' = submitted \cup {r} /\ replies' = replies
        /\ Range(inbox)' = Range(inbox) \cup {r}
    BY <1>3, SubmitRequests DEF Submit
  <2>2. phase = "open" /\ phase' = "open"
    BY <2>1 DEF phase
  <2>3. held' = held
    <3>1. r \notin submitted
      BY <1>3 DEF Submit
    <3> QED  BY <2>1, <3>1 DEF held
  <2>4. Service!Submit(r)
    BY <2>1, <2>2, <2>3 DEF Service!Submit
  <2> QED  BY <2>4 DEF Service!Next
<1>4. CASE SubmitStop
  <2>1. /\ open /\ ~open' /\ inbox' = Append(inbox, Stop)
        /\ submitted' = submitted /\ replies' = replies
        /\ Range(inbox)' = Range(inbox) \cup {Stop}
    BY <1>4, SubmitStopRequests DEF SubmitStop
  <2>2. phase = "open" /\ phase' = "closed"
    BY <2>1 DEF phase
  <2>3. held' = held
    BY <1>1, <2>1 DEF held
  <2>4. Service!Close
    BY <2>1, <2>2, <2>3 DEF Service!Close
  <2> QED  BY <2>4 DEF Service!Next
<1>5. CASE AnalyzerTake
  <2> DEFINE head == Head(inbox)
  <2>1. /\ analyzer.at = "take" /\ inbox # <<>> /\ inbox' = Tail(inbox)
        /\ UNCHANGED <<open, submitted, replies, joined>>
    BY <1>5 DEF AnalyzerTake
  <2>2. /\ \A r \in Requests : r \in Range(inbox)' <=> r \in Range(inbox) /\ r # head
        /\ head \in Range(inbox)
        /\ head # Stop => head \in submitted
    BY <1>5, TakeRequests
  <2>3. Range(inbox) = {head} \cup Range(inbox)'
    BY <1>1, <2>1, RangeTail DEF TypeOK
  <2>4. joined = 0
    <3>1. ~Finished(0)
      BY <2>1 DEF Finished
    <3> QED  BY <1>1, <3>1 DEF JoinsInOrder
  <2> HIDE DEF head
  <2>5. CASE head = Stop
    <3>1. ~open
      BY <1>1, <2>2, <2>5 DEF InboxInOrder
    <3>2. Stop \notin Range(inbox)'
      <4>1. /\ Len(inbox) \in Nat \ {0} /\ Len(inbox') = Len(inbox) - 1
            /\ head = inbox[1] /\ inbox' \in Seq(Requests \cup {Stop})
        BY <1>1, <2>1, RangeTail DEF TypeOK, head
      <4>2. 1 = Len(inbox)
        BY <1>1, <2>5, <4>1 DEF InboxInOrder
      <4>3. Len(inbox') = 0
        <5>1. Len(inbox') = Len(inbox) - 1
          BY <4>1
        <5> QED  BY <4>2, <5>1
      <4>4. \A x \in Range(inbox') : \E i \in 1..0 : inbox'[i] = x
        BY <4>1, <4>3, RangeType
      <4> QED  BY <4>4
    <3>3. phase' = "draining"
      BY <2>1, <2>4, <3>1, <3>2 DEF phase
    <3>4. held' = held
      BY <1>1, <2>1, <2>3, <2>5 DEF held
    <3>5. Service!Drain
      BY <2>1, <2>5, <3>3, <3>4 DEF Service!Drain, head
    <3> QED  BY <3>5 DEF Service!Next, Service!Work
  <2>6. CASE head # Stop
    <3>1. phase' = phase
      BY <2>1, <2>3, <2>6 DEF phase
    <3>2. head \in Requests /\ head \in submitted /\ replies[head] = 0
      BY <1>1, <1>2, <2>2, <2>6 DEF IInv, SentWhole
    <3>3. held' = held \cup {head}
      BY <1>1, <2>1, <2>2, <3>2 DEF held
    <3>4. Service!Take
      BY <2>1, <2>6, <3>1, <3>3 DEF Service!Take, head
    <3> QED  BY <3>4 DEF Service!Next, Service!Work
  <2> QED  BY <2>5, <2>6
<1>6. ASSUME NEW r \in Requests, ~Sent(r) \/ replies[r] = 0,
             r \in submitted, r \notin Range(inbox),
             replies' = [replies EXCEPT ![r] = @ + 1],
             UNCHANGED <<inbox, open, submitted, joined>>
      PROVE  Service!Next
  <2>1. r \in held /\ replies[r] = 0
    BY <1>2, <1>6 DEF held
  <2>2. replies' = [replies EXCEPT ![r] = 1]
    BY <1>1, <1>6, <2>1
  <2>3. held' = held \ {r}
    BY <1>1, <1>6, <2>1, <2>2 DEF held
  <2>4. phase' = phase
    BY <1>6 DEF phase
  <2>5. Service!Answer(r)
    BY <1>6, <2>1, <2>2, <2>3, <2>4 DEF Service!Answer
  <2> QED  BY <2>5 DEF Service!Next, Service!Work
<1>7. CASE AnalyzerServeHomepage
  <2> DEFINE r == analyzer.req
  <2>1. /\ r \in Requests /\ Current(r) /\ r \in submitted /\ r \notin Range(inbox)
    BY <1>7 DEF IInv, Locations, Current, AnalyzerServeHomepage
  <2>2. ~Sent(r)
    BY <2>1 DEF IInv, SentWhole
  <2>3. /\ replies' = [replies EXCEPT ![r] = @ + 1]
        /\ UNCHANGED <<inbox, open, submitted, joined>>
    BY <1>7 DEF AnalyzerServeHomepage
  <2> QED  BY <1>6, <2>1, <2>2, <2>3
<1>8. CASE MsgShow
  <2> DEFINE r == Head(msgQueue).req
  <2>1. /\ msgQueue # <<>> /\ Head(msgQueue) # Stop
        /\ replies' = [replies EXCEPT ![r] = @ + 1]
        /\ UNCHANGED <<inbox, open, submitted, joined>>
    BY <1>8 DEF MsgShow
  <2>2. r \in Requests /\ Head(msgQueue) \in Range(msgQueue) \ {Stop} /\ replies[r] = 0
    BY <2>1, ShownPackage
  <2>3. Sent(r)
    BY <2>2 DEF Sent
  <2>4. r \in submitted /\ r \notin Range(inbox)
    BY <2>2, <2>3 DEF IInv, SentWhole
  <2> QED  BY <1>6, <2>1, <2>2, <2>4
<1>9. CASE Join
  <2>1. /\ ~open /\ joined < 4 /\ Finished(joined) /\ joined' = joined + 1
        /\ UNCHANGED <<inbox, open, submitted, replies>>
    BY <1>9 DEF Join
  <2>2. held' = held
    BY <2>1 DEF held
  <2>3. CASE joined = 3
    <3>1. \A i \in 0..3 : Finished(i)
      BY <1>1, <2>1, <2>3 DEF JoinsInOrder
    <3>2. inbox = <<>> /\ held = {}
      BY <3>1, EndedMeansEmpty
    <3>3. Stop \notin Range(inbox)
      BY <1>1, <3>2, RangeType DEF TypeOK
    <3>4. phase = "draining" /\ phase' = "finished"
      BY <2>1, <2>3, <3>3 DEF phase
    <3>5. Service!Finish
      BY <2>1, <2>2, <3>2, <3>4 DEF Service!Finish
    <3> QED  BY <3>5 DEF Service!Next, Service!Work
  <2>4. CASE joined # 3
    <3>1. joined < 4 /\ joined' < 4
      BY <1>1, <2>1, <2>4
    <3>2. phase' = phase
      BY <2>1, <3>1 DEF phase
    <3> QED  BY <2>1, <2>2, <3>2 DEF Service!serviceVars
  <2> QED  BY <2>3, <2>4
<1>10. CASE \/ AnalyzerProduce \/ AnalyzerStop \/ PackerSteps \/ MsgStop
            \/ \E k \in Calculators : CalculatorSteps(k)
  BY <1>10, HiddenStep
     DEF AnalyzerProduce, AnalyzerStop, PackerSteps, PackerPack, PackerCountStop,
         PackerStop, MsgStop, CalculatorSteps, CalculatorTake, CalculatorSolve,
         CalculatorStop
<1> QED
  BY <1>3, <1>4, <1>5, <1>7, <1>8, <1>9, <1>10 DEF Next, Steps, AnalyzerSteps, MsgSteps

\* For the server the five kinds of threads are one service that takes requests
\* in order, answers each of them once and finishes when it owes nothing.
THEOREM PipelineIsService == SafeSpec => Service!SafeSpec
<1>1. Init => Service!Init
  BY DEF Init, Service!Init, phase, held
<1>2. IInv /\ [Next]_vars => [Service!Next]_(Service!serviceVars)
  <2>1. CASE UNCHANGED vars
    <3>1. UNCHANGED <<inbox, open, submitted, replies, joined>>
      BY <2>1 DEF vars, inputVars, clientVars
    <3> QED  BY <3>1, HiddenStep
  <2> QED  BY <2>1, ServiceStep
<1> QED
  BY <1>1, <1>2, Invariance, PTL DEF SafeSpec, Service!SafeSpec

=============================================================================
