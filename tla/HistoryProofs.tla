--------------------------- MODULE HistoryProofs ---------------------------
(***************************************************************************)
(* Theorems about History, for every Max.  The place of a number is its    *)
(* distance from the first one; on the half circle ahead of that the order *)
(* of the std::set is the order of the places, which are natural numbers.  *)
(***************************************************************************)
EXTENDS History, WellFoundedInduction, TLAPS

LEMMA MiddleBounds ==
    Middle \in Nat /\ 2 * Middle <= Max /\ Max <= 2 * Middle + 1 /\ 1 <= Middle
  BY MaxAssumption DEF Middle

(* Places decide the order, the distance and the identity of numbers. *)
LEMMA Places ==
    ASSUME NEW base \in Numbers, NEW m \in Ahead(base), NEW n \in Ahead(base)
    PROVE  /\ m \in Numbers /\ Distance(base, m) \in 0 .. Middle
           /\ Before(m, n) <=> Distance(base, m) < Distance(base, n)
           /\ Distance(base, m) = Distance(base, n) => m = n
           /\ Distance(m, n) = Distance(base, n) - Distance(base, m)
<1> USE MaxAssumption, MiddleBounds DEF Ahead, Numbers
<1>1. m \in Numbers /\ Distance(base, m) \in 0 .. Middle
  BY DEF Distance
<1>2. Before(m, n) <=> Distance(base, m) < Distance(base, n)
  BY DEF Distance, Before
<1>3. Distance(base, m) = Distance(base, n) => m = n
  BY DEF Distance
<1>4. Distance(m, n) = Distance(base, n) - Distance(base, m)
  BY DEF Distance
<1> QED BY <1>1, <1>2, <1>3, <1>4

LEMMA BaseIsAhead ==
    ASSUME NEW base \in Numbers
    PROVE  base \in Ahead(base) /\ Distance(base, base) = 0
<1>1. \A n \in Numbers : ~ (n > base) /\ ~ (n < base) => Distance(base, n) = 0
  BY MaxAssumption, MiddleBounds DEF Numbers, Distance
<1>2. Distance(base, base) = 0
  BY <1>1, MaxAssumption DEF Numbers
<1> QED BY <1>2 DEF Ahead

(* Every place up to half the circle is some number's. *)
LEMMA PlaceIsTaken ==
    ASSUME NEW base \in Numbers, NEW p \in 0 .. Middle
    PROVE  \E n \in Ahead(base) : Distance(base, n) = p
<1> DEFINE n == IF base + p <= Max THEN base + p ELSE base + p - Max - 1
<1>1. n \in Numbers
  BY MaxAssumption, MiddleBounds DEF Numbers
<1>2. Distance(base, n) = p
  BY MaxAssumption, MiddleBounds DEF Numbers, Distance
<1>3. n \in Ahead(base)
  BY <1>1, <1>2 DEF Ahead
<1> QED BY <1>2, <1>3

(* A set of natural numbers that is not empty has a least element. *)
LEMMA Least ==
    ASSUME NEW T, T \subseteq Nat, T # {}
    PROVE  \E x \in T : \A y \in T : x <= y
<1>1. PICK x \in T : \A y \in T : ~ (<<y, x>> \in OpToRel(<, Nat))
  BY NatLessThanWellFounded, WFMin
<1>2. \A y \in T : ~ (y < x)
  BY <1>1 DEF OpToRel
<1> QED BY <1>2

LEMMA Greatest ==
    ASSUME NEW base \in Numbers, NEW S, S \subseteq Ahead(base), S # {}
    PROVE  \E n \in S : \A m \in S : Distance(base, m) <= Distance(base, n)
<1> DEFINE T == {Middle - Distance(base, m) : m \in S}
<1>1. \A m \in S : Distance(base, m) \in 0 .. Middle
  BY Places
<1>2. T \subseteq Nat /\ T # {}
  BY <1>1, MiddleBounds
<1>3. PICK x \in T : \A y \in T : x <= y
  <2> HIDE DEF T
  <2> QED BY <1>2, Least
<1>4. PICK n \in S : x = Middle - Distance(base, n)
  BY <1>3
<1>5. \A m \in S : Middle - Distance(base, n) <= Middle - Distance(base, m)
  BY <1>3, <1>4
<1> QED BY <1>1, <1>5, MiddleBounds

LEMMA Smallest ==
    ASSUME NEW base \in Numbers, NEW S, S \subseteq Ahead(base), S # {}
    PROVE  \E n \in S : \A m \in S : Distance(base, n) <= Distance(base, m)
<1> DEFINE T == {Distance(base, m) : m \in S}
<1>1. \A m \in S : Distance(base, m) \in 0 .. Middle
  BY Places
<1>2. T \subseteq Nat /\ T # {}
  BY <1>1
<1>3. PICK x \in T : \A y \in T : x <= y
  <2> HIDE DEF T
  <2> QED BY <1>2, Least
<1> QED BY <1>3
-----------------------------------------------------------------------------
(* begin() is the element with the lowest place, and no other is. *)
LEMMA FirstIsLowest ==
    ASSUME NEW base \in Numbers, NEW S, S \subseteq Ahead(base), S # {}
    PROVE  /\ First(S) \in S
           /\ \A m \in S : Distance(base, First(S)) <= Distance(base, m)
           /\ \A n \in S : (\A m \in S : Distance(base, n) <= Distance(base, m))
                            => n = First(S)
<1>1. \A m, n \in S : /\ Before(m, n) <=> Distance(base, m) < Distance(base, n)
                      /\ Distance(base, m) = Distance(base, n) => m = n
                      /\ Distance(base, m) \in 0 .. Middle
  BY Places
<1>2. PICK n \in S : \A m \in S : Distance(base, n) <= Distance(base, m)
  BY Smallest
<1>3. \A m \in S : ~ Before(m, n)
  BY <1>1, <1>2, MiddleBounds
<1>4. First(S) \in S /\ \A m \in S : ~ Before(m, First(S))
  BY <1>3 DEF First
<1> QED BY <1>1, <1>4, MiddleBounds

(* rbegin() is the element with the highest place. *)
LEMMA LastIsHighest ==
    ASSUME NEW base \in Numbers, NEW S, S \subseteq Ahead(base), S # {}
    PROVE  /\ Last(S) \in S
           /\ \A m \in S : Distance(base, m) <= Distance(base, Last(S))
<1>1. \A m, n \in S : /\ Before(m, n) <=> Distance(base, m) < Distance(base, n)
                      /\ Distance(base, m) \in 0 .. Middle
  BY Places
<1>2. PICK n \in S : \A m \in S : Distance(base, m) <= Distance(base, n)
  BY Greatest
<1>3. \A m \in S : ~ Before(n, m)
  BY <1>1, <1>2, MiddleBounds
<1>4. Last(S) \in S /\ \A m \in S : ~ Before(Last(S), m)
  BY <1>3 DEF Last
<1> QED BY <1>1, <1>4, MiddleBounds

LEMMA OneElement ==
    ASSUME NEW n \in Numbers PROVE First({n}) = n /\ Last({n}) = n
  BY MaxAssumption DEF First, Last, Before, Numbers

Hole(S) == \E m, n \in S : Adjacent(S, m, n) /\ Distance(m, n) > 1

(* Without a hole every number between the first and the last is there:    *)
(* around one that is missing lie two neighbours more than one apart.      *)
LEMMA NoHoleMeansWhole ==
    ASSUME NEW base \in Numbers, NEW S, S \subseteq Ahead(base), S # {},
           ~ Hole(S), NEW n \in Ahead(base),
           Distance(base, First(S)) <= Distance(base, n),
           Distance(base, n) <= Distance(base, Last(S))
    PROVE  n \in S
<1> SUFFICES ASSUME n \notin S PROVE FALSE
  OBVIOUS
<1> DEFINE P(k) == Distance(base, k)
           Below == {k \in S : P(k) < P(n)}
           Above == {k \in S : P(n) < P(k)}
<1>1. \A k \in S : k \in Below \/ k \in Above
  <2> SUFFICES ASSUME NEW k \in S PROVE P(k) < P(n) \/ P(n) < P(k)
    OBVIOUS
  <2> QED BY Places, MiddleBounds
<1>2. Below # {} /\ Above # {}
  <2>1. First(S) \in S /\ Last(S) \in S
    BY FirstIsLowest, LastIsHighest
  <2>2. P(First(S)) \in 0 .. Middle /\ P(Last(S)) \in 0 .. Middle /\ P(n) \in 0 .. Middle
    BY <2>1, Places
  <2>3. First(S) \in Below /\ Last(S) \in Above
    BY <1>1, <2>1, <2>2, MiddleBounds
  <2> QED BY <2>3
<1>3. PICK m \in Below : \A k \in Below : P(k) <= P(m)
  <2>1. Below \subseteq Ahead(base)
    OBVIOUS
  <2> HIDE DEF Below
  <2> QED BY <1>2, <2>1, Greatest
<1>4. PICK o \in Above : \A k \in Above : P(o) <= P(k)
  <2>1. Above \subseteq Ahead(base)
    OBVIOUS
  <2> HIDE DEF Above
  <2> QED BY <1>2, <2>1, Smallest
<1>5. /\ m \in S /\ o \in S /\ P(m) < P(n) /\ P(n) < P(o)
      /\ P(m) \in 0 .. Middle /\ P(n) \in 0 .. Middle /\ P(o) \in 0 .. Middle
  <2>1. m \in S /\ o \in S /\ P(m) < P(n) /\ P(n) < P(o)
    OBVIOUS
  <2> QED BY <2>1, Places
<1>6. Distance(m, o) > 1
  <2>1. Distance(m, o) = P(o) - P(m)
    BY <1>5, Places
  <2> QED BY <1>5, <2>1, MiddleBounds
<1>7. Adjacent(S, m, o)
  <2>1. Before(m, o)
    <3>1. P(m) < P(o)
      BY <1>5, MiddleBounds
    <3> QED BY <1>5, <3>1, Places
  <2>2. ASSUME NEW k \in S, Before(m, k), Before(k, o) PROVE FALSE
    <3>1. P(m) < P(k) /\ P(k) < P(o) /\ P(k) \in 0 .. Middle
      BY <1>5, <2>2, Places
    <3>2. k \in Below => P(k) <= P(m)
      BY <1>3
    <3>3. k \in Above => P(o) <= P(k)
      BY <1>4
    <3> QED BY <1>1, <1>5, <3>1, <3>2, <3>3, MiddleBounds
  <2> QED BY <2>1, <2>2 DEF Adjacent
<1> QED BY <1>5, <1>6, <1>7 DEF Hole
-----------------------------------------------------------------------------
(* The inductive invariant.  What the front claims and what the set still  *)
(* holds depend on each other: the front may jump to the last element      *)
(* because nothing that arrived beyond it was lost, and it rests because   *)
(* the set is one number or has a hole.                                    *)
Pruned == Hole(container) \/ container = {Last(container)}

IInv ==
    /\ TypeOK
    /\ container # {}
    /\ NothingForgotten
    /\ FrontNeverOverclaims
    /\ Pruned

LEMMA IInvInitially == Init => IInv
<1> SUFFICES ASSUME Init PROVE IInv
  OBVIOUS
<1>1. initial \in Ahead(initial) /\ Distance(initial, initial) = 0
  BY BaseIsAhead DEF Init
<1>2. First({initial}) = initial /\ Last({initial}) = initial
  BY OneElement DEF Init
<1>3. container = {initial}
  BY <1>2 DEF Init, Insert, Prune, Hole, Adjacent
<1>4. TypeOK
  BY <1>1, <1>3 DEF Init, TypeOK
<1>5. NothingForgotten
  BY <1>2, <1>3, MaxAssumption DEF Init, NothingForgotten, Before, Numbers
<1>6. FrontNeverOverclaims
  <2> SUFFICES ASSUME NEW k \in Span(initial, initial) PROVE k = initial
    BY <1>2, <1>3 DEF Init, FrontNeverOverclaims
  <2>1. k \in Ahead(initial) /\ Distance(initial, k) <= 0
    BY <1>1 DEF Span, Ahead
  <2>2. Distance(initial, k) \in 0 .. Middle
    BY <2>1, Places DEF Init
  <2> QED BY <1>1, <2>1, <2>2, Places, MiddleBounds DEF Init
<1> QED BY <1>2, <1>3, <1>4, <1>5, <1>6 DEF IInv, Pruned

(* What the invariant says in places. *)
LEMMA FrontFacts ==
    ASSUME IInv
    PROVE  /\ initial \in Numbers
           /\ container \subseteq arrived /\ arrived \subseteq Ahead(initial)
           /\ First(container) \in container
           /\ Distance(initial, First(container)) \in 0 .. Middle
           /\ \A m \in arrived :
                m \in container <=>
                Distance(initial, First(container)) <= Distance(initial, m)
<1>1. /\ initial \in Numbers /\ container # {}
      /\ container \subseteq arrived /\ arrived \subseteq Ahead(initial)
  BY DEF IInv, TypeOK, NothingForgotten
<1>2. First(container) \in container
  BY <1>1, FirstIsLowest
<1>3. Distance(initial, First(container)) \in 0 .. Middle
  BY <1>1, <1>2, Places
<1>4. ASSUME NEW m \in arrived
      PROVE  m \in container <=>
                Distance(initial, First(container)) <= Distance(initial, m)
  <2>1. m \in container <=> ~ Before(m, First(container))
    BY DEF IInv, NothingForgotten
  <2>2. /\ Before(m, First(container)) <=>
              Distance(initial, m) < Distance(initial, First(container))
        /\ Distance(initial, m) \in 0 .. Middle
    BY <1>1, <1>2, Places
  <2> QED BY <1>3, <2>1, <2>2, MiddleBounds
<1> QED BY <1>1, <1>2, <1>3, <1>4

(* An insertion moves the front forward or leaves it where it is. *)
LEMMA IInvInductive ==
    ASSUME IInv, NEW n \in Numbers, InsertNumber(n)
    PROVE  IInv' /\ ~ Before(First(container'), First(container))
<1> DEFINE P(k) == Distance(initial, k)
           S == container \union {n}
           f == First(container)
           l == Last(S)
<1>1. /\ initial' = initial /\ arrived' = arrived \union {n}
      /\ n \in Ahead(initial) /\ container' = Prune(S)
  BY DEF InsertNumber, Insert
<1>2. /\ initial \in Numbers /\ S \subseteq Ahead(initial) /\ S # {}
      /\ S \subseteq arrived' /\ arrived' \subseteq Ahead(initial)
      /\ f \in S
  BY <1>1, FrontFacts
<1>3. \A k \in Ahead(initial) : P(k) \in 0 .. Middle
  BY <1>2, Places
<1>4. \A k, m \in Ahead(initial) : /\ Before(k, m) <=> P(k) < P(m)
                                   /\ P(k) = P(m) => k = m
  BY <1>2, Places
<1>5. \A k \in arrived' : k \in S <=> P(f) <= P(k)
  <2>1. P(f) <= P(n)
    <3>1. ~ (P(n) < P(f))
      BY <1>1, <1>2, <1>4 DEF InsertNumber
    <3> QED BY <1>1, <1>2, <1>3, <3>1, MiddleBounds
  <2>2. \A k \in arrived : k \in container <=> P(f) <= P(k)
    BY FrontFacts
  <2> QED BY <1>1, <2>1, <2>2
<1>6. l \in S /\ \A k \in S : P(k) <= P(l)
  BY <1>2, LastIsHighest
<1>7. TypeOK'
  <2>1. container' \subseteq S
    BY <1>1, <1>6 DEF Prune
  <2> QED BY <1>1, <1>2, <2>1 DEF TypeOK, Ahead
<1>8. CASE Hole(S)
  <2>1. container' = S
    BY <1>1, <1>8 DEF Prune, Hole
  <2>2. First(S) = f
    <3>1. \A m \in S : P(f) <= P(m)
      BY <1>2, <1>5
    <3> QED BY <1>2, <3>1, FirstIsLowest
  <2>3. NothingForgotten'
    <3>1. \A k \in arrived' : k \in S <=> ~ Before(k, f)
      BY <1>2, <1>3, <1>4, <1>5, MiddleBounds
    <3> QED BY <1>2, <2>1, <2>2, <3>1 DEF NothingForgotten
  <2>4. FrontNeverOverclaims'
    BY <1>1, <2>1, <2>2 DEF IInv, FrontNeverOverclaims
  <2>5. ~ Before(First(container'), First(container))
    BY <1>2, <1>3, <1>4, <2>1, <2>2, MiddleBounds
  <2> QED BY <1>2, <1>7, <1>8, <2>1, <2>3, <2>4, <2>5 DEF IInv, Pruned
<1>9. CASE ~ Hole(S)
  <2>1. container' = {l} /\ First({l}) = l /\ Last({l}) = l
    BY <1>1, <1>2, <1>6, <1>9, OneElement DEF Prune, Hole, Ahead
  <2>2. P(f) <= P(l)
    BY <1>2, <1>6
  <2>3. NothingForgotten'
    <3>1. ASSUME NEW k \in arrived' PROVE k = l <=> ~ Before(k, l)
      <4>1. ~ Before(l, l)
        BY <1>2, <1>3, <1>4, <1>6, MiddleBounds
      <4>2. ASSUME ~ Before(k, l) PROVE k = l
        <5>1. P(l) <= P(k)
          BY <1>2, <1>3, <1>4, <1>6, <4>2, MiddleBounds
        <5>2. k \in S
          BY <1>2, <1>3, <1>5, <1>6, <2>2, <5>1, MiddleBounds
        <5> QED BY <1>2, <1>3, <1>4, <1>6, <5>1, <5>2, MiddleBounds
      <4> QED BY <4>1, <4>2
    <3> QED BY <1>2, <1>6, <2>1, <3>1 DEF NothingForgotten
  <2>4. FrontNeverOverclaims'
    <3> SUFFICES ASSUME NEW k \in Span(initial, l) PROVE k \in arrived'
      BY <1>1, <2>1 DEF FrontNeverOverclaims
    <3>1. k \in Ahead(initial) /\ P(k) <= P(l)
      BY <1>1, <1>2 DEF Span, Ahead
    <3>2. CASE P(k) <= P(f)
      BY <1>1, <3>1, <3>2 DEF IInv, FrontNeverOverclaims, Span, Ahead
    <3>3. CASE P(f) < P(k)
      <4>1. P(First(S)) <= P(k)
        BY <1>2, <1>3, <3>1, <3>3, FirstIsLowest, MiddleBounds
      <4>2. k \in S
        BY <1>2, <1>9, <3>1, <4>1, NoHoleMeansWhole
      <4> QED BY <1>2, <4>2
    <3> QED BY <1>2, <1>3, <3>1, <3>2, <3>3, MiddleBounds
  <2>5. ~ Before(First(container'), First(container))
    BY <1>2, <1>3, <1>4, <1>6, <2>1, <2>2, MiddleBounds
  <2> QED BY <1>7, <2>1, <2>3, <2>4, <2>5 DEF IInv, Pruned
<1> QED BY <1>8, <1>9

LEMMA IInvHolds == Spec => []IInv
<1>1. IInv /\ [Next]_vars => IInv'
  <2> SUFFICES ASSUME IInv, [Next]_vars PROVE IInv'
    OBVIOUS
  <2>1. CASE UNCHANGED vars
    BY <2>1 DEF vars, IInv, TypeOK, NothingForgotten, FrontNeverOverclaims, Pruned
  <2> QED BY <2>1, IInvInductive DEF Next
<1> QED BY <1>1, IInvInitially, PTL DEF Spec
-----------------------------------------------------------------------------
(* The sets hold numbers of the half circle only. *)
THEOREM TypeOKHolds == Spec => []TypeOK
  BY IInvHolds, PTL DEF IInv

(* An acknowledgement claims no packet that has not arrived, however       *)
(* packets are ordered and repeated, for every ring of numbers.            *)
THEOREM FrontNeverOverclaimsHolds == Spec => []FrontNeverOverclaims
  BY IInvHolds, PTL DEF IInv

(* What arrived beyond the front need not arrive again. *)
THEOREM NothingForgottenHolds == Spec => []NothingForgotten
  BY IInvHolds, PTL DEF IInv

(* When everything up to the newest packet has arrived the front is there: *)
(* the set has no hole, and a set without a hole is one number.            *)
THEOREM CatchesUpHolds == Spec => []CatchesUp
<1>1. IInv => CatchesUp
  <2> SUFFICES ASSUME IInv, arrived = Span(initial, Last(arrived))
               PROVE  First(container) = Last(arrived)
    BY DEF CatchesUp
  <2> DEFINE P(k) == Distance(initial, k)
             f == First(container)
             z == Last(arrived)
  <2>1. /\ initial \in Numbers /\ f \in container /\ container \subseteq arrived
        /\ arrived \subseteq Ahead(initial) /\ arrived # {}
        /\ \A m \in arrived : m \in container <=> P(f) <= P(m)
    BY FrontFacts
  <2>2. z \in arrived /\ \A m \in arrived : P(m) <= P(z)
    BY <2>1, LastIsHighest
  <2>3. z \in container
    BY <2>1, <2>2
  <2>4. ~ Hole(container)
    <3> SUFFICES ASSUME NEW m \in container, NEW o \in container,
                        Adjacent(container, m, o), Distance(m, o) > 1
                 PROVE  FALSE
      BY DEF Hole
    <3>1. /\ P(m) \in 0 .. Middle /\ P(o) \in 0 .. Middle /\ P(z) \in 0 .. Middle
          /\ P(f) \in 0 .. Middle /\ P(o) - P(m) > 1
          /\ P(f) <= P(m) /\ P(o) <= P(z)
      <4>1. Distance(m, o) = P(o) - P(m)
        BY <2>1, Places
      <4>2. P(f) <= P(m) /\ P(o) <= P(z)
        BY <2>1, <2>2
      <4>3. P(m) \in 0 .. Middle /\ P(o) \in 0 .. Middle /\ P(z) \in 0 .. Middle
            /\ P(f) \in 0 .. Middle
        BY <2>1, <2>2, Places
      <4> QED BY <4>1, <4>2, <4>3
    <3>2. PICK k \in Ahead(initial) : P(k) = P(m) + 1
      <4>1. P(m) + 1 \in 0 .. Middle
        BY <3>1, MiddleBounds
      <4> QED BY <2>1, <4>1, PlaceIsTaken
    <3>3. P(k) >= 0 /\ P(k) <= P(z) /\ P(f) <= P(k)
      BY <3>1, <3>2, MiddleBounds
    <3>4. k \in arrived
      BY <3>3 DEF Span, Ahead
    <3>5. k \in container
      BY <2>1, <3>3, <3>4
    <3>6. Before(m, k) /\ Before(k, o)
      <4>1. P(m) < P(k) /\ P(k) < P(o)
        BY <3>1, <3>2, MiddleBounds
      <4>2. m \in Ahead(initial) /\ o \in Ahead(initial)
        BY <2>1
      <4> QED BY <2>1, <4>1, <4>2, Places
    <3> QED BY <3>5, <3>6 DEF Adjacent
  <2> QED BY <2>1, <2>3, <2>4 DEF IInv, Pruned
<1> QED BY <1>1, IInvHolds, PTL

(* What is acknowledged is never taken back. *)
THEOREM FrontNeverRegressesHolds == Spec => FrontNeverRegresses
<1>1. IInv /\ [Next]_vars => [~ Before(First(container'), First(container))]_vars
  BY IInvInductive DEF Next
<1> QED BY <1>1, IInvHolds, PTL DEF Spec, FrontNeverRegresses
=============================================================================
