--------------------------- MODULE SequenceProofs ---------------------------
(***************************************************************************)
(* Facts about sequence_number and about the sender and receiver that use  *)
(* it, for every Max, Window and Lifetime the assumptions admit.           *)
(***************************************************************************)
EXTENDS SequenceWindow, TLAPS

(* 2 * Middle is Max or Max - 1: all that is needed of the division. *)
LEMMA MiddleBounds == Middle \in Nat /\ 2 * Middle <= Max /\ Max <= 2 * Middle + 1
                      /\ 1 <= Middle
  BY MaxAssumption DEF Middle

(* next() stays on the circle, comes after the number it is taken of and is *)
(* at distance one of it: what is_expected_packet and cumulative_set rely on. *)
THEOREM NextIsAfter ==
    ASSUME NEW n \in Numbers
    PROVE  /\ Successor(n) \in Numbers
           /\ Before(n, Successor(n))
           /\ Distance(n, Successor(n)) = 1
  BY MaxAssumption, MiddleBounds DEF Numbers, Successor, Before, Distance

(* operator< orders any two different numbers one way and never both: the  *)
(* std::set of cumulative_set can hold every pair of them.                 *)
THEOREM OrderIsTotal ==
    ASSUME NEW m \in Numbers, NEW n \in Numbers
    PROVE  /\ Before(m, n) => ~ Before(n, m)
           /\ m # n => Before(m, n) \/ Before(n, m)
           /\ ~ Before(n, n)
  BY MaxAssumption, MiddleBounds DEF Numbers, Before

(* distance() counts alike in both directions and agrees with operator<,   *)
(* except between numbers exactly opposite each other on the circle.       *)
THEOREM DistanceAgreesWithOrder ==
    ASSUME NEW m \in Numbers, NEW n \in Numbers, ~ Opposite(m, n)
    PROVE  /\ Distance(n, m) = - Distance(m, n)
           /\ Before(m, n) <=> Distance(m, n) > 0
  BY MaxAssumption, MiddleBounds DEF Numbers, Before, Distance, Opposite

(* Ahead of any base, within half the circle, operator< is the order of    *)
(* the distances from the base, hence transitive there: a std::set of      *)
(* numbers from one such stretch is well ordered although the relation is  *)
(* not transitive on the whole circle.                                     *)
THEOREM OrderWithinHalfCircle ==
    ASSUME NEW base \in Numbers, NEW m \in Numbers, NEW n \in Numbers,
           Distance(base, m) >= 0, Distance(base, n) >= 0
    PROVE  Before(m, n) <=> Distance(base, m) < Distance(base, n)
  BY MaxAssumption, MiddleBounds DEF Numbers, Before, Distance
-----------------------------------------------------------------------------
(* The inductive invariant: where the receiver stands is settled by where  *)
(* the sender stands and by the number of packets between them.            *)
Apart == seen = Back(issued, ahead)

IInv == TypeOK /\ Apart

LEMMA BackType == ASSUME NEW n \in Numbers, NEW age \in 0 .. Max
                  PROVE  Back(n, age) \in Numbers
  BY MaxAssumption DEF Numbers, Back

(* Issuing a packet leaves every earlier one in place, one packet older. *)
LEMMA BackSuccessor ==
    ASSUME NEW n \in Numbers, NEW age \in 0 .. Max - 1
    PROVE  Back(Successor(n), age + 1) = Back(n, age)
  BY MaxAssumption DEF Numbers, Back, Successor

(* The number next() of the receiver's belongs, among the datagrams of an  *)
(* admitted age, to the packet after the receiver's and to no other.       *)
LEMMA ExpectedIsNext ==
    ASSUME NEW n \in Numbers, NEW a \in 0 .. Window, NEW age \in 0 .. Lifetime,
           ExpectedPacket(Back(n, a), Back(n, age))
    PROVE  age = a - 1
  BY MaxAssumption, WindowAssumption, LifetimeAssumption, MiddleBounds
     DEF Numbers, Back, ExpectedPacket, Successor

LEMMA IInvInductive ==
    /\ Init => IInv
    /\ IInv /\ [Next]_vars => IInv'
<1> USE MaxAssumption, WindowAssumption, LifetimeAssumption, MiddleBounds
<1>1. Init => IInv
  BY DEF Init, IInv, TypeOK, Apart, Numbers, Back
<1>2. IInv /\ [Next]_vars => IInv'
  <2> SUFFICES ASSUME IInv, [Next]_vars PROVE IInv'
    OBVIOUS
  <2>1. CASE Issue
    <3>1. TypeOK'
      BY <2>1, NextIsAfter DEF Issue, IInv, TypeOK
    <3>2. Apart'
      <4>1. ahead \in 0 .. Max - 1
        BY <2>1 DEF Issue, IInv, TypeOK
      <4>2. Back(Successor(issued), ahead + 1) = Back(issued, ahead)
        BY <4>1, BackSuccessor DEF IInv, TypeOK
      <4> QED BY <2>1, <4>2 DEF Issue, IInv, Apart
    <3> QED BY <3>1, <3>2 DEF IInv
  <2>2. ASSUME NEW age \in 0 .. Lifetime, Arrive(age) PROVE IInv'
    <3>1. age = ahead - 1
      BY <2>2, ExpectedIsNext DEF Arrive, IInv, TypeOK, Apart
    <3>2. Back(issued, age) \in Numbers
      BY BackType DEF IInv, TypeOK
    <3> QED BY <2>2, <3>1, <3>2 DEF Arrive, IInv, TypeOK, Apart
  <2>3. CASE UNCHANGED vars
    BY <2>3 DEF vars, IInv, TypeOK, Apart
  <2> QED BY <2>1, <2>2, <2>3 DEF Next
<1> QED BY <1>1, <1>2

LEMMA IInvHolds == Spec => []IInv
  BY IInvInductive, PTL DEF Spec

(* The numbers stay on the ring and the receiver within the window.        *)
THEOREM TypeOKHolds == Spec => []TypeOK
<1>1. IInv => TypeOK
  BY DEF IInv
<1> QED BY <1>1, IInvHolds, PTL

(* However long the two run and wherever on the circle they are, the       *)
(* distance between their numbers is the number of packets in between.     *)
THEOREM DistanceCountsHolds == Spec => []DistanceCounts
<1>1. IInv => DistanceCounts
  BY MaxAssumption, WindowAssumption, MiddleBounds
     DEF IInv, TypeOK, Apart, Numbers, Back, Distance, DistanceCounts
<1> QED BY <1>1, IInvHolds, PTL

(* operator< tells whether the receiver is behind. *)
THEOREM BehindIffAheadHolds == Spec => []BehindIffAhead
<1>1. IInv => BehindIffAhead
  BY MaxAssumption, WindowAssumption, MiddleBounds
     DEF IInv, TypeOK, Apart, Numbers, Back, Before, BehindIffAhead
<1> QED BY <1>1, IInvHolds, PTL

(* is_expected_packet lets in each packet once and in order. *)
THEOREM OneAtATimeHolds == Spec => OneAtATime
<1>1. IInv /\ [Next]_vars => [seen' # seen => ahead' = ahead - 1]_vars
  <2> SUFFICES ASSUME IInv, Next, seen' # seen PROVE ahead' = ahead - 1
    BY DEF vars
  <2>1. PICK age \in 0 .. Lifetime : Arrive(age)
    BY DEF Next, Issue
  <2> QED BY <2>1, ExpectedIsNext DEF Arrive, IInv, TypeOK, Apart
<1> QED BY <1>1, IInvHolds, PTL DEF Spec, OneAtATime
=============================================================================
