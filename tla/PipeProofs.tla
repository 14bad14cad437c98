----------------------------- MODULE PipeProofs -----------------------------
(***************************************************************************)
(* What follows from Pipe, hence for whatever implements it.               *)
(***************************************************************************)
EXTENDS Pipe, TLAPS

\* The variables are functions on the ends, of the kinds their names say.
Shape ==
    /\ open \in [Ends -> BOOLEAN]
    /\ sent \in [Ends -> Seq(Pieces)]
    /\ got \in [Ends -> Seq(Pieces \union {Garbled})]
    /\ given \in [Ends -> Nat]
    /\ DOMAIN told = Ends

IInv == Shape /\ InOrder /\ ToldIsTaken
-----------------------------------------------------------------------------
LEMMA TwoEnds ==
    ASSUME NEW e \in Ends
    PROVE  /\ Other(e) \in Ends /\ Other(e) # e /\ Other(Other(e)) = e
           /\ \A x \in Ends : x = e \/ x = Other(e)
  BY DEF Ends, Other

LEMMA InitShape == Init => IInv
<1> SUFFICES ASSUME Init PROVE IInv
  OBVIOUS
<1> USE DEF Init
<1>1. Shape
  BY DEF Shape
<1>2. InOrder
  BY TwoEnds DEF InOrder
<1>3. ToldIsTaken
  BY TwoEnds DEF ToldIsTaken
<1> QED BY <1>1, <1>2, <1>3 DEF IInv

\* One more piece leaves what was there in its place.
LEMMA Appending ==
    ASSUME NEW S, NEW s \in Seq(S), NEW d \in S
    PROVE  /\ Append(s, d) \in Seq(S) /\ Len(Append(s, d)) = Len(s) + 1
           /\ \A i \in DOMAIN s : i \in DOMAIN Append(s, d) /\ Append(s, d)[i] = s[i]
           /\ Append(s, d)[Len(s) + 1] = d
           /\ \A i \in DOMAIN Append(s, d) : i \in DOMAIN s \/ i = Len(s) + 1
  BY SMT

\* What an end does to its own part, with the other end at rest.
LEMMA MovesKeepShape ==
    ASSUME Shape, InOrder, Streams, NEW e \in Ends, Moves(e), Rests(Other(e))
    PROVE  /\ sent'[e] \in Seq(Pieces)
           /\ Len(sent[e]) <= Len(sent'[e])
           /\ \A i \in DOMAIN sent[e] : i \in DOMAIN sent'[e] /\ sent'[e][i] = sent[e][i]
           /\ got'[e] \in Seq(Pieces \union {Garbled})
           /\ Len(got[e]) <= Len(got'[e]) /\ Len(got'[e]) <= Len(sent[Other(e)])
           /\ \A i \in DOMAIN got'[e] : got'[e][i] \in {sent[Other(e)][i], Garbled}
           /\ given'[e] \in Nat /\ given'[e] <= Len(got'[e])
<1>0. /\ sent[e] \in Seq(Pieces) /\ sent[Other(e)] \in Seq(Pieces)
      /\ got[e] \in Seq(Pieces \union {Garbled}) /\ given[e] \in Nat
      /\ Len(got[e]) <= Len(sent[Other(e)]) /\ given[e] <= Len(got[e])
      /\ \A i \in DOMAIN got[e] : got[e][i] \in {sent[Other(e)][i], Garbled}
  BY TwoEnds DEF Shape, InOrder
<1>1. /\ sent'[e] \in Seq(Pieces) /\ Len(sent[e]) <= Len(sent'[e])
      /\ \A i \in DOMAIN sent[e] : i \in DOMAIN sent'[e] /\ sent'[e][i] = sent[e][i]
  <2>1. CASE sent'[e] = sent[e]
    BY <1>0, <2>1
  <2>2. CASE Sends(e)
    <3>1. PICK d \in Pieces : sent'[e] = Append(sent[e], d)
      BY <2>2 DEF Sends
    <3>2. /\ sent'[e] \in Seq(Pieces) /\ Len(sent'[e]) = Len(sent[e]) + 1
          /\ \A i \in DOMAIN sent[e] : i \in DOMAIN sent'[e] /\ sent'[e][i] = sent[e][i]
      BY <1>0, <3>1, Appending
    <3>3. Len(sent[e]) \in Nat
      BY <1>0
    <3> QED BY <3>2, <3>3, SMT
  <2> QED BY <2>1, <2>2 DEF Moves
<1>2. /\ got'[e] \in Seq(Pieces \union {Garbled})
      /\ Len(got[e]) <= Len(got'[e]) /\ Len(got'[e]) <= Len(sent[Other(e)])
      /\ \A i \in DOMAIN got'[e] : got'[e][i] \in {sent[Other(e)][i], Garbled}
  <2>1. CASE got'[e] = got[e]
    BY <1>0, <2>1
  <2>2. CASE Takes(e)
    <3> DEFINE n == Len(got[e]) + 1
    <3>1. PICK d \in {sent[Other(e)][n], Garbled} : got'[e] = Append(got[e], d)
      BY <2>2 DEF Takes
    <3>2. Len(got[e]) \in Nat /\ Len(sent[Other(e)]) \in Nat
      BY <1>0
    <3>3. n \in 1 .. Len(sent[Other(e)])
      BY <2>2, <3>2, SMT DEF Takes
    <3>4. sent[Other(e)][n] \in Pieces
      BY <1>0, <3>3
    <3>5. d \in Pieces \union {Garbled}
      BY <3>1, <3>4
    <3>6. /\ got'[e] \in Seq(Pieces \union {Garbled}) /\ Len(got'[e]) = n
          /\ \A i \in DOMAIN got[e] : got'[e][i] = got[e][i]
          /\ got'[e][n] = d
          /\ \A i \in DOMAIN got'[e] : i \in DOMAIN got[e] \/ i = n
      BY <1>0, <3>1, <3>5, Appending
    <3>7. \A i \in DOMAIN got'[e] : got'[e][i] \in {sent[Other(e)][i], Garbled}
      BY <1>0, <3>1, <3>6
    <3>8. Len(got[e]) <= n /\ n <= Len(sent[Other(e)])
      BY <3>2, <3>3, SMT
    <3> QED BY <3>6, <3>7, <3>8
  <2> QED BY <2>1, <2>2 DEF Moves
<1>3. given'[e] \in Nat /\ given'[e] <= Len(got'[e])
  <2>1. Len(got[e]) \in Nat /\ Len(got'[e]) \in Nat
    BY <1>0, <1>2
  <2>2. CASE given'[e] = given[e]
    BY <1>0, <1>2, <2>1, <2>2, SMT
  <2>3. CASE Hands(e)
    BY <1>0, <2>3, SMT DEF Hands
  <2> QED BY <2>2, <2>3 DEF Moves
<1> QED BY <1>1, <1>2, <1>3

LEMMA NextKeeps == IInv /\ [Next]_pipe => IInv'
<1> SUFFICES ASSUME IInv, [Next]_pipe PROVE IInv'
  OBVIOUS
<1>1. CASE UNCHANGED pipe
  BY <1>1 DEF IInv, Shape, InOrder, ToldIsTaken, pipe
<1>2. CASE Next
  <2>1. PICK e \in Ends : Streams /\ Moves(e) /\ Rests(Other(e))
    BY <1>2 DEF Next
  <2> DEFINE o == Other(e)
  <2>2. e \in Ends /\ o \in Ends /\ o # e /\ Other(o) = e /\ \A x \in Ends : x = e \/ x = o
    BY TwoEnds
  <2>3. /\ sent'[e] \in Seq(Pieces) /\ Len(sent[e]) <= Len(sent'[e])
        /\ \A i \in DOMAIN sent[e] : i \in DOMAIN sent'[e] /\ sent'[e][i] = sent[e][i]
        /\ got'[e] \in Seq(Pieces \union {Garbled})
        /\ Len(got[e]) <= Len(got'[e]) /\ Len(got'[e]) <= Len(sent[o])
        /\ \A i \in DOMAIN got'[e] : got'[e][i] \in {sent[o][i], Garbled}
        /\ given'[e] \in Nat /\ given'[e] <= Len(got'[e])
    BY <2>1, MovesKeepShape DEF IInv
  <2>4. /\ open'[o] = open[o] /\ sent'[o] = sent[o] /\ got'[o] = got[o]
        /\ given'[o] = given[o] /\ told'[o] = told[o]
    BY <2>1 DEF Rests
  <2>5. /\ sent[e] \in Seq(Pieces) /\ sent[o] \in Seq(Pieces)
        /\ got[e] \in Seq(Pieces \union {Garbled})
        /\ got[o] \in Seq(Pieces \union {Garbled}) /\ given[o] \in Nat
        /\ Len(got[o]) <= Len(sent[e]) /\ given[o] <= Len(got[o])
        /\ \A i \in DOMAIN got[o] : got[o][i] \in {sent[e][i], Garbled}
    BY <2>2 DEF IInv, Shape, InOrder
  <2>6. InOrder'
    <3>1. /\ Len(got'[e]) <= Len(sent'[o])
          /\ \A i \in DOMAIN got'[e] : got'[e][i] \in {sent'[o][i], Garbled}
          /\ given'[e] <= Len(got'[e])
      BY <2>3, <2>4
    <3>2. Len(got'[o]) <= Len(sent'[e])
      <4>1. Len(got[o]) \in Nat /\ Len(sent[e]) \in Nat /\ Len(sent'[e]) \in Nat
        BY <2>3, <2>5
      <4> QED BY <2>3, <2>4, <2>5, <4>1, SMT
    <3>3. DOMAIN got[o] \subseteq DOMAIN sent[e]
      <4>1. DOMAIN got[o] = 1 .. Len(got[o]) /\ DOMAIN sent[e] = 1 .. Len(sent[e])
        BY <2>5
      <4>2. Len(got[o]) \in Nat /\ Len(sent[e]) \in Nat
        BY <2>5
      <4> QED BY <2>5, <4>1, <4>2, SMT
    <3>4. \A i \in DOMAIN got'[o] : got'[o][i] \in {sent'[e][i], Garbled}
      BY <2>3, <2>4, <2>5, <3>3
    <3>5. given'[o] <= Len(got'[o])
      BY <2>4, <2>5
    <3> QED BY <2>2, <3>1, <3>2, <3>4, <3>5 DEF InOrder
  <2>7. ToldIsTaken'
    <3>1. open'[e] => open[e]
      BY <2>1 DEF Moves, Closes
    <3>2. open[e] => told[e] \subseteq DOMAIN got[o]
      BY <2>2 DEF IInv, ToldIsTaken
    <3>3. open'[e] => told'[e] \subseteq DOMAIN got'[o]
      BY <2>1, <2>4, <3>1, <3>2 DEF Moves, Tells
    <3>4. DOMAIN got[e] \subseteq DOMAIN got'[e]
      <4>1. DOMAIN got[e] = 1 .. Len(got[e]) /\ DOMAIN got'[e] = 1 .. Len(got'[e])
        BY <2>3, <2>5
      <4>2. Len(got[e]) \in Nat /\ Len(got'[e]) \in Nat
        BY <2>3, <2>5
      <4> QED BY <2>3, <4>1, <4>2, SMT
    <3>5. open'[o] => told'[o] \subseteq DOMAIN got'[e]
      BY <2>2, <2>4, <3>4 DEF IInv, ToldIsTaken
    <3> QED BY <2>2, <3>3, <3>5 DEF ToldIsTaken
  <2>8. Shape'
    <3>1. /\ open' \in [Ends -> BOOLEAN]
          /\ DOMAIN told' = Ends
      BY <2>1 DEF Streams
    <3>2. sent' \in [Ends -> Seq(Pieces)]
      <4>1. sent' = [x \in Ends |-> sent'[x]]
        BY <2>1 DEF Streams
      <4>2. \A x \in Ends : sent'[x] \in Seq(Pieces)
        BY <2>2, <2>3, <2>4, <2>5
      <4> QED BY <4>1, <4>2
    <3>3. got' \in [Ends -> Seq(Pieces \union {Garbled})]
      <4>1. got' = [x \in Ends |-> got'[x]]
        BY <2>1 DEF Streams
      <4>2. \A x \in Ends : got'[x] \in Seq(Pieces \union {Garbled})
        BY <2>2, <2>3, <2>4, <2>5
      <4> QED BY <4>1, <4>2
    <3>4. given' \in [Ends -> Nat]
      <4>1. given' = [x \in Ends |-> given'[x]]
        BY <2>1 DEF Streams
      <4>2. \A x \in Ends : given'[x] \in Nat
        BY <2>2, <2>3, <2>4, <2>5
      <4> QED BY <4>1, <4>2
    <3> QED BY <3>1, <3>2, <3>3, <3>4 DEF Shape
  <2> QED BY <2>6, <2>7, <2>8 DEF IInv
<1> QED BY <1>1, <1>2

LEMMA Invariance == Spec => []IInv
  BY InitShape, NextKeeps, PTL DEF Spec

(* A pipe delivers in order, and no more than was sent. *)
THEOREM PipeIsOrdered == Spec => []InOrder
<1>1. IInv => InOrder
  BY DEF IInv
<1> QED BY <1>1, Invariance, PTL

(* A pipe that is open tells of no piece that is not at the other end. *)
THEOREM PipeTellsTheTruth == Spec => []ToldIsTaken
<1>1. IInv => ToldIsTaken
  BY DEF IInv
<1> QED BY <1>1, Invariance, PTL
=============================================================================
