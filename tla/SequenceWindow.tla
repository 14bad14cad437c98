--------------------------- MODULE SequenceWindow ---------------------------
(***************************************************************************)
(* How a sender and a receiver use sequence numbers between them.  The     *)
(* sender numbers each packet with next_sequence++ (socket.hpp, 688, 721,  *)
(* 737); the receiver accepts a packet iff its number is the next() of the *)
(* last one it took (is_expected_packet) and then makes it the last one.   *)
(*                                                                         *)
(* Numbers repeat after Max + 1 packets, so none of this can work for      *)
(* datagrams of any age: Window bounds how far the sender runs ahead of    *)
(* the receiver and Lifetime how many packets the sender may number while  *)
(* an old datagram is still in the network: one that is Max packets old    *)
(* carries the very number the receiver waits for.                         *)
(***************************************************************************)
EXTENDS SequenceNumber

CONSTANTS Window, Lifetime

ASSUME WindowAssumption   == Window \in Nat /\ Window <= Middle
ASSUME LifetimeAssumption == Lifetime \in Nat /\ Lifetime < Max

VARIABLES
    issued,  \* the last number the sender has used
    seen,    \* the last number the receiver has taken
    ahead    \* how many packets were really numbered after that one

vars == <<issued, seen, ahead>>

\* The number the sender used age packets ago.
Back(n, age) == IF age <= n THEN n - age ELSE n - age + Max + 1

\* Faulty variant: any later number is let in.
LaterPacket(last, seq) == Before(last, seq)

ExpectedPacket(last, seq) == Successor(last) = seq

TypeOK ==
    /\ issued \in Numbers
    /\ seen \in Numbers
    /\ ahead \in 0 .. Window
-----------------------------------------------------------------------------
\* The first number is random; the receiver takes it with the handshake.
Init ==
    /\ issued \in Numbers
    /\ seen = issued
    /\ ahead = 0

Issue ==
    /\ ahead < Window
    /\ issued' = Successor(issued)
    /\ ahead' = ahead + 1
    /\ UNCHANGED seen

\* A datagram numbered age packets ago arrives: a fresh one, a later one or
\* a retransmission of one the receiver already has.
Arrive(age) ==
    /\ ExpectedPacket(seen, Back(issued, age))
    /\ seen' = Back(issued, age)
    /\ ahead' = age
    /\ UNCHANGED issued

Next == Issue \/ \E age \in 0 .. Lifetime : Arrive(age)

Spec == Init /\ [][Next]_vars
-----------------------------------------------------------------------------
(* The distance from the receiver's number to the sender's is the number   *)
(* of packets in between, wherever on the circle the two are, and the      *)
(* order says the receiver is behind exactly when there is one.            *)
DistanceCounts ==
    /\ Distance(seen, issued) = ahead
    /\ Distance(issued, seen) = - ahead

BehindIffAhead == Before(seen, issued) <=> ahead > 0

(* A receiver moves forward by exactly one packet at a time: no datagram   *)
(* of any admitted age is taken twice or out of turn, although its number  *)
(* is all the receiver looks at (is_expected_packet).                      *)
OneAtATime == [][ seen' # seen => ahead' = ahead - 1 ]_vars
=============================================================================
