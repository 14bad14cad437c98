------------------------------- MODULE History -------------------------------
(***************************************************************************)
(* A cumulative_set as a receiver's history.  The first number is the one  *)
(* of the handshake; the peer numbers its packets upwards from there and   *)
(* they arrive in any order and any number of times.  Datagrams behind     *)
(* the front are filtered out before they reach the set: today because     *)
(* is_expected_packet (socket.hpp, 307-322) lets in front.next() only, and *)
(* still under the rule its comment announces ("we'll filter out only      *)
(* those that are less than what we've seen already").                     *)
(*                                                                         *)
(* The run covers the half circle ahead of the first number, the stretch   *)
(* on which the order of the std::set is transitive.                       *)
(***************************************************************************)
EXTENDS CumulativeSet

VARIABLES
    container,  \* the cumulative_set
    initial,    \* the number of the handshake
    arrived     \* every number inserted so far

vars == <<container, initial, arrived>>

\* The numbers from m up to n, both included, n not behind m.
Span(m, n) == {k \in Numbers : /\ Distance(m, k) >= 0
                               /\ Distance(m, k) <= Distance(m, n)}

Ahead(n) == {k \in Numbers : Distance(n, k) >= 0}

TypeOK ==
    /\ container \subseteq Numbers
    /\ initial \in Numbers
    /\ arrived \subseteq Ahead(initial)

Init ==
    /\ initial \in Numbers
    /\ container = Insert({}, initial)
    /\ arrived = {initial}

\* Faulty variant: old datagrams are not filtered out.
InsertUnfiltered(n) ==
    /\ container' = Insert(container, n)
    /\ arrived' = arrived \union {n}
    /\ UNCHANGED initial

InsertNumber(n) ==
    /\ n \in Ahead(initial)
    /\ ~ Before(n, First(container))
    /\ container' = Insert(container, n)
    /\ arrived' = arrived \union {n}
    /\ UNCHANGED initial

Next == \E n \in Numbers : InsertNumber(n)

Spec == Init /\ [][Next]_vars
-----------------------------------------------------------------------------
(* The number acknowledged claims no packet that has not arrived: all from *)
(* the first up to front() have.                                           *)
FrontNeverOverclaims == Span(initial, First(container)) \subseteq arrived

(* A packet beyond the front that has arrived is remembered, so that it    *)
(* need not arrive again for the front to pass it.                         *)
NothingForgotten ==
    container = {n \in arrived : ~ Before(n, First(container))}

(* Once the holes are filled the front is at the newest packet, whatever   *)
(* the order of arrival (test/cumulative_set_suite.cpp, 87-89).            *)
CatchesUp ==
    arrived = Span(initial, Last(arrived)) => First(container) = Last(arrived)

(* What is acknowledged is never taken back. *)
FrontNeverRegresses ==
    [][ ~ Before(First(container'), First(container)) ]_vars
=============================================================================
