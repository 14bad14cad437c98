---------------------------- MODULE CumulativeSet ----------------------------
(***************************************************************************)
(* cumulative_set (detail/cumulative_set.hpp): the sequence numbers a      *)
(* socket has received from its peer, of which it acknowledges front().    *)
(* The container is a std::set ordered by operator< of sequence_number;    *)
(* it is modelled by the set of numbers in it, whose first and last        *)
(* elements and adjacent pairs are those of that order.                    *)
(***************************************************************************)
EXTENDS SequenceNumber

(* The elements begin() and rbegin() point at. *)
First(S) == CHOOSE n \in S : \A m \in S : ~ Before(m, n)
Last(S)  == CHOOSE n \in S : \A m \in S : ~ Before(n, m)

(* n follows m in the iteration over S. *)
Adjacent(S, m, n) ==
    /\ Before(m, n)
    /\ \A k \in S : ~ (Before(m, k) /\ Before(k, n))

\* Faulty variants: holes are not looked for; a hole costs what lies beyond
\* it; neighbours one apart are taken for a hole.
PruneAll(S) == {Last(S)}

PruneFromHole(S) ==
    IF \E m, n \in S : Adjacent(S, m, n) /\ Distance(m, n) > 1
    THEN {First(S)}
    ELSE {Last(S)}

PruneStrict(S) ==
    IF \E m, n \in S : Adjacent(S, m, n) /\ Distance(m, n) > 0
    THEN S
    ELSE {Last(S)}

(* prune(): with a hole anywhere in the set nothing is erased, otherwise   *)
(* everything before the last element.                                     *)
Prune(S) ==
    IF \E m, n \in S : Adjacent(S, m, n) /\ Distance(m, n) > 1
    THEN S
    ELSE {Last(S)}

(* insert(). front() is First, boost::none when the set is empty. *)
Insert(S, n) == Prune(S \union {n})
=============================================================================
