-------------------------------- MODULE Pipe --------------------------------
(***************************************************************************)
(* What CRUX promises its users (README.md, 13: connected and reliable):   *)
(* between two ends goes a stream each way.  What one user sends is taken  *)
(* at the other end in the order of sending, each piece once, and handed   *)
(* to the user there; an end that is open tells its user of a piece that   *)
(* it was sent only when it was taken.  Once closed an end takes nothing,  *)
(* and what it tells no longer means that.  Nothing taken is taken back.   *)
(*                                                                         *)
(* A piece may come without its contents; that no piece does is another    *)
(* promise (DeliveredIntact of Connection), which the code does not keep.  *)
(***************************************************************************)
EXTENDS Naturals, Sequences

CONSTANT
    Pieces,  \* what users send
    Garbled  \* a piece without its contents

Ends == {"client", "server"}

Other(e) == IF e = "client" THEN "server" ELSE "client"

VARIABLES
    open,
    sent,   \* what the user of each end has sent
    got,    \* what each end has taken
    given,  \* how much of it its user was handed
    told    \* which of its pieces, by place, its user was told are sent

pipe == <<open, sent, got, given, told>>

Init ==
    /\ open = [e \in Ends |-> TRUE]
    /\ sent = [e \in Ends |-> <<>>]
    /\ got = [e \in Ends |-> <<>>]
    /\ given = [e \in Ends |-> 0]
    /\ told = [e \in Ends |-> {}]
-----------------------------------------------------------------------------
Closes(e) == open[e] /\ ~ open'[e]

Sends(e) ==
    /\ open[e]
    /\ \E d \in Pieces : sent'[e] = Append(sent[e], d)

\* The next piece the other end sent.
Takes(e) ==
    /\ open[e] /\ Len(got[e]) < Len(sent[Other(e)])
    /\ \E d \in {sent[Other(e)][Len(got[e]) + 1], Garbled} :
        got'[e] = Append(got[e], d)

Hands(e) == given'[e] = given[e] + 1 /\ given'[e] <= Len(got'[e])

Tells(e) ==
    /\ told[e] \subseteq told'[e]
    /\ told'[e] \subseteq DOMAIN sent[e]
    /\ open'[e] => told'[e] \ told[e] \subseteq DOMAIN got[Other(e)]

(* One packet may do several of these at an end: a piece is taken, handed  *)
(* out, and acknowledges another.                                          *)
Moves(e) ==
    /\ open'[e] = open[e] \/ Closes(e)
    /\ sent'[e] = sent[e] \/ Sends(e)
    /\ got'[e] = got[e] \/ Takes(e)
    /\ given'[e] = given[e] \/ Hands(e)
    /\ Tells(e)

Rests(e) ==
    /\ open'[e] = open[e] /\ sent'[e] = sent[e] /\ got'[e] = got[e]
    /\ given'[e] = given[e] /\ told'[e] = told[e]

Streams ==
    /\ open' \in [Ends -> BOOLEAN]
    /\ sent' = [e \in Ends |-> sent'[e]] /\ got' = [e \in Ends |-> got'[e]]
    /\ given' = [e \in Ends |-> given'[e]] /\ told' = [e \in Ends |-> told'[e]]

Next == Streams /\ \E e \in Ends : Moves(e) /\ Rests(Other(e))

Spec == Init /\ [][Next]_pipe
-----------------------------------------------------------------------------
(* What is taken is what was sent, in order, whatever is in it. *)
InOrder ==
    \A e \in Ends :
        /\ Len(got[e]) <= Len(sent[Other(e)])
        /\ \A i \in DOMAIN got[e] : got[e][i] \in {sent[Other(e)][i], Garbled}
        /\ given[e] <= Len(got[e])

(* Of an open end the user is told of nothing that was not taken. *)
ToldIsTaken ==
    \A e \in Ends : open[e] => told[e] \subseteq DOMAIN got[Other(e)]
=============================================================================
