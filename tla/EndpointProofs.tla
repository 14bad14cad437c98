--------------------------- MODULE EndpointProofs ---------------------------
(***************************************************************************)
(* Proofs about Endpoint, for any sockets, acceptors and peers.  What the  *)
(* theorems speak of is moved by few fields of the record of the endpoint: *)
(* those of the reads, of the receives and of what has happened.  The      *)
(* first lemmas say which of them each operator of Reading changes.  The   *)
(* second part, from SamePlaces on, counts who may be receiving: a socket  *)
(* that receives has a place of its own in the map, so there are at most   *)
(* as many of them as the multiplexer's assertions allow for.  The third,  *)
(* from SameHomes on, says where the sockets are, and follows the packets  *)
(* and their acknowledgements to the sockets they are given to.            *)
(***************************************************************************)
EXTENDS Endpoint, FiniteSetTheorems, SequenceTheorems, TLAPS

SameReads(h, k) ==
    /\ k.open = h.open /\ k.posted = h.posted /\ k.ready = h.ready
    /\ k.inbox = h.inbox /\ k.stuck = h.stuck /\ k.raced = h.raced

SameHistory(h, k) == k.stolen = h.stolen /\ k.repeated = h.repeated

SameReceives(h, k) ==
    k.calls = h.calls /\ k.receiving = h.receiving /\ k.requests = h.requests

\* Nothing changes that the theorems speak of.
Unseen(h, k) ==
    /\ k \in HostRecords
    /\ SameReads(h, k) /\ SameHistory(h, k) /\ SameReceives(h, k)
    /\ k.failed = h.failed

\* Inside process_peek sockets come to receive and cease to: c more of them
\* ceased than calls were taken back.
Moved(h, k, c) ==
    /\ k \in HostRecords
    /\ SameReads(h, k) /\ SameHistory(h, k)
    /\ k.requests = h.requests /\ k.calls >= h.calls
    /\ k.failed = "no" =>
        /\ h.failed = "no"
        /\ k.calls - Cardinality(k.receiving)
             = h.calls - Cardinality(h.receiving) + c

\* One receive ends when a packet comes to a socket that was receiving.
Ended(h, s) == IF s \in h.receiving THEN 1 ELSE 0
-----------------------------------------------------------------------------
LEMMA Counting ==
    ASSUME NEW h \in HostRecords
    PROVE  /\ h.calls \in Int /\ IsFiniteSet(h.receiving)
           /\ Cardinality(h.receiving) \in Nat
           /\ Len(h.requests) \in Nat
<1>1. h.receiving \subseteq Sockets /\ IsFiniteSet(Sockets)
  BY ReadingAssumption DEF HostRecords
<1>2. IsFiniteSet(h.receiving)
  BY <1>1, FS_Subset
<1>3. Cardinality(h.receiving) \in Nat
  BY <1>2, FS_CardinalityType
<1> QED BY <1>2, <1>3 DEF HostRecords

LEMMA SetCalls ==
    ASSUME NEW h \in HostRecords, NEW v \in Int
    PROVE  LET k == [h EXCEPT !.calls = v]
           IN  /\ k \in HostRecords /\ SameReads(h, k) /\ SameHistory(h, k)
               /\ k.calls = v /\ k.receiving = h.receiving
               /\ k.requests = h.requests /\ k.failed = h.failed
  BY DEF HostRecords, SameReads, SameHistory

LEMMA SetFailed ==
    ASSUME NEW h \in HostRecords, NEW v \in Failures
    PROVE  LET k == Fail(h, v)
           IN  /\ k \in HostRecords /\ SameReads(h, k) /\ SameHistory(h, k)
               /\ SameReceives(h, k) /\ k.failed = v
  BY DEF HostRecords, SameReads, SameHistory, SameReceives, Fail

LEMMA SetReceiving ==
    ASSUME NEW h \in HostRecords, NEW v \in SUBSET Sockets
    PROVE  LET k == [h EXCEPT !.receiving = v]
           IN  /\ k \in HostRecords /\ SameReads(h, k) /\ SameHistory(h, k)
               /\ k.calls = h.calls /\ k.receiving = v
               /\ k.requests = h.requests /\ k.failed = h.failed
               /\ k.attached = h.attached
  BY DEF HostRecords, SameReads, SameHistory

LEMMA SetReady ==
    ASSUME NEW h \in HostRecords, NEW v \in Nat
    PROVE  LET k == [h EXCEPT !.ready = v]
           IN  /\ k \in HostRecords /\ SameReceives(h, k) /\ SameHistory(h, k)
               /\ k.failed = h.failed /\ k.open = h.open /\ k.inbox = h.inbox
               /\ k.posted = h.posted /\ k.ready = v
               /\ k.stuck = h.stuck /\ k.raced = h.raced
               /\ k.next = h.next /\ k.sockets = h.sockets /\ k.from = h.from
  BY DEF HostRecords, SameReceives, SameHistory

LEMMA SetInbox ==
    ASSUME NEW h \in HostRecords, NEW v \in Seq(Datagrams)
    PROVE  LET k == [h EXCEPT !.inbox = v]
           IN  /\ k \in HostRecords /\ SameReceives(h, k) /\ SameHistory(h, k)
               /\ k.failed = h.failed /\ k.open = h.open /\ k.inbox = v
               /\ k.posted = h.posted /\ k.ready = h.ready
               /\ k.stuck = h.stuck /\ k.raced = h.raced
               /\ k.next = h.next /\ k.sockets = h.sockets /\ k.from = h.from
  BY DEF HostRecords, SameReceives, SameHistory

LEMMA SetStuck ==
    ASSUME NEW h \in HostRecords, NEW v \in {"no", "read", "nothing"}
    PROVE  LET k == [h EXCEPT !.stuck = v]
           IN  /\ k \in HostRecords /\ SameReceives(h, k) /\ SameHistory(h, k)
               /\ k.failed = h.failed /\ k.open = h.open /\ k.inbox = h.inbox
               /\ k.posted = h.posted /\ k.ready = h.ready
               /\ k.stuck = v /\ k.raced = h.raced
  BY DEF HostRecords, SameReceives, SameHistory

LEMMA SetEmpties ==
    ASSUME NEW h \in HostRecords, NEW v \in Nat
    PROVE  LET k == [h EXCEPT !.empties = v]
           IN  /\ k \in HostRecords /\ SameReads(h, k) /\ SameHistory(h, k)
               /\ SameReceives(h, k) /\ k.failed = h.failed
<1> DEFINE k == [h EXCEPT !.empties = v]
<1>1. k \in HostRecords
  BY DEF HostRecords
<1>2. SameReads(h, k)
  BY DEF HostRecords, SameReads
<1>3. SameHistory(h, k) /\ SameReceives(h, k) /\ k.failed = h.failed
  BY DEF HostRecords, SameHistory, SameReceives
<1> QED BY <1>1, <1>2, <1>3

LEMMA SetRaced ==
    ASSUME NEW h \in HostRecords, NEW v \in BOOLEAN
    PROVE  LET k == [h EXCEPT !.raced = v]
           IN  /\ k \in HostRecords /\ SameReceives(h, k) /\ SameHistory(h, k)
               /\ k.failed = h.failed /\ k.open = h.open /\ k.inbox = h.inbox
               /\ k.posted = h.posted /\ k.ready = h.ready
               /\ k.stuck = h.stuck /\ (k.raced <=> v)
  BY DEF HostRecords, SameReceives, SameHistory

LEMMA SetStolen ==
    ASSUME NEW h \in HostRecords, NEW v \in BOOLEAN
    PROVE  LET k == [h EXCEPT !.stolen = v]
           IN  /\ k \in HostRecords /\ SameReads(h, k) /\ SameReceives(h, k)
               /\ k.failed = h.failed /\ (k.stolen <=> v) /\ k.repeated = h.repeated
               /\ k.next = h.next /\ k.sockets = h.sockets /\ k.from = h.from
  BY DEF HostRecords, SameReads, SameReceives
-----------------------------------------------------------------------------
\* A read that is started is posted or complete.
LEMMA DoStartReceiveEffect ==
    ASSUME NEW h \in HostRecords
    PROVE  LET k == DoStartReceive(h)
           IN  /\ k \in HostRecords /\ SameReceives(h, k) /\ SameHistory(h, k)
               /\ k.failed = h.failed /\ k.open = h.open /\ k.inbox = h.inbox
               /\ k.stuck = h.stuck /\ k.raced = h.raced
               /\ k.posted + k.ready = h.posted + h.ready + 1
               /\ h.open /\ h.inbox = <<>> => k.ready = h.ready
<1> DEFINE k == DoStartReceive(h)
<1>1. h.inbox \in Seq(Datagrams)
  BY DEF HostRecords
<1>2. h.inbox # <<>> => Head(h.inbox) \in Datagrams
  BY <1>1
<1>3. h.inbox # <<>> => Head(h.inbox).from \in Remotes \union {Nobody}
  BY <1>2 DEF Datagrams, Packets, EmptyPacket
<1>4. PICK p \in Nat, q \in Nat : p = h.posted + 1 /\ q = h.ready + 1
  BY DEF HostRecords
<1>5. h.posted \in Nat /\ h.ready \in Nat
  BY DEF HostRecords
<1>6. CASE ~ h.open
  <2>1. k = [h EXCEPT !.ready = q]
    BY <1>4, <1>6 DEF DoStartReceive
  <2> HIDE DEF k
  <2> QED BY <2>1, <1>4, <1>5, <1>6, SetReady DEF k
<1>7. CASE h.open /\ h.inbox # <<>> /\ h.posted = 0
  <2>1. PICK f \in Remotes \union {Nobody} : f = Head(h.inbox).from
    BY <1>3, <1>7
  <2>2. k = [h EXCEPT !.ready = q, !.from = f]
    BY <1>4, <1>7, <2>1 DEF DoStartReceive
  <2> HIDE DEF k
  <2>3. /\ k \in HostRecords /\ SameReceives(h, k) /\ SameHistory(h, k)
        /\ k.failed = h.failed /\ k.open = h.open /\ k.inbox = h.inbox
        /\ k.stuck = h.stuck /\ k.raced = h.raced
        /\ k.posted = h.posted /\ k.ready = q
    BY <2>2 DEF HostRecords, SameReceives, SameHistory
  <2> QED BY <2>3, <1>4, <1>5, <1>7 DEF k
<1>8. CASE h.open /\ ~ (h.inbox # <<>> /\ h.posted = 0)
  <2>1. k = [h EXCEPT !.posted = p]
    BY <1>4, <1>8 DEF DoStartReceive
  <2> HIDE DEF k
  <2>2. /\ k \in HostRecords /\ SameReceives(h, k) /\ SameHistory(h, k)
        /\ k.failed = h.failed /\ k.open = h.open /\ k.inbox = h.inbox
        /\ k.stuck = h.stuck /\ k.raced = h.raced
        /\ k.posted = p /\ k.ready = h.ready
    BY <2>1 DEF HostRecords, SameReceives, SameHistory
  <2> QED BY <2>2, <1>4, <1>5 DEF k
<1> QED BY <1>6, <1>7, <1>8 DEF HostRecords

\* With receive_calls above zero start_receive only counts.
LEMMA StartReceiveCounts ==
    ASSUME NEW h \in HostRecords, h.calls >= 1
    PROVE  LET k == StartReceive(h)
           IN  /\ k \in HostRecords /\ SameReads(h, k) /\ SameHistory(h, k)
               /\ k.receiving = h.receiving /\ k.requests = h.requests
               /\ \/ k.calls = h.calls + 1 /\ k.failed = h.failed
                  \/ k.calls = h.calls /\ k.failed = "start_receive"
<1>1. PICK v \in Int : v = h.calls + 1
  BY DEF HostRecords
<1>2. CASE h.calls \notin 0 .. Receivers(h) + 1
  <2>1. StartReceive(h) = Fail(h, "start_receive")
    BY <1>2 DEF StartReceive
  <2> QED BY <2>1, SetFailed DEF SameReceives, Failures
<1>3. CASE h.calls \in 0 .. Receivers(h) + 1
  <2>1. StartReceive(h) = [h EXCEPT !.calls = v]
    BY <1>1, <1>3 DEF StartReceive
  <2> QED BY <2>1, <1>1, SetCalls
<1> QED BY <1>2, <1>3

LEMMA StartReceiveEffect ==
    ASSUME NEW h \in HostRecords, h.stuck = "no"
    PROVE  LET k == StartReceive(h)
           IN  /\ k \in HostRecords /\ SameHistory(h, k)
               /\ k.receiving = h.receiving /\ k.requests = h.requests
               /\ k.open = h.open /\ k.inbox = h.inbox /\ k.stuck = "no"
               /\ \/ /\ k.calls = h.calls + 1 /\ k.failed = h.failed
                     /\ h.calls = 0 => k.posted + k.ready > 0
                     /\ h.calls # 0 => SameReads(h, k)
                  \/ /\ k.calls = h.calls /\ k.failed = "start_receive"
                     /\ SameReads(h, k)
               /\ \/ SameReads(h, k)
                  \/ k.raced
                  \/ /\ h.posted + h.ready = 0 /\ k.posted + k.ready = 1
                     /\ k.raced = h.raced
                     /\ h.open /\ h.inbox = <<>> => k.ready = 0
<1>1. PICK v \in Int : v = h.calls + 1
  BY DEF HostRecords
<1>2. CASE h.calls \notin 0 .. Receivers(h) + 1
  <2>1. StartReceive(h) = Fail(h, "start_receive")
    BY <1>2 DEF StartReceive
  <2> QED BY <2>1, SetFailed DEF SameReceives, SameReads, Failures
<1>3. CASE h.calls \in 0 .. Receivers(h) + 1 /\ h.calls # 0
  <2>1. StartReceive(h) = [h EXCEPT !.calls = v]
    BY <1>1, <1>3 DEF StartReceive
  <2> QED BY <2>1, <1>1, <1>3, SetCalls DEF SameReads
<1>4. CASE h.calls \in 0 .. Receivers(h) + 1 /\ h.calls = 0
  <2> DEFINE h1 == [h EXCEPT !.calls = v]
  <2>1. PICK w \in BOOLEAN : w <=> (h.raced \/ h.posted + h.ready > 0)
    OBVIOUS
  <2> DEFINE h2 == [h1 EXCEPT !.raced = w]
  <2>2. /\ h1 \in HostRecords /\ SameReads(h, h1) /\ SameHistory(h, h1)
        /\ h1.calls = v /\ h1.receiving = h.receiving
        /\ h1.requests = h.requests /\ h1.failed = h.failed
    BY SetCalls
  <2>3. h.raced \in BOOLEAN /\ h1.raced \in BOOLEAN /\ h.posted \in Nat /\ h.ready \in Nat
    BY <2>2 DEF HostRecords
  <2>4. w = (h.raced \/ h.posted + h.ready > 0)
    BY <2>1
  <2>5. StartReceive(h) = DoStartReceive(h2)
    BY <1>1, <1>4, <2>2, <2>4 DEF StartReceive, SameReads
  <2> HIDE DEF h1
  <2>6. /\ h2 \in HostRecords /\ SameReceives(h1, h2) /\ SameHistory(h1, h2)
        /\ h2.failed = h1.failed /\ h2.open = h1.open /\ h2.inbox = h1.inbox
        /\ h2.posted = h1.posted /\ h2.ready = h1.ready
        /\ h2.stuck = h1.stuck /\ (h2.raced <=> w)
    BY <2>2, SetRaced
  <2> HIDE DEF h2
  <2>7. h2.raced \in BOOLEAN
    BY <2>6 DEF HostRecords
  <2> DEFINE k == DoStartReceive(h2)
  <2>8. /\ k \in HostRecords /\ SameReceives(h2, k) /\ SameHistory(h2, k)
        /\ k.failed = h2.failed /\ k.open = h2.open /\ k.inbox = h2.inbox
        /\ k.stuck = h2.stuck /\ k.raced = h2.raced
        /\ k.posted + k.ready = h2.posted + h2.ready + 1
        /\ h2.open /\ h2.inbox = <<>> => k.ready = h2.ready
    BY <2>6, DoStartReceiveEffect
  <2> HIDE DEF k
  <2>9. k.posted \in Nat /\ k.ready \in Nat
    BY <2>8 DEF HostRecords
  <2>10. /\ k \in HostRecords /\ SameHistory(h, k)
         /\ k.receiving = h.receiving /\ k.requests = h.requests
         /\ k.open = h.open /\ k.inbox = h.inbox /\ k.stuck = "no"
         /\ k.calls = h.calls + 1 /\ k.failed = h.failed
         /\ k.posted + k.ready = h.posted + h.ready + 1
         /\ h.open /\ h.inbox = <<>> => k.ready = h.ready
    BY <2>2, <2>6, <2>8, <1>1 DEF SameReads, SameHistory, SameReceives
  <2>11. k.raced \/ (h.posted + h.ready = 0 /\ k.raced = h.raced)
    BY <2>1, <2>3, <2>6, <2>7, <2>8, <2>9
  <2> QED BY <2>3, <2>5, <2>9, <2>10, <2>11, <1>4 DEF k
<1> QED BY <1>2, <1>3, <1>4
-----------------------------------------------------------------------------
LEMMA UnseenMoves ==
    ASSUME NEW h \in HostRecords, NEW k, Unseen(h, k)
    PROVE  Moved(h, k, 0)
  BY Counting DEF Unseen, Moved, SameReceives

LEMMA MovedTwice ==
    ASSUME NEW h \in HostRecords, NEW k, NEW m, NEW c \in Int, NEW d \in Int,
           Moved(h, k, c), Moved(k, m, d)
    PROVE  Moved(h, m, c + d)
<1>1. k \in HostRecords /\ m \in HostRecords
  BY DEF Moved
<1>2. /\ h.calls \in Int /\ k.calls \in Int /\ m.calls \in Int
      /\ Cardinality(h.receiving) \in Nat /\ Cardinality(k.receiving) \in Nat
      /\ Cardinality(m.receiving) \in Nat
  BY <1>1, Counting
<1> QED BY <1>1, <1>2 DEF Moved, SameReads, SameHistory

LEMMA FailMoves ==
    ASSUME NEW h \in HostRecords, NEW v \in Failures, v # "no"
    PROVE  Moved(h, Fail(h, v), 0)
  BY SetFailed, Counting DEF Moved, SameReceives

LEMMA IdempotentStartReceiveMoves ==
    ASSUME NEW h \in HostRecords, NEW s \in Sockets, h.calls >= 1
    PROVE  Moved(h, IdempotentStartReceive(h, s), 0)
<1>1. CASE s \in h.receiving
  BY <1>1, UnseenMoves
     DEF IdempotentStartReceive, Unseen, SameReads, SameHistory, SameReceives
<1>2. CASE s \notin h.receiving /\ s \notin h.attached
  <2>1. IdempotentStartReceive(h, s) = Fail(h, "multiplexer")
    BY <1>2 DEF IdempotentStartReceive
  <2> QED BY <2>1, FailMoves DEF Failures
<1>3. CASE s \notin h.receiving /\ s \in h.attached
  <2>1. PICK v \in SUBSET Sockets : v = h.receiving \union {s}
    BY DEF HostRecords
  <2> DEFINE h1 == [h EXCEPT !.receiving = v]
             k  == StartReceive(h1)
  <2>2. IdempotentStartReceive(h, s) = k
    BY <1>3, <2>1 DEF IdempotentStartReceive
  <2>3. /\ h1 \in HostRecords /\ SameReads(h, h1) /\ SameHistory(h, h1)
        /\ h1.calls = h.calls /\ h1.receiving = v
        /\ h1.requests = h.requests /\ h1.failed = h.failed
    BY SetReceiving
  <2> HIDE DEF h1
  <2>4. /\ k \in HostRecords /\ SameReads(h1, k) /\ SameHistory(h1, k)
        /\ k.receiving = h1.receiving /\ k.requests = h1.requests
        /\ \/ k.calls = h1.calls + 1 /\ k.failed = h1.failed
           \/ k.calls = h1.calls /\ k.failed = "start_receive"
    BY <2>3, StartReceiveCounts
  <2>5. Cardinality(v) = Cardinality(h.receiving) + 1
    BY <2>1, <1>3, Counting, FS_AddElement
  <2> HIDE DEF k
  <2> QED BY <2>2, <2>3, <2>4, <2>5, Counting DEF Moved, SameReads, SameHistory
<1> QED BY <1>1, <1>2, <1>3

LEMMA OnAnyPacketReceivedMoves ==
    ASSUME NEW h \in HostRecords, NEW s \in Sockets
    PROVE  Moved(h, OnAnyPacketReceived(h, s), Ended(h, s))
<1>1. PICK v \in SUBSET Sockets : v = h.receiving \ {s}
  BY DEF HostRecords
<1> DEFINE k == [h EXCEPT !.receiving = v]
<1>2. OnAnyPacketReceived(h, s) = k
  BY <1>1 DEF OnAnyPacketReceived
<1>3. /\ k \in HostRecords /\ SameReads(h, k) /\ SameHistory(h, k)
      /\ k.calls = h.calls /\ k.receiving = v
      /\ k.requests = h.requests /\ k.failed = h.failed
  BY SetReceiving
<1> HIDE DEF k
<1>4. CASE s \in h.receiving
  <2>1. Cardinality(v) = Cardinality(h.receiving) - 1
    BY <1>1, <1>4, Counting, FS_RemoveElement
  <2> QED BY <1>2, <1>3, <1>4, <2>1, Counting DEF Moved, Ended
<1>5. CASE s \notin h.receiving
  <2>1. v = h.receiving
    BY <1>1, <1>5
  <2> QED BY <1>2, <1>3, <1>5, <2>1, Counting DEF Moved, Ended
<1> QED BY <1>4, <1>5
-----------------------------------------------------------------------------
LEMMA StartedUnseen ==
    ASSUME NEW h \in HostRecords, NEW s \in Sockets
    PROVE  Unseen(h, Started(h, s))
<1>1. CASE h.answers[s] # <<>>
  <2>1. h.answers[s] \in Seq(Answers)
    BY DEF HostRecords
  <2>2. Head(h.answers[s]) \in Answers
    BY <2>1, <1>1
  <2>3. PICK v \in SUBSET Answers : v = h.flying \union {Head(h.answers[s])}
    BY <2>2 DEF HostRecords
  <2>4. Started(h, s) = [h EXCEPT !.flying = v]
    BY <1>1, <2>3 DEF Started
  <2>5. Unseen(h, [h EXCEPT !.flying = v])
    BY DEF HostRecords, Unseen, SameReads, SameHistory, SameReceives
  <2> QED BY <2>4, <2>5
<1>2. CASE h.answers[s] = <<>>
  BY <1>2 DEF Started, Unseen, SameReads, SameHistory, SameReceives
<1> QED BY <1>1, <1>2

LEMMA AnswersUnseen ==
    ASSUME NEW h \in HostRecords, NEW s \in Sockets, NEW q \in Seq(Answers)
    PROVE  Unseen(h, [h EXCEPT !.answers[s] = q])
  BY DEF HostRecords, Unseen, SameReads, SameHistory, SameReceives

LEMMA AnswerHandlerUnseen ==
    ASSUME NEW h \in HostRecords, NEW a \in Answers, NEW error \in BOOLEAN
    PROVE  Unseen(h, AnswerHandler(h, a, error))
<1>1. a.by \in Sockets /\ a.to \in Remotes
  BY DEF Answers
<1>2. CASE error
  BY <1>1, <1>2
     DEF AnswerHandler, HostRecords, Connectivity, Unseen, SameReads, SameHistory, SameReceives
<1>3. CASE ~ error
  <2> DEFINE h1 == [h EXCEPT !.conn[a.by] = "established"]
  <2>1. Unseen(h, h1) /\ h1 \in HostRecords
    BY <1>1 DEF HostRecords, Connectivity, Unseen, SameReads, SameHistory, SameReceives
  <2>2. AnswerHandler(h, a, error) = [h1 EXCEPT !.remote[a.by] = a.to]
    BY <1>3 DEF AnswerHandler
  <2> HIDE DEF h1
  <2>3. Unseen(h1, [h1 EXCEPT !.remote[a.by] = a.to])
    BY <1>1, <2>1 DEF HostRecords, Unseen, SameReads, SameHistory, SameReceives
  <2> QED BY <2>1, <2>2, <2>3 DEF Unseen, SameReads, SameHistory, SameReceives
<1> QED BY <1>2, <1>3

LEMMA SendHandshakeMoves ==
    ASSUME NEW h \in HostRecords, NEW s \in Sockets, NEW r \in Remotes,
           h.calls >= 1, h.next <= MaxAnswers
    PROVE  Moved(h, SendHandshake(h, s, r), 0)
<1> DEFINE a == [by |-> s, n |-> h.next, to |-> r]
<1>1. a \in Answers /\ h.next + 1 \in Nat \ {0}
  BY ReadingAssumption DEF Answers, HostRecords
<1>2. CASE s \notin h.attached
  <2>1. SendHandshake(h, s, r) = Fail(h, "multiplexer")
    BY <1>2 DEF SendHandshake
  <2> QED BY <2>1, FailMoves DEF Failures
<1>3. CASE s \in h.attached
  <2>1. PICK n \in Nat \ {0} : n = h.next + 1
    BY <1>1
  <2> DEFINE h0 == [h EXCEPT !.next = n]
             h1 == IdempotentStartReceive(h0, s)
  <2>2. Unseen(h, h0)
    BY DEF HostRecords, Unseen, SameReads, SameHistory, SameReceives
  <2> HIDE DEF h0
  <2>3. Moved(h0, h1, 0) /\ h0 \in HostRecords
    BY <2>2, IdempotentStartReceiveMoves DEF Unseen, SameReceives
  <2> HIDE DEF h1
  <2>4. h1 \in HostRecords /\ h1.answers[s] \in Seq(Answers)
    BY <2>3 DEF Moved, HostRecords
  <2> HIDE DEF a
  <2>5. PICK q \in Seq(Answers) : q = Append(h1.answers[s], a)
    <3>1. Append(h1.answers[s], a) \in Seq(Answers)
      BY <2>4, <1>1
    <3> QED BY <3>1
  <2> DEFINE h2 == [h1 EXCEPT !.answers[s] = q]
  <2>6. Unseen(h1, h2)
    BY <2>4, AnswersUnseen
  <2>7. SendHandshake(h, s, r) = IF h.answers[s] = <<>> THEN Started(h2, s) ELSE h2
    BY <1>3, <2>1, <2>5 DEF SendHandshake, h1, h0, a
  <2> HIDE DEF h2
  <2>8. Unseen(h2, Started(h2, s))
    BY <2>6, StartedUnseen DEF Unseen
  <2>9. Moved(h, h0, 0) /\ Moved(h1, h2, 0) /\ Moved(h2, Started(h2, s), 0)
    BY <2>2, <2>4, <2>6, <2>8, UnseenMoves DEF Unseen
  <2>10. Moved(h, h1, 0 + 0)
    BY <2>3, <2>9, MovedTwice
  <2>11. Moved(h, h2, 0 + 0 + 0)
    BY <2>9, <2>10, MovedTwice
  <2>12. Moved(h, Started(h2, s), 0 + 0 + 0 + 0)
    BY <2>9, <2>11, MovedTwice
  <2> QED BY <2>7, <2>11, <2>12
<1> QED BY <1>2, <1>3

LEMMA RestartMoves ==
    ASSUME NEW h \in HostRecords, NEW s \in Sockets, h.calls >= 1
    PROVE  Moved(h, RestartIfUnacknowledged(h, s), 0)
<1>1. Moved(h, h, 0)
  BY UnseenMoves DEF Unseen, SameReads, SameHistory, SameReceives
<1> QED BY <1>1, IdempotentStartReceiveMoves DEF RestartIfUnacknowledged

LEMMA WithoutType ==
    ASSUME NEW S, NEW q \in Seq(S), NEW i \in 1 .. Len(q)
    PROVE  Without(q, i) \in Seq(S) /\ Len(Without(q, i)) = Len(q) - 1
<1> DEFINE x == SubSeq(q, 1, i - 1)
           y == SubSeq(q, i + 1, Len(q))
<1>1. Len(q) \in Nat
  OBVIOUS
<1>2. x \in Seq(S) /\ Len(x) = i - 1
  BY <1>1
<1>3. y \in Seq(S) /\ Len(y) = Len(q) - i
  BY <1>1
<1>4. Without(q, i) = x \o y
  BY DEF Without
<1> HIDE DEF x, y
<1>5. x \o y \in Seq(S) /\ Len(x \o y) = Len(x) + Len(y)
  BY <1>2, <1>3, ConcatProperties
<1> QED BY <1>1, <1>2, <1>3, <1>4, <1>5

LEMMA ProcessHandshakeMoves ==
    ASSUME NEW h \in HostRecords, NEW s \in Sockets, NEW r \in Remotes,
           h.calls >= 1, h.next <= MaxAnswers
    PROVE  Moved(h, ProcessHandshake(h, s, r), Ended(h, s))
<1> DEFINE h1 == OnAnyPacketReceived(h, s)
           k  == IF h.conn[s] = "listening" THEN SendHandshake(h1, s, r)
                 ELSE Fail(h1, "process_handshake")
<1>1. ProcessHandshake(h, s, r) = k
  BY DEF ProcessHandshake
<1>2. Moved(h, h1, Ended(h, s))
  BY OnAnyPacketReceivedMoves
<1>3. h1.next = h.next
  BY DEF OnAnyPacketReceived, HostRecords
<1>4. h1 \in HostRecords /\ h1.calls >= 1
  BY <1>2, Counting DEF Moved
<1> HIDE DEF h1
<1>5. Moved(h1, SendHandshake(h1, s, r), 0)
  BY <1>3, <1>4, SendHandshakeMoves
<1>6. Moved(h1, Fail(h1, "process_handshake"), 0)
  BY <1>4, FailMoves DEF Failures
<1>7. Moved(h1, k, 0)
  BY <1>5, <1>6
<1> HIDE DEF k
<1>8. Ended(h, s) \in Int /\ Ended(h, s) + 0 = Ended(h, s)
  BY DEF Ended
<1> QED BY <1>1, <1>2, <1>7, <1>8, MovedTwice

LEMMA ProcessKeepaliveMoves ==
    ASSUME NEW h \in HostRecords, NEW s \in Sockets, NEW expected \in BOOLEAN,
           h.calls >= 1
    PROVE  Moved(h, ProcessKeepalive(h, s, expected), Ended(h, s))
<1> DEFINE h1 == OnAnyPacketReceived(h, s)
<1>1. Moved(h, h1, Ended(h, s))
  BY OnAnyPacketReceivedMoves
<1>2. ProcessKeepalive(h, s, expected) = IF expected THEN h1 ELSE IdempotentStartReceive(h1, s)
  BY DEF ProcessKeepalive
<1>3. h1 \in HostRecords /\ h1.calls >= 1
  BY <1>1, Counting DEF Moved
<1> HIDE DEF h1
<1>4. Moved(h1, IdempotentStartReceive(h1, s), 0)
  BY <1>3, IdempotentStartReceiveMoves
<1>5. Ended(h, s) \in Int /\ Ended(h, s) + 0 = Ended(h, s)
  BY DEF Ended
<1>6. Moved(h, IdempotentStartReceive(h1, s), Ended(h, s))
  BY <1>1, <1>4, <1>5, MovedTwice
<1> QED BY <1>1, <1>2, <1>6

LEMMA ProcessDataMoves ==
    ASSUME NEW h \in HostRecords, NEW s \in Sockets, NEW expected \in BOOLEAN,
           h.calls >= 1
    PROVE  Moved(h, ProcessData(h, s, expected), Ended(h, s))
<1> DEFINE h1 == OnAnyPacketReceived(h, s)
           h2 == IF s \in h.waiting THEN [h1 EXCEPT !.waiting = @ \ {s}]
                 ELSE [h1 EXCEPT !.kept[s] = @ + 1]
<1>1. Moved(h, h1, Ended(h, s))
  BY OnAnyPacketReceivedMoves
<1>2. ProcessData(h, s, expected) =
        IF expected THEN RestartIfUnacknowledged(h2, s) ELSE IdempotentStartReceive(h1, s)
  BY DEF ProcessData
<1>3. h1 \in HostRecords /\ h1.calls >= 1
  BY <1>1, Counting DEF Moved
<1>4. Unseen(h1, h2)
  <2> HIDE DEF h1
  <2>1. PICK v \in SUBSET Sockets : v = h1.waiting \ {s}
    BY <1>3 DEF HostRecords
  <2>2. PICK n \in Nat : n = h1.kept[s] + 1
    <3>1. h1.kept \in [Sockets -> Nat]
      BY <1>3 DEF HostRecords
    <3> QED BY <3>1
  <2>3. Unseen(h1, [h1 EXCEPT !.waiting = v])
    BY <1>3 DEF HostRecords, Unseen, SameReads, SameHistory, SameReceives
  <2>4. Unseen(h1, [h1 EXCEPT !.kept[s] = n])
    BY <1>3 DEF HostRecords, Unseen, SameReads, SameHistory, SameReceives
  <2> QED BY <2>1, <2>2, <2>3, <2>4
<1> HIDE DEF h1, h2
<1>5. Moved(h1, IdempotentStartReceive(h1, s), 0)
  BY <1>3, IdempotentStartReceiveMoves
<1>6. h2 \in HostRecords /\ h2.calls >= 1
  BY <1>3, <1>4 DEF Unseen, SameReceives
<1>7. Moved(h1, h2, 0) /\ Moved(h2, RestartIfUnacknowledged(h2, s), 0)
  BY <1>3, <1>4, <1>6, UnseenMoves, RestartMoves
<1>8. /\ Ended(h, s) \in Int /\ Ended(h, s) + 0 = Ended(h, s)
  BY DEF Ended
<1>9. Moved(h, h2, Ended(h, s)) /\ Moved(h, IdempotentStartReceive(h1, s), Ended(h, s))
  BY <1>1, <1>5, <1>7, <1>8, MovedTwice
<1>10. Moved(h, RestartIfUnacknowledged(h2, s), Ended(h, s))
  BY <1>7, <1>8, <1>9, MovedTwice
<1> QED BY <1>2, <1>9, <1>10

LEMMA ApplyAckUnseen ==
    ASSUME NEW h \in HostRecords, NEW s \in Sockets, NEW a \in Answers
    PROVE  Unseen(h, ApplyAck(h, s, a))
<1>1. CASE \E i \in DOMAIN h.answers[s] : h.answers[s][i] = a
  <2>1. h.answers[s] \in Seq(Answers)
    BY DEF HostRecords
  <2>2. PICK i \in 1 .. Len(h.answers[s]) :
          i = CHOOSE j \in DOMAIN h.answers[s] : h.answers[s][j] = a
    BY <1>1, <2>1
  <2>3. PICK q \in Seq(Answers) : q = Without(h.answers[s], i)
    BY <2>1, <2>2, WithoutType
  <2> DEFINE h1 == [h EXCEPT !.answers[s] = q]
             h2 == IF i = 1 THEN Started(h1, s) ELSE h1
  <2>4. ApplyAck(h, s, a) = AnswerHandler(h2, a, FALSE)
    BY <1>1, <2>2, <2>3 DEF ApplyAck
  <2>5. Unseen(h, h1)
    BY AnswersUnseen
  <2> HIDE DEF h1
  <2>6. Unseen(h1, Started(h1, s))
    BY <2>5, StartedUnseen DEF Unseen
  <2>7. Unseen(h, h2)
    BY <2>5, <2>6 DEF Unseen, SameReads, SameHistory, SameReceives
  <2> HIDE DEF h2
  <2>8. Unseen(h2, AnswerHandler(h2, a, FALSE))
    BY <2>7, AnswerHandlerUnseen DEF Unseen
  <2> QED BY <2>4, <2>7, <2>8 DEF Unseen, SameReads, SameHistory, SameReceives
<1>2. CASE ~ \E i \in DOMAIN h.answers[s] : h.answers[s][i] = a
  <2>1. ApplyAck(h, s, a) = h
    BY <1>2 DEF ApplyAck
  <2> QED BY <2>1 DEF Unseen, SameReads, SameHistory, SameReceives
<1> QED BY <1>1, <1>2

LEMMA ProcessAcknowledgementMoves ==
    ASSUME NEW h \in HostRecords, NEW s \in Sockets,
           NEW a \in Answers \union {NoAnswer}, h.calls >= 1
    PROVE  Moved(h, ProcessAcknowledgement(h, s, a), 0)
<1>1. CASE a = NoAnswer \/ h.failed # "no"
  <2>1. ProcessAcknowledgement(h, s, a) = h
    BY <1>1 DEF ProcessAcknowledgement
  <2> QED BY <2>1, UnseenMoves DEF Unseen, SameReads, SameHistory, SameReceives
<1>2. CASE ~ (a = NoAnswer \/ h.failed # "no") /\ h.conn[s] = "closed"
  <2>1. ProcessAcknowledgement(h, s, a) = Fail(h, "process_acknowledgement")
    BY <1>2 DEF ProcessAcknowledgement
  <2> QED BY <2>1, FailMoves DEF Failures
<1>3. CASE ~ (a = NoAnswer \/ h.failed # "no") /\ h.conn[s] # "closed"
  <2> DEFINE h1 == ApplyAck(h, s, a)
  <2>1. ProcessAcknowledgement(h, s, a) = RestartIfUnacknowledged(h1, s)
    BY <1>3 DEF ProcessAcknowledgement
  <2>2. Unseen(h, h1)
    BY <1>3, ApplyAckUnseen
  <2> HIDE DEF h1
  <2>3. Moved(h, h1, 0) /\ Moved(h1, RestartIfUnacknowledged(h1, s), 0)
    BY <2>2, UnseenMoves, RestartMoves DEF Unseen, SameReceives
  <2>4. Moved(h, RestartIfUnacknowledged(h1, s), 0 + 0)
    BY <2>3, MovedTwice
  <2> QED BY <2>1, <2>4
<1> QED BY <1>1, <1>2, <1>3

LEMMA DispatchMoves ==
    ASSUME NEW h \in HostRecords, NEW s \in Sockets, NEW d \in Packets,
           h.calls >= 1, d.type = "handshake" => h.next <= MaxAnswers
    PROVE  Moved(h, Dispatch(h, s, d), Ended(h, s))
<1> DEFINE h1 == CASE d.type = "handshake" -> ProcessHandshake(h, s, d.from)
                   [] d.type = "keepalive" -> ProcessKeepalive(h, s, d.expected)
                   [] d.type = "data"      -> ProcessData(h, s, d.expected)
<1>1. /\ d.type \in {"handshake", "keepalive", "data"} /\ d.from \in Remotes
      /\ d.expected \in BOOLEAN /\ d.ack \in Answers \union {NoAnswer}
  BY DEF Packets
<1>3. Moved(h, h1, Ended(h, s))
  <2>1. CASE d.type = "handshake"
    BY <2>1, <1>1, ProcessHandshakeMoves
  <2>2. CASE d.type = "keepalive"
    BY <2>2, <1>1, ProcessKeepaliveMoves
  <2>3. CASE d.type = "data"
    BY <2>3, <1>1, ProcessDataMoves
  <2> QED BY <1>1, <2>1, <2>2, <2>3
<1>4. Dispatch(h, s, d) = ProcessAcknowledgement(h1, s, d.ack)
  BY DEF Dispatch
<1> HIDE DEF h1
<1>5. h1 \in HostRecords /\ h1.calls >= 1
  BY <1>3, Counting DEF Moved
<1>6. Moved(h1, ProcessAcknowledgement(h1, s, d.ack), 0)
  BY <1>1, <1>5, ProcessAcknowledgementMoves
<1>7. Ended(h, s) \in Int /\ Ended(h, s) + 0 = Ended(h, s)
  BY DEF Ended
<1> QED BY <1>3, <1>4, <1>6, <1>7, MovedTwice
-----------------------------------------------------------------------------
(***************************************************************************)
(* The inductive invariant, of the record of the endpoint.  Inside an      *)
(* operation receive_calls may lag behind the receives by a number c.      *)
(***************************************************************************)
Reads(h) ==
    h.failed = "no" /\ h.open /\ h.calls # 0 =>
        h.posted + h.ready > 0 \/ h.stuck # "no"

\* Until a race there is one read at a time, and a datagram for it.
OneRead(h) ==
    ~ h.raced =>
        /\ h.stuck = "no" /\ h.posted + h.ready <= 1
        /\ h.open /\ h.ready > 0 => h.inbox # <<>>

Accounted(h, c) ==
    h.failed = "no" =>
        /\ ~ h.stolen => Counted(h) <= h.calls + c
        /\ ~ h.repeated => h.calls + c <= Counted(h)

\* Whoever discards the last empty packet has nobody to read for.
StuckIdle(h) == h.failed = "no" /\ h.stuck = "nothing" => h.calls = 0

Sound(h, c) ==
    /\ h \in HostRecords
    /\ Reads(h) /\ OneRead(h) /\ Accounted(h, c) /\ StuckIdle(h)

LEMMA UnseenSound ==
    ASSUME NEW h, NEW k, NEW c \in Int, Sound(h, c), Unseen(h, k)
    PROVE  Sound(k, c)
  BY DEF Sound, Unseen, Reads, OneRead, Accounted, StuckIdle, Counted,
         SameReads, SameHistory, SameReceives

LEMMA FailSound ==
    ASSUME NEW h \in HostRecords, NEW c \in Int, NEW v \in Failures, v # "no", OneRead(h)
    PROVE  Sound(Fail(h, v), c) /\ Fail(h, v).requests = h.requests
<1> DEFINE k == Fail(h, v)
<1>1. /\ k \in HostRecords /\ SameReads(h, k) /\ SameHistory(h, k)
      /\ SameReceives(h, k) /\ k.failed = v
  BY SetFailed
<1> HIDE DEF k
<1>2. Sound(k, c)
  BY <1>1 DEF Sound, Reads, OneRead, Accounted, StuckIdle, SameReads
<1> QED BY <1>1, <1>2 DEF k, SameReceives

LEMMA StopReceiveSound ==
    ASSUME NEW h, NEW c \in Int, Sound(h, c), h.failed = "no"
    PROVE  Sound(StopReceive(h), c + 1) /\ StopReceive(h).requests = h.requests
<1>1. h \in HostRecords
  BY DEF Sound
<1>2. CASE h.calls \notin 1 .. Receivers(h) + 1
  <2>1. StopReceive(h) = Fail(h, "stop_receive")
    BY <1>2 DEF StopReceive
  <2> QED BY <1>1, <2>1, FailSound DEF Failures, Sound
<1>3. CASE h.calls \in 1 .. Receivers(h) + 1 /\ h.calls # 1
  <2>1. PICK v \in Int : v = h.calls - 1
    BY <1>1 DEF HostRecords
  <2> DEFINE k == [h EXCEPT !.calls = v]
  <2>2. StopReceive(h) = k
    BY <1>3, <2>1 DEF StopReceive
  <2>3. /\ k \in HostRecords /\ SameReads(h, k) /\ SameHistory(h, k)
        /\ k.calls = v /\ k.receiving = h.receiving
        /\ k.requests = h.requests /\ k.failed = h.failed
    BY <1>1, SetCalls
  <2> HIDE DEF k
  <2>4. Counted(k) = Counted(h) /\ Counted(h) \in Int /\ h.calls \in Int
    BY <1>1, <2>3, Counting DEF Counted
  <2> QED BY <1>3, <2>1, <2>2, <2>3, <2>4
          DEF Sound, Reads, OneRead, Accounted, StuckIdle, SameReads, SameHistory
<1>4. CASE h.calls \in 1 .. Receivers(h) + 1 /\ h.calls = 1 /\ h.open
  <2>1. PICK e \in Nat, v \in Int : e = h.empties + 1 /\ v = 0
    BY <1>1 DEF HostRecords
  <2> DEFINE h1 == [h EXCEPT !.calls = v]
             k  == [h1 EXCEPT !.empties = e]
  <2>2. StopReceive(h) = k
    BY <1>4, <2>1 DEF StopReceive
  <2>3. /\ h1 \in HostRecords /\ SameReads(h, h1) /\ SameHistory(h, h1)
        /\ h1.calls = 0 /\ h1.receiving = h.receiving
        /\ h1.requests = h.requests /\ h1.failed = h.failed
    BY <1>1, <2>1, SetCalls
  <2> HIDE DEF h1
  <2>4. /\ k \in HostRecords /\ SameReads(h1, k) /\ SameHistory(h1, k)
        /\ SameReceives(h1, k) /\ k.failed = h1.failed
    BY <2>1, <2>3, SetEmpties
  <2> HIDE DEF k
  <2>5. Counted(k) = Counted(h) /\ Counted(h) \in Int
    BY <1>1, <2>3, <2>4, Counting DEF Counted, SameReceives
  <2> QED BY <1>4, <2>2, <2>3, <2>4, <2>5
          DEF Sound, Reads, OneRead, Accounted, StuckIdle, SameReads, SameHistory, SameReceives
<1>5. CASE h.calls \in 1 .. Receivers(h) + 1 /\ h.calls = 1 /\ ~ h.open
  <2> DEFINE k == [h EXCEPT !.calls = 0]
  <2>1. StopReceive(h) = Fail(k, "local_loopback_endpoint")
    BY <1>5 DEF StopReceive
  <2>2. k \in HostRecords /\ SameReads(h, k) /\ k.requests = h.requests
    BY <1>1, SetCalls
  <2>3. OneRead(k)
    BY <2>2 DEF Sound, OneRead, SameReads
  <2> HIDE DEF k
  <2> QED BY <2>1, <2>2, <2>3, FailSound DEF Failures
<1> QED BY <1>2, <1>3, <1>4, <1>5

\* Another receive, which receive_calls does not count yet or any more.
LEMMA ReceivingSound ==
    ASSUME NEW h, NEW c \in Int, NEW e \in Int, NEW v \in SUBSET Sockets, Sound(h, c),
           Cardinality(v) = Cardinality(h.receiving) + e
    PROVE  /\ Sound([h EXCEPT !.receiving = v], c + e)
           /\ [h EXCEPT !.receiving = v].failed = h.failed
           /\ [h EXCEPT !.receiving = v].stuck = h.stuck
           /\ [h EXCEPT !.receiving = v].requests = h.requests
<1> DEFINE k == [h EXCEPT !.receiving = v]
<1>1. h \in HostRecords
  BY DEF Sound
<1>2. /\ k \in HostRecords /\ SameReads(h, k) /\ SameHistory(h, k)
      /\ k.calls = h.calls /\ k.receiving = v
      /\ k.requests = h.requests /\ k.failed = h.failed
  BY <1>1, SetReceiving
<1> HIDE DEF k
<1>3. /\ Counted(k) = Counted(h) + e /\ Counted(h) \in Int /\ Counted(k) \in Int
      /\ h.calls \in Int
  BY <1>1, <1>2, Counting DEF Counted
<1> QED BY <1>2, <1>3
        DEF Sound, Reads, OneRead, Accounted, StuckIdle, SameReads, SameHistory, k

LEMMA IdempotentStopReceiveSound ==
    ASSUME NEW h, NEW s \in Sockets, NEW c \in Int, Sound(h, c), h.failed = "no"
    PROVE  /\ Sound(IdempotentStopReceive(h, s), c)
           /\ IdempotentStopReceive(h, s).requests = h.requests
<1>1. CASE s \notin h.receiving
  BY <1>1 DEF IdempotentStopReceive
<1>2. CASE s \in h.receiving
  <2>1. h \in HostRecords
    BY DEF Sound
  <2>2. PICK v \in SUBSET Sockets : v = h.receiving \ {s}
    BY <2>1 DEF HostRecords
  <2> DEFINE h1 == [h EXCEPT !.receiving = v]
  <2>3. IdempotentStopReceive(h, s) = StopReceive(h1)
    BY <1>2, <2>2 DEF IdempotentStopReceive
  <2>4. Cardinality(v) = Cardinality(h.receiving) + (-1)
    BY <1>2, <2>1, <2>2, Counting, FS_RemoveElement
  <2>5. Sound(h1, c + (-1)) /\ h1.failed = "no" /\ h1.requests = h.requests
    BY <2>4, ReceivingSound
  <2> HIDE DEF h1
  <2>6. Sound(StopReceive(h1), c + (-1) + 1) /\ StopReceive(h1).requests = h.requests
    BY <2>5, StopReceiveSound
  <2> QED BY <2>3, <2>6
<1> QED BY <1>1, <1>2

LEMMA StartReceiveSound ==
    ASSUME NEW h, NEW c \in Int, Sound(h, c), h.stuck = "no"
    PROVE  Sound(StartReceive(h), c - 1)
<1> DEFINE k == StartReceive(h)
<1>1. h \in HostRecords
  BY DEF Sound
<1>2. /\ k \in HostRecords /\ SameHistory(h, k)
      /\ k.receiving = h.receiving /\ k.requests = h.requests
      /\ k.open = h.open /\ k.inbox = h.inbox /\ k.stuck = "no"
      /\ \/ /\ k.calls = h.calls + 1 /\ k.failed = h.failed
            /\ h.calls = 0 => k.posted + k.ready > 0
            /\ h.calls # 0 => SameReads(h, k)
         \/ /\ k.calls = h.calls /\ k.failed = "start_receive"
            /\ SameReads(h, k)
      /\ \/ SameReads(h, k)
         \/ k.raced
         \/ /\ h.posted + h.ready = 0 /\ k.posted + k.ready = 1
            /\ k.raced = h.raced
            /\ h.open /\ h.inbox = <<>> => k.ready = 0
  BY <1>1, StartReceiveEffect
<1> HIDE DEF k
<1>3. Counted(k) = Counted(h) /\ Counted(h) \in Int /\ h.calls \in Int
  BY <1>1, <1>2, Counting DEF Counted
<1>4. /\ h.posted \in Nat /\ h.ready \in Nat /\ k.posted \in Nat /\ k.ready \in Nat
  BY <1>1, <1>2 DEF HostRecords
<1>5. Reads(k)
  BY <1>2, <1>3, <1>4 DEF Sound, Reads, SameReads
<1>6. OneRead(k)
  BY <1>2, <1>4 DEF Sound, OneRead, SameReads
<1>7. Accounted(k, c - 1) /\ StuckIdle(k)
  BY <1>2, <1>3 DEF Sound, Accounted, StuckIdle, SameHistory
<1> QED BY <1>2, <1>5, <1>6, <1>7 DEF Sound, k

LEMMA IdempotentStartReceiveSound ==
    ASSUME NEW h, NEW s \in Sockets, NEW c \in Int, Sound(h, c), h.stuck = "no"
    PROVE  Sound(IdempotentStartReceive(h, s), c)
<1>1. h \in HostRecords
  BY DEF Sound
<1>2. CASE s \in h.receiving
  BY <1>2 DEF IdempotentStartReceive
<1>3. CASE s \notin h.receiving /\ s \notin h.attached
  <2>1. IdempotentStartReceive(h, s) = Fail(h, "multiplexer")
    BY <1>3 DEF IdempotentStartReceive
  <2> QED BY <1>1, <2>1, FailSound DEF Failures, Sound
<1>4. CASE s \notin h.receiving /\ s \in h.attached
  <2>1. PICK v \in SUBSET Sockets : v = h.receiving \union {s}
    BY <1>1 DEF HostRecords
  <2> DEFINE h1 == [h EXCEPT !.receiving = v]
  <2>2. IdempotentStartReceive(h, s) = StartReceive(h1)
    BY <1>4, <2>1 DEF IdempotentStartReceive
  <2>3. Cardinality(v) = Cardinality(h.receiving) + 1
    BY <1>1, <1>4, <2>1, Counting, FS_AddElement
  <2>4. Sound(h1, c + 1) /\ h1.stuck = "no"
    BY <2>3, ReceivingSound
  <2> HIDE DEF h1
  <2>5. Sound(StartReceive(h1), c + 1 - 1)
    BY <2>4, StartReceiveSound
  <2> QED BY <2>2, <2>5
<1> QED BY <1>2, <1>3, <1>4
-----------------------------------------------------------------------------
\* The UDP socket is closed: the peeks posted complete, and find it closed.
LEMMA ClosedSound ==
    ASSUME NEW h, NEW c \in Int, Sound(h, c)
    PROVE  LET k == [h EXCEPT !.open = FALSE, !.inbox = <<>>, !.empties = 0,
                              !.ready = @ + h.posted, !.posted = 0]
           IN  Sound(k, c) /\ k.requests = h.requests
<1>1. h \in HostRecords
  BY DEF Sound
<1>2. PICK q \in Nat, z \in Nat, b \in BOOLEAN, e \in Seq(Datagrams) :
        q = h.ready + h.posted /\ z = 0 /\ b = FALSE /\ e = <<>>
  <2>1. h.ready + h.posted \in Nat /\ 0 \in Nat
    BY <1>1 DEF HostRecords
  <2>2. <<>> \in Seq(Datagrams)
    BY EmptySeq
  <2> QED BY <2>1, <2>2
<1> DEFINE h1 == [h EXCEPT !.open = b]
           h2 == [h1 EXCEPT !.inbox = e]
           h3 == [h2 EXCEPT !.empties = z]
           h4 == [h3 EXCEPT !.ready = q]
           k  == [h4 EXCEPT !.posted = z]
<1>3. [h EXCEPT !.open = FALSE, !.inbox = <<>>, !.empties = 0,
                !.ready = @ + h.posted, !.posted = 0] = k
  BY <1>2
<1>4. /\ h1 \in HostRecords /\ SameReceives(h, h1) /\ SameHistory(h, h1)
      /\ h1.failed = h.failed /\ ~ h1.open /\ h1.posted = h.posted
      /\ h1.ready = h.ready /\ h1.stuck = h.stuck /\ h1.raced = h.raced
  <2>1. h1 \in HostRecords
    BY <1>1, <1>2 DEF HostRecords
  <2>2. SameReceives(h, h1)
    BY DEF HostRecords, SameReceives
  <2>3. SameHistory(h, h1) /\ h1.failed = h.failed
    BY <1>1 DEF HostRecords, SameHistory
  <2>4. /\ ~ h1.open /\ h1.posted = h.posted /\ h1.ready = h.ready
        /\ h1.stuck = h.stuck /\ h1.raced = h.raced
    BY <1>1, <1>2 DEF HostRecords
  <2> QED BY <2>1, <2>2, <2>3, <2>4
<1> HIDE DEF h1
<1>5. /\ h2 \in HostRecords /\ SameReceives(h1, h2) /\ SameHistory(h1, h2)
      /\ h2.failed = h1.failed /\ h2.open = h1.open /\ h2.posted = h1.posted
      /\ h2.ready = h1.ready /\ h2.stuck = h1.stuck /\ h2.raced = h1.raced
  BY <1>4, SetInbox
<1> HIDE DEF h2
<1>6. Unseen(h2, h3)
  BY <1>5 DEF HostRecords, Unseen, SameReads, SameHistory, SameReceives
<1> HIDE DEF h3
<1>7. /\ h4 \in HostRecords /\ SameReceives(h3, h4) /\ SameHistory(h3, h4)
      /\ h4.failed = h3.failed /\ h4.open = h3.open /\ h4.posted = h3.posted
      /\ h4.ready = q /\ h4.stuck = h3.stuck /\ h4.raced = h3.raced
  BY <1>6, SetReady DEF Unseen
<1> HIDE DEF h4
<1>8. /\ k \in HostRecords /\ SameReceives(h4, k) /\ SameHistory(h4, k)
      /\ k.failed = h4.failed /\ k.open = h4.open /\ k.posted = z
      /\ k.ready = h4.ready /\ k.stuck = h4.stuck /\ k.raced = h4.raced
  BY <1>7 DEF HostRecords, SameReceives, SameHistory
<1> HIDE DEF k
<1>9. /\ k \in HostRecords /\ SameReceives(h, k) /\ SameHistory(h, k)
      /\ k.failed = h.failed /\ ~ k.open /\ k.posted = 0
      /\ k.ready = h.ready + h.posted /\ k.stuck = h.stuck /\ k.raced = h.raced
  BY <1>2, <1>4, <1>5, <1>6, <1>7, <1>8 DEF Unseen, SameReads, SameReceives, SameHistory
<1>10. h.posted \in Nat /\ h.ready \in Nat
  BY <1>1 DEF HostRecords
<1>11. Sound(k, c)
  BY <1>9, <1>10
     DEF Sound, Reads, OneRead, Accounted, StuckIdle, Counted, SameReceives, SameHistory
<1> QED BY <1>3, <1>9, <1>11 DEF SameReceives

LEMMA RemoveSound ==
    ASSUME NEW h, NEW s \in Sockets, NEW c \in Int, Sound(h, c)
    PROVE  Sound(Remove(h, s), c) /\ Remove(h, s).requests = h.requests
<1> DEFINE left == [r \in Remotes |-> IF r = h.remote[s] THEN Nobody ELSE h.sockets[r]]
           h1   == [h EXCEPT !.sockets = left, !.attached = @ \ {s},
                             !.lost = @ \union (EntryOf(h, s) \ {s, Nobody})]
<1>1. h \in HostRecords
  BY DEF Sound
<1>2. PICK m \in [Remotes -> Sockets \union {Nobody}] : m = left
  BY <1>1 DEF HostRecords
<1>3. PICK v \in SUBSET Sockets : v = h.attached \ {s}
  BY <1>1 DEF HostRecords
<1>4. PICK w \in SUBSET Sockets : w = h.lost \union (EntryOf(h, s) \ {s, Nobody})
  <2>1. EntryOf(h, s) \subseteq Sockets \union {Nobody}
    BY <1>1 DEF HostRecords, EntryOf
  <2>2. h.lost \subseteq Sockets
    BY <1>1 DEF HostRecords
  <2> QED BY <2>1, <2>2
<1>5. Unseen(h, [h EXCEPT !.sockets = m, !.attached = v, !.lost = w])
  BY <1>1 DEF HostRecords, Unseen, SameReads, SameHistory, SameReceives
<1>6. Sound(h1, c)
  BY <1>2, <1>3, <1>5, <1>4, UnseenSound
<1>7. h1.posted = h.posted /\ h1.requests = h.requests
  BY <1>2, <1>3, <1>5, <1>4 DEF Unseen, SameReads, SameReceives
<1>8. \/ Remove(h, s) = h1
      \/ Remove(h, s) = [h1 EXCEPT !.open = FALSE, !.inbox = <<>>, !.empties = 0,
                                   !.ready = @ + h1.posted, !.posted = 0]
  BY <1>7 DEF Remove
<1> HIDE DEF h1
<1> DEFINE h2 == [h1 EXCEPT !.open = FALSE, !.inbox = <<>>, !.empties = 0,
                            !.ready = @ + h1.posted, !.posted = 0]
<1>9. Sound(h2, c) /\ h2.requests = h1.requests
  BY <1>6, ClosedSound
<1> HIDE DEF h2
<1> QED BY <1>6, <1>7, <1>8, <1>9 DEF h2

LEMMA CloseSound ==
    ASSUME NEW h, NEW s \in Sockets, NEW c \in Int, Sound(h, c), h.failed = "no"
    PROVE  Sound(Close(h, s), c) /\ Close(h, s).requests = h.requests
<1>1. h \in HostRecords
  BY DEF Sound
<1>2. h.answers[s] \in Seq(Answers)
  BY <1>1 DEF HostRecords
<1>3. PICK sh \in SUBSET Sockets, w \in SUBSET Sockets :
        sh = h.shut \union {s} /\ w = h.waiting \ {s}
  BY <1>1 DEF HostRecords
<1>4. PICK ab \in SUBSET Answers : ab = h.aborts \union Queued(h, s)
  <2>1. \A i \in DOMAIN h.answers[s] : h.answers[s][i] \in Answers
    BY <1>2
  <2>2. Queued(h, s) \in SUBSET Answers
    BY <2>1 DEF Queued
  <2>3. h.aborts \in SUBSET Answers
    BY <1>1 DEF HostRecords
  <2> QED BY <2>2, <2>3
<1>7. PICK q \in Seq(Answers) : q = <<>>
  <2>1. <<>> \in Seq(Answers)
    BY EmptySeq
  <2> QED BY <2>1
<1> DEFINE g1 == [h EXCEPT !.shut = sh, !.aborts = ab]
           h1 == [g1 EXCEPT !.answers[s] = q, !.waiting = w]
           h2 == IdempotentStopReceive(h1, s)
<1>8. Unseen(h, g1)
  BY <1>1 DEF HostRecords, Unseen, SameReads, SameHistory, SameReceives
<1>9. Close(h, s) =
        IF s \notin h.attached THEN h
        ELSE IF ~ h.open THEN Fail(h1, "local_endpoint")
        ELSE IF h2.failed # "no" THEN h2 ELSE Remove(h2, s)
  BY <1>3, <1>4, <1>7 DEF Close
<1> HIDE DEF g1
<1>10. Unseen(g1, h1)
  BY <1>8 DEF HostRecords, Unseen, SameReads, SameHistory, SameReceives
<1> HIDE DEF h1
<1>11. Sound(h1, c) /\ h1.failed = "no" /\ h1.requests = h.requests
  <2>1. Sound(g1, c) /\ g1.failed = "no" /\ g1.requests = h.requests
    BY <1>8, UnseenSound DEF Unseen, SameReceives
  <2> QED BY <2>1, <1>10, UnseenSound DEF Unseen, SameReceives
<1>12. Sound(h2, c) /\ h2.requests = h.requests
  BY <1>11, IdempotentStopReceiveSound
<1> HIDE DEF h2
<1>13. Sound(Remove(h2, s), c) /\ Remove(h2, s).requests = h.requests
  BY <1>12, RemoveSound
<1>14. /\ Sound(Fail(h1, "local_endpoint"), c)
       /\ Fail(h1, "local_endpoint").requests = h.requests
  BY <1>11, FailSound DEF Sound, Failures
<1> QED BY <1>9, <1>12, <1>13, <1>14

LEMMA RequestsSound ==
    ASSUME NEW h, NEW c \in Int, NEW e \in Int, NEW v \in Seq(Requests), Sound(h, c),
           Len(v) = Len(h.requests) + e
    PROVE  LET k == [h EXCEPT !.requests = v] IN Sound(k, c + e) /\ k.stuck = h.stuck
<1> DEFINE k == [h EXCEPT !.requests = v]
<1>1. h \in HostRecords
  BY DEF Sound
<1>2. /\ k \in HostRecords /\ SameReads(h, k) /\ SameHistory(h, k)
      /\ k.calls = h.calls /\ k.receiving = h.receiving
      /\ k.requests = v /\ k.failed = h.failed
  BY <1>1 DEF HostRecords, SameReads, SameHistory
<1> HIDE DEF k
<1>3. /\ Counted(k) = Counted(h) + e /\ Counted(h) \in Int /\ Counted(k) \in Int
      /\ h.calls \in Int
  <2>1. Len(k.requests) = Len(h.requests) + e /\ Len(h.requests) \in Nat
    BY <1>1, <1>2, Counting
  <2>2. Cardinality(k.receiving) = Cardinality(h.receiving)
    BY <1>2
  <2>3. Cardinality(h.receiving) \in Nat /\ h.calls \in Int
    BY <1>1, Counting
  <2> QED BY <2>1, <2>2, <2>3 DEF Counted
<1> QED BY <1>2, <1>3
        DEF Sound, Reads, OneRead, Accounted, StuckIdle, SameReads, SameHistory, k

LEMMA DisableRequestSound ==
    ASSUME NEW h, Sound(h, 0), h.failed = "no", NEW i \in DOMAIN h.requests
    PROVE  Sound(DisableRequest(h, i), 0)
<1> DEFINE s  == h.requests[i].socket
           h1 == StopReceive(h)
           h2 == Close(h1, s)
           k  == [h2 EXCEPT !.requests = Without(@, i)]
<1>1. h.requests \in Seq(Requests) /\ i \in 1 .. Len(h.requests)
  BY DEF Sound, HostRecords
<1>2. h.requests[i] \in Requests
  BY <1>1
<1>3. s \in Sockets
  BY <1>2 DEF Requests
<1>4. DisableRequest(h, i) =
        IF h1.failed # "no" THEN h1 ELSE IF h2.failed # "no" THEN h2 ELSE k
  BY DEF DisableRequest
<1> HIDE DEF s
<1>5. Sound(h1, 0 + 1) /\ h1.requests = h.requests
  BY StopReceiveSound
<1> HIDE DEF h1
<1>6. CASE h1.failed # "no"
  BY <1>4, <1>5, <1>6 DEF Sound, Accounted
<1>7. CASE h1.failed = "no"
  <2>1. Sound(h2, 0 + 1) /\ h2.requests = h.requests
    BY <1>3, <1>5, <1>7, CloseSound
  <2> HIDE DEF h2
  <2>2. PICK q \in Seq(Requests) : q = Without(h.requests, i) /\ Len(q) = Len(h.requests) + (-1)
    BY <1>1, WithoutType
  <2>3. Sound([h2 EXCEPT !.requests = q], 0)
    <3>1. Len(q) = Len(h2.requests) + (-1)
      BY <2>1, <2>2
    <3>2. Sound(h2, 1) /\ 1 \in Int /\ -1 \in Int
      BY <2>1
    <3>3. Sound([h2 EXCEPT !.requests = q], 1 + (-1))
      BY <3>1, <3>2, RequestsSound, Zenon
    <3> QED BY <3>3
  <2>4. k = [h2 EXCEPT !.requests = q]
    BY <2>1, <2>2
  <2>5. h2.failed # "no" => Sound(h2, 0)
    BY <2>1 DEF Sound, Accounted
  <2> HIDE DEF k
  <2> QED BY <1>4, <1>7, <2>3, <2>4, <2>5
<1> QED BY <1>6, <1>7

LEMMA AsyncAcceptSound ==
    ASSUME NEW h, NEW a \in Acceptors, NEW s \in Sockets, Sound(h, 0), h.stuck = "no"
    PROVE  Sound(AsyncAccept(h, a, s), 0)
<1> DEFINE r == [acceptor |-> a, socket |-> s]
<1>1. h \in HostRecords /\ h.requests \in Seq(Requests) /\ r \in Requests
  BY DEF Sound, HostRecords, Requests
<1> HIDE DEF r
<1>2. PICK q \in Seq(Requests) : q = Append(h.requests, r) /\ Len(q) = Len(h.requests) + 1
  <2>1. Append(h.requests, r) \in Seq(Requests)
    BY <1>1
  <2>2. Len(Append(h.requests, r)) = Len(h.requests) + 1
    BY <1>1
  <2> QED BY <2>1, <2>2
<1>3. PICK v \in SUBSET Sockets : v = h.attached \union {s}
  BY <1>1 DEF HostRecords
<1> DEFINE h1 == [h EXCEPT !.conn[s] = "listening", !.attached = v]
           h2 == [h1 EXCEPT !.requests = q]
<1>4. AsyncAccept(h, a, s) = StartReceive(h2)
  BY <1>2, <1>3 DEF AsyncAccept, r
<1>5. Unseen(h, h1)
  BY <1>1 DEF HostRecords, Connectivity, Unseen, SameReads, SameHistory, SameReceives
<1> HIDE DEF h1
<1>6. Sound(h1, 0) /\ h1.stuck = "no" /\ h1.requests = h.requests
  BY <1>5, UnseenSound DEF Unseen, SameReads, SameReceives
<1>7. Len(q) = Len(h1.requests) + 1
  BY <1>2, <1>6
<1>8. Sound(h2, 0 + 1) /\ h2.stuck = "no"
  <2>1. Sound(h1, 0) /\ Len(q) = Len(h1.requests) + 1 /\ 0 \in Int /\ 1 \in Int
    BY <1>6, <1>7
  <2>2. LET k == [h1 EXCEPT !.requests = q] IN Sound(k, 0 + 1) /\ k.stuck = h1.stuck
    BY <2>1, RequestsSound, Zenon
  <2> QED BY <2>2, <1>6
<1> HIDE DEF h2
<1>9. Sound(StartReceive(h2), 0 + 1 - 1)
  BY <1>8, StartReceiveSound
<1> QED BY <1>4, <1>9
-----------------------------------------------------------------------------
LEMMA ArrivedSound ==
    ASSUME NEW h, NEW d \in Datagrams, Sound(h, 0)
    PROVE  Sound(Arrived(h, d), 0)
<1> DEFINE h1 == [h EXCEPT !.stuck = "no"]
<1>1. /\ h \in HostRecords /\ h.inbox \in Seq(Datagrams)
      /\ h.posted \in Nat /\ h.ready \in Nat
  BY DEF Sound, HostRecords
<1>2. PICK q \in Seq(Datagrams) : q = Append(h.inbox, d) /\ q # <<>>
  <2>1. Append(h.inbox, d) \in Seq(Datagrams) /\ Append(h.inbox, d) # <<>>
    BY <1>1
  <2> QED BY <2>1
<1>3. CASE ~ h.open
  <2>1. Arrived(h, d) = h
    BY <1>3 DEF Arrived
  <2> QED BY <2>1
<1>4. CASE h.open /\ h.stuck # "no"
  <2>1. /\ h1 \in HostRecords /\ SameReceives(h, h1) /\ SameHistory(h, h1)
        /\ h1.failed = h.failed /\ h1.posted = h.posted /\ h1.ready = h.ready
        /\ h1.stuck = "no" /\ h1.raced = h.raced
    BY <1>1, SetStuck
  <2>2. Arrived(h, d) = IF h.stuck = "read" THEN DoStartReceive(h1) ELSE h1
    BY <1>4 DEF Arrived
  <2> DEFINE k == DoStartReceive(h1)
  <2> HIDE DEF h1
  <2>3. /\ k \in HostRecords /\ SameReceives(h1, k) /\ SameHistory(h1, k)
        /\ k.failed = h1.failed /\ k.stuck = h1.stuck /\ k.raced = h1.raced
        /\ k.posted + k.ready = h1.posted + h1.ready + 1
    BY <2>1, DoStartReceiveEffect
  <2> HIDE DEF k
  <2>4. h.raced
    BY <1>4 DEF Sound, OneRead
  <2>5. Sound(k, 0)
    BY <1>1, <2>1, <2>3, <2>4
       DEF Sound, Reads, OneRead, Accounted, StuckIdle, Counted, SameReceives, SameHistory
  <2>6. h.stuck # "read" => h.stuck = "nothing"
    BY <1>1, <1>4 DEF HostRecords
  <2>7. h.stuck # "read" => Sound(h1, 0)
    BY <2>1, <2>4, <2>6
       DEF Sound, Reads, OneRead, Accounted, StuckIdle, Counted, SameReceives, SameHistory
  <2> QED BY <2>2, <2>5, <2>7 DEF k
<1>5. CASE h.open /\ h.stuck = "no" /\ h.posted = 0
  <2> DEFINE k == [h EXCEPT !.inbox = q]
  <2>1. Arrived(h, d) = k
    BY <1>2, <1>5 DEF Arrived
  <2>2. /\ k \in HostRecords /\ SameReceives(h, k) /\ SameHistory(h, k)
        /\ k.failed = h.failed /\ k.open = h.open /\ k.inbox = q
        /\ k.posted = h.posted /\ k.ready = h.ready
        /\ k.stuck = h.stuck /\ k.raced = h.raced
    BY <1>1, SetInbox
  <2> HIDE DEF k
  <2> QED BY <1>2, <1>5, <2>1, <2>2
          DEF Sound, Reads, OneRead, Accounted, StuckIdle, Counted, SameReceives, SameHistory
<1>6. CASE h.open /\ h.stuck = "no" /\ h.posted # 0
  <2>1. d.from \in Remotes \union {Nobody}
    BY DEF Datagrams, Packets, EmptyPacket
  <2>2. PICK f \in Remotes \union {Nobody}, n \in Nat, z \in Nat :
          f = d.from /\ n = h.ready + h.posted /\ z = 0
    <3>1. h.ready + h.posted \in Nat /\ 0 \in Nat
      BY <1>1
    <3> QED BY <2>1, <3>1, Zenon
  <2> DEFINE g == [h EXCEPT !.inbox = q, !.from = f]
             k == [g EXCEPT !.ready = n, !.posted = z]
  <2>3. Arrived(h, d) = k
    BY <1>2, <1>6, <2>2 DEF Arrived
  <2>4. /\ g \in HostRecords /\ SameReceives(h, g) /\ SameHistory(h, g)
        /\ g.failed = h.failed /\ g.open = h.open /\ g.inbox = q
        /\ g.stuck = h.stuck /\ g.raced = h.raced
    BY <1>1 DEF HostRecords, SameReceives, SameHistory
  <2> HIDE DEF g
  <2>5. /\ k \in HostRecords /\ SameReceives(g, k) /\ SameHistory(g, k)
        /\ k.failed = g.failed /\ k.open = g.open /\ k.inbox = g.inbox
        /\ k.stuck = g.stuck /\ k.raced = g.raced /\ k.ready = n /\ k.posted = z
    BY <2>4 DEF HostRecords, SameReceives, SameHistory
  <2> HIDE DEF k
  <2> QED BY <1>1, <1>2, <1>6, <2>2, <2>3, <2>4, <2>5
          DEF Sound, Reads, OneRead, Accounted, StuckIdle, Counted, SameReceives, SameHistory
<1> QED BY <1>3, <1>4, <1>5, <1>6

\* A read is started where none is.
LEMMA ReadSound ==
    ASSUME NEW h \in HostRecords, NEW c \in Int, Accounted(h, c), h.stuck = "no",
           ~ h.raced => h.posted + h.ready = 0
    PROVE  Sound(DoStartReceive(h), c)
<1> DEFINE k == DoStartReceive(h)
<1>1. /\ k \in HostRecords /\ SameReceives(h, k) /\ SameHistory(h, k)
      /\ k.failed = h.failed /\ k.open = h.open /\ k.inbox = h.inbox
      /\ k.stuck = h.stuck /\ k.raced = h.raced
      /\ k.posted + k.ready = h.posted + h.ready + 1
      /\ h.open /\ h.inbox = <<>> => k.ready = h.ready
  BY DoStartReceiveEffect
<1> HIDE DEF k
<1>2. /\ h.posted \in Nat /\ h.ready \in Nat /\ k.posted \in Nat /\ k.ready \in Nat
  BY <1>1 DEF HostRecords
<1>3. Reads(k) /\ OneRead(k)
  BY <1>1, <1>2 DEF Reads, OneRead
<1>4. Accounted(k, c) /\ StuckIdle(k)
  BY <1>1 DEF Accounted, StuckIdle, Counted, SameReceives, SameHistory
<1> QED BY <1>1, <1>3, <1>4 DEF Sound, k

\* discard_message in process_peek, whose read h does not have any more.
LEMMA DiscardSound ==
    ASSUME NEW h \in HostRecords, NEW then \in {"read", "nothing"},
           Accounted(h, 0), h.stuck = "no", ~ h.raced => h.posted + h.ready = 0,
           h.inbox = <<>> => h.raced, then = "nothing" => h.calls = 0
    PROVE  Sound(Discard(h, then), 0)
<1>1. CASE h.inbox = <<>>
  <2> DEFINE k == [h EXCEPT !.stuck = then]
  <2>1. Discard(h, then) = k
    BY <1>1 DEF Discard
  <2>2. /\ k \in HostRecords /\ SameReceives(h, k) /\ SameHistory(h, k)
        /\ k.failed = h.failed /\ k.stuck = then /\ k.raced = h.raced
    <3>1. then \in {"no", "read", "nothing"}
      OBVIOUS
    <3> QED BY <3>1 DEF HostRecords, SameReceives, SameHistory
  <2> HIDE DEF k
  <2> QED BY <1>1, <2>1, <2>2
          DEF Sound, Reads, OneRead, Accounted, StuckIdle, Counted, SameReceives, SameHistory
<1>2. CASE h.inbox # <<>>
  <2>1. h.inbox \in Seq(Datagrams)
    BY DEF HostRecords
  <2>2. PICK q \in Seq(Datagrams) : q = Tail(h.inbox)
    <3>1. Tail(h.inbox) \in Seq(Datagrams)
      BY <1>2, <2>1, HeadTailProperties
    <3> QED BY <3>1
  <2> DEFINE k == [h EXCEPT !.inbox = q]
  <2>3. Discard(h, then) = IF then = "read" THEN DoStartReceive(k) ELSE k
    BY <1>2, <2>2 DEF Discard
  <2>4. /\ k \in HostRecords /\ SameReceives(h, k) /\ SameHistory(h, k)
        /\ k.failed = h.failed /\ k.posted = h.posted /\ k.ready = h.ready
        /\ k.stuck = h.stuck /\ k.raced = h.raced
    BY SetInbox
  <2> HIDE DEF k
  <2>5. Accounted(k, 0)
    BY <2>4 DEF Accounted, Counted, SameReceives, SameHistory
  <2>6. Sound(DoStartReceive(k), 0)
    BY <2>4, <2>5, ReadSound
  <2>7. k.posted \in Nat /\ k.ready \in Nat
    BY <2>4 DEF HostRecords
  <2>8. then = "nothing" => Sound(k, 0)
    BY <2>4, <2>5, <2>7 DEF Sound, Reads, OneRead, StuckIdle, SameReceives
  <2> QED BY <2>3, <2>6, <2>8
<1> QED BY <1>1, <1>2

LEMMA FinishReadSound ==
    ASSUME NEW h \in HostRecords, Accounted(h, -1), h.stuck = "no",
           ~ h.raced => h.posted + h.ready = 0
    PROVE  Sound(FinishRead(h), 0)
<1>1. PICK v \in Int : v = h.calls - 1
  BY DEF HostRecords
<1> DEFINE h1 == [h EXCEPT !.calls = v]
<1>2. FinishRead(h) = IF h.failed # "no" \/ h.calls = 1 THEN h1 ELSE DoStartReceive(h1)
  BY <1>1 DEF FinishRead
<1>3. /\ h1 \in HostRecords /\ SameReads(h, h1) /\ SameHistory(h, h1)
      /\ h1.calls = v /\ h1.receiving = h.receiving
      /\ h1.requests = h.requests /\ h1.failed = h.failed
  BY SetCalls
<1> HIDE DEF h1
<1>4. Counted(h1) = Counted(h) /\ Counted(h) \in Int /\ h.calls \in Int
  BY <1>3, Counting DEF Counted
<1>5. Accounted(h1, 0)
  BY <1>1, <1>3, <1>4 DEF Accounted, SameHistory
<1>6. h1.stuck = "no" /\ (~ h1.raced => h1.posted + h1.ready = 0)
  BY <1>3 DEF SameReads
<1>7. Sound(DoStartReceive(h1), 0)
  BY <1>3, <1>5, <1>6, ReadSound
<1>8. h1.posted \in Nat /\ h1.ready \in Nat
  BY <1>3 DEF HostRecords
<1>9. h.failed # "no" \/ h.calls = 1 => Sound(h1, 0)
  BY <1>1, <1>3, <1>4, <1>5, <1>6, <1>8 DEF Sound, Reads, OneRead, StuckIdle
<1> QED BY <1>2, <1>7, <1>9
-----------------------------------------------------------------------------
\* How far receive_calls is ahead of the receiving sockets, and of all.
Ahead(h) == h.calls - Cardinality(h.receiving)
AheadOfAll(h) == h.calls - Counted(h)

LEMMA Balance ==
    ASSUME NEW h \in HostRecords
    PROVE  /\ h.calls \in Int /\ Counted(h) \in Int /\ Len(h.requests) \in Int
           /\ Ahead(h) \in Int /\ AheadOfAll(h) \in Int
           /\ AheadOfAll(h) = Ahead(h) - Len(h.requests)
           /\ AheadOfAll(h) = h.calls - Counted(h)
<1>1. PICK a \in Int, i \in Int, x \in Int :
        a = h.calls /\ i = Cardinality(h.receiving) /\ x = Len(h.requests)
  BY Counting
<1>2. Counted(h) = i + x /\ i + x \in Int
  BY <1>1 DEF Counted
<1>3. Ahead(h) = a - i /\ AheadOfAll(h) = a - (i + x)
  BY <1>1, <1>2 DEF Ahead, AheadOfAll
<1>4. AheadOfAll(h) = h.calls - Counted(h)
  BY DEF AheadOfAll
<1> QED BY <1>1, <1>2, <1>3, <1>4

\* A receive too many at line 507 is one that the packet ended.
LEMMA StaysAccounted ==
    ASSUME NEW h \in HostRecords, NEW k \in HostRecords, NEW x \in Int,
           Accounted(h, 0), k.failed = "no" => h.failed = "no",
           AheadOfAll(k) = AheadOfAll(h) + x,
           ~ k.stolen => ~ h.stolen /\ x >= 1,
           ~ k.repeated => ~ h.repeated /\ x <= 1
    PROVE  Accounted(k, -1)
<1>1. SUFFICES ASSUME k.failed = "no"
               PROVE  /\ ~ k.stolen => Counted(k) <= k.calls + -1
                      /\ ~ k.repeated => k.calls + -1 <= Counted(k)
  BY DEF Accounted
<1>2. /\ ~ h.stolen => Counted(h) <= h.calls + 0
      /\ ~ h.repeated => h.calls + 0 <= Counted(h)
  BY <1>1 DEF Accounted
<1>3. PICK p \in Int, q \in Int, b \in Int :
        p = k.calls /\ q = Counted(k) /\ b = AheadOfAll(k) /\ b = p - q
  BY Balance
<1>4. PICK u \in Int, v \in Int, a \in Int :
        u = h.calls /\ v = Counted(h) /\ a = AheadOfAll(h) /\ a = u - v
  BY Balance
<1>5. p - q = u - v + x
  <2>1. b = a + x
    BY <1>3, <1>4, Zenon
  <2> QED BY <2>1, <1>3, <1>4
<1>6. ~ k.stolen => Counted(k) <= k.calls + -1
  <2>1. SUFFICES ASSUME ~ k.stolen PROVE Counted(k) <= k.calls + -1
    OBVIOUS
  <2>2. v <= u + 0 /\ x >= 1
    BY <1>2, <1>4, <2>1, Zenon
  <2>3. q <= p + -1
    BY <1>5, <2>2
  <2> QED BY <1>3, <2>3, Zenon
<1>7. ~ k.repeated => k.calls + -1 <= Counted(k)
  <2>1. SUFFICES ASSUME ~ k.repeated PROVE k.calls + -1 <= Counted(k)
    OBVIOUS
  <2>2. u + 0 <= v /\ x <= 1
    BY <1>2, <1>4, <2>1, Zenon
  <2>3. p + -1 <= q
    BY <1>5, <2>2
  <2> QED BY <1>3, <2>3, Zenon
<1> QED BY <1>6, <1>7

\* What a packet does to the counts before line 507 counts it: to those of a
\* socket in the map, and to those of the first accept request.
LEMMA DispatchAccounted ==
    ASSUME NEW h \in HostRecords, NEW s \in Sockets, NEW d \in Packets,
           h.calls >= 1, Accounted(h, 0),
           d.type = "handshake" => h.next <= MaxAnswers,
           s \notin h.receiving => h.stolen
    PROVE  LET k == Dispatch(h, s, d)
           IN  k \in HostRecords /\ SameReads(h, k) /\ Accounted(k, -1)
<1> DEFINE k == Dispatch(h, s, d)
<1>1. Moved(h, k, Ended(h, s))
  BY DispatchMoves
<1> HIDE DEF k
<1>2. k \in HostRecords
  BY <1>1 DEF Moved
<1>3. /\ h.calls \in Int /\ Cardinality(h.receiving) \in Nat /\ Len(h.requests) \in Nat
      /\ k.calls \in Int /\ Cardinality(k.receiving) \in Nat /\ Len(k.requests) \in Nat
  BY <1>2, Counting
<1>4. Ended(h, s) \in {0, 1} /\ (~ h.stolen => Ended(h, s) = 1)
  BY DEF Ended
<1>5. Accounted(k, -1)
  <2>1. CASE k.failed # "no"
    BY <2>1 DEF Accounted
  <2>2. CASE k.failed = "no"
    <3>1. /\ k.calls - Cardinality(k.receiving)
               = h.calls - Cardinality(h.receiving) + Ended(h, s)
          /\ k.requests = h.requests /\ h.failed = "no"
          /\ k.stolen = h.stolen /\ k.repeated = h.repeated
      BY <1>1, <2>2 DEF Moved, SameHistory
    <3>2. PICK x \in Int : x = Ended(h, s) /\ x <= 1
      BY <1>4
    <3>3. Ahead(k) = Ahead(h) + x
      BY <3>1, <3>2 DEF Ahead
    <3>4. PICK i \in Int : i = Len(h.requests) /\ i = Len(k.requests)
      BY <1>3, <3>1
    <3>5. AheadOfAll(h) = Ahead(h) - i /\ AheadOfAll(k) = Ahead(k) - i /\ Ahead(h) \in Int
      BY <1>2, <3>4, Balance
    <3>6. AheadOfAll(k) = AheadOfAll(h) + x
      BY <3>3, <3>5
    <3>7. ~ k.stolen => ~ h.stolen /\ x >= 1
      BY <1>4, <3>1, <3>2
    <3> QED BY <1>2, <3>1, <3>2, <3>6, <3>7, StaysAccounted
  <2> QED BY <2>1, <2>2
<1> QED BY <1>1, <1>2, <1>5 DEF Moved, k

LEMMA EstablishConnectionAccounted ==
    ASSUME NEW h \in HostRecords, NEW d \in Packets,
           h.calls >= 1, Accounted(h, 0),
           d.type = "handshake" => h.next <= MaxAnswers
    PROVE  LET k == EstablishConnection(h, d)
           IN  k \in HostRecords /\ SameReads(h, k) /\ Accounted(k, -1)
<1> DEFINE s == Head(h.requests).socket
           m == Dispatch(h, s, d)
<1>1. h.requests \in Seq(Requests) /\ h.calls \in Int /\ Counted(h) \in Int
  <2>1. h.calls \in Int /\ Cardinality(h.receiving) \in Nat /\ Len(h.requests) \in Nat
    BY Counting
  <2>2. Counted(h) \in Int
    BY <2>1 DEF Counted
  <2> QED BY <2>1, <2>2 DEF HostRecords
<1>2. CASE h.requests = <<>> \/ d.type = "data"
  <2> DEFINE k == [h EXCEPT !.stolen = TRUE]
  <2>1. EstablishConnection(h, d) = k
    BY <1>2 DEF EstablishConnection
  <2>2. /\ k \in HostRecords /\ SameReads(h, k) /\ SameReceives(h, k)
        /\ k.failed = h.failed /\ k.stolen /\ k.repeated = h.repeated
    BY SetStolen
  <2> HIDE DEF k
  <2>3. Accounted(k, -1)
    BY <1>1, <2>2 DEF Accounted, Counted, SameReceives
  <2> QED BY <2>1, <2>2, <2>3
<1>3. CASE h.requests # <<>> /\ d.type # "data"
  <2>1. Head(h.requests) \in Requests /\ Len(h.requests) >= 1
    BY <1>1, <1>3
  <2>2. s \in Sockets
    BY <2>1 DEF Requests
  <2> HIDE DEF s
  <2>3. Moved(h, m, Ended(h, s))
    BY <2>2, DispatchMoves
  <2>4. EstablishConnection(h, d) =
          LET h2 == [m EXCEPT !.requests = Tail(@), !.calls = @ - 1,
                              !.stolen = @ \/ s \notin h.receiving]
          IN  IF m.failed # "no" THEN m
              ELSE IF m.conn[s] = "established" THEN ProcessAccept(h2, s)
              ELSE [m EXCEPT !.calls = @ + 1, !.repeated = @ \/ s \in h.receiving]
    BY <1>3 DEF EstablishConnection, s
  <2> HIDE DEF m
  <2>5. /\ m \in HostRecords /\ SameReads(h, m) /\ SameHistory(h, m)
        /\ m.requests = h.requests
    BY <2>3 DEF Moved
  <2>6. /\ Cardinality(h.receiving) \in Nat /\ Len(h.requests) \in Nat
        /\ m.calls \in Int /\ Cardinality(m.receiving) \in Nat
        /\ m.stolen \in BOOLEAN /\ m.repeated \in BOOLEAN
    BY <2>5, Counting DEF HostRecords
  <2>7. /\ s \in h.receiving => Ended(h, s) = 1
        /\ s \notin h.receiving => Ended(h, s) = 0
    BY DEF Ended
  <2>8. CASE m.failed # "no"
    BY <2>4, <2>5, <2>8 DEF Accounted
  <2>9. CASE m.failed = "no" /\ m.conn[s] # "established"
    <3>1. PICK v \in Int, b \in BOOLEAN :
            v = m.calls + 1 /\ b = (m.repeated \/ s \in h.receiving)
      <4>1. PICK x \in BOOLEAN : x <=> (m.repeated \/ s \in h.receiving)
        OBVIOUS
      <4>2. x = (m.repeated \/ s \in h.receiving)
        BY <4>1
      <4>3. m.calls + 1 \in Int
        BY <2>6
      <4> QED BY <4>2, <4>3
    <3> DEFINE m1 == [m EXCEPT !.calls = v]
               k  == [m1 EXCEPT !.repeated = b]
    <3>2. EstablishConnection(h, d) = k
      BY <2>4, <2>9, <3>1
    <3>3. /\ m1 \in HostRecords /\ SameReads(m, m1) /\ SameHistory(m, m1)
          /\ m1.calls = v /\ m1.receiving = m.receiving
          /\ m1.requests = m.requests /\ m1.failed = m.failed
      BY <2>5, SetCalls
    <3> HIDE DEF m1
    <3>4. /\ k \in HostRecords /\ SameReads(m1, k) /\ SameReceives(m1, k)
          /\ k.failed = m1.failed /\ k.stolen = m1.stolen /\ k.repeated = b
      <4>1. k \in HostRecords
        BY <3>3 DEF HostRecords
      <4>2. /\ SameReads(m1, k) /\ SameReceives(m1, k)
            /\ k.failed = m1.failed /\ k.stolen = m1.stolen /\ k.repeated = b
        BY <3>3 DEF HostRecords, SameReads, SameReceives
      <4> QED BY <4>1, <4>2
    <3> HIDE DEF k
    <3>5. k.repeated <=> (h.repeated \/ s \in h.receiving)
      BY <2>5, <2>6, <3>1, <3>4 DEF SameHistory
    <3>6. k.stolen = h.stolen /\ k.calls = m.calls + 1 /\ k.receiving = m.receiving
      BY <2>5, <3>1, <3>3, <3>4 DEF SameHistory, SameReceives
    <3>7. Len(k.requests) = Len(h.requests)
      BY <2>5, <3>3, <3>4 DEF SameReceives
    <3>8. /\ h.failed = "no"
          /\ m.calls - Cardinality(m.receiving)
               = h.calls - Cardinality(h.receiving) + Ended(h, s)
      BY <2>3, <2>9 DEF Moved
    <3>9. Accounted(k, -1)
      <4>1. PICK x \in Int : x = Ended(h, s) + 1
        BY <2>7
      <4>2. PICK a \in Int, i \in Int : a = m.calls /\ i = Cardinality(m.receiving)
        BY <2>6
      <4>3. Ahead(m) = a - i /\ Ahead(k) = a + 1 - i
        BY <3>6, <4>2 DEF Ahead
      <4>4. PICK e \in Int : e = Ended(h, s)
        BY <2>7
      <4>5. a - i = Ahead(h) + e
        BY <3>8, <4>2, <4>4, Zenon DEF Ahead
      <4>6. PICK n \in Int : n = Len(h.requests) /\ n = Len(k.requests)
        BY <2>6, <3>7
      <4>7. k \in HostRecords
        BY <3>4
      <4>8. AheadOfAll(h) = Ahead(h) - n /\ AheadOfAll(k) = Ahead(k) - n /\ Ahead(h) \in Int
        BY <4>6, <4>7, Balance
      <4>9. AheadOfAll(k) = AheadOfAll(h) + x
        <5>1. x = e + 1
          BY <4>1, <4>4, Zenon
        <5> QED BY <4>3, <4>5, <4>8, <5>1
      <4>10. ~ k.stolen => ~ h.stolen /\ x >= 1
        BY <2>7, <3>6, <4>1
      <4>11. ~ k.repeated => ~ h.repeated /\ x <= 1
        BY <2>7, <3>5, <4>1
      <4> QED BY <3>8, <4>7, <4>9, <4>10, <4>11, StaysAccounted
    <3> QED BY <2>5, <3>2, <3>3, <3>4, <3>9 DEF SameReads
  <2>10. CASE m.failed = "no" /\ m.conn[s] = "established"
    <3>1. PICK q \in Seq(Requests) : q = Tail(h.requests) /\ Len(q) = Len(h.requests) - 1
      <4>1. Tail(h.requests) \in Seq(Requests)
        BY <1>1, <1>3, HeadTailProperties
      <4>2. Len(Tail(h.requests)) = Len(h.requests) - 1
        BY <1>1, <1>3
      <4> QED BY <4>1, <4>2
    <3>2. PICK v \in Int, b \in BOOLEAN :
            v = m.calls - 1 /\ b = (m.stolen \/ s \notin h.receiving)
      <4>1. PICK x \in BOOLEAN : x <=> (m.stolen \/ s \notin h.receiving)
        OBVIOUS
      <4>2. x = (m.stolen \/ s \notin h.receiving)
        BY <4>1
      <4>3. m.calls - 1 \in Int
        BY <2>6
      <4> QED BY <4>2, <4>3
    <3> DEFINE m1 == [m EXCEPT !.requests = q]
               m2 == [m1 EXCEPT !.calls = v]
               m3 == [m2 EXCEPT !.stolen = b]
               k  == ProcessAccept(m3, s)
    <3>3. EstablishConnection(h, d) = k
      BY <2>4, <2>5, <2>10, <3>1, <3>2
    <3>4. /\ m1 \in HostRecords /\ SameReads(m, m1) /\ SameHistory(m, m1)
          /\ m1.calls = m.calls /\ m1.receiving = m.receiving
          /\ m1.requests = q /\ m1.failed = m.failed
      BY <2>5 DEF HostRecords, SameReads, SameHistory
    <3> HIDE DEF m1
    <3>5. /\ m2 \in HostRecords /\ SameReads(m1, m2) /\ SameHistory(m1, m2)
          /\ m2.calls = v /\ m2.receiving = m1.receiving
          /\ m2.requests = m1.requests /\ m2.failed = m1.failed
      BY <3>4, SetCalls
    <3> HIDE DEF m2
    <3>6. /\ m3 \in HostRecords /\ SameReads(m2, m3) /\ SameReceives(m2, m3)
          /\ m3.failed = m2.failed /\ (m3.stolen <=> b) /\ m3.repeated = m2.repeated
      BY <3>5, SetStolen
    <3> HIDE DEF m3
    <3>7. Unseen(m3, k)
      <4>1. CASE m3.sockets[m3.remote[s]] # Nobody
        <5>1. PICK w \in SUBSET Sockets :
                w = m3.lost \union ({s} \ {m3.sockets[m3.remote[s]]})
          BY <2>2, <3>6 DEF HostRecords
        <5>2. k = [m3 EXCEPT !.lost = w]
          BY <4>1, <5>1 DEF ProcessAccept
        <5>3. Unseen(m3, [m3 EXCEPT !.lost = w])
          BY <3>6 DEF HostRecords, Unseen, SameReads, SameHistory, SameReceives
        <5> QED BY <5>2, <5>3
      <4>2. CASE m3.sockets[m3.remote[s]] = Nobody
        <5>1. PICK w \in [Remotes -> Sockets \union {Nobody}] :
                w = [m3.sockets EXCEPT ![m3.remote[s]] = s]
          BY <2>2, <3>6 DEF HostRecords
        <5>2. k = [m3 EXCEPT !.sockets = w]
          BY <4>2, <5>1 DEF ProcessAccept
        <5>3. Unseen(m3, [m3 EXCEPT !.sockets = w])
          BY <3>6 DEF HostRecords, Unseen, SameReads, SameHistory, SameReceives
        <5> QED BY <5>2, <5>3
      <4> QED BY <4>1, <4>2
    <3> HIDE DEF k
    <3>8. /\ k \in HostRecords /\ SameReads(h, k) /\ k.calls = m.calls - 1
          /\ k.receiving = m.receiving /\ Len(k.requests) = Len(h.requests) - 1
          /\ k.repeated = h.repeated
      BY <2>5, <3>1, <3>2, <3>4, <3>5, <3>6, <3>7
         DEF Unseen, SameReads, SameHistory, SameReceives
    <3>9. k.stolen <=> (h.stolen \/ s \notin h.receiving)
      <4>1. k.stolen = m3.stolen /\ m.stolen = h.stolen
        BY <2>5, <3>7 DEF Unseen, SameHistory
      <4> QED BY <4>1, <3>2, <3>6
    <3>10. /\ h.failed = "no"
           /\ m.calls - Cardinality(m.receiving)
                = h.calls - Cardinality(h.receiving) + Ended(h, s)
      BY <2>3, <2>10 DEF Moved
    <3>11. Accounted(k, -1)
      <4>1. PICK a \in Int, i \in Int : a = m.calls /\ i = Cardinality(m.receiving)
        BY <2>6
      <4>2. Ahead(m) = a - i /\ Ahead(k) = a - 1 - i
        BY <3>8, <4>1 DEF Ahead
      <4>3. PICK x \in Int : x = Ended(h, s)
        BY <2>7
      <4>4. a - i = Ahead(h) + x
        BY <3>10, <4>1, <4>3, Zenon DEF Ahead
      <4>5. PICK n \in Int : n = Len(h.requests) /\ n - 1 = Len(k.requests)
        BY <2>6, <3>8
      <4>6. k \in HostRecords
        BY <3>8
      <4>7. /\ AheadOfAll(h) = Ahead(h) - n /\ AheadOfAll(k) = Ahead(k) - (n - 1)
            /\ Ahead(h) \in Int
        BY <4>5, <4>6, Balance
      <4>8. AheadOfAll(k) = AheadOfAll(h) + x
        BY <4>2, <4>4, <4>7
      <4>9. ~ k.stolen => ~ h.stolen /\ x >= 1
        BY <2>7, <3>9, <4>3
      <4>10. ~ k.repeated => ~ h.repeated /\ x <= 1
        <5>1. k.repeated = h.repeated
          BY <3>8
        <5> QED BY <2>7, <4>3, <5>1
      <4> QED BY <3>10, <4>6, <4>8, <4>9, <4>10, StaysAccounted
    <3> QED BY <3>3, <3>8, <3>11
  <2> QED BY <2>8, <2>9, <2>10
<1> QED BY <1>2, <1>3
-----------------------------------------------------------------------------
\* Setting what the invariant does not speak of.
LEMMA SetUnseen ==
    ASSUME NEW h \in HostRecords
    PROVE  /\ \A v \in SUBSET Acceptors : Unseen(h, [h EXCEPT !.acceptors = v])
           /\ \A v \in SUBSET Sockets : Unseen(h, [h EXCEPT !.attached = v])
           /\ \A v \in SUBSET Sockets : Unseen(h, [h EXCEPT !.waiting = v])
           /\ \A s \in Sockets, v \in Nat : Unseen(h, [h EXCEPT !.kept[s] = v])
           /\ \A v \in Acceptors \union {Nobody} : Unseen(h, [h EXCEPT !.closing = v])
           /\ \A v \in SUBSET Answers : Unseen(h, [h EXCEPT !.flying = v])
           /\ \A v \in SUBSET Answers : Unseen(h, [h EXCEPT !.aborts = v])
           /\ \A v \in Nat : Unseen(h, [h EXCEPT !.empties = v])
<1>1. \A v \in SUBSET Acceptors : Unseen(h, [h EXCEPT !.acceptors = v])
  BY DEF HostRecords, Unseen, SameReads, SameHistory, SameReceives
<1>2. \A v \in SUBSET Sockets : Unseen(h, [h EXCEPT !.attached = v])
  BY DEF HostRecords, Unseen, SameReads, SameHistory, SameReceives
<1>3. \A v \in SUBSET Sockets : Unseen(h, [h EXCEPT !.waiting = v])
  BY DEF HostRecords, Unseen, SameReads, SameHistory, SameReceives
<1>4. ASSUME NEW s \in Sockets, NEW v \in Nat
      PROVE  Unseen(h, [h EXCEPT !.kept[s] = v])
  <2>1. PICK w \in [Sockets -> Nat] : w = [h.kept EXCEPT ![s] = v]
    BY DEF HostRecords
  <2>2. [h EXCEPT !.kept[s] = v] = [h EXCEPT !.kept = w]
    BY <2>1
  <2>3. Unseen(h, [h EXCEPT !.kept = w])
    BY DEF HostRecords, Unseen, SameReads, SameHistory, SameReceives
  <2> QED BY <2>2, <2>3
<1>5. \A v \in Acceptors \union {Nobody} : Unseen(h, [h EXCEPT !.closing = v])
  BY DEF HostRecords, Unseen, SameReads, SameHistory, SameReceives
<1>6. \A v \in SUBSET Answers : Unseen(h, [h EXCEPT !.flying = v])
  BY DEF HostRecords, Unseen, SameReads, SameHistory, SameReceives
<1>7. \A v \in SUBSET Answers : Unseen(h, [h EXCEPT !.aborts = v])
  BY DEF HostRecords, Unseen, SameReads, SameHistory, SameReceives
<1>8. \A v \in Nat : Unseen(h, [h EXCEPT !.empties = v])
  BY DEF HostRecords, Unseen, SameReads, SameHistory, SameReceives
<1> QED BY <1>1, <1>2, <1>3, <1>4, <1>5, <1>6, <1>7, <1>8

LEMMA ProcessPeekSound ==
    ASSUME NEW h, Sound(h, 0), h.failed = "no", h.stuck = "no", h.ready > 0,
           h.inbox # <<>> /\ Head(h.inbox).type = "handshake" => h.next <= MaxAnswers
    PROVE  Sound(ProcessPeek(h), 0)
<1>1. /\ h \in HostRecords /\ h.posted \in Nat /\ h.ready \in Nat
      /\ h.inbox \in Seq(Datagrams)
  BY DEF Sound, HostRecords
<1>2. PICK v \in Nat : v = h.ready - 1
  BY <1>1
<1> DEFINE h1 == [h EXCEPT !.ready = v]
           d  == Head(h.inbox)
           h2 == [h1 EXCEPT !.inbox = Tail(@)]
           s  == IF h.from = Nobody THEN Nobody ELSE h.sockets[h.from]
           h3 == [h2 EXCEPT !.stolen = @ \/ s \notin h.receiving]
<1>3. ProcessPeek(h) =
        IF ~ h.open THEN h1
        ELSE IF h.calls = 0 THEN Discard(h1, "nothing")
        ELSE IF h.calls \notin 1 .. Receivers(h) + 1 THEN Fail(h1, "process_peek")
        ELSE IF h.inbox = <<>> \/ d.type = "empty" THEN Discard(h1, "read")
        ELSE FinishRead(IF s = Nobody THEN EstablishConnection(h2, d)
                        ELSE Dispatch(h3, s, d))
  BY <1>2 DEF ProcessPeek
<1>4. /\ h1 \in HostRecords /\ SameReceives(h, h1) /\ SameHistory(h, h1)
      /\ h1.failed = h.failed /\ h1.open = h.open /\ h1.inbox = h.inbox
      /\ h1.posted = h.posted /\ h1.ready = v
      /\ h1.stuck = h.stuck /\ h1.raced = h.raced
      /\ h1.next = h.next /\ h1.sockets = h.sockets /\ h1.from = h.from
  BY <1>1, SetReady
<1> HIDE DEF h1
<1>5. /\ h1.stuck = "no" /\ (~ h1.raced => h1.posted + h1.ready = 0)
      /\ h.open /\ h1.inbox = <<>> => h1.raced
  BY <1>1, <1>2, <1>4 DEF Sound, OneRead
<1>6. Accounted(h1, 0)
  BY <1>4 DEF Sound, Accounted, Counted, SameReceives, SameHistory
<1>7. OneRead(h1)
  <2>1. h.open /\ h1.ready > 0 => h1.raced
    BY <1>1, <1>2, <1>4, <1>5
  <2> QED BY <1>1, <1>2, <1>4, <1>5, <2>1 DEF OneRead
<1>8. CASE ~ h.open
  <2>1. Reads(h1) /\ StuckIdle(h1)
    BY <1>4, <1>5, <1>8 DEF Reads, StuckIdle
  <2> QED BY <1>3, <1>4, <1>6, <1>7, <1>8, <2>1 DEF Sound
<1>9. CASE h.open /\ h.calls = 0
  <2>1. h1.calls = 0
    BY <1>4, <1>9 DEF SameReceives
  <2>2. Sound(Discard(h1, "nothing"), 0)
    BY <1>4, <1>5, <1>6, <1>9, <2>1, DiscardSound
  <2> QED BY <1>3, <1>9, <2>2
<1>10. CASE h.open /\ h.calls # 0 /\ h.calls \notin 1 .. Receivers(h) + 1
  <2>1. Sound(Fail(h1, "process_peek"), 0)
    BY <1>4, <1>7, FailSound DEF Failures
  <2> QED BY <1>3, <1>10, <2>1
<1>11. CASE /\ h.open /\ h.calls # 0 /\ h.calls \in 1 .. Receivers(h) + 1
            /\ h.inbox = <<>> \/ d.type = "empty"
  <2>1. Sound(Discard(h1, "read"), 0)
    BY <1>4, <1>5, <1>6, <1>11, DiscardSound
  <2> QED BY <1>3, <1>11, <2>1
<1>12. CASE /\ h.open /\ h.calls # 0 /\ h.calls \in 1 .. Receivers(h) + 1
            /\ ~ (h.inbox = <<>> \/ d.type = "empty")
  <2>1. d \in Datagrams
    BY <1>1, <1>12
  <2>2. d \in Packets
    BY <1>12, <2>1 DEF Datagrams, EmptyPacket
  <2>3. PICK q \in Seq(Datagrams) : q = Tail(h1.inbox)
    <3>1. Tail(h1.inbox) \in Seq(Datagrams)
      BY <1>1, <1>4, <1>12, HeadTailProperties
    <3> QED BY <3>1
  <2>4. h2 = [h1 EXCEPT !.inbox = q]
    BY <1>4, <2>3
  <2>5. d.type = "handshake" => h.next <= MaxAnswers
    BY <1>12
  <2> HIDE DEF d
  <2>6. /\ h2 \in HostRecords /\ SameReceives(h1, h2) /\ SameHistory(h1, h2)
        /\ h2.failed = h1.failed /\ h2.posted = h1.posted /\ h2.ready = h1.ready
        /\ h2.stuck = h1.stuck /\ h2.raced = h1.raced
        /\ h2.next = h1.next /\ h2.sockets = h1.sockets /\ h2.from = h1.from
    BY <1>4, <2>4, SetInbox
  <2>7. CASE s = Nobody
    <3> HIDE DEF h2
    <3>1. h2.calls >= 1 /\ (d.type = "handshake" => h2.next <= MaxAnswers)
      BY <1>4, <1>12, <2>5, <2>6, Counting DEF SameReceives
    <3>2. Accounted(h2, 0)
      BY <1>6, <2>6 DEF Accounted, Counted, SameReceives, SameHistory
    <3> DEFINE k == EstablishConnection(h2, d)
    <3>3. k \in HostRecords /\ SameReads(h2, k) /\ Accounted(k, -1)
      BY <2>2, <2>6, <3>1, <3>2, EstablishConnectionAccounted
    <3> HIDE DEF k
    <3>4. k.stuck = "no" /\ (~ k.raced => k.posted + k.ready = 0)
      BY <1>5, <2>6, <3>3 DEF SameReads
    <3>5. Sound(FinishRead(k), 0)
      BY <3>3, <3>4, FinishReadSound
    <3> QED BY <1>3, <1>12, <2>7, <3>5 DEF k, d
  <2>8. CASE s # Nobody
    <3>1. s \in Sockets
      BY <1>1, <2>8 DEF HostRecords
    <3> HIDE DEF s
    <3>2. PICK b \in BOOLEAN : b <=> (h2.stolen \/ s \notin h.receiving)
      OBVIOUS
    <3>3. h3 = [h2 EXCEPT !.stolen = b]
      <4>1. h2.stolen \in BOOLEAN
        BY <2>6 DEF HostRecords
      <4>2. b = (h2.stolen \/ s \notin h.receiving)
        BY <3>2
      <4> HIDE DEF h2
      <4> QED BY <2>6, <4>2 DEF HostRecords
    <3> HIDE DEF h2
    <3>4. /\ h3 \in HostRecords /\ SameReads(h2, h3) /\ SameReceives(h2, h3)
          /\ h3.failed = h2.failed /\ (h3.stolen <=> b) /\ h3.repeated = h2.repeated
          /\ h3.next = h2.next
      <4>1. h2 \in HostRecords /\ b \in BOOLEAN
        BY <2>6
      <4> HIDE DEF h3
      <4> QED BY <3>3, <4>1, SetStolen
    <3> HIDE DEF h3
    <3>5. h3.calls >= 1 /\ (d.type = "handshake" => h3.next <= MaxAnswers)
      BY <1>4, <1>12, <2>5, <2>6, <3>4, Counting DEF SameReceives
    <3>6. Accounted(h3, 0)
      <4>1. h3.stolen <=> (h2.stolen \/ s \notin h.receiving)
        BY <3>2, <3>4
      <4>2. Accounted(h2, 0)
        BY <1>6, <2>6 DEF Accounted, Counted, SameReceives, SameHistory
      <4> QED BY <3>4, <4>1, <4>2 DEF Accounted, Counted, SameReceives
    <3>7. s \notin h3.receiving => h3.stolen
      <4>1. h3.receiving = h.receiving
        BY <1>4, <2>6, <3>4 DEF SameReceives
      <4> QED BY <3>2, <3>4, <4>1
    <3> DEFINE k == Dispatch(h3, s, d)
    <3>8. k \in HostRecords /\ SameReads(h3, k) /\ Accounted(k, -1)
      BY <2>2, <3>1, <3>4, <3>5, <3>6, <3>7, DispatchAccounted
    <3> HIDE DEF k
    <3>9. k.stuck = "no" /\ (~ k.raced => k.posted + k.ready = 0)
      BY <1>5, <2>6, <3>4, <3>8 DEF SameReads
    <3>10. Sound(FinishRead(k), 0)
      BY <3>8, <3>9, FinishReadSound
    <3> QED BY <1>3, <1>12, <2>8, <3>10 DEF k, d
  <2> QED BY <2>7, <2>8
<1> QED BY <1>8, <1>9, <1>10, <1>11, <1>12
-----------------------------------------------------------------------------
\* When nobody holds the multiplexer any more nobody is to receive.
NoneLeft(h) == h.failed = "no" /\ ~ Alive(h) => h.calls = 0

IInv == TypeOK /\ Sound(host, 0) /\ NoneLeft(host)

LEMMA SettledSound ==
    ASSUME NEW h, Sound(h, 0)
    PROVE  Sound(Settled(h), 0) /\ NoneLeft(Settled(h))
<1>1. h \in HostRecords
  BY DEF Sound
<1>2. CASE Alive(h) \/ h.failed # "no"
  <2>1. Settled(h) = h
    BY <1>2 DEF Settled
  <2> QED BY <1>2, <2>1 DEF NoneLeft
<1>3. CASE /\ ~ Alive(h) /\ h.failed = "no"
           /\ Entries(h) # {} \/ h.requests # <<>> \/ h.calls # 0
  <2>1. Settled(h) = Fail(h, "~multiplexer")
    BY <1>3 DEF Settled
  <2>2. Sound(Fail(h, "~multiplexer"), 0)
    BY <1>1, FailSound DEF Sound, Failures
  <2>3. Fail(h, "~multiplexer").failed = "~multiplexer"
    BY <1>1, SetFailed DEF Failures
  <2> QED BY <2>1, <2>2, <2>3 DEF NoneLeft
<1>4. CASE /\ ~ Alive(h) /\ h.failed = "no"
           /\ ~ (Entries(h) # {} \/ h.requests # <<>> \/ h.calls # 0)
  <2>1. PICK q \in Seq(Datagrams), b \in BOOLEAN : q = <<>> /\ b = FALSE
    <3>1. <<>> \in Seq(Datagrams)
      BY EmptySeq
    <3> QED BY <3>1
  <2> DEFINE h1 == [h EXCEPT !.open = b]
             k  == [h1 EXCEPT !.inbox = q]
  <2>2. Settled(h) = k
    BY <1>4, <2>1 DEF Settled
  <2>3. /\ h1 \in HostRecords /\ SameReceives(h, h1) /\ SameHistory(h, h1)
        /\ h1.failed = h.failed /\ ~ h1.open /\ h1.posted = h.posted
        /\ h1.ready = h.ready /\ h1.stuck = h.stuck /\ h1.raced = h.raced
    BY <1>1, <2>1 DEF HostRecords, SameReceives, SameHistory
  <2> HIDE DEF h1
  <2>4. /\ k \in HostRecords /\ SameReceives(h1, k) /\ SameHistory(h1, k)
        /\ k.failed = h1.failed /\ k.open = h1.open /\ k.posted = h1.posted
        /\ k.ready = h1.ready /\ k.stuck = h1.stuck /\ k.raced = h1.raced
    BY <2>3, SetInbox
  <2> HIDE DEF k
  <2>5. Sound(k, 0)
    BY <2>3, <2>4
       DEF Sound, Reads, OneRead, Accounted, StuckIdle, Counted, SameReceives, SameHistory
  <2>6. k.calls = 0
    BY <1>4, <2>3, <2>4 DEF SameReceives
  <2> QED BY <2>2, <2>5, <2>6 DEF NoneLeft
<1> QED BY <1>2, <1>3, <1>4

LEMMA AddSound ==
    ASSUME NEW h, Sound(h, 0), NoneLeft(h), h.failed = "no"
    PROVE  Sound(Add(h), 0) /\ Add(h) \in HostRecords
<1>1. h \in HostRecords
  BY DEF Sound
<1>2. CASE Alive(h)
  BY <1>1, <1>2 DEF Add
<1>3. CASE ~ Alive(h)
  <2> DEFINE k == [h EXCEPT !.open = TRUE]
  <2>1. Add(h) = k
    BY <1>3 DEF Add
  <2>2. /\ k \in HostRecords /\ SameReceives(h, k) /\ SameHistory(h, k)
        /\ k.failed = h.failed /\ k.inbox = h.inbox /\ k.posted = h.posted
        /\ k.ready = h.ready /\ k.stuck = h.stuck /\ k.raced = h.raced
    BY <1>1 DEF HostRecords, SameReceives, SameHistory
  <2> HIDE DEF k
  <2>3. h.posted \in Nat /\ h.ready \in Nat /\ h.empties \in Nat
    BY <1>1 DEF HostRecords
  <2>4. h.posted = 0 /\ h.ready = 0 /\ h.calls = 0
    BY <1>3, <2>3 DEF Alive, NoneLeft
  <2>5. Sound(k, 0)
    BY <2>2, <2>3, <2>4
       DEF Sound, Reads, OneRead, Accounted, StuckIdle, Counted, SameReceives, SameHistory
  <2> QED BY <2>1, <2>2, <2>5
<1> QED BY <1>2, <1>3

LEMMA FrontType ==
    ASSUME NEW h \in HostRecords, NEW s \in Sockets
    PROVE  Front(h, s) \subseteq Answers
<1>1. h.answers[s] \in Seq(Answers)
  BY DEF HostRecords
<1>2. h.answers[s] # <<>> => Head(h.answers[s]) \in Answers
  BY <1>1
<1> QED BY <1>2 DEF Front

\* A step of the io_service or of a user.
LEMMA StepKeeps ==
    ASSUME IInv, NEW h, Sound(h, 0), Becomes(h), peer' \in [Remotes -> Peers]
    PROVE  IInv'
<1>1. Sound(host', 0) /\ NoneLeft(host')
  BY SettledSound DEF Becomes
<1>2. host' \in HostRecords
  BY <1>1 DEF Sound
<1>3. h \in HostRecords
  BY DEF Sound
<1>4. Begun(h) \subseteq Answers
  BY <1>3, FrontType DEF Begun
<1>5. wire' \subseteq Answers
  BY <1>4 DEF Becomes, IInv, TypeOK
<1>6. TypeOK'
  BY <1>2, <1>5 DEF TypeOK
<1>7. Sound(host, 0)' /\ NoneLeft(host)'
  BY <1>1 DEF Sound, Reads, OneRead, Accounted, StuckIdle, Counted, NoneLeft, Alive
<1> QED BY <1>6, <1>7 DEF IInv

\* A datagram that arrives.
LEMMA ComesKeeps ==
    ASSUME IInv, NEW h, Sound(h, 0), NEW d \in Datagrams, Comes(h, d),
           wire' \subseteq Answers, peer' \in [Remotes -> Peers]
    PROVE  IInv'
<1>1. Sound(Arrived(h, d), 0)
  BY ArrivedSound
<1>2. host' = Settled(Arrived(h, d))
  BY DEF Comes
<1>3. Sound(host', 0) /\ NoneLeft(host')
  BY <1>1, <1>2, SettledSound
<1>4. host' \in HostRecords
  BY <1>3 DEF Sound
<1>5. TypeOK'
  BY <1>4 DEF TypeOK
<1>6. Sound(host, 0)' /\ NoneLeft(host)'
  BY <1>3 DEF Sound, Reads, OneRead, Accounted, StuckIdle, Counted, NoneLeft, Alive
<1> QED BY <1>5, <1>6 DEF IInv
-----------------------------------------------------------------------------
\* What a step may count on.
Going == host.failed = "no" /\ host.stuck = "no"

LEMMA UserSteps ==
    ASSUME IInv, NEW s \in Sockets,
           Bind(s) \/ Receive(s) \/ UserCloses(s) \/ \E a \in Acceptors : Accept(a, s)
    PROVE  IInv'
<1> USE DEF Step
<1>1. Sound(host, 0) /\ host \in HostRecords /\ NoneLeft(host)
  BY DEF IInv, Sound
<1>2. Going /\ peer' = peer /\ peer' \in [Remotes -> Peers]
  BY DEF Bind, Accept, Receive, UserCloses, Going, IInv, TypeOK
<1>3. Sound(Add(host), 0) /\ Add(host) \in HostRecords
  BY <1>1, <1>2, AddSound DEF Going
<1>5. CASE Bind(s)
  <2> DEFINE g == Add(host)
             h == [g EXCEPT !.attached = @ \union {s}]
  <2>1. Becomes(h)
    BY <1>5 DEF Bind
  <2>2. Sound(g, 0) /\ g \in HostRecords
    BY <1>3
  <2> HIDE DEF g
  <2>3. PICK v \in SUBSET Sockets : v = g.attached \union {s}
    BY <2>2 DEF HostRecords
  <2>4. Sound(h, 0)
    <3>1. h = [g EXCEPT !.attached = v]
      BY <2>3
    <3> QED BY <2>2, <3>1, SetUnseen, UnseenSound
  <2> HIDE DEF h
  <2> QED BY <1>2, <2>1, <2>4, StepKeeps
<1>6. ASSUME NEW a \in Acceptors, Accept(a, s)
      PROVE  IInv'
  <2>1. Becomes(AsyncAccept(host, a, s))
    BY <1>6 DEF Accept
  <2>2. Sound(AsyncAccept(host, a, s), 0)
    BY <1>1, <1>2, AsyncAcceptSound DEF Going
  <2> QED BY <1>2, <2>1, <2>2, StepKeeps
<1>7. CASE Receive(s)
  <2> DEFINE w == [host EXCEPT !.waiting = @ \union {s}]
             f == [host EXCEPT !.kept[s] = @ - 1]
             h == IF host.kept[s] > 0 THEN f ELSE IdempotentStartReceive(w, s)
  <2>1. Becomes(h)
    BY <1>7 DEF Receive
  <2>2. PICK v \in SUBSET Sockets : v = host.waiting \union {s}
    BY <1>1 DEF HostRecords
  <2>3. Sound(w, 0) /\ w.stuck = "no"
    <3>1. Unseen(host, w)
      BY <1>1, <2>2, SetUnseen
    <3>2. w.stuck = "no"
      BY <1>2, <3>1 DEF Unseen, SameReads, Going
    <3> HIDE DEF w
    <3> QED BY <1>1, <3>1, <3>2, UnseenSound
  <2>4. host.kept[s] > 0 => Sound(f, 0)
    <3>1. host.kept[s] \in Nat
      BY <1>1 DEF HostRecords
    <3>2. SUFFICES ASSUME host.kept[s] > 0
                   PROVE  Sound(f, 0)
      OBVIOUS
    <3>3. PICK n \in Nat : n = host.kept[s] - 1
      BY <3>1, <3>2
    <3>4. Unseen(host, f)
      BY <1>1, <3>3, SetUnseen
    <3> QED BY <1>1, <3>4, UnseenSound
  <2> HIDE DEF w, f
  <2>5. Sound(IdempotentStartReceive(w, s), 0)
    BY <2>3, IdempotentStartReceiveSound
  <2>6. Sound(h, 0)
    BY <2>4, <2>5
  <2> HIDE DEF h
  <2> QED BY <1>2, <2>1, <2>6, StepKeeps
<1>8. CASE UserCloses(s)
  <2>1. Becomes(Close(host, s))
    BY <1>8 DEF UserCloses
  <2>2. Sound(Close(host, s), 0)
    BY <1>1, <1>2, CloseSound DEF Going
  <2> QED BY <1>2, <2>1, <2>2, StepKeeps
<1> QED BY <1>5, <1>6, <1>7, <1>8

LEMMA AcceptorSteps ==
    ASSUME IInv, NEW a \in Acceptors,
           Construct(a) \/ CloseAcceptor(a) \/ Turn(a) \/ Destroy(a)
    PROVE  IInv'
<1> USE DEF Step
<1>1. Sound(host, 0) /\ host \in HostRecords /\ NoneLeft(host)
  BY DEF IInv, Sound
<1>2. Going /\ peer' = peer /\ peer' \in [Remotes -> Peers]
  BY DEF Construct, CloseAcceptor, Turn, Destroy, Going, IInv, TypeOK
<1>3. CASE CloseAcceptor(a)
  <2> DEFINE h == [host EXCEPT !.closing = a]
  <2>1. Becomes(h)
    BY <1>3 DEF CloseAcceptor
  <2>2. Sound(h, 0)
    BY <1>1, SetUnseen, UnseenSound
  <2> HIDE DEF h
  <2> QED BY <1>2, <2>1, <2>2, StepKeeps
<1>4. CASE Turn(a)
  <2>1. PICK i \in RequestsOf(a) :
          Becomes([DisableRequest(host, i) EXCEPT
                      !.closing = IF RequestsOf(a) = {i} THEN Nobody ELSE a])
    BY <1>4 DEF Turn
  <2>2. i \in DOMAIN host.requests
    BY <2>1 DEF RequestsOf
  <2>3. PICK v \in Acceptors \union {Nobody} : v = IF RequestsOf(a) = {i} THEN Nobody ELSE a
    OBVIOUS
  <2> DEFINE g == DisableRequest(host, i)
             h == [g EXCEPT !.closing = v]
  <2>4. Sound(g, 0)
    BY <1>1, <1>2, <2>2, DisableRequestSound DEF Going
  <2>5. Becomes(h)
    BY <2>1, <2>3
  <2> HIDE DEF g
  <2>6. Sound(h, 0)
    <3>1. g \in HostRecords
      BY <2>4 DEF Sound
    <3>2. Unseen(g, h)
      BY <3>1, SetUnseen
    <3> QED BY <2>4, <3>2, UnseenSound
  <2> HIDE DEF h
  <2> QED BY <1>2, <2>5, <2>6, StepKeeps
<1>5. CASE Destroy(a)
  <2>1. PICK v \in SUBSET Acceptors : v = host.acceptors \ {a}
    BY <1>1 DEF HostRecords
  <2> DEFINE h == [host EXCEPT !.acceptors = v]
  <2>2. Becomes(h)
    BY <1>5, <2>1 DEF Destroy
  <2>3. Sound(h, 0)
    BY <1>1, SetUnseen, UnseenSound
  <2> HIDE DEF h
  <2> QED BY <1>2, <2>2, <2>3, StepKeeps
<1>6. CASE Construct(a)
  <2> DEFINE g == Add(host)
             h == [g EXCEPT !.acceptors = @ \union {a}]
  <2>1. Becomes(h)
    BY <1>6 DEF Construct
  <2>2. Sound(g, 0) /\ g \in HostRecords
    BY <1>1, <1>2, AddSound DEF Going
  <2> HIDE DEF g
  <2>3. PICK v \in SUBSET Acceptors : v = g.acceptors \union {a}
    BY <2>2 DEF HostRecords
  <2>4. Sound(h, 0)
    <3>1. h = [g EXCEPT !.acceptors = v]
      BY <2>3
    <3> QED BY <2>2, <3>1, SetUnseen, UnseenSound
  <2> HIDE DEF h
  <2> QED BY <1>2, <2>1, <2>4, StepKeeps
<1> QED BY <1>3, <1>4, <1>5, <1>6

LEMMA ServiceSteps ==
    ASSUME IInv,
           \/ Peek
           \/ \E s \in Sockets : KeepaliveTimeout(s) \/ Retransmit(s)
           \/ \E a \in Answers : StepCompletes(a) \/ Abort(a)
    PROVE  IInv'
<1> USE DEF Step
<1>1. Sound(host, 0) /\ host \in HostRecords
  BY DEF IInv, Sound
<1>2. peer' = peer /\ peer' \in [Remotes -> Peers]
  BY DEF KeepaliveTimeout, Peek, StepCompletes, Abort, Retransmit, IInv, TypeOK
<1>3. ASSUME NEW s \in Sockets, KeepaliveTimeout(s)
      PROVE  IInv'
  <2>1. Becomes(Close(host, s)) /\ host.failed = "no"
    BY <1>3 DEF KeepaliveTimeout
  <2>2. Sound(Close(host, s), 0)
    BY <1>1, <2>1, CloseSound
  <2> QED BY <1>2, <2>1, <2>2, StepKeeps
<1>4. CASE Peek
  <2>1. /\ Becomes(ProcessPeek(host)) /\ host.failed = "no" /\ host.stuck = "no"
        /\ host.ready > 0
        /\ host.inbox # <<>> /\ Head(host.inbox).type = "handshake" =>
             host.next <= MaxAnswers
    BY <1>4 DEF Peek
  <2>2. Sound(ProcessPeek(host), 0)
    BY <1>1, <2>1, ProcessPeekSound
  <2> QED BY <1>2, <2>1, <2>2, StepKeeps
<1>5. ASSUME NEW a \in Answers, StepCompletes(a)
      PROVE  IInv'
  <2>1. PICK v \in SUBSET Answers : v = host.flying \ {a}
    BY <1>1 DEF HostRecords
  <2> DEFINE g == [host EXCEPT !.flying = v]
             h == AnswerHandler(g, a, FALSE)
  <2>2. Becomes(h)
    BY <1>5, <2>1 DEF StepCompletes
  <2>3. Sound(g, 0) /\ g \in HostRecords
    BY <1>1, SetUnseen, UnseenSound DEF Sound
  <2> HIDE DEF g
  <2>4. Sound(h, 0)
    <3>1. Unseen(g, h)
      BY <2>3, AnswerHandlerUnseen
    <3> HIDE DEF h
    <3> QED BY <2>3, <3>1, UnseenSound
  <2> HIDE DEF h
  <2> QED BY <1>2, <2>2, <2>4, StepKeeps
<1>6. ASSUME NEW a \in Answers, Abort(a)
      PROVE  IInv'
  <2>1. PICK v \in SUBSET Answers : v = host.aborts \ {a}
    BY <1>1 DEF HostRecords
  <2> DEFINE g == [host EXCEPT !.aborts = v]
             h == AnswerHandler(g, a, TRUE)
  <2>2. Becomes(h)
    BY <1>6, <2>1 DEF Abort
  <2>3. Sound(g, 0) /\ g \in HostRecords
    BY <1>1, SetUnseen, UnseenSound DEF Sound
  <2> HIDE DEF g
  <2>4. Sound(h, 0)
    <3>1. Unseen(g, h)
      BY <2>3, AnswerHandlerUnseen
    <3> HIDE DEF h
    <3> QED BY <2>3, <3>1, UnseenSound
  <2> HIDE DEF h
  <2> QED BY <1>2, <2>2, <2>4, StepKeeps
<1>7. ASSUME NEW s \in Sockets, Retransmit(s)
      PROVE  IInv'
  <2>1. host' = host /\ wire' \subseteq Answers
    BY <1>1, <1>7, FrontType DEF Retransmit, IInv, TypeOK
  <2> QED BY <1>2, <2>1
          DEF IInv, TypeOK, Sound, Reads, OneRead, Accounted, StuckIdle, Counted, NoneLeft, Alive
<1> QED BY <1>3, <1>4, <1>5, <1>6, <1>7

LEMMA NetworkSteps ==
    ASSUME IInv,
           \/ EmptyComes
           \/ \E r \in Remotes : Handshake(r) \/ \E x \in {TRUE, ~ Lossy} : Data(r, x)
           \/ \E a \in Answers, lost \in {FALSE, Lossy}, x \in {TRUE, ~ Lossy} :
                AnswerComes(a, lost, x)
    PROVE  IInv'
<1>1. Sound(host, 0) /\ host \in HostRecords
  BY DEF IInv, Sound
<1>2. wire \subseteq Answers /\ peer \in [Remotes -> Peers]
  BY DEF IInv, TypeOK
<1>3. CASE EmptyComes
  <2>1. PICK n \in Nat : n = host.empties - 1
    BY <1>1, <1>3 DEF EmptyComes, HostRecords
  <2> DEFINE h == [host EXCEPT !.empties = n]
  <2>2. Comes(h, EmptyPacket) /\ wire' = wire /\ peer' = peer
    BY <1>3, <2>1 DEF EmptyComes
  <2>3. Sound(h, 0)
    BY <1>1, SetUnseen, UnseenSound
  <2> HIDE DEF h
  <2> QED BY <1>2, <2>2, <2>3, ComesKeeps DEF Datagrams
<1>4. ASSUME NEW r \in Remotes, Handshake(r)
      PROVE  IInv'
  <2> DEFINE d == [from |-> r, type |-> "handshake", ack |-> NoAnswer, expected |-> TRUE]
  <2>1. Comes(host, d) /\ wire' = wire
    BY <1>4 DEF Handshake
  <2>2. d \in Datagrams
    BY DEF Datagrams, Packets
  <2>3. peer' \in [Remotes -> Peers]
    BY <1>2, <1>4 DEF Handshake, Peers
  <2> HIDE DEF d
  <2> QED BY <1>1, <1>2, <2>1, <2>2, <2>3, ComesKeeps
<1>5. ASSUME NEW r \in Remotes, NEW x \in {TRUE, ~ Lossy}, Data(r, x)
      PROVE  IInv'
  <2> DEFINE d == [from |-> r, type |-> "data", ack |-> peer[r].got, expected |-> x]
  <2>1. Comes(host, d) /\ wire' = wire
    BY <1>5 DEF Data
  <2>2. peer[r] \in Peers
    BY <1>2
  <2>3. peer[r].got \in Answers \union {NoAnswer} /\ x \in BOOLEAN
    BY <2>2 DEF Peers
  <2>4. d \in Datagrams
    BY <2>3 DEF Datagrams, Packets
  <2>5. peer' \in [Remotes -> Peers]
    <3>1. PICK n \in 0 .. MaxData : n = peer[r].sent + 1
      BY <1>5, <2>2, EndpointAssumption DEF Data, Peers
    <3>2. peer' = [peer EXCEPT ![r].sent = n]
      BY <1>5, <3>1 DEF Data
    <3> QED BY <1>2, <3>2 DEF Peers
  <2> HIDE DEF d
  <2> QED BY <1>1, <1>2, <2>1, <2>4, <2>5, ComesKeeps
<1>6. ASSUME NEW a \in Answers, NEW lost \in {FALSE, Lossy}, NEW x \in {TRUE, ~ Lossy},
             AnswerComes(a, lost, x)
      PROVE  IInv'
  <2> DEFINE r == a.to
             d == [from |-> r, type |-> "keepalive", ack |-> a, expected |-> x]
  <2>1. r \in Remotes
    BY DEF Answers
  <2>2. d \in Datagrams
    BY <2>1, EndpointAssumption DEF Datagrams, Packets
  <2>3. wire' \subseteq Answers
    BY <1>2, <1>6 DEF AnswerComes
  <2>4. peer' \in [Remotes -> Peers]
    BY <1>2, <1>6, <2>1 DEF AnswerComes, Peers
  <2>5. host' = host \/ Comes(host, d)
    BY <1>6 DEF AnswerComes
  <2> HIDE DEF d
  <2>6. CASE Comes(host, d)
    BY <1>1, <2>2, <2>3, <2>4, <2>6, ComesKeeps
  <2>7. CASE host' = host
    BY <2>3, <2>4, <2>7
       DEF IInv, TypeOK, Sound, Reads, OneRead, Accounted, StuckIdle, Counted, NoneLeft, Alive
  <2> QED BY <2>5, <2>6, <2>7
<1> QED BY <1>3, <1>4, <1>5, <1>6
-----------------------------------------------------------------------------
LEMMA InitHolds == Init => IInv
<1> SUFFICES ASSUME Init PROVE IInv
  OBVIOUS
<1>1. host = Fresh
  BY DEF Init
<1>2. Fresh \in HostRecords
  <2>1. <<>> \in Seq(Requests) /\ <<>> \in Seq(Datagrams) /\ <<>> \in Seq(Answers)
    BY EmptySeq
  <2> QED BY <2>1 DEF Fresh, HostRecords, Connectivity, Failures
<1>3. /\ Fresh.calls = 0 /\ Fresh.receiving = {} /\ Fresh.requests = <<>>
      /\ Fresh.failed = "no" /\ Fresh.stuck = "no" /\ Fresh.open = FALSE
      /\ Fresh.posted = 0 /\ Fresh.ready = 0
  BY DEF Fresh
<1>4. Counted(Fresh) = 0
  BY <1>3, FS_EmptySet DEF Counted
<1>5. Sound(Fresh, 0) /\ NoneLeft(Fresh)
  BY <1>2, <1>3, <1>4
     DEF Sound, Reads, OneRead, Accounted, StuckIdle, NoneLeft
<1>6. TypeOK
  BY <1>1, <1>2, EndpointAssumption DEF TypeOK, Init, Peers
<1> QED BY <1>1, <1>5, <1>6 DEF IInv

LEMMA NextKeeps == IInv /\ [Next]_vars => IInv'
<1> SUFFICES ASSUME IInv, [Next]_vars PROVE IInv'
  OBVIOUS
<1>1. CASE \E a \in Acceptors : Construct(a) \/ CloseAcceptor(a) \/ Turn(a) \/ Destroy(a)
  BY <1>1, AcceptorSteps
<1>2. CASE \E s \in Sockets :
             Bind(s) \/ Receive(s) \/ UserCloses(s) \/ \E a \in Acceptors : Accept(a, s)
  BY <1>2, UserSteps
<1>3. CASE \/ Peek
           \/ \E s \in Sockets : KeepaliveTimeout(s) \/ Retransmit(s)
           \/ \E a \in Answers : StepCompletes(a) \/ Abort(a)
  BY <1>3, ServiceSteps
<1>4. CASE \/ EmptyComes
           \/ \E r \in Remotes : Handshake(r) \/ \E x \in {TRUE, ~ Lossy} : Data(r, x)
           \/ \E a \in Answers, lost \in {FALSE, Lossy}, x \in {TRUE, ~ Lossy} :
                AnswerComes(a, lost, x)
  BY <1>4, NetworkSteps
<1>5. CASE UNCHANGED vars
  BY <1>5 DEF vars, IInv, TypeOK, Sound, Reads, OneRead, Accounted, StuckIdle,
              Counted, NoneLeft, Alive
<1> QED BY <1>1, <1>2, <1>3, <1>4, <1>5 DEF Next

LEMMA Invariance == Spec => []IInv
  BY InitHolds, NextKeeps, PTL DEF Spec

\* Every operator maps records of endpoints to records of endpoints, and
\* only handshakes of the sockets are on their way.
THEOREM EndpointTypeCorrect == Spec => []TypeOK
<1>1. IInv => TypeOK
  BY DEF IInv
<1> QED BY <1>1, Invariance, PTL

(* receive_calls counts the receives that are under way, until line 507    *)
(* counts a packet nobody received for or 588 a receive that was answered. *)
THEOREM CallsAreAccounted == Spec => []CallsAccounted
<1>1. IInv => CallsAccounted
  <2>1. SUFFICES ASSUME Sound(host, 0), host.failed = "no"
                 PROVE  /\ ~ host.stolen => Counted(host) <= host.calls
                        /\ ~ host.repeated => host.calls <= Counted(host)
    BY DEF IInv, CallsAccounted, Runs
  <2>2. host.calls \in Int
    BY <2>1, Counting DEF Sound
  <2>3. host.calls + 0 = host.calls
    BY <2>2
  <2>4. /\ ~ host.stolen => Counted(host) <= host.calls + 0
        /\ ~ host.repeated => host.calls + 0 <= Counted(host)
    BY <2>1 DEF Sound, Accounted
  <2> QED BY <2>3, <2>4, Zenon
<1> QED BY <1>1, Invariance, PTL

(* While receive_calls is not zero a read is posted, has completed or waits *)
(* in receive_from.                                                        *)
THEOREM ReadIsPosted == Spec => []ReadPosted
<1>1. IInv => ReadPosted
  BY DEF IInv, Sound, Reads, ReadPosted, Runs
<1> QED BY <1>1, Invariance, PTL

(* process_peek finds its datagram, and so never blocks the thread, unless *)
(* a receive started before the empty packet of the last stop had come.    *)
THEOREM OnlyARaceBlocks == Spec => []BlockedByRace
<1>1. IInv => BlockedByRace
  BY DEF IInv, Sound, OneRead, BlockedByRace
<1> QED BY <1>1, Invariance, PTL

-----------------------------------------------------------------------------
(***************************************************************************)
(* Who receives has an entry in the map, is at the head of the requests or *)
(* has lost its entry: the fields that say so, and what changes them.      *)
(***************************************************************************)
SamePlaces(h, k) ==
    /\ k.attached = h.attached /\ k.receiving = h.receiving
    /\ k.sockets = h.sockets /\ k.requests = h.requests /\ k.lost = h.lost
    /\ k.shut = h.shut /\ k.conn = h.conn /\ k.remote = h.remote
    /\ k.answers = h.answers /\ k.aborts = h.aborts
    /\ k.flying = h.flying

\* What the assertions on receive_calls ask for.
Fit(h) == h.calls \in 0 .. Receivers(h) + 1

CallFailures == {"start_receive", "stop_receive", "process_peek"}

LEMMA SameFit ==
    ASSUME NEW h, NEW k, k.calls = h.calls, k.sockets = h.sockets,
           k.requests = h.requests
    PROVE  Receivers(k) = Receivers(h) /\ (Fit(k) <=> Fit(h))
  BY DEF Fit, Receivers, Entries

LEMMA DoStartReceiveInPlace ==
    ASSUME NEW h \in HostRecords
    PROVE  LET k == DoStartReceive(h)
           IN  SamePlaces(h, k) /\ SameHistory(h, k) /\ k.failed = h.failed
  BY DEF DoStartReceive, HostRecords, SamePlaces, SameHistory

LEMMA StartReceiveInPlace ==
    ASSUME NEW h \in HostRecords
    PROVE  LET k == StartReceive(h)
           IN  /\ SamePlaces(h, k) /\ SameHistory(h, k)
               /\ k.failed = h.failed \/ (k.failed = "start_receive" /\ ~ Fit(h))
<1>1. PICK v \in Int : v = h.calls + 1
  BY DEF HostRecords
<1>2. CASE ~ Fit(h)
  <2>1. StartReceive(h) = Fail(h, "start_receive")
    BY <1>2 DEF StartReceive, Fit
  <2> QED BY <1>2, <2>1 DEF Fail, HostRecords, SamePlaces, SameHistory
<1>3. CASE Fit(h) /\ h.calls # 0
  <2>1. StartReceive(h) = [h EXCEPT !.calls = v]
    BY <1>1, <1>3 DEF StartReceive, Fit
  <2> QED BY <2>1 DEF HostRecords, SamePlaces, SameHistory
<1>4. CASE Fit(h) /\ h.calls = 0
  <2>1. PICK w \in BOOLEAN : w = (h.raced \/ h.posted + h.ready > 0)
    <3>1. PICK x \in BOOLEAN : x <=> (h.raced \/ h.posted + h.ready > 0)
      OBVIOUS
    <3>2. x = (h.raced \/ h.posted + h.ready > 0)
      BY <3>1
    <3> QED BY <3>2
  <2> DEFINE g == [h EXCEPT !.calls = v]
             k == [g EXCEPT !.raced = w]
  <2>2. /\ g \in HostRecords /\ SamePlaces(h, g) /\ SameHistory(h, g)
        /\ g.failed = h.failed /\ g.raced = h.raced
    BY DEF HostRecords, SamePlaces, SameHistory
  <2>3. StartReceive(h) = DoStartReceive(k)
    BY <1>1, <1>4, <2>1, <2>2 DEF StartReceive, Fit
  <2> HIDE DEF g
  <2>4. k \in HostRecords /\ SamePlaces(g, k) /\ SameHistory(g, k) /\ k.failed = g.failed
    <3>1. k \in HostRecords
      BY <2>2, SetRaced
    <3>2. SamePlaces(g, k) /\ SameHistory(g, k) /\ k.failed = g.failed
      BY <2>2 DEF HostRecords, SamePlaces, SameHistory
    <3> QED BY <3>1, <3>2
  <2> HIDE DEF k
  <2> QED BY <2>2, <2>3, <2>4, DoStartReceiveInPlace DEF SamePlaces, SameHistory
<1> QED BY <1>2, <1>3, <1>4

LEMMA StopReceiveInPlace ==
    ASSUME NEW h \in HostRecords
    PROVE  LET k == StopReceive(h)
           IN  /\ SamePlaces(h, k) /\ SameHistory(h, k)
               /\ \/ /\ k.failed = h.failed \/ k.failed \notin CallFailures
                     /\ k.calls = h.calls - 1
                  \/ k.failed = "stop_receive" /\ h.calls \notin 1 .. Receivers(h) + 1
<1>1. PICK v \in Int : v = h.calls - 1
  BY DEF HostRecords
<1>2. CASE h.calls \notin 1 .. Receivers(h) + 1
  <2>1. StopReceive(h) = Fail(h, "stop_receive")
    BY <1>2 DEF StopReceive
  <2> QED BY <1>2, <2>1 DEF Fail, HostRecords, SamePlaces, SameHistory
<1>3. CASE h.calls \in 1 .. Receivers(h) + 1 /\ h.calls # 1
  <2>1. StopReceive(h) = [h EXCEPT !.calls = v]
    BY <1>1, <1>3 DEF StopReceive
  <2>2. SamePlaces(h, StopReceive(h)) /\ SameHistory(h, StopReceive(h))
    BY <2>1 DEF HostRecords, SamePlaces, SameHistory
  <2>3. StopReceive(h).calls = v /\ StopReceive(h).failed = h.failed
    BY <2>1 DEF HostRecords
  <2> QED BY <1>1, <2>2, <2>3
<1>4. CASE h.calls \in 1 .. Receivers(h) + 1 /\ h.calls = 1 /\ h.open
  <2>1. PICK n \in Nat : n = h.empties + 1
    BY DEF HostRecords
  <2>2. StopReceive(h) = [h EXCEPT !.calls = 0, !.empties = n]
    BY <1>4, <2>1 DEF StopReceive
  <2>3. SamePlaces(h, StopReceive(h)) /\ SameHistory(h, StopReceive(h))
    BY <2>2 DEF HostRecords, SamePlaces, SameHistory
  <2>4. StopReceive(h).calls = 0 /\ StopReceive(h).failed = h.failed
    BY <2>2 DEF HostRecords
  <2> QED BY <1>4, <2>3, <2>4
<1>5. CASE h.calls \in 1 .. Receivers(h) + 1 /\ h.calls = 1 /\ ~ h.open
  <2>1. StopReceive(h) = [h EXCEPT !.calls = 0, !.failed = "local_loopback_endpoint"]
    BY <1>5 DEF StopReceive, Fail
  <2>2. SamePlaces(h, StopReceive(h)) /\ SameHistory(h, StopReceive(h))
    BY <2>1 DEF HostRecords, SamePlaces, SameHistory
  <2>3. StopReceive(h).calls = 0 /\ StopReceive(h).failed = "local_loopback_endpoint"
    BY <2>1 DEF HostRecords
  <2> QED BY <1>5, <2>2, <2>3 DEF CallFailures
<1> QED BY <1>2, <1>3, <1>4, <1>5
-----------------------------------------------------------------------------
\* Whose an answer is, and that the established know their peer.
Known(h) ==
    /\ \A s \in Sockets : \A i \in DOMAIN h.answers[s] : h.answers[s][i].by = s
    /\ \A a \in h.aborts : a.by \in h.shut
    /\ \A s \in Sockets : h.conn[s] = "established" => h.remote[s] \in Remotes

\* What a packet with the acknowledgement a does to the states of sockets
\* when it is given to s.
Answered(h, k, s, a) ==
    /\ \A t \in Sockets \ {s} : k.conn[t] = h.conn[t] /\ k.remote[t] = h.remote[t]
    /\ \/ k.conn[s] = h.conn[s] /\ k.remote[s] = h.remote[s]
       \/ /\ a # NoAnswer /\ a.by = s
          /\ k.conn[s] = "established" /\ k.remote[s] = a.to

\* The operators of a socket that serve a packet, after it ceased to receive.
Served(h, k, s, a) ==
    /\ h \in HostRecords /\ k \in HostRecords
    /\ k.attached = h.attached /\ k.sockets = h.sockets /\ k.requests = h.requests
    /\ k.lost = h.lost /\ k.shut = h.shut /\ k.aborts = h.aborts
    /\ SameHistory(h, k)
    /\ h.receiving \subseteq k.receiving /\ k.receiving \subseteq h.receiving \union {s}
    /\ s \in k.receiving => s \in h.receiving \/ s \in h.attached
    /\ s \notin k.receiving => k.calls = h.calls
    /\ k.failed \in CallFailures =>
         h.failed \in CallFailures \/ (s \notin h.receiving /\ ~ Fit(h))
    /\ Known(h) => Known(k) /\ Answered(h, k, s, a)

LEMMA ServedTwice ==
    ASSUME NEW h, NEW k, NEW m, NEW s \in Sockets, NEW a,
           Served(h, k, s, a), Served(k, m, s, a)
    PROVE  Served(h, m, s, a)
<1>1. s \notin k.receiving => (Fit(k) <=> Fit(h))
  BY SameFit DEF Served
<1>2. s \notin k.receiving => s \notin h.receiving
  BY DEF Served
<1>3. m.failed \in CallFailures =>
         h.failed \in CallFailures \/ (s \notin h.receiving /\ ~ Fit(h))
  BY <1>1, <1>2 DEF Served
<1>4. Known(h) => Known(m) /\ Answered(h, m, s, a)
  <2>1. Known(h) => Known(m) /\ Answered(h, k, s, a) /\ Answered(k, m, s, a)
    BY DEF Served
  <2> QED BY <2>1 DEF Answered
<1>5. SameHistory(h, m)
  BY DEF Served, SameHistory
<1> QED BY <1>3, <1>4, <1>5 DEF Served

LEMMA InPlaceServes ==
    ASSUME NEW h \in HostRecords, NEW k \in HostRecords, NEW s \in Sockets, NEW a,
           SamePlaces(h, k), SameHistory(h, k), k.calls = h.calls,
           k.failed = h.failed \/ k.failed \notin CallFailures
    PROVE  Served(h, k, s, a)
  BY DEF Served, SamePlaces, Known, Answered

LEMMA IdempotentStartReceiveServes ==
    ASSUME NEW h \in HostRecords, NEW s \in Sockets, NEW a, h.calls >= 1
    PROVE  Served(h, IdempotentStartReceive(h, s), s, a)
<1> DEFINE k == IdempotentStartReceive(h, s)
<1>1. k \in HostRecords
  BY IdempotentStartReceiveMoves DEF Moved
<1>2. CASE s \in h.receiving
  <2>1. k = h
    BY <1>2 DEF IdempotentStartReceive
  <2> QED BY <2>1, InPlaceServes DEF SamePlaces, SameHistory
<1>3. CASE s \notin h.receiving /\ s \notin h.attached
  <2>1. k = Fail(h, "multiplexer")
    BY <1>3 DEF IdempotentStartReceive
  <2>2. /\ SamePlaces(h, k) /\ SameHistory(h, k) /\ k.calls = h.calls
        /\ k.failed = "multiplexer"
    BY <2>1 DEF Fail, HostRecords, SamePlaces, SameHistory
  <2> HIDE DEF k
  <2> QED BY <1>1, <2>2, InPlaceServes DEF k, CallFailures
<1>4. CASE s \notin h.receiving /\ s \in h.attached
  <2>1. PICK v \in SUBSET Sockets : v = h.receiving \union {s}
    BY DEF HostRecords
  <2> DEFINE g == [h EXCEPT !.receiving = v]
  <2>2. k = StartReceive(g)
    BY <1>4, <2>1 DEF IdempotentStartReceive
  <2>3. /\ g \in HostRecords /\ SamePlaces([h EXCEPT !.receiving = v], g)
        /\ g.receiving = v /\ g.attached = h.attached
        /\ g.sockets = h.sockets /\ g.requests = h.requests /\ g.lost = h.lost
        /\ g.shut = h.shut /\ g.conn = h.conn /\ g.remote = h.remote
        /\ g.answers = h.answers /\ g.aborts = h.aborts
        /\ g.flying = h.flying /\ g.calls = h.calls
        /\ g.failed = h.failed /\ SameHistory(h, g)
    BY DEF HostRecords, SamePlaces, SameHistory
  <2> HIDE DEF g
  <2>4. /\ SamePlaces(g, k) /\ SameHistory(g, k)
        /\ k.failed = g.failed \/ (k.failed = "start_receive" /\ ~ Fit(g))
    BY <2>2, <2>3, StartReceiveInPlace
  <2>5. Fit(g) <=> Fit(h)
    BY <2>3, SameFit
  <2> HIDE DEF k
  <2>6. /\ k.receiving = v /\ k.attached = h.attached
        /\ k.sockets = h.sockets /\ k.requests = h.requests /\ k.lost = h.lost
        /\ k.shut = h.shut /\ k.conn = h.conn /\ k.remote = h.remote
        /\ k.answers = h.answers /\ k.aborts = h.aborts
        /\ k.flying = h.flying /\ SameHistory(h, k)
        /\ k.failed \in CallFailures => h.failed \in CallFailures \/ ~ Fit(h)
    BY <2>3, <2>4, <2>5 DEF SamePlaces, SameHistory
  <2>7. k \in HostRecords
    BY <1>1 DEF k
  <2>8. Known(h) => Known(k) /\ Answered(h, k, s, a)
    BY <2>6 DEF Known, Answered
  <2>9. Served(h, k, s, a)
    BY <1>4, <2>1, <2>6, <2>7, <2>8 DEF Served
  <2> QED BY <2>9 DEF k
<1> QED BY <1>2, <1>3, <1>4

LEMMA StartedServes ==
    ASSUME NEW h \in HostRecords, NEW s \in Sockets, NEW a
    PROVE  Served(h, Started(h, s), s, a)
<1> DEFINE k == Started(h, s)
<1>1. k \in HostRecords
  BY StartedUnseen DEF Unseen
<1>2. CASE h.answers[s] # <<>>
  <2>1. h.answers[s] \in Seq(Answers)
    BY DEF HostRecords
  <2>2. PICK c \in Answers : c = Head(h.answers[s])
    BY <2>1, <1>2
  <2>3. k = [h EXCEPT !.flying = @ \union {c}]
    BY <1>2, <2>2 DEF Started
  <2>4. /\ k.attached = h.attached /\ k.receiving = h.receiving
        /\ k.sockets = h.sockets /\ k.requests = h.requests /\ k.lost = h.lost
        /\ k.shut = h.shut /\ k.conn = h.conn /\ k.remote = h.remote
        /\ k.answers = h.answers /\ k.aborts = h.aborts
        /\ k.calls = h.calls /\ k.failed = h.failed /\ SameHistory(h, k)
    BY <2>3 DEF HostRecords, SameHistory
  <2> HIDE DEF k
  <2>5. Known(h) => Known(k) /\ Answered(h, k, s, a)
    BY <2>4 DEF Known, Answered
  <2> QED BY <1>1, <2>4, <2>5 DEF Served, k
<1>3. CASE h.answers[s] = <<>>
  <2>1. k = h
    BY <1>3 DEF Started
  <2> QED BY <2>1, InPlaceServes DEF SamePlaces, SameHistory
<1> QED BY <1>2, <1>3

LEMMA AnswersServe ==
    ASSUME NEW h \in HostRecords, NEW s \in Sockets, NEW q \in Seq(Answers), NEW a,
           Known(h) => \A i \in DOMAIN q : q[i].by = s
    PROVE  Served(h, [h EXCEPT !.answers[s] = q], s, a)
<1> DEFINE k == [h EXCEPT !.answers[s] = q]
<1>1. k \in HostRecords
  BY AnswersUnseen DEF Unseen
<1>2. /\ k.answers = [h.answers EXCEPT ![s] = q]
      /\ k.attached = h.attached /\ k.receiving = h.receiving
      /\ k.sockets = h.sockets /\ k.requests = h.requests /\ k.lost = h.lost
      /\ k.shut = h.shut /\ k.conn = h.conn /\ k.remote = h.remote
      /\ k.aborts = h.aborts /\ k.flying = h.flying
      /\ k.calls = h.calls /\ k.failed = h.failed /\ SameHistory(h, k)
  BY DEF HostRecords, SameHistory
<1> HIDE DEF k
<1>3. h.answers \in [Sockets -> Seq(Answers)]
  BY DEF HostRecords
<1>4. Known(h) => \A t \in Sockets : \A i \in DOMAIN k.answers[t] : k.answers[t][i].by = t
  <2>1. \A t \in Sockets : k.answers[t] = IF t = s THEN q ELSE h.answers[t]
    BY <1>2, <1>3
  <2> QED BY <2>1 DEF Known
<1>5. Known(h) => Known(k) /\ Answered(h, k, s, a)
  BY <1>2, <1>4 DEF Known, Answered
<1> QED BY <1>1, <1>2, <1>5 DEF Served, k

LEMMA SendHandshakeServes ==
    ASSUME NEW h \in HostRecords, NEW s \in Sockets, NEW r \in Remotes,
           h.calls >= 1, h.next <= MaxAnswers, NEW b
    PROVE  Served(h, SendHandshake(h, s, r), s, b)
<1> DEFINE a == [by |-> s, n |-> h.next, to |-> r]
<1>1. a \in Answers /\ h.next + 1 \in Nat \ {0} /\ a.by = s
  BY ReadingAssumption DEF Answers, HostRecords
<1>2. CASE s \notin h.attached
  <2> DEFINE k == Fail(h, "multiplexer")
  <2>1. SendHandshake(h, s, r) = k
    BY <1>2 DEF SendHandshake
  <2>2. k \in HostRecords
    BY SetFailed DEF Failures
  <2>3. /\ SamePlaces(h, k) /\ SameHistory(h, k) /\ k.calls = h.calls
        /\ k.failed = "multiplexer"
    BY DEF Fail, HostRecords, SamePlaces, SameHistory
  <2> HIDE DEF k
  <2> QED BY <2>1, <2>2, <2>3, InPlaceServes DEF CallFailures
<1>3. CASE s \in h.attached
  <2>1. PICK n \in Nat \ {0} : n = h.next + 1
    BY <1>1
  <2> DEFINE h0 == [h EXCEPT !.next = n]
             h1 == IdempotentStartReceive(h0, s)
  <2>2. /\ h0 \in HostRecords /\ SamePlaces(h, h0) /\ SameHistory(h, h0)
        /\ h0.calls = h.calls /\ h0.failed = h.failed
    BY DEF HostRecords, SamePlaces, SameHistory
  <2> HIDE DEF h0
  <2>3. Served(h, h0, s, b) /\ Served(h0, h1, s, b) /\ h1 \in HostRecords
    <3>1. Served(h, h0, s, b)
      BY <2>2, InPlaceServes
    <3>2. Served(h0, h1, s, b)
      BY <2>2, IdempotentStartReceiveServes
    <3> QED BY <3>1, <3>2 DEF Served
  <2> HIDE DEF h1
  <2>4. h1.answers[s] \in Seq(Answers)
    BY <2>3 DEF HostRecords
  <2> HIDE DEF a
  <2>5. PICK q \in Seq(Answers) : q = Append(h1.answers[s], a)
    <3>1. Append(h1.answers[s], a) \in Seq(Answers)
      BY <2>4, <1>1
    <3> QED BY <3>1
  <2> DEFINE h2 == [h1 EXCEPT !.answers[s] = q]
  <2>6. Known(h1) => \A i \in DOMAIN q : q[i].by = s
    <3>1. \A i \in DOMAIN q : q[i] = a \/ (i \in DOMAIN h1.answers[s] /\ q[i] = h1.answers[s][i])
      BY <2>4, <2>5
    <3> QED BY <1>1, <3>1 DEF Known
  <2>7. Served(h1, h2, s, b)
    BY <2>3, <2>6, AnswersServe
  <2>8. SendHandshake(h, s, r) = IF h.answers[s] = <<>> THEN Started(h2, s) ELSE h2
    BY <1>3, <2>1, <2>5 DEF SendHandshake, h1, h0, a
  <2> HIDE DEF h2
  <2>9. Served(h2, Started(h2, s), s, b)
    BY <2>7, StartedServes DEF Served
  <2>10. Served(h, h2, s, b)
    BY <2>3, <2>7, ServedTwice
  <2>11. Served(h, Started(h2, s), s, b)
    BY <2>9, <2>10, ServedTwice
  <2> QED BY <2>8, <2>10, <2>11
<1> QED BY <1>2, <1>3

LEMMA RestartServes ==
    ASSUME NEW h \in HostRecords, NEW s \in Sockets, h.calls >= 1, NEW a
    PROVE  Served(h, RestartIfUnacknowledged(h, s), s, a)
<1>1. Served(h, h, s, a)
  BY InPlaceServes DEF SamePlaces, SameHistory
<1> QED BY <1>1, IdempotentStartReceiveServes DEF RestartIfUnacknowledged

\* Taking one out of a sequence leaves members of it.
LEMMA WithoutMembers ==
    ASSUME NEW S, NEW q \in Seq(S), NEW i \in 1 .. Len(q)
    PROVE  \A j \in 1 .. Len(q) - 1 : Without(q, i)[j] = q[IF j < i THEN j ELSE j + 1]
<1> DEFINE x == SubSeq(q, 1, i - 1)
           y == SubSeq(q, i + 1, Len(q))
<1>1. Len(q) \in Nat
  OBVIOUS
<1>2. x \in Seq(S) /\ Len(x) = i - 1 /\ \A j \in 1 .. i - 1 : x[j] = q[j]
  BY <1>1
<1>3. y \in Seq(S) /\ Len(y) = Len(q) - i /\ \A j \in 1 .. Len(q) - i : y[j] = q[i + j]
  BY <1>1
<1>4. Without(q, i) = x \o y
  BY DEF Without
<1> HIDE DEF x, y
<1> SUFFICES ASSUME NEW j \in 1 .. Len(q) - 1
             PROVE  (x \o y)[j] = q[IF j < i THEN j ELSE j + 1]
  BY <1>4
<1>5. CASE j < i
  BY <1>1, <1>2, <1>3, <1>5
<1>6. CASE j >= i
  <2>1. (x \o y)[j] = y[j - (i - 1)]
    BY <1>1, <1>2, <1>3, <1>6
  <2>2. j - (i - 1) \in 1 .. Len(q) - i /\ i + (j - (i - 1)) = j + 1
    BY <1>1, <1>6
  <2> QED BY <1>3, <1>6, <2>1, <2>2
<1>7. j < i \/ j >= i
  BY <1>1
<1> QED BY <1>5, <1>6, <1>7

LEMMA AnswerHandlerServes ==
    ASSUME NEW h \in HostRecords, NEW a \in Answers, NEW s \in Sockets,
           Known(h) => a.by = s
    PROVE  Served(h, AnswerHandler(h, a, FALSE), s, a)
<1> DEFINE k == AnswerHandler(h, a, FALSE)
<1>1. a.by \in Sockets /\ a.to \in Remotes /\ a # NoAnswer
  BY ReadingAssumption DEF Answers, NoAnswer
<1>2. k \in HostRecords
  BY AnswerHandlerUnseen DEF Unseen
<1>3. k = [h EXCEPT !.conn[a.by] = "established", !.remote[a.by] = a.to]
  BY DEF AnswerHandler
<1>4. /\ k.conn = [h.conn EXCEPT ![a.by] = "established"]
      /\ k.remote = [h.remote EXCEPT ![a.by] = a.to]
      /\ k.attached = h.attached /\ k.receiving = h.receiving
      /\ k.sockets = h.sockets /\ k.requests = h.requests /\ k.lost = h.lost
      /\ k.shut = h.shut /\ k.answers = h.answers
      /\ k.aborts = h.aborts /\ k.flying = h.flying
      /\ k.calls = h.calls /\ k.failed = h.failed /\ SameHistory(h, k)
  BY <1>3 DEF HostRecords, SameHistory
<1>5. DOMAIN h.conn = Sockets /\ DOMAIN h.remote = Sockets
  BY DEF HostRecords
<1> HIDE DEF k
<1>6. /\ \A t \in Sockets : k.conn[t] = IF t = a.by THEN "established" ELSE h.conn[t]
      /\ \A t \in Sockets : k.remote[t] = IF t = a.by THEN a.to ELSE h.remote[t]
  BY <1>4, <1>5
<1>7. Known(h) => Answered(h, k, s, a)
  BY <1>1, <1>6 DEF Answered
<1>8. Known(h) => Known(k)
  BY <1>1, <1>4, <1>6 DEF Known
<1> QED BY <1>2, <1>4, <1>7, <1>8 DEF Served, k

LEMMA ApplyAckServes ==
    ASSUME NEW h \in HostRecords, NEW s \in Sockets, NEW a \in Answers
    PROVE  Served(h, ApplyAck(h, s, a), s, a)
<1>1. CASE \E i \in DOMAIN h.answers[s] : h.answers[s][i] = a
  <2>1. h.answers[s] \in Seq(Answers)
    BY DEF HostRecords
  <2>2. PICK i \in 1 .. Len(h.answers[s]) :
          /\ i = CHOOSE j \in DOMAIN h.answers[s] : h.answers[s][j] = a
          /\ h.answers[s][i] = a /\ i \in DOMAIN h.answers[s]
    BY <1>1, <2>1
  <2>3. PICK q \in Seq(Answers) : q = Without(h.answers[s], i) /\ Len(q) = Len(h.answers[s]) - 1
    BY <2>1, <2>2, WithoutType
  <2>4. Known(h) => a.by = s
    BY <2>1, <2>2 DEF Known
  <2>5. Known(h) => \A j \in DOMAIN q : q[j].by = s
    <3>1. SUFFICES ASSUME Known(h), NEW j \in DOMAIN q
                   PROVE  q[j].by = s
      OBVIOUS
    <3>2. j \in 1 .. Len(h.answers[s]) - 1
      BY <2>3
    <3>3. q[j] = h.answers[s][IF j < i THEN j ELSE j + 1]
      BY <2>1, <2>3, <3>2, WithoutMembers
    <3>4. (IF j < i THEN j ELSE j + 1) \in DOMAIN h.answers[s]
      BY <2>1, <3>2
    <3> QED BY <3>1, <3>3, <3>4 DEF Known
  <2> DEFINE h1 == [h EXCEPT !.answers[s] = q]
             h2 == IF i = 1 THEN Started(h1, s) ELSE h1
  <2>6. ApplyAck(h, s, a) = AnswerHandler(h2, a, FALSE)
    BY <1>1, <2>2, <2>3 DEF ApplyAck
  <2>7. Served(h, h1, s, a)
    BY <2>5, AnswersServe
  <2> HIDE DEF h1
  <2>8. Served(h1, Started(h1, s), s, a)
    BY <2>7, StartedServes DEF Served
  <2>9. Served(h, Started(h1, s), s, a)
    BY <2>7, <2>8, ServedTwice
  <2>10. Served(h, h2, s, a)
    BY <2>7, <2>9
  <2> HIDE DEF h2
  <2>11. CASE Known(h)
    <3>1. Served(h2, AnswerHandler(h2, a, FALSE), s, a)
      BY <1>1, <2>4, <2>10, <2>11, AnswerHandlerServes DEF Served
    <3> QED BY <2>6, <2>10, <3>1, ServedTwice
  <2>12. CASE ~ Known(h)
    <3> DEFINE k == AnswerHandler(h2, a, FALSE)
    <3>1. h2 \in HostRecords /\ k \in HostRecords
      BY <2>10, AnswerHandlerUnseen DEF Served, Unseen
    <3>2. /\ k.attached = h2.attached /\ k.receiving = h2.receiving
          /\ k.sockets = h2.sockets /\ k.requests = h2.requests /\ k.lost = h2.lost
          /\ k.shut = h2.shut /\ k.aborts = h2.aborts
          /\ k.calls = h2.calls /\ k.failed = h2.failed /\ SameHistory(h2, k)
      BY <3>1 DEF AnswerHandler, HostRecords, SameHistory
    <3> HIDE DEF k
    <3>3. Served(h, k, s, a)
      BY <2>10, <2>12, <3>1, <3>2 DEF Served, SameHistory
    <3> QED BY <2>6, <3>3 DEF k
  <2> QED BY <2>11, <2>12
<1>2. CASE ~ \E i \in DOMAIN h.answers[s] : h.answers[s][i] = a
  <2>1. ApplyAck(h, s, a) = h
    BY <1>2 DEF ApplyAck
  <2> QED BY <2>1, InPlaceServes DEF SamePlaces, SameHistory
<1> QED BY <1>1, <1>2

LEMMA ProcessAcknowledgementServes ==
    ASSUME NEW h \in HostRecords, NEW s \in Sockets,
           NEW a \in Answers \union {NoAnswer}, h.calls >= 1
    PROVE  Served(h, ProcessAcknowledgement(h, s, a), s, a)
<1>1. CASE a = NoAnswer \/ h.failed # "no"
  <2>1. ProcessAcknowledgement(h, s, a) = h
    BY <1>1 DEF ProcessAcknowledgement
  <2> QED BY <2>1, InPlaceServes DEF SamePlaces, SameHistory
<1>2. CASE ~ (a = NoAnswer \/ h.failed # "no") /\ h.conn[s] = "closed"
  <2> DEFINE k == Fail(h, "process_acknowledgement")
  <2>1. ProcessAcknowledgement(h, s, a) = k
    BY <1>2 DEF ProcessAcknowledgement
  <2>2. k \in HostRecords
    BY SetFailed DEF Failures
  <2>3. /\ SamePlaces(h, k) /\ SameHistory(h, k) /\ k.calls = h.calls
        /\ k.failed = "process_acknowledgement"
    BY DEF Fail, HostRecords, SamePlaces, SameHistory
  <2> HIDE DEF k
  <2> QED BY <2>1, <2>2, <2>3, InPlaceServes DEF CallFailures
<1>3. CASE ~ (a = NoAnswer \/ h.failed # "no") /\ h.conn[s] # "closed"
  <2> DEFINE h1 == ApplyAck(h, s, a)
  <2>1. ProcessAcknowledgement(h, s, a) = RestartIfUnacknowledged(h1, s)
    BY <1>3 DEF ProcessAcknowledgement
  <2>2. Served(h, h1, s, a) /\ Unseen(h, h1)
    BY <1>3, ApplyAckServes, ApplyAckUnseen
  <2> HIDE DEF h1
  <2>3. Served(h1, RestartIfUnacknowledged(h1, s), s, a)
    BY <2>2, RestartServes DEF Unseen, SameReceives
  <2> QED BY <2>1, <2>2, <2>3, ServedTwice
<1> QED BY <1>1, <1>2, <1>3

\* A packet is served by a socket that does not receive any more.
LEMMA DispatchServes ==
    ASSUME NEW h \in HostRecords, NEW s \in Sockets, NEW d \in Packets,
           h.calls >= 1, d.type = "handshake" => h.next <= MaxAnswers
    PROVE  Served(OnAnyPacketReceived(h, s), Dispatch(h, s, d), s, d.ack)
<1> DEFINE g  == OnAnyPacketReceived(h, s)
           h1 == CASE d.type = "handshake" -> ProcessHandshake(h, s, d.from)
                   [] d.type = "keepalive" -> ProcessKeepalive(h, s, d.expected)
                   [] d.type = "data"      -> ProcessData(h, s, d.expected)
<1>1. /\ d.type \in {"handshake", "keepalive", "data"} /\ d.from \in Remotes
      /\ d.expected \in BOOLEAN /\ d.ack \in Answers \union {NoAnswer}
  BY DEF Packets
<1>2. g \in HostRecords /\ g.calls >= 1 /\ g.next = h.next
  <2>1. g \in HostRecords /\ g.calls >= h.calls
    BY OnAnyPacketReceivedMoves DEF Moved
  <2>2. g.next = h.next
    BY DEF OnAnyPacketReceived, HostRecords
  <2> QED BY <2>1, <2>2, Counting
<1>3. Served(g, g, s, d.ack)
  BY <1>2, InPlaceServes DEF SamePlaces, SameHistory
<1>4. Served(g, h1, s, d.ack)
  <2>1. CASE d.type = "handshake"
    <3>1. h1 = IF h.conn[s] = "listening" THEN SendHandshake(g, s, d.from)
               ELSE Fail(g, "process_handshake")
      BY <2>1 DEF ProcessHandshake
    <3> HIDE DEF g, h1
    <3>2. Served(g, SendHandshake(g, s, d.from), s, d.ack)
      BY <1>1, <1>2, <2>1, SendHandshakeServes
    <3> DEFINE k == Fail(g, "process_handshake")
    <3>3. k \in HostRecords
      BY <1>2, SetFailed DEF Failures
    <3>4. /\ SamePlaces(g, k) /\ SameHistory(g, k) /\ k.calls = g.calls
          /\ k.failed = "process_handshake"
      BY <1>2 DEF Fail, HostRecords, SamePlaces, SameHistory
    <3> HIDE DEF k
    <3>5. Served(g, k, s, d.ack)
      BY <1>2, <3>3, <3>4, InPlaceServes DEF CallFailures
    <3> QED BY <3>1, <3>2, <3>5 DEF k
  <2>2. CASE d.type = "keepalive"
    <3>1. h1 = IF d.expected THEN g ELSE IdempotentStartReceive(g, s)
      BY <2>2 DEF ProcessKeepalive
    <3> HIDE DEF g, h1
    <3>2. Served(g, IdempotentStartReceive(g, s), s, d.ack)
      BY <1>2, IdempotentStartReceiveServes
    <3> QED BY <1>3, <3>1, <3>2
  <2>3. CASE d.type = "data"
    <3> DEFINE g2 == IF s \in h.waiting THEN [g EXCEPT !.waiting = @ \ {s}]
                     ELSE [g EXCEPT !.kept[s] = @ + 1]
    <3>1. h1 = IF d.expected THEN RestartIfUnacknowledged(g2, s)
               ELSE IdempotentStartReceive(g, s)
      BY <2>3 DEF ProcessData
    <3> HIDE DEF g, h1
    <3>2. Served(g, IdempotentStartReceive(g, s), s, d.ack)
      BY <1>2, IdempotentStartReceiveServes
    <3>3. g2 \in HostRecords /\ Served(g, g2, s, d.ack) /\ g2.calls >= 1
      <4>1. PICK v \in SUBSET Sockets : v = g.waiting \ {s}
        BY <1>2 DEF HostRecords
      <4>2. PICK n \in Nat : n = g.kept[s] + 1
        <5>1. g.kept \in [Sockets -> Nat]
          BY <1>2 DEF HostRecords
        <5> QED BY <5>1
      <4>3. PICK x \in HostRecords :
              /\ x = g2 /\ SamePlaces(g, x) /\ SameHistory(g, x)
              /\ x.calls = g.calls /\ x.failed = g.failed
        <5>1. CASE s \in h.waiting
          <6>1. g2 = [g EXCEPT !.waiting = v]
            BY <4>1, <5>1
          <6>2. g2 \in HostRecords
            BY <1>2, <4>1, <6>1, SetUnseen DEF Unseen
          <6>3. /\ SamePlaces(g, g2) /\ SameHistory(g, g2)
                /\ g2.calls = g.calls /\ g2.failed = g.failed
            BY <1>2, <6>1 DEF HostRecords, SamePlaces, SameHistory
          <6> QED BY <6>2, <6>3
        <5>2. CASE s \notin h.waiting
          <6>1. g2 = [g EXCEPT !.kept[s] = n]
            BY <4>2, <5>2
          <6>2. g2 \in HostRecords
            BY <1>2, <6>1, SetUnseen DEF Unseen
          <6>3. /\ SamePlaces(g, g2) /\ SameHistory(g, g2)
                /\ g2.calls = g.calls /\ g2.failed = g.failed
            BY <1>2, <6>1 DEF HostRecords, SamePlaces, SameHistory
          <6> QED BY <6>2, <6>3
        <5> QED BY <5>1, <5>2
      <4> HIDE DEF g2
      <4> QED BY <1>2, <4>3, InPlaceServes
    <3> HIDE DEF g2
    <3>4. Served(g2, RestartIfUnacknowledged(g2, s), s, d.ack)
      BY <3>3, RestartServes
    <3>5. Served(g, RestartIfUnacknowledged(g2, s), s, d.ack)
      BY <3>3, <3>4, ServedTwice
    <3> QED BY <3>1, <3>2, <3>5
  <2> QED BY <1>1, <2>1, <2>2, <2>3
<1>5. Dispatch(h, s, d) = ProcessAcknowledgement(h1, s, d.ack)
  BY DEF Dispatch
<1>6. h1.calls >= 1
  <2>1. CASE d.type = "handshake"
    BY <2>1, <1>1, ProcessHandshakeMoves, Counting DEF Moved
  <2>2. CASE d.type = "keepalive"
    BY <2>2, <1>1, ProcessKeepaliveMoves, Counting DEF Moved
  <2>3. CASE d.type = "data"
    BY <2>3, <1>1, ProcessDataMoves, Counting DEF Moved
  <2> QED BY <1>1, <2>1, <2>2, <2>3
<1> HIDE DEF h1, g
<1>7. Served(h1, ProcessAcknowledgement(h1, s, d.ack), s, d.ack)
  BY <1>1, <1>4, <1>6, ProcessAcknowledgementServes DEF Served
<1>8. Served(g, Dispatch(h, s, d), s, d.ack)
  BY <1>4, <1>5, <1>7, ServedTwice
<1> QED BY <1>8 DEF g

InMap(h, s) == \E r \in Remotes : h.sockets[r] = s
Asked(h, s) == \E i \in DOMAIN h.requests : h.requests[i].socket = s
First(h, s) == h.requests # <<>> /\ Head(h.requests).socket = s

\* Where those are who hold the multiplexer and those who receive.
Place(h) ==
    /\ h.receiving \subseteq h.attached
    /\ \A s \in h.receiving : InMap(h, s) \/ First(h, s) \/ s \in h.lost
    /\ \A s \in h.attached :
         \/ InMap(h, s) \/ Asked(h, s) \/ s \in h.lost
         \/ s \notin h.shut /\ h.conn[s] = "closed"

\* What may make an assertion on receive_calls fail has happened.
Marked(h) == h.stolen \/ h.repeated \/ h.lost # {}

Placed(h) ==
    /\ Known(h)
    /\ h.failed = "no" => Place(h)
    /\ h.failed \in CallFailures => Marked(h)

LEMMA PlacedInPlace ==
    ASSUME NEW h, NEW k, Placed(h), SamePlaces(h, k), Marked(h) => Marked(k),
           k.failed = "no" => h.failed = "no",
           k.failed \in CallFailures => h.failed \in CallFailures \/ Marked(k)
    PROVE  Placed(k)
<1>1. Known(k)
  BY DEF Placed, Known, SamePlaces
<1>2. Place(h) => Place(k)
  BY DEF Place, InMap, Asked, First, SamePlaces
<1> QED BY <1>1, <1>2 DEF Placed

\* Nobody but the first to be accepted receives without an entry, so that
\* the receives fit the bound of the assertions.
LEMMA FewReceive ==
    ASSUME NEW h \in HostRecords, Place(h), Accounted(h, 0), h.failed = "no",
           ~ Marked(h)
    PROVE  /\ Fit(h) /\ h.calls = Counted(h)
           /\ h.calls >= Cardinality(h.receiving) + Len(h.requests)
           /\ Cardinality(h.receiving) \in Nat /\ Len(h.requests) \in Nat
<1>1. h.requests \in Seq(Requests) /\ IsFiniteSet(Entries(h)) /\ Nobody \notin Sockets
  <2>1. IsFiniteSet(Remotes) /\ Entries(h) \subseteq Remotes
    BY ReadingAssumption DEF Entries
  <2>2. IsFiniteSet(Entries(h))
    BY <2>1, FS_Subset
  <2> QED BY <2>2, ReadingAssumption DEF HostRecords
<1> DEFINE S == IF h.requests = <<>> THEN {} ELSE {Head(h.requests).socket}
           R == h.receiving \ S
           f == [t \in R |-> CHOOSE r \in Remotes : h.sockets[r] = t]
<1>2. \A t \in R : f[t] \in Remotes /\ h.sockets[f[t]] = t /\ t # Nobody
  <2>1. TAKE t \in R
  <2>2. InMap(h, t) /\ t \in Sockets
    BY DEF Place, First, Marked, HostRecords
  <2> QED BY <1>1, <2>2 DEF InMap
<1>3. f \in Injection(R, Entries(h))
  <2>1. f \in [R -> Entries(h)]
    BY <1>2 DEF Entries
  <2>2. \A a, b \in R : f[a] = f[b] => a = b
    BY <1>2
  <2> HIDE DEF f, R
  <2> QED BY <2>1, <2>2 DEF Injection, IsInjective
<1>4. IsFiniteSet(R) /\ Cardinality(R) <= Cardinality(Entries(h))
  <2> HIDE DEF f, R
  <2> QED BY <1>1, <1>3, FS_Injection
<1>5. Cardinality(Entries(h)) \in Nat /\ Cardinality(R) \in Nat
  BY <1>1, <1>4, FS_CardinalityType
<1>6. Len(h.requests) \in Nat /\ Cardinality(h.receiving) \in Nat /\ h.calls \in Int
  BY Counting
<1>7. Cardinality(h.receiving) <= Cardinality(R) + 1
  <2>1. CASE h.requests = <<>>
    <3>1. R = h.receiving
      BY <2>1
    <3>2. Cardinality(R) = Cardinality(h.receiving)
      BY <3>1
    <3> HIDE DEF R
    <3> QED BY <1>5, <3>2
  <2>2. CASE h.requests # <<>>
    <3>1. PICK x : x = Head(h.requests).socket
      OBVIOUS
    <3>2. R = h.receiving \ {x} /\ h.receiving \subseteq R \union {x}
      BY <2>2, <3>1
    <3> HIDE DEF R
    <3>3. IsFiniteSet(R \union {x}) /\ Cardinality(R \union {x}) <= Cardinality(R) + 1
      <4>1. IsFiniteSet(R) /\ Cardinality(R) \in Nat
        BY <1>4, <1>5
      <4>2. /\ IsFiniteSet(R \union {x})
            /\ \/ Cardinality(R \union {x}) = Cardinality(R)
               \/ Cardinality(R \union {x}) = Cardinality(R) + 1
        BY <4>1, FS_AddElement
      <4> QED BY <4>1, <4>2
    <3>4. Cardinality(h.receiving) <= Cardinality(R \union {x})
      BY <3>2, <3>3, FS_Subset
    <3>5. Cardinality(R \union {x}) \in Nat
      BY <3>3, FS_CardinalityType
    <3> QED BY <1>5, <1>6, <3>3, <3>4, <3>5
  <2> QED BY <2>1, <2>2
<1>8. h.calls = Counted(h)
  <2>1. ~ h.stolen /\ ~ h.repeated
    BY DEF Marked
  <2>2. Counted(h) <= h.calls + 0 /\ h.calls + 0 <= Counted(h) /\ Counted(h) \in Int
    BY <1>6, <2>1 DEF Accounted, Counted
  <2> QED BY <1>6, <2>2
<1> HIDE DEF R
<1>9. Counted(h) = Cardinality(h.receiving) + Len(h.requests)
      /\ Receivers(h) = Cardinality(Entries(h)) + Len(h.requests)
  BY DEF Counted, Receivers
<1> QED BY <1>4, <1>5, <1>6, <1>7, <1>8, <1>9 DEF Fit

\* The recipient of a packet stays where it is.
LEMMA ServedPlace ==
    ASSUME NEW h \in HostRecords, NEW s \in Sockets, NEW a, NEW m, Known(h), Place(h),
           InMap(h, s) \/ First(h, s), Served(OnAnyPacketReceived(h, s), m, s, a)
    PROVE  /\ Known(m) /\ Place(m) /\ SameHistory(h, m)
           /\ m.requests = h.requests /\ m.sockets = h.sockets /\ m.lost = h.lost
           /\ m.shut = h.shut /\ m.attached = h.attached /\ Answered(h, m, s, a)
           /\ m.failed \in CallFailures => h.failed \in CallFailures \/ ~ Fit(h)
<1> DEFINE g == OnAnyPacketReceived(h, s)
<1>1. /\ g.receiving = h.receiving \ {s} /\ g.attached = h.attached
      /\ g.sockets = h.sockets /\ g.requests = h.requests /\ g.lost = h.lost
      /\ g.shut = h.shut /\ g.conn = h.conn /\ g.remote = h.remote
      /\ g.answers = h.answers /\ g.aborts = h.aborts
      /\ g.flying = h.flying /\ g.calls = h.calls
      /\ g.failed = h.failed /\ SameHistory(h, g)
  BY DEF OnAnyPacketReceived, HostRecords, SameHistory
<1>2. Served(g, m, s, a)
  OBVIOUS
<1> HIDE DEF g
<1>3. Known(g) /\ (Fit(g) <=> Fit(h))
  BY <1>1, SameFit DEF Known
<1>4. Known(m) /\ Answered(h, m, s, a)
  <2>1. Known(m) /\ Answered(g, m, s, a)
    BY <1>2, <1>3 DEF Served
  <2> QED BY <1>1, <2>1 DEF Answered
<1>5. /\ m.requests = h.requests /\ m.sockets = h.sockets /\ m.lost = h.lost
      /\ m.shut = h.shut /\ m.attached = h.attached /\ SameHistory(h, m)
      /\ m.failed \in CallFailures => h.failed \in CallFailures \/ ~ Fit(h)
      /\ m.receiving \subseteq h.receiving \union {s}
      /\ s \in m.receiving => s \in h.attached
  BY <1>1, <1>2, <1>3 DEF Served, SameHistory
<1>6. InMap(m, s) \/ (First(m, s) /\ Asked(m, s))
  <2>1. CASE InMap(h, s)
    BY <1>5, <2>1 DEF InMap
  <2>2. CASE First(h, s)
    <3>1. h.requests \in Seq(Requests) /\ h.requests # <<>>
      BY <2>2 DEF HostRecords, First
    <3>2. 1 \in DOMAIN h.requests /\ Head(h.requests) = h.requests[1]
      BY <3>1
    <3> QED BY <1>5, <2>2, <3>2 DEF First, Asked
  <2> QED BY <2>1, <2>2
<1>7. \A t : /\ InMap(m, t) <=> InMap(h, t)
             /\ First(m, t) <=> First(h, t)
             /\ Asked(m, t) <=> Asked(h, t)
  BY <1>5 DEF InMap, First, Asked
<1>8. m.receiving \subseteq m.attached
  BY <1>5 DEF Place
<1>9. \A t \in m.receiving : InMap(m, t) \/ First(m, t) \/ t \in m.lost
  BY <1>5, <1>6, <1>7 DEF Place
<1>10. \A t \in m.attached :
         \/ InMap(m, t) \/ Asked(m, t) \/ t \in m.lost
         \/ t \notin m.shut /\ m.conn[t] = "closed"
  <2>1. TAKE t \in m.attached
  <2>2. CASE t = s
    BY <1>6, <2>2
  <2>3. CASE t # s
    <3>1. t \in Sockets
      BY <1>5 DEF HostRecords
    <3>2. m.conn[t] = h.conn[t]
      BY <1>4, <2>3, <3>1 DEF Answered
    <3> QED BY <1>5, <1>7, <3>2 DEF Place
  <2> QED BY <2>2, <2>3
<1> QED BY <1>4, <1>5, <1>8, <1>9, <1>10 DEF Place

LEMMA FinishReadInPlace ==
    ASSUME NEW h \in HostRecords
    PROVE  LET k == FinishRead(h)
           IN  SamePlaces(h, k) /\ SameHistory(h, k) /\ k.failed = h.failed
<1>1. PICK v \in Int : v = h.calls - 1
  BY DEF HostRecords
<1> DEFINE g == [h EXCEPT !.calls = v]
<1>2. FinishRead(h) = IF h.failed # "no" \/ h.calls = 1 THEN g ELSE DoStartReceive(g)
  BY <1>1 DEF FinishRead
<1>3. g \in HostRecords /\ SamePlaces(h, g) /\ SameHistory(h, g) /\ g.failed = h.failed
  BY DEF HostRecords, SamePlaces, SameHistory
<1> HIDE DEF g
<1> QED BY <1>2, <1>3, DoStartReceiveInPlace DEF SamePlaces, SameHistory

LEMMA DiscardInPlace ==
    ASSUME NEW h \in HostRecords, NEW then \in {"read", "nothing"}
    PROVE  LET k == Discard(h, then)
           IN  SamePlaces(h, k) /\ SameHistory(h, k) /\ k.failed = h.failed
<1>1. CASE h.inbox = <<>>
  <2>1. Discard(h, then) = [h EXCEPT !.stuck = then]
    BY <1>1 DEF Discard
  <2> QED BY <2>1 DEF HostRecords, SamePlaces, SameHistory
<1>2. CASE h.inbox # <<>>
  <2>1. PICK q \in Seq(Datagrams) : q = Tail(h.inbox)
    <3>1. Tail(h.inbox) \in Seq(Datagrams)
      BY <1>2, HeadTailProperties DEF HostRecords
    <3> QED BY <3>1
  <2> DEFINE g == [h EXCEPT !.inbox = q]
  <2>2. Discard(h, then) = IF then = "read" THEN DoStartReceive(g) ELSE g
    BY <1>2, <2>1 DEF Discard
  <2>3. g \in HostRecords /\ SamePlaces(h, g) /\ SameHistory(h, g) /\ g.failed = h.failed
    BY DEF HostRecords, SamePlaces, SameHistory
  <2> HIDE DEF g
  <2> QED BY <2>2, <2>3, DoStartReceiveInPlace DEF SamePlaces, SameHistory
<1> QED BY <1>1, <1>2

LEMMA ArrivedInPlace ==
    ASSUME NEW h \in HostRecords, NEW d \in Datagrams
    PROVE  LET k == Arrived(h, d)
           IN  SamePlaces(h, k) /\ SameHistory(h, k) /\ k.failed = h.failed
<1> DEFINE g == [h EXCEPT !.stuck = "no"]
<1>1. g \in HostRecords /\ SamePlaces(h, g) /\ SameHistory(h, g) /\ g.failed = h.failed
  BY DEF HostRecords, SamePlaces, SameHistory
<1>2. \/ Arrived(h, d) = h
      \/ Arrived(h, d) = g
      \/ Arrived(h, d) = DoStartReceive(g)
      \/ Arrived(h, d) = [h EXCEPT !.inbox = Append(@, d)]
      \/ Arrived(h, d) = [h EXCEPT !.inbox = Append(@, d), !.from = d.from,
                                   !.ready = @ + h.posted, !.posted = 0]
  BY DEF Arrived
<1>3. CASE Arrived(h, d) = [h EXCEPT !.inbox = Append(@, d)]
  BY <1>3 DEF HostRecords, SamePlaces, SameHistory
<1>4. CASE Arrived(h, d) = [h EXCEPT !.inbox = Append(@, d), !.from = d.from,
                                     !.ready = @ + h.posted, !.posted = 0]
  BY <1>4 DEF HostRecords, SamePlaces, SameHistory
<1>5. CASE Arrived(h, d) = h
  BY <1>5 DEF SamePlaces, SameHistory
<1>6. CASE Arrived(h, d) = g \/ Arrived(h, d) = DoStartReceive(g)
  <2> HIDE DEF g
  <2> QED BY <1>1, <1>6, DoStartReceiveInPlace DEF SamePlaces, SameHistory
<1> QED BY <1>2, <1>3, <1>4, <1>5, <1>6

LEMMA SettledPlaced ==
    ASSUME NEW h \in HostRecords, Placed(h)
    PROVE  Placed(Settled(h))
<1> DEFINE k == Settled(h)
<1>1. \/ k = h
      \/ k = Fail(h, "~multiplexer")
      \/ k = [h EXCEPT !.open = FALSE, !.inbox = <<>>] /\ h.failed = "no"
  BY DEF Settled
<1>2. SamePlaces(h, k) /\ SameHistory(h, k)
  <2> HIDE DEF k
  <2>1. CASE k = h
    BY <2>1 DEF SamePlaces, SameHistory
  <2>2. CASE k = Fail(h, "~multiplexer")
    BY <2>2 DEF Fail, HostRecords, SamePlaces, SameHistory
  <2>3. CASE k = [h EXCEPT !.open = FALSE, !.inbox = <<>>]
    BY <2>3 DEF HostRecords, SamePlaces, SameHistory
  <2> QED BY <1>1, <2>1, <2>2, <2>3
<1>3. k.failed = h.failed \/ k.failed = "~multiplexer"
  BY <1>1 DEF Fail, HostRecords
<1> HIDE DEF k
<1>4. Marked(h) => Marked(k)
  BY <1>2 DEF SamePlaces, SameHistory, Marked
<1>5. Placed(k)
  BY <1>2, <1>3, <1>4, PlacedInPlace DEF CallFailures
<1> QED BY <1>5 DEF k

\* Placed does not speak of the other fields.
LEMMA OthersPlaced ==
    ASSUME NEW h \in HostRecords, NEW k, SamePlaces(h, k), SameHistory(h, k),
           k.failed = h.failed, Placed(h)
    PROVE  Placed(k)
<1>1. Marked(h) => Marked(k)
  BY DEF SamePlaces, SameHistory, Marked
<1> QED BY <1>1, PlacedInPlace

\* The socket of the first request answers, or is established and leaves the
\* requests for the map.
LEMMA EstablishConnectionPlaced ==
    ASSUME NEW h \in HostRecords, NEW d \in Packets,
           h.calls >= 1, d.type = "handshake" => h.next <= MaxAnswers,
           Known(h), Place(h), Fit(h), h.failed = "no"
    PROVE  Placed(EstablishConnection(h, d))
<1> DEFINE s == Head(h.requests).socket
           m == Dispatch(h, s, d)
<1>1. h.requests \in Seq(Requests) /\ Placed(h)
  BY DEF HostRecords, Placed, CallFailures
<1>2. CASE h.requests = <<>> \/ d.type = "data"
  <2> DEFINE k == [h EXCEPT !.stolen = TRUE]
  <2>1. EstablishConnection(h, d) = k
    BY <1>2 DEF EstablishConnection
  <2>2. SamePlaces(h, k) /\ k.stolen /\ k.failed = h.failed
    BY DEF HostRecords, SamePlaces
  <2> HIDE DEF k
  <2> QED BY <1>1, <2>1, <2>2, PlacedInPlace DEF Marked
<1>3. CASE h.requests # <<>> /\ d.type # "data"
  <2>1. Head(h.requests) \in Requests /\ 1 \in DOMAIN h.requests
        /\ Head(h.requests) = h.requests[1]
    BY <1>1, <1>3
  <2>2. s \in Sockets /\ First(h, s)
    BY <1>3, <2>1 DEF Requests, First
  <2>3. EstablishConnection(h, d) =
          LET h2 == [m EXCEPT !.requests = Tail(@), !.calls = @ - 1,
                              !.stolen = @ \/ s \notin h.receiving]
          IN  IF m.failed # "no" THEN m
              ELSE IF m.conn[s] = "established" THEN ProcessAccept(h2, s)
              ELSE [m EXCEPT !.calls = @ + 1, !.repeated = @ \/ s \in h.receiving]
    BY <1>3 DEF EstablishConnection
  <2> HIDE DEF s
  <2>4. Served(OnAnyPacketReceived(h, s), m, s, d.ack)
    BY <2>2, DispatchServes
  <2> HIDE DEF m
  <2>5. /\ Known(m) /\ Place(m) /\ m.failed \notin CallFailures
        /\ m.requests = h.requests /\ m \in HostRecords
    BY <2>2, <2>4, ServedPlace DEF Served, CallFailures
  <2>6. CASE m.failed # "no"
    BY <2>3, <2>5, <2>6 DEF Placed
  <2>7. CASE m.failed = "no" /\ m.conn[s] # "established"
    <3> DEFINE k == [m EXCEPT !.calls = @ + 1, !.repeated = @ \/ s \in h.receiving]
    <3>1. EstablishConnection(h, d) = k
      BY <2>3, <2>7
    <3>2. SamePlaces(m, k) /\ k.failed = m.failed
      BY <2>5 DEF HostRecords, SamePlaces
    <3> HIDE DEF k
    <3>3. Known(k) /\ Place(k)
      BY <2>5, <3>2 DEF SamePlaces, Known, Place, InMap, Asked, First
    <3> QED BY <2>5, <3>1, <3>2, <3>3 DEF Placed
  <2>8. CASE m.failed = "no" /\ m.conn[s] = "established"
    <3> DEFINE g == [m EXCEPT !.requests = Tail(@), !.calls = @ - 1,
                              !.stolen = @ \/ s \notin h.receiving]
               r == m.remote[s]
               k == ProcessAccept(g, s)
    <3>1. EstablishConnection(h, d) = k
      BY <2>3, <2>8
    <3>2. r \in Remotes
      BY <2>2, <2>5, <2>8 DEF Known
    <3>3. /\ k.attached = m.attached /\ k.receiving = m.receiving
          /\ k.requests = Tail(m.requests)
          /\ k.shut = m.shut /\ k.conn = m.conn /\ k.remote = m.remote
          /\ k.answers = m.answers /\ k.aborts = m.aborts
          /\ k.flying = m.flying /\ k.failed = m.failed
          /\ \/ /\ m.sockets[r] = Nobody /\ k.lost = m.lost
                /\ k.sockets = [m.sockets EXCEPT ![r] = s]
             \/ /\ m.sockets[r] # Nobody /\ k.sockets = m.sockets
                /\ k.lost = m.lost \union ({s} \ {m.sockets[r]})
      <4>1. /\ g.attached = m.attached /\ g.receiving = m.receiving
            /\ g.sockets = m.sockets /\ g.requests = Tail(m.requests)
            /\ g.lost = m.lost /\ g.shut = m.shut /\ g.conn = m.conn
            /\ g.remote = m.remote /\ g.answers = m.answers /\ g.aborts = m.aborts
            /\ g.flying = m.flying /\ g.failed = m.failed
            /\ DOMAIN g = DOMAIN m
        BY <2>5 DEF HostRecords
      <4>2. /\ g = [f \in DOMAIN m |-> g[f]]
            /\ {"attached", "receiving", "sockets", "requests", "lost", "shut", "conn",
                "remote", "answers", "aborts", "flying", "failed"} \subseteq DOMAIN m
        BY <2>5 DEF HostRecords
      <4> HIDE DEF g
      <4>3. CASE m.sockets[r] = Nobody
        <5>1. k = [g EXCEPT !.sockets = [m.sockets EXCEPT ![r] = s]]
          BY <4>1, <4>3 DEF ProcessAccept
        <5> QED BY <4>1, <4>2, <4>3, <5>1
      <4>4. CASE m.sockets[r] # Nobody
        <5>1. k = [g EXCEPT !.lost = m.lost \union ({s} \ {m.sockets[r]})]
          BY <4>1, <4>4 DEF ProcessAccept
        <5> QED BY <4>1, <4>2, <4>4, <5>1
      <4> QED BY <4>3, <4>4
    <3> HIDE DEF k, g
    <3>4. m.sockets \in [Remotes -> Sockets \union {Nobody}] /\ Nobody \notin Sockets
      BY <2>5, ReadingAssumption DEF HostRecords
    <3>5. /\ \A u \in Sockets : InMap(m, u) => InMap(k, u)
          /\ InMap(k, s) \/ s \in k.lost
          /\ m.lost \subseteq k.lost
      <4>1. CASE m.sockets[r] = Nobody
        <5>1. /\ \A x \in Remotes \ {r} : k.sockets[x] = m.sockets[x]
              /\ k.sockets[r] = s /\ k.lost = m.lost
          BY <3>2, <3>3, <3>4, <4>1
        <5> QED BY <3>2, <3>4, <4>1, <5>1 DEF InMap
      <4>2. CASE m.sockets[r] # Nobody
        BY <3>2, <3>3, <4>2 DEF InMap
      <4> QED BY <4>1, <4>2
    <3>6. \A u \in Sockets : Asked(m, u) => u = s \/ Asked(k, u)
      <4>1. SUFFICES ASSUME NEW u \in Sockets, NEW i \in DOMAIN m.requests,
                            m.requests[i].socket = u, u # s
                     PROVE  Asked(k, u)
        BY DEF Asked
      <4>2. m.requests \in Seq(Requests) /\ m.requests # <<>> /\ i \in 1 .. Len(m.requests)
        BY <1>1, <1>3, <2>5, <4>1
      <4>3. i # 1
        BY <2>1, <2>5, <4>1 DEF s
      <4>4. i - 1 \in DOMAIN Tail(m.requests) /\ Tail(m.requests)[i - 1] = m.requests[i]
        BY <4>2, <4>3
      <4> QED BY <3>3, <4>1, <4>4 DEF Asked
    <3>7. \A u \in Sockets : First(m, u) => u = s
      BY <2>5 DEF First, s
    <3>8. m.receiving \subseteq Sockets /\ m.attached \subseteq Sockets
      BY <2>5 DEF HostRecords
    <3>9. Place(k)
      <4>1. k.receiving \subseteq k.attached
        BY <2>5, <3>3 DEF Place
      <4>2. \A u \in k.receiving : InMap(k, u) \/ First(k, u) \/ u \in k.lost
        BY <2>5, <3>3, <3>5, <3>7, <3>8 DEF Place
      <4>3. \A u \in k.attached :
              \/ InMap(k, u) \/ Asked(k, u) \/ u \in k.lost
              \/ u \notin k.shut /\ k.conn[u] = "closed"
        <5>1. TAKE u \in k.attached
        <5>2. u \in m.attached /\ u \in Sockets
          BY <3>3, <3>8
        <5>3. CASE u = s
          BY <3>5, <5>3
        <5>4. CASE u # s
          <6>1. \/ InMap(m, u) \/ Asked(m, u) \/ u \in m.lost
                \/ u \notin m.shut /\ m.conn[u] = "closed"
            BY <2>5, <5>2 DEF Place
          <6> QED BY <3>3, <3>5, <3>6, <5>2, <5>4, <6>1
        <5> QED BY <5>3, <5>4
      <4> QED BY <4>1, <4>2, <4>3 DEF Place
    <3>10. Known(k)
      BY <2>5, <3>3 DEF Known
    <3> QED BY <2>5, <3>1, <3>3, <3>9, <3>10 DEF Placed
  <2> QED BY <2>6, <2>7, <2>8
<1> QED BY <1>2, <1>3

LEMMA ProcessPeekPlaced ==
    ASSUME NEW h, Sound(h, 0), Placed(h), h.failed = "no",
           h.inbox # <<>> /\ Head(h.inbox).type = "handshake" => h.next <= MaxAnswers,
           h.ready > 0
    PROVE  Placed(ProcessPeek(h))
<1>1. h \in HostRecords /\ h.ready \in Nat /\ h.inbox \in Seq(Datagrams) /\ Place(h) /\ Known(h)
  BY DEF Sound, HostRecords, Placed
<1>2. PICK v \in Nat : v = h.ready - 1
  BY <1>1
<1> DEFINE h1 == [h EXCEPT !.ready = v]
           d  == Head(h.inbox)
           h2 == [h1 EXCEPT !.inbox = Tail(@)]
           s  == IF h.from = Nobody THEN Nobody ELSE h.sockets[h.from]
           h3 == [h2 EXCEPT !.stolen = @ \/ s \notin h.receiving]
<1>3. ProcessPeek(h) =
        IF ~ h.open THEN h1
        ELSE IF h.calls = 0 THEN Discard(h1, "nothing")
        ELSE IF h.calls \notin 1 .. Receivers(h) + 1 THEN Fail(h1, "process_peek")
        ELSE IF h.inbox = <<>> \/ d.type = "empty" THEN Discard(h1, "read")
        ELSE FinishRead(IF s = Nobody THEN EstablishConnection(h2, d)
                        ELSE Dispatch(h3, s, d))
  BY <1>2 DEF ProcessPeek
<1>4. /\ h1 \in HostRecords /\ SamePlaces(h, h1) /\ SameHistory(h, h1)
      /\ h1.failed = h.failed /\ h1.calls = h.calls /\ h1.inbox = h.inbox
      /\ h1.next = h.next
  BY <1>1 DEF HostRecords, SamePlaces, SameHistory
<1> HIDE DEF h1
<1>5. Placed(h1)
  BY <1>1, <1>4, OthersPlaced
<1>6. CASE ~ h.open
  BY <1>3, <1>5, <1>6
<1>7. CASE h.open /\ h.calls = 0
  <2>1. Placed(Discard(h1, "nothing"))
    BY <1>4, <1>5, DiscardInPlace, OthersPlaced
  <2> QED BY <1>3, <1>7, <2>1
<1>8. CASE h.open /\ h.calls # 0 /\ h.calls \notin 1 .. Receivers(h) + 1
  <2>1. Marked(h)
    <3>1. h.calls \in Int
      BY <1>1, Counting
    <3>2. ~ Fit(h)
      BY <1>8, <3>1 DEF Fit
    <3> QED BY <1>1, <3>2, FewReceive DEF Sound
  <2> DEFINE k == Fail(h1, "process_peek")
  <2>2. SamePlaces(h1, k) /\ SameHistory(h1, k) /\ k.failed = "process_peek"
    BY <1>4 DEF Fail, HostRecords, SamePlaces, SameHistory
  <2> HIDE DEF k
  <2>3. Marked(k)
    BY <1>4, <2>1, <2>2 DEF Marked, SamePlaces, SameHistory
  <2>4. Placed(k)
    BY <1>5, <2>2, <2>3, PlacedInPlace
  <2> QED BY <1>3, <1>8, <2>4 DEF k
<1>9. CASE /\ h.open /\ h.calls # 0 /\ h.calls \in 1 .. Receivers(h) + 1
           /\ h.inbox = <<>> \/ d.type = "empty"
  <2>1. Placed(Discard(h1, "read"))
    BY <1>4, <1>5, DiscardInPlace, OthersPlaced
  <2> QED BY <1>3, <1>9, <2>1
<1>10. CASE /\ h.open /\ h.calls # 0 /\ h.calls \in 1 .. Receivers(h) + 1
            /\ ~ (h.inbox = <<>> \/ d.type = "empty")
  <2>1. d \in Packets
    <3>1. d \in Datagrams
      BY <1>1, <1>10
    <3> QED BY <1>10, <3>1 DEF Datagrams, EmptyPacket
  <2>2. PICK q \in Seq(Datagrams) : q = Tail(h1.inbox)
    <3>1. Tail(h1.inbox) \in Seq(Datagrams)
      BY <1>1, <1>4, <1>10, HeadTailProperties
    <3> QED BY <3>1
  <2>3. h2 = [h1 EXCEPT !.inbox = q]
    BY <2>2
  <2>4. d.type = "handshake" => h.next <= MaxAnswers
    BY <1>10
  <2>5. Fit(h) /\ h.calls >= 1
    <3>1. h.calls \in Int
      BY <1>1, Counting
    <3> QED BY <1>10, <3>1 DEF Fit
  <2>6. /\ h2 \in HostRecords /\ SamePlaces(h1, h2) /\ SameHistory(h1, h2)
        /\ h2.failed = h1.failed /\ h2.calls = h1.calls /\ h2.next = h1.next
    BY <1>4, <2>3 DEF HostRecords, SamePlaces, SameHistory
  <2> HIDE DEF h2
  <2>7. /\ SamePlaces(h, h2) /\ SameHistory(h, h2)
        /\ h2.failed = "no" /\ h2.calls = h.calls /\ h2.next = h.next
    BY <1>4, <2>6 DEF SamePlaces, SameHistory
  <2>8. Accounted(h, 0)
    BY DEF Sound
  <2>9. CASE s = Nobody
    <3> HIDE DEF d, s
    <3>1. Placed(h2) /\ Fit(h2)
      BY <1>1, <2>5, <2>7, OthersPlaced, SameFit DEF SamePlaces
    <3>2. Accounted(h2, 0)
      BY <2>7, <2>8 DEF Accounted, Counted, SamePlaces, SameHistory
    <3> DEFINE k == EstablishConnection(h2, d)
    <3>3. Placed(k)
      BY <2>1, <2>4, <2>5, <2>6, <2>7, <3>1, EstablishConnectionPlaced DEF Placed
    <3>4. k \in HostRecords
      BY <2>1, <2>4, <2>5, <2>6, <2>7, <3>2, EstablishConnectionAccounted
    <3> HIDE DEF k
    <3>5. Placed(FinishRead(k))
      BY <3>3, <3>4, FinishReadInPlace, OthersPlaced
    <3> QED BY <1>3, <1>10, <2>9, <3>5 DEF k, d
  <2>10. CASE s # Nobody
    <3>1. s \in Sockets /\ InMap(h, s)
      BY <1>1, <2>10 DEF HostRecords, InMap
    <3> HIDE DEF s, d
    <3>2. /\ h3 \in HostRecords /\ SamePlaces(h2, h3)
          /\ h3.failed = h2.failed /\ h3.calls = h2.calls /\ h3.next = h2.next
      <4>1. PICK b \in BOOLEAN : b = (h2.stolen \/ s \notin h.receiving)
        <5>1. PICK x \in BOOLEAN : x <=> (h2.stolen \/ s \notin h.receiving)
          OBVIOUS
        <5>2. h2.stolen \in BOOLEAN
          BY <2>6 DEF HostRecords
        <5>3. x = (h2.stolen \/ s \notin h.receiving)
          BY <5>1, <5>2
        <5> QED BY <5>3
      <4>2. h3 = [h2 EXCEPT !.stolen = b]
        BY <4>1
      <4>3. h3 \in HostRecords /\ h3.failed = h2.failed /\ SameReceives(h2, h3)
            /\ h3.next = h2.next
        BY <2>6, <4>2, SetStolen
      <4>4. SamePlaces(h2, h3)
        BY <2>6, <4>2 DEF HostRecords, SamePlaces
      <4> QED BY <4>3, <4>4 DEF SameReceives
    <3> HIDE DEF h3
    <3>3. /\ SamePlaces(h, h3) /\ h3.failed = "no" /\ h3.calls = h.calls
          /\ h3.next = h.next
      BY <2>7, <3>2 DEF SamePlaces
    <3>4. Known(h3) /\ Place(h3) /\ Fit(h3) /\ InMap(h3, s)
      <4>1. Fit(h3)
        BY <2>5, <3>3, SameFit DEF SamePlaces
      <4> QED BY <1>1, <3>1, <3>3, <4>1 DEF SamePlaces, Known, Place, InMap, Asked, First
    <3> DEFINE k == Dispatch(h3, s, d)
    <3>5. Served(OnAnyPacketReceived(h3, s), k, s, d.ack)
      BY <2>1, <2>4, <2>5, <3>1, <3>2, <3>3, DispatchServes
    <3> HIDE DEF k
    <3>6. Known(k) /\ Place(k) /\ k.failed \notin CallFailures /\ k \in HostRecords
      <4>1. "no" \notin CallFailures
        BY DEF CallFailures
      <4> QED BY <3>1, <3>2, <3>3, <3>4, <3>5, <4>1, ServedPlace DEF Served
    <3>7. Placed(k)
      BY <3>6 DEF Placed
    <3>8. Placed(FinishRead(k))
      BY <3>6, <3>7, FinishReadInPlace, OthersPlaced
    <3> QED BY <1>3, <1>10, <2>10, <3>8 DEF k, d
  <2> QED BY <2>9, <2>10
<1> QED BY <1>6, <1>7, <1>8, <1>9, <1>10
-----------------------------------------------------------------------------
LEMMA StopReceiveTyped ==
    ASSUME NEW h \in HostRecords
    PROVE  StopReceive(h) \in HostRecords
<1>1. PICK v \in Int, z \in Int, n \in Nat : v = h.calls - 1 /\ z = 0 /\ n = h.empties + 1
  <2>1. h.calls \in Int /\ h.empties \in Nat
    BY DEF HostRecords
  <2>2. h.calls - 1 \in Int /\ 0 \in Int /\ h.empties + 1 \in Nat
    BY <2>1
  <2> QED BY <2>2
<1>2. \/ StopReceive(h) = Fail(h, "stop_receive")
      \/ StopReceive(h) = [h EXCEPT !.calls = v]
      \/ StopReceive(h) = [h EXCEPT !.calls = z, !.empties = n]
      \/ StopReceive(h) = Fail([h EXCEPT !.calls = z], "local_loopback_endpoint")
  BY <1>1 DEF StopReceive
<1>3. [h EXCEPT !.calls = v] \in HostRecords /\ [h EXCEPT !.calls = z] \in HostRecords
  BY SetCalls
<1>4. [h EXCEPT !.calls = z, !.empties = n] \in HostRecords
  BY DEF HostRecords
<1>5. /\ Fail(h, "stop_receive") \in HostRecords
      /\ Fail([h EXCEPT !.calls = z], "local_loopback_endpoint") \in HostRecords
  BY <1>3, SetFailed DEF Failures
<1> QED BY <1>2, <1>3, <1>4, <1>5

\* Removing a socket from the map leaves the others where they are, but for
\* the one whose entry it takes.
LEMMA RemoveInPlace ==
    ASSUME NEW h \in HostRecords, NEW s \in Sockets
    PROVE  LET k == Remove(h, s)
           IN  /\ k.sockets = [r \in Remotes |-> IF r = h.remote[s] THEN Nobody ELSE h.sockets[r]]
               /\ k.attached = h.attached \ {s}
               /\ k.lost = h.lost \union (EntryOf(h, s) \ {s, Nobody})
               /\ k.receiving = h.receiving /\ k.requests = h.requests
               /\ k.shut = h.shut /\ k.conn = h.conn /\ k.remote = h.remote
               /\ k.answers = h.answers /\ k.aborts = h.aborts
               /\ k.flying = h.flying /\ SameHistory(h, k)
               /\ k.failed = h.failed
<1> DEFINE left == [r \in Remotes |-> IF r = h.remote[s] THEN Nobody ELSE h.sockets[r]]
           e == h.lost \union (EntryOf(h, s) \ {s, Nobody})
           g == [h EXCEPT !.sockets = left, !.attached = @ \ {s}, !.lost = e]
           k == Remove(h, s)
<1>1. \/ k = g
      \/ k = [g EXCEPT !.open = FALSE, !.inbox = <<>>, !.empties = 0,
                       !.ready = @ + h.posted, !.posted = 0]
  BY DEF Remove
<1> HIDE DEF left, e
<1>2. /\ g.sockets = left /\ g.attached = h.attached \ {s} /\ g.lost = e
      /\ g.receiving = h.receiving /\ g.requests = h.requests
      /\ g.shut = h.shut /\ g.conn = h.conn /\ g.remote = h.remote
      /\ g.answers = h.answers /\ g.aborts = h.aborts
      /\ g.flying = h.flying /\ SameHistory(h, g)
      /\ g.failed = h.failed
  BY DEF HostRecords, SameHistory
<1>3. g = [f \in DOMAIN h |-> g[f]]
  BY DEF HostRecords
<1>4. {"attached", "receiving", "sockets", "requests", "lost", "shut", "conn",
       "remote", "answers", "aborts", "flying", "failed", "stolen", "repeated"}
        \subseteq DOMAIN h
  BY DEF HostRecords
<1> HIDE DEF g, k
<1>5. SamePlaces(g, k) /\ SameHistory(g, k) /\ k.failed = g.failed
  <2>1. CASE k = g
    BY <2>1 DEF SamePlaces, SameHistory
  <2>2. CASE k = [g EXCEPT !.open = FALSE, !.inbox = <<>>, !.empties = 0,
                           !.ready = @ + h.posted, !.posted = 0]
    BY <1>3, <1>4, <2>2 DEF SamePlaces, SameHistory
  <2> QED BY <1>1, <2>1, <2>2
<1> QED BY <1>2, <1>5 DEF SamePlaces, SameHistory, left, e, k

\* A socket that is closed is gone; stop_receive is content with a count that
\* includes its receive.
LEMMA ClosePlaced ==
    ASSUME NEW h \in HostRecords, NEW s \in Sockets, Known(h), Place(h), h.failed = "no",
           s \in h.receiving => Marked(h) \/ h.calls \in 1 .. Receivers(h) + 1
    PROVE  LET k == Close(h, s)
           IN  /\ Placed(k) /\ SameHistory(h, k) /\ k.requests = h.requests
               /\ Marked(h) => Marked(k)
               /\ k.failed = "no" => s \notin k.attached
<1>1. h.answers[s] \in Seq(Answers)
  BY DEF HostRecords
<1>2. PICK sh \in SUBSET Sockets, w \in SUBSET Sockets :
        sh = h.shut \union {s} /\ w = h.waiting \ {s}
  BY DEF HostRecords
<1>3. PICK ab \in SUBSET Answers : ab = h.aborts \union Queued(h, s)
  <2>1. \A i \in DOMAIN h.answers[s] : h.answers[s][i] \in Answers
    BY <1>1
  <2>2. Queued(h, s) \in SUBSET Answers
    BY <2>1 DEF Queued
  <2>3. h.aborts \in SUBSET Answers
    BY DEF HostRecords
  <2> QED BY <2>2, <2>3
<1>6. PICK q \in Seq(Answers) : q = <<>>
  <2>1. <<>> \in Seq(Answers)
    BY EmptySeq
  <2> QED BY <2>1
<1> DEFINE g1 == [h EXCEPT !.shut = sh, !.aborts = ab]
           h1 == [g1 EXCEPT !.answers[s] = q, !.waiting = w]
           h2 == IdempotentStopReceive(h1, s)
<1>7. /\ g1 \in HostRecords
      /\ g1.attached = h.attached /\ g1.receiving = h.receiving
      /\ g1.sockets = h.sockets /\ g1.requests = h.requests /\ g1.lost = h.lost
      /\ g1.shut = sh /\ g1.conn = h.conn /\ g1.remote = h.remote
      /\ g1.answers = h.answers /\ g1.aborts = ab
      /\ g1.calls = h.calls /\ g1.failed = h.failed /\ SameHistory(h, g1)
  BY DEF HostRecords, SameHistory
<1>8. Close(h, s) =
        IF s \notin h.attached THEN h
        ELSE IF ~ h.open THEN Fail(h1, "local_endpoint")
        ELSE IF h2.failed # "no" THEN h2 ELSE Remove(h2, s)
  BY <1>2, <1>3, <1>6 DEF Close
<1> HIDE DEF g1
<1>9. /\ h1 \in HostRecords
      /\ h1.attached = h.attached /\ h1.receiving = h.receiving
      /\ h1.sockets = h.sockets /\ h1.requests = h.requests /\ h1.lost = h.lost
      /\ h1.shut = sh /\ h1.conn = h.conn /\ h1.remote = h.remote
      /\ h1.answers = [h.answers EXCEPT ![s] = q] /\ h1.aborts = ab
      /\ h1.calls = h.calls /\ h1.failed = h.failed /\ SameHistory(h, h1)
  <2>1. h1 \in HostRecords
    BY <1>7 DEF HostRecords
  <2>2. /\ h1.attached = g1.attached /\ h1.receiving = g1.receiving
        /\ h1.sockets = g1.sockets /\ h1.requests = g1.requests /\ h1.lost = g1.lost
        /\ h1.shut = g1.shut /\ h1.conn = g1.conn /\ h1.remote = g1.remote
        /\ h1.answers = [g1.answers EXCEPT ![s] = q] /\ h1.aborts = g1.aborts
        /\ h1.calls = g1.calls /\ h1.failed = g1.failed /\ SameHistory(g1, h1)
    BY <1>7 DEF HostRecords, SameHistory
  <2> HIDE DEF h1
  <2> QED BY <1>7, <2>1, <2>2 DEF SameHistory
<1> HIDE DEF h1
<1>10. Known(h1)
  <2>1. \A t \in Sockets : \A i \in DOMAIN h1.answers[t] : h1.answers[t][i].by = t
    <3>1. h.answers \in [Sockets -> Seq(Answers)]
      BY DEF HostRecords
    <3>2. \A t \in Sockets : h1.answers[t] = IF t = s THEN <<>> ELSE h.answers[t]
      BY <1>6, <1>9, <3>1
    <3> QED BY <3>2 DEF Known
  <2>2. \A a \in ab : a.by \in sh
    <3>1. \A a \in Queued(h, s) : a.by = s
      BY DEF Known, Queued
    <3> QED BY <1>2, <1>3, <3>1 DEF Known
  <2> QED BY <1>9, <2>1, <2>2 DEF Known
<1>11. /\ h2.receiving = h.receiving \ {s} /\ h2.attached = h.attached
       /\ h2.sockets = h.sockets /\ h2.requests = h.requests /\ h2.lost = h.lost
       /\ h2.shut = sh /\ h2.conn = h.conn /\ h2.remote = h.remote
       /\ Known(h2) /\ SameHistory(h, h2)
       /\ h2.failed \in CallFailures => Marked(h)
  <2>1. CASE s \notin h.receiving
    <3>1. h2 = h1
      BY <1>9, <2>1 DEF IdempotentStopReceive
    <3>2. "no" \notin CallFailures
      BY DEF CallFailures
    <3> HIDE DEF h2
    <3> QED BY <1>9, <1>10, <2>1, <3>1, <3>2
  <2>2. CASE s \in h.receiving
    <3>1. PICK v \in SUBSET Sockets : v = h1.receiving \ {s}
      BY <1>9 DEF HostRecords
    <3> DEFINE g == [h1 EXCEPT !.receiving = v]
    <3>2. h2 = StopReceive(g)
      BY <1>9, <2>2, <3>1 DEF IdempotentStopReceive
    <3>3. /\ g \in HostRecords /\ g.receiving = v /\ g.attached = h1.attached
          /\ g.sockets = h1.sockets /\ g.requests = h1.requests /\ g.lost = h1.lost
          /\ g.shut = h1.shut /\ g.conn = h1.conn /\ g.remote = h1.remote
          /\ g.answers = h1.answers /\ g.aborts = h1.aborts
          /\ g.flying = h1.flying
          /\ g.calls = h1.calls /\ g.failed = h1.failed /\ SameHistory(h1, g)
      BY <1>9 DEF HostRecords, SameHistory
    <3> HIDE DEF g
    <3>4. /\ SamePlaces(g, h2) /\ SameHistory(g, h2)
          /\ \/ h2.failed = g.failed \/ h2.failed \notin CallFailures
             \/ g.calls \notin 1 .. Receivers(g) + 1
      BY <3>2, <3>3, StopReceiveInPlace
    <3>5. Receivers(g) = Receivers(h) /\ g.calls = h.calls
      BY <1>9, <3>3, SameFit
    <3>6. g.failed \notin CallFailures
      BY <1>9, <3>3 DEF CallFailures
    <3> HIDE DEF h2
    <3>7. h2.failed \in CallFailures => Marked(h)
      BY <2>2, <3>4, <3>5, <3>6
    <3>8. Known(h2)
      BY <1>10, <3>3, <3>4 DEF Known, SamePlaces
    <3> QED BY <1>9, <3>1, <3>3, <3>4, <3>7, <3>8 DEF SamePlaces, SameHistory
  <2> QED BY <2>1, <2>2
<1>12. h2 \in HostRecords
  <2>1. PICK v \in SUBSET Sockets : v = h1.receiving \ {s}
    BY <1>9 DEF HostRecords
  <2>2. [h1 EXCEPT !.receiving = v] \in HostRecords
    BY <1>9, SetReceiving
  <2>3. StopReceive([h1 EXCEPT !.receiving = v]) \in HostRecords
    BY <2>2, StopReceiveTyped
  <2> QED BY <1>9, <2>1, <2>3 DEF IdempotentStopReceive
<1> HIDE DEF h2
<1>13. CASE s \notin h.attached
  <2>1. Close(h, s) = h
    BY <1>8, <1>13
  <2> QED BY <1>13, <2>1 DEF Placed, SameHistory, CallFailures
<1>14. CASE s \in h.attached /\ ~ h.open
  <2> DEFINE k == Fail(h1, "local_endpoint")
  <2>1. Close(h, s) = k
    BY <1>8, <1>14
  <2>2. SamePlaces(h1, k) /\ SameHistory(h1, k) /\ k.failed = "local_endpoint"
    BY <1>9 DEF Fail, HostRecords, SamePlaces, SameHistory
  <2> HIDE DEF k
  <2>3. Known(k) /\ SameHistory(h, k) /\ k.requests = h.requests /\ k.lost = h.lost
    BY <1>9, <1>10, <2>2 DEF Known, SamePlaces, SameHistory
  <2> QED BY <2>1, <2>2, <2>3 DEF Placed, CallFailures, Marked, SameHistory
<1>15. CASE s \in h.attached /\ h.open /\ h2.failed # "no"
  <2>1. Close(h, s) = h2
    BY <1>8, <1>15
  <2>2. Marked(h) => Marked(h2)
    BY <1>11 DEF Marked, SameHistory
  <2> QED BY <1>11, <1>15, <2>1, <2>2 DEF Placed
<1>16. CASE s \in h.attached /\ h.open /\ h2.failed = "no"
  <2> DEFINE k == Remove(h2, s)
  <2>1. Close(h, s) = k
    BY <1>8, <1>16
  <2>2. /\ k.sockets = [r \in Remotes |-> IF r = h2.remote[s] THEN Nobody ELSE h2.sockets[r]]
        /\ k.attached = h2.attached \ {s}
        /\ k.lost = h2.lost \union (EntryOf(h2, s) \ {s, Nobody})
        /\ k.receiving = h2.receiving /\ k.requests = h2.requests
        /\ k.shut = h2.shut /\ k.conn = h2.conn /\ k.remote = h2.remote
        /\ k.answers = h2.answers /\ k.aborts = h2.aborts
        /\ k.flying = h2.flying /\ SameHistory(h2, k)
        /\ k.failed = h2.failed
    BY <1>12, RemoveInPlace
  <2> HIDE DEF k
  <2>3. Known(k)
    BY <1>11, <2>2 DEF Known
  <2>4. /\ k.receiving = h.receiving \ {s} /\ k.attached = h.attached \ {s}
        /\ h.lost \subseteq k.lost /\ k.requests = h.requests
        /\ k.shut = h.shut \union {s} /\ k.conn = h.conn /\ SameHistory(h, k)
    BY <1>2, <1>11, <2>2 DEF SameHistory
  <2>5. \A t \in Sockets \ {s} : InMap(h, t) => InMap(k, t) \/ t \in k.lost
    <3>1. SUFFICES ASSUME NEW t \in Sockets \ {s}, NEW r \in Remotes, h.sockets[r] = t,
                          t \notin k.lost
                   PROVE  InMap(k, t)
      BY DEF InMap
    <3>2. t # Nobody
      BY ReadingAssumption
    <3>3. r # h2.remote[s]
      BY <1>11, <2>2, <3>1, <3>2 DEF EntryOf
    <3>4. k.sockets[r] = t
      BY <1>11, <2>2, <3>1, <3>3
    <3> QED BY <3>4 DEF InMap
  <2>6. Place(k)
    <3>1. h.attached \subseteq Sockets /\ h.receiving \subseteq h.attached
      BY DEF HostRecords, Place
    <3>2. \A t : (First(k, t) <=> First(h, t)) /\ (Asked(k, t) <=> Asked(h, t))
      BY <2>4 DEF First, Asked
    <3>3. \A t \in k.receiving : InMap(k, t) \/ First(k, t) \/ t \in k.lost
      BY <2>4, <2>5, <3>1, <3>2 DEF Place
    <3>4. \A t \in k.attached :
            \/ InMap(k, t) \/ Asked(k, t) \/ t \in k.lost
            \/ t \notin k.shut /\ k.conn[t] = "closed"
      BY <2>4, <2>5, <3>1, <3>2 DEF Place
    <3> QED BY <2>4, <3>1, <3>3, <3>4 DEF Place
  <2>7. k.failed = "no" /\ (Marked(h) => Marked(k))
    BY <1>16, <2>2, <2>4 DEF Marked, SameHistory
  <2> QED BY <2>1, <2>3, <2>4, <2>6, <2>7 DEF Placed, CallFailures
<1> QED BY <1>13, <1>14, <1>15, <1>16

LEMMA ReceiversType ==
    ASSUME NEW h \in HostRecords
    PROVE  Receivers(h) \in Nat
<1>1. IsFiniteSet(Entries(h))
  <2>1. IsFiniteSet(Remotes) /\ Entries(h) \subseteq Remotes
    BY ReadingAssumption DEF Entries
  <2> QED BY <2>1, FS_Subset
<1>2. Cardinality(Entries(h)) \in Nat /\ Len(h.requests) \in Nat
  BY <1>1, FS_CardinalityType, Counting
<1> QED BY <1>2 DEF Receivers

LEMMA DisableRequestPlaced ==
    ASSUME NEW h, Sound(h, 0), Placed(h), h.failed = "no", NEW i \in DOMAIN h.requests
    PROVE  Placed(DisableRequest(h, i))
<1> DEFINE s  == h.requests[i].socket
           h1 == StopReceive(h)
           h2 == Close(h1, s)
           k  == [h2 EXCEPT !.requests = Without(@, i)]
<1>1. h \in HostRecords /\ h.requests \in Seq(Requests) /\ i \in 1 .. Len(h.requests)
  BY DEF Sound, HostRecords
<1>2. s \in Sockets
  <2>1. h.requests[i] \in Requests
    BY <1>1
  <2> QED BY <2>1 DEF Requests
<1>3. DisableRequest(h, i) =
        IF h1.failed # "no" THEN h1 ELSE IF h2.failed # "no" THEN h2 ELSE k
  BY DEF DisableRequest
<1>4. /\ h1 \in HostRecords /\ SamePlaces(h, h1) /\ SameHistory(h, h1)
      /\ \/ /\ h1.failed = h.failed \/ h1.failed \notin CallFailures
            /\ h1.calls = h.calls - 1
         \/ h1.failed = "stop_receive" /\ h.calls \notin 1 .. Receivers(h) + 1
  BY <1>1, StopReceiveTyped, StopReceiveInPlace
<1> HIDE DEF h1
<1>5. Known(h1) /\ Place(h1) /\ (Marked(h) <=> Marked(h1))
  BY <1>4 DEF Placed, Known, Place, InMap, Asked, First, Marked, SamePlaces, SameHistory
<1>6. ~ Marked(h) =>
        /\ h.calls \in 0 .. Receivers(h) + 1
        /\ h.calls >= Cardinality(h.receiving) + Len(h.requests)
        /\ Cardinality(h.receiving) \in Nat /\ Len(h.requests) \in Nat
        /\ Len(h.requests) >= 1
  BY <1>1, FewReceive DEF Sound, Placed, Fit
<1>7. ~ Marked(h) => h.calls \in 1 .. Receivers(h) + 1
  BY <1>6
<1>8. CASE h1.failed # "no"
  <2>1. h1.failed \in CallFailures => Marked(h1)
    <3>1. h.failed \notin CallFailures
      BY DEF CallFailures
    <3> QED BY <1>4, <1>5, <1>7, <3>1
  <2> QED BY <1>3, <1>5, <1>8, <2>1 DEF Placed
<1>9. CASE h1.failed = "no"
  <2>1. s \in h1.receiving => Marked(h1) \/ h1.calls \in 1 .. Receivers(h1) + 1
    <3>1. SUFFICES ASSUME s \in h.receiving, ~ Marked(h)
                   PROVE  h1.calls \in 1 .. Receivers(h1) + 1
      BY <1>4, <1>5 DEF SamePlaces
    <3>2. Receivers(h1) = Receivers(h) /\ Receivers(h) \in Nat
      BY <1>1, <1>4, ReceiversType DEF Receivers, Entries, SamePlaces
    <3>3. Cardinality(h.receiving) >= 1
      <4>1. IsFiniteSet(h.receiving) /\ h.receiving # {}
        BY <1>1, <3>1, Counting
      <4>2. Cardinality(h.receiving) # 0
        BY <4>1, FS_EmptySet
      <4> QED BY <1>6, <3>1, <4>2
    <3>4. h1.calls = h.calls - 1
      BY <1>4, <1>9
    <3>5. h.calls \in 2 .. Receivers(h) + 1
      BY <1>6, <3>1, <3>3
    <3> QED BY <3>2, <3>4, <3>5
  <2>2. /\ Placed(h2) /\ h2.requests = h.requests /\ (h2.failed = "no" => s \notin h2.attached)
        /\ h2 \in HostRecords
    <3>1. Placed(h2) /\ h2.requests = h1.requests /\ (h2.failed = "no" => s \notin h2.attached)
      BY <1>2, <1>4, <1>5, <1>9, <2>1, ClosePlaced
    <3>2. Sound(h1, 1)
      <4>1. Sound(StopReceive(h), 0 + 1)
        BY StopReceiveSound
      <4> QED BY <4>1 DEF h1
    <3>3. Sound(h2, 1)
      BY <1>2, <1>9, <3>2, CloseSound
    <3> QED BY <1>4, <3>1, <3>3 DEF SamePlaces, Sound
  <2> HIDE DEF h2
  <2>3. CASE h2.failed # "no"
    BY <1>3, <1>9, <2>2, <2>3
  <2>4. CASE h2.failed = "no"
    <3>1. DisableRequest(h, i) = k
      BY <1>3, <1>9, <2>4
    <3>2. /\ k.requests = Without(h.requests, i)
          /\ k.attached = h2.attached /\ k.receiving = h2.receiving
          /\ k.sockets = h2.sockets /\ k.lost = h2.lost
          /\ k.shut = h2.shut /\ k.conn = h2.conn /\ k.remote = h2.remote
          /\ k.answers = h2.answers /\ k.aborts = h2.aborts
          /\ k.flying = h2.flying /\ k.failed = h2.failed
      BY <2>2 DEF HostRecords
    <3> HIDE DEF k
    <3>3. /\ Without(h.requests, i) \in Seq(Requests)
          /\ Len(Without(h.requests, i)) = Len(h.requests) - 1
          /\ \A j \in 1 .. Len(h.requests) - 1 :
               Without(h.requests, i)[j] = h.requests[IF j < i THEN j ELSE j + 1]
      BY <1>1, WithoutType, WithoutMembers
    <3>4. \A t \in Sockets : Asked(h2, t) => t = s \/ Asked(k, t)
      <4>1. SUFFICES ASSUME NEW t \in Sockets, NEW j \in DOMAIN h.requests,
                            h.requests[j].socket = t, t # s
                     PROVE  Asked(k, t)
        BY <2>2 DEF Asked
      <4>2. j \in 1 .. Len(h.requests) /\ j # i
        BY <1>1, <4>1
      <4>3. PICK x \in 1 .. Len(h.requests) - 1 : j = IF x < i THEN x ELSE x + 1
        <5>1. CASE j < i
          BY <1>1, <4>2, <5>1
        <5>2. CASE j > i
          <6>1. j - 1 \in 1 .. Len(h.requests) - 1 /\ ~ (j - 1 < i) /\ j = (j - 1) + 1
            BY <1>1, <4>2, <5>2
          <6> QED BY <6>1
        <5> QED BY <1>1, <4>2, <5>1, <5>2
      <4>4. x \in DOMAIN k.requests /\ k.requests[x] = h.requests[j]
        BY <1>1, <3>2, <3>3, <4>3
      <4> QED BY <4>1, <4>4 DEF Asked
    <3>5. \A t \in Sockets : First(h2, t) => t = s \/ First(k, t)
      <4>1. SUFFICES ASSUME NEW t \in Sockets, First(h2, t), t # s
                     PROVE  First(k, t)
        OBVIOUS
      <4>2. Head(h.requests).socket = t /\ Head(h.requests) = h.requests[1]
        BY <1>1, <2>2, <4>1 DEF First
      <4>3. i # 1
        BY <4>1, <4>2
      <4>4. /\ 1 \in 1 .. Len(h.requests) - 1 /\ 1 < i
            /\ Without(h.requests, i)[1] = h.requests[1]
        BY <1>1, <3>3, <4>3
      <4>5. k.requests # <<>> /\ Head(k.requests) = h.requests[1]
        BY <3>2, <3>3, <4>4
      <4> QED BY <4>2, <4>5 DEF First
    <3>6. Place(h2) /\ Known(h2) /\ s \notin h2.attached
          /\ h2.attached \subseteq Sockets /\ h2.receiving \subseteq h2.attached
      BY <2>2, <2>4 DEF Placed, Place, HostRecords
    <3>7. \A t : InMap(h2, t) <=> InMap(k, t)
      BY <3>2 DEF InMap
    <3>8. Place(k)
      <4>1. \A t \in k.receiving : InMap(k, t) \/ First(k, t) \/ t \in k.lost
        BY <3>2, <3>5, <3>6, <3>7 DEF Place
      <4>2. \A t \in k.attached :
              \/ InMap(k, t) \/ Asked(k, t) \/ t \in k.lost
              \/ t \notin k.shut /\ k.conn[t] = "closed"
        BY <3>2, <3>4, <3>6, <3>7 DEF Place
      <4> QED BY <3>2, <3>6, <4>1, <4>2 DEF Place
    <3>9. Known(k)
      BY <3>2, <3>6 DEF Known
    <3> QED BY <2>4, <3>1, <3>2, <3>8, <3>9 DEF Placed, CallFailures
  <2> QED BY <2>3, <2>4
<1> QED BY <1>8, <1>9

LEMMA AsyncAcceptPlaced ==
    ASSUME NEW h, NEW a \in Acceptors, NEW s \in Sockets, Sound(h, 0), Placed(h),
           h.failed = "no"
    PROVE  Placed(AsyncAccept(h, a, s))
<1> DEFINE r == [acceptor |-> a, socket |-> s]
           g == [h EXCEPT !.conn[s] = "listening", !.attached = @ \union {s},
                          !.requests = Append(@, r)]
           k == StartReceive(g)
<1>1. /\ h \in HostRecords /\ h.requests \in Seq(Requests) /\ r \in Requests
      /\ r.socket = s /\ Place(h) /\ Known(h)
  BY DEF Sound, HostRecords, Requests, Placed
<1>2. AsyncAccept(h, a, s) = k
  BY DEF AsyncAccept
<1> HIDE DEF r
<1>3. PICK q \in Seq(Requests) :
        /\ q = Append(h.requests, r) /\ Len(q) = Len(h.requests) + 1
        /\ q[Len(q)] = r /\ \A i \in 1 .. Len(h.requests) : q[i] = h.requests[i]
  <2>1. Append(h.requests, r) \in Seq(Requests)
    BY <1>1
  <2>2. Len(Append(h.requests, r)) = Len(h.requests) + 1
    BY <1>1
  <2>3. Append(h.requests, r)[Len(h.requests) + 1] = r
    BY <1>1
  <2>4. \A i \in 1 .. Len(h.requests) : Append(h.requests, r)[i] = h.requests[i]
    BY <1>1
  <2> QED BY <2>1, <2>2, <2>3, <2>4
<1>4. PICK v \in SUBSET Sockets : v = h.attached \union {s}
  BY <1>1 DEF HostRecords
<1>5. g = [h EXCEPT !.conn[s] = "listening", !.attached = v, !.requests = q]
  BY <1>3, <1>4
<1> HIDE DEF g
<1>6. /\ g \in HostRecords
      /\ g.conn = [h.conn EXCEPT ![s] = "listening"] /\ g.attached = v
      /\ g.requests = q /\ g.receiving = h.receiving
      /\ g.sockets = h.sockets /\ g.lost = h.lost
      /\ g.shut = h.shut /\ g.remote = h.remote
      /\ g.answers = h.answers /\ g.aborts = h.aborts
      /\ g.flying = h.flying
      /\ g.calls = h.calls /\ g.failed = h.failed /\ SameHistory(h, g)
  <2>1. g \in HostRecords
    <3>1. PICK c \in [Sockets -> Connectivity] : c = [h.conn EXCEPT ![s] = "listening"]
      BY <1>1 DEF HostRecords, Connectivity
    <3>2. g = [h EXCEPT !.conn = c, !.attached = v, !.requests = q]
      BY <1>5, <3>1
    <3>3. h \in HostRecords
      BY <1>1
    <3> QED BY <3>2, <3>3 DEF HostRecords
  <2>2. /\ g.conn = [h.conn EXCEPT ![s] = "listening"] /\ g.attached = v
        /\ g.requests = q /\ g.receiving = h.receiving
        /\ g.sockets = h.sockets /\ g.lost = h.lost
        /\ g.shut = h.shut /\ g.remote = h.remote
        /\ g.answers = h.answers /\ g.aborts = h.aborts
        /\ g.flying = h.flying
        /\ g.calls = h.calls /\ g.failed = h.failed /\ SameHistory(h, g)
    BY <1>1, <1>5 DEF HostRecords, SameHistory
  <2> QED BY <2>1, <2>2
<1>7. \A t \in Sockets : g.conn[t] = IF t = s THEN "listening" ELSE h.conn[t]
  BY <1>1, <1>6 DEF HostRecords
<1>8. /\ \A t : InMap(g, t) <=> InMap(h, t)
      /\ \A t : First(h, t) => First(g, t)
      /\ \A t : Asked(h, t) => Asked(g, t)
      /\ Asked(g, s)
  <2>1. Len(h.requests) \in Nat /\ DOMAIN q = 1 .. Len(q) /\ DOMAIN h.requests = 1 .. Len(h.requests)
    BY <1>1, <1>3
  <2>2. Len(q) \in DOMAIN q
    BY <1>3, <2>1
  <2>3. Asked(g, s)
    BY <1>1, <1>3, <1>6, <2>2 DEF Asked
  <2>4. \A t : Asked(h, t) => Asked(g, t)
    <3>1. \A i \in DOMAIN h.requests : i \in DOMAIN q /\ q[i] = h.requests[i]
      BY <1>3, <2>1
    <3> QED BY <1>6, <3>1 DEF Asked
  <2>5. \A t : First(h, t) => First(g, t)
    <3>1. h.requests # <<>> => q # <<>> /\ Head(q) = Head(h.requests)
      BY <1>1, <1>3
    <3> QED BY <1>6, <3>1 DEF First
  <2>6. \A t : InMap(g, t) <=> InMap(h, t)
    BY <1>6 DEF InMap
  <2> QED BY <2>3, <2>4, <2>5, <2>6
<1>9. Place(g)
  <2>1. \A t \in g.attached :
          \/ InMap(g, t) \/ Asked(g, t) \/ t \in g.lost
          \/ t \notin g.shut /\ g.conn[t] = "closed"
    <3>1. TAKE t \in g.attached
    <3>2. t \in Sockets /\ (t = s \/ t \in h.attached)
      BY <1>4, <1>6
    <3> QED BY <1>1, <1>6, <1>7, <1>8, <3>2 DEF Place
  <2> QED BY <1>1, <1>4, <1>6, <1>8, <2>1 DEF Place
<1>10. Known(g)
  BY <1>1, <1>6, <1>7 DEF Known
<1>11. Placed(g)
  BY <1>6, <1>9, <1>10 DEF Placed, CallFailures
<1>12. SamePlaces(g, k) /\ SameHistory(g, k)
       /\ (k.failed = g.failed \/ (k.failed = "start_receive" /\ ~ Fit(g)))
  BY <1>6, StartReceiveInPlace
<1> HIDE DEF k
<1>13. ~ Fit(g) => Marked(k)
  <2>1. SUFFICES ASSUME ~ Marked(h) PROVE Fit(g)
    BY <1>6, <1>12 DEF Marked, SameHistory, SamePlaces
  <2>2. h.calls \in 0 .. Receivers(h) + 1
    BY <1>1, <2>1, FewReceive DEF Sound, Fit
  <2>3. Receivers(g) = Receivers(h) + 1 /\ Receivers(h) \in Nat
    <3>1. Entries(g) = Entries(h)
      BY <1>6 DEF Entries
    <3>2. Receivers(h) \in Nat /\ Receivers(g) \in Nat /\ Len(h.requests) \in Nat
      BY <1>1, <1>6, ReceiversType
    <3>3. Receivers(g) = Cardinality(Entries(h)) + (Len(h.requests) + 1)
      BY <1>3, <1>6, <3>1 DEF Receivers
    <3>4. Receivers(h) = Cardinality(Entries(h)) + Len(h.requests)
      BY DEF Receivers
    <3>5. Cardinality(Entries(h)) \in Nat
      <4>1. IsFiniteSet(Remotes) /\ Entries(h) \subseteq Remotes
        BY ReadingAssumption DEF Entries
      <4>2. IsFiniteSet(Entries(h))
        BY <4>1, FS_Subset
      <4> QED BY <4>2, FS_CardinalityType
    <3> QED BY <3>2, <3>3, <3>4, <3>5
  <2> QED BY <1>6, <2>2, <2>3 DEF Fit
<1>14. Marked(g) => Marked(k)
  BY <1>12 DEF Marked, SameHistory, SamePlaces
<1>15. Placed(k)
  BY <1>6, <1>11, <1>12, <1>13, <1>14, PlacedInPlace
<1> QED BY <1>2, <1>15

\* A receive of the user starts on a socket that has its entry.
LEMMA ReceivePlaced ==
    ASSUME NEW h \in HostRecords, NEW s \in Sockets, Placed(h), Accounted(h, 0),
           h.failed = "no", InMap(h, s) \/ s \in h.lost
    PROVE  Placed(IdempotentStartReceive(h, s))
<1> DEFINE k == IdempotentStartReceive(h, s)
<1>1. Place(h) /\ Known(h)
  BY DEF Placed
<1>2. CASE s \in h.receiving
  BY <1>2 DEF IdempotentStartReceive
<1>3. CASE s \notin h.receiving /\ s \notin h.attached
  <2>1. k = Fail(h, "multiplexer")
    BY <1>3 DEF IdempotentStartReceive
  <2>2. SamePlaces(h, k) /\ SameHistory(h, k) /\ k.failed = "multiplexer"
    BY <2>1 DEF Fail, HostRecords, SamePlaces, SameHistory
  <2> HIDE DEF k
  <2>3. Placed(k)
    BY <2>2, PlacedInPlace DEF CallFailures, Marked, SamePlaces, SameHistory
  <2> QED BY <2>3 DEF k
<1>4. CASE s \notin h.receiving /\ s \in h.attached
  <2>1. PICK v \in SUBSET Sockets : v = h.receiving \union {s}
    BY DEF HostRecords
  <2> DEFINE g == [h EXCEPT !.receiving = v]
  <2>2. k = StartReceive(g)
    BY <1>4, <2>1 DEF IdempotentStartReceive
  <2>3. /\ g \in HostRecords
        /\ g.receiving = v /\ g.attached = h.attached
        /\ g.sockets = h.sockets /\ g.requests = h.requests /\ g.lost = h.lost
        /\ g.shut = h.shut /\ g.conn = h.conn /\ g.remote = h.remote
        /\ g.answers = h.answers /\ g.aborts = h.aborts
        /\ g.flying = h.flying /\ g.calls = h.calls
        /\ g.failed = h.failed /\ SameHistory(h, g)
    BY DEF HostRecords, SameHistory
  <2> HIDE DEF g, k
  <2>4. /\ SamePlaces(g, k) /\ SameHistory(g, k)
        /\ k.failed = g.failed \/ (k.failed = "start_receive" /\ ~ Fit(g))
    BY <2>2, <2>3, StartReceiveInPlace
  <2>5. Fit(g) <=> Fit(h)
    BY <2>3, SameFit
  <2>6. Known(g)
    BY <1>1, <2>3 DEF Known
  <2>7. Place(g)
    <3>1. \A t : /\ InMap(g, t) <=> InMap(h, t)
                 /\ First(g, t) <=> First(h, t)
                 /\ Asked(g, t) <=> Asked(h, t)
      BY <2>3 DEF InMap, First, Asked
    <3> QED BY <1>1, <1>4, <2>1, <2>3, <3>1 DEF Place
  <2>8. Placed(g)
    BY <2>3, <2>6, <2>7 DEF Placed, CallFailures
  <2>9. Marked(h) <=> Marked(k)
    BY <2>3, <2>4 DEF Marked, SamePlaces, SameHistory
  <2>10. ~ Fit(g) => Marked(k)
    BY <1>1, <2>5, <2>9, FewReceive
  <2>11. Marked(g) => Marked(k)
    BY <2>4 DEF Marked, SamePlaces, SameHistory
  <2>12. Placed(k)
    BY <2>3, <2>4, <2>8, <2>10, <2>11, PlacedInPlace
  <2> QED BY <2>12 DEF k
<1> QED BY <1>2, <1>3, <1>4

\* stop_receive finds the receive of the socket that closes counted.
LEMMA ReceiverCounted ==
    ASSUME NEW h \in HostRecords, NEW s \in h.receiving, Place(h), Accounted(h, 0),
           h.failed = "no"
    PROVE  Marked(h) \/ h.calls \in 1 .. Receivers(h) + 1
<1> SUFFICES ASSUME ~ Marked(h)
             PROVE  h.calls \in 1 .. Receivers(h) + 1
  OBVIOUS
<1>1. /\ h.calls \in 0 .. Receivers(h) + 1
      /\ h.calls >= Cardinality(h.receiving) + Len(h.requests)
      /\ Cardinality(h.receiving) \in Nat /\ Len(h.requests) \in Nat
  BY FewReceive DEF Fit
<1>2. Cardinality(h.receiving) # 0
  BY Counting, FS_EmptySet
<1> QED BY <1>1, <1>2

LEMMA StepPlaces ==
    ASSUME NEW h \in HostRecords, Placed(h), Becomes(h)
    PROVE  Placed(host')
  BY SettledPlaced DEF Becomes

LEMMA UserPlaces ==
    ASSUME IInv, Placed(host), NEW s \in Sockets,
           Bind(s) \/ Receive(s) \/ UserCloses(s) \/ KeepaliveTimeout(s)
             \/ \E a \in Acceptors : Accept(a, s)
    PROVE  Placed(host')
<1> USE DEF Step
<1>1. Sound(host, 0) /\ host \in HostRecords /\ host.failed = "no" /\ NoneLeft(host)
      /\ Place(host) /\ Known(host) /\ Accounted(host, 0)
  BY DEF IInv, Sound, Placed, Bind, Accept, Receive, UserCloses, KeepaliveTimeout
<1>2. CASE Bind(s)
  <2> DEFINE g == Add(host)
             h == [g EXCEPT !.attached = @ \union {s}]
  <2>1. Becomes(h) /\ s \notin host.shut /\ host.conn[s] = "closed"
    BY <1>2 DEF Bind
  <2>2. g \in HostRecords /\ SamePlaces(host, g) /\ SameHistory(host, g) /\ g.failed = "no"
    <3>1. g \in HostRecords
      BY <1>1, AddSound
    <3>2. SamePlaces(host, g) /\ SameHistory(host, g) /\ g.failed = "no"
      BY <1>1 DEF Add, HostRecords, SamePlaces, SameHistory
    <3> QED BY <3>1, <3>2
  <2> HIDE DEF g
  <2>3. PICK v \in SUBSET Sockets : v = g.attached \union {s}
    BY <2>2 DEF HostRecords
  <2>4. h = [g EXCEPT !.attached = v]
    BY <2>3
  <2> HIDE DEF h
  <2>5. h \in HostRecords
    BY <2>2, <2>4, SetUnseen DEF Unseen
  <2>6. /\ h.attached = v /\ h.receiving = g.receiving
        /\ h.sockets = g.sockets /\ h.requests = g.requests /\ h.lost = g.lost
        /\ h.shut = g.shut /\ h.conn = g.conn /\ h.remote = g.remote
        /\ h.answers = g.answers /\ h.aborts = g.aborts
        /\ h.flying = g.flying /\ h.failed = g.failed
    BY <2>2, <2>4 DEF HostRecords
  <2>7. Known(h)
    BY <1>1, <2>2, <2>6 DEF Known, SamePlaces
  <2>8. Place(h)
    <3>1. \A t : /\ InMap(h, t) <=> InMap(host, t)
                 /\ First(h, t) <=> First(host, t)
                 /\ Asked(h, t) <=> Asked(host, t)
      BY <2>2, <2>6 DEF InMap, First, Asked, SamePlaces
    <3> QED BY <1>1, <2>1, <2>2, <2>3, <2>6, <3>1 DEF Place, SamePlaces
  <2>9. Placed(h)
    BY <2>2, <2>6, <2>7, <2>8 DEF Placed, CallFailures
  <2> QED BY <2>1, <2>5, <2>9, StepPlaces
<1>3. ASSUME NEW a \in Acceptors, Accept(a, s)
      PROVE  Placed(host')
  <2>1. Becomes(AsyncAccept(host, a, s)) /\ host.stuck = "no"
    BY <1>3 DEF Accept
  <2>2. AsyncAccept(host, a, s) \in HostRecords
    BY <1>1, <2>1, AsyncAcceptSound DEF Sound
  <2>3. Placed(AsyncAccept(host, a, s))
    BY <1>1, AsyncAcceptPlaced
  <2> QED BY <2>1, <2>2, <2>3, StepPlaces
<1>4. CASE Receive(s)
  <2> DEFINE w == [host EXCEPT !.waiting = @ \union {s}]
             f == [host EXCEPT !.kept[s] = @ - 1]
             h == IF host.kept[s] > 0 THEN f ELSE IdempotentStartReceive(w, s)
  <2>1. /\ Becomes(h) /\ s \in host.attached /\ host.conn[s] = "established"
        /\ ~ Asked(host, s) /\ host.stuck = "no"
    BY <1>4 DEF Receive, MayReceive, Pending, Asked
  <2>2. w \in HostRecords /\ SamePlaces(host, w) /\ SameHistory(host, w)
        /\ w.failed = "no" /\ Sound(w, 0) /\ w.stuck = "no"
    <3>1. PICK v \in SUBSET Sockets : v = host.waiting \union {s}
      BY <1>1 DEF HostRecords
    <3>2. Unseen(host, w)
      BY <1>1, <3>1, SetUnseen
    <3>3. SamePlaces(host, w)
      BY <1>1 DEF HostRecords, SamePlaces
    <3> HIDE DEF w
    <3>4. Sound(w, 0)
      BY <1>1, <3>2, UnseenSound
    <3> QED BY <1>1, <2>1, <3>2, <3>3, <3>4 DEF Unseen, SameReads
  <2>3. host.kept[s] > 0 => f \in HostRecords /\ Placed(f)
    <3>1. SUFFICES ASSUME host.kept[s] > 0
                   PROVE  f \in HostRecords /\ Placed(f)
      OBVIOUS
    <3>2. PICK n \in Nat : n = host.kept[s] - 1
      BY <1>1, <3>1 DEF HostRecords
    <3>3. Unseen(host, f)
      BY <1>1, <3>2, SetUnseen
    <3>4. SamePlaces(host, f)
      BY <1>1 DEF HostRecords, SamePlaces
    <3> HIDE DEF f
    <3> QED BY <1>1, <3>3, <3>4, OthersPlaced DEF Unseen
  <2> HIDE DEF w, f
  <2>4. Placed(w) /\ Accounted(w, 0)
    BY <1>1, <2>2, OthersPlaced DEF Sound
  <2>5. InMap(w, s) \/ s \in w.lost
    BY <1>1, <2>1, <2>2 DEF Place, InMap, SamePlaces
  <2>6. Placed(IdempotentStartReceive(w, s)) /\ IdempotentStartReceive(w, s) \in HostRecords
    BY <2>2, <2>4, <2>5, ReceivePlaced, IdempotentStartReceiveSound DEF Sound
  <2>7. Placed(h) /\ h \in HostRecords
    BY <2>3, <2>6
  <2> HIDE DEF h
  <2> QED BY <2>1, <2>7, StepPlaces
<1>5. CASE UserCloses(s) \/ KeepaliveTimeout(s)
  <2>1. Becomes(Close(host, s))
    BY <1>5 DEF UserCloses, KeepaliveTimeout
  <2>2. s \in host.receiving => Marked(host) \/ host.calls \in 1 .. Receivers(host) + 1
    BY <1>1, ReceiverCounted
  <2>3. Placed(Close(host, s)) /\ Close(host, s) \in HostRecords
    BY <1>1, <2>2, ClosePlaced, CloseSound DEF Sound
  <2> QED BY <2>1, <2>3, StepPlaces
<1> QED BY <1>2, <1>3, <1>4, <1>5

LEMMA AcceptorPlaces ==
    ASSUME IInv, Placed(host), NEW a \in Acceptors,
           Construct(a) \/ CloseAcceptor(a) \/ Turn(a) \/ Destroy(a)
    PROVE  Placed(host')
<1> USE DEF Step
<1>1. Sound(host, 0) /\ host \in HostRecords /\ host.failed = "no" /\ NoneLeft(host)
  BY DEF IInv, Sound, Construct, CloseAcceptor, Turn, Destroy
<1>2. CASE CloseAcceptor(a)
  <2> DEFINE h == [host EXCEPT !.closing = a]
  <2>1. Becomes(h)
    BY <1>2 DEF CloseAcceptor
  <2>2. h \in HostRecords
    BY <1>1, SetUnseen DEF Unseen
  <2>3. SamePlaces(host, h) /\ SameHistory(host, h) /\ h.failed = host.failed
    BY <1>1 DEF HostRecords, SamePlaces, SameHistory
  <2> HIDE DEF h
  <2> QED BY <1>1, <2>1, <2>2, <2>3, OthersPlaced, StepPlaces
<1>3. CASE Turn(a)
  <2>1. PICK i \in RequestsOf(a) :
          Becomes([DisableRequest(host, i) EXCEPT
                      !.closing = IF RequestsOf(a) = {i} THEN Nobody ELSE a])
    BY <1>3 DEF Turn
  <2>2. i \in DOMAIN host.requests
    BY <2>1 DEF RequestsOf
  <2>3. PICK v \in Acceptors \union {Nobody} : v = IF RequestsOf(a) = {i} THEN Nobody ELSE a
    OBVIOUS
  <2> DEFINE g == DisableRequest(host, i)
             h == [g EXCEPT !.closing = v]
  <2>4. g \in HostRecords /\ Placed(g)
    BY <1>1, <2>2, DisableRequestSound, DisableRequestPlaced DEF Sound
  <2>5. Becomes(h)
    BY <2>1, <2>3
  <2> HIDE DEF g
  <2>6. h \in HostRecords
    BY <2>4, SetUnseen DEF Unseen
  <2>7. SamePlaces(g, h) /\ SameHistory(g, h) /\ h.failed = g.failed
    BY <2>4 DEF HostRecords, SamePlaces, SameHistory
  <2> HIDE DEF h
  <2> QED BY <2>4, <2>5, <2>6, <2>7, OthersPlaced, StepPlaces
<1>4. CASE Destroy(a)
  <2>1. PICK v \in SUBSET Acceptors : v = host.acceptors \ {a}
    BY <1>1 DEF HostRecords
  <2> DEFINE h == [host EXCEPT !.acceptors = v]
  <2>2. Becomes(h)
    BY <1>4, <2>1 DEF Destroy
  <2>3. h \in HostRecords
    BY <1>1, SetUnseen DEF Unseen
  <2>4. SamePlaces(host, h) /\ SameHistory(host, h) /\ h.failed = host.failed
    BY <1>1 DEF HostRecords, SamePlaces, SameHistory
  <2> HIDE DEF h
  <2> QED BY <1>1, <2>2, <2>3, <2>4, OthersPlaced, StepPlaces
<1>5. CASE Construct(a)
  <2> DEFINE g == Add(host)
             h == [g EXCEPT !.acceptors = @ \union {a}]
  <2>1. Becomes(h)
    BY <1>5 DEF Construct
  <2>2. g \in HostRecords /\ SamePlaces(host, g) /\ SameHistory(host, g)
        /\ g.failed = host.failed
    <3>1. g \in HostRecords
      BY <1>1, AddSound
    <3>2. SamePlaces(host, g) /\ SameHistory(host, g) /\ g.failed = host.failed
      BY <1>1 DEF Add, HostRecords, SamePlaces, SameHistory
    <3> QED BY <3>1, <3>2
  <2> HIDE DEF g
  <2>3. PICK v \in SUBSET Acceptors : v = g.acceptors \union {a}
    BY <2>2 DEF HostRecords
  <2>4. h = [g EXCEPT !.acceptors = v]
    BY <2>3
  <2> HIDE DEF h
  <2>5. h \in HostRecords
    BY <2>2, <2>4, SetUnseen DEF Unseen
  <2>6. SamePlaces(g, h) /\ SameHistory(g, h) /\ h.failed = g.failed
    BY <2>2, <2>4 DEF HostRecords, SamePlaces, SameHistory
  <2>7. Placed(g)
    BY <1>1, <2>2, OthersPlaced
  <2> QED BY <2>1, <2>2, <2>5, <2>6, <2>7, OthersPlaced, StepPlaces
<1> QED BY <1>2, <1>3, <1>4, <1>5

\* What is left of a queue that was shut down speaks of sockets that are
\* closed.
LEMMA ShutPlaced ==
    ASSUME NEW h \in HostRecords, NEW a \in Answers, Placed(h), h.failed = "no",
           a.by \in h.shut, NEW error \in BOOLEAN
    PROVE  Placed(AnswerHandler(h, a, error))
<1> DEFINE k == AnswerHandler(h, a, error)
<1>1. a.by \in Sockets /\ a.to \in Remotes /\ Known(h) /\ Place(h)
  BY DEF Answers, Placed
<1>2. /\ k.attached = h.attached /\ k.receiving = h.receiving
      /\ k.sockets = h.sockets /\ k.requests = h.requests /\ k.lost = h.lost
      /\ k.shut = h.shut /\ k.answers = h.answers /\ k.aborts = h.aborts
      /\ k.flying = h.flying /\ k.failed = h.failed
  <2>1. CASE error
    BY <2>1 DEF AnswerHandler, HostRecords
  <2>2. CASE ~ error
    BY <2>2 DEF AnswerHandler, HostRecords
  <2> QED BY <2>1, <2>2
<1>3. /\ \A t \in Sockets \ {a.by} : k.conn[t] = h.conn[t] /\ k.remote[t] = h.remote[t]
      /\ k.conn[a.by] = "established" => k.remote[a.by] \in Remotes
  <2>1. CASE error
    BY <1>1, <2>1 DEF AnswerHandler, HostRecords
  <2>2. CASE ~ error
    BY <1>1, <2>2 DEF AnswerHandler, HostRecords
  <2> QED BY <2>1, <2>2
<1> HIDE DEF k
<1>4. Known(k)
  BY <1>1, <1>2, <1>3 DEF Known
<1>5. Place(k)
  <2>1. \A t : /\ InMap(k, t) <=> InMap(h, t)
               /\ First(k, t) <=> First(h, t)
               /\ Asked(k, t) <=> Asked(h, t)
    BY <1>2 DEF InMap, First, Asked
  <2>2. \A t \in k.attached :
          \/ InMap(k, t) \/ Asked(k, t) \/ t \in k.lost
          \/ t \notin k.shut /\ k.conn[t] = "closed"
    <3>1. TAKE t \in k.attached
    <3>2. t \in Sockets
      BY <1>2 DEF HostRecords
    <3> QED BY <1>1, <1>2, <1>3, <2>1, <3>2 DEF Place
  <2> QED BY <1>1, <1>2, <2>1, <2>2 DEF Place
<1> QED BY <1>2, <1>4, <1>5 DEF Placed, CallFailures, k

LEMMA ServicePlaces ==
    ASSUME IInv, Placed(host),
           \/ Peek
           \/ \E s \in Sockets : Retransmit(s)
           \/ \E a \in Answers : StepCompletes(a) \/ Abort(a)
    PROVE  Placed(host')
<1> USE DEF Step
<1>1. Sound(host, 0) /\ host \in HostRecords
  BY DEF IInv, Sound
<1>2. CASE Peek
  <2>1. /\ Becomes(ProcessPeek(host)) /\ host.failed = "no" /\ host.stuck = "no"
        /\ host.ready > 0
        /\ host.inbox # <<>> /\ Head(host.inbox).type = "handshake" =>
             host.next <= MaxAnswers
    BY <1>2 DEF Peek
  <2>2. ProcessPeek(host) \in HostRecords /\ Placed(ProcessPeek(host))
    BY <1>1, <2>1, ProcessPeekSound, ProcessPeekPlaced DEF Sound
  <2> QED BY <2>1, <2>2, StepPlaces
<1>3. ASSUME NEW a \in Answers, StepCompletes(a) \/ Abort(a)
      PROVE  Placed(host')
  <2>1. PICK v \in SUBSET Answers : v = host.flying \ {a}
    BY <1>1 DEF HostRecords
  <2>2. PICK u \in SUBSET Answers : u = host.aborts \ {a}
    BY <1>1 DEF HostRecords
  <2>3. PICK g \in HostRecords, error \in BOOLEAN :
          /\ g = [host EXCEPT !.flying = v] \/ g = [host EXCEPT !.aborts = u]
          /\ Becomes(AnswerHandler(g, a, error))
    <3>1. CASE StepCompletes(a)
      <4>1. [host EXCEPT !.flying = v] \in HostRecords
        BY <1>1, SetUnseen DEF Unseen
      <4> QED BY <2>1, <3>1, <4>1 DEF StepCompletes
    <3>2. CASE Abort(a)
      <4>1. [host EXCEPT !.aborts = u] \in HostRecords
        BY <1>1, SetUnseen DEF Unseen
      <4> QED BY <2>2, <3>2, <4>1 DEF Abort
    <3> QED BY <1>3, <3>1, <3>2
  <2>4. a.by \in host.shut /\ Known(host) /\ Place(host) /\ host.failed = "no"
    BY <1>3 DEF StepCompletes, Abort, Placed, Known
  <2>5. /\ g.attached = host.attached /\ g.receiving = host.receiving
        /\ g.sockets = host.sockets /\ g.requests = host.requests
        /\ g.lost = host.lost /\ g.shut = host.shut /\ g.conn = host.conn
        /\ g.remote = host.remote /\ g.answers = host.answers
        /\ g.flying \subseteq host.flying /\ g.aborts \subseteq host.aborts
        /\ g.failed = host.failed
    <3>1. CASE g = [host EXCEPT !.flying = v]
      BY <1>1, <2>1, <3>1 DEF HostRecords
    <3>2. CASE g = [host EXCEPT !.aborts = u]
      BY <1>1, <2>2, <3>2 DEF HostRecords
    <3> QED BY <2>3, <3>1, <3>2
  <2>6. Placed(g)
    <3>1. Known(g)
      BY <2>4, <2>5 DEF Known
    <3>2. Place(g)
      BY <2>4, <2>5 DEF Place, InMap, Asked, First
    <3> QED BY <2>4, <2>5, <3>1, <3>2 DEF Placed, CallFailures
  <2>7. Placed(AnswerHandler(g, a, error))
    BY <2>4, <2>5, <2>6, ShutPlaced
  <2>8. AnswerHandler(g, a, error) \in HostRecords
    BY AnswerHandlerUnseen DEF Unseen
  <2> QED BY <2>3, <2>7, <2>8, StepPlaces
<1>4. ASSUME NEW s \in Sockets, Retransmit(s)
      PROVE  Placed(host')
  BY <1>4 DEF Retransmit
<1> QED BY <1>2, <1>3, <1>4

LEMMA NetworkPlaces ==
    ASSUME IInv, Placed(host),
           \/ EmptyComes
           \/ \E r \in Remotes : Handshake(r) \/ \E x \in {TRUE, ~ Lossy} : Data(r, x)
           \/ \E a \in Answers, lost \in {FALSE, Lossy}, x \in {TRUE, ~ Lossy} :
                AnswerComes(a, lost, x)
    PROVE  Placed(host')
<1>1. host \in HostRecords /\ peer \in [Remotes -> Peers]
  BY DEF IInv, TypeOK
<1>2. ASSUME NEW h \in HostRecords, NEW d \in Datagrams, Comes(h, d), Placed(h),
             Arrived(h, d) \in HostRecords
      PROVE  Placed(host')
  <2>1. Placed(Arrived(h, d))
    BY <1>2, ArrivedInPlace, OthersPlaced
  <2>2. host' = Settled(Arrived(h, d))
    BY <1>2 DEF Comes
  <2> QED BY <1>2, <2>1, <2>2, SettledPlaced
<1>3. Sound(host, 0)
  BY DEF IInv
<1>4. CASE EmptyComes
  <2>1. PICK n \in Nat : n = host.empties - 1
    BY <1>1, <1>4 DEF EmptyComes, HostRecords
  <2> DEFINE h == [host EXCEPT !.empties = n]
  <2>2. Comes(h, EmptyPacket)
    BY <1>4, <2>1 DEF EmptyComes
  <2>3. Sound(h, 0) /\ h \in HostRecords
    <3>1. Unseen(host, h) /\ h \in HostRecords
      <4>1. \A v \in Nat : Unseen(host, [host EXCEPT !.empties = v])
        BY <1>1, SetUnseen
      <4> QED BY <4>1 DEF Unseen
    <3> HIDE DEF h
    <3> QED BY <1>3, <3>1, UnseenSound
  <2>4. SamePlaces(host, h) /\ SameHistory(host, h) /\ h.failed = host.failed
    BY <1>1 DEF HostRecords, SamePlaces, SameHistory
  <2> HIDE DEF h
  <2>5. Placed(h) /\ EmptyPacket \in Datagrams
    BY <1>1, <2>4, OthersPlaced DEF Datagrams
  <2>6. Arrived(h, EmptyPacket) \in HostRecords
    BY <2>3, <2>5, ArrivedSound DEF Sound
  <2> QED BY <1>2, <2>2, <2>3, <2>5, <2>6
<1>5. ASSUME NEW d \in Datagrams, Comes(host, d)
      PROVE  Placed(host')
  <2>1. Arrived(host, d) \in HostRecords
    BY <1>3, ArrivedSound DEF Sound
  <2> QED BY <1>1, <1>2, <1>5, <2>1
<1>6. ASSUME NEW r \in Remotes, Handshake(r)
      PROVE  Placed(host')
  <2> DEFINE d == [from |-> r, type |-> "handshake", ack |-> NoAnswer, expected |-> TRUE]
  <2>1. Comes(host, d) /\ d \in Datagrams
    BY <1>6 DEF Handshake, Datagrams, Packets
  <2> HIDE DEF d
  <2> QED BY <1>5, <2>1
<1>7. ASSUME NEW r \in Remotes, NEW x \in {TRUE, ~ Lossy}, Data(r, x)
      PROVE  Placed(host')
  <2> DEFINE d == [from |-> r, type |-> "data", ack |-> peer[r].got, expected |-> x]
  <2>1. peer[r].got \in Answers \union {NoAnswer} /\ x \in BOOLEAN
    <3>1. peer[r] \in Peers
      BY <1>1
    <3> QED BY <3>1, EndpointAssumption DEF Peers
  <2>2. Comes(host, d) /\ d \in Datagrams
    BY <1>7, <2>1 DEF Data, Datagrams, Packets
  <2> HIDE DEF d
  <2> QED BY <1>5, <2>2
<1>8. ASSUME NEW a \in Answers, NEW lost \in {FALSE, Lossy}, NEW x \in {TRUE, ~ Lossy},
             AnswerComes(a, lost, x)
      PROVE  Placed(host')
  <2> DEFINE d == [from |-> a.to, type |-> "keepalive", ack |-> a, expected |-> x]
  <2>1. d \in Datagrams
    BY EndpointAssumption DEF Datagrams, Packets, Answers
  <2>2. host' = host \/ Comes(host, d)
    BY <1>8 DEF AnswerComes
  <2> HIDE DEF d
  <2> QED BY <1>5, <2>1, <2>2
<1> QED BY <1>4, <1>6, <1>7, <1>8

LEMMA InitPlaces == Init => Placed(host)
<1> SUFFICES ASSUME Init PROVE Placed(host)
  OBVIOUS
<1>1. host = Fresh
  BY DEF Init
<1>2. Known(Fresh)
  BY DEF Fresh, Known
<1>3. Place(Fresh)
  BY DEF Fresh, Place
<1>4. Fresh.failed \notin CallFailures
  BY DEF Fresh, CallFailures
<1> QED BY <1>1, <1>2, <1>3, <1>4 DEF Placed

LEMMA NextPlaces == IInv /\ Placed(host) /\ [Next]_vars => Placed(host')
<1> SUFFICES ASSUME IInv, Placed(host), [Next]_vars PROVE Placed(host')
  OBVIOUS
<1>1. CASE \E a \in Acceptors : Construct(a) \/ CloseAcceptor(a) \/ Turn(a) \/ Destroy(a)
  BY <1>1, AcceptorPlaces
<1>2. CASE \E s \in Sockets :
             Bind(s) \/ Receive(s) \/ UserCloses(s) \/ KeepaliveTimeout(s)
               \/ \E a \in Acceptors : Accept(a, s)
  BY <1>2, UserPlaces
<1>3. CASE \/ Peek
           \/ \E s \in Sockets : Retransmit(s)
           \/ \E a \in Answers : StepCompletes(a) \/ Abort(a)
  BY <1>3, ServicePlaces
<1>4. CASE \/ EmptyComes
           \/ \E r \in Remotes : Handshake(r) \/ \E x \in {TRUE, ~ Lossy} : Data(r, x)
           \/ \E a \in Answers, lost \in {FALSE, Lossy}, x \in {TRUE, ~ Lossy} :
                AnswerComes(a, lost, x)
  BY <1>4, NetworkPlaces
<1>5. CASE UNCHANGED vars
  BY <1>5 DEF vars
<1> QED BY <1>1, <1>2, <1>3, <1>4, <1>5 DEF Next

PlacedNow == Placed(host)

LEMMA PlacesInvariance == Spec => []PlacedNow
<1>1. Init => PlacedNow
  BY InitPlaces DEF PlacedNow
<1>2. IInv /\ PlacedNow /\ [Next]_vars => PlacedNow'
  BY NextPlaces DEF PlacedNow
<1> QED BY <1>1, <1>2, Invariance, PTL DEF Spec

(* The bound of the assertions on receive_calls (339, 348 and 446) counts   *)
(* a receive for each entry of the map and each request, and one more.      *)
THEOREM BoundsHold == Spec => []CountsHold
<1>1. PlacedNow => CountsHold
  BY DEF PlacedNow, Placed, CountsHold, CallFailures, Marked
<1> QED BY <1>1, PlacesInvariance, PTL

-----------------------------------------------------------------------------
(* The third part: where the sockets are.  What is said of a socket that   *)
(* was never closed depends on who gets which packet, so on the read that  *)
(* has completed and on the acknowledgements on their way.                 *)
SameHomes(h, k) ==
    /\ k.attached = h.attached /\ k.shut = h.shut /\ k.sockets = h.sockets
    /\ k.requests = h.requests /\ k.lost = h.lost
    /\ k.conn = h.conn /\ k.remote = h.remote

SameFront(h, k) == SameReads(h, k) /\ k.from = h.from

Onward(h, k) ==
    /\ k.failed = "no" => h.failed = "no"
    /\ ~ k.raced => ~ h.raced

Incoming(h) == {h.inbox[i] : i \in DOMAIN h.inbox}

\* A read that has completed names the sender of the datagram in front.
InFront(h) ==
    ~ h.raced /\ h.open =>
        /\ h.posted > 0 => h.inbox = <<>>
        /\ h.ready > 0 => h.inbox # <<>> /\ h.from = Head(h.inbox).from

\* A packet acknowledges the handshake its sender got.
Heard(h, p) == \A d \in Incoming(h) : d.ack # NoAnswer => p[d.from].got = d.ack

\* What is promised of a socket that was never closed.
Rooted(h, p, s) ==
    /\ h.conn[s] = "listening" <=> Asked(h, s)
    /\ Asked(h, s) => s \in h.attached
    /\ h.conn[s] = "established" /\ s \notin h.lost => h.sockets[h.remote[s]] = s
    /\ \A r \in Remotes : h.sockets[r] = s =>
         h.conn[s] = "established" /\ r = h.remote[s] /\ p[r].got.by = s

AskedOnce(h) ==
    \A i, j \in DOMAIN h.requests :
        h.requests[i].socket = h.requests[j].socket => i = j

Home(h, p) ==
    h.failed = "no" /\ ~ h.raced =>
        /\ AskedOnce(h) /\ (Entries(h) # {} => h.open)
        /\ \A s \in Sockets \ h.shut : Rooted(h, p, s)

AtHome(h, p) == InFront(h) /\ Heard(h, p) /\ Home(h, p)

LEMMA SameHome ==
    ASSUME NEW h, NEW k, NEW p, Home(h, p), SameHomes(h, k), Onward(h, k),
           Entries(h) # {} => k.open = h.open
    PROVE  Home(k, p)
<1>1. \A s : Asked(k, s) <=> Asked(h, s)
  BY DEF Asked, SameHomes
<1>2. \A s : Rooted(h, p, s) => Rooted(k, p, s)
  BY <1>1 DEF Rooted, SameHomes
<1>3. Entries(k) = Entries(h) /\ (AskedOnce(h) => AskedOnce(k))
  BY DEF Entries, AskedOnce, SameHomes
<1>4. k.shut = h.shut
  BY DEF SameHomes
<1> QED BY <1>2, <1>3, <1>4 DEF Home, Onward

\* What neither reads nor moves anybody.
LEMMA SameAtHome ==
    ASSUME NEW h, NEW k, NEW p, AtHome(h, p), SameHomes(h, k), SameFront(h, k),
           k.failed = "no" => h.failed = "no"
    PROVE  AtHome(k, p)
<1>1. InFront(k)
  BY DEF AtHome, InFront, SameFront, SameReads
<1>2. Heard(k, p)
  BY DEF AtHome, Heard, Incoming, SameFront, SameReads
<1>3. Home(k, p)
  BY SameHome DEF AtHome, Onward, SameFront, SameReads
<1> QED BY <1>1, <1>2, <1>3 DEF AtHome

\* A read that is started when none is there.
LEMMA DoStartReceiveAtHome ==
    ASSUME NEW h \in HostRecords, NEW p, AtHome(h, p),
           ~ h.raced => h.posted = 0 /\ h.ready = 0
    PROVE  /\ AtHome(DoStartReceive(h), p) /\ Onward(h, DoStartReceive(h))
           /\ SameHomes(h, DoStartReceive(h))
<1> DEFINE k == DoStartReceive(h)
<1>1. /\ k.inbox = h.inbox /\ k.open = h.open /\ k.raced = h.raced
      /\ k.failed = h.failed
  BY DoStartReceiveEffect
<1>2. SameHomes(h, k)
  BY DoStartReceiveInPlace DEF SamePlaces, SameHomes
<1>3. InFront(k)
  <2>1. CASE ~ h.open \/ h.raced
    <3> HIDE DEF k
    <3> QED BY <1>1, <2>1 DEF InFront
  <2>2. CASE h.open /\ ~ h.raced /\ h.inbox # <<>>
    <3>1. PICK n \in Nat : n = h.ready + 1
      BY DEF HostRecords
    <3>2. Head(h.inbox).from = Head(h.inbox).from /\ h.posted = 0
      BY <2>2
    <3>3. k = [h EXCEPT !.ready = n, !.from = Head(h.inbox).from]
      BY <2>2, <3>1, <3>2 DEF DoStartReceive
    <3>4. k.posted = 0 /\ k.from = Head(h.inbox).from
      BY <3>2, <3>3 DEF HostRecords
    <3> HIDE DEF k
    <3> QED BY <1>1, <2>2, <3>4 DEF InFront
  <2>3. CASE h.open /\ ~ h.raced /\ h.inbox = <<>>
    <3>1. k = [h EXCEPT !.posted = @ + 1]
      BY <2>3 DEF DoStartReceive
    <3>2. k.ready = h.ready
      BY <3>1 DEF HostRecords
    <3> HIDE DEF k
    <3> QED BY <1>1, <2>3, <3>2 DEF InFront
  <2> QED BY <2>1, <2>2, <2>3
<1> HIDE DEF k
<1>4. Heard(k, p)
  BY <1>1 DEF AtHome, Heard, Incoming
<1>5. Onward(h, k)
  BY <1>1 DEF Onward
<1>6. Home(k, p)
  BY <1>1, <1>2, <1>5, SameHome DEF AtHome
<1> QED BY <1>2, <1>3, <1>4, <1>5, <1>6 DEF AtHome, k

LEMMA StartReceiveAtHome ==
    ASSUME NEW h \in HostRecords, NEW p, AtHome(h, p)
    PROVE  LET k == StartReceive(h)
           IN  /\ AtHome(k, p) /\ Onward(h, k) /\ SameHomes(h, k)
               /\ k.failed = "no" => h.failed = "no"
<1> DEFINE k == StartReceive(h)
<1>1. CASE h.calls \notin 0 .. Receivers(h) + 1
  <2>1. k = Fail(h, "start_receive")
    BY <1>1 DEF StartReceive
  <2>2. SameHomes(h, k) /\ SameFront(h, k) /\ k.failed = "start_receive"
    BY <2>1 DEF Fail, HostRecords, SameHomes, SameFront, SameReads
  <2> HIDE DEF k
  <2>3. AtHome(k, p)
    BY <2>2, SameAtHome
  <2> QED BY <2>2, <2>3 DEF Onward, SameFront, SameReads, k
<1> DEFINE n == h.calls + 1
           h1 == [h EXCEPT !.calls = n]
<1>2. /\ h1 \in HostRecords /\ SameHomes(h, h1) /\ SameFront(h, h1)
      /\ h1.failed = h.failed
  <2>1. n \in Int
    BY DEF HostRecords
  <2> HIDE DEF n
  <2> QED BY <2>1 DEF HostRecords, SameHomes, SameFront, SameReads
<1>3. CASE h.calls \in 0 .. Receivers(h) + 1 /\ h.calls # 0
  <2>1. k = h1
    BY <1>3 DEF StartReceive
  <2> HIDE DEF k, h1
  <2>2. AtHome(h1, p)
    BY <1>2, SameAtHome
  <2> QED BY <1>2, <2>1, <2>2 DEF Onward, SameFront, SameReads, k
<1>4. CASE h.calls \in 0 .. Receivers(h) + 1 /\ h.calls = 0
  <2>1. PICK b \in BOOLEAN : b <=> (h.raced \/ h.posted + h.ready > 0)
    OBVIOUS
  <2> DEFINE g == [h1 EXCEPT !.raced = b]
  <2>2. k = DoStartReceive(g)
    <3>1. h1.raced \in BOOLEAN /\ h.raced \in BOOLEAN /\ h1.raced = h.raced
      BY <1>2 DEF HostRecords, SameFront, SameReads
    <3>2. b = (h1.raced \/ h.posted + h.ready > 0)
      BY <2>1, <3>1
    <3>3. k = DoStartReceive([h1 EXCEPT !.raced = @ \/ h.posted + h.ready > 0])
      BY <1>4 DEF StartReceive
    <3> HIDE DEF k, h1
    <3>4. [h1 EXCEPT !.raced = @ \/ h.posted + h.ready > 0] = g
      BY <3>2
    <3> QED BY <3>3, <3>4
  <2> HIDE DEF h1
  <2>3. /\ g \in HostRecords /\ g.failed = h1.failed /\ g.open = h1.open
        /\ g.inbox = h1.inbox /\ g.posted = h1.posted /\ g.ready = h1.ready
        /\ (g.raced <=> b)
    BY <1>2, SetRaced
  <2>4. g.from = h1.from /\ SameHomes(h1, g)
    BY <1>2 DEF HostRecords, SameHomes
  <2> HIDE DEF g
  <2>5. /\ g.failed = h.failed /\ g.open = h.open /\ g.inbox = h.inbox
        /\ g.posted = h.posted /\ g.ready = h.ready /\ g.from = h.from
        /\ SameHomes(h, g)
    BY <1>2, <2>3, <2>4 DEF SameFront, SameReads, SameHomes
  <2>6. Onward(h, g)
    BY <2>1, <2>3, <2>5 DEF Onward
  <2>7. Home(g, p)
    BY <2>5, <2>6, SameHome DEF AtHome
  <2>8. InFront(g) /\ Heard(g, p)
    BY <2>1, <2>3, <2>5 DEF AtHome, InFront, Heard, Incoming
  <2>9. ~ g.raced => g.posted = 0 /\ g.ready = 0
    <3>1. h.posted \in Nat /\ h.ready \in Nat
      BY DEF HostRecords
    <3> QED BY <2>1, <2>3, <2>5, <3>1
  <2>10. AtHome(k, p) /\ Onward(g, k) /\ SameHomes(g, k)
    BY <2>2, <2>3, <2>7, <2>8, <2>9, DoStartReceiveAtHome DEF AtHome
  <2> HIDE DEF k
  <2>11. Onward(h, k) /\ SameHomes(h, k)
    BY <2>5, <2>6, <2>10 DEF Onward, SameHomes
  <2> QED BY <2>10, <2>11 DEF k, Onward
<1> QED BY <1>1, <1>3, <1>4

LEMMA ReceivingAtHome ==
    ASSUME NEW h \in HostRecords, NEW p, AtHome(h, p), NEW v \in SUBSET Sockets
    PROVE  LET k == [h EXCEPT !.receiving = v]
           IN  /\ k \in HostRecords /\ AtHome(k, p) /\ SameHomes(h, k)
               /\ k.failed = h.failed /\ k.raced = h.raced
<1> DEFINE k == [h EXCEPT !.receiving = v]
<1>1. k \in HostRecords /\ SameReads(h, k) /\ k.failed = h.failed
  BY SetReceiving
<1>2. SameHomes(h, k) /\ k.from = h.from
  BY DEF HostRecords, SameHomes
<1> HIDE DEF k
<1>3. AtHome(k, p)
  BY <1>1, <1>2, SameAtHome DEF SameFront
<1> QED BY <1>1, <1>2, <1>3 DEF k, SameReads

LEMMA IdempotentStartReceiveAtHome ==
    ASSUME NEW h \in HostRecords, NEW s \in Sockets, NEW p, AtHome(h, p)
    PROVE  LET k == IdempotentStartReceive(h, s)
           IN  AtHome(k, p) /\ Onward(h, k) /\ SameHomes(h, k)
<1> DEFINE k == IdempotentStartReceive(h, s)
<1>1. CASE s \in h.receiving
  BY <1>1 DEF IdempotentStartReceive, Onward, SameHomes
<1>2. CASE s \notin h.receiving /\ s \notin h.attached
  <2>1. k = Fail(h, "multiplexer")
    BY <1>2 DEF IdempotentStartReceive
  <2>2. SameHomes(h, k) /\ SameFront(h, k) /\ k.failed = "multiplexer"
    BY <2>1 DEF Fail, HostRecords, SameHomes, SameFront, SameReads
  <2> HIDE DEF k
  <2>3. AtHome(k, p)
    BY <2>2, SameAtHome
  <2> QED BY <2>2, <2>3 DEF Onward, SameFront, SameReads, k
<1>3. CASE s \notin h.receiving /\ s \in h.attached
  <2>1. PICK v \in SUBSET Sockets : v = h.receiving \union {s}
    BY DEF HostRecords
  <2> DEFINE g == [h EXCEPT !.receiving = v]
  <2>2. k = StartReceive(g)
    BY <1>3, <2>1 DEF IdempotentStartReceive
  <2>3. /\ g \in HostRecords /\ AtHome(g, p) /\ SameHomes(h, g)
        /\ g.failed = h.failed /\ g.raced = h.raced
    BY ReceivingAtHome
  <2> HIDE DEF g, k
  <2>4. AtHome(k, p) /\ Onward(g, k) /\ SameHomes(g, k)
    BY <2>2, <2>3, StartReceiveAtHome
  <2> QED BY <2>3, <2>4 DEF Onward, SameHomes, k
<1> QED BY <1>1, <1>2, <1>3

LEMMA StopReceiveAtHome ==
    ASSUME NEW h \in HostRecords, NEW p, AtHome(h, p)
    PROVE  LET k == StopReceive(h)
           IN  /\ AtHome(k, p) /\ SameHomes(h, k) /\ SameFront(h, k)
               /\ k.failed = "no" => h.failed = "no"
<1> DEFINE k == StopReceive(h)
<1>1. SameHomes(h, k)
  BY StopReceiveInPlace DEF SamePlaces, SameHomes
<1>2. SameFront(h, k) /\ (k.failed = "no" => h.failed = "no")
  <2>1. CASE h.calls \notin 1 .. Receivers(h) + 1
    BY <2>1 DEF StopReceive, Fail, HostRecords, SameFront, SameReads
  <2>2. CASE h.calls \in 1 .. Receivers(h) + 1 /\ h.calls # 1
    BY <2>2 DEF StopReceive, HostRecords, SameFront, SameReads
  <2>3. CASE h.calls \in 1 .. Receivers(h) + 1 /\ h.calls = 1 /\ h.open
    BY <2>3 DEF StopReceive, HostRecords, SameFront, SameReads
  <2>4. CASE h.calls \in 1 .. Receivers(h) + 1 /\ h.calls = 1 /\ ~ h.open
    <3>1. k = [h EXCEPT !.calls = 0, !.failed = "local_loopback_endpoint"]
      BY <2>4 DEF StopReceive, Fail
    <3> QED BY <3>1 DEF HostRecords, SameFront, SameReads
  <2> QED BY <2>1, <2>2, <2>3, <2>4
<1> HIDE DEF k
<1>3. AtHome(k, p)
  BY <1>1, <1>2, SameAtHome
<1> QED BY <1>1, <1>2, <1>3 DEF k

LEMMA RemoveReads ==
    ASSUME NEW h \in HostRecords, NEW s \in Sockets
    PROVE  LET k == Remove(h, s)
           IN  \/ SameFront(h, k)
               \/ /\ Entries(k) = {} /\ ~ k.open /\ k.inbox = <<>>
                  /\ k.raced = h.raced
<1> DEFINE left == [r \in Remotes |-> IF r = h.remote[s] THEN Nobody ELSE h.sockets[r]]
           k == Remove(h, s)
<1>1. k.sockets = left
  BY RemoveInPlace
<1>2. CASE \E r \in Remotes : left[r] # Nobody
  <2>1. k = [h EXCEPT !.sockets = left, !.attached = @ \ {s},
                      !.lost = @ \union (EntryOf(h, s) \ {s, Nobody})]
    BY <1>2 DEF Remove
  <2> HIDE DEF left
  <2> QED BY <2>1 DEF HostRecords, SameFront, SameReads
<1>3. CASE ~ \E r \in Remotes : left[r] # Nobody
  <2> DEFINE h1 == [h EXCEPT !.sockets = left, !.attached = @ \ {s},
                             !.lost = @ \union (EntryOf(h, s) \ {s, Nobody})]
  <2>1. k = [h1 EXCEPT !.open = FALSE, !.inbox = <<>>, !.empties = 0,
                       !.ready = @ + h.posted, !.posted = 0]
    BY <1>3 DEF Remove
  <2>2. Entries(k) = {}
    <3> HIDE DEF k, left
    <3> QED BY <1>1, <1>3 DEF Entries
  <2> HIDE DEF left
  <2>3. ~ k.open /\ k.inbox = <<>> /\ k.raced = h.raced
    BY <2>1 DEF HostRecords
  <2> QED BY <2>2, <2>3
<1> QED BY <1>2, <1>3

-----------------------------------------------------------------------------
Linked(h) == \A s \in Sockets : h.conn[s] = "established" => h.remote[s] \in Remotes

\* remove() may take the entry of another socket, which is then lost.
LEMMA RemoveAtHome ==
    ASSUME NEW h \in HostRecords, NEW s \in Sockets, NEW p, AtHome(h, p), Linked(h),
           s \in h.shut
    PROVE  LET k == Remove(h, s)
           IN  /\ AtHome(k, p) /\ k.requests = h.requests /\ k.shut = h.shut
               /\ k.failed = h.failed /\ k.raced = h.raced
<1> DEFINE k == Remove(h, s)
<1>1. /\ k.sockets = [r \in Remotes |-> IF r = h.remote[s] THEN Nobody ELSE h.sockets[r]]
      /\ k.attached = h.attached \ {s}
      /\ k.lost = h.lost \union (EntryOf(h, s) \ {s, Nobody})
      /\ k.requests = h.requests
      /\ k.shut = h.shut /\ k.conn = h.conn /\ k.remote = h.remote
      /\ k.failed = h.failed
  BY RemoveInPlace
<1>2. \/ SameFront(h, k)
      \/ Entries(k) = {} /\ ~ k.open /\ k.inbox = <<>> /\ k.raced = h.raced
  BY RemoveReads
<1> HIDE DEF k
<1>3. k.raced = h.raced
  BY <1>2 DEF SameFront, SameReads
<1>4. InFront(k)
  <2>1. CASE ~ k.open
    BY <2>1 DEF InFront
  <2>2. CASE SameFront(h, k)
    BY <2>2 DEF AtHome, InFront, SameFront, SameReads
  <2> QED BY <1>2, <2>1, <2>2
<1>5. Heard(k, p)
  <2>1. CASE k.inbox = <<>>
    BY <2>1 DEF Heard, Incoming
  <2>2. CASE SameFront(h, k)
    BY <2>2 DEF AtHome, Heard, Incoming, SameFront, SameReads
  <2> QED BY <1>2, <2>1, <2>2
<1>6. Entries(k) \subseteq Entries(h)
  BY <1>1 DEF Entries
<1>7. ASSUME NEW t \in Sockets \ h.shut, Rooted(h, p, t)
      PROVE  Rooted(k, p, t)
  <2>1. t # s /\ t # Nobody
    BY ReadingAssumption
  <2>2. (Asked(k, t) <=> Asked(h, t)) /\ (t \in h.attached => t \in k.attached)
    BY <1>1, <2>1 DEF Asked
  <2>3. \A r \in Remotes : k.sockets[r] = t => h.sockets[r] = t
    BY <1>1, <2>1
  <2>4. ASSUME k.conn[t] = "established", t \notin k.lost
        PROVE  k.sockets[k.remote[t]] = t
    <3>1. h.remote[t] \in Remotes /\ h.sockets[h.remote[t]] = t
      BY <1>1, <1>7, <2>4 DEF Rooted, Linked
    <3>2. h.remote[t] # h.remote[s]
      BY <1>1, <2>1, <2>4, <3>1 DEF EntryOf
    <3> QED BY <1>1, <3>1, <3>2
  <2> QED BY <1>1, <1>7, <2>2, <2>3, <2>4 DEF Rooted
<1>8. Home(k, p)
  <2>1. SUFFICES ASSUME k.failed = "no", ~ k.raced
                 PROVE  /\ AskedOnce(k) /\ (Entries(k) # {} => k.open)
                        /\ \A t \in Sockets \ k.shut : Rooted(k, p, t)
    BY DEF Home
  <2>2. /\ AskedOnce(h) /\ (Entries(h) # {} => h.open)
        /\ \A t \in Sockets \ h.shut : Rooted(h, p, t)
    BY <1>1, <1>3, <2>1 DEF AtHome, Home
  <2>3. AskedOnce(k)
    BY <1>1, <2>2 DEF AskedOnce
  <2>4. Entries(k) # {} => k.open
    BY <1>2, <1>6, <2>2 DEF SameFront, SameReads
  <2> QED BY <1>1, <1>7, <2>2, <2>3, <2>4
<1> QED BY <1>1, <1>3, <1>4, <1>5, <1>8 DEF AtHome, k

\* A socket that was closed before is promised nothing.
LEMMA ShutAtHome ==
    ASSUME NEW h, NEW k, NEW p, AtHome(h, p), SameFront(h, k), k.failed = h.failed,
           h.shut \subseteq k.shut, k.attached = h.attached, k.sockets = h.sockets,
           k.requests = h.requests, k.lost = h.lost,
           \A t \in Sockets \ k.shut : k.conn[t] = h.conn[t] /\ k.remote[t] = h.remote[t]
    PROVE  AtHome(k, p)
<1>1. InFront(k) /\ Heard(k, p)
  BY DEF AtHome, InFront, Heard, Incoming, SameFront, SameReads
<1>2. \A t \in Sockets \ k.shut : Rooted(h, p, t) => Rooted(k, p, t)
  BY DEF Rooted, Asked
<1>3. Entries(k) = Entries(h) /\ (AskedOnce(h) => AskedOnce(k))
  BY DEF Entries, AskedOnce
<1>4. k.open = h.open /\ k.raced = h.raced
  BY DEF SameFront, SameReads
<1>5. Home(k, p)
  BY <1>2, <1>3, <1>4 DEF AtHome, Home
<1> QED BY <1>1, <1>5 DEF AtHome

LEMMA CloseAtHome ==
    ASSUME NEW h \in HostRecords, NEW s \in Sockets, NEW p, AtHome(h, p), Linked(h)
    PROVE  LET k == Close(h, s)
           IN  /\ AtHome(k, p) /\ Onward(h, k)
               /\ k.failed = "no" => k.requests = h.requests
               /\ k.failed = "no" => s \in k.shut \/ (s \notin h.attached /\ k = h)
<1>1. h.answers[s] \in Seq(Answers)
  BY DEF HostRecords
<1>2. PICK sh \in SUBSET Sockets, w \in SUBSET Sockets :
        sh = h.shut \union {s} /\ w = h.waiting \ {s}
  BY DEF HostRecords
<1>3. PICK ab \in SUBSET Answers : ab = h.aborts \union Queued(h, s)
  <2>1. \A i \in DOMAIN h.answers[s] : h.answers[s][i] \in Answers
    BY <1>1
  <2>2. Queued(h, s) \in SUBSET Answers
    BY <2>1 DEF Queued
  <2>3. h.aborts \in SUBSET Answers
    BY DEF HostRecords
  <2> QED BY <2>2, <2>3
<1>6. PICK q \in Seq(Answers) : q = <<>>
  <2>1. <<>> \in Seq(Answers)
    BY EmptySeq
  <2> QED BY <2>1
<1> DEFINE g1 == [h EXCEPT !.shut = sh, !.aborts = ab]
           h1 == [g1 EXCEPT !.answers[s] = q, !.waiting = w]
           h2 == IdempotentStopReceive(h1, s)
<1>7. /\ g1 \in HostRecords /\ g1.shut = sh
      /\ g1.attached = h.attached /\ g1.sockets = h.sockets
      /\ g1.requests = h.requests /\ g1.lost = h.lost
      /\ g1.conn = h.conn /\ g1.remote = h.remote
      /\ SameFront(h, g1) /\ g1.failed = h.failed
  <2>1. g1 \in HostRecords
    BY DEF HostRecords
  <2>2. /\ g1.shut = sh
        /\ g1.attached = h.attached /\ g1.sockets = h.sockets
        /\ g1.requests = h.requests /\ g1.lost = h.lost
        /\ g1.conn = h.conn /\ g1.remote = h.remote
        /\ SameFront(h, g1) /\ g1.failed = h.failed
    BY DEF HostRecords, SameFront, SameReads
  <2> QED BY <2>1, <2>2
<1>8. Close(h, s) =
        IF s \notin h.attached THEN h
        ELSE IF ~ h.open THEN Fail(h1, "local_endpoint")
        ELSE IF h2.failed # "no" THEN h2 ELSE Remove(h2, s)
  BY <1>2, <1>3, <1>6 DEF Close
<1> HIDE DEF g1
<1>9. h1 \in HostRecords /\ SameHomes(g1, h1) /\ SameFront(g1, h1) /\ h1.failed = g1.failed
  <2>1. h1 \in HostRecords
    BY <1>7 DEF HostRecords
  <2>2. SameHomes(g1, h1) /\ SameFront(g1, h1) /\ h1.failed = g1.failed
    BY <1>7 DEF HostRecords, SameHomes, SameFront, SameReads
  <2> QED BY <2>1, <2>2
<1> HIDE DEF h1
<1>10. AtHome(g1, p)
  BY <1>2, <1>7, ShutAtHome
<1>11. AtHome(h1, p)
  BY <1>9, <1>10, SameAtHome
<1>12. /\ h2 \in HostRecords /\ AtHome(h2, p) /\ SameHomes(h1, h2)
       /\ h2.raced = h1.raced /\ (h2.failed = "no" => h1.failed = "no")
  <2>1. CASE s \notin h1.receiving
    BY <1>9, <1>11, <2>1 DEF IdempotentStopReceive, SameHomes
  <2>2. CASE s \in h1.receiving
    <3>1. PICK v \in SUBSET Sockets : v = h1.receiving \ {s}
      BY <1>9 DEF HostRecords
    <3> DEFINE g == [h1 EXCEPT !.receiving = v]
    <3>2. h2 = StopReceive(g)
      BY <2>2, <3>1 DEF IdempotentStopReceive
    <3>3. /\ g \in HostRecords /\ AtHome(g, p) /\ SameHomes(h1, g)
          /\ g.failed = h1.failed /\ g.raced = h1.raced
      BY <1>9, <1>11, ReceivingAtHome
    <3> HIDE DEF g, h2
    <3>4. /\ AtHome(h2, p) /\ SameHomes(g, h2) /\ SameFront(g, h2)
          /\ (h2.failed = "no" => g.failed = "no") /\ h2 \in HostRecords
      BY <3>2, <3>3, StopReceiveAtHome, StopReceiveTyped
    <3> QED BY <3>3, <3>4 DEF SameHomes, SameFront, SameReads
  <2> QED BY <2>1, <2>2
<1> HIDE DEF h2
<1>13. /\ s \in h2.shut /\ h2.requests = h.requests /\ Linked(h2)
       /\ h2.raced = h.raced /\ (h2.failed = "no" => h.failed = "no")
  <2>1. s \in g1.shut /\ h2.shut = g1.shut
    BY <1>2, <1>7, <1>9, <1>12 DEF SameHomes
  <2>2. h2.requests = h.requests /\ Linked(h2)
    BY <1>7, <1>9, <1>12 DEF SameHomes, Linked
  <2>3. h2.raced = h.raced /\ (h2.failed = "no" => h.failed = "no")
    BY <1>7, <1>9, <1>12 DEF SameFront, SameReads
  <2> QED BY <2>1, <2>2, <2>3
<1>14. CASE s \notin h.attached
  BY <1>8, <1>14 DEF Onward
<1>15. CASE s \in h.attached /\ ~ h.open
  <2> DEFINE k == Fail(h1, "local_endpoint")
  <2>1. Close(h, s) = k
    BY <1>8, <1>15
  <2>2. SameHomes(h1, k) /\ SameFront(h1, k) /\ k.failed = "local_endpoint"
    BY <1>9 DEF Fail, HostRecords, SameHomes, SameFront, SameReads
  <2> HIDE DEF k
  <2>3. AtHome(k, p)
    BY <1>11, <2>2, SameAtHome
  <2>4. k.raced = h.raced
    BY <1>7, <1>9, <2>2 DEF SameFront, SameReads
  <2> QED BY <2>1, <2>2, <2>3, <2>4 DEF Onward
<1>16. CASE s \in h.attached /\ h.open /\ h2.failed # "no"
  BY <1>8, <1>12, <1>13, <1>16 DEF Onward
<1>17. CASE s \in h.attached /\ h.open /\ h2.failed = "no"
  <2> DEFINE k == Remove(h2, s)
  <2>1. Close(h, s) = k
    BY <1>8, <1>17
  <2>2. /\ AtHome(k, p) /\ k.requests = h2.requests /\ k.shut = h2.shut
        /\ k.failed = h2.failed /\ k.raced = h2.raced
    BY <1>12, <1>13, RemoveAtHome
  <2> HIDE DEF k
  <2> QED BY <1>13, <2>1, <2>2 DEF Onward
<1> QED BY <1>14, <1>15, <1>16, <1>17

\* Only reads change: k reads as InFront wants.
LEMMA ReadAtHome ==
    ASSUME NEW h, NEW k, NEW p, AtHome(h, p), SameHomes(h, k), Onward(h, k), InFront(k),
           Incoming(k) \subseteq Incoming(h), Entries(h) # {} => k.open = h.open
    PROVE  AtHome(k, p)
<1>1. Heard(k, p)
  BY DEF AtHome, Heard
<1>2. Home(k, p)
  BY SameHome DEF AtHome
<1> QED BY <1>1, <1>2 DEF AtHome

LEMMA DiscardAtHome ==
    ASSUME NEW h \in HostRecords, NEW p, AtHome(h, p), NEW then \in {"read", "nothing"},
           ~ h.raced => h.posted = 0 /\ h.ready = 0
    PROVE  AtHome(Discard(h, then), p) /\ Onward(h, Discard(h, then))
<1>1. CASE h.inbox = <<>>
  <2> DEFINE k == [h EXCEPT !.stuck = then]
  <2>1. Discard(h, then) = k
    BY <1>1 DEF Discard
  <2>2. /\ SameHomes(h, k) /\ k.failed = h.failed /\ k.raced = h.raced
        /\ k.open = h.open /\ k.inbox = h.inbox /\ k.posted = h.posted
        /\ k.ready = h.ready /\ k.from = h.from
    BY DEF HostRecords, SameHomes
  <2> HIDE DEF k
  <2>3. InFront(k) /\ Onward(h, k) /\ Incoming(k) = Incoming(h)
    BY <2>2 DEF AtHome, InFront, Onward, Incoming
  <2> QED BY <2>1, <2>2, <2>3, ReadAtHome
<1>2. CASE h.inbox # <<>>
  <2>1. h.inbox \in Seq(Datagrams)
    BY DEF HostRecords
  <2>2. PICK q \in Seq(Datagrams) : q = Tail(h.inbox)
    <3>1. Tail(h.inbox) \in Seq(Datagrams)
      BY <1>2, <2>1
    <3> QED BY <3>1
  <2> DEFINE k == [h EXCEPT !.inbox = q]
  <2>3. /\ k \in HostRecords /\ k.failed = h.failed /\ k.open = h.open /\ k.inbox = q
        /\ k.posted = h.posted /\ k.ready = h.ready /\ k.raced = h.raced
    BY SetInbox
  <2>4. SameHomes(h, k)
    BY DEF HostRecords, SameHomes
  <2>5. Discard(h, then) = IF then = "read" THEN DoStartReceive(k) ELSE k
    BY <1>2, <2>2 DEF Discard
  <2> HIDE DEF k
  <2>6. Incoming(k) \subseteq Incoming(h)
    <3>1. \A i \in DOMAIN q : i + 1 \in DOMAIN h.inbox /\ q[i] = h.inbox[i + 1]
      BY <1>2, <2>1, <2>2
    <3> QED BY <2>3, <3>1 DEF Incoming
  <2>7. InFront(k)
    <3>1. h.posted \in Nat /\ h.ready \in Nat
      BY DEF HostRecords
    <3> QED BY <2>3, <3>1 DEF InFront
  <2>8. AtHome(k, p) /\ Onward(h, k)
    BY <2>3, <2>4, <2>6, <2>7, ReadAtHome DEF Onward
  <2>9. AtHome(DoStartReceive(k), p) /\ Onward(k, DoStartReceive(k))
    BY <2>3, <2>8, DoStartReceiveAtHome
  <2> QED BY <2>5, <2>8, <2>9 DEF Onward
<1> QED BY <1>1, <1>2

LEMMA FinishReadAtHome ==
    ASSUME NEW h \in HostRecords, NEW p, AtHome(h, p),
           ~ h.raced => h.posted = 0 /\ h.ready = 0
    PROVE  AtHome(FinishRead(h), p)
<1> DEFINE n == h.calls - 1
           k == [h EXCEPT !.calls = n]
<1>1. n \in Int
  BY DEF HostRecords
<1>2. FinishRead(h) = IF h.failed # "no" \/ h.calls = 1 THEN k ELSE DoStartReceive(k)
  BY DEF FinishRead
<1> HIDE DEF n
<1>3. k \in HostRecords /\ SameReads(h, k) /\ k.failed = h.failed
  BY <1>1, SetCalls
<1>4. SameHomes(h, k) /\ k.from = h.from
  BY DEF HostRecords, SameHomes
<1> HIDE DEF k
<1>5. AtHome(k, p)
  BY <1>3, <1>4, SameAtHome DEF SameFront
<1>6. AtHome(DoStartReceive(k), p)
  BY <1>3, <1>5, DoStartReceiveAtHome DEF SameReads
<1> QED BY <1>2, <1>5, <1>6

LEMMA SettledAtHome ==
    ASSUME NEW h \in HostRecords, NEW p, AtHome(h, p)
    PROVE  AtHome(Settled(h), p)
<1> DEFINE k == Settled(h)
<1>1. CASE Alive(h) \/ h.failed # "no"
  BY <1>1 DEF Settled
<1>2. CASE ~ Alive(h) /\ h.failed = "no" /\ (Entries(h) # {} \/ h.requests # <<>> \/ h.calls # 0)
  <2>1. k = Fail(h, "~multiplexer")
    BY <1>2 DEF Settled
  <2>2. SameHomes(h, k) /\ SameFront(h, k) /\ k.failed = "~multiplexer"
    BY <2>1 DEF Fail, HostRecords, SameHomes, SameFront, SameReads
  <2> HIDE DEF k
  <2> QED BY <2>2, SameAtHome DEF k
<1>3. CASE ~ Alive(h) /\ h.failed = "no" /\ Entries(h) = {} /\ h.requests = <<>> /\ h.calls = 0
  <2>1. k = [h EXCEPT !.open = FALSE, !.inbox = <<>>]
    BY <1>3 DEF Settled
  <2>2. /\ SameHomes(h, k) /\ k.failed = h.failed /\ k.raced = h.raced
        /\ ~ k.open /\ k.inbox = <<>>
    BY <2>1 DEF HostRecords, SameHomes
  <2> HIDE DEF k
  <2>3. InFront(k) /\ Onward(h, k) /\ Incoming(k) = {}
    BY <2>2 DEF InFront, Onward, Incoming
  <2> QED BY <1>3, <2>2, <2>3, ReadAtHome DEF k
<1> QED BY <1>1, <1>2, <1>3

\* A datagram that acknowledges what its sender got.
LEMMA ArrivedAtHome ==
    ASSUME NEW h \in HostRecords, NEW p, AtHome(h, p), OneRead(h), NEW d \in Datagrams,
           d.ack # NoAnswer => p[d.from].got = d.ack
    PROVE  AtHome(Arrived(h, d), p)
<1> DEFINE k == Arrived(h, d)
<1>0. h.inbox \in Seq(Datagrams) /\ h.posted \in Nat /\ h.ready \in Nat
  BY DEF HostRecords
<1>1. CASE ~ h.open
  BY <1>1 DEF Arrived
<1>2. CASE h.open /\ h.stuck # "no"
  <2>1. h.raced
    BY <1>2 DEF OneRead
  <2> DEFINE g == [h EXCEPT !.stuck = "no"]
  <2>2. /\ g \in HostRecords /\ g.failed = h.failed /\ g.open = h.open
        /\ g.inbox = h.inbox /\ g.raced = h.raced
    BY SetStuck
  <2>3. SameHomes(h, g)
    BY DEF HostRecords, SameHomes
  <2>4. k = g \/ k = DoStartReceive(g)
    BY <1>2 DEF Arrived
  <2> HIDE DEF g, k
  <2>5. AtHome(g, p)
    BY <2>1, <2>2, <2>3, ReadAtHome DEF InFront, Onward, Incoming
  <2>6. AtHome(DoStartReceive(g), p)
    BY <2>1, <2>2, <2>5, DoStartReceiveAtHome
  <2> QED BY <2>4, <2>5, <2>6 DEF k
<1>3. PICK q \in Seq(Datagrams) : q = Append(h.inbox, d)
  <2>1. Append(h.inbox, d) \in Seq(Datagrams)
    BY <1>0
  <2> QED BY <2>1
<1>4. /\ \A i \in DOMAIN q : q[i] \in Incoming(h) \union {d}
      /\ q # <<>> /\ (h.inbox # <<>> => Head(q) = Head(h.inbox))
      /\ h.inbox = <<>> => Head(q) = d
  <2>1. DOMAIN q = 1 .. Len(h.inbox) + 1 /\ DOMAIN h.inbox = 1 .. Len(h.inbox)
    BY <1>0, <1>3
  <2>2. \A i \in DOMAIN q : q[i] = d \/ (i \in DOMAIN h.inbox /\ q[i] = h.inbox[i])
    BY <1>0, <1>3, <2>1
  <2>3. q # <<>> /\ (h.inbox # <<>> => Head(q) = Head(h.inbox))
    BY <1>0, <1>3
  <2>4. h.inbox = <<>> => Head(q) = d
    BY <1>0, <1>3
  <2> QED BY <2>2, <2>3, <2>4 DEF Incoming
<1>5. ASSUME k.inbox = q, SameHomes(h, k), k.failed = h.failed, k.raced = h.raced,
             k.open = h.open, InFront(k)
      PROVE  AtHome(k, p)
  <2> HIDE DEF k
  <2>1. Heard(k, p)
    BY <1>4, <1>5 DEF Heard, Incoming, AtHome
  <2>2. Home(k, p)
    BY <1>5, SameHome DEF AtHome, Onward
  <2> QED BY <1>5, <2>1, <2>2 DEF AtHome
<1>6. CASE h.open /\ h.stuck = "no" /\ h.posted = 0
  <2>1. k = [h EXCEPT !.inbox = q]
    BY <1>3, <1>6 DEF Arrived
  <2>2. /\ k.inbox = q /\ k.failed = h.failed /\ k.open = h.open /\ k.raced = h.raced
        /\ k.posted = h.posted /\ k.ready = h.ready /\ k.from = h.from
    BY <2>1, SetInbox
  <2>3. SameHomes(h, k)
    BY <2>1 DEF HostRecords, SameHomes
  <2> HIDE DEF k
  <2>4. InFront(k)
    BY <1>4, <1>6, <2>2 DEF AtHome, InFront
  <2> QED BY <1>5, <2>2, <2>3, <2>4 DEF k
<1>7. CASE h.open /\ h.stuck = "no" /\ h.posted # 0
  <2>1. PICK n \in Nat : n = h.ready + h.posted
    BY <1>0
  <2>2. k = [h EXCEPT !.inbox = q, !.from = d.from, !.ready = n, !.posted = 0]
    BY <1>3, <1>7, <2>1 DEF Arrived
  <2>3. /\ k.inbox = q /\ k.failed = h.failed /\ k.open = h.open /\ k.raced = h.raced
        /\ k.posted = 0 /\ k.from = d.from /\ SameHomes(h, k)
    BY <2>2 DEF HostRecords, SameHomes
  <2> HIDE DEF k
  <2>4. InFront(k)
    <3>1. ~ h.raced => h.inbox = <<>>
      BY <1>0, <1>7 DEF AtHome, InFront
    <3> QED BY <1>4, <2>3, <3>1 DEF InFront
  <2> QED BY <1>5, <2>3, <2>4 DEF k
<1> QED BY <1>1, <1>2, <1>6, <1>7

-----------------------------------------------------------------------------
\* One request leaves the queue.
LEMMA RequestLeaves ==
    ASSUME NEW h, NEW k, h.requests \in Seq(Requests), k.requests \in Seq(Requests),
           NEW i \in 1 .. Len(h.requests), Len(k.requests) = Len(h.requests) - 1,
           \A j \in 1 .. Len(h.requests) - 1 :
             k.requests[j] = h.requests[IF j < i THEN j ELSE j + 1]
    PROVE  /\ \A t : Asked(k, t) => Asked(h, t)
           /\ \A t : Asked(h, t) => t = h.requests[i].socket \/ Asked(k, t)
           /\ AskedOnce(h) => AskedOnce(k) /\ ~ Asked(k, h.requests[i].socket)
<1> DEFINE n == Len(h.requests)
           f(j) == IF j < i THEN j ELSE j + 1
<1>1. n \in Nat /\ DOMAIN h.requests = 1 .. n /\ DOMAIN k.requests = 1 .. n - 1
  OBVIOUS
<1>2. \A j \in 1 .. n - 1 : f(j) \in 1 .. n /\ f(j) # i
  BY <1>1
<1>3. \A j, l \in 1 .. n - 1 : f(j) = f(l) => j = l
  BY <1>1
<1>4. \A m \in 1 .. n : m # i => \E j \in 1 .. n - 1 : m = f(j)
  <2>1. SUFFICES ASSUME NEW m \in 1 .. n, m # i
                 PROVE  \E j \in 1 .. n - 1 : m = f(j)
    OBVIOUS
  <2>2. CASE m < i
    <3>1. m \in 1 .. n - 1 /\ f(m) = m
      BY <1>1, <2>1, <2>2
    <3> QED BY <3>1
  <2>3. CASE m > i
    <3>1. m - 1 \in 1 .. n - 1 /\ f(m - 1) = m
      BY <1>1, <2>1, <2>3
    <3> QED BY <3>1
  <2> QED BY <1>1, <2>1, <2>2, <2>3
<1>5. \A j \in 1 .. n - 1 : k.requests[j] = h.requests[f(j)]
  OBVIOUS
<1> HIDE DEF f, n
<1>6. \A t : Asked(k, t) => Asked(h, t)
  BY <1>1, <1>2, <1>5 DEF Asked
<1>7. \A t : Asked(h, t) => t = h.requests[i].socket \/ Asked(k, t)
  <2>1. SUFFICES ASSUME NEW t, NEW m \in 1 .. n, h.requests[m].socket = t, m # i
                 PROVE  Asked(k, t)
    BY <1>1 DEF Asked
  <2>2. PICK j \in 1 .. n - 1 : m = f(j)
    BY <1>4, <2>1
  <2> QED BY <1>1, <1>5, <2>1, <2>2 DEF Asked
<1>8. AskedOnce(h) => AskedOnce(k)
  <2>1. SUFFICES ASSUME AskedOnce(h), NEW j \in 1 .. n - 1, NEW l \in 1 .. n - 1,
                        k.requests[j].socket = k.requests[l].socket
                 PROVE  j = l
    BY <1>1 DEF AskedOnce
  <2>2. f(j) \in 1 .. n /\ f(l) \in 1 .. n
    BY <1>2
  <2>3. h.requests[f(j)].socket = h.requests[f(l)].socket
    BY <1>5, <2>1
  <2>4. f(j) = f(l)
    BY <1>1, <2>1, <2>2, <2>3 DEF AskedOnce
  <2> QED BY <1>3, <2>4
<1>9. AskedOnce(h) => ~ Asked(k, h.requests[i].socket)
  <2>1. SUFFICES ASSUME AskedOnce(h), NEW j \in 1 .. n - 1,
                        k.requests[j].socket = h.requests[i].socket
                 PROVE  FALSE
    BY <1>1 DEF Asked
  <2>2. f(j) \in 1 .. n /\ f(j) # i /\ i \in 1 .. n
    BY <1>2 DEF n
  <2>3. h.requests[f(j)].socket = h.requests[i].socket
    BY <1>5, <2>1
  <2> QED BY <1>1, <2>1, <2>2, <2>3 DEF AskedOnce
<1> QED BY <1>6, <1>7, <1>8, <1>9

LEMMA DisableRequestAtHome ==
    ASSUME NEW h, Sound(h, 0), NEW p, AtHome(h, p), Linked(h), h.failed = "no",
           NEW i \in DOMAIN h.requests
    PROVE  AtHome(DisableRequest(h, i), p)
<1> DEFINE s  == h.requests[i].socket
           h1 == StopReceive(h)
           h2 == Close(h1, s)
           q  == Without(h.requests, i)
           k  == [h2 EXCEPT !.requests = Without(@, i)]
<1>1. h \in HostRecords /\ h.requests \in Seq(Requests) /\ i \in 1 .. Len(h.requests)
  BY DEF Sound, HostRecords
<1>2. s \in Sockets
  <2>1. h.requests[i] \in Requests
    BY <1>1
  <2> QED BY <2>1 DEF Requests
<1>3. DisableRequest(h, i) =
        IF h1.failed # "no" THEN h1 ELSE IF h2.failed # "no" THEN h2 ELSE k
  BY DEF DisableRequest
<1>4. h1 \in HostRecords /\ AtHome(h1, p) /\ SameHomes(h, h1) /\ SameFront(h, h1)
  BY <1>1, StopReceiveTyped, StopReceiveAtHome
<1>5. Linked(h1) /\ h1.requests = h.requests
  BY <1>4 DEF Linked, SameHomes
<1>6. Sound(h1, 1)
  <2>1. Sound(StopReceive(h), 0 + 1)
    BY StopReceiveSound
  <2> QED BY <2>1 DEF h1
<1> HIDE DEF h1
<1>7. CASE h1.failed # "no"
  BY <1>3, <1>4, <1>7
<1>8. CASE h1.failed = "no"
  <2>1. /\ AtHome(h2, p) /\ Onward(h1, h2)
        /\ h2.failed = "no" => h2.requests = h.requests
        /\ h2.failed = "no" => s \in h2.shut \/ (s \notin h1.attached /\ h2 = h1)
    BY <1>2, <1>4, <1>5, CloseAtHome
  <2>2. h2 \in HostRecords
    BY <1>2, <1>6, <1>8, CloseSound DEF Sound
  <2> HIDE DEF h2
  <2>3. CASE h2.failed # "no"
    BY <1>3, <1>8, <2>1, <2>3
  <2>4. CASE h2.failed = "no"
    <3>1. DisableRequest(h, i) = k
      BY <1>3, <1>8, <2>4
    <3>2. /\ k.requests = q /\ k.attached = h2.attached
          /\ k.sockets = h2.sockets /\ k.lost = h2.lost
          /\ k.shut = h2.shut /\ k.conn = h2.conn /\ k.remote = h2.remote
          /\ SameFront(h2, k) /\ k.failed = h2.failed
      BY <2>1, <2>2, <2>4 DEF HostRecords, SameFront, SameReads
    <3> HIDE DEF k
    <3>3. /\ q \in Seq(Requests) /\ Len(q) = Len(h.requests) - 1
          /\ \A j \in 1 .. Len(h.requests) - 1 :
               q[j] = h.requests[IF j < i THEN j ELSE j + 1]
      BY <1>1, WithoutType, WithoutMembers
    <3> HIDE DEF q
    <3>4. h2.requests = h.requests
      BY <2>1, <2>4
    <3>5. /\ \A t : Asked(k, t) => Asked(h2, t)
          /\ \A t : Asked(h2, t) => t = s \/ Asked(k, t)
          /\ AskedOnce(h2) => AskedOnce(k)
      <4>1. h2.requests \in Seq(Requests) /\ k.requests \in Seq(Requests)
        BY <1>1, <3>2, <3>3, <3>4
      <4>2. i \in 1 .. Len(h2.requests) /\ Len(k.requests) = Len(h2.requests) - 1
        BY <1>1, <3>2, <3>3, <3>4
      <4>3. \A j \in 1 .. Len(h2.requests) - 1 :
              k.requests[j] = h2.requests[IF j < i THEN j ELSE j + 1]
        BY <3>2, <3>3, <3>4
      <4>4. s = h2.requests[i].socket
        BY <3>4
      <4> HIDE DEF s
      <4> QED BY <4>1, <4>2, <4>3, <4>4, RequestLeaves
    <3>6. ASSUME ~ k.raced, h2.failed = "no"
          PROVE  /\ AskedOnce(k) /\ (Entries(k) # {} => k.open)
                 /\ \A t \in Sockets \ k.shut : Rooted(k, p, t)
      <4>1. /\ AskedOnce(h2) /\ (Entries(h2) # {} => h2.open)
            /\ \A t \in Sockets \ h2.shut : Rooted(h2, p, t)
        BY <2>1, <3>2, <3>6 DEF AtHome, Home, SameFront, SameReads
      <4>2. Asked(h2, s)
        BY <3>4 DEF Asked
      <4>3. s \in h2.shut
        BY <1>2, <2>1, <2>4, <4>1, <4>2 DEF Rooted
      <4>4. ASSUME NEW t \in Sockets \ k.shut PROVE Rooted(k, p, t)
        <5>1. t # s /\ Rooted(h2, p, t)
          BY <3>2, <4>1, <4>3
        <5>2. Asked(k, t) <=> Asked(h2, t)
          BY <3>5, <5>1
        <5> QED BY <3>2, <5>1, <5>2 DEF Rooted
      <4>5. Entries(k) = Entries(h2) /\ k.open = h2.open
        BY <3>2 DEF Entries, SameFront, SameReads
      <4> QED BY <3>5, <4>1, <4>4, <4>5
    <3>7. InFront(k) /\ Heard(k, p)
      BY <2>1, <3>2 DEF AtHome, InFront, Heard, Incoming, SameFront, SameReads
    <3>8. Home(k, p)
      BY <2>4, <3>6 DEF Home
    <3> QED BY <3>1, <3>7, <3>8 DEF AtHome
  <2> QED BY <2>3, <2>4
<1> QED BY <1>7, <1>8

LEMMA AsyncAcceptAtHome ==
    ASSUME NEW h \in HostRecords, NEW a \in Acceptors, NEW s \in Sockets, NEW p,
           AtHome(h, p), h.conn[s] = "closed", ~ Asked(h, s)
    PROVE  AtHome(AsyncAccept(h, a, s), p)
<1> DEFINE r == [acceptor |-> a, socket |-> s]
           g == [h EXCEPT !.conn[s] = "listening", !.attached = @ \union {s},
                          !.requests = Append(@, r)]
<1>1. h.requests \in Seq(Requests) /\ r \in Requests /\ r.socket = s
  BY DEF HostRecords, Requests
<1>2. AsyncAccept(h, a, s) = StartReceive(g)
  BY DEF AsyncAccept
<1> HIDE DEF r
<1>3. PICK q \in Seq(Requests) :
        /\ q = Append(h.requests, r) /\ DOMAIN q = 1 .. Len(h.requests) + 1
        /\ q[Len(h.requests) + 1] = r
        /\ \A i \in 1 .. Len(h.requests) : q[i] = h.requests[i]
  <2>1. Append(h.requests, r) \in Seq(Requests)
    BY <1>1
  <2>2. DOMAIN Append(h.requests, r) = 1 .. Len(h.requests) + 1
    BY <1>1
  <2>3. Append(h.requests, r)[Len(h.requests) + 1] = r
    BY <1>1
  <2>4. \A i \in 1 .. Len(h.requests) : Append(h.requests, r)[i] = h.requests[i]
    BY <1>1
  <2> QED BY <2>1, <2>2, <2>3, <2>4
<1>4. PICK v \in SUBSET Sockets : v = h.attached \union {s}
  BY DEF HostRecords
<1>5. g = [h EXCEPT !.conn[s] = "listening", !.attached = v, !.requests = q]
  BY <1>3, <1>4
<1> HIDE DEF g
<1>6. g \in HostRecords
  <2>1. PICK c \in [Sockets -> Connectivity] : c = [h.conn EXCEPT ![s] = "listening"]
    BY DEF HostRecords, Connectivity
  <2>2. g = [h EXCEPT !.conn = c, !.attached = v, !.requests = q]
    BY <1>5, <2>1
  <2> QED BY <2>2 DEF HostRecords
<1>7. /\ g.conn = [h.conn EXCEPT ![s] = "listening"] /\ g.attached = v
      /\ g.requests = q /\ g.sockets = h.sockets /\ g.lost = h.lost
      /\ g.shut = h.shut /\ g.remote = h.remote
      /\ g.failed = h.failed /\ SameFront(h, g)
  BY <1>5 DEF HostRecords, SameFront, SameReads
<1>8. \A t \in Sockets : g.conn[t] = IF t = s THEN "listening" ELSE h.conn[t]
  BY <1>7 DEF HostRecords
<1>9. DOMAIN h.requests = 1 .. Len(h.requests) /\ Len(h.requests) \in Nat
  BY <1>1
<1>10. Asked(g, s) /\ \A t : t # s => (Asked(g, t) <=> Asked(h, t))
  <2>1. Asked(g, s)
    <3>1. Len(h.requests) + 1 \in DOMAIN q
      BY <1>3, <1>9
    <3> QED BY <1>1, <1>3, <1>7, <3>1 DEF Asked
  <2>2. ASSUME NEW t, t # s, Asked(h, t) PROVE Asked(g, t)
    <3>1. PICK i \in DOMAIN h.requests : h.requests[i].socket = t
      BY <2>2 DEF Asked
    <3>2. i \in DOMAIN q /\ q[i] = h.requests[i]
      BY <1>3, <1>9, <3>1
    <3> QED BY <1>7, <3>1, <3>2 DEF Asked
  <2>3. ASSUME NEW t, t # s, Asked(g, t) PROVE Asked(h, t)
    <3>1. PICK i \in DOMAIN q : q[i].socket = t
      BY <1>7, <2>3 DEF Asked
    <3>2. i \in DOMAIN h.requests /\ q[i] = h.requests[i]
      BY <1>1, <1>3, <1>9, <2>3, <3>1
    <3> QED BY <3>1, <3>2 DEF Asked
  <2> QED BY <2>1, <2>2, <2>3
<1>11. AskedOnce(h) => AskedOnce(g)
  <2>1. SUFFICES ASSUME AskedOnce(h), NEW i \in DOMAIN q, NEW j \in DOMAIN q,
                        q[i].socket = q[j].socket
                 PROVE  i = j
    BY <1>7 DEF AskedOnce
  <2> DEFINE n == Len(h.requests) + 1
  <2>2. \A m \in DOMAIN q : m = n \/ (m \in DOMAIN h.requests /\ q[m] = h.requests[m])
    BY <1>3, <1>9
  <2>3. q[n].socket = s
    BY <1>1, <1>3
  <2> HIDE DEF n
  <2>4. \A m \in DOMAIN h.requests : h.requests[m].socket # s
    BY DEF Asked
  <2> QED BY <2>1, <2>2, <2>3, <2>4 DEF AskedOnce
<1>12. InFront(g) /\ Heard(g, p)
  BY <1>7 DEF AtHome, InFront, Heard, Incoming, SameFront, SameReads
<1>13. ASSUME NEW t \in Sockets \ h.shut, Rooted(h, p, t)
       PROVE  Rooted(g, p, t)
  <2>1. CASE t = s
    <3>1. \A x \in Remotes : h.sockets[x] # s
      BY <1>13, <2>1 DEF Rooted
    <3>2. g.conn[s] = "listening" /\ s \in g.attached
      BY <1>4, <1>7, <1>8
    <3> QED BY <1>7, <1>10, <2>1, <3>1, <3>2 DEF Rooted
  <2>2. CASE t # s
    <3>1. g.conn[t] = h.conn[t] /\ (t \in h.attached => t \in g.attached)
      BY <1>4, <1>7, <1>8, <2>2
    <3>2. Asked(g, t) <=> Asked(h, t)
      BY <1>10, <2>2
    <3> QED BY <1>7, <1>13, <3>1, <3>2 DEF Rooted
  <2> QED BY <2>1, <2>2
<1>14. Entries(g) = Entries(h) /\ g.open = h.open /\ g.raced = h.raced
  BY <1>7 DEF Entries, SameFront, SameReads
<1>15. Home(g, p)
  BY <1>7, <1>11, <1>13, <1>14 DEF AtHome, Home
<1>16. AtHome(g, p)
  BY <1>12, <1>15 DEF AtHome
<1> QED BY <1>2, <1>6, <1>16, StartReceiveAtHome

-----------------------------------------------------------------------------
\* The read that has completed was the only one.
Quiet(h) == ~ h.raced => h.posted = 0 /\ h.ready = 0

\* What a packet acknowledges is what its sender was sent.
Genuine(p, d) == d.ack # NoAnswer => p[d.from].got = d.ack /\ d.ack.to = d.from

LEMMA QuietInFront ==
    ASSUME NEW h, NEW k, NEW p, SameReads(h, k), Quiet(h), Heard(h, p)
    PROVE  InFront(k) /\ Heard(k, p) /\ Quiet(k)
<1>1. Quiet(k) /\ Incoming(k) = Incoming(h)
  BY DEF Quiet, SameReads, Incoming
<1>2. Heard(k, p)
  BY <1>1 DEF Heard
<1>3. InFront(k)
  <2>1. SUFFICES ASSUME ~ k.raced
                 PROVE  ~ (k.posted > 0) /\ ~ (k.ready > 0)
    BY DEF InFront
  <2> QED BY <1>1, <2>1 DEF Quiet
<1> QED BY <1>1, <1>2, <1>3

\* What serving a packet changes.
LEMMA DispatchStays ==
    ASSUME NEW h \in HostRecords, NEW s \in Sockets, NEW d \in Packets,
           h.calls >= 1, d.type = "handshake" => h.next <= MaxAnswers,
           Known(h), Place(h), InMap(h, s) \/ First(h, s)
    PROVE  LET m == Dispatch(h, s, d)
           IN  /\ m \in HostRecords /\ SameReads(h, m) /\ Known(m)
               /\ m.failed = "no" => h.failed = "no"
               /\ m.attached = h.attached /\ m.shut = h.shut /\ m.sockets = h.sockets
               /\ m.requests = h.requests /\ m.lost = h.lost
               /\ Answered(h, m, s, d.ack)
<1> DEFINE m == Dispatch(h, s, d)
<1>1. Moved(h, m, Ended(h, s))
  BY DispatchMoves
<1>2. Served(OnAnyPacketReceived(h, s), m, s, d.ack)
  BY DispatchServes
<1> HIDE DEF m
<1>3. /\ Known(m) /\ m.requests = h.requests /\ m.sockets = h.sockets /\ m.lost = h.lost
      /\ m.shut = h.shut /\ m.attached = h.attached /\ Answered(h, m, s, d.ack)
  BY <1>2, ServedPlace
<1>4. m \in HostRecords /\ SameReads(h, m) /\ (m.failed = "no" => h.failed = "no")
  BY <1>1 DEF Moved
<1> QED BY <1>3, <1>4 DEF m

\* A packet for a socket in the map.
LEMMA DispatchAtHome ==
    ASSUME NEW h \in HostRecords, NEW s \in Sockets, NEW d \in Packets,
           h.calls >= 1, d.type = "handshake" => h.next <= MaxAnswers,
           Known(h), Place(h), InMap(h, s), NEW p, Quiet(h), AtHome(h, p),
           ~ h.raced => h.sockets[d.from] = s, Genuine(p, d)
    PROVE  LET m == Dispatch(h, s, d)
           IN  m \in HostRecords /\ AtHome(m, p) /\ Quiet(m)
<1> DEFINE m == Dispatch(h, s, d)
<1>1. /\ m \in HostRecords /\ SameReads(h, m)
      /\ m.failed = "no" => h.failed = "no"
      /\ m.attached = h.attached /\ m.shut = h.shut /\ m.sockets = h.sockets
      /\ m.requests = h.requests /\ m.lost = h.lost
      /\ Answered(h, m, s, d.ack)
  BY DispatchStays
<1> HIDE DEF m
<1>2. InFront(m) /\ Heard(m, p) /\ Quiet(m)
  BY <1>1, QuietInFront DEF AtHome
<1>3. ASSUME m.failed = "no", ~ m.raced
      PROVE  /\ AskedOnce(m) /\ (Entries(m) # {} => m.open)
             /\ \A t \in Sockets \ m.shut : Rooted(m, p, t)
  <2>1. /\ AskedOnce(h) /\ (Entries(h) # {} => h.open) /\ ~ h.raced
        /\ \A t \in Sockets \ h.shut : Rooted(h, p, t)
    BY <1>1, <1>3 DEF AtHome, Home, SameReads
  <2>2. AskedOnce(m) /\ (Entries(m) # {} => m.open)
    BY <1>1, <2>1 DEF AskedOnce, Entries, SameReads
  <2>3. ASSUME NEW t \in Sockets \ m.shut
        PROVE  Rooted(m, p, t)
    <3>1. Rooted(h, p, t) /\ (Asked(m, t) <=> Asked(h, t))
      BY <1>1, <2>1 DEF Asked
    <3>2. CASE m.conn[t] = h.conn[t] /\ m.remote[t] = h.remote[t]
      BY <1>1, <3>1, <3>2 DEF Rooted
    <3>3. CASE ~ (m.conn[t] = h.conn[t] /\ m.remote[t] = h.remote[t])
      <4>1. /\ t = s /\ d.ack # NoAnswer
            /\ m.conn[s] = "established" /\ m.remote[s] = d.ack.to
        BY <1>1, <3>3 DEF Answered
      <4>2. h.sockets[d.from] = s /\ d.from \in Remotes /\ m.remote[s] = d.from
        BY <2>1, <4>1 DEF Genuine, Packets
      <4>3. ~ Asked(h, s)
        BY <3>1, <4>1, <4>2 DEF Rooted
      <4>4. \A r \in Remotes : h.sockets[r] = s => r = d.from /\ p[r].got.by = s
        BY <3>1, <4>1, <4>2 DEF Rooted
      <4> QED BY <1>1, <3>1, <4>1, <4>2, <4>3, <4>4 DEF Rooted
    <3> QED BY <3>2, <3>3
  <2> QED BY <2>2, <2>3
<1>4. Home(m, p)
  BY <1>3 DEF Home
<1> QED BY <1>1, <1>2, <1>4 DEF AtHome, m

LEMMA FirstLeaves ==
    ASSUME NEW h, NEW k, h.requests \in Seq(Requests), h.requests # <<>>,
           k.requests = Tail(h.requests)
    PROVE  LET s == Head(h.requests).socket
           IN  /\ \A t : Asked(k, t) => Asked(h, t)
               /\ \A t : Asked(h, t) => t = s \/ Asked(k, t)
               /\ AskedOnce(h) => AskedOnce(k) /\ ~ Asked(k, s)
               /\ Asked(h, s)
<1>1. Len(h.requests) \in Nat /\ Len(h.requests) >= 1 /\ DOMAIN h.requests = 1 .. Len(h.requests)
  OBVIOUS
<1>2. k.requests \in Seq(Requests) /\ Len(k.requests) = Len(h.requests) - 1
  BY <1>1
<1>3. \A j \in 1 .. Len(h.requests) - 1 : k.requests[j] = h.requests[j + 1]
  BY <1>1
<1>4. \A j \in 1 .. Len(h.requests) - 1 :
        k.requests[j] = h.requests[IF j < 1 THEN j ELSE j + 1]
  BY <1>1, <1>3
<1>5. Head(h.requests) = h.requests[1] /\ 1 \in 1 .. Len(h.requests)
  BY <1>1
<1>6. Asked(h, h.requests[1].socket)
  BY <1>1, <1>5 DEF Asked
<1>7. /\ \A t : Asked(k, t) => Asked(h, t)
      /\ \A t : Asked(h, t) => t = h.requests[1].socket \/ Asked(k, t)
      /\ AskedOnce(h) => AskedOnce(k) /\ ~ Asked(k, h.requests[1].socket)
  BY <1>2, <1>4, <1>5, RequestLeaves
<1> QED BY <1>5, <1>6, <1>7

\* The socket s of the first request was established and was accepted.
Accepted(h, k, s) ==
    /\ k.requests = Tail(h.requests) /\ h.lost \subseteq k.lost
    /\ \A x \in Remotes :
         \/ k.sockets[x] = h.sockets[x]
         \/ x = k.remote[s] /\ k.sockets[x] = s /\ h.sockets[x] = Nobody
    /\ h.sockets[k.remote[s]] = Nobody => k.sockets[k.remote[s]] = s

LEMMA AcceptedAtHome ==
    ASSUME NEW h \in HostRecords, NEW k, NEW s \in Sockets, NEW d \in Packets, NEW p,
           AtHome(h, p), Quiet(h), Genuine(p, d), ~ h.raced => h.sockets[d.from] = Nobody,
           First(h, s), h.open, h.failed = "no", SameReads(h, k), k.failed = "no",
           Linked(k), k.shut = h.shut, k.attached = h.attached,
           Answered(h, k, s, d.ack), k.conn[s] = "established", Accepted(h, k, s)
    PROVE  AtHome(k, p) /\ Quiet(k)
<1> DEFINE r == k.remote[s]
<1>1. /\ h.requests \in Seq(Requests) /\ h.requests # <<>> /\ s = Head(h.requests).socket
      /\ r \in Remotes /\ Nobody \notin Sockets
  BY ReadingAssumption DEF HostRecords, Linked, First
<1>2. InFront(k) /\ Heard(k, p) /\ Quiet(k)
  BY QuietInFront DEF AtHome
<1>3. /\ \A t : Asked(k, t) => Asked(h, t)
      /\ \A t : Asked(h, t) => t = s \/ Asked(k, t)
      /\ AskedOnce(h) => AskedOnce(k) /\ ~ Asked(k, s)
      /\ Asked(h, s)
  BY <1>1, FirstLeaves DEF Accepted
<1>4. ASSUME ~ k.raced
      PROVE  /\ AskedOnce(k) /\ (Entries(k) # {} => k.open)
             /\ \A t \in Sockets \ k.shut : Rooted(k, p, t)
  <2>1. /\ AskedOnce(h) /\ ~ h.raced /\ k.open
        /\ \A t \in Sockets \ h.shut : Rooted(h, p, t)
    BY <1>4 DEF AtHome, Home, SameReads
  <2>2. ASSUME NEW t \in Sockets \ k.shut, t # s
        PROVE  Rooted(k, p, t)
    <3>1. Rooted(h, p, t) /\ (Asked(k, t) <=> Asked(h, t)) /\ t # Nobody
      BY <1>1, <1>3, <2>1, <2>2
    <3>2. k.conn[t] = h.conn[t] /\ k.remote[t] = h.remote[t]
      BY <2>2 DEF Answered
    <3>3. \A x \in Remotes : k.sockets[x] = t <=> h.sockets[x] = t
      BY <2>2, <3>1 DEF Accepted
    <3>4. k.conn[t] = "established" => k.remote[t] \in Remotes
      BY DEF Linked
    <3>5. t \notin k.lost => t \notin h.lost
      BY DEF Accepted
    <3> QED BY <3>1, <3>2, <3>3, <3>4, <3>5 DEF Rooted
  <2>3. ASSUME s \notin k.shut
        PROVE  Rooted(k, p, s)
    <3>1. Rooted(h, p, s)
      BY <2>1, <2>3
    <3>2. h.conn[s] = "listening" /\ s \in h.attached /\ \A x \in Remotes : h.sockets[x] # s
      BY <1>3, <3>1 DEF Rooted
    <3>3. d.ack # NoAnswer /\ d.ack.by = s /\ r = d.ack.to
      BY <3>2 DEF Answered
    <3>4. r = d.from /\ p[r].got.by = s /\ h.sockets[r] = Nobody
      BY <2>1, <3>3 DEF Genuine
    <3>5. k.sockets[r] = s /\ \A x \in Remotes : k.sockets[x] = s => x = r
      BY <3>2, <3>4 DEF Accepted
    <3> QED BY <1>3, <2>1, <3>2, <3>4, <3>5 DEF Rooted
  <2> QED BY <1>3, <2>1, <2>2, <2>3
<1>5. Home(k, p)
  BY <1>4 DEF Home
<1> QED BY <1>2, <1>5 DEF AtHome

LEMMA EstablishConnectionAtHome ==
    ASSUME NEW h \in HostRecords, NEW d \in Packets, NEW p,
           h.calls >= 1, d.type = "handshake" => h.next <= MaxAnswers,
           Known(h), Place(h), Accounted(h, 0), h.failed = "no", h.open,
           AtHome(h, p), Quiet(h), Genuine(p, d), ~ h.raced => h.sockets[d.from] = Nobody
    PROVE  LET k == EstablishConnection(h, d)
           IN  AtHome(k, p) /\ Quiet(k)
<1> DEFINE s == Head(h.requests).socket
           m == Dispatch(h, s, d)
           k == EstablishConnection(h, d)
<1>1. h.requests \in Seq(Requests)
  BY DEF HostRecords
<1>2. k \in HostRecords /\ SameReads(h, k)
  BY EstablishConnectionAccounted
<1>3. InFront(k) /\ Heard(k, p) /\ Quiet(k)
  <2> HIDE DEF k
  <2> QED BY <1>2, QuietInFront DEF AtHome
<1>4. CASE h.requests = <<>> \/ d.type = "data"
  <2>1. k = [h EXCEPT !.stolen = TRUE]
    BY <1>4 DEF EstablishConnection
  <2>2. SameHomes(h, k) /\ k.failed = h.failed
    BY <2>1 DEF HostRecords, SameHomes
  <2> HIDE DEF k
  <2>3. Home(k, p)
    BY <1>2, <2>2, SameHome DEF AtHome, Onward, SameReads
  <2> QED BY <1>3, <2>3 DEF AtHome, k
<1>5. CASE h.requests # <<>> /\ d.type # "data"
  <2>1. Head(h.requests) \in Requests
    BY <1>1, <1>5
  <2>2. s \in Sockets /\ First(h, s)
    BY <1>5, <2>1 DEF Requests, First
  <2>3. k =
          LET h2 == [m EXCEPT !.requests = Tail(@), !.calls = @ - 1,
                              !.stolen = @ \/ s \notin h.receiving]
          IN  IF m.failed # "no" THEN m
              ELSE IF m.conn[s] = "established" THEN ProcessAccept(h2, s)
              ELSE [m EXCEPT !.calls = @ + 1, !.repeated = @ \/ s \in h.receiving]
    BY <1>5 DEF EstablishConnection
  <2> HIDE DEF s, k
  <2>4. /\ m \in HostRecords /\ SameReads(h, m) /\ Known(m)
        /\ m.attached = h.attached /\ m.shut = h.shut /\ m.sockets = h.sockets
        /\ m.requests = h.requests /\ m.lost = h.lost
        /\ Answered(h, m, s, d.ack)
    BY <2>2, DispatchStays
  <2> HIDE DEF m
  <2>5. CASE m.failed # "no"
    <3>1. Home(k, p)
      BY <2>3, <2>5 DEF Home
    <3> QED BY <1>3, <3>1 DEF AtHome, k
  <2>6. CASE m.failed = "no" /\ m.conn[s] # "established"
    <3>1. k = [m EXCEPT !.calls = @ + 1, !.repeated = @ \/ s \in h.receiving]
      BY <2>3, <2>6
    <3>2. SameHomes(m, k) /\ k.failed = "no"
      BY <2>4, <2>6, <3>1 DEF HostRecords, SameHomes
    <3>3. m.conn = h.conn /\ m.remote = h.remote
      <4>1. \A t \in Sockets : m.conn[t] = h.conn[t] /\ m.remote[t] = h.remote[t]
        BY <2>2, <2>4, <2>6 DEF Answered
      <4>2. /\ m.conn = [t \in Sockets |-> m.conn[t]]
            /\ h.conn = [t \in Sockets |-> h.conn[t]]
            /\ m.remote = [t \in Sockets |-> m.remote[t]]
            /\ h.remote = [t \in Sockets |-> h.remote[t]]
        BY <2>4 DEF HostRecords
      <4> QED BY <4>1, <4>2
    <3>4. SameHomes(h, k)
      BY <2>4, <3>2, <3>3 DEF SameHomes
    <3>5. Home(k, p)
      BY <1>2, <3>2, <3>4, SameHome DEF AtHome, Onward, SameReads
    <3> QED BY <1>3, <3>5 DEF AtHome, k
  <2>7. CASE m.failed = "no" /\ m.conn[s] = "established"
    <3> DEFINE g == [m EXCEPT !.requests = Tail(@), !.calls = @ - 1,
                              !.stolen = @ \/ s \notin h.receiving]
               r == m.remote[s]
    <3>1. k = ProcessAccept(g, s)
      BY <2>3, <2>7
    <3>2. r \in Remotes
      BY <2>2, <2>4, <2>7 DEF Known
    <3>3. /\ k.attached = m.attached /\ k.requests = Tail(m.requests)
          /\ k.shut = m.shut /\ k.conn = m.conn /\ k.remote = m.remote
          /\ k.failed = m.failed
          /\ \/ /\ m.sockets[r] = Nobody /\ k.lost = m.lost
                /\ k.sockets = [m.sockets EXCEPT ![r] = s]
             \/ /\ m.sockets[r] # Nobody /\ k.sockets = m.sockets
                /\ k.lost = m.lost \union ({s} \ {m.sockets[r]})
      <4>1. /\ g.attached = m.attached /\ g.sockets = m.sockets
            /\ g.requests = Tail(m.requests) /\ g.lost = m.lost /\ g.shut = m.shut
            /\ g.conn = m.conn /\ g.remote = m.remote /\ g.failed = m.failed
        BY <2>4 DEF HostRecords
      <4>2. /\ g = [f \in DOMAIN m |-> g[f]]
            /\ {"attached", "sockets", "requests", "lost", "shut", "conn",
                "remote", "failed"} \subseteq DOMAIN m
        BY <2>4 DEF HostRecords
      <4> HIDE DEF g
      <4>3. CASE m.sockets[r] = Nobody
        <5>1. k = [g EXCEPT !.sockets = [m.sockets EXCEPT ![r] = s]]
          BY <3>1, <4>1, <4>3 DEF ProcessAccept
        <5> QED BY <4>1, <4>2, <4>3, <5>1
      <4>4. CASE m.sockets[r] # Nobody
        <5>1. k = [g EXCEPT !.lost = m.lost \union ({s} \ {m.sockets[r]})]
          BY <3>1, <4>1, <4>4 DEF ProcessAccept
        <5> QED BY <4>1, <4>2, <4>4, <5>1
      <4> QED BY <4>3, <4>4
    <3> HIDE DEF g
    <3>4. Accepted(h, k, s)
      <4>1. DOMAIN m.sockets = Remotes
        BY <2>4 DEF HostRecords
      <4>2. k.requests = Tail(h.requests) /\ h.lost \subseteq k.lost /\ k.remote[s] = r
        BY <2>4, <3>3
      <4>3. h.sockets[r] = Nobody => k.sockets[r] = s
        BY <2>4, <3>2, <3>3, <4>1
      <4>4. \A x \in Remotes :
              \/ k.sockets[x] = h.sockets[x]
              \/ x = r /\ k.sockets[x] = s /\ h.sockets[x] = Nobody
        BY <2>4, <3>2, <3>3, <4>1
      <4> HIDE DEF r
      <4> QED BY <4>2, <4>3, <4>4 DEF Accepted
    <3>5. Answered(h, k, s, d.ack) /\ Linked(k)
      BY <2>4, <3>3 DEF Answered, Known, Linked
    <3>6. /\ k.shut = h.shut /\ k.attached = h.attached
          /\ k.conn[s] = "established" /\ k.failed = "no"
      BY <2>4, <2>7, <3>3
    <3>7. AtHome(k, p)
      BY <1>2, <2>2, <3>4, <3>5, <3>6, AcceptedAtHome
    <3> QED BY <1>3, <3>7 DEF k
  <2> QED BY <2>5, <2>6, <2>7
<1> QED BY <1>4, <1>5

-----------------------------------------------------------------------------
\* Who got a handshake asked for it, and got the one meant for it.
Promised(p) ==
    \A r \in Remotes : p[r].got # NoAnswer =>
        p[r].state \in {"connected", "failed"} /\ p[r].got.to = r

LEMMA ProcessPeekAtHome ==
    ASSUME NEW h, NEW p, Sound(h, 0), Placed(h), h.failed = "no",
           h.inbox # <<>> /\ Head(h.inbox).type = "handshake" => h.next <= MaxAnswers,
           h.ready > 0, AtHome(h, p), Promised(p)
    PROVE  AtHome(ProcessPeek(h), p)
<1>1. /\ h \in HostRecords /\ h.ready \in Nat /\ h.inbox \in Seq(Datagrams)
      /\ Place(h) /\ Known(h) /\ Accounted(h, 0)
  BY DEF Sound, HostRecords, Placed
<1>2. PICK v \in Nat : v = h.ready - 1
  BY <1>1
<1> DEFINE h1 == [h EXCEPT !.ready = v]
           d  == Head(h.inbox)
           h2 == [h1 EXCEPT !.inbox = Tail(@)]
           s  == IF h.from = Nobody THEN Nobody ELSE h.sockets[h.from]
           h3 == [h2 EXCEPT !.stolen = @ \/ s \notin h.receiving]
<1>3. ProcessPeek(h) =
        IF ~ h.open THEN h1
        ELSE IF h.calls = 0 THEN Discard(h1, "nothing")
        ELSE IF h.calls \notin 1 .. Receivers(h) + 1 THEN Fail(h1, "process_peek")
        ELSE IF h.inbox = <<>> \/ d.type = "empty" THEN Discard(h1, "read")
        ELSE FinishRead(IF s = Nobody THEN EstablishConnection(h2, d)
                        ELSE Dispatch(h3, s, d))
  BY <1>2 DEF ProcessPeek
<1>4. /\ h1 \in HostRecords /\ SameHomes(h, h1) /\ h1.failed = h.failed
      /\ h1.calls = h.calls /\ h1.inbox = h.inbox /\ h1.next = h.next
      /\ h1.open = h.open /\ h1.raced = h.raced /\ h1.posted = h.posted /\ h1.ready = v
      /\ h1.requests = h.requests /\ h1.receiving = h.receiving
      /\ h1.stolen = h.stolen /\ h1.repeated = h.repeated
      /\ SamePlaces(h, h1)
  <2>1. h1 \in HostRecords
    BY <1>1 DEF HostRecords
  <2>2. SamePlaces(h, h1)
    BY <1>1 DEF HostRecords, SamePlaces
  <2>3. /\ h1.failed = h.failed /\ h1.calls = h.calls /\ h1.inbox = h.inbox
        /\ h1.next = h.next /\ h1.open = h.open /\ h1.raced = h.raced
        /\ h1.posted = h.posted /\ h1.ready = v
        /\ h1.stolen = h.stolen /\ h1.repeated = h.repeated
    BY <1>1 DEF HostRecords
  <2> QED BY <2>1, <2>2, <2>3 DEF SamePlaces, SameHomes
<1> HIDE DEF h1
<1>5. ~ h.raced => h.posted = 0 /\ v = 0
  <2>1. h.posted \in Nat
    BY <1>1 DEF HostRecords
  <2> QED BY <1>1, <1>2, <2>1 DEF Sound, OneRead
<1>6. Quiet(h1) /\ Onward(h, h1)
  BY <1>4, <1>5 DEF Quiet, Onward
<1>7. InFront(h1)
  <2>1. SUFFICES ASSUME ~ h1.raced
                 PROVE  ~ (h1.posted > 0) /\ ~ (h1.ready > 0)
    BY DEF InFront
  <2> QED BY <1>6, <2>1 DEF Quiet
<1>8. AtHome(h1, p)
  <2>1. Incoming(h1) = Incoming(h)
    BY <1>4 DEF Incoming
  <2> QED BY <1>4, <1>6, <1>7, <2>1, ReadAtHome
<1>9. CASE ~ h.open
  BY <1>3, <1>8, <1>9
<1>10. CASE h.open /\ h.calls = 0
  BY <1>3, <1>4, <1>6, <1>8, <1>10, DiscardAtHome DEF Quiet
<1>11. CASE h.open /\ h.calls # 0 /\ h.calls \notin 1 .. Receivers(h) + 1
  <2> DEFINE k == Fail(h1, "process_peek")
  <2>1. SameHomes(h1, k) /\ SameFront(h1, k) /\ k.failed = "process_peek"
    BY <1>4 DEF Fail, HostRecords, SameHomes, SameFront, SameReads
  <2> HIDE DEF k
  <2>2. AtHome(k, p)
    BY <1>8, <2>1, SameAtHome
  <2> QED BY <1>3, <1>11, <2>2 DEF k
<1>12. CASE /\ h.open /\ h.calls # 0 /\ h.calls \in 1 .. Receivers(h) + 1
            /\ h.inbox = <<>> \/ d.type = "empty"
  BY <1>3, <1>4, <1>6, <1>8, <1>12, DiscardAtHome DEF Quiet
<1>13. CASE /\ h.open /\ h.calls # 0 /\ h.calls \in 1 .. Receivers(h) + 1
            /\ ~ (h.inbox = <<>> \/ d.type = "empty")
  <2>1. d \in Packets /\ d \in Incoming(h)
    <3>1. d \in Datagrams /\ 1 \in DOMAIN h.inbox /\ d = h.inbox[1]
      BY <1>1, <1>13
    <3>2. d \in Incoming(h)
      BY <3>1 DEF Incoming
    <3>3. d \in Packets
      BY <1>13, <3>1 DEF Datagrams, EmptyPacket
    <3> QED BY <3>2, <3>3
  <2>2. PICK q \in Seq(Datagrams) :
          /\ q = Tail(h1.inbox)
          /\ \A i \in DOMAIN q : i + 1 \in DOMAIN h1.inbox /\ q[i] = h1.inbox[i + 1]
    <3>1. Tail(h.inbox) \in Seq(Datagrams)
      BY <1>1, <1>13, HeadTailProperties
    <3>2. \A i \in DOMAIN Tail(h.inbox) :
            i + 1 \in DOMAIN h.inbox /\ Tail(h.inbox)[i] = h.inbox[i + 1]
      BY <1>1, <1>13
    <3> QED BY <1>4, <3>1, <3>2
  <2>3. h2 = [h1 EXCEPT !.inbox = q]
    BY <2>2
  <2>4. d.type = "handshake" => h.next <= MaxAnswers
    BY <1>13
  <2>5. h.calls >= 1
    BY <1>1, <1>13, Counting
  <2>6. /\ h2 \in HostRecords /\ SamePlaces(h1, h2) /\ h2.failed = h1.failed
        /\ h2.calls = h1.calls /\ h2.next = h1.next /\ h2.inbox = q
        /\ h2.open = h1.open /\ h2.raced = h1.raced /\ h2.posted = h1.posted
        /\ h2.ready = h1.ready /\ h2.stolen = h1.stolen /\ h2.repeated = h1.repeated
    <3>1. h2 \in HostRecords
      BY <1>4, <2>3 DEF HostRecords
    <3>2. SamePlaces(h1, h2)
      BY <1>4, <2>3 DEF HostRecords, SamePlaces
    <3>3. /\ h2.failed = h1.failed /\ h2.calls = h1.calls /\ h2.next = h1.next
          /\ h2.inbox = q /\ h2.open = h1.open /\ h2.raced = h1.raced
          /\ h2.posted = h1.posted /\ h2.ready = h1.ready
          /\ h2.stolen = h1.stolen /\ h2.repeated = h1.repeated
      BY <1>4, <2>3 DEF HostRecords
    <3> QED BY <3>1, <3>2, <3>3
  <2> HIDE DEF h2
  <2>7. /\ SamePlaces(h, h2) /\ h2.failed = "no" /\ h2.calls = h.calls
        /\ h2.next = h.next /\ h2.open /\ h2.raced = h.raced
        /\ h2.stolen = h.stolen /\ h2.repeated = h.repeated
    BY <1>4, <1>13, <2>6 DEF SamePlaces
  <2>8. Quiet(h2) /\ AtHome(h2, p)
    <3>1. Quiet(h2)
      BY <1>6, <2>6 DEF Quiet
    <3>2. InFront(h2)
      <4>1. SUFFICES ASSUME ~ h2.raced
                     PROVE  ~ (h2.posted > 0) /\ ~ (h2.ready > 0)
        BY DEF InFront
      <4> QED BY <3>1, <4>1 DEF Quiet
    <3>3. Incoming(h2) \subseteq Incoming(h1)
      BY <2>2, <2>6 DEF Incoming
    <3>4. SameHomes(h1, h2) /\ Onward(h1, h2)
      BY <2>6 DEF SamePlaces, SameHomes, Onward
    <3> QED BY <1>8, <2>6, <3>1, <3>2, <3>3, <3>4, ReadAtHome
  <2>9. Genuine(p, d)
    <3>1. d.from \in Remotes
      BY <2>1 DEF Packets
    <3> QED BY <2>1, <3>1 DEF AtHome, Heard, Promised, Genuine
  <2>10. ~ h.raced => s = h.sockets[d.from]
    <3>1. d.from \in Remotes /\ d.from # Nobody
      BY <2>1, ReadingAssumption DEF Packets
    <3>2. ~ h.raced => h.from = d.from
      BY <1>13 DEF AtHome, InFront
    <3> QED BY <3>1, <3>2
  <2>11. Known(h2) /\ Place(h2) /\ Accounted(h2, 0)
    <3>1. Accounted(h2, 0)
      BY <1>1, <2>7 DEF Accounted, Counted, SamePlaces
    <3> QED BY <1>1, <2>7, <3>1 DEF SamePlaces, Known, Place, InMap, Asked, First
  <2>12. CASE s = Nobody
    <3>1. ~ h2.raced => h2.sockets[d.from] = Nobody
      BY <2>7, <2>10, <2>12 DEF SamePlaces
    <3> HIDE DEF d, s
    <3> DEFINE k == EstablishConnection(h2, d)
    <3>2. k \in HostRecords
      BY <2>1, <2>4, <2>5, <2>6, <2>7, <2>11, EstablishConnectionAccounted
    <3>3. AtHome(k, p) /\ Quiet(k)
      BY <2>1, <2>4, <2>5, <2>6, <2>7, <2>8, <2>9, <2>11, <3>1, EstablishConnectionAtHome
    <3> HIDE DEF k
    <3>4. AtHome(FinishRead(k), p)
      BY <3>2, <3>3, FinishReadAtHome DEF Quiet
    <3> QED BY <1>3, <1>13, <2>12, <3>4 DEF k, d
  <2>13. CASE s # Nobody
    <3>1. s \in Sockets /\ InMap(h, s)
      BY <1>1, <2>13 DEF HostRecords, InMap
    <3>2. ~ h.raced => h.sockets[d.from] = s
      BY <2>10
    <3> HIDE DEF s, d
    <3>3. /\ h3 \in HostRecords /\ SamePlaces(h2, h3) /\ SameReads(h2, h3)
          /\ h3.from = h2.from
          /\ h3.failed = h2.failed /\ h3.calls = h2.calls /\ h3.next = h2.next
      <4>1. PICK b \in BOOLEAN : b = (h2.stolen \/ s \notin h.receiving)
        <5>1. PICK x \in BOOLEAN : x <=> (h2.stolen \/ s \notin h.receiving)
          OBVIOUS
        <5>2. h2.stolen \in BOOLEAN
          BY <2>6 DEF HostRecords
        <5>3. x = (h2.stolen \/ s \notin h.receiving)
          BY <5>1, <5>2
        <5> QED BY <5>3
      <4>2. h3 = [h2 EXCEPT !.stolen = b]
        BY <4>1
      <4>3. h3 \in HostRecords /\ h3.failed = h2.failed /\ SameReceives(h2, h3)
            /\ h3.next = h2.next /\ SameReads(h2, h3)
        BY <2>6, <4>2, SetStolen
      <4>4. SamePlaces(h2, h3) /\ h3.from = h2.from
        BY <2>6, <4>2 DEF HostRecords, SamePlaces
      <4> QED BY <4>3, <4>4 DEF SameReceives
    <3> HIDE DEF h3
    <3>4. /\ SamePlaces(h, h3) /\ h3.failed = "no" /\ h3.calls = h.calls
          /\ h3.next = h.next
      BY <2>7, <3>3 DEF SamePlaces
    <3>5. Known(h3) /\ Place(h3) /\ InMap(h3, s)
      BY <1>1, <3>1, <3>4 DEF SamePlaces, Known, Place, InMap, Asked, First
    <3>6. AtHome(h3, p) /\ Quiet(h3)
      <4>1. SameHomes(h2, h3) /\ SameFront(h2, h3) /\ Quiet(h3)
        BY <2>8, <3>3 DEF SamePlaces, SameHomes, SameFront, SameReads, Quiet
      <4> QED BY <2>8, <3>3, <4>1, SameAtHome
    <3>7. ~ h3.raced => h3.sockets[d.from] = s
      BY <2>7, <3>2, <3>3, <3>4 DEF SamePlaces, SameReads
    <3> DEFINE k == Dispatch(h3, s, d)
    <3>8. k \in HostRecords /\ AtHome(k, p) /\ Quiet(k)
      BY <2>1, <2>4, <2>5, <2>9, <3>1, <3>3, <3>4, <3>5, <3>6, <3>7, DispatchAtHome
    <3> HIDE DEF k
    <3>9. AtHome(FinishRead(k), p)
      BY <3>8, FinishReadAtHome DEF Quiet
    <3> QED BY <1>3, <1>13, <2>13, <3>9 DEF k, d
  <2> QED BY <2>12, <2>13
<1> QED BY <1>9, <1>10, <1>11, <1>12, <1>13

\* A peer that gets a handshake was sent nothing before.
LEMMA PeerAtHome ==
    ASSUME NEW h \in HostRecords, NEW p, NEW pp, AtHome(h, p),
           \A r \in Remotes : p[r].got # NoAnswer => pp[r].got = p[r].got
    PROVE  AtHome(h, pp)
<1>1. \A d \in Incoming(h) : d.ack # NoAnswer => d.from \in Remotes
  <2>1. h.inbox \in Seq(Datagrams)
    BY DEF HostRecords
  <2>2. \A d \in Incoming(h) : d \in Datagrams
    BY <2>1 DEF Incoming
  <2> QED BY <2>2 DEF Datagrams, Packets, EmptyPacket
<1>2. Heard(h, pp)
  BY <1>1 DEF AtHome, Heard
<1>3. ASSUME NEW s \in Sockets, Rooted(h, p, s)
      PROVE  Rooted(h, pp, s)
  <2>1. s # Nobody /\ NoAnswer.by = Nobody
    BY ReadingAssumption DEF NoAnswer
  <2>2. \A r \in Remotes : h.sockets[r] = s => pp[r].got.by = s
    BY <1>3, <2>1 DEF Rooted
  <2> QED BY <1>3, <2>2 DEF Rooted
<1>4. Home(h, pp)
  BY <1>3 DEF AtHome, Home
<1> QED BY <1>2, <1>4 DEF AtHome

HomeNow == AtHome(host, peer) /\ Promised(peer)

LEMMA StepHome ==
    ASSUME NEW h \in HostRecords, AtHome(h, peer), Becomes(h), Promised(peer),
           UNCHANGED peer
    PROVE  HomeNow'
<1>1. AtHome(host', peer)
  BY SettledAtHome DEF Becomes
<1> QED BY <1>1 DEF HomeNow

LEMMA AddAtHome ==
    ASSUME IInv, host.failed = "no", NEW p, AtHome(host, p)
    PROVE  LET k == Add(host)
           IN  k \in HostRecords /\ AtHome(k, p) /\ SameHomes(host, k)
<1> DEFINE k == Add(host)
<1>1. k \in HostRecords /\ host \in HostRecords
  <2>1. Sound(host, 0) /\ NoneLeft(host)
    BY DEF IInv
  <2> QED BY <2>1, AddSound DEF Sound
<1>2. CASE Alive(host)
  BY <1>1, <1>2 DEF Add, SameHomes
<1>3. CASE ~ Alive(host)
  <2>1. k = [host EXCEPT !.open = TRUE]
    BY <1>3 DEF Add
  <2>2. /\ SameHomes(host, k) /\ k.failed = host.failed /\ k.raced = host.raced
        /\ k.posted = host.posted /\ k.ready = host.ready /\ k.inbox = host.inbox
        /\ k.open
    BY <1>1, <2>1 DEF HostRecords, SameHomes
  <2>3. ~ (host.posted > 0) /\ ~ (host.ready > 0)
    <3>1. /\ host.posted \in Nat /\ host.ready \in Nat /\ host.empties \in Nat
          /\ ~ (host.posted + host.ready + host.empties > 0)
      BY <1>1, <1>3 DEF HostRecords, Alive
    <3> QED BY <3>1
  <2> HIDE DEF k
  <2>4. InFront(k) /\ Onward(host, k) /\ Incoming(k) = Incoming(host)
    BY <2>2, <2>3 DEF InFront, Onward, Incoming
  <2>5. Heard(k, p)
    BY <2>4 DEF AtHome, Heard
  <2>6. Home(k, p)
    <3>1. SUFFICES ASSUME k.failed = "no", ~ k.raced
                   PROVE  /\ AskedOnce(k) /\ (Entries(k) # {} => k.open)
                          /\ \A s \in Sockets \ k.shut : Rooted(k, p, s)
      BY DEF Home
    <3>2. AskedOnce(host) /\ \A s \in Sockets \ host.shut : Rooted(host, p, s)
      BY <2>2, <3>1 DEF AtHome, Home
    <3>3. \A s \in Sockets : Rooted(host, p, s) => Rooted(k, p, s)
      BY <2>2 DEF Rooted, Asked, SameHomes
    <3>4. k.shut = host.shut /\ AskedOnce(k)
      BY <2>2, <3>2 DEF SameHomes, AskedOnce
    <3> QED BY <2>2, <3>2, <3>3, <3>4
  <2> QED BY <1>1, <2>2, <2>4, <2>5, <2>6 DEF AtHome, k
<1> QED BY <1>2, <1>3

\* A socket that is not asked for comes to hold the multiplexer.
LEMMA AttachedAtHome ==
    ASSUME NEW h \in HostRecords, NEW p, AtHome(h, p), NEW v \in SUBSET Sockets,
           h.attached \subseteq v
    PROVE  LET k == [h EXCEPT !.attached = v]
           IN  k \in HostRecords /\ AtHome(k, p)
<1> DEFINE k == [h EXCEPT !.attached = v]
<1>1. k \in HostRecords
  BY DEF HostRecords
<1>2. /\ k.attached = v /\ k.shut = h.shut /\ k.sockets = h.sockets
      /\ k.requests = h.requests /\ k.lost = h.lost
      /\ k.conn = h.conn /\ k.remote = h.remote
      /\ SameFront(h, k) /\ k.failed = h.failed
  BY DEF HostRecords, SameFront, SameReads
<1> HIDE DEF k
<1>3. InFront(k) /\ Heard(k, p)
  BY <1>2 DEF AtHome, InFront, Heard, Incoming, SameFront, SameReads
<1>4. \A s \in Sockets : Rooted(h, p, s) => Rooted(k, p, s)
  BY <1>2 DEF Rooted, Asked
<1>5. Entries(k) = Entries(h) /\ (AskedOnce(h) => AskedOnce(k))
  BY <1>2 DEF Entries, AskedOnce
<1>6. k.open = h.open /\ k.raced = h.raced
  BY <1>2 DEF SameFront, SameReads
<1>7. Home(k, p)
  BY <1>2, <1>4, <1>5, <1>6 DEF AtHome, Home
<1> QED BY <1>1, <1>3, <1>7 DEF AtHome, k

-----------------------------------------------------------------------------
LEMMA UserHomes ==
    ASSUME IInv, PlacedNow, HomeNow, NEW s \in Sockets,
           Bind(s) \/ Receive(s) \/ UserCloses(s) \/ KeepaliveTimeout(s)
             \/ \E a \in Acceptors : Accept(a, s)
    PROVE  HomeNow'
<1> USE DEF Step
<1>1. /\ Sound(host, 0) /\ host \in HostRecords /\ host.failed = "no"
      /\ Known(host) /\ AtHome(host, peer) /\ Promised(peer) /\ UNCHANGED peer
  BY DEF IInv, Sound, PlacedNow, Placed, HomeNow, Bind, Accept, Receive, UserCloses,
         KeepaliveTimeout
<1>2. CASE Bind(s)
  <2> DEFINE g == Add(host)
             h == [g EXCEPT !.attached = @ \union {s}]
  <2>1. Becomes(h)
    BY <1>2 DEF Bind
  <2>2. g \in HostRecords /\ AtHome(g, peer)
    BY <1>1, AddAtHome
  <2> HIDE DEF g
  <2>3. PICK v \in SUBSET Sockets : v = g.attached \union {s}
    BY <2>2 DEF HostRecords
  <2>4. h = [g EXCEPT !.attached = v]
    BY <2>3
  <2> HIDE DEF h
  <2>5. h \in HostRecords /\ AtHome(h, peer)
    BY <2>2, <2>3, <2>4, AttachedAtHome
  <2> QED BY <1>1, <2>1, <2>5, StepHome
<1>3. ASSUME NEW a \in Acceptors, Accept(a, s)
      PROVE  HomeNow'
  <2>1. /\ Becomes(AsyncAccept(host, a, s)) /\ host.stuck = "no"
        /\ host.conn[s] = "closed" /\ ~ Asked(host, s)
    BY <1>3 DEF Accept, Pending, Asked
  <2>2. AsyncAccept(host, a, s) \in HostRecords
    BY <1>1, <2>1, AsyncAcceptSound DEF Sound
  <2>3. AtHome(AsyncAccept(host, a, s), peer)
    BY <1>1, <2>1, AsyncAcceptAtHome
  <2> QED BY <1>1, <2>1, <2>2, <2>3, StepHome
<1>4. CASE Receive(s)
  <2> DEFINE w == [host EXCEPT !.waiting = @ \union {s}]
             f == [host EXCEPT !.kept[s] = @ - 1]
             h == IF host.kept[s] > 0 THEN f ELSE IdempotentStartReceive(w, s)
  <2>1. Becomes(h) /\ host.stuck = "no"
    BY <1>4 DEF Receive
  <2>2. Sound(w, 0) /\ w.stuck = "no" /\ w \in HostRecords /\ AtHome(w, peer)
    <3>1. PICK v \in SUBSET Sockets : v = host.waiting \union {s}
      BY <1>1 DEF HostRecords
    <3>2. Unseen(host, w)
      BY <1>1, <3>1, SetUnseen
    <3>3. SameHomes(host, w) /\ w.from = host.from
      BY <1>1 DEF HostRecords, SameHomes
    <3> HIDE DEF w
    <3>4. Sound(w, 0)
      BY <1>1, <3>2, UnseenSound
    <3>5. AtHome(w, peer)
      BY <1>1, <3>2, <3>3, SameAtHome DEF Unseen, SameFront
    <3> QED BY <2>1, <3>2, <3>4, <3>5 DEF Unseen, SameReads
  <2>3. host.kept[s] > 0 => f \in HostRecords /\ AtHome(f, peer)
    <3>1. SUFFICES ASSUME host.kept[s] > 0
                   PROVE  f \in HostRecords /\ AtHome(f, peer)
      OBVIOUS
    <3>2. PICK n \in Nat : n = host.kept[s] - 1
      BY <1>1, <3>1 DEF HostRecords
    <3>3. Unseen(host, f)
      BY <1>1, <3>2, SetUnseen
    <3>4. SameHomes(host, f) /\ f.from = host.from
      BY <1>1 DEF HostRecords, SameHomes
    <3> HIDE DEF f
    <3>5. AtHome(f, peer)
      BY <1>1, <3>3, <3>4, SameAtHome DEF Unseen, SameFront
    <3> QED BY <3>3, <3>5 DEF Unseen
  <2> HIDE DEF w, f
  <2>4. /\ AtHome(IdempotentStartReceive(w, s), peer)
        /\ IdempotentStartReceive(w, s) \in HostRecords
    BY <2>2, IdempotentStartReceiveAtHome, IdempotentStartReceiveSound DEF Sound
  <2>5. AtHome(h, peer) /\ h \in HostRecords
    BY <2>3, <2>4
  <2> HIDE DEF h
  <2> QED BY <1>1, <2>1, <2>5, StepHome
<1>5. CASE UserCloses(s) \/ KeepaliveTimeout(s)
  <2>1. Becomes(Close(host, s))
    BY <1>5 DEF UserCloses, KeepaliveTimeout
  <2>2. Linked(host)
    BY <1>1 DEF Known, Linked
  <2>3. AtHome(Close(host, s), peer) /\ Close(host, s) \in HostRecords
    BY <1>1, <2>2, CloseAtHome, CloseSound DEF Sound
  <2> QED BY <1>1, <2>1, <2>3, StepHome
<1> QED BY <1>2, <1>3, <1>4, <1>5

LEMMA AcceptorHomes ==
    ASSUME IInv, PlacedNow, HomeNow, NEW a \in Acceptors,
           Construct(a) \/ CloseAcceptor(a) \/ Turn(a) \/ Destroy(a)
    PROVE  HomeNow'
<1> USE DEF Step
<1>1. /\ Sound(host, 0) /\ host \in HostRecords /\ host.failed = "no"
      /\ Known(host) /\ AtHome(host, peer) /\ Promised(peer) /\ UNCHANGED peer
  BY DEF IInv, Sound, PlacedNow, Placed, HomeNow, Construct, CloseAcceptor, Turn, Destroy
<1>2. CASE CloseAcceptor(a)
  <2> DEFINE h == [host EXCEPT !.closing = a]
  <2>1. Becomes(h)
    BY <1>2 DEF CloseAcceptor
  <2>2. h \in HostRecords
    BY <1>1, SetUnseen DEF Unseen
  <2>3. SameHomes(host, h) /\ SameFront(host, h) /\ h.failed = host.failed
    BY <1>1 DEF HostRecords, SameHomes, SameFront, SameReads
  <2> HIDE DEF h
  <2>4. AtHome(h, peer)
    BY <1>1, <2>3, SameAtHome
  <2> QED BY <1>1, <2>1, <2>2, <2>4, StepHome
<1>3. CASE Turn(a)
  <2>1. PICK i \in RequestsOf(a) :
          Becomes([DisableRequest(host, i) EXCEPT
                      !.closing = IF RequestsOf(a) = {i} THEN Nobody ELSE a])
    BY <1>3 DEF Turn
  <2>2. i \in DOMAIN host.requests
    BY <2>1 DEF RequestsOf
  <2>3. PICK v \in Acceptors \union {Nobody} : v = IF RequestsOf(a) = {i} THEN Nobody ELSE a
    OBVIOUS
  <2> DEFINE g == DisableRequest(host, i)
             h == [g EXCEPT !.closing = v]
  <2>4. Linked(host)
    BY <1>1 DEF Known, Linked
  <2>5. g \in HostRecords /\ AtHome(g, peer)
    BY <1>1, <2>2, <2>4, DisableRequestSound, DisableRequestAtHome DEF Sound
  <2>6. Becomes(h)
    BY <2>1, <2>3
  <2> HIDE DEF g
  <2>7. h \in HostRecords
    BY <2>5, SetUnseen DEF Unseen
  <2>8. SameHomes(g, h) /\ SameFront(g, h) /\ h.failed = g.failed
    BY <2>5 DEF HostRecords, SameHomes, SameFront, SameReads
  <2> HIDE DEF h
  <2>9. AtHome(h, peer)
    BY <2>5, <2>8, SameAtHome
  <2> QED BY <1>1, <2>6, <2>7, <2>9, StepHome
<1>4. CASE Destroy(a)
  <2>1. PICK v \in SUBSET Acceptors : v = host.acceptors \ {a}
    BY <1>1 DEF HostRecords
  <2> DEFINE h == [host EXCEPT !.acceptors = v]
  <2>2. Becomes(h)
    BY <1>4, <2>1 DEF Destroy
  <2>3. h \in HostRecords
    BY <1>1, SetUnseen DEF Unseen
  <2>4. SameHomes(host, h) /\ SameFront(host, h) /\ h.failed = host.failed
    BY <1>1 DEF HostRecords, SameHomes, SameFront, SameReads
  <2> HIDE DEF h
  <2>5. AtHome(h, peer)
    BY <1>1, <2>4, SameAtHome
  <2> QED BY <1>1, <2>2, <2>3, <2>5, StepHome
<1>5. CASE Construct(a)
  <2> DEFINE g == Add(host)
             h == [g EXCEPT !.acceptors = @ \union {a}]
  <2>1. Becomes(h)
    BY <1>5 DEF Construct
  <2>2. g \in HostRecords /\ AtHome(g, peer)
    BY <1>1, AddAtHome
  <2> HIDE DEF g
  <2>3. PICK v \in SUBSET Acceptors : v = g.acceptors \union {a}
    BY <2>2 DEF HostRecords
  <2>4. h = [g EXCEPT !.acceptors = v]
    BY <2>3
  <2> HIDE DEF h
  <2>5. h \in HostRecords
    BY <2>2, <2>4, SetUnseen DEF Unseen
  <2>6. SameHomes(g, h) /\ SameFront(g, h) /\ h.failed = g.failed
    BY <2>2, <2>4 DEF HostRecords, SameHomes, SameFront, SameReads
  <2>7. AtHome(h, peer)
    BY <2>2, <2>6, SameAtHome
  <2> QED BY <1>1, <2>1, <2>5, <2>7, StepHome
<1> QED BY <1>2, <1>3, <1>4, <1>5

LEMMA ServiceHomes ==
    ASSUME IInv, PlacedNow, HomeNow,
           \/ Peek
           \/ \E s \in Sockets : Retransmit(s)
           \/ \E a \in Answers : StepCompletes(a) \/ Abort(a)
    PROVE  HomeNow'
<1> USE DEF Step
<1>1. /\ Sound(host, 0) /\ host \in HostRecords /\ Placed(host)
      /\ AtHome(host, peer) /\ Promised(peer)
  BY DEF IInv, Sound, PlacedNow, HomeNow
<1>2. CASE Peek
  <2>1. /\ Becomes(ProcessPeek(host)) /\ host.failed = "no" /\ host.stuck = "no"
        /\ host.ready > 0 /\ UNCHANGED peer
        /\ host.inbox # <<>> /\ Head(host.inbox).type = "handshake" =>
             host.next <= MaxAnswers
    BY <1>2 DEF Peek
  <2>2. ProcessPeek(host) \in HostRecords /\ AtHome(ProcessPeek(host), peer)
    BY <1>1, <2>1, ProcessPeekSound, ProcessPeekAtHome DEF Sound
  <2> QED BY <1>1, <2>1, <2>2, StepHome
<1>3. ASSUME NEW a \in Answers, StepCompletes(a) \/ Abort(a)
      PROVE  HomeNow'
  <2>1. PICK v \in SUBSET Answers : v = host.flying \ {a}
    BY <1>1 DEF HostRecords
  <2>2. PICK u \in SUBSET Answers : u = host.aborts \ {a}
    BY <1>1 DEF HostRecords
  <2>3. PICK g \in HostRecords, error \in BOOLEAN :
          /\ g = [host EXCEPT !.flying = v] \/ g = [host EXCEPT !.aborts = u]
          /\ Becomes(AnswerHandler(g, a, error))
    <3>1. CASE StepCompletes(a)
      <4>1. [host EXCEPT !.flying = v] \in HostRecords
        BY <1>1, SetUnseen DEF Unseen
      <4> QED BY <2>1, <3>1, <4>1 DEF StepCompletes
    <3>2. CASE Abort(a)
      <4>1. [host EXCEPT !.aborts = u] \in HostRecords
        BY <1>1, SetUnseen DEF Unseen
      <4> QED BY <2>2, <3>2, <4>1 DEF Abort
    <3> QED BY <1>3, <3>1, <3>2
  <2>4. a.by \in host.shut /\ UNCHANGED peer
    BY <1>1, <1>3 DEF StepCompletes, Abort, Placed, Known
  <2>5. /\ SameHomes(host, g) /\ SameFront(host, g) /\ g.failed = host.failed
    <3>1. CASE g = [host EXCEPT !.flying = v]
      BY <1>1, <3>1 DEF HostRecords, SameHomes, SameFront, SameReads
    <3>2. CASE g = [host EXCEPT !.aborts = u]
      BY <1>1, <3>2 DEF HostRecords, SameHomes, SameFront, SameReads
    <3> QED BY <2>3, <3>1, <3>2
  <2> DEFINE k == AnswerHandler(g, a, error)
  <2>6. k \in HostRecords
    BY AnswerHandlerUnseen DEF Unseen
  <2>7. /\ k.attached = g.attached /\ k.shut = g.shut /\ k.sockets = g.sockets
        /\ k.requests = g.requests /\ k.lost = g.lost /\ k.failed = g.failed
        /\ SameFront(g, k)
        /\ \A t \in Sockets \ {a.by} : k.conn[t] = g.conn[t] /\ k.remote[t] = g.remote[t]
    <3>1. CASE error
      <4>1. k = [g EXCEPT !.conn[a.by] = "closed"]
        BY <3>1 DEF AnswerHandler
      <4> QED BY <4>1 DEF HostRecords, SameFront, SameReads
    <3>2. CASE ~ error
      <4>1. k = [g EXCEPT !.conn[a.by] = "established", !.remote[a.by] = a.to]
        BY <3>2 DEF AnswerHandler
      <4> QED BY <4>1 DEF HostRecords, SameFront, SameReads
    <3> QED BY <3>1, <3>2
  <2> HIDE DEF k
  <2>8. AtHome(g, peer)
    BY <1>1, <2>5, SameAtHome
  <2>9. a.by \in k.shut
    BY <2>4, <2>5, <2>7 DEF SameHomes
  <2>10. AtHome(k, peer)
    BY <2>7, <2>8, <2>9, ShutAtHome
  <2> QED BY <1>1, <2>3, <2>4, <2>6, <2>10, StepHome DEF k
<1>4. ASSUME NEW s \in Sockets, Retransmit(s)
      PROVE  HomeNow'
  BY <1>4 DEF Retransmit, HomeNow
<1> QED BY <1>2, <1>3, <1>4

\* The peers that get a handshake, ask for one again or send data.
LEMMA NetworkHomes ==
    ASSUME IInv, PlacedNow, HomeNow,
           \/ EmptyComes
           \/ \E r \in Remotes : Handshake(r) \/ \E x \in {TRUE, ~ Lossy} : Data(r, x)
           \/ \E a \in Answers, lost \in {FALSE, Lossy}, x \in {TRUE, ~ Lossy} :
                AnswerComes(a, lost, x)
    PROVE  HomeNow'
<1>1. /\ host \in HostRecords /\ peer \in [Remotes -> Peers] /\ Sound(host, 0)
      /\ OneRead(host) /\ AtHome(host, peer) /\ Promised(peer)
  BY DEF IInv, TypeOK, Sound, HomeNow
<1>2. ASSUME NEW h \in HostRecords, OneRead(h), NEW d \in Datagrams, Comes(h, d),
             NEW p, AtHome(h, p), d.ack # NoAnswer => p[d.from].got = d.ack,
             Arrived(h, d) \in HostRecords
      PROVE  AtHome(host', p)
  <2>1. AtHome(Arrived(h, d), p)
    BY <1>2, ArrivedAtHome
  <2>2. host' = Settled(Arrived(h, d))
    BY <1>2 DEF Comes
  <2> QED BY <1>2, <2>1, <2>2, SettledAtHome
<1>3. CASE EmptyComes
  <2>1. PICK n \in Nat : n = host.empties - 1
    BY <1>1, <1>3 DEF EmptyComes, HostRecords
  <2> DEFINE h == [host EXCEPT !.empties = n]
  <2>2. Comes(h, EmptyPacket) /\ UNCHANGED peer
    BY <1>3, <2>1 DEF EmptyComes
  <2>3. Sound(h, 0) /\ h \in HostRecords
    <3>1. Unseen(host, h) /\ h \in HostRecords
      <4>1. \A v \in Nat : Unseen(host, [host EXCEPT !.empties = v])
        BY <1>1, SetUnseen
      <4> QED BY <4>1 DEF Unseen
    <3> HIDE DEF h
    <3> QED BY <1>1, <3>1, UnseenSound
  <2>4. SameHomes(host, h) /\ SameFront(host, h) /\ h.failed = host.failed
    BY <1>1 DEF HostRecords, SameHomes, SameFront, SameReads
  <2> HIDE DEF h
  <2>5. AtHome(h, peer)
    BY <1>1, <2>4, SameAtHome
  <2>6. EmptyPacket \in Datagrams /\ EmptyPacket.ack = NoAnswer
    BY DEF Datagrams, EmptyPacket
  <2>7. Arrived(h, EmptyPacket) \in HostRecords
    BY <2>3, <2>6, ArrivedSound DEF Sound
  <2>8. OneRead(h)
    BY <2>3 DEF Sound
  <2>9. AtHome(host', peer)
    BY <1>2, <2>2, <2>3, <2>5, <2>6, <2>7, <2>8
  <2> QED BY <1>1, <2>2, <2>9 DEF HomeNow
<1>4. ASSUME NEW d \in Datagrams, Comes(host, d), NEW p, AtHome(host, p),
             d.ack # NoAnswer => p[d.from].got = d.ack
      PROVE  AtHome(host', p)
  <2>1. Arrived(host, d) \in HostRecords
    BY <1>1, ArrivedSound DEF Sound
  <2> QED BY <1>1, <1>2, <1>4, <2>1
<1>5. \A r \in Remotes : peer[r] \in Peers /\ peer[r].got \in Answers \union {NoAnswer}
  <2>1. \A r \in Remotes : peer[r] \in Peers
    BY <1>1
  <2> QED BY <2>1 DEF Peers
<1>6. ASSUME NEW r \in Remotes, Handshake(r)
      PROVE  HomeNow'
  <2> DEFINE d == [from |-> r, type |-> "handshake", ack |-> NoAnswer, expected |-> TRUE]
  <2>1. Comes(host, d) /\ d \in Datagrams /\ d.ack = NoAnswer
    BY <1>6 DEF Handshake, Datagrams, Packets
  <2> HIDE DEF d
  <2>2. /\ peer[r].state \in {"idle", "connecting"}
        /\ peer' = [peer EXCEPT ![r].state = "connecting"]
    BY <1>6 DEF Handshake
  <2>3. \A x \in Remotes : /\ peer'[x].got = peer[x].got
                           /\ x # r => peer'[x].state = peer[x].state
    BY <1>1, <1>5, <2>2 DEF Peers
  <2>4. peer[r].got = NoAnswer
    BY <1>1, <2>2 DEF Promised
  <2>5. Promised(peer')
    BY <1>1, <2>3, <2>4 DEF Promised
  <2>6. AtHome(host, peer')
    BY <1>1, <2>3, PeerAtHome
  <2>7. AtHome(host', peer')
    BY <1>4, <2>1, <2>6
  <2> QED BY <2>5, <2>7 DEF HomeNow
<1>7. ASSUME NEW r \in Remotes, NEW x \in {TRUE, ~ Lossy}, Data(r, x)
      PROVE  HomeNow'
  <2> DEFINE d == [from |-> r, type |-> "data", ack |-> peer[r].got, expected |-> x]
  <2>1. x \in BOOLEAN
    BY EndpointAssumption
  <2>2. /\ Comes(host, d) /\ d \in Datagrams /\ d.ack = peer[r].got /\ d.from = r
    BY <1>5, <1>7, <2>1 DEF Data, Datagrams, Packets
  <2> HIDE DEF d
  <2>3. peer' = [peer EXCEPT ![r].sent = @ + 1]
    BY <1>7 DEF Data
  <2>4. \A y \in Remotes : peer'[y].got = peer[y].got /\ peer'[y].state = peer[y].state
    BY <1>1, <1>5, <2>3 DEF Peers
  <2>5. Promised(peer')
    BY <1>1, <2>4 DEF Promised
  <2>6. AtHome(host, peer')
    BY <1>1, <2>4, PeerAtHome
  <2>7. peer'[d.from].got = d.ack
    BY <2>2, <2>4
  <2>8. AtHome(host', peer')
    BY <1>4, <2>2, <2>6, <2>7
  <2> QED BY <2>5, <2>8 DEF HomeNow
<1>8. ASSUME NEW a \in Answers, NEW lost \in {FALSE, Lossy}, NEW x \in {TRUE, ~ Lossy},
             AnswerComes(a, lost, x)
      PROVE  HomeNow'
  <2> DEFINE r == a.to
             d == [from |-> r, type |-> "keepalive", ack |-> a, expected |-> x]
  <2>1. r \in Remotes
    BY DEF Answers
  <2>2. d \in Datagrams /\ d.from = r /\ d.ack = a
    BY <2>1, EndpointAssumption DEF Datagrams, Packets
  <2>3. \/ /\ peer[r].state = "connecting"
           /\ peer' = [peer EXCEPT ![r].state = "connected", ![r].got = a]
           /\ host' = host \/ Comes(host, d)
        \/ /\ peer[r].state = "connected"
           /\ peer' = [peer EXCEPT ![r].state = "failed"]
           /\ host' = host
    BY <1>8 DEF AnswerComes
  <2> HIDE DEF d, r
  <2>4. CASE /\ peer[r].state = "connecting"
             /\ peer' = [peer EXCEPT ![r].state = "connected", ![r].got = a]
             /\ host' = host \/ Comes(host, d)
    <3>1. /\ \A y \in Remotes \ {r} : peer'[y] = peer[y]
          /\ peer'[r].got = a /\ peer'[r].state = "connected"
      BY <1>1, <1>5, <2>1, <2>4 DEF Peers
    <3>2. peer[r].got = NoAnswer
      BY <1>1, <2>1, <2>4 DEF Promised
    <3>3. Promised(peer')
      BY <1>1, <3>1 DEF Promised, r
    <3>4. AtHome(host, peer')
      BY <1>1, <3>1, <3>2, PeerAtHome
    <3>5. Comes(host, d) => AtHome(host', peer')
      BY <1>4, <2>2, <3>1, <3>4
    <3> QED BY <2>4, <3>3, <3>4, <3>5 DEF HomeNow
  <2>5. CASE /\ peer[r].state = "connected"
             /\ peer' = [peer EXCEPT ![r].state = "failed"]
             /\ host' = host
    <3>1. \A y \in Remotes : /\ peer'[y].got = peer[y].got
                             /\ peer'[y].state = peer[y].state \/ peer'[y].state = "failed"
      BY <1>1, <1>5, <2>1, <2>5 DEF Peers
    <3>2. Promised(peer')
      BY <1>1, <3>1 DEF Promised
    <3>3. AtHome(host, peer')
      BY <1>1, <3>1, PeerAtHome
    <3> QED BY <2>5, <3>2, <3>3 DEF HomeNow
  <2> QED BY <2>3, <2>4, <2>5
<1> QED BY <1>3, <1>6, <1>7, <1>8

LEMMA InitHomes == Init => HomeNow
<1> SUFFICES ASSUME Init PROVE HomeNow
  OBVIOUS
<1>1. host = Fresh /\ \A r \in Remotes : peer[r].got = NoAnswer
  BY DEF Init
<1>2. /\ Fresh.posted = 0 /\ Fresh.ready = 0 /\ Fresh.inbox = <<>> /\ Fresh.requests = <<>>
      /\ \A s \in Sockets : Fresh.conn[s] = "closed"
      /\ \A r \in Remotes : Fresh.sockets[r] = Nobody
  BY DEF Fresh
<1>3. Nobody \notin Sockets
  BY ReadingAssumption
<1>4. \A s : ~ Asked(Fresh, s)
  BY <1>2 DEF Asked
<1>5. \A s \in Sockets : Rooted(Fresh, peer, s)
  BY <1>2, <1>3, <1>4 DEF Rooted
<1>6. Home(Fresh, peer)
  BY <1>2, <1>5 DEF Home, AskedOnce, Entries
<1>7. InFront(Fresh) /\ Heard(Fresh, peer)
  BY <1>2 DEF InFront, Heard, Incoming
<1>8. Promised(peer)
  BY <1>1 DEF Promised
<1> QED BY <1>1, <1>6, <1>7, <1>8 DEF HomeNow, AtHome

LEMMA NextHomes == IInv /\ PlacedNow /\ HomeNow /\ [Next]_vars => HomeNow'
<1> SUFFICES ASSUME IInv, PlacedNow, HomeNow, [Next]_vars PROVE HomeNow'
  OBVIOUS
<1>1. CASE \E a \in Acceptors : Construct(a) \/ CloseAcceptor(a) \/ Turn(a) \/ Destroy(a)
  BY <1>1, AcceptorHomes
<1>2. CASE \E s \in Sockets :
             Bind(s) \/ Receive(s) \/ UserCloses(s) \/ KeepaliveTimeout(s)
               \/ \E a \in Acceptors : Accept(a, s)
  BY <1>2, UserHomes
<1>3. CASE \/ Peek
           \/ \E s \in Sockets : Retransmit(s)
           \/ \E a \in Answers : StepCompletes(a) \/ Abort(a)
  BY <1>3, ServiceHomes
<1>4. CASE \/ EmptyComes
           \/ \E r \in Remotes : Handshake(r) \/ \E x \in {TRUE, ~ Lossy} : Data(r, x)
           \/ \E a \in Answers, lost \in {FALSE, Lossy}, x \in {TRUE, ~ Lossy} :
                AnswerComes(a, lost, x)
  BY <1>4, NetworkHomes
<1>5. CASE UNCHANGED vars
  BY <1>5 DEF vars, HomeNow
<1> QED BY <1>1, <1>2, <1>3, <1>4, <1>5 DEF Next

LEMMA HomesInvariance == Spec => []HomeNow
<1>1. Init => HomeNow
  BY InitHomes
<1>2. IInv /\ PlacedNow /\ HomeNow /\ [Next]_vars => HomeNow'
  BY NextHomes
<1> QED BY <1>1, <1>2, Invariance, PlacesInvariance, PTL DEF Spec

(* A socket that was never closed is listening exactly while it is asked   *)
(* for, and once established is in the map under its remote endpoint, for  *)
(* the peer that acknowledged its handshake (779-784), and nowhere else.   *)
THEOREM EveryoneIsInPlace == Spec => []EveryoneInPlace
<1>1. IInv /\ HomeNow => EveryoneInPlace
  <2>1. SUFFICES ASSUME IInv, HomeNow, host.failed = "no", ~ host.raced,
                        NEW s \in host.attached \ host.shut
                 PROVE  /\ host.conn[s] = "listening" <=> Pending(s)
                        /\ host.conn[s] = "established" /\ s \notin host.lost =>
                             host.sockets[host.remote[s]] = s
                        /\ \A r \in Remotes : host.sockets[r] = s =>
                             /\ host.conn[s] = "established" /\ host.open
                             /\ r = host.remote[s] /\ peer[r].got.by = s
    BY DEF EveryoneInPlace, Runs
  <2>2. s \in Sockets
    BY <2>1 DEF IInv, TypeOK, HostRecords
  <2>3. Rooted(host, peer, s) /\ (Entries(host) # {} => host.open)
    BY <2>1, <2>2 DEF HomeNow, AtHome, Home
  <2>4. Pending(s) <=> Asked(host, s)
    BY DEF Pending, Asked
  <2>5. \A r \in Remotes : host.sockets[r] = s => host.open
    BY <2>2, <2>3, ReadingAssumption DEF Entries
  <2> QED BY <2>3, <2>4, <2>5 DEF Rooted
<1> QED BY <1>1, Invariance, HomesInvariance, PTL
=============================================================================
