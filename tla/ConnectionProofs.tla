-------------------------- MODULE ConnectionProofs --------------------------
(***************************************************************************)
(* Proofs about Connection, for any range of numbers, any number of sends  *)
(* and receives, and a network that may lose, repeat and reorder.  From    *)
(* the bottom up: the header on the wire, the operations of a socket, the  *)
(* handlers of the multiplexer, the steps of a host, the turns of the two. *)
(* A host is a record of many fields; what an operation leaves alone is    *)
(* told by Same, and a field it leaves alone is then read off FieldsThere. *)
(***************************************************************************)
EXTENDS ConnectionInvariant, SequenceTheorems, TLAPS
-----------------------------------------------------------------------------
(* The header: what is encoded is decoded.                                 *)
Byte == {n \in Nat : n < 256}

Word16 == {n \in Nat : n < 65536}

Word32 == {n \in Nat : n < 65536 * 65536}

Headers == [type : DOMAIN TypeBits, seq : Word32, ack : Word32 \union {NoAck}]
-----------------------------------------------------------------------------
\* A number of some bits and the rest of it.
LEMMA Split ==
    ASSUME NEW v \in Nat
    PROVE  \E q \in Nat, r \in Byte : v = 256 * q + r
<1>1. v \div 256 \in Nat /\ v % 256 \in Nat /\ v % 256 < 256
  BY SMT
<1>2. v = 256 * (v \div 256) + (v % 256)
  BY SMT
<1> QED BY <1>1, <1>2, SMT DEF Byte

\* Two bytes make a word,
LEMMA Bytes ==
    ASSUME NEW v \in Word16
    PROVE  /\ Byte1(v) \in Byte /\ Byte0(v) \in Byte
           /\ 256 * Byte1(v) + Byte0(v) = v
<1>1. v \in Nat /\ v < 65536
  BY SMT DEF Word16
<1>2. v \div 256 \in Nat /\ v \div 256 < 256
  BY <1>1, SMT
<1>3. v % 256 \in Nat /\ v % 256 < 256
  BY <1>1, SMT
<1>4. 256 * (v \div 256) + (v % 256) = v
  BY <1>1, SMT
<1>5. (v \div 256) % 256 = v \div 256
  BY <1>2, SMT
<1> QED BY <1>2, <1>3, <1>4, <1>5, SMT DEF Byte0, Byte1, Byte

\* and two words a sequence number.
LEMMA Words ==
    ASSUME NEW v \in Word32
    PROVE  /\ Byte3(v) \in Byte /\ Byte2(v) \in Byte
           /\ Byte1(v) \in Byte /\ Byte0(v) \in Byte
           /\ 65536 * (256 * Byte3(v) + Byte2(v)) + (256 * Byte1(v) + Byte0(v)) = v
<1>1. v \in Nat /\ v < 65536 * 65536
  BY SMT DEF Word32
<1>2. PICK a \in Nat, w \in Byte : v = 256 * a + w
  BY <1>1, Split
<1>3. PICK b \in Nat, x \in Byte : a = 256 * b + x
  BY Split
<1>4. PICK c \in Nat, y \in Byte : b = 256 * c + y
  BY Split
<1>5. v = 16777216 * c + 65536 * y + 256 * x + w
  BY <1>2, <1>3, <1>4, SMT DEF Byte
<1>6. c \in Byte
  BY <1>1, <1>5, SMT DEF Byte
<1>7. Byte0(v) = w
  <2>1. (256 * a + w) % 256 = w
    BY SMT DEF Byte
  <2> QED BY <1>2, <2>1 DEF Byte0
<1>8. Byte1(v) = x
  <2>1. v \div 256 = a
    <3>1. (256 * a + w) \div 256 = a
      BY SMT DEF Byte
    <3> QED BY <1>2, <3>1
  <2>2. (256 * b + x) % 256 = x
    BY SMT DEF Byte
  <2> QED BY <1>3, <2>1, <2>2 DEF Byte1
<1>9. v \div 65536 = 256 * c + y
  BY <1>5, SMT DEF Byte
<1>10. Byte2(v) = y
  <2>1. (256 * c + y) % 256 = y
    BY SMT DEF Byte
  <2> QED BY <1>9, <2>1 DEF Byte2
<1>11. v \div 16777216 = c
  BY <1>5, SMT DEF Byte
<1>12. Byte3(v) = c
  <2>1. c % 256 = c
    BY <1>6, SMT DEF Byte
  <2> QED BY <1>11, <2>1 DEF Byte3
<1> QED BY <1>5, <1>6, <1>7, <1>8, <1>10, <1>12, SMT DEF Byte

\* The flags and what each mask finds in them.
LEMMA FlagsMean ==
    ASSUME NEW count \in Nat, NEW d \in Headers
    PROVE  /\ Flags(count, d) \in Word16
           /\ TypeOf(Flags(count, d)) = d.type
           /\ HasAck(Flags(count, d)) <=> d.ack # NoAck
           /\ Retransmissions(Flags(count, d)) = IF count < 3 THEN count ELSE 3
<1> DEFINE k == IF count < 3 THEN count ELSE 3
           m == IF d.ack = NoAck THEN 0 ELSE 4
           f == Flags(count, d)
<1>1. k \in 0 .. 3 /\ m \in {0, 4} /\ (m # 0 <=> d.ack # NoAck)
  BY SMT
<1>2. d.type \in DOMAIN TypeBits
  BY SMT DEF Headers
<1>3. DOMAIN TypeBits = {"data", "handshake", "keepalive"}
  BY SMT DEF TypeBits
<1>4. /\ TypeBits["data"] = 49152 /\ TypeBits["handshake"] = 51200
      /\ TypeBits["keepalive"] = 55296
  BY SMT DEF TypeBits
<1>5. PICK t \in {49152, 51200, 55296} : t = TypeBits[d.type]
  BY <1>2, <1>3, <1>4, SMT
<1>6. PICK r \in 0 .. 7 : r = k + m
  BY <1>1, SMT
<1>7. f = t + r
  BY <1>1, <1>5, <1>6, SMT DEF Flags, Acknowledges
<1>8. f \in Word16
  BY <1>7, SMT DEF Word16
<1>9. f % 2048 = r /\ f - (f % 2048) = t
  BY <1>7, SMT
<1>10. TypeOf(f) = d.type
  BY <1>2, <1>3, <1>4, <1>5, <1>9, SMT DEF TypeOf
<1>11. f % 4 = k
  BY <1>1, <1>6, <1>7, SMT
<1>12. (f \div 4) % 4 # 0 <=> m # 0
  BY <1>1, <1>6, <1>7, SMT
<1> QED BY <1>1, <1>8, <1>10, <1>11, <1>12, SMT DEF HasAck, Retransmissions
-----------------------------------------------------------------------------
(* What a peer decodes is what was encoded: the type, the sequence number, *)
(* the acknowledgement or that there is none, and of the retransmissions   *)
(* as many as two bits tell; and it is twelve bytes long.                  *)
THEOREM DecodeInvertsEncode ==
    ASSUME NEW count \in Nat, NEW d \in Headers
    PROVE  LET b == Encode(count, d)
           IN  /\ Len(b) = 12 /\ \A i \in 1 .. 12 : b[i] \in Byte
               /\ Decode(b) = d
               /\ Retransmissions(Get16(b, 1)) = IF count < 3 THEN count ELSE 3
<1> DEFINE ack == IF d.ack = NoAck THEN 0 ELSE d.ack
           flags == Flags(count, d)
           b == Encode(count, d)
<1>1. d.seq \in Word32 /\ ack \in Word32 /\ flags \in Word16 /\ Version \in Word16
  <2>1. d.seq \in Word32 /\ d.ack \in Word32 \union {NoAck}
    BY DEF Headers
  <2>2. 0 \in Word32 /\ Version \in Word16
    BY SMT DEF Word32, Word16, Version
  <2> QED BY <2>1, <2>2, FlagsMean
<1>2. /\ b[1] = Byte1(flags) /\ b[2] = Byte0(flags)
      /\ b[3] = Byte1(Version) /\ b[4] = Byte0(Version)
      /\ b[5] = Byte3(d.seq) /\ b[6] = Byte2(d.seq)
      /\ b[7] = Byte1(d.seq) /\ b[8] = Byte0(d.seq)
      /\ b[9] = Byte3(ack) /\ b[10] = Byte2(ack)
      /\ b[11] = Byte1(ack) /\ b[12] = Byte0(ack)
      /\ Len(b) = 12
  BY SMT DEF Encode
<1>3. \A i \in 1 .. 12 : b[i] \in Byte
  <2>1. /\ b[1] \in Byte /\ b[2] \in Byte /\ b[3] \in Byte /\ b[4] \in Byte
        /\ b[5] \in Byte /\ b[6] \in Byte /\ b[7] \in Byte /\ b[8] \in Byte
        /\ b[9] \in Byte /\ b[10] \in Byte /\ b[11] \in Byte /\ b[12] \in Byte
    BY <1>1, <1>2, Bytes, Words
  <2>2. 1 .. 12 = {1, 2, 3, 4, 5, 6, 7, 8, 9, 10, 11, 12}
    BY SMT
  <2> QED BY <2>1, <2>2
<1>4. Get16(b, 1) = flags
  <2>1. Get16(b, 1) = 256 * b[1] + b[2]
    BY SMT DEF Get16
  <2> QED BY <1>1, <1>2, <2>1, Bytes
<1>5. Get32(b, 5) = d.seq
  <2>1. Get32(b, 5) = 65536 * (256 * b[5] + b[6]) + (256 * b[7] + b[8])
    BY SMT DEF Get32, Get16
  <2> QED BY <1>1, <1>2, <2>1, Words
<1>6. Get32(b, 9) = ack
  <2>1. Get32(b, 9) = 65536 * (256 * b[9] + b[10]) + (256 * b[11] + b[12])
    BY SMT DEF Get32, Get16
  <2> QED BY <1>1, <1>2, <2>1, Words
<1>7. Decode(b) = [type |-> d.type, seq |-> d.seq, ack |-> d.ack]
  BY <1>4, <1>5, <1>6, FlagsMean DEF Decode
<1>8. d = [type |-> d.type, seq |-> d.seq, ack |-> d.ack]
  BY DEF Headers
<1> QED BY <1>2, <1>3, <1>4, <1>7, <1>8, FlagsMean
-----------------------------------------------------------------------------
(* The record of a host, field by field.                                   *)

\* k is h but for the fields of F.
Same(h, k, F) == DOMAIN k = DOMAIN h /\ \A f \in DOMAIN h \ F : k[f] = h[f]

\* The fields a record of a host has, for the provers.
LEMMA FieldsThere ==
    ASSUME NEW h, HasFields(h)
    PROVE /\ "conn" \in DOMAIN h /\ "attached" \in DOMAIN h /\ "next" \in DOMAIN h
          /\ "history" \in DOMAIN h /\ "queue" \in DOMAIN h
          /\ "handshakes" \in DOMAIN h /\ "receiving" \in DOMAIN h
          /\ "keepalive" \in DOMAIN h /\ "inputs" \in DOMAIN h /\ "lent" \in DOMAIN h
          /\ "outputs" \in DOMAIN h /\ "jobs" \in DOMAIN h /\ "aborts" \in DOMAIN h
          /\ "confirming" \in DOMAIN h /\ "open" \in DOMAIN h /\ "mapped" \in DOMAIN h
          /\ "accepting" \in DOMAIN h /\ "calls" \in DOMAIN h /\ "peeks" \in DOMAIN h
          /\ "empties" \in DOMAIN h /\ "out" \in DOMAIN h /\ "failed" \in DOMAIN h
          /\ "connected" \in DOMAIN h /\ "accepted" \in DOMAIN h
          /\ "sent" \in DOMAIN h /\ "done" \in DOMAIN h /\ "delivered" \in DOMAIN h
          /\ "taken" \in DOMAIN h
  BY DEF HasFields, Fields

\* A record that differs in some fields has the fields of the other.
LEMMA SameHas ==
    ASSUME NEW h, NEW k, NEW F, Same(h, k, F), HasFields(h)
    PROVE  HasFields(k)
  BY DEF Same, HasFields

\* ... and differs in no more than a larger set of them.
LEMMA SameWider ==
    ASSUME NEW h, NEW k, NEW F, Same(h, k, F), NEW G, F \subseteq G
    PROVE  Same(h, k, G)
  BY DEF Same

\* Two changes, one after the other.
LEMMA SameThen ==
    ASSUME NEW h, NEW k, NEW m, NEW F, Same(h, k, F), NEW G, Same(k, m, G)
    PROVE  Same(h, m, F \union G)
  BY DEF Same
-----------------------------------------------------------------------------
(* Receiving: what a socket that starts or stops does to its host.         *)

ReadFields == {"receiving", "keepalive", "calls", "peeks", "failed"}

\* From h to k sockets may have started to receive.
ReadsOn(h, k) ==
    /\ k.calls \in 0 .. 15 /\ h.calls <= k.calls
    /\ k.calls <= h.calls \/ k.calls <= 4
    /\ h.calls > 0 => k.peeks = h.peeks
    /\ OneRead(h) => OneRead(k)
    /\ k.failed = "no" => h.failed = "no"

\* k is h but for what a socket that starts to receive changes.
Restarts(h, k) == Same(h, k, ReadFields) /\ ReadsOn(h, k)

\* A host has one socket and one acceptor at most.
LEMMA Receivers ==
    ASSUME NEW h
    PROVE  Sockets(h) \in {0, 1} /\ Acceptors(h) \in {0, 1}
<1>1. Sockets(h) \in {0, 1}
  BY Zenon DEF Sockets
<1>2. Acceptors(h) \in {0, 1}
  BY Zenon DEF Acceptors
<1> QED BY <1>1, <1>2

\* A step that leaves the counts alone starts nothing.
LEMMA RestsReading ==
    ASSUME NEW h, h.calls \in 0 .. 15, NEW k, k.calls = h.calls, k.peeks = h.peeks,
           k.failed = h.failed
    PROVE  ReadsOn(h, k)
  BY DEF ReadsOn, OneRead

\* Starting to receive twice is starting to receive.
LEMMA ReadsOnThen ==
    ASSUME NEW h, h.calls \in 0 .. 15, NEW k, ReadsOn(h, k), NEW m, ReadsOn(k, m)
    PROVE  ReadsOn(h, m)
  BY DEF ReadsOn

\* ... and so is not starting at all.
LEMMA RestartsNot ==
    ASSUME NEW h, h.calls \in 0 .. 15
    PROVE  Restarts(h, h)
<1>1. Same(h, h, ReadFields)
  BY DEF Same
<1> QED BY <1>1, RestsReading DEF Restarts

\* The same for the whole record.
LEMMA RestartsThen ==
    ASSUME NEW h, h.calls \in 0 .. 15, NEW k, Restarts(h, k), NEW m, Restarts(k, m)
    PROVE  Restarts(h, m)
<1>1. Same(h, m, ReadFields \union ReadFields)
  BY SameThen DEF Restarts
<1>2. Same(h, m, ReadFields)
  BY <1>1, SameWider
<1> QED BY <1>2, ReadsOnThen DEF Restarts

\* start_receive counts a receive and posts a read if it is the first.
LEMMA StartMeans ==
    ASSUME NEW h, HasFields(h), h.calls \in 0 .. 15
    PROVE  LET k == StartReceive(h)
           IN  Restarts(h, k) /\ k.receiving = h.receiving
<1>1. PICK n \in {0, 1, 2} : n = Sockets(h) + Acceptors(h)
  BY Receivers
<1>2. CASE h.calls >= Sockets(h) + Acceptors(h) + 2
  BY <1>1, <1>2, FieldsThere
     DEF StartReceive, Fail, Same, Restarts, ReadFields, ReadsOn, OneRead
<1>3. CASE ~ (h.calls >= Sockets(h) + Acceptors(h) + 2)
  <2> DEFINE k == StartReceive(h)
  <2>1. Same(h, k, {"calls", "peeks"})
    BY <1>3, FieldsThere DEF Same, StartReceive
  <2>2. k.calls = h.calls + 1
    BY <1>3, FieldsThere DEF StartReceive
  <2>3. k.peeks = IF h.calls = 0 THEN h.peeks + 1 ELSE h.peeks
    BY <1>3, FieldsThere DEF StartReceive
  <2>4. k.failed = h.failed /\ k.receiving = h.receiving
    BY <2>1, FieldsThere DEF Same
  <2> HIDE DEF k
  <2>5. k.calls \in 0 .. 15 /\ h.calls <= k.calls /\ k.calls <= 4
    BY <1>1, <1>3, <2>2
  <2>6. (h.calls > 0 => k.peeks = h.peeks) /\ (OneRead(h) => OneRead(k))
    BY <2>2, <2>3 DEF OneRead
  <2>7. Same(h, k, ReadFields)
    BY <2>1, SameWider DEF ReadFields
  <2> QED BY <2>4, <2>5, <2>6, <2>7 DEF Restarts, ReadsOn, k
<1> QED BY <1>2, <1>3

\* idempotent_start_receive leaves the socket receiving.
LEMMA StartAgain ==
    ASSUME NEW h, HasFields(h), h.calls \in 0 .. 15
    PROVE  LET k == IdempotentStartReceive(h)
           IN  Restarts(h, k) /\ k.receiving
<1>1. CASE h.receiving
  BY <1>1, RestartsNot DEF IdempotentStartReceive
<1>2. CASE ~ h.receiving
  <2> DEFINE m == [h EXCEPT !.receiving = TRUE, !.keepalive = TRUE]
  <2>1. IdempotentStartReceive(h) = StartReceive(m)
    BY <1>2 DEF IdempotentStartReceive
  <2>2. Same(h, m, {"receiving", "keepalive"}) /\ m.receiving
    BY FieldsThere DEF Same
  <2> HIDE DEF m
  <2>3. m.calls = h.calls /\ m.peeks = h.peeks /\ m.failed = h.failed
    BY <2>2, FieldsThere DEF Same
  <2>4. ReadsOn(h, m)
    BY <1>2, <2>3 DEF ReadsOn, OneRead
  <2>5. Same(h, m, ReadFields)
    BY <2>2, SameWider DEF ReadFields
  <2>6. HasFields(m) /\ Restarts(h, m)
    BY <2>2, <2>4, <2>5, SameHas DEF Restarts
  <2>7. Restarts(m, StartReceive(m)) /\ StartReceive(m).receiving
    BY <2>2, <2>3, <2>6, StartMeans
  <2> QED BY <2>1, <2>6, <2>7, RestartsThen
<1> QED BY <1>1, <1>2

\* idempotent_stop_receive changes the counts and nothing else.
LEMMA StopAgain ==
    ASSUME NEW h, HasFields(h), h.calls \in 0 .. 15
    PROVE  LET k == IdempotentStopReceive(h)
           IN  /\ Same(h, k, {"receiving", "calls", "empties", "failed"})
               /\ k.calls \in 0 .. 15
               /\ k.failed \in {h.failed, "stop_receive"}
<1>1. CASE ~ h.receiving
  BY <1>1 DEF IdempotentStopReceive, Same
<1>2. CASE h.receiving
  <2> DEFINE m == [h EXCEPT !.receiving = FALSE]
             k == StopReceive(m)
  <2>1. IdempotentStopReceive(h) = k
    BY <1>2 DEF IdempotentStopReceive
  <2>2. Same(h, m, {"receiving"})
    BY FieldsThere DEF Same
  <2> HIDE DEF m
  <2>3. m.calls = h.calls /\ m.failed = h.failed /\ HasFields(m)
    BY <2>2, FieldsThere, SameHas DEF Same
  <2>4. /\ Same(m, k, {"calls", "empties", "failed"})
        /\ k.calls \in 0 .. 15 /\ k.failed \in {m.failed, "stop_receive"}
    <3>1. CASE m.calls = 0 \/ m.calls > Sockets(m) + Acceptors(m) + 1
      <4>1. k = [m EXCEPT !.failed = "stop_receive"]
        BY <3>1 DEF StopReceive, Fail
      <4> QED BY <2>3, <4>1, FieldsThere DEF Same
    <3>2. CASE ~ (m.calls = 0 \/ m.calls > Sockets(m) + Acceptors(m) + 1)
      <4>1. k = [m EXCEPT !.calls = @ - 1,
                          !.empties = IF m.calls = 1 THEN @ + 1 ELSE @]
        BY <3>2 DEF StopReceive
      <4>2. Same(m, k, {"calls", "empties"}) /\ k.calls = m.calls - 1
        BY <2>3, <4>1, FieldsThere DEF Same
      <4>3. k.failed = m.failed
        BY <2>3, <4>2, FieldsThere DEF Same
      <4> HIDE DEF k
      <4>4. k.calls \in 0 .. 15
        BY <2>3, <3>2, <4>2
      <4> QED BY <4>2, <4>3, <4>4, SameWider
    <3> QED BY <3>1, <3>2
  <2> HIDE DEF k
  <2>5. Same(h, k, {"receiving"} \union {"calls", "empties", "failed"})
    BY <2>2, <2>4, SameThen
  <2>6. Same(h, k, {"receiving", "calls", "empties", "failed"})
    BY <2>5, SameWider
  <2> QED BY <2>1, <2>3, <2>4, <2>6
<1> QED BY <1>1, <1>2
-----------------------------------------------------------------------------
(* What holds of the record of a host between any two steps of a handler.  *)

\* k is h some steps later: numbers are only ever given to new datagrams.
Grows(h, k) ==
    /\ h.next <= k.next /\ h.taken \subseteq k.taken
    /\ h.handshakes \subseteq k.handshakes /\ SentBy(h) \subseteq SentBy(k)
    /\ \A n \in SentBy(k) \union Shakes(k) :
        n < h.next => n \in SentBy(h) \union Shakes(h)

\* What k gave to the UDP socket after h has numbers of S.
Puts(h, k, S) ==
    \A b \in k.out : b \in h.out
        \/ \E d \in Datagrams : b = Encode(0, d) /\ d.seq \in S /\ SentPacket(k, d)
-----------------------------------------------------------------------------
\* A datagram of the model survives the wire.
LEMMA Decoded ==
    ASSUME NEW d \in Datagrams
    PROVE  Decode(Encode(0, d)) = d
<1>1. NumberSet \subseteq Word32
  BY NumberAssumption, WidthAssumption DEF NumberSet, Word32
<1>2. DOMAIN TypeBits = {"data", "handshake", "keepalive"}
  BY SMT DEF TypeBits
<1>3. d \in Headers
  BY <1>1, <1>2 DEF Datagrams, Headers, NumberSet
<1> QED BY <1>3, DecodeInvertsEncode

\* The ends of a history of one number are that number,
LEMMA FirstOf ==
    ASSUME NEW f \in Nat
    PROVE  First({f}) = f
<1>1. ~ Before(f, f)
  BY DEF Before
<1> QED BY <1>1 DEF First

\* both of them.
LEMMA LastOf ==
    ASSUME NEW f \in Nat
    PROVE  Last({f}) = f
<1>1. ~ Before(f, f)
  BY DEF Before
<1> QED BY <1>1 DEF Last

\* The first number, and the same number again, are all there is.
LEMMA InsertFirst ==
    ASSUME NEW n \in Nat
    PROVE  Insert({}, n) = {n} /\ Insert({n}, n) = {n}
<1>1. ~ Before(n, n)
  BY DEF Before
<1>2. Prune({n}) = {n}
  BY <1>1, LastOf DEF Prune, Adjacent
<1>3. {} \union {n} = {n} /\ {n} \union {n} = {n}
  OBVIOUS
<1> QED BY <1>2, <1>3 DEF Insert

\* The next number replaces the one before: the history stays one number.
LEMMA InsertNext ==
    ASSUME NEW f \in Nat, f < Max
    PROVE  Insert({f}, f + 1) = {f + 1}
<1>1. Middle \in Nat /\ Middle >= 1
  BY MaxAssumption DEF Middle
<1>2. /\ ~ Before(f, f) /\ ~ Before(f + 1, f + 1)
      /\ Before(f, f + 1) /\ ~ Before(f + 1, f)
  BY <1>1 DEF Before
<1>3. Distance(f, f + 1) = 1
  BY <1>1 DEF Distance
<1> DEFINE S == {f} \union {f + 1}
<1>4. Last(S) = f + 1
  BY <1>2 DEF Last
<1>5. ~ \E m, n \in S : Adjacent(S, m, n) /\ Distance(m, n) > 1
  BY <1>2, <1>3 DEF Adjacent
<1> HIDE DEF S
<1>6. Prune(S) = {f + 1}
  BY <1>4, <1>5 DEF Prune
<1> QED BY <1>6 DEF Insert, S

\* Nothing is in a history that was not put there.
LEMMA InsertWithin ==
    ASSUME NEW f \in Nat, NEW n \in Nat
    PROVE  Insert({f}, n) \subseteq {f, n}
<1>1. Middle \in Nat
  BY MaxAssumption DEF Middle
<1>2. ~ Before(f, f) /\ ~ Before(n, n) /\ ~ (Before(f, n) /\ Before(n, f))
  BY <1>1 DEF Before
<1> DEFINE S == {f} \union {n}
<1>3. \E k \in S : \A m \in S : ~ Before(k, m)
  BY <1>2
<1>4. Last(S) \in S
  BY <1>3 DEF Last
<1> HIDE DEF S
<1>5. Prune(S) \subseteq S
  BY <1>4 DEF Prune
<1> QED BY <1>5 DEF Insert, S

\* The newest number a whole history acknowledges was taken.
LEMMA LastSeenTaken ==
    ASSUME NEW h, Whole(h)
    PROVE  LastSeen(h) # NoAck => LastSeen(h) \in h.taken
<1>1. CASE h.history = {}
  BY <1>1 DEF LastSeen
<1>2. CASE h.history # {}
  <2>1. PICK f \in NumberSet : h.history = {f} /\ h.taken = 0 .. f
    BY <1>2 DEF Whole
  <2>2. LastSeen(h) = f
    BY <2>1, FirstOf, NumberAssumption DEF LastSeen, NumberSet
  <2> QED BY <2>1, <2>2, NumberAssumption DEF NumberSet
<1> QED BY <1>1, <1>2
-----------------------------------------------------------------------------
\* Grows is a preorder: doing nothing is growing,
LEMMA GrowsNot ==
    ASSUME NEW h, Typed(h)
    PROVE  Grows(h, h)
  BY NumberAssumption DEF Grows, Typed

\* and so are two steps that do.
LEMMA GrowsThen ==
    ASSUME NEW h, Typed(h), NEW k, Typed(k), NEW m, Typed(m), Grows(h, k), Grows(k, m)
    PROVE  Grows(h, m)
<1>1. h.next \in Nat /\ k.next \in Nat /\ m.next \in Nat
  BY NumberAssumption DEF Typed
<1>2. \A n \in SentBy(m) \union Shakes(m) : n < h.next => n < k.next
  <2> SUFFICES ASSUME NEW n \in SentBy(m) \union Shakes(m), n < h.next
               PROVE  n < k.next
    OBVIOUS
  <2>1. n \in NumberSet
    BY DEF SentBy, Shakes, Typed
  <2> QED BY <1>1, <2>1, NumberAssumption DEF Grows, NumberSet
<1> QED BY <1>1, <1>2 DEF Grows

\* What was sent stays sent.
LEMMA SentPacketLater ==
    ASSUME NEW h, Typed(h), NEW k, Typed(k), Grows(h, k), NEW d, SentPacket(h, d)
    PROVE  SentPacket(k, d)
<1>1. h.next \in Nat /\ k.next \in Nat /\ d.seq \in Nat
  BY NumberAssumption DEF Typed, SentPacket, Datagrams
<1>2. d.seq < k.next
  BY <1>1 DEF SentPacket, Grows
<1> QED BY <1>2 DEF SentPacket, Grows

\* A header a host has sent stays one it has sent.
LEMMA WireLater ==
    ASSUME NEW h, Typed(h), NEW k, Typed(k), Grows(h, k), NEW b, WireOf(h, b)
    PROVE  WireOf(k, b)
  BY SentPacketLater DEF WireOf

\* What was given to the UDP socket is a header the host has sent.
LEMMA PutsWire ==
    ASSUME NEW h, Typed(h), NEW k, Typed(k), Grows(h, k), NEW S, Puts(h, k, S),
           \A b \in h.out : WireOf(h, b)
    PROVE  \A b \in k.out : WireOf(k, b)
<1> SUFFICES ASSUME NEW b \in k.out PROVE WireOf(k, b)
  OBVIOUS
<1>1. CASE b \in h.out
  BY <1>1, WireLater
<1>2. CASE b \notin h.out
  BY <1>2 DEF Puts, WireOf
<1> QED BY <1>1, <1>2

\* What two steps gave to the UDP socket.
LEMMA PutsThen ==
    ASSUME NEW h, NEW k, Typed(k), NEW m, Typed(m), Grows(k, m),
           NEW S, Puts(h, k, S), NEW T, Puts(k, m, T)
    PROVE  Puts(h, m, S \union T)
<1> SUFFICES ASSUME NEW b \in m.out, b \notin h.out
             PROVE \E d \in Datagrams : b = Encode(0, d) /\ d.seq \in S \union T
                                          /\ SentPacket(m, d)
  BY DEF Puts
<1>1. CASE b \in k.out
  <2>1. PICK d \in Datagrams : b = Encode(0, d) /\ d.seq \in S /\ SentPacket(k, d)
    BY <1>1 DEF Puts
  <2> QED BY <2>1, SentPacketLater
<1>2. CASE b \notin k.out
  BY <1>2 DEF Puts
<1> QED BY <1>1, <1>2
-----------------------------------------------------------------------------
\* Of the record only these fields are spoken of by Sound and Grows.
SameNumbers(h, k) ==
    /\ k.next = h.next /\ k.taken = h.taken
    /\ k.handshakes = h.handshakes /\ k.sent = h.sent

\* A step that gives and takes no number preserves what is said of them.
LEMMA SameNumbersGrows ==
    ASSUME NEW h, Typed(h), NEW k, SameNumbers(h, k)
    PROVE  /\ Grows(h, k) /\ SentBy(k) = SentBy(h) /\ Shakes(k) = Shakes(h)
           /\ \A d : SentPacket(h, d) <=> SentPacket(k, d)
           /\ \A q : QueueOf(h, q) <=> QueueOf(k, q)
<1>1. SentBy(k) = SentBy(h) /\ Shakes(k) = Shakes(h)
  BY DEF SameNumbers, SentBy, Shakes
<1>2. Grows(h, k)
  BY <1>1, NumberAssumption DEF SameNumbers, Grows, Typed
<1>3. \A d : SentPacket(h, d) <=> SentPacket(k, d)
  BY <1>1 DEF SameNumbers, SentPacket
<1>4. \A q : QueueOf(h, q) <=> QueueOf(k, q)
  BY <1>1 DEF SameNumbers, QueueOf
<1> QED BY <1>1, <1>2, <1>3, <1>4

\* ... and if it leaves the queue alone, Sound.
LEMMA SoundRests ==
    ASSUME NEW h, Sound(h), NEW k, Typed(k), SameNumbers(h, k),
           k.queue = h.queue, k.done = h.done, k.out = h.out
    PROVE  Sound(k) /\ Puts(h, k, {})
<1>1. Numbered(k)
  BY SameNumbersGrows DEF Sound, Numbered, SameNumbers
<1>2. QueueOf(k, k.queue)
  BY SameNumbersGrows DEF Sound
<1>3. \A b \in k.out : WireOf(k, b)
  BY SameNumbersGrows DEF Sound, WireOf
<1> QED BY <1>1, <1>2, <1>3 DEF Sound, Puts

\* To start receiving preserves Sound.
LEMMA RestartsSound ==
    ASSUME NEW h, Sound(h), NEW k, Restarts(h, k)
    PROVE  /\ Sound(k) /\ SameNumbers(h, k) /\ Puts(h, k, {})
           /\ Whole(h) => Whole(k)
           /\ k.queue = h.queue
<1>1. HasFields(h)
  BY DEF Sound, Typed
<1>2. /\ SameNumbers(h, k) /\ k.queue = h.queue /\ k.done = h.done /\ k.out = h.out
      /\ k.history = h.history
  BY <1>1, FieldsThere DEF SameNumbers, Restarts, Same, ReadFields
<1>3. /\ k.conn = h.conn /\ k.inputs = h.inputs /\ k.confirming = h.confirming
      /\ k.outputs = h.outputs /\ k.delivered = h.delivered /\ k.aborts = h.aborts
  BY <1>1, FieldsThere DEF SameNumbers, Restarts, Same, ReadFields
<1>4. HasFields(k)
  BY <1>1, SameHas DEF Restarts
<1>5. Typed(k)
  BY <1>2, <1>3, <1>4 DEF Typed, Sound, Restarts, ReadsOn, SameNumbers
<1>6. Whole(h) => Whole(k)
  BY <1>2 DEF Whole, SameNumbers
<1> QED BY <1>2, <1>5, <1>6, SoundRests
-----------------------------------------------------------------------------
(* The steps of the transmit queue.                                        *)

\* Queue r has started operations of S that q had not.
Starts(q, r, S) == \A n \in NumberSet : r.flying[n] > q.flying[n] => n \in S

\* Sequence numbers are natural numbers.
LEMMA NumbersAreNaturals == NumberSet \subseteq Nat
  BY NumberAssumption DEF NumberSet

\* The steps of an operation that are in flight are counted.
LEMMA Flying ==
    ASSUME NEW q, IsQueue(q, NumberSet), NEW n \in NumberSet
    PROVE  q.flying[n] \in Nat
  BY DEF IsQueue, Queues

\* The active entry of a queue of h is under its own number.
LEMMA ActiveOf ==
    ASSUME NEW h, NEW q, QueueOf(h, q), Indices(q) # {}
    PROVE  /\ Active(q) \in Indices(q) /\ q.entries[Active(q)] = Active(q)
           /\ Active(q) \in NumberSet /\ Active(q) < h.next
           /\ \A j \in Indices(q) : Active(q) <= j
<1>1. Active(q) \in Indices(q) /\ \A j \in Indices(q) : Active(q) <= j
  BY ActiveIsFirst DEF QueueOf
<1>2. q.entries[Active(q)] \in NumberSet
  BY <1>1 DEF QueueOf, IsQueue, Queues
<1> QED BY <1>1, <1>2 DEF QueueOf

\* push() of a number the host has given starts it if the queue was empty.
LEMMA PushedOf ==
    ASSUME NEW h, NEW q, QueueOf(h, q), NEW n \in NumberSet, n \notin Indices(q),
           n < h.next, n \in SentBy(h) \union Shakes(h)
    PROVE  LET r == Pushed(q, n, n)
           IN  /\ QueueOf(h, r) /\ r.open = q.open
               /\ Indices(r) = Indices(q) \union {n}
               /\ Starts(q, r, IF Indices(q) = {} THEN {n} ELSE {})
<1> DEFINE r == Pushed(q, n, n)
<1>0. IsQueue(q, NumberSet) /\ n \in Nat
  BY NumbersAreNaturals DEF QueueOf
<1>1. /\ IsQueue(r, NumberSet) /\ Indices(r) = Indices(q) \union {n}
      /\ r.entries[n] = n /\ \A j \in Indices(q) : r.entries[j] = q.entries[j]
      /\ r.open = q.open
      /\ r.flying = IF Indices(q) = {} THEN [q.flying EXCEPT ![n] = @ + 1] ELSE q.flying
  BY <1>0, PushedQueue
<1> HIDE DEF r
<1>2. \A m \in NumberSet : m # n => r.flying[m] = q.flying[m]
  BY <1>0, <1>1 DEF IsQueue, Queues
<1>3. QueueOf(h, r)
  BY <1>1, <1>2 DEF QueueOf
<1>4. Starts(q, r, IF Indices(q) = {} THEN {n} ELSE {})
  <2>1. CASE Indices(q) = {}
    BY <1>0, <1>2, <2>1, Flying DEF Starts
  <2>2. CASE Indices(q) # {}
    BY <1>0, <1>1, <2>2, Flying DEF Starts
  <2> QED BY <2>1, <2>2
<1> QED BY <1>1, <1>3, <1>4 DEF r

\* The timer starts the first entry again.
LEMMA TickedOf ==
    ASSUME NEW h, NEW q, QueueOf(h, q)
    PROVE  LET r == Ticked(q)
           IN  /\ QueueOf(h, r) /\ r.open = q.open /\ Indices(r) = Indices(q)
               /\ Starts(q, r, {n \in Indices(q) : \A j \in Indices(q) : n <= j})
<1> DEFINE r == Ticked(q)
<1>0. IsQueue(q, NumberSet)
  BY DEF QueueOf
<1>1. /\ IsQueue(r, NumberSet) /\ Indices(r) = Indices(q)
      /\ r.entries = q.entries /\ r.open = q.open
      /\ r.flying = IF Indices(q) = {} THEN q.flying
                    ELSE [q.flying EXCEPT ![q.entries[Active(q)]] = @ + 1]
  BY <1>0, TickedQueue
<1> HIDE DEF r
<1>2. CASE Indices(q) = {}
  BY <1>0, <1>1, <1>2, Flying DEF QueueOf, Starts, r
<1>3. CASE Indices(q) # {}
  <2>1. /\ Active(q) \in Indices(q) /\ Active(q) \in NumberSet /\ Active(q) < h.next
        /\ \A j \in Indices(q) : Active(q) <= j
        /\ r.flying = [q.flying EXCEPT ![Active(q)] = @ + 1]
    BY <1>1, <1>3, ActiveOf
  <2>2. \A m \in NumberSet : m # Active(q) => r.flying[m] = q.flying[m]
    BY <1>0, <2>1 DEF IsQueue, Queues
  <2>3. QueueOf(h, r)
    BY <1>1, <2>1, <2>2 DEF QueueOf
  <2>4. Starts(q, r, {n \in Indices(q) : \A j \in Indices(q) : n <= j})
    BY <1>0, <2>1, <2>2, Flying DEF Starts
  <2> QED BY <1>1, <2>3, <2>4 DEF r
<1> QED BY <1>2, <1>3

\* An acknowledgement removes its entry and may start another.
LEMMA AckedOf ==
    ASSUME NEW h, NEW q, QueueOf(h, q), NEW i
    PROVE  LET r == Acked(q, i)
           IN  /\ QueueOf(h, r) /\ r.open = q.open
               /\ Indices(r) = Indices(q) \ {i}
               /\ Starts(q, r, IF i \in Indices(q) THEN Indices(r) ELSE {})
<1> DEFINE r == Acked(q, i)
<1>0. IsQueue(q, NumberSet)
  BY DEF QueueOf
<1>1. CASE i \notin Indices(q)
  BY <1>0, <1>1, AckedUnknown, Flying DEF Starts
<1>2. CASE i \in Indices(q)
  <2>1. /\ IsQueue(r, NumberSet) /\ Indices(r) = Indices(q) \ {i}
        /\ \A j \in Indices(q) \ {i} : r.entries[j] = q.entries[j]
        /\ r.flying = IF i # Active(q) \/ Indices(r) = {} THEN q.flying
                      ELSE [q.flying EXCEPT ![q.entries[Active(r)]] = @ + 1]
        /\ r.open = q.open
    BY <1>0, <1>2, AckedQueue
  <2> HIDE DEF r
  <2>2. CASE i # Active(q) \/ Indices(r) = {}
    BY <1>0, <1>2, <2>1, <2>2, Flying DEF QueueOf, Starts, r
  <2>3. CASE ~ (i # Active(q) \/ Indices(r) = {})
    <3>1. Active(r) \in Indices(r)
      BY <2>1, <2>3, ActiveIsFirst
    <3> DEFINE a == q.entries[Active(r)]
    <3>2. /\ a = Active(r) /\ a \in NumberSet /\ a < h.next
      BY <1>0, <2>1, <3>1 DEF QueueOf, IsQueue, Queues
    <3>3. r.flying = [q.flying EXCEPT ![a] = @ + 1]
      BY <2>1, <2>3
    <3> HIDE DEF a
    <3>4. \A m \in NumberSet : m # a => r.flying[m] = q.flying[m]
      BY <1>0, <3>2, <3>3 DEF IsQueue, Queues
    <3>5. QueueOf(h, r)
      BY <2>1, <3>2, <3>4 DEF QueueOf
    <3>6. Starts(q, r, Indices(r))
      BY <1>0, <3>1, <3>2, <3>4, Flying DEF Starts
    <3> QED BY <1>2, <2>1, <3>5, <3>6 DEF r
  <2> QED BY <2>2, <2>3
<1> QED BY <1>1, <1>2

\* A step that completes changes no entry.
LEMMA CompletedOf ==
    ASSUME NEW h, NEW q, QueueOf(h, q), NEW n \in NumberSet, q.flying[n] > 0, NEW error
    PROVE  LET r == Completed(q, n, error)
           IN  QueueOf(h, r) /\ r.open = q.open /\ Indices(r) = Indices(q)
<1> DEFINE r == Completed(q, n, error)
<1>0. IsQueue(q, NumberSet) /\ q.flying[n] # 0
  BY Flying DEF QueueOf
<1>1. /\ IsQueue(r, NumberSet) /\ Indices(r) = Indices(q)
      /\ r.entries = q.entries /\ r.open = q.open
  <2>1. ASSUME NEW e
        PROVE /\ IsQueue(Completed(q, n, e), NumberSet)
              /\ Indices(Completed(q, n, e)) = Indices(q)
              /\ Completed(q, n, e).entries = q.entries
              /\ Completed(q, n, e).open = q.open
    BY <1>0, CompletedQueue
  <2> QED BY <2>1, Zenon
<1>2. r.flying = [q.flying EXCEPT ![n] = @ - 1]
  BY <1>0 DEF Completed, IsQueue, Queues
<1> HIDE DEF r
<1>3. \A m \in NumberSet : r.flying[m] > 0 => m < h.next
  <2>1. \A m \in NumberSet : m # n => r.flying[m] = q.flying[m]
    BY <1>0, <1>2 DEF IsQueue, Queues
  <2> QED BY <2>1 DEF QueueOf
<1> QED BY <1>1, <1>3 DEF QueueOf, r

\* shutdown() empties the queue.
LEMMA ShutDownOf ==
    ASSUME NEW h, NEW q, QueueOf(h, q)
    PROVE  LET r == ShutDown(q)
           IN  QueueOf(h, r) /\ Indices(r) = {}
<1>1. IsQueue(q, NumberSet)
  BY DEF QueueOf
<1>2. /\ IsQueue(ShutDown(q), NumberSet) /\ Indices(ShutDown(q)) = {}
      /\ ShutDown(q).flying = q.flying
  BY <1>1, ShutDownQueue
<1> QED BY <1>2 DEF QueueOf
-----------------------------------------------------------------------------
\* What DatagramOf finds for a number in the queue was sent by h.
LEMMA DatagramMeans ==
    ASSUME NEW h, Typed(h), Numbered(h), Whole(h), NEW n \in NumberSet, n < h.next,
           n \in SentBy(h) \union Shakes(h)
    PROVE  \E d \in Datagrams :
             DatagramOf(h, n) = Encode(0, d) /\ d.seq = n /\ SentPacket(h, d)
<1> DEFINE mine == {m \in h.handshakes : m.seq = n}
<1>1. CASE mine # {}
  <2> DEFINE m == CHOOSE x \in mine : TRUE
             d == [type |-> "handshake", seq |-> n, ack |-> m.ack]
  <2>1. m \in h.handshakes /\ m.seq = n
    BY <1>1
  <2>2. DatagramOf(h, n) = Encode(0, d)
    BY <1>1 DEF DatagramOf
  <2> HIDE DEF m
  <2>3. m \in [seq : NumberSet, ack : Acks]
    BY <2>1 DEF Typed
  <2>4. Shake(n, m.ack) = m
    BY <2>1, <2>3 DEF Shake
  <2>5. d \in Datagrams
    BY <2>3 DEF Datagrams, NumberSet, Acks
  <2>6. SentPacket(h, d)
    BY <2>1, <2>4, <2>5 DEF SentPacket, Numbered
  <2> QED BY <2>2, <2>5, <2>6
<1>2. CASE mine = {}
  <2> DEFINE d == [type |-> "data", seq |-> n, ack |-> LastSeen(h)]
  <2>1. LastSeen(h) \in Acks /\ (LastSeen(h) # NoAck => LastSeen(h) \in h.taken)
    BY LastSeenTaken DEF Acks, Typed
  <2>2. DatagramOf(h, n) = Encode(0, d)
    BY <1>2 DEF DatagramOf
  <2>3. n \in SentBy(h)
    BY <1>2 DEF Shakes
  <2>4. d \in Datagrams
    BY <2>1 DEF Datagrams, NumberSet, Acks
  <2>5. SentPacket(h, d)
    BY <2>1, <2>3, <2>4 DEF SentPacket
  <2> QED BY <2>2, <2>4, <2>5
<1> QED BY <1>1, <1>2

\* What the queue starts is given to the UDP socket, under numbers of S.
LEMMA QueuedMeans ==
    ASSUME NEW h, Sound(h), Whole(h), NEW q, QueueOf(h, q),
           NEW S, S \subseteq Indices(q), Starts(h.queue, q, S)
    PROVE  LET k == Queued(h, q)
           IN  /\ Sound(k) /\ Whole(k) /\ Same(h, k, {"queue", "out"})
               /\ SameNumbers(h, k) /\ k.queue = q /\ Puts(h, k, S)
<1> DEFINE started == {n \in DOMAIN q.flying : q.flying[n] > h.queue.flying[n]}
           new == {DatagramOf(h, n) : n \in started}
           k == Queued(h, q)
<1>0. HasFields(h) /\ Typed(h) /\ Numbered(h)
  BY DEF Sound, Typed
<1>1. DOMAIN q.flying = NumberSet
  BY DEF QueueOf, IsQueue, Queues
<1>2. \A n \in started : n \in S /\ n \in NumberSet
  BY <1>1 DEF Starts
<1>3. k = [h EXCEPT !.queue = q, !.out = @ \union new]
  BY DEF Queued
<1>4. Same(h, k, {"queue", "out"}) /\ k.queue = q /\ k.out = h.out \union new
  BY <1>0, <1>3, FieldsThere DEF Same
<1> HIDE DEF k
<1>5. SameNumbers(h, k) /\ k.history = h.history
  BY <1>0, <1>4, FieldsThere DEF Same, SameNumbers
<1>6. Typed(k)
  <2>1. /\ k.conn = h.conn /\ k.inputs = h.inputs /\ k.confirming = h.confirming
        /\ k.outputs = h.outputs /\ k.delivered = h.delivered /\ k.aborts = h.aborts
        /\ k.calls = h.calls /\ k.done = h.done
    BY <1>0, <1>4, FieldsThere DEF Same
  <2>2. HasFields(k)
    BY <1>0, <1>4, SameHas
  <2> QED BY <1>0, <1>5, <2>1, <2>2 DEF Typed, SameNumbers
<1>7. \A b \in new : \E d \in Datagrams :
        b = Encode(0, d) /\ d.seq \in S /\ SentPacket(k, d)
  <2> SUFFICES ASSUME NEW n \in started
               PROVE \E d \in Datagrams : DatagramOf(h, n) = Encode(0, d) /\ d.seq \in S
                                            /\ SentPacket(k, d)
    OBVIOUS
  <2>1. n \in S /\ n \in NumberSet /\ n < h.next /\ n \in SentBy(h) \union Shakes(h)
    BY <1>2 DEF QueueOf
  <2> HIDE DEF started
  <2>2. PICK d \in Datagrams :
          DatagramOf(h, n) = Encode(0, d) /\ d.seq = n /\ SentPacket(h, d)
    BY <1>0, <2>1, DatagramMeans
  <2> QED BY <1>0, <1>5, <2>1, <2>2, SameNumbersGrows
<1> HIDE DEF new
<1>8. Puts(h, k, S)
  BY <1>4, <1>7 DEF Puts
<1>9. Grows(h, k)
  BY <1>0, <1>5, SameNumbersGrows
<1>10. \A b \in k.out : WireOf(k, b)
  BY <1>0, <1>6, <1>8, <1>9, PutsWire DEF Sound
<1>11. QueueOf(k, k.queue)
  BY <1>0, <1>4, <1>5, SameNumbersGrows
<1>12. k.done = h.done
  BY <1>0, <1>4, FieldsThere DEF Same
<1>13. Numbered(k)
  BY <1>0, <1>5, <1>12, SameNumbersGrows DEF Numbered, SameNumbers
<1>14. Whole(k)
  BY <1>5 DEF Whole, SameNumbers
<1> QED BY <1>4, <1>5, <1>6, <1>8, <1>10, <1>11, <1>13, <1>14 DEF Sound, k
-----------------------------------------------------------------------------
(* Giving the next number to a handshake, to data, to a keepalive.         *)

\* The next number is nobody's yet.
LEMMA NextIsNew ==
    ASSUME NEW h, Sound(h), h.next <= MaxNumber
    PROVE  /\ h.next \in NumberSet /\ h.next \in Nat
           /\ h.next \notin SentBy(h) \union Shakes(h)
           /\ h.next \notin Indices(h.queue) /\ h.next \notin h.done
<1>1. h.next \in NumberSet /\ h.next \in Nat
  BY NumberAssumption DEF Sound, Typed, NumberSet
<1>2. ~ (h.next < h.next)
  BY <1>1
<1> QED BY <1>1, <1>2 DEF Sound, Numbered, QueueOf, SentBy, Shakes

\* Only later numbers were given since.
LEMMA Numbers1 ==
    ASSUME NEW h, Sound(h), NEW k, Typed(k), k.next = h.next + 1,
           h.taken \subseteq k.taken, h.handshakes \subseteq k.handshakes,
           SentBy(h) \subseteq SentBy(k),
           \A n \in SentBy(k) \union Shakes(k) :
              n \in SentBy(h) \union Shakes(h) \/ n = h.next
    PROVE  /\ Grows(h, k)
           /\ \A q : QueueOf(h, q) => QueueOf(k, q)
<1>1. h.next \in Nat /\ Typed(h)
  <2>1. Typed(h)
    BY DEF Sound
  <2>2. h.next \in 0 .. MaxNumber + 1
    BY <2>1 DEF Typed
  <2> QED BY <2>1, <2>2, NumberAssumption
<1>2. Grows(h, k)
  BY <1>1 DEF Grows
<1>3. Shakes(h) \subseteq Shakes(k)
  BY DEF Shakes
<1>4. \A n \in NumberSet : n < h.next => n < k.next
  BY <1>1, NumbersAreNaturals
<1>5. ASSUME NEW q, QueueOf(h, q) PROVE QueueOf(k, q)
  <2>1. \A i \in Indices(q) : i \in NumberSet
    <3>1. IsQueue(q, NumberSet)
      BY <1>5 DEF QueueOf
    <3>2. /\ q.entries \in [Indices(q) -> NumberSet]
          /\ \A i \in Indices(q) : q.entries[i] = i
      BY <1>5, <3>1 DEF QueueOf, IsQueue, Queues
    <3> QED BY <3>2
  <2> QED BY <1>3, <1>4, <1>5, <2>1 DEF QueueOf, Grows
<1> QED BY <1>2, <1>5

\* A handshake takes the next number, which no datagram has.
LEMMA NewShake ==
    ASSUME NEW h, Sound(h), h.next <= MaxNumber, NEW ack \in Acks,
           ack # NoAck => ack \in h.taken
    PROVE  LET k == [h EXCEPT !.next = @ + 1,
                              !.handshakes = @ \union {[seq |-> h.next, ack |-> ack]}]
           IN  /\ Sound(k) /\ Grows(h, k) /\ Puts(h, k, {})
               /\ Same(h, k, {"next", "handshakes"}) /\ k.next = h.next + 1
               /\ k.handshakes = h.handshakes \union {Shake(h.next, ack)}
               /\ h.next \in Shakes(k)
<1> DEFINE n == h.next
           k == [h EXCEPT !.next = @ + 1, !.handshakes = @ \union {Shake(n, ack)}]
<1>0. HasFields(h) /\ Typed(h) /\ Numbered(h)
  BY DEF Sound, Typed
<1>1. /\ n \in NumberSet /\ n \in Nat /\ n \notin SentBy(h)
  BY NextIsNew
<1>2. /\ Same(h, k, {"next", "handshakes"}) /\ k.next = n + 1
      /\ k.handshakes = h.handshakes \union {Shake(n, ack)}
  BY <1>0, FieldsThere DEF Same
<1>3. k = [h EXCEPT !.next = @ + 1,
                    !.handshakes = @ \union {[seq |-> h.next, ack |-> ack]}]
  BY DEF Shake
<1> HIDE DEF k, n
<1>4. /\ k.taken = h.taken /\ k.sent = h.sent /\ k.done = h.done
      /\ k.queue = h.queue /\ k.out = h.out
  BY <1>0, <1>2, FieldsThere DEF Same
<1>5. /\ Shake(n, ack) \in [seq : NumberSet, ack : Acks]
      /\ Shake(n, ack).seq = n /\ Shake(n, ack).ack = ack
  BY <1>1 DEF Shake
<1>6. Typed(k)
  <2>1. /\ k.conn = h.conn /\ k.inputs = h.inputs /\ k.confirming = h.confirming
        /\ k.outputs = h.outputs /\ k.delivered = h.delivered /\ k.aborts = h.aborts
        /\ k.calls = h.calls /\ k.history = h.history
    BY <1>0, <1>2, FieldsThere DEF Same
  <2>2. HasFields(k)
    BY <1>0, <1>2, SameHas
  <2>3. k.next \in 0 .. MaxNumber + 1
    BY <1>1, <1>2, NumberAssumption DEF NumberSet
  <2> QED BY <1>0, <1>2, <1>4, <1>5, <2>1, <2>2, <2>3 DEF Typed
<1>7. SentBy(k) = SentBy(h) /\ Shakes(k) = Shakes(h) \union {n}
  BY <1>2, <1>4, <1>5 DEF SentBy, Shakes
<1>8. Grows(h, k) /\ QueueOf(k, k.queue)
  <2>1. QueueOf(h, k.queue)
    BY <1>4 DEF Sound
  <2> QED BY <1>2, <1>4, <1>6, <1>7, <2>1, Numbers1 DEF n
<1>9. Numbered(k)
  <2>1. \A x \in NumberSet : x < n => x < k.next
    BY <1>1, <1>2, NumbersAreNaturals
  <2>2. \A m \in h.handshakes : m.seq \in NumberSet
    BY <1>0 DEF Typed
  <2>3. \A i \in DOMAIN h.sent : h.sent[i] \in NumberSet
    BY <1>0 DEF Typed
  <2>4. \A m \in k.handshakes : /\ m.seq < k.next /\ m.seq \notin SentBy(k)
                                /\ m.ack # NoAck => m.ack \in k.taken
    BY <1>0, <1>1, <1>2, <1>4, <1>5, <1>7, <2>1, <2>2 DEF Numbered, n
  <2>5. \A i \in DOMAIN k.sent : k.sent[i] < k.next
    BY <1>0, <1>4, <2>1, <2>3 DEF Numbered, n
  <2>6. \A x \in k.done : x < k.next
    BY <1>0, <1>4, <2>1 DEF Numbered, Typed, n
  <2> QED BY <1>0, <1>4, <2>4, <2>5, <2>6 DEF Numbered
<1>10. Puts(h, k, {})
  BY <1>4 DEF Puts
<1>11. \A b \in k.out : WireOf(k, b)
  BY <1>0, <1>6, <1>8, <1>10, PutsWire DEF Sound
<1> QED BY <1>2, <1>3, <1>6, <1>7, <1>8, <1>9, <1>10, <1>11 DEF Sound, n

\* Data takes the next number, larger than all that was sent.
LEMMA NewData ==
    ASSUME NEW h, Sound(h), h.next <= MaxNumber
    PROVE  LET k == [h EXCEPT !.next = @ + 1, !.sent = Append(@, h.next)]
           IN  /\ Sound(k) /\ Grows(h, k) /\ Puts(h, k, {})
               /\ Same(h, k, {"next", "sent"}) /\ k.next = h.next + 1
               /\ k.sent = Append(h.sent, h.next)
               /\ h.next \in SentBy(k)
<1> DEFINE n == h.next
           k == [h EXCEPT !.next = @ + 1, !.sent = Append(@, n)]
<1>0. HasFields(h) /\ Typed(h) /\ Numbered(h)
  BY DEF Sound, Typed
<1>1. n \in NumberSet /\ n \in Nat /\ n \notin SentBy(h) \union Shakes(h)
  BY NextIsNew
<1>2. /\ Same(h, k, {"next", "sent"}) /\ k.next = n + 1
      /\ k.sent = Append(h.sent, n)
  BY <1>0, FieldsThere DEF Same
<1>3. k = [h EXCEPT !.next = @ + 1, !.sent = Append(@, h.next)]
  OBVIOUS
<1> HIDE DEF k, n
<1>4. /\ k.taken = h.taken /\ k.handshakes = h.handshakes /\ k.done = h.done
      /\ k.queue = h.queue /\ k.out = h.out
  BY <1>0, <1>2, FieldsThere DEF Same
<1>5. /\ h.sent \in Seq(NumberSet) /\ k.sent \in Seq(NumberSet)
      /\ DOMAIN k.sent = 1 .. Len(h.sent) + 1 /\ DOMAIN h.sent = 1 .. Len(h.sent)
      /\ Len(h.sent) \in Nat /\ k.sent[Len(h.sent) + 1] = n
      /\ \A i \in DOMAIN h.sent : k.sent[i] = h.sent[i]
  BY <1>0, <1>1, <1>2 DEF Typed
<1>6. Typed(k)
  <2>1. /\ k.conn = h.conn /\ k.inputs = h.inputs /\ k.confirming = h.confirming
        /\ k.outputs = h.outputs /\ k.delivered = h.delivered /\ k.aborts = h.aborts
        /\ k.calls = h.calls /\ k.history = h.history
    BY <1>0, <1>2, FieldsThere DEF Same
  <2>2. HasFields(k)
    BY <1>0, <1>2, SameHas
  <2>3. k.next \in 0 .. MaxNumber + 1
    BY <1>1, <1>2, NumberAssumption DEF NumberSet
  <2> QED BY <1>0, <1>4, <1>5, <2>1, <2>2, <2>3 DEF Typed
<1>7. SentBy(k) = SentBy(h) \union {n} /\ Shakes(k) = Shakes(h)
  <2>1. Shakes(k) = Shakes(h)
    BY <1>4 DEF Shakes
  <2>2. ASSUME NEW x PROVE x \in SentBy(k) <=> x \in SentBy(h) \union {n}
    <3>1. \A i : i \in DOMAIN k.sent <=> i \in DOMAIN h.sent \/ i = Len(h.sent) + 1
      BY <1>5
    <3> QED BY <1>5, <3>1 DEF SentBy
  <2> QED BY <2>1, <2>2
<1>8. Grows(h, k) /\ QueueOf(k, k.queue)
  <2>1. QueueOf(h, k.queue)
    BY <1>4 DEF Sound
  <2> QED BY <1>2, <1>4, <1>6, <1>7, <2>1, Numbers1 DEF n
<1>9. Numbered(k)
  <2>1. \A x \in NumberSet : x < n => x < k.next
    BY <1>1, <1>2, NumbersAreNaturals
  <2>2. \A m \in h.handshakes : m.seq \in NumberSet
    BY <1>0 DEF Typed
  <2>3. \A i \in DOMAIN h.sent : h.sent[i] \in NumberSet
    BY <1>5
  <2>4. \A m \in k.handshakes : /\ m.seq < k.next /\ m.seq \notin SentBy(k)
                                /\ m.ack # NoAck => m.ack \in k.taken
    BY <1>0, <1>1, <1>4, <1>7, <2>1, <2>2 DEF Numbered, n, Shakes
  <2>5. \A i \in DOMAIN k.sent : k.sent[i] < k.next
    BY <1>0, <1>1, <1>2, <1>5, <2>1, <2>3 DEF Numbered, n
  <2>6. \A x \in k.done : x < k.next
    BY <1>0, <1>4, <2>1 DEF Numbered, Typed, n
  <2>7. \A i, j \in DOMAIN k.sent : i < j => k.sent[i] < k.sent[j]
    <3> SUFFICES ASSUME NEW i \in DOMAIN k.sent, NEW j \in DOMAIN k.sent, i < j
                 PROVE k.sent[i] < k.sent[j]
      OBVIOUS
    <3>1. i \in DOMAIN h.sent
      BY <1>5
    <3>2. CASE j \in DOMAIN h.sent
      BY <1>0, <1>5, <3>1, <3>2 DEF Numbered
    <3>3. CASE j = Len(h.sent) + 1
      BY <1>0, <1>5, <3>1, <3>3 DEF Numbered, n
    <3> QED BY <1>5, <3>2, <3>3
  <2> QED BY <2>4, <2>5, <2>6, <2>7 DEF Numbered
<1>10. Puts(h, k, {})
  BY <1>4 DEF Puts
<1>11. \A b \in k.out : WireOf(k, b)
  BY <1>0, <1>6, <1>8, <1>10, PutsWire DEF Sound
<1> QED BY <1>2, <1>3, <1>6, <1>7, <1>8, <1>9, <1>10, <1>11 DEF Sound, n

\* A keepalive uses a number up and acknowledges what was taken.
LEMMA KeepaliveSent ==
    ASSUME NEW h, Sound(h), h.next <= MaxNumber, NEW ack \in h.taken, ack # NoAck
    PROVE  LET k == SendKeepalive(h, ack)
           IN  /\ Sound(k) /\ Grows(h, k) /\ Puts(h, k, {h.next})
               /\ Same(h, k, {"next", "out"}) /\ k.next = h.next + 1
<1> DEFINE n == h.next
           d == [type |-> "keepalive", seq |-> n, ack |-> ack]
           k == SendKeepalive(h, ack)
<1>0. HasFields(h) /\ Typed(h) /\ Numbered(h)
  BY DEF Sound, Typed
<1>1. n \in NumberSet /\ n \in Nat /\ n \notin SentBy(h) \union Shakes(h)
  BY NextIsNew
<1>2. /\ Same(h, k, {"next", "out"}) /\ k.next = n + 1
      /\ k.out = h.out \union {Encode(0, d)}
  BY <1>0, FieldsThere DEF Same, SendKeepalive
<1>3. /\ d \in Datagrams /\ d.seq = n /\ d.type = "keepalive" /\ d.ack = ack
  BY <1>0, <1>1 DEF Datagrams, Typed, NumberSet
<1> HIDE DEF k, n, d
<1>4. /\ k.taken = h.taken /\ k.handshakes = h.handshakes /\ k.done = h.done
      /\ k.queue = h.queue /\ k.sent = h.sent
  BY <1>0, <1>2, FieldsThere DEF Same
<1>6. Typed(k)
  <2>1. /\ k.conn = h.conn /\ k.inputs = h.inputs /\ k.confirming = h.confirming
        /\ k.outputs = h.outputs /\ k.delivered = h.delivered /\ k.aborts = h.aborts
        /\ k.calls = h.calls /\ k.history = h.history
    BY <1>0, <1>2, FieldsThere DEF Same
  <2>2. HasFields(k)
    BY <1>0, <1>2, SameHas
  <2>3. k.next \in 0 .. MaxNumber + 1
    BY <1>1, <1>2, NumberAssumption DEF NumberSet
  <2> QED BY <1>0, <1>4, <2>1, <2>2, <2>3 DEF Typed
<1>7. SentBy(k) = SentBy(h) /\ Shakes(k) = Shakes(h)
  BY <1>4 DEF SentBy, Shakes
<1>8. Grows(h, k) /\ QueueOf(k, k.queue)
  <2>1. QueueOf(h, k.queue)
    BY <1>4 DEF Sound
  <2> QED BY <1>2, <1>4, <1>6, <1>7, <2>1, Numbers1 DEF n
<1>9. Numbered(k)
  <2>1. \A x \in NumberSet : x < n => x < k.next
    BY <1>1, <1>2, NumbersAreNaturals
  <2>2. \A m \in h.handshakes : m.seq \in NumberSet
    BY <1>0 DEF Typed
  <2>3. \A i \in DOMAIN h.sent : h.sent[i] \in NumberSet
    BY <1>0 DEF Typed
  <2> QED BY <1>0, <1>4, <1>7, <2>1, <2>2, <2>3 DEF Numbered, Typed, n
<1>10. SentPacket(k, d)
  BY <1>1, <1>2, <1>3, <1>4, <1>7 DEF SentPacket
<1>11. Puts(h, k, {n})
  BY <1>2, <1>3, <1>10 DEF Puts
<1>12. \A b \in k.out : WireOf(k, b)
  BY <1>0, <1>6, <1>8, <1>11, PutsWire DEF Sound
<1> QED BY <1>2, <1>6, <1>8, <1>9, <1>11, <1>12 DEF Sound, k, n

\* A datagram that was given a number is pushed, and the socket receives.
LEMMA PushNew ==
    ASSUME NEW h, Sound(h), Whole(h), NEW n \in NumberSet, n < h.next,
           n \in SentBy(h) \union Shakes(h), n \notin Indices(h.queue)
    PROVE  LET m == IdempotentStartReceive(h)
               k == Queued(m, Pushed(m.queue, n, n))
           IN  /\ Sound(k) /\ Whole(k) /\ SameNumbers(h, k)
               /\ Same(h, k, ReadFields \union {"queue", "out"})
               /\ ReadsOn(h, k) /\ k.receiving
               /\ k.queue.open = h.queue.open
               /\ Indices(k.queue) = Indices(h.queue) \union {n}
               /\ Puts(h, k, IF Indices(h.queue) = {} THEN {n} ELSE {})
<1> DEFINE m == IdempotentStartReceive(h)
           q == Pushed(m.queue, n, n)
           k == Queued(m, q)
           S == IF Indices(h.queue) = {} THEN {n} ELSE {}
<1>0. HasFields(h) /\ Typed(h) /\ h.calls \in 0 .. 15
  BY DEF Sound, Typed
<1>1. Restarts(h, m) /\ m.receiving
  BY <1>0, StartAgain
<1> HIDE DEF m
<1>2. /\ Sound(m) /\ SameNumbers(h, m) /\ Puts(h, m, {}) /\ Whole(m)
      /\ m.queue = h.queue
  BY <1>1, RestartsSound
<1>3. QueueOf(m, m.queue) /\ n < m.next /\ n \in SentBy(m) \union Shakes(m)
  BY <1>0, <1>2, SameNumbersGrows DEF Sound, SameNumbers
<1>4. /\ QueueOf(m, q) /\ q.open = h.queue.open
      /\ Indices(q) = Indices(h.queue) \union {n} /\ Starts(m.queue, q, S)
  BY <1>2, <1>3, PushedOf
<1>5. S \subseteq Indices(q)
  BY <1>4
<1> HIDE DEF q, S
<1>6. /\ Sound(k) /\ Whole(k) /\ Same(m, k, {"queue", "out"})
      /\ SameNumbers(m, k) /\ k.queue = q /\ Puts(m, k, S)
  BY <1>2, <1>4, <1>5, QueuedMeans
<1> HIDE DEF k
<1>7. HasFields(m) /\ m.calls \in 0 .. 15 /\ Typed(m) /\ Typed(k)
  BY <1>2, <1>6 DEF Sound, Typed
<1>8. /\ k.calls = m.calls /\ k.peeks = m.peeks /\ k.failed = m.failed
      /\ k.receiving = m.receiving
  BY <1>6, <1>7, FieldsThere DEF Same
<1>9. ReadsOn(h, k)
  BY <1>0, <1>1, <1>7, <1>8, RestsReading, ReadsOnThen DEF Restarts
<1>10. Same(h, k, ReadFields \union {"queue", "out"})
  BY <1>1, <1>6, SameThen DEF Restarts
<1>11. SameNumbers(h, k)
  BY <1>2, <1>6 DEF SameNumbers
<1>12. Puts(h, k, {} \union S)
  BY <1>2, <1>6, <1>7, SameNumbersGrows, PutsThen
<1>13. {} \union S = S
  OBVIOUS
<1> QED BY <1>1, <1>4, <1>6, <1>8, <1>9, <1>10, <1>11, <1>12, <1>13 DEF k, q, S, m
-----------------------------------------------------------------------------
(* The operations that send, the handler of a queued operation and what an *)
(* acknowledgement does.                                                   *)

\* A handshake is queued under the next number, and the socket receives.
LEMMA HandshakeSent ==
    ASSUME NEW h, Sound(h), Whole(h), h.next <= MaxNumber, NEW ack \in Acks,
           ack # NoAck => ack \in h.taken
    PROVE  LET k == SendHandshake(h, ack)
           IN  /\ Sound(k) /\ Whole(k) /\ Grows(h, k) /\ ReadsOn(h, k) /\ k.receiving
               /\ Same(h, k, ReadFields \union {"next", "handshakes", "queue", "out"})
               /\ k.next = h.next + 1 /\ k.queue.open = h.queue.open
               /\ k.handshakes = h.handshakes \union {Shake(h.next, ack)}
               /\ Indices(k.queue) = Indices(h.queue) \union {h.next}
               /\ Puts(h, k, IF Indices(h.queue) = {} THEN {h.next} ELSE {})
<1> DEFINE n == h.next
           m == [h EXCEPT !.next = @ + 1,
                          !.handshakes = @ \union {[seq |-> n, ack |-> ack]}]
           k == SendHandshake(h, ack)
<1>0. HasFields(h) /\ Typed(h) /\ h.calls \in 0 .. 15
  BY DEF Sound, Typed
<1>1. n \in NumberSet /\ n \in Nat /\ n \notin Indices(h.queue)
  BY NextIsNew
<1>2. /\ Sound(m) /\ Grows(h, m) /\ Puts(h, m, {})
      /\ Same(h, m, {"next", "handshakes"}) /\ m.next = n + 1
      /\ m.handshakes = h.handshakes \union {Shake(n, ack)} /\ n \in Shakes(m)
  BY NewShake
<1>3. k = Queued(IdempotentStartReceive(m), Pushed(IdempotentStartReceive(m).queue, n, n))
  BY DEF SendHandshake
<1> HIDE DEF m, k
<1>4. /\ m.queue = h.queue /\ m.history = h.history /\ m.taken = h.taken
      /\ m.calls = h.calls /\ m.peeks = h.peeks /\ m.failed = h.failed
      /\ m.receiving = h.receiving /\ m.out = h.out
  BY <1>0, <1>2, FieldsThere DEF Same
<1>5. Whole(m)
  BY <1>4 DEF Whole
<1>6. n < m.next
  BY <1>1, <1>2
<1> DEFINE S == IF Indices(h.queue) = {} THEN {n} ELSE {}
<1> HIDE DEF n
<1>7. /\ Sound(k) /\ Whole(k) /\ SameNumbers(m, k)
      /\ Same(m, k, ReadFields \union {"queue", "out"})
      /\ ReadsOn(m, k) /\ k.receiving /\ k.queue.open = h.queue.open
      /\ Indices(k.queue) = Indices(h.queue) \union {n}
      /\ Puts(m, k, S)
  <2>1. n \in SentBy(m) \union Shakes(m) /\ n \notin Indices(m.queue)
    BY <1>1, <1>2, <1>4
  <2> DEFINE x == Queued(IdempotentStartReceive(m),
                         Pushed(IdempotentStartReceive(m).queue, n, n))
  <2>2. /\ Sound(x) /\ Whole(x) /\ SameNumbers(m, x)
        /\ Same(m, x, ReadFields \union {"queue", "out"})
        /\ ReadsOn(m, x) /\ x.receiving /\ x.queue.open = m.queue.open
        /\ Indices(x.queue) = Indices(m.queue) \union {n}
        /\ Puts(m, x, IF Indices(m.queue) = {} THEN {n} ELSE {})
    BY <1>1, <1>2, <1>5, <1>6, <2>1, PushNew
  <2> QED BY <1>3, <1>4, <2>2
<1>8. Typed(m) /\ Typed(k) /\ m.calls \in 0 .. 15
  BY <1>2, <1>7 DEF Sound, Typed
<1>9. Grows(h, k)
  BY <1>0, <1>2, <1>7, <1>8, SameNumbersGrows, GrowsThen
<1>10. ReadsOn(h, k)
  BY <1>0, <1>4, <1>7, <1>8, RestsReading, ReadsOnThen
<1>11. Same(h, k, {"next", "handshakes"} \union (ReadFields \union {"queue", "out"}))
  BY <1>2, <1>7, SameThen
<1>12. Same(h, k, ReadFields \union {"next", "handshakes", "queue", "out"})
  BY <1>11, SameWider
<1>13. Puts(h, k, S)
  BY <1>4, <1>7 DEF Puts
<1>14. k.next = n + 1 /\ k.handshakes = h.handshakes \union {Shake(n, ack)}
  BY <1>2, <1>7 DEF SameNumbers
<1> QED BY <1>7, <1>9, <1>10, <1>12, <1>13, <1>14 DEF k, n, S

\* async_send queues the data under the next number and receives.
LEMMA DataSent ==
    ASSUME NEW h, Sound(h), Whole(h), h.next <= MaxNumber
    PROVE  LET k == AsyncSend(h)
           IN  /\ Sound(k) /\ Whole(k) /\ Grows(h, k) /\ ReadsOn(h, k) /\ k.receiving
               /\ Same(h, k, ReadFields \union {"next", "sent", "queue", "out"})
               /\ k.next = h.next + 1 /\ k.queue.open = h.queue.open
               /\ k.sent = Append(h.sent, h.next)
               /\ Indices(k.queue) = Indices(h.queue) \union {h.next}
<1> DEFINE n == h.next
           m == [h EXCEPT !.next = @ + 1, !.sent = Append(@, n)]
           k == AsyncSend(h)
<1>0. HasFields(h) /\ Typed(h) /\ h.calls \in 0 .. 15
  BY DEF Sound, Typed
<1>1. n \in NumberSet /\ n \in Nat /\ n \notin Indices(h.queue)
  BY NextIsNew
<1>2. /\ Sound(m) /\ Grows(h, m)
      /\ Same(h, m, {"next", "sent"}) /\ m.next = n + 1
      /\ m.sent = Append(h.sent, n) /\ n \in SentBy(m)
  BY NewData
<1>3. k = Queued(IdempotentStartReceive(m), Pushed(IdempotentStartReceive(m).queue, n, n))
  BY DEF AsyncSend
<1> HIDE DEF m, k
<1>4. /\ m.queue = h.queue /\ m.history = h.history /\ m.taken = h.taken
      /\ m.calls = h.calls /\ m.peeks = h.peeks /\ m.failed = h.failed
      /\ m.receiving = h.receiving
  BY <1>0, <1>2, FieldsThere DEF Same
<1>5. Whole(m)
  BY <1>4 DEF Whole
<1>6. n < m.next
  BY <1>1, <1>2
<1> HIDE DEF n
<1>7. /\ Sound(k) /\ Whole(k) /\ SameNumbers(m, k)
      /\ Same(m, k, ReadFields \union {"queue", "out"})
      /\ ReadsOn(m, k) /\ k.receiving /\ k.queue.open = h.queue.open
      /\ Indices(k.queue) = Indices(h.queue) \union {n}
  <2>1. n \in SentBy(m) \union Shakes(m) /\ n \notin Indices(m.queue)
    BY <1>1, <1>2, <1>4
  <2> DEFINE x == Queued(IdempotentStartReceive(m),
                         Pushed(IdempotentStartReceive(m).queue, n, n))
  <2>2. /\ Sound(x) /\ Whole(x) /\ SameNumbers(m, x)
        /\ Same(m, x, ReadFields \union {"queue", "out"})
        /\ ReadsOn(m, x) /\ x.receiving /\ x.queue.open = m.queue.open
        /\ Indices(x.queue) = Indices(m.queue) \union {n}
        /\ Puts(m, x, IF Indices(m.queue) = {} THEN {n} ELSE {})
    BY <1>1, <1>2, <1>5, <1>6, <2>1, PushNew
  <2> QED BY <1>3, <1>4, <2>2
<1>8. Typed(m) /\ Typed(k) /\ m.calls \in 0 .. 15
  BY <1>2, <1>7 DEF Sound, Typed
<1>9. Grows(h, k)
  BY <1>0, <1>2, <1>7, <1>8, SameNumbersGrows, GrowsThen
<1>10. ReadsOn(h, k)
  BY <1>0, <1>4, <1>7, <1>8, RestsReading, ReadsOnThen
<1>11. Same(h, k, {"next", "sent"} \union (ReadFields \union {"queue", "out"}))
  BY <1>2, <1>7, SameThen
<1>12. Same(h, k, ReadFields \union {"next", "sent", "queue", "out"})
  BY <1>11, SameWider
<1>14. k.next = n + 1 /\ k.sent = Append(h.sent, n)
  BY <1>2, <1>7 DEF SameNumbers
<1> QED BY <1>7, <1>9, <1>10, <1>12, <1>14 DEF k, n
-----------------------------------------------------------------------------
HandlerFields == {"conn", "connected", "done", "failed"}

\* A handler that tells its user preserves Sound.
LEMMA HandlerSound ==
    ASSUME NEW h, Sound(h), NEW n \in NumberSet, n < h.next,
           NEW k, Same(h, k, HandlerFields), k.conn \in Connectivity,
           h.done \subseteq k.done, k.done \subseteq h.done \union {n}
    PROVE  /\ Sound(k) /\ SameNumbers(h, k) /\ (Whole(h) => Whole(k))
           /\ k.queue = h.queue /\ k.out = h.out
<1>1. HasFields(h) /\ Typed(h)
  BY DEF Sound, Typed
<1>2. /\ SameNumbers(h, k) /\ k.queue = h.queue /\ k.out = h.out
      /\ k.history = h.history
  BY <1>1, FieldsThere DEF Same, SameNumbers, HandlerFields
<1>3. Typed(k)
  <2>1. /\ k.inputs = h.inputs /\ k.confirming = h.confirming
        /\ k.outputs = h.outputs /\ k.delivered = h.delivered /\ k.aborts = h.aborts
        /\ k.calls = h.calls
    BY <1>1, FieldsThere DEF Same, HandlerFields
  <2>2. HasFields(k)
    BY <1>1, SameHas
  <2> QED BY <1>1, <1>2, <2>1, <2>2 DEF Typed, SameNumbers
<1>4. QueueOf(k, k.queue)
  BY <1>1, <1>2, SameNumbersGrows DEF Sound
<1>5. Numbered(k)
  BY <1>1, <1>2, SameNumbersGrows DEF Sound, Numbered, SameNumbers
<1>6. \A b \in k.out : WireOf(k, b)
  BY <1>1, <1>2, SameNumbersGrows DEF Sound, WireOf
<1>7. Whole(h) => Whole(k)
  BY <1>2 DEF Whole, SameNumbers
<1> QED BY <1>2, <1>3, <1>4, <1>5, <1>6, <1>7 DEF Sound

\* The handler of an operation that is done.
LEMMA HandlerRuns ==
    ASSUME NEW h, Typed(h), NEW n
    PROVE  LET k == OperationHandler(h, n, FALSE)
           IN  /\ Same(h, k, HandlerFields) /\ k.conn \in {h.conn, "established"}
               /\ h.done \subseteq k.done /\ k.done \subseteq h.done \union {n}
               /\ k.failed \in {h.failed, "process_connect"}
               /\ n \notin Shakes(h) => k.conn = h.conn /\ k.connected = h.connected
               /\ ClientShakes(h) =>
                    /\ k.conn = h.conn
                    /\ h.conn # "closed" /\ h.connected => k.connected
                    /\ n \in Shakes(h) /\ h.conn = "established" => k.connected
               /\ ServerShakes(h) =>
                    /\ k.connected = h.connected /\ k.failed = h.failed
                    /\ n \in Shakes(h) => k.conn = "established"
<1> DEFINE k == OperationHandler(h, n, FALSE)
           mine == {m \in h.handshakes : m.seq = n}
<1>0. HasFields(h)
  BY DEF Typed
<1>1. n \in Shakes(h) <=> mine # {}
  BY DEF Shakes
<1>2. CASE mine = {}
  <2>1. k = [h EXCEPT !.done = @ \union {n}]
    BY <1>2 DEF OperationHandler
  <2> QED BY <1>0, <1>1, <1>2, <2>1, FieldsThere DEF Same, HandlerFields
<1>3. CASE mine # {} /\ \E m \in mine : m.ack # NoAck
  <2>1. k = [h EXCEPT !.conn = "established"]
    BY <1>3 DEF OperationHandler
  <2>2. ~ ClientShakes(h)
    BY <1>3 DEF ClientShakes
  <2> QED BY <1>0, <1>1, <1>3, <2>1, <2>2, FieldsThere DEF Same, HandlerFields
<1>4. CASE mine # {} /\ ~ \E m \in mine : m.ack # NoAck
  <2>1. ~ ServerShakes(h)
    BY <1>4 DEF ServerShakes
  <2>2. CASE h.conn \in {"listening", "handshaking"}
    <3>1. k = [h EXCEPT !.failed = "process_connect"]
      BY <1>4, <2>2 DEF OperationHandler, Fail
    <3> QED BY <1>0, <1>1, <1>4, <2>1, <2>2, <3>1, FieldsThere DEF Same, HandlerFields
  <2>3. CASE h.conn \notin {"listening", "handshaking"}
    <3>1. k = [h EXCEPT !.connected = h.conn # "closed"]
      BY <1>4, <2>3 DEF OperationHandler
    <3>2. Same(h, k, {"connected"}) /\ (h.conn # "closed" => k.connected)
      BY <1>0, <3>1, FieldsThere DEF Same
    <3> HIDE DEF k
    <3>3. k.conn = h.conn /\ k.done = h.done /\ k.failed = h.failed
      BY <1>0, <3>2, FieldsThere DEF Same
    <3>4. Same(h, k, HandlerFields)
      BY <3>2, SameWider DEF HandlerFields
    <3> QED BY <1>1, <1>4, <2>1, <3>2, <3>3, <3>4 DEF k
  <2> QED BY <2>2, <2>3
<1> QED BY <1>2, <1>3, <1>4

\* The handler of an operation that was aborted.
LEMMA HandlerAborts ==
    ASSUME NEW h, Typed(h), NEW n
    PROVE  LET k == OperationHandler(h, n, TRUE)
           IN  /\ Same(h, k, {"conn"}) /\ k.conn \in {h.conn, "closed"}
               /\ n \notin Shakes(h) => k.conn = h.conn
               /\ ClientShakes(h) => k.conn = h.conn
<1> DEFINE k == OperationHandler(h, n, TRUE)
           mine == {m \in h.handshakes : m.seq = n}
<1>0. HasFields(h)
  BY DEF Typed
<1>1. n \in Shakes(h) <=> mine # {}
  BY DEF Shakes
<1>2. CASE mine # {} /\ \E m \in mine : m.ack # NoAck
  <2>1. k = [h EXCEPT !.conn = "closed"]
    BY <1>2 DEF OperationHandler
  <2>2. ~ ClientShakes(h)
    BY <1>2 DEF ClientShakes
  <2> QED BY <1>0, <1>1, <1>2, <2>1, <2>2, FieldsThere DEF Same
<1>3. CASE ~ (mine # {} /\ \E m \in mine : m.ack # NoAck)
  <2>1. k = h
    BY <1>3 DEF OperationHandler
  <2> QED BY <2>1 DEF Same
<1> QED BY <1>2, <1>3

\* The fields process_acknowledgement may change.
AckFields == ReadFields \union {"conn", "connected", "done", "queue", "out"}

\* process_acknowledgement tells the user of the number acknowledged, no other,
\* completes the handshake it was waiting for, and receives while anything is
\* queued.
LEMMA AcknowledgementMeans ==
    ASSUME NEW h, Sound(h), Whole(h), NEW ack \in Acks, ack # NoAck
    PROVE  LET k == ProcessAcknowledgement(h, ack)
           IN  /\ Sound(k) /\ Whole(k) /\ SameNumbers(h, k) /\ ReadsOn(h, k)
               /\ Same(h, k, AckFields) /\ k.queue.open = h.queue.open
               /\ Indices(k.queue) \subseteq Indices(h.queue)
               /\ h.done \subseteq k.done /\ k.done \subseteq h.done \union {ack}
               /\ Puts(h, k, IF ack \in Indices(h.queue) THEN Indices(h.queue) ELSE {})
               /\ k.failed = "no" /\ Indices(k.queue) # {} => k.receiving
               /\ ClientShakes(h) /\ h.conn = "established" /\ h.connected =>
                    k.conn = "established" /\ k.connected
               /\ ClientShakes(h) /\ h.conn = "handshaking"
                    /\ ack \in Indices(h.queue) \intersect Shakes(h) =>
                    k.conn = "established" /\ k.connected
               /\ ServerShakes(h) =>
                    /\ k.connected = h.connected
                    /\ h.conn = "established" => k.conn = "established"
                    /\ h.conn = "listening" => k.conn \in {"listening", "established"}
                    /\ h.conn = "listening" /\ ack \notin Indices(h.queue) =>
                         k.conn = "listening" /\ k.queue = h.queue
                    /\ h.conn = "listening"
                         /\ ack \in Indices(h.queue) \intersect Shakes(h) =>
                         k.conn = "established"
<1> DEFINE h1 == [h EXCEPT !.conn = IF @ = "handshaking" THEN "established" ELSE @]
           q  == Acked(h1.queue, ack)
           h2 == Queued(h1, q)
           h3 == IF ack \in Indices(h1.queue) THEN OperationHandler(h2, ack, FALSE) ELSE h2
           h4 == IF Indices(h3.queue) # {} THEN IdempotentStartReceive(h3) ELSE h3
           k  == ProcessAcknowledgement(h, ack)
           S  == IF ack \in Indices(h.queue) THEN Indices(h.queue) ELSE {}
<1>0. HasFields(h) /\ Typed(h) /\ h.calls \in 0 .. 15
  BY DEF Sound, Typed
<1>1. CASE h.conn \in {"closed", "connecting"}
  <2>1. k = [h EXCEPT !.failed = "process_acknowledgement"]
    BY <1>1 DEF ProcessAcknowledgement, Fail
  <2>2. Same(h, k, {"failed"}) /\ k.failed = "process_acknowledgement"
    BY <1>0, <2>1, FieldsThere DEF Same
  <2> HIDE DEF k
  <2>3. /\ SameNumbers(h, k) /\ k.queue = h.queue /\ k.out = h.out /\ k.done = h.done
        /\ k.history = h.history /\ k.conn = h.conn /\ k.connected = h.connected
        /\ k.calls = h.calls /\ k.peeks = h.peeks /\ k.receiving = h.receiving
    BY <1>0, <2>2, FieldsThere DEF Same, SameNumbers
  <2>4. Restarts(h, k)
    BY <1>0, <2>2, <2>3, SameWider DEF Restarts, ReadsOn, ReadFields, OneRead
  <2>5. Sound(k) /\ Whole(k) /\ Puts(h, k, {})
    BY <2>4, RestartsSound
  <2>6. Same(h, k, AckFields)
    BY <2>2, SameWider DEF AckFields, ReadFields
  <2>7. Puts(h, k, S)
    BY <2>5 DEF Puts
  <2> QED BY <1>1, <2>2, <2>3, <2>4, <2>5, <2>6, <2>7 DEF k, Restarts
<1>2. CASE h.conn \notin {"closed", "connecting"}
  <2>0. k = h4
    BY <1>2 DEF ProcessAcknowledgement
  <2> HIDE DEF k
  <2>1. /\ Same(h, h1, {"conn"})
        /\ h1.conn = IF h.conn = "handshaking" THEN "established" ELSE h.conn
    BY <1>0, FieldsThere DEF Same
  <2> HIDE DEF h1
  <2>2. /\ SameNumbers(h, h1) /\ h1.queue = h.queue /\ h1.out = h.out /\ h1.done = h.done
        /\ h1.history = h.history /\ h1.connected = h.connected
        /\ h1.calls = h.calls /\ h1.peeks = h.peeks /\ h1.receiving = h.receiving
        /\ h1.failed = h.failed
    BY <1>0, <2>1, FieldsThere DEF Same, SameNumbers
  <2>3. Typed(h1)
    <3>1. /\ h1.inputs = h.inputs /\ h1.confirming = h.confirming
          /\ h1.outputs = h.outputs /\ h1.delivered = h.delivered
          /\ h1.aborts = h.aborts
      BY <1>0, <2>1, FieldsThere DEF Same
    <3>2. HasFields(h1)
      BY <1>0, <2>1, SameHas
    <3>3. h1.conn \in Connectivity
      BY <1>0, <2>1 DEF Typed, Connectivity
    <3> QED BY <1>0, <2>2, <3>1, <3>2, <3>3 DEF Typed, SameNumbers
  <2>4. Sound(h1) /\ Whole(h1)
    <3>1. Sound(h1)
      BY <2>2, <2>3, SoundRests
    <3> QED BY <2>2, <3>1 DEF Whole, SameNumbers
  <2>5. /\ QueueOf(h1, q) /\ q.open = h.queue.open /\ Indices(q) = Indices(h.queue) \ {ack}
        /\ Starts(h1.queue, q, IF ack \in Indices(h.queue) THEN Indices(q) ELSE {})
        /\ ack \notin Indices(h.queue) => q = h.queue
    BY <2>2, <2>4, AckedOf, AckedUnknown DEF Sound
  <2> HIDE DEF q
  <2>6. /\ Sound(h2) /\ Whole(h2) /\ Same(h1, h2, {"queue", "out"}) /\ SameNumbers(h1, h2)
        /\ h2.queue = q
        /\ Puts(h1, h2, IF ack \in Indices(h.queue) THEN Indices(q) ELSE {})
    BY <2>4, <2>5, QueuedMeans
  <2> HIDE DEF h2
  <2>7. /\ h2.done = h.done /\ h2.connected = h.connected /\ h2.conn = h1.conn
        /\ h2.calls = h.calls /\ h2.peeks = h.peeks /\ h2.receiving = h.receiving
        /\ h2.failed = h.failed /\ HasFields(h2) /\ SameNumbers(h, h2)
    <3>1. HasFields(h1)
      BY <2>3 DEF Typed
    <3> QED BY <2>2, <2>6, <3>1, FieldsThere, SameHas DEF Same, SameNumbers
  <2>8. Puts(h, h2, S)
    BY <2>2, <2>5, <2>6 DEF Puts
  <2> HIDE DEF S
  <2>9. /\ Sound(h3) /\ Same(h2, h3, HandlerFields) /\ SameNumbers(h2, h3)
        /\ h3.queue = q /\ h3.out = h2.out /\ Whole(h3)
        /\ h.done \subseteq h3.done /\ h3.done \subseteq h.done \union {ack}
        /\ h3.failed \in {h.failed, "process_connect"}
        /\ ClientShakes(h) /\ h1.conn = "established" =>
             /\ h3.conn = h1.conn
             /\ h.connected => h3.connected
             /\ ack \in Shakes(h) /\ ack \in Indices(h.queue) => h3.connected
        /\ ServerShakes(h) =>
             /\ h3.connected = h.connected /\ h3.failed = h.failed
             /\ h3.conn \in {h1.conn, "established"}
             /\ ack \notin Indices(h.queue) => h3.conn = h1.conn
             /\ ack \in Shakes(h) /\ ack \in Indices(h.queue) => h3.conn = "established"
    <3>1. CASE ack \notin Indices(h.queue)
      <4>1. h3 = h2
        BY <2>2, <3>1
      <4>2. Same(h2, h2, HandlerFields) /\ SameNumbers(h2, h2)
        BY DEF Same, SameNumbers
      <4> HIDE DEF h3
      <4> QED BY <2>6, <2>7, <3>1, <4>1, <4>2
    <3>2. CASE ack \in Indices(h.queue)
      <4>1. h3 = OperationHandler(h2, ack, FALSE)
        BY <2>2, <3>2
      <4> HIDE DEF h3
      <4>2. ack \in NumberSet /\ ack < h2.next
        <5>1. ack < h.next /\ ack \in NumberSet
          BY <3>2 DEF Sound, QueueOf, IsQueue, Queues
        <5> QED BY <2>7, <5>1 DEF SameNumbers
      <4>3. h2.handshakes = h.handshakes
        BY <2>7 DEF SameNumbers
      <4>4. Shakes(h2) = Shakes(h)
        BY <4>3 DEF Shakes
      <4>5. ClientShakes(h) => ClientShakes(h2)
        BY <4>3 DEF ClientShakes
      <4>6. ServerShakes(h) => ServerShakes(h2)
        BY <4>3 DEF ServerShakes
      <4>7. /\ Same(h2, h3, HandlerFields) /\ h3.conn \in {h2.conn, "established"}
            /\ h2.done \subseteq h3.done /\ h3.done \subseteq h2.done \union {ack}
            /\ h3.failed \in {h2.failed, "process_connect"}
            /\ ClientShakes(h2) =>
                 /\ h3.conn = h2.conn
                 /\ h2.conn # "closed" /\ h2.connected => h3.connected
                 /\ ack \in Shakes(h2) /\ h2.conn = "established" => h3.connected
            /\ ServerShakes(h2) =>
                 /\ h3.connected = h2.connected /\ h3.failed = h2.failed
                 /\ ack \in Shakes(h2) => h3.conn = "established"
        BY <2>6, <4>1, HandlerRuns, ZenonT(40) DEF Sound
      <4>8. h3.conn \in Connectivity
        BY <2>6, <4>7 DEF Connectivity, Sound, Typed
      <4>9. /\ Sound(h3) /\ SameNumbers(h2, h3) /\ Whole(h3)
            /\ h3.queue = h2.queue /\ h3.out = h2.out
        BY <2>6, <4>2, <4>7, <4>8, HandlerSound
      <4>10. ASSUME ClientShakes(h), h1.conn = "established"
            PROVE  /\ h3.conn = h1.conn
                   /\ h.connected => h3.connected
                   /\ ack \in Shakes(h) /\ ack \in Indices(h.queue) => h3.connected
        <5>1. h2.conn = "established" /\ ClientShakes(h2)
          BY <2>7, <4>5, <4>10
        <5>2. h3.conn = h2.conn /\ (h2.connected => h3.connected)
              /\ (ack \in Shakes(h2) => h3.connected)
          BY <4>7, <5>1
        <5>3. h.connected => h2.connected
          BY <2>7
        <5>4. h3.conn = h1.conn
          BY <2>7, <5>2
        <5> QED BY <4>4, <5>2, <5>3, <5>4
      <4>11. ASSUME ServerShakes(h)
            PROVE  /\ h3.connected = h.connected /\ h3.failed = h.failed
                   /\ h3.conn \in {h1.conn, "established"}
                   /\ ack \in Shakes(h) => h3.conn = "established"
        BY <2>7, <4>4, <4>6, <4>7, <4>11
      <4>12. h.done \subseteq h3.done /\ h3.done \subseteq h.done \union {ack}
            /\ h3.failed \in {h.failed, "process_connect"}
        BY <2>7, <4>7
      <4> QED BY <2>6, <3>2, <4>7, <4>9, <4>10, <4>11, <4>12
    <3> QED BY <3>1, <3>2
  <2> HIDE DEF h3
  <2>10. HasFields(h3) /\ h3.calls \in 0 .. 15
    BY <2>9 DEF Sound, Typed
  <2>11. Restarts(h3, h4) /\ (Indices(h3.queue) # {} => h4.receiving)
    BY <2>10, StartAgain, RestartsNot
  <2> HIDE DEF h4
  <2>12. /\ Sound(h4) /\ SameNumbers(h3, h4) /\ Puts(h3, h4, {}) /\ Whole(h4)
         /\ h4.queue = q
    BY <2>9, <2>11, RestartsSound
  <2>13. /\ h4.conn = h3.conn /\ h4.connected = h3.connected /\ h4.done = h3.done
         /\ h4.out = h3.out
    BY <2>10, <2>11, FieldsThere DEF Restarts, Same, ReadFields
  <2>14. /\ h3.calls = h.calls /\ h3.peeks = h.peeks /\ h3.receiving = h.receiving
    BY <2>7, <2>9, FieldsThere DEF Same, HandlerFields
  <2>15. ReadsOn(h, h4)
    <3>1. ReadsOn(h, h3)
      BY <1>0, <2>9, <2>14 DEF ReadsOn, OneRead
    <3> QED BY <1>0, <2>11, <3>1, ReadsOnThen DEF Restarts
  <2>16. SameNumbers(h, h4)
    BY <2>7, <2>9, <2>12 DEF SameNumbers
  <2>17. Puts(h, h4, S)
    <3>1. SameNumbers(h2, h4) /\ Typed(h2)
      BY <2>6, <2>9, <2>12 DEF SameNumbers, Sound
    <3>2. \A d : SentPacket(h2, d) => SentPacket(h4, d)
      BY <3>1, SameNumbersGrows
    <3> QED BY <2>8, <2>9, <2>13, <3>2 DEF Puts
  <2>18. Same(h, h4, AckFields)
    <3>1. Same(h, h2, {"conn"} \union {"queue", "out"})
      BY <2>1, <2>6, SameThen
    <3>2. Same(h2, h4, HandlerFields \union ReadFields)
      BY <2>9, <2>11, SameThen DEF Restarts
    <3>3. Same(h, h4, ({"conn"} \union {"queue", "out"})
                        \union (HandlerFields \union ReadFields))
      BY <3>1, <3>2, SameThen
    <3> QED BY <3>3, SameWider DEF AckFields, HandlerFields, ReadFields
  <2>19. Indices(q) \subseteq Indices(h.queue)
    BY <2>5
  <2>20. ClientShakes(h) /\ h1.conn = "established" => h4.conn = "established"
    BY <2>9, <2>13
  <2> QED BY <1>2, <2>0, <2>1, <2>5, <2>9, <2>11, <2>12, <2>13, <2>15, <2>16, <2>17,
             <2>18, <2>19, <2>20
          DEF k, S
<1> QED BY <1>1, <1>2
-----------------------------------------------------------------------------
(* What a socket does with a packet.                                       *)

\* The fields a packet may change.
PacketFields ==
    ReadFields \union
    { "conn", "next", "history", "queue", "handshakes", "inputs", "lent", "outputs",
      "confirming", "out", "connected", "done", "delivered", "taken" }

\* The packets that come to a host: of the first it takes, it knows the number.
Fits(h, d) ==
    /\ d \in Datagrams
    /\ h.taken = {} => d.type = "handshake" /\ d.seq = 0
    /\ d.type = "handshake" /\ h.conn = "listening" =>
        d.seq = 0 /\ d.ack = NoAck /\ h.taken \subseteq {0}
    /\ d.type = "handshake" /\ h.conn = "connecting" => h.taken = {} /\ d.ack = 0
    /\ d.type = "keepalive" => d.ack # NoAck
    /\ d.type = "keepalive" /\ h.conn = "listening" => d.ack = 0

\* What is taken, and given to the user, of packet d.
Takes(h, k, d) ==
    \/ /\ k.taken = h.taken
       /\ k.delivered = h.delivered /\ k.outputs = h.outputs
    \/ /\ d.type # "data" /\ k.taken = h.taken \union {d.seq}
       /\ k.delivered = h.delivered /\ k.outputs = h.outputs
    \/ /\ d.type = "data" /\ k.taken = h.taken \union {d.seq}
       /\ \E f \in NumberSet : h.taken = 0 .. f /\ d.seq = f + 1
       /\ \E x \in {d.seq, Garbled} :
            \/ /\ k.outputs = Append(h.outputs, x) /\ k.delivered = h.delivered
            \/ /\ k.delivered = Append(h.delivered, x)
               /\ h.inputs > 0 /\ k.outputs = h.outputs

\* k is h after a packet of header d.
Received(h, k, d) ==
    /\ Sound(k) /\ Grows(h, k) /\ ReadsOn(h, k) /\ Same(h, k, PacketFields)
    /\ k.failed = "no" => Whole(k)
    /\ Takes(h, k, d)
    /\ Waits(h) => Waits(k)
    /\ k.queue.open = h.queue.open

\* Taking the next number leaves no hole in what was taken.
LEMMA TakeMeans ==
    ASSUME NEW h, Sound(h), Whole(h), NEW n \in NumberSet
    PROVE  LET k == Take(h, n)
           IN  /\ Sound(k) /\ Grows(h, k) /\ Puts(h, k, {})
               /\ Same(h, k, {"history", "taken"}) /\ k.taken = h.taken \union {n}
               /\ (h.taken = {} /\ n = 0) \/ (h.taken = {0} /\ n = 0)
                    \/ (h.taken # {} /\ IsExpectedPacket(h, n)) => Whole(k)
               /\ h.taken # {} /\ IsExpectedPacket(h, n) =>
                    \E f \in NumberSet : h.taken = 0 .. f /\ n = f + 1
<1> DEFINE k == Take(h, n)
<1>0. HasFields(h) /\ Typed(h)
  BY DEF Sound, Typed
<1>1. /\ Same(h, k, {"history", "taken"}) /\ k.taken = h.taken \union {n}
      /\ k.history = Insert(h.history, n)
  BY <1>0, FieldsThere DEF Take, Same
<1> HIDE DEF k
<1>2. /\ k.next = h.next /\ k.handshakes = h.handshakes /\ k.sent = h.sent
      /\ k.done = h.done /\ k.queue = h.queue /\ k.out = h.out
  BY <1>0, <1>1, FieldsThere DEF Same
<1>3. n \in Nat /\ n <= MaxNumber /\ MaxNumber < Max /\ MaxNumber \in Nat /\ Max \in Nat
  BY NumberAssumption, MaxAssumption DEF NumberSet
<1> DEFINE Shape ==
             /\ (h.taken = {} /\ n = 0) \/ (h.taken = {0} /\ n = 0)
                  \/ (h.taken # {} /\ IsExpectedPacket(h, n)) => Whole(k)
             /\ h.taken # {} /\ IsExpectedPacket(h, n) =>
                  \E f \in NumberSet : h.taken = 0 .. f /\ n = f + 1
<1>4. ASSUME h.history = {} PROVE Shape
  <2>1. h.taken = {}
    BY <1>4 DEF Whole
  <2>2. k.history = {n}
    BY <1>1, <1>3, <1>4, InsertFirst
  <2>3. k.taken = {n}
    BY <1>1, <2>1
  <2>4. n = 0 => k.taken = 0 .. n
    BY <2>3
  <2>5. n = 0 => Whole(k)
    BY <2>2, <2>4 DEF Whole
  <2>6. k.history \subseteq NumberSet
    BY <2>2
  <2>7. n = 0 => Whole(k)
    BY <2>5
  <2> QED BY <2>1, <2>7
<1>5. ASSUME h.history # {} PROVE Shape
  <2>1. PICK f \in NumberSet : h.history = {f} /\ h.taken = 0 .. f
    BY <1>5 DEF Whole
  <2>2. f \in Nat /\ f <= MaxNumber /\ f < Max
    <3>1. f \in NumberSet
      BY <2>1
    <3>2. MaxNumber \in Nat /\ Max \in Nat /\ MaxNumber < Max
      BY NumberAssumption, MaxAssumption
    <3> QED BY <3>1, <3>2 DEF NumberSet
  <2>3. k.history \subseteq NumberSet
    BY <1>1, <1>3, <2>1, <2>2, InsertWithin
  <2>4. IsExpectedPacket(h, n) => n = f + 1
    BY <1>5, <2>1, <2>2, FirstOf DEF IsExpectedPacket, Successor
  <2>5. n = f + 1 => Whole(k)
    <3> SUFFICES ASSUME n = f + 1 PROVE Whole(k)
      OBVIOUS
    <3>1. k.history = {n}
      BY <1>1, <2>1, <2>2, InsertNext
    <3>2. k.taken = 0 .. n
      BY <1>1, <1>3, <2>1, <2>2
    <3> QED BY <3>1, <3>2 DEF Whole
  <2>6. h.taken = {0} /\ n = 0 => Whole(k)
    <3> SUFFICES ASSUME h.taken = {0}, n = 0 PROVE Whole(k)
      OBVIOUS
    <3>1. f = 0
      <4>1. f \in 0 .. f
        BY <2>2
      <4> QED BY <2>1, <4>1
    <3>2. k.history = {0}
      BY <1>1, <1>3, <2>1, <3>1, InsertFirst
    <3>3. k.taken = 0 .. 0
      BY <1>1
    <3> QED BY <3>2, <3>3, <1>3 DEF Whole
  <2>7. h.taken # {}
    <3>1. 0 \in 0 .. f
      BY <2>2
    <3> QED BY <2>1, <3>1
  <2>8. h.taken # {} /\ ((h.taken = {0} /\ n = 0) \/ IsExpectedPacket(h, n)) => Whole(k)
    BY <2>4, <2>5, <2>6
  <2>9. IsExpectedPacket(h, n) => \E x \in NumberSet : h.taken = 0 .. x /\ n = x + 1
    BY <2>1, <2>4
  <2> QED BY <2>7, <2>8, <2>9
<1>6. k.history \subseteq NumberSet
  <2>1. CASE h.history = {}
    <3>1. Insert({}, n) = {n}
      BY <1>3, InsertFirst
    <3> QED BY <1>1, <2>1, <3>1
  <2>2. CASE h.history # {}
    <3>1. PICK f \in NumberSet : h.history = {f}
      BY <2>2 DEF Whole
    <3>2. f \in Nat
      BY NumberAssumption DEF NumberSet
    <3> QED BY <1>1, <1>3, <3>1, <3>2, InsertWithin
  <2> QED BY <2>1, <2>2
<1>7. Typed(k)
  <2>1. /\ k.conn = h.conn /\ k.inputs = h.inputs /\ k.confirming = h.confirming
        /\ k.outputs = h.outputs /\ k.delivered = h.delivered /\ k.aborts = h.aborts
        /\ k.calls = h.calls
    BY <1>0, <1>1, FieldsThere DEF Same
  <2>2. HasFields(k)
    BY <1>0, <1>1, SameHas
  <2> QED BY <1>0, <1>1, <1>2, <1>6, <2>1, <2>2 DEF Typed
<1>8. SentBy(k) = SentBy(h) /\ Shakes(k) = Shakes(h)
  BY <1>2 DEF SentBy, Shakes
<1>9. Grows(h, k)
  BY <1>0, <1>1, <1>2, <1>8, NumberAssumption DEF Grows, Typed
<1>10. QueueOf(k, k.queue)
  BY <1>2, <1>8 DEF Sound, QueueOf
<1>11. Numbered(k)
  BY <1>1, <1>2, <1>8 DEF Sound, Numbered
<1>12. Puts(h, k, {})
  BY <1>2 DEF Puts
<1>13. \A b \in k.out : WireOf(k, b)
  BY <1>0, <1>7, <1>9, <1>12, PutsWire DEF Sound
<1>14. Sound(k)
  BY <1>7, <1>10, <1>11, <1>13 DEF Sound
<1> QED BY <1>1, <1>4, <1>5, <1>9, <1>12, <1>14 DEF k

\* The first thing every packet does.
LEMMA AnyPacketMeans ==
    ASSUME NEW h, Sound(h)
    PROVE  LET k == OnAnyPacketReceived(h)
           IN  /\ Restarts(h, k) /\ k.failed = h.failed
               /\ Sound(k) /\ SameNumbers(h, k) /\ Puts(h, k, {})
               /\ (Whole(h) => Whole(k)) /\ k.queue = h.queue
<1> DEFINE k == OnAnyPacketReceived(h)
<1>1. HasFields(h) /\ h.calls \in 0 .. 15
  BY DEF Sound, Typed
<1>2. Same(h, k, {"receiving", "keepalive"})
  BY <1>1, FieldsThere DEF OnAnyPacketReceived, Same
<1> HIDE DEF k
<1>3. Same(h, k, ReadFields)
  BY <1>2, SameWider DEF ReadFields
<1>4. k.calls = h.calls /\ k.peeks = h.peeks /\ k.failed = h.failed
  BY <1>1, <1>2, FieldsThere DEF Same
<1>5. Restarts(h, k)
  BY <1>1, <1>3, <1>4, RestsReading DEF Restarts
<1> QED BY <1>4, <1>5, RestartsSound DEF k

\* A packet that is not the next one to take.
LEMMA OtherPacket ==
    ASSUME NEW h, Sound(h), Whole(h), NEW d
    PROVE  LET k == IdempotentStartReceive(OnAnyPacketReceived(h))
           IN  /\ Received(h, k, d) /\ k.receiving /\ Puts(h, k, {})
               /\ SameNumbers(h, k) /\ k.queue = h.queue /\ k.done = h.done
               /\ k.conn = h.conn /\ k.connected = h.connected
               /\ k.confirming = h.confirming
<1> DEFINE m == OnAnyPacketReceived(h)
           k == IdempotentStartReceive(m)
<1>1. Restarts(h, m) /\ Sound(m)
  BY AnyPacketMeans
<1> HIDE DEF m
<1>2. HasFields(h) /\ h.calls \in 0 .. 15 /\ HasFields(m) /\ m.calls \in 0 .. 15
  BY <1>1 DEF Sound, Typed
<1>3. Restarts(m, k) /\ k.receiving
  BY <1>2, StartAgain
<1> HIDE DEF k
<1>4. Restarts(h, k)
  BY <1>1, <1>2, <1>3, RestartsThen
<1>5. /\ Sound(k) /\ SameNumbers(h, k) /\ Puts(h, k, {}) /\ Whole(k) /\ k.queue = h.queue
  BY <1>4, RestartsSound
<1>6. /\ k.done = h.done /\ k.conn = h.conn /\ k.connected = h.connected
      /\ k.inputs = h.inputs /\ k.outputs = h.outputs /\ k.delivered = h.delivered
      /\ k.confirming = h.confirming
  BY <1>2, <1>4, FieldsThere DEF Restarts, Same, ReadFields
<1>7. Same(h, k, PacketFields)
  BY <1>4, SameWider DEF PacketFields, Restarts
<1>8. Grows(h, k)
  BY <1>5, SameNumbersGrows DEF Sound
<1>9. Takes(h, k, d) /\ (Waits(h) => Waits(k))
  BY <1>5, <1>6 DEF Takes, Waits, SameNumbers
<1> QED BY <1>3, <1>4, <1>5, <1>6, <1>7, <1>8, <1>9 DEF Received, Restarts, k, m

\* process_keepalive takes the number of the keepalive, once.
LEMMA KeepaliveMeans ==
    ASSUME NEW h, Sound(h), Whole(h), NEW d, Fits(h, d), d.type = "keepalive"
    PROVE  LET k == ProcessKeepalive(h, d)
           IN  /\ Received(h, k, d) /\ Puts(h, k, {})
               /\ k.next = h.next /\ k.handshakes = h.handshakes
               /\ k.queue = h.queue /\ k.done = h.done
               /\ k.conn = h.conn /\ k.connected = h.connected
               /\ k.confirming = h.confirming
<1> DEFINE m == OnAnyPacketReceived(h)
           k == ProcessKeepalive(h, d)
<1>1. CASE ~ IsExpectedPacket(h, d.seq)
  <2>1. k = IdempotentStartReceive(m)
    BY <1>1 DEF ProcessKeepalive
  <2> QED BY <2>1, OtherPacket DEF SameNumbers
<1>2. CASE IsExpectedPacket(h, d.seq)
  <2>1. k = Take(m, d.seq)
    BY <1>2 DEF ProcessKeepalive
  <2> HIDE DEF k
  <2>2. /\ Restarts(h, m) /\ Sound(m) /\ SameNumbers(h, m) /\ Puts(h, m, {})
        /\ Whole(m) /\ m.queue = h.queue
    BY AnyPacketMeans
  <2> HIDE DEF m
  <2>3. HasFields(h) /\ HasFields(m) /\ h.calls \in 0 .. 15 /\ Typed(m) /\ Typed(h)
    BY <2>2 DEF Sound, Typed
  <2>4. /\ m.done = h.done /\ m.conn = h.conn /\ m.connected = h.connected
        /\ m.inputs = h.inputs /\ m.outputs = h.outputs /\ m.delivered = h.delivered
        /\ m.history = h.history /\ m.confirming = h.confirming /\ m.out = h.out
    BY <2>2, <2>3, FieldsThere DEF Restarts, Same, ReadFields
  <2>5. d.seq \in NumberSet /\ h.taken # {} /\ IsExpectedPacket(m, d.seq)
    BY <1>2, <2>4 DEF Fits, Datagrams, NumberSet, IsExpectedPacket
  <2>6. /\ Sound(k) /\ Grows(m, k) /\ Puts(m, k, {})
        /\ Same(m, k, {"history", "taken"}) /\ k.taken = m.taken \union {d.seq}
        /\ Whole(k)
    BY <2>1, <2>2, <2>5, TakeMeans DEF SameNumbers
  <2>7. /\ k.done = m.done /\ k.conn = m.conn /\ k.connected = m.connected
        /\ k.inputs = m.inputs /\ k.outputs = m.outputs /\ k.delivered = m.delivered
        /\ k.confirming = m.confirming /\ k.queue = m.queue /\ k.next = m.next
        /\ k.handshakes = m.handshakes /\ k.out = m.out
        /\ k.calls = m.calls /\ k.peeks = m.peeks /\ k.failed = m.failed
    BY <2>3, <2>6, FieldsThere DEF Same
  <2>8. ReadsOn(h, k)
    <3>1. m.calls \in 0 .. 15
      BY <2>3 DEF Typed
    <3> QED BY <2>2, <2>3, <2>7, <3>1, RestsReading, ReadsOnThen DEF Restarts
  <2>9. Same(h, k, PacketFields)
    <3>1. Same(h, k, ReadFields \union {"history", "taken"})
      BY <2>2, <2>6, SameThen DEF Restarts
    <3> QED BY <3>1, SameWider DEF PacketFields
  <2>10. Grows(h, k)
    BY <2>2, <2>3, <2>6, SameNumbersGrows, GrowsThen DEF Sound
  <2>11. Takes(h, k, d) /\ (Waits(h) => Waits(k))
    BY <2>2, <2>4, <2>6, <2>7 DEF Takes, Waits, SameNumbers
  <2>12. Puts(h, k, {})
    BY <2>4, <2>7 DEF Puts
  <2> QED BY <2>2, <2>4, <2>6, <2>7, <2>8, <2>9, <2>10, <2>11, <2>12
          DEF Received, SameNumbers, k
<1> QED BY <1>1, <1>2
-----------------------------------------------------------------------------
(* A packet with data, and a handshake.                                    *)

\* Nothing Sound speaks of but for the types.
QuietFields ==
    { "conn", "attached", "receiving", "keepalive", "inputs", "lent", "outputs", "jobs",
      "aborts", "confirming", "open", "mapped", "accepting", "calls", "peeks", "empties",
      "failed", "connected", "accepted", "delivered" }

\* A step that changes none of the fields Sound is about preserves it.
LEMMA QuietSound ==
    ASSUME NEW h, Sound(h), NEW k, Same(h, k, QuietFields),
           k.conn \in Connectivity, k.inputs \in Nat, k.confirming \in Nat,
           k.outputs \in Seq(Pieces), k.delivered \in Seq(Pieces),
           k.aborts \subseteq NumberSet, k.calls \in 0 .. 15
    PROVE  /\ Sound(k) /\ SameNumbers(h, k) /\ Puts(h, k, {})
           /\ (Whole(h) => Whole(k)) /\ Grows(h, k)
           /\ k.queue = h.queue /\ k.done = h.done /\ k.out = h.out
           /\ k.history = h.history
<1>1. HasFields(h) /\ Typed(h)
  BY DEF Sound, Typed
<1>2. /\ SameNumbers(h, k) /\ k.queue = h.queue /\ k.done = h.done /\ k.out = h.out
      /\ k.history = h.history
  BY <1>1, FieldsThere DEF SameNumbers, Same, QuietFields
<1>3. HasFields(k)
  BY <1>1, SameHas
<1>4. Typed(k)
  BY <1>1, <1>2, <1>3 DEF Typed, SameNumbers
<1>5. Whole(h) => Whole(k)
  BY <1>2 DEF Whole, SameNumbers
<1> QED BY <1>1, <1>2, <1>4, <1>5, SoundRests, SameNumbersGrows

\* Who waits, for input or for an acknowledgement, receives.
LEMMA RestartWaiting ==
    ASSUME NEW h, Sound(h)
    PROVE  LET k == RestartIfWaiting(h)
           IN  /\ Restarts(h, k) /\ (h.inputs > 0 \/ Indices(h.queue) # {} => k.receiving)
<1>1. HasFields(h) /\ h.calls \in 0 .. 15
  BY DEF Sound, Typed
<1> QED BY <1>1, StartAgain, RestartsNot DEF RestartIfWaiting

\* The fields process_data may change.
DataFields == {"next", "inputs", "lent", "outputs", "delivered", "out"}

\* What process_data does with data that is expected, h having taken it.
LEMMA DataTaken ==
    ASSUME NEW h, Sound(h), Whole(h), h.next <= MaxNumber, NEW n \in h.taken,
           LastSeen(h) # NoAck
    PROVE  LET k == IF h.inputs = 0
                    THEN [h EXCEPT !.outputs = Append(@, n)]
                    ELSE SendKeepalive(
                           [h EXCEPT !.inputs = @ - 1, !.lent = FALSE,
                                     !.delivered = Append(@, IF h.lent THEN Garbled
                                                             ELSE n)],
                           LastSeen(h))
           IN  /\ Sound(k) /\ Whole(k) /\ Grows(h, k) /\ Same(h, k, DataFields)
               /\ \E x \in {n, Garbled} :
                    \/ /\ k.outputs = Append(h.outputs, x) /\ k.delivered = h.delivered
                    \/ /\ k.delivered = Append(h.delivered, x)
                       /\ h.inputs > 0 /\ k.outputs = h.outputs
               /\ Waits(h) => Waits(k)
<1> DEFINE x == IF h.lent THEN Garbled ELSE n
           m == [h EXCEPT !.inputs = @ - 1, !.lent = FALSE,
                          !.delivered = Append(@, x)]
           k == IF h.inputs = 0 THEN [h EXCEPT !.outputs = Append(@, n)]
                ELSE SendKeepalive(m, LastSeen(h))
<1>1. HasFields(h) /\ Typed(h) /\ h.inputs \in Nat
  BY DEF Sound, Typed
<1>2. n \in Pieces /\ x \in {n, Garbled} /\ x \in Pieces
  BY <1>1 DEF Typed, Pieces
<1>3. CASE h.inputs = 0
  <2>1. Same(h, k, {"outputs"}) /\ k.outputs = Append(h.outputs, n)
    BY <1>1, <1>3, FieldsThere DEF Same
  <2> HIDE DEF k
  <2>2. /\ k.delivered = h.delivered /\ k.inputs = h.inputs /\ k.conn = h.conn
        /\ k.confirming = h.confirming /\ k.aborts = h.aborts /\ k.calls = h.calls
    BY <1>1, <2>1, FieldsThere DEF Same
  <2>3. k.outputs \in Seq(Pieces)
    BY <1>1, <1>2, <2>1 DEF Typed
  <2>4. Same(h, k, QuietFields) /\ Same(h, k, DataFields)
    BY <2>1, SameWider DEF QuietFields, DataFields
  <2>5. Sound(k) /\ Whole(k) /\ Grows(h, k)
    BY <1>1, <2>2, <2>3, <2>4, QuietSound DEF Typed
  <2>6. Waits(k)
    BY <1>3, <2>2 DEF Waits
  <2> QED BY <2>1, <2>2, <2>4, <2>5, <2>6 DEF k
<1>4. CASE h.inputs # 0
  <2>1. k = SendKeepalive(m, LastSeen(h))
    BY <1>4
  <2>2. /\ Same(h, m, {"inputs", "lent", "delivered"})
        /\ m.inputs = h.inputs - 1 /\ m.delivered = Append(h.delivered, x)
    BY <1>1, FieldsThere DEF Same
  <2> HIDE DEF k, m, x
  <2>3. /\ m.outputs = h.outputs /\ m.conn = h.conn
        /\ m.confirming = h.confirming /\ m.aborts = h.aborts /\ m.calls = h.calls
    BY <1>1, <2>2, FieldsThere DEF Same
  <2>4. m.delivered \in Seq(Pieces) /\ m.inputs \in Nat /\ h.inputs > 0
    BY <1>1, <1>2, <1>4, <2>2 DEF Typed
  <2>5. Same(h, m, QuietFields)
    BY <2>2, SameWider DEF QuietFields
  <2>6. Sound(m) /\ Whole(m) /\ Grows(h, m) /\ SameNumbers(h, m) /\ m.history = h.history
    BY <1>1, <2>3, <2>4, <2>5, QuietSound DEF Typed
  <2>7. LastSeen(h) \in m.taken /\ m.next <= MaxNumber
    BY <2>6, LastSeenTaken DEF SameNumbers
  <2>8. /\ Sound(k) /\ Grows(m, k)
        /\ Same(m, k, {"next", "out"}) /\ k.next = m.next + 1
    BY <2>1, <2>6, <2>7, KeepaliveSent
  <2>9. HasFields(m) /\ Typed(m) /\ Typed(k)
    BY <2>6, <2>8 DEF Sound, Typed
  <2>10. /\ k.outputs = m.outputs /\ k.delivered = m.delivered /\ k.inputs = m.inputs
         /\ k.history = m.history /\ k.taken = m.taken
    BY <2>8, <2>9, FieldsThere DEF Same
  <2>11. Whole(k)
    BY <2>6, <2>10 DEF Whole
  <2>12. Grows(h, k)
    BY <1>1, <2>6, <2>8, <2>9, GrowsThen
  <2>13. Same(h, k, DataFields)
    <3>1. Same(h, k, {"inputs", "lent", "delivered"} \union {"next", "out"})
      BY <2>2, <2>8, SameThen
    <3> QED BY <3>1, SameWider DEF DataFields
  <2>14. Waits(h) => Waits(k)
    BY <2>2, <2>3, <2>4, <2>10 DEF Waits
  <2>15. k.delivered = Append(h.delivered, x) /\ k.outputs = h.outputs
    BY <2>2, <2>3, <2>10
  <2> QED BY <1>2, <2>4, <2>8, <2>11, <2>12, <2>13, <2>14, <2>15 DEF k, m, x
<1> QED BY <1>3, <1>4 DEF m, x, k

\* process_data takes the next data, hands it on and acknowledges it.
LEMMA DataMeans ==
    ASSUME NEW h, Sound(h), Whole(h), h.next <= MaxNumber, NEW d, Fits(h, d),
           d.type = "data"
    PROVE  LET k == ProcessData(h, d)
           IN  /\ Received(h, k, d)
               /\ k.handshakes = h.handshakes
               /\ k.queue = h.queue /\ k.done = h.done
               /\ k.conn = h.conn /\ k.connected = h.connected
               /\ k.confirming = h.confirming
               /\ Indices(k.queue) # {} => k.receiving
<1> DEFINE m == OnAnyPacketReceived(h)
           k == ProcessData(h, d)
<1>1. CASE ~ IsExpectedPacket(h, d.seq)
  <2>1. k = IdempotentStartReceive(m)
    BY <1>1 DEF ProcessData
  <2> QED BY <2>1, OtherPacket DEF SameNumbers
<1>2. CASE IsExpectedPacket(h, d.seq)
  <2> DEFINE n == d.seq
             t == Take(m, n)
             u == IF h.inputs = 0
                  THEN [t EXCEPT !.outputs = Append(@, n)]
                  ELSE SendKeepalive(
                         [t EXCEPT !.inputs = @ - 1, !.lent = FALSE,
                                   !.delivered = Append(@, IF h.lent THEN Garbled
                                                           ELSE n)],
                         LastSeen(t))
             v == IF t.inputs = 0
                  THEN [t EXCEPT !.outputs = Append(@, n)]
                  ELSE SendKeepalive(
                         [t EXCEPT !.inputs = @ - 1, !.lent = FALSE,
                                   !.delivered = Append(@, IF t.lent THEN Garbled
                                                           ELSE n)],
                         LastSeen(t))
  <2>1. k = RestartIfWaiting(u)
    BY <1>2 DEF ProcessData
  <2> HIDE DEF k
  <2>2. /\ Restarts(h, m) /\ Sound(m) /\ SameNumbers(h, m)
        /\ Whole(m) /\ m.queue = h.queue
    BY AnyPacketMeans
  <2> HIDE DEF m
  <2>3. HasFields(h) /\ HasFields(m) /\ h.calls \in 0 .. 15 /\ Typed(m) /\ Typed(h)
    BY <2>2 DEF Sound, Typed
  <2>4. /\ m.done = h.done /\ m.conn = h.conn /\ m.connected = h.connected
        /\ m.inputs = h.inputs /\ m.outputs = h.outputs /\ m.delivered = h.delivered
        /\ m.history = h.history /\ m.confirming = h.confirming /\ m.lent = h.lent
    BY <2>2, <2>3, FieldsThere DEF Restarts, Same, ReadFields
  <2>5. n \in NumberSet /\ h.taken # {} /\ IsExpectedPacket(m, n)
    BY <1>2, <2>4 DEF Fits, Datagrams, NumberSet, IsExpectedPacket
  <2>6. /\ Sound(t) /\ Grows(m, t)
        /\ Same(m, t, {"history", "taken"}) /\ t.taken = m.taken \union {n}
        /\ Whole(t)
        /\ \E f \in NumberSet : m.taken = 0 .. f /\ n = f + 1
    BY <2>2, <2>5, TakeMeans DEF SameNumbers
  <2> HIDE DEF t, n
  <2>7. /\ t.done = m.done /\ t.conn = m.conn /\ t.connected = m.connected
        /\ t.inputs = m.inputs /\ t.outputs = m.outputs /\ t.delivered = m.delivered
        /\ t.confirming = m.confirming /\ t.queue = m.queue /\ t.next = m.next
        /\ t.handshakes = m.handshakes /\ t.lent = m.lent
        /\ t.calls = m.calls /\ t.peeks = m.peeks /\ t.failed = m.failed
    BY <2>3, <2>6, FieldsThere DEF Same
  <2>8. u = v
    BY <2>4, <2>7
  <2>9. LastSeen(t) # NoAck
    <3>1. t.taken # {}
      BY <2>6
    <3>2. PICK f \in NumberSet : t.history = {f}
      BY <2>6, <3>1 DEF Whole
    <3>3. f \in Nat
      BY <3>2, NumberAssumption DEF NumberSet
    <3> QED BY <3>2, <3>3, FirstOf, HeaderAssumption DEF LastSeen
  <2>10. /\ Sound(v) /\ Whole(v) /\ Grows(t, v) /\ Same(t, v, DataFields)
         /\ \E x \in {n, Garbled} :
              \/ /\ v.outputs = Append(t.outputs, x) /\ v.delivered = t.delivered
              \/ /\ v.delivered = Append(t.delivered, x)
                 /\ t.inputs > 0 /\ v.outputs = t.outputs
         /\ Waits(t) => Waits(v)
    <3>1. n \in t.taken /\ t.next <= MaxNumber
      BY <2>2, <2>6, <2>7 DEF SameNumbers
    <3> QED BY <2>6, <2>9, <3>1, DataTaken
  <2> HIDE DEF v, u
  <2>11. HasFields(t) /\ HasFields(v) /\ Typed(t) /\ Typed(v)
    BY <2>6, <2>10 DEF Sound, Typed
  <2>12. /\ v.done = t.done /\ v.conn = t.conn /\ v.connected = t.connected
         /\ v.confirming = t.confirming /\ v.queue = t.queue /\ v.taken = t.taken
         /\ v.handshakes = t.handshakes
         /\ v.calls = t.calls /\ v.peeks = t.peeks /\ v.failed = t.failed
    BY <2>10, <2>11, FieldsThere DEF Same, DataFields
  <2>13. /\ Restarts(v, k)
         /\ Indices(v.queue) # {} => k.receiving
    BY <2>1, <2>8, <2>10, RestartWaiting
  <2>14. /\ Sound(k) /\ SameNumbers(v, k) /\ Whole(k) /\ k.queue = v.queue
    BY <2>10, <2>13, RestartsSound
  <2>15. /\ k.done = v.done /\ k.conn = v.conn /\ k.connected = v.connected
         /\ k.confirming = v.confirming /\ k.inputs = v.inputs
         /\ k.outputs = v.outputs /\ k.delivered = v.delivered
    BY <2>11, <2>13, FieldsThere DEF Restarts, Same, ReadFields
  <2>16. ReadsOn(h, k)
    <3>1. v.calls \in 0 .. 15 /\ m.calls \in 0 .. 15 /\ t.calls \in 0 .. 15
      BY <2>3, <2>11 DEF Typed
    <3>2. ReadsOn(m, v)
      BY <2>7, <2>12, <3>1, RestsReading
    <3>3. ReadsOn(h, v)
      BY <2>2, <2>3, <3>2, ReadsOnThen DEF Restarts
    <3> QED BY <2>3, <2>13, <3>3, ReadsOnThen DEF Restarts
  <2>17. Same(h, k, PacketFields)
    <3>1. Same(h, t, ReadFields \union {"history", "taken"})
      BY <2>2, <2>6, SameThen DEF Restarts
    <3>2. Same(t, k, DataFields \union ReadFields)
      BY <2>10, <2>13, SameThen DEF Restarts
    <3>3. Same(h, k, (ReadFields \union {"history", "taken"})
                       \union (DataFields \union ReadFields))
      BY <3>1, <3>2, SameThen
    <3> QED BY <3>3, SameWider DEF PacketFields, DataFields
  <2>18. Grows(h, k)
    <3>1. Grows(h, m) /\ Grows(v, k) /\ Typed(k)
      BY <2>2, <2>3, <2>11, <2>14, SameNumbersGrows DEF Sound
    <3>2. Grows(h, t)
      BY <2>3, <2>6, <2>11, <3>1, GrowsThen
    <3>3. Grows(h, v)
      BY <2>3, <2>10, <2>11, <3>2, GrowsThen
    <3> QED BY <2>3, <2>11, <3>1, <3>3, GrowsThen
  <2>19. Waits(h) => Waits(k)
    BY <2>4, <2>7, <2>10, <2>15 DEF Waits
  <2>20. Takes(h, k, d)
    <3>1. k.taken = h.taken \union {n}
      BY <2>2, <2>6, <2>12, <2>14 DEF SameNumbers
    <3>2. \E f \in NumberSet : h.taken = 0 .. f /\ n = f + 1
      BY <2>2, <2>6 DEF SameNumbers
    <3>3. \E x \in {n, Garbled} :
              \/ /\ k.outputs = Append(h.outputs, x) /\ k.delivered = h.delivered
              \/ /\ k.delivered = Append(h.delivered, x)
                 /\ h.inputs > 0 /\ k.outputs = h.outputs
      BY <2>4, <2>7, <2>10, <2>15
    <3> QED BY <3>1, <3>2, <3>3 DEF Takes, n
  <2>21. /\ k.handshakes = h.handshakes /\ k.queue = h.queue /\ k.done = h.done
         /\ k.conn = h.conn /\ k.connected = h.connected
         /\ k.confirming = h.confirming /\ (Indices(k.queue) # {} => k.receiving)
    BY <2>2, <2>4, <2>7, <2>12, <2>13, <2>14, <2>15 DEF SameNumbers
  <2> QED BY <2>14, <2>16, <2>17, <2>18, <2>19, <2>20, <2>21 DEF Received, k
<1> QED BY <1>1, <1>2

\* The packet is taken.
LEMMA PacketTaken ==
    ASSUME NEW h, Sound(h), Whole(h), NEW n \in NumberSet
    PROVE  LET k == Take(OnAnyPacketReceived(h), n)
           IN  /\ Sound(k) /\ Grows(h, k) /\ ReadsOn(h, k)
               /\ Same(h, k, ReadFields \union {"history", "taken"})
               /\ k.taken = h.taken \union {n}
               /\ (h.taken = {} /\ n = 0) \/ (h.taken = {0} /\ n = 0) => Whole(k)
               /\ k.next = h.next /\ k.handshakes = h.handshakes
               /\ k.queue = h.queue /\ k.done = h.done /\ k.conn = h.conn
               /\ k.connected = h.connected /\ k.confirming = h.confirming
               /\ k.inputs = h.inputs /\ k.outputs = h.outputs /\ k.failed = h.failed
               /\ k.delivered = h.delivered /\ k.aborts = h.aborts /\ k.out = h.out
<1> DEFINE m == OnAnyPacketReceived(h)
           k == Take(m, n)
<1>1. /\ Restarts(h, m) /\ Sound(m) /\ SameNumbers(h, m)
      /\ Whole(m) /\ m.queue = h.queue
  BY AnyPacketMeans
<1> HIDE DEF m
<1>2. HasFields(h) /\ HasFields(m) /\ h.calls \in 0 .. 15 /\ Typed(m) /\ Typed(h)
  BY <1>1 DEF Sound, Typed
<1>3. /\ Sound(k) /\ Grows(m, k)
      /\ Same(m, k, {"history", "taken"}) /\ k.taken = m.taken \union {n}
      /\ (m.taken = {} /\ n = 0) \/ (m.taken = {0} /\ n = 0) => Whole(k)
  BY <1>1, TakeMeans
<1> HIDE DEF k
<1>4. /\ m.done = h.done /\ m.conn = h.conn /\ m.connected = h.connected
      /\ m.inputs = h.inputs /\ m.outputs = h.outputs /\ m.delivered = h.delivered
      /\ m.confirming = h.confirming /\ m.out = h.out /\ m.aborts = h.aborts
  BY <1>1, <1>2, FieldsThere DEF Restarts, Same, ReadFields
<1>5. /\ k.done = m.done /\ k.conn = m.conn /\ k.connected = m.connected
      /\ k.inputs = m.inputs /\ k.outputs = m.outputs /\ k.delivered = m.delivered
      /\ k.confirming = m.confirming /\ k.queue = m.queue /\ k.next = m.next
      /\ k.handshakes = m.handshakes /\ k.out = m.out /\ k.aborts = m.aborts
      /\ k.calls = m.calls /\ k.peeks = m.peeks /\ k.failed = m.failed
  BY <1>2, <1>3, FieldsThere DEF Same
<1>6. ReadsOn(h, k)
  <2>1. m.calls \in 0 .. 15
    BY <1>2 DEF Typed
  <2> QED BY <1>1, <1>2, <1>5, <2>1, RestsReading, ReadsOnThen DEF Restarts
<1>7. Same(h, k, ReadFields \union {"history", "taken"})
  BY <1>1, <1>3, SameThen DEF Restarts
<1>8. Grows(h, k)
  BY <1>1, <1>2, <1>3, SameNumbersGrows, GrowsThen DEF Sound
<1>9. m.taken = h.taken /\ m.next = h.next /\ m.handshakes = h.handshakes
  BY <1>1 DEF SameNumbers
<1>10. m.failed = h.failed
  BY AnyPacketMeans DEF m
<1> QED BY <1>1, <1>3, <1>4, <1>5, <1>6, <1>7, <1>8, <1>9, <1>10 DEF k, m

\* A handshake that comes to a listening socket is answered with a handshake.
LEMMA HandshakeAnswered ==
    ASSUME NEW h, Sound(h), Whole(h), h.next <= MaxNumber, NEW d, Fits(h, d),
           d.type = "handshake", h.conn = "listening"
    PROVE  LET k == ProcessHandshake(h, d)
           IN  /\ Received(h, k, d) /\ k.receiving
               /\ k.handshakes = h.handshakes \union {Shake(h.next, 0)}
               /\ k.conn = h.conn /\ k.connected = h.connected
               /\ k.done = h.done /\ k.confirming = h.confirming
               /\ k.next = h.next + 1 /\ 0 \in k.taken
               /\ Indices(k.queue) = Indices(h.queue) \union {h.next}
               /\ Puts(h, k, IF Indices(h.queue) = {} THEN {h.next} ELSE {})
<1> DEFINE t == Take(OnAnyPacketReceived(h), 0)
           k == ProcessHandshake(h, d)
           S == IF Indices(h.queue) = {} THEN {h.next} ELSE {}
<1>1. k = SendHandshake(t, 0)
  BY DEF ProcessHandshake, Fits
<1>2. 0 \in NumberSet /\ (h.taken = {} \/ h.taken = {0}) /\ d.seq = 0
  BY NumberAssumption DEF NumberSet, Fits
<1>3. /\ Sound(t) /\ Grows(h, t) /\ ReadsOn(h, t) /\ Whole(t)
      /\ Same(h, t, ReadFields \union {"history", "taken"})
      /\ t.taken = h.taken \union {0}
      /\ t.next = h.next /\ t.handshakes = h.handshakes
      /\ t.queue = h.queue /\ t.done = h.done /\ t.conn = h.conn
      /\ t.connected = h.connected /\ t.confirming = h.confirming
      /\ t.inputs = h.inputs /\ t.outputs = h.outputs
      /\ t.delivered = h.delivered /\ t.out = h.out
  BY <1>2, PacketTaken, ZenonT(40)
<1> HIDE DEF t, k
<1>4. 0 \in Acks /\ (0 # NoAck => 0 \in t.taken)
  BY <1>2, <1>3 DEF Acks
<1>5. /\ Sound(k) /\ Whole(k) /\ Grows(t, k) /\ ReadsOn(t, k) /\ k.receiving
      /\ Same(t, k, ReadFields \union {"next", "handshakes", "queue", "out"})
      /\ k.next = t.next + 1 /\ k.queue.open = t.queue.open
      /\ k.handshakes = t.handshakes \union {Shake(t.next, 0)}
      /\ Indices(k.queue) = Indices(t.queue) \union {t.next}
      /\ Puts(t, k, IF Indices(t.queue) = {} THEN {t.next} ELSE {})
  <2> DEFINE x == SendHandshake(t, 0)
  <2>1. /\ Sound(x) /\ Whole(x) /\ Grows(t, x) /\ ReadsOn(t, x) /\ x.receiving
        /\ Same(t, x, ReadFields \union {"next", "handshakes", "queue", "out"})
        /\ x.next = t.next + 1 /\ x.queue.open = t.queue.open
        /\ x.handshakes = t.handshakes \union {Shake(t.next, 0)}
        /\ Indices(x.queue) = Indices(t.queue) \union {t.next}
        /\ Puts(t, x, IF Indices(t.queue) = {} THEN {t.next} ELSE {})
    BY <1>3, <1>4, HandshakeSent
  <2> QED BY <1>1, <2>1
<1>6. /\ HasFields(h) /\ HasFields(t) /\ Typed(h) /\ Typed(t) /\ Typed(k)
      /\ h.calls \in 0 .. 15
  BY <1>3, <1>5 DEF Sound, Typed
<1>7. /\ k.done = t.done /\ k.conn = t.conn /\ k.connected = t.connected
      /\ k.inputs = t.inputs /\ k.outputs = t.outputs /\ k.delivered = t.delivered
      /\ k.confirming = t.confirming /\ k.taken = t.taken
  BY <1>5, <1>6, FieldsThere DEF Same, ReadFields
<1>8. Same(h, k, PacketFields)
  <2>1. Same(h, k, (ReadFields \union {"history", "taken"})
                   \union (ReadFields \union {"next", "handshakes", "queue", "out"}))
    BY <1>3, <1>5, SameThen
  <2> QED BY <2>1, SameWider DEF PacketFields
<1>9. Grows(h, k) /\ ReadsOn(h, k)
  BY <1>3, <1>5, <1>6, GrowsThen, ReadsOnThen
<1>10. Takes(h, k, d) /\ (Waits(h) => Waits(k))
  BY <1>2, <1>3, <1>7 DEF Takes, Waits
<1>11. Puts(h, k, S)
  BY <1>3, <1>5 DEF Puts
<1>12. k.queue.open = h.queue.open
  BY <1>3, <1>5
<1>13. Received(h, k, d)
  BY <1>5, <1>8, <1>9, <1>10, <1>12 DEF Received
<1> QED BY <1>3, <1>5, <1>7, <1>11, <1>13 DEF k

\* A connecting socket acknowledges the answer and waits for the packet to be sent.
LEMMA HandshakeConfirmed ==
    ASSUME NEW h, Sound(h), Whole(h), h.next <= MaxNumber, NEW d, Fits(h, d),
           d.type = "handshake", h.conn = "connecting"
    PROVE  LET k == ProcessHandshake(h, d)
           IN  /\ Received(h, k, d)
               /\ k.handshakes = h.handshakes
               /\ k.conn = "handshaking" /\ k.connected = h.connected
               /\ k.done = h.done /\ k.confirming = h.confirming + 1
               /\ k.queue = h.queue /\ k.taken = {0} /\ k.failed = h.failed
<1> DEFINE t == Take(OnAnyPacketReceived(h), 0)
           m == [t EXCEPT !.conn = "handshaking", !.confirming = @ + 1]
           k == ProcessHandshake(h, d)
<1>1. d.seq = 0 /\ h.taken = {} /\ 0 \in NumberSet
  BY NumberAssumption DEF Fits, NumberSet
<1>2. k = SendKeepalive(m, 0)
  BY <1>1 DEF ProcessHandshake
<1>3. /\ Sound(t) /\ Grows(h, t) /\ ReadsOn(h, t) /\ Whole(t)
      /\ Same(h, t, ReadFields \union {"history", "taken"})
      /\ t.taken = h.taken \union {0}
      /\ t.next = h.next /\ t.handshakes = h.handshakes
      /\ t.queue = h.queue /\ t.done = h.done /\ t.conn = h.conn
      /\ t.connected = h.connected /\ t.confirming = h.confirming
      /\ t.inputs = h.inputs /\ t.outputs = h.outputs
      /\ t.delivered = h.delivered /\ t.failed = h.failed
  BY <1>1, PacketTaken, ZenonT(40)
<1> HIDE DEF t, k
<1>4. HasFields(h) /\ HasFields(t) /\ Typed(h) /\ Typed(t) /\ h.calls \in 0 .. 15
  BY <1>3 DEF Sound, Typed
<1>5. /\ Same(t, m, {"conn", "confirming"}) /\ m.conn = "handshaking"
      /\ m.confirming = t.confirming + 1
  BY <1>4, FieldsThere DEF Same
<1> HIDE DEF m
<1>6. /\ m.inputs = t.inputs /\ m.outputs = t.outputs /\ m.delivered = t.delivered
      /\ m.aborts = t.aborts /\ m.calls = t.calls /\ m.peeks = t.peeks
      /\ m.failed = t.failed /\ m.connected = t.connected
  BY <1>4, <1>5, FieldsThere DEF Same
<1>7. Same(t, m, QuietFields)
  BY <1>5, SameWider DEF QuietFields
<1>8. m.conn \in Connectivity /\ m.confirming \in Nat
  BY <1>3, <1>4, <1>5 DEF Connectivity, Typed
<1>9. /\ Sound(m) /\ SameNumbers(t, m) /\ Whole(m) /\ Grows(t, m)
      /\ m.queue = t.queue /\ m.done = t.done
  BY <1>3, <1>4, <1>6, <1>7, <1>8, QuietSound DEF Typed
<1>10. 0 \in m.taken /\ m.next <= MaxNumber /\ 0 # NoAck
  BY <1>3, <1>9, HeaderAssumption DEF SameNumbers
<1>11. /\ Sound(k) /\ Grows(m, k) /\ Same(m, k, {"next", "out"})
  BY <1>2, <1>9, <1>10, KeepaliveSent
<1>12. HasFields(m) /\ Typed(m) /\ Typed(k) /\ t.calls \in 0 .. 15
  BY <1>4, <1>9, <1>11 DEF Sound, Typed
<1>13. /\ k.done = m.done /\ k.conn = m.conn /\ k.connected = m.connected
       /\ k.inputs = m.inputs /\ k.outputs = m.outputs /\ k.delivered = m.delivered
       /\ k.confirming = m.confirming /\ k.taken = m.taken /\ k.history = m.history
       /\ k.handshakes = m.handshakes /\ k.queue = m.queue
       /\ k.calls = m.calls /\ k.peeks = m.peeks /\ k.failed = m.failed
  BY <1>11, <1>12, FieldsThere DEF Same
<1>14. Same(h, k, PacketFields)
  <2>1. Same(h, m, (ReadFields \union {"history", "taken"}) \union {"conn", "confirming"})
    BY <1>3, <1>5, SameThen
  <2>2. Same(h, k, ((ReadFields \union {"history", "taken"}) \union {"conn", "confirming"})
                   \union {"next", "out"})
    BY <1>11, <2>1, SameThen
  <2> QED BY <2>2, SameWider DEF PacketFields
<1>15. Grows(h, k)
  BY <1>3, <1>4, <1>9, <1>11, <1>12, GrowsThen
<1>16. ReadsOn(h, k)
  BY <1>3, <1>4, <1>6, <1>12, <1>13, RestsReading, ReadsOnThen
<1>17. Takes(h, k, d) /\ (Waits(h) => Waits(k))
  BY <1>1, <1>3, <1>6, <1>9, <1>13 DEF Takes, Waits, SameNumbers
<1>18. Whole(k)
  BY <1>9, <1>13 DEF Whole
<1>19. Received(h, k, d)
  BY <1>3, <1>9, <1>11, <1>13, <1>14, <1>15, <1>16, <1>17, <1>18 DEF Received
<1>20. k.taken = {0} /\ k.handshakes = h.handshakes
  BY <1>1, <1>3, <1>9, <1>13 DEF SameNumbers
<1>21. k.failed = h.failed
  BY <1>3, <1>6, <1>13
<1>22. /\ k.conn = "handshaking" /\ k.connected = h.connected
       /\ k.done = h.done /\ k.confirming = h.confirming + 1
       /\ k.queue = h.queue
  BY <1>3, <1>5, <1>6, <1>9, <1>13
<1> QED BY <1>19, <1>20, <1>21, <1>22 DEF k

\* Any other socket fails.
LEMMA HandshakeRefused ==
    ASSUME NEW h, Sound(h), Whole(h), NEW d, Fits(h, d),
           d.type = "handshake", h.conn \notin {"listening", "connecting"}
    PROVE  LET k == ProcessHandshake(h, d)
           IN  /\ Received(h, k, d) /\ k.failed = "process_handshake"
               /\ k.handshakes = h.handshakes
               /\ k.conn = h.conn /\ k.connected = h.connected
               /\ k.done = h.done /\ k.confirming = h.confirming
               /\ k.queue = h.queue /\ k.next = h.next /\ k.out = h.out
<1> DEFINE n == d.seq
           t == Take(OnAnyPacketReceived(h), n)
           k == ProcessHandshake(h, d)
<1>1. n \in NumberSet
  BY DEF Fits, Datagrams, NumberSet
<1>2. k = [t EXCEPT !.failed = "process_handshake"]
  BY DEF ProcessHandshake, Fail
<1>3. /\ Sound(t) /\ Grows(h, t) /\ ReadsOn(h, t)
      /\ Same(h, t, ReadFields \union {"history", "taken"})
      /\ t.taken = h.taken \union {n}
      /\ t.next = h.next /\ t.handshakes = h.handshakes
      /\ t.queue = h.queue /\ t.done = h.done /\ t.conn = h.conn
      /\ t.connected = h.connected /\ t.confirming = h.confirming
      /\ t.inputs = h.inputs /\ t.outputs = h.outputs
      /\ t.delivered = h.delivered /\ t.out = h.out
  BY <1>1, PacketTaken, ZenonT(40)
<1> HIDE DEF t, k
<1>4. HasFields(h) /\ HasFields(t) /\ Typed(h) /\ Typed(t) /\ h.calls \in 0 .. 15
  BY <1>3 DEF Sound, Typed
<1>5. Same(t, k, {"failed"}) /\ k.failed = "process_handshake"
  BY <1>2, <1>4, FieldsThere DEF Same
<1>6. /\ k.inputs = t.inputs /\ k.outputs = t.outputs /\ k.delivered = t.delivered
      /\ k.aborts = t.aborts /\ k.calls = t.calls /\ k.peeks = t.peeks
      /\ k.connected = t.connected /\ k.conn = t.conn /\ k.confirming = t.confirming
  BY <1>4, <1>5, FieldsThere DEF Same
<1>7. Same(t, k, QuietFields)
  BY <1>5, SameWider DEF QuietFields
<1>8. /\ Sound(k) /\ SameNumbers(t, k) /\ Grows(t, k)
      /\ k.queue = t.queue /\ k.done = t.done /\ k.out = t.out
  BY <1>3, <1>4, <1>6, <1>7, QuietSound, SMTT(30) DEF Typed
<1>9. Same(h, k, PacketFields)
  <2>1. Same(h, k, (ReadFields \union {"history", "taken"}) \union {"failed"})
    BY <1>3, <1>5, SameThen
  <2> QED BY <2>1, SameWider DEF PacketFields, ReadFields
<1>10. Grows(h, k)
  BY <1>3, <1>4, <1>8, GrowsThen DEF Sound
<1>11. ReadsOn(h, k)
  BY <1>3, <1>5, <1>6 DEF ReadsOn, OneRead
<1>12. Takes(h, k, d) /\ (Waits(h) => Waits(k))
  BY <1>3, <1>6, <1>8 DEF Takes, Waits, SameNumbers
<1>13. Received(h, k, d)
  BY <1>3, <1>5, <1>8, <1>9, <1>10, <1>11, <1>12 DEF Received
<1> QED BY <1>3, <1>5, <1>6, <1>8, <1>13 DEF k, SameNumbers

\* What the multiplexer calls for a packet before its acknowledgement.
Processed(h, d) ==
    CASE d.type = "handshake" -> ProcessHandshake(h, d)
      [] d.type = "keepalive" -> ProcessKeepalive(h, d)
      [] d.type = "data"      -> ProcessData(h, d)

\* What the multiplexer does is process the packet and then its acknowledgement,
LEMMA DispatchSteps ==
    ASSUME NEW h, NEW d
    PROVE  Dispatch(h, d) =
             IF Processed(h, d).failed = "no"
             THEN ProcessAcknowledgement(Processed(h, d), d.ack)
             ELSE Processed(h, d)
  BY DEF Dispatch, Processed

\* the packet by its type.
LEMMA ByType ==
    ASSUME NEW h, NEW d
    PROVE  /\ d.type = "handshake" => Processed(h, d) = ProcessHandshake(h, d)
           /\ d.type = "keepalive" => Processed(h, d) = ProcessKeepalive(h, d)
           /\ d.type = "data" => Processed(h, d) = ProcessData(h, d)
  BY DEF Processed

\* Whatever its type, a packet is received as Received says.
LEMMA ProcessedMeans ==
    ASSUME NEW h, Sound(h), Whole(h), h.next <= MaxNumber, NEW d, Fits(h, d)
    PROVE  LET k == Processed(h, d)
           IN  /\ Received(h, k, d) /\ k.done = h.done
               /\ d.ack = NoAck /\ k.failed = "no" /\ Indices(k.queue) # {} => k.receiving
<1> DEFINE k == Processed(h, d)
<1>1. d.type \in {"handshake", "keepalive", "data"}
  BY DEF Fits, Datagrams
<1>2. CASE d.type = "data"
  BY <1>2, ByType, DataMeans
<1>3. CASE d.type = "keepalive"
  BY <1>3, ByType, KeepaliveMeans DEF Fits
<1>4. CASE d.type = "handshake" /\ h.conn = "listening"
  <2> DEFINE x == ProcessHandshake(h, d)
  <2>1. Received(h, x, d) /\ x.receiving /\ x.done = h.done
    BY <1>4, HandshakeAnswered
  <2>2. k = x
    BY <1>4, ByType
  <2> HIDE DEF x
  <2> QED BY <2>1, <2>2
<1>5. CASE d.type = "handshake" /\ h.conn = "connecting"
  BY <1>5, ByType, HandshakeConfirmed, HeaderAssumption DEF Fits
<1>6. CASE d.type = "handshake" /\ h.conn \notin {"listening", "connecting"}
  BY <1>6, ByType, HandshakeRefused
<1> QED BY <1>1, <1>2, <1>3, <1>4, <1>5, <1>6

\* The fields a packet and its acknowledgement may change.
DispatchFields == PacketFields \union AckFields

\* k is h after packet d and its acknowledgement.
Dispatched(h, k, d) ==
    /\ Sound(k) /\ Grows(h, k) /\ ReadsOn(h, k) /\ Same(h, k, DispatchFields)
    /\ k.failed = "no" => Whole(k)
    /\ Takes(h, k, d)
    /\ Waits(h) => Waits(k)
    /\ k.queue.open = h.queue.open
    /\ h.done \subseteq k.done
    /\ \A n \in k.done : n \in h.done \/ (n = d.ack /\ n # NoAck)
    /\ k.failed = "no" /\ Indices(k.queue) # {} => k.receiving

\* A packet and its acknowledgement are received as Dispatched says.
LEMMA DispatchMeans ==
    ASSUME NEW h, Sound(h), Whole(h), h.next <= MaxNumber, NEW d, Fits(h, d)
    PROVE  Dispatched(h, Dispatch(h, d), d)
<1> DEFINE m == Processed(h, d)
           k == Dispatch(h, d)
<1>1. /\ Received(h, m, d) /\ m.done = h.done
      /\ d.ack = NoAck /\ m.failed = "no" /\ Indices(m.queue) # {} => m.receiving
  BY ProcessedMeans
<1>2. k = IF m.failed = "no" THEN ProcessAcknowledgement(m, d.ack) ELSE m
  BY DispatchSteps
<1> SUFFICES Dispatched(h, k, d)
  OBVIOUS
<1> HIDE DEF m, k
<1>3. d.ack \in Acks
  BY DEF Fits, Datagrams, Acks, NumberSet
<1>4. CASE k = m /\ (m.failed # "no" \/ d.ack = NoAck)
  <2>1. Same(h, k, DispatchFields)
    BY <1>1, <1>4, SameWider DEF DispatchFields, Received
  <2>2. k.failed = "no" /\ Indices(k.queue) # {} => k.receiving
    BY <1>1, <1>4
  <2>3. /\ h.done \subseteq k.done
        /\ \A n \in k.done : n \in h.done \/ (n = d.ack /\ n # NoAck)
    BY <1>1, <1>4
  <2>4. Received(h, k, d)
    BY <1>1, <1>4
  <2> QED BY <2>1, <2>2, <2>3, <2>4 DEF Dispatched, Received
<1>5. CASE m.failed = "no" /\ d.ack = NoAck
  BY <1>2, <1>4, <1>5 DEF ProcessAcknowledgement
<1>6. CASE m.failed = "no" /\ d.ack # NoAck
  <2>1. k = ProcessAcknowledgement(m, d.ack)
    BY <1>2, <1>6
  <2>2. Sound(m) /\ Whole(m)
    BY <1>1, <1>6 DEF Received
  <2>3. /\ Sound(k) /\ Whole(k) /\ SameNumbers(m, k) /\ ReadsOn(m, k)
        /\ Same(m, k, AckFields) /\ k.queue.open = m.queue.open
        /\ m.done \subseteq k.done /\ k.done \subseteq m.done \union {d.ack}
        /\ k.failed = "no" /\ Indices(k.queue) # {} => k.receiving
    BY <1>3, <1>6, <2>1, <2>2, AcknowledgementMeans
  <2>4. HasFields(m) /\ Typed(h) /\ Typed(m) /\ Typed(k) /\ h.calls \in 0 .. 15
    BY <2>2, <2>3 DEF Sound, Typed
  <2>5. k.inputs = m.inputs /\ k.outputs = m.outputs /\ k.delivered = m.delivered
    BY <2>3, <2>4, FieldsThere DEF Same, AckFields, ReadFields
  <2>6. Grows(h, k) /\ ReadsOn(h, k)
    BY <1>1, <2>3, <2>4, SameNumbersGrows, GrowsThen, ReadsOnThen DEF Received
  <2>7. Same(h, k, DispatchFields)
    BY <1>1, <2>3, SameThen DEF DispatchFields, Received
  <2>8. Takes(h, k, d)
    BY <1>1, <2>3, <2>5 DEF Received, Takes, SameNumbers
  <2>9. (Waits(h) => Waits(k)) /\ k.queue.open = h.queue.open
    BY <1>1, <2>3, <2>5 DEF Received, Waits
  <2>10. /\ h.done \subseteq k.done
         /\ \A n \in k.done : n \in h.done \/ (n = d.ack /\ n # NoAck)
    BY <1>1, <1>6, <2>3
  <2>11. k.failed = "no" /\ Indices(k.queue) # {} => k.receiving
    BY <2>3
  <2> QED BY <2>3, <2>6, <2>7, <2>8, <2>9, <2>10, <2>11 DEF Dispatched
<1>7. CASE m.failed # "no"
  BY <1>2, <1>4, <1>7
<1> QED BY <1>5, <1>6, <1>7

\* A packet that comes to the socket of a client.
LEMMA ClientDispatch ==
    ASSUME NEW h, Sound(h), Whole(h), h.next <= MaxNumber, h.failed = "no",
           NEW d, Fits(h, d), ClientShakes(h), h.conn \in {"connecting", "established"},
           h.conn = "established" => h.connected,
           h.conn = "connecting" =>
             h.taken = {} /\ 0 \in Indices(h.queue) \intersect Shakes(h)
    PROVE  LET k == Dispatch(h, d)
           IN  /\ k.conn = "established" /\ k.connected
               /\ k.handshakes = h.handshakes
               /\ h.conn = "connecting" => 0 \in k.taken
<1> DEFINE m == Processed(h, d)
           k == Dispatch(h, d)
<1>1. k = IF m.failed = "no" THEN ProcessAcknowledgement(m, d.ack) ELSE m
  BY DispatchSteps
<1>2. Received(h, m, d)
  BY ProcessedMeans
<1>3. d.type \in {"handshake", "keepalive", "data"} /\ d.ack \in Acks
  BY DEF Fits, Datagrams, Acks, NumberSet
<1>4. CASE h.conn = "connecting"
  <2>1. d.type = "handshake" /\ d.ack = 0
    BY <1>4 DEF Fits
  <2>2. /\ m.handshakes = h.handshakes /\ m.conn = "handshaking"
        /\ m.queue = h.queue /\ m.failed = "no" /\ m.taken = {0}
    <3> DEFINE x == ProcessHandshake(h, d)
    <3>1. /\ x.handshakes = h.handshakes /\ x.conn = "handshaking"
          /\ x.queue = h.queue /\ x.failed = h.failed /\ x.taken = {0}
      BY <1>4, <2>1, HandshakeConfirmed
    <3>2. m = x
      BY <2>1, ByType
    <3> QED BY <3>1, <3>2
  <2> HIDE DEF m, k
  <2>3. k = ProcessAcknowledgement(m, 0) /\ 0 # NoAck
    BY <1>1, <2>1, <2>2, HeaderAssumption
  <2>4. Sound(m) /\ Whole(m) /\ 0 \in Acks
    BY <1>2, <1>3, <2>1, <2>2 DEF Received
  <2>5. ClientShakes(m)
    BY <2>2 DEF ClientShakes
  <2>6. 0 \in Indices(m.queue) \intersect Shakes(m)
    BY <1>4, <2>2 DEF Shakes
  <2>7. /\ k.conn = "established" /\ k.connected
        /\ SameNumbers(m, k)
    BY <2>2, <2>3, <2>4, <2>5, <2>6, AcknowledgementMeans
  <2> QED BY <2>2, <2>7 DEF SameNumbers, k
<1>5. CASE h.conn = "established"
  <2>1. /\ m.handshakes = h.handshakes /\ m.conn = "established" /\ m.connected
    <3>1. CASE d.type = "data"
      <4> DEFINE x == ProcessData(h, d)
      <4>1. x.handshakes = h.handshakes /\ x.conn = h.conn /\ x.connected = h.connected
        BY <3>1, DataMeans
      <4>2. m = x
        BY <3>1, ByType
      <4> QED BY <1>5, <4>1, <4>2
    <3>2. CASE d.type = "keepalive"
      <4> DEFINE x == ProcessKeepalive(h, d)
      <4>1. x.handshakes = h.handshakes /\ x.conn = h.conn /\ x.connected = h.connected
        BY <3>2, KeepaliveMeans
      <4>2. m = x
        BY <3>2, ByType
      <4> QED BY <1>5, <4>1, <4>2
    <3>3. CASE d.type = "handshake"
      <4> DEFINE x == ProcessHandshake(h, d)
      <4>1. x.handshakes = h.handshakes /\ x.conn = h.conn /\ x.connected = h.connected
        BY <1>5, <3>3, HandshakeRefused
      <4>2. m = x
        BY <3>3, ByType
      <4> QED BY <1>5, <4>1, <4>2
    <3> QED BY <1>3, <3>1, <3>2, <3>3
  <2> HIDE DEF m, k
  <2>2. CASE k = m
    BY <1>5, <2>1, <2>2 DEF k
  <2>3. CASE m.failed = "no" /\ d.ack # NoAck
    <3>1. Sound(m) /\ Whole(m)
      BY <1>2, <2>3 DEF Received
    <3>2. ClientShakes(m)
      BY <2>1 DEF ClientShakes
    <3>3. k = ProcessAcknowledgement(m, d.ack)
      BY <1>1, <2>3
    <3>4. k.conn = "established" /\ k.connected /\ SameNumbers(m, k)
      BY <1>3, <2>1, <2>3, <3>1, <3>2, <3>3, AcknowledgementMeans
    <3> QED BY <1>5, <2>1, <3>4 DEF SameNumbers, k
  <2>4. d.ack = NoAck => k = m
    BY <1>1 DEF ProcessAcknowledgement
  <2>5. m.failed # "no" => k = m
    BY <1>1
  <2> QED BY <2>2, <2>3, <2>4, <2>5
<1> QED BY <1>4, <1>5

\* A packet that comes to the established socket of a server.
LEMMA ServerDispatch ==
    ASSUME NEW h, Sound(h), Whole(h), h.next <= MaxNumber, h.failed = "no",
           NEW d, Fits(h, d), ServerShakes(h), h.conn = "established"
    PROVE  LET k == Dispatch(h, d)
           IN  /\ k.conn = "established" /\ k.connected = h.connected
               /\ k.handshakes = h.handshakes /\ k.confirming = h.confirming
<1> DEFINE m == Processed(h, d)
           k == Dispatch(h, d)
<1>1. k = IF m.failed = "no" THEN ProcessAcknowledgement(m, d.ack) ELSE m
  BY DispatchSteps
<1>2. Received(h, m, d)
  BY ProcessedMeans
<1>3. d.type \in {"handshake", "keepalive", "data"} /\ d.ack \in Acks
  BY DEF Fits, Datagrams, Acks, NumberSet
<1>4. /\ m.handshakes = h.handshakes /\ m.conn = "established"
      /\ m.connected = h.connected /\ m.confirming = h.confirming
  <2>1. CASE d.type = "data"
    <3> DEFINE x == ProcessData(h, d)
    <3>1. /\ x.handshakes = h.handshakes /\ x.conn = h.conn
          /\ x.connected = h.connected /\ x.confirming = h.confirming
      BY <2>1, DataMeans
    <3>2. m = x
      BY <2>1, ByType
    <3> QED BY <3>1, <3>2
  <2>2. CASE d.type = "keepalive"
    <3> DEFINE x == ProcessKeepalive(h, d)
    <3>1. /\ x.handshakes = h.handshakes /\ x.conn = h.conn
          /\ x.connected = h.connected /\ x.confirming = h.confirming
      BY <2>2, KeepaliveMeans
    <3>2. m = x
      BY <2>2, ByType
    <3> QED BY <3>1, <3>2
  <2>3. CASE d.type = "handshake"
    <3> DEFINE x == ProcessHandshake(h, d)
    <3>1. /\ x.handshakes = h.handshakes /\ x.conn = h.conn
          /\ x.connected = h.connected /\ x.confirming = h.confirming
      BY <2>3, HandshakeRefused
    <3>2. m = x
      BY <2>3, ByType
    <3> QED BY <3>1, <3>2
  <2> QED BY <1>3, <2>1, <2>2, <2>3
<1> HIDE DEF m, k
<1>5. CASE k = m
  BY <1>4, <1>5 DEF k
<1>6. CASE m.failed = "no" /\ d.ack # NoAck
  <2>1. Sound(m) /\ Whole(m)
    BY <1>2, <1>6 DEF Received
  <2>2. ServerShakes(m)
    BY <1>4 DEF ServerShakes
  <2>3. k = ProcessAcknowledgement(m, d.ack)
    BY <1>1, <1>6
  <2>4. /\ k.conn = "established" /\ k.connected = m.connected /\ SameNumbers(m, k)
        /\ Same(m, k, AckFields)
    BY <1>3, <1>4, <1>6, <2>1, <2>2, <2>3, AcknowledgementMeans
  <2>5. k.confirming = m.confirming
    <3>1. HasFields(m)
      BY <2>1 DEF Sound, Typed
    <3> QED BY <2>4, <3>1, FieldsThere DEF Same, AckFields, ReadFields
  <2> QED BY <1>4, <2>4, <2>5 DEF SameNumbers, k
<1>7. d.ack = NoAck => k = m
  BY <1>1 DEF ProcessAcknowledgement
<1>8. m.failed # "no" => k = m
  BY <1>1
<1> QED BY <1>5, <1>6, <1>7, <1>8

\* A packet, not data, that comes to the listening socket of a server.
LEMMA ListenerDispatch ==
    ASSUME NEW h, Sound(h), Whole(h), h.next <= MaxNumber, h.failed = "no",
           NEW d, Fits(h, d), ServerShakes(h), h.conn = "listening", d.type # "data",
           h.next > 0 => 0 \in Indices(h.queue) \intersect Shakes(h),
           h.taken # {} => h.next > 0
    PROVE  LET k == Dispatch(h, d)
           IN  /\ k.conn \in {"listening", "established"} /\ k.connected = h.connected
               /\ ServerShakes(k) /\ k.confirming = h.confirming
               /\ k.conn = "listening" =>
                    /\ Puts(h, k, {0})
                    /\ k.failed = "no" => k.taken \subseteq {0} /\ 0 \in Indices(k.queue)
               /\ 0 \in Shakes(k)
               /\ k.conn = "established" => d.type = "keepalive"
<1> DEFINE m == Processed(h, d)
           k == Dispatch(h, d)
<1>1. k = IF m.failed = "no" THEN ProcessAcknowledgement(m, d.ack) ELSE m
  BY DispatchSteps
<1>2. Received(h, m, d)
  BY ProcessedMeans
<1>3. d.type \in {"handshake", "keepalive"} /\ d.ack \in Acks
  BY DEF Fits, Datagrams, Acks, NumberSet
<1>0. h.next \in Nat
  BY NumberAssumption DEF Sound, Typed
<1>4. CASE d.type = "handshake"
  <2> DEFINE S == IF Indices(h.queue) = {} THEN {h.next} ELSE {}
  <2>1. /\ m.handshakes = h.handshakes \union {Shake(h.next, 0)}
        /\ m.conn = h.conn /\ m.connected = h.connected /\ m.confirming = h.confirming
        /\ Indices(m.queue) = Indices(h.queue) \union {h.next}
        /\ Puts(h, m, S) /\ Received(h, m, d)
    <3> DEFINE x == ProcessHandshake(h, d)
    <3>1. /\ x.handshakes = h.handshakes \union {Shake(h.next, 0)}
          /\ x.conn = h.conn /\ x.connected = h.connected /\ x.confirming = h.confirming
          /\ Indices(x.queue) = Indices(h.queue) \union {h.next}
          /\ Puts(h, x, S) /\ Received(h, x, d)
      BY <1>4, HandshakeAnswered
    <3>2. m = x
      BY <1>4, ByType
    <3> QED BY <3>1, <3>2
  <2>2. d.ack = NoAck /\ d.seq = 0 /\ h.taken \subseteq {0}
    BY <1>4 DEF Fits
  <2> HIDE DEF m, k
  <2>3. k = m
    BY <1>1, <2>2 DEF ProcessAcknowledgement
  <2>4. h.next = 0 \/ 0 \in Indices(h.queue) \intersect Shakes(h)
    BY <1>0
  <2>5. 0 \in Indices(k.queue) /\ S \subseteq {0}
    BY <2>1, <2>3, <2>4
  <2>6. 0 \in Shakes(k)
    <3>1. Shake(h.next, 0) \in k.handshakes /\ Shake(h.next, 0).seq = h.next
      BY <2>1, <2>3 DEF Shake
    <3>2. h.next \in Shakes(k) /\ Shakes(h) \subseteq Shakes(k)
      BY <2>1, <2>3, <3>1 DEF Shakes
    <3> QED BY <2>4, <3>2
  <2>7. ServerShakes(k)
    BY <2>1, <2>3, HeaderAssumption DEF ServerShakes, Shake
  <2>8. Puts(h, k, {0})
    BY <2>1, <2>3, <2>5 DEF Puts
  <2>9. k.taken \subseteq {0}
    BY <1>2, <2>2, <2>3 DEF Received, Takes
  <2>10. k.conn = "listening"
    BY <2>1, <2>3
  <2> QED BY <2>1, <2>3, <2>5, <2>6, <2>7, <2>8, <2>9, <2>10 DEF k
<1>5. CASE d.type = "keepalive"
  <2>1. /\ m.handshakes = h.handshakes /\ m.queue = h.queue /\ Puts(h, m, {})
        /\ m.conn = h.conn /\ m.connected = h.connected /\ m.confirming = h.confirming
    <3> DEFINE x == ProcessKeepalive(h, d)
    <3>1. /\ x.handshakes = h.handshakes /\ x.queue = h.queue /\ Puts(h, x, {})
          /\ x.conn = h.conn /\ x.connected = h.connected /\ x.confirming = h.confirming
      BY <1>5, KeepaliveMeans
    <3>2. m = x
      BY <1>5, ByType
    <3> QED BY <3>1, <3>2
  <2>2. d.ack = 0 /\ 0 # NoAck /\ 0 \in Indices(h.queue) \intersect Shakes(h)
    BY <1>5, HeaderAssumption DEF Fits
  <2> HIDE DEF m, k
  <2>3. ServerShakes(m) /\ 0 \in Shakes(m) /\ 0 \in Indices(m.queue)
    BY <2>1, <2>2 DEF ServerShakes, Shakes
  <2>4. CASE m.failed = "no"
    <3>1. Sound(m) /\ Whole(m) /\ 0 \in Acks
      BY <1>2, <1>3, <2>2, <2>4 DEF Received
    <3>2. k = ProcessAcknowledgement(m, 0)
      BY <1>1, <2>2, <2>4
    <3>3. /\ k.conn = "established" /\ k.connected = m.connected /\ SameNumbers(m, k)
          /\ Same(m, k, AckFields)
      BY <2>1, <2>2, <2>3, <3>1, <3>2, AcknowledgementMeans
    <3>4. k.confirming = m.confirming
      <4>1. HasFields(m)
        BY <3>1 DEF Sound, Typed
      <4> QED BY <3>3, <4>1, FieldsThere DEF Same, AckFields, ReadFields
    <3>5. ServerShakes(k) /\ 0 \in Shakes(k)
      BY <2>3, <3>3 DEF ServerShakes, Shakes, SameNumbers
    <3> QED BY <1>5, <2>1, <3>3, <3>4, <3>5 DEF k
  <2>5. CASE m.failed # "no"
    <3>1. k = m
      BY <1>1, <2>5
    <3>2. Puts(h, k, {0})
      BY <2>1, <3>1 DEF Puts
    <3> QED BY <1>5, <2>1, <2>3, <2>5, <3>1, <3>2 DEF k
  <2> QED BY <2>4, <2>5
<1> QED BY <1>3, <1>4, <1>5
-----------------------------------------------------------------------------
(* What holds of a host between its steps.                                 *)

\* k is h after a step that took no packet.
Acts(h, k) ==
    /\ Grows(h, k) /\ k.taken = h.taken
    /\ Handed(k) = Handed(h)
    /\ Len(k.delivered) \in {Len(h.delivered), Len(h.delivered) + 1}
    /\ k.sent = h.sent \/ (h.open /\ k.open /\ k.sent = Append(h.sent, h.next))
    /\ k.open => h.open
    /\ k.done = h.done \/ (~ k.open /\ h.done \subseteq k.done)
    /\ k.attached => h.attached \/ h.done = {}

\* What nearly every step needs of Stable.
LEMMA StableMeans ==
    ASSUME NEW h, Stable(h)
    PROVE  /\ HasFields(h) /\ Typed(h) /\ h.calls \in 0 .. 15 /\ h.next \in Nat
           /\ (h.next = 0 => Indices(h.queue) = {} /\ h.done = {})
<1>1. HasFields(h) /\ Typed(h) /\ h.calls \in 0 .. 15 /\ h.next \in Nat
  BY NumberAssumption DEF Stable, Sound, Typed
<1>2. \A n \in NumberSet : ~ (n < 0)
  BY NumbersAreNaturals
<1>3. Indices(h.queue) \subseteq NumberSet
  BY DEF Stable, Sound, QueueOf, IsQueue, Queues
<1>4. \A i \in Indices(h.queue) : i < h.next
  BY DEF Stable, Sound, QueueOf
<1>5. \A n \in h.done : n \in NumberSet /\ n < h.next
  BY <1>1 DEF Stable, Sound, Numbered, Typed
<1> QED BY <1>1, <1>2, <1>3, <1>4, <1>5

\* What is given to the UDP socket is gone.
LEMMA Cleared ==
    ASSUME NEW h, NEW k, Stable(k)
    PROVE  LET m == [k EXCEPT !.out = {}]
           IN  /\ Stable(m) /\ m.out = {} /\ Same(k, m, {"out"})
               /\ (Acts(h, k) => Acts(h, m))
               /\ (ClientInv(k) => ClientInv(m)) /\ (ServerInv(k) => ServerInv(m))
               /\ SameNumbers(k, m)
<1> DEFINE m == [k EXCEPT !.out = {}]
<1>1. HasFields(k) /\ Typed(k)
  BY StableMeans
<1>2. Same(k, m, {"out"}) /\ m.out = {}
  BY <1>1, FieldsThere DEF Same
<1> HIDE DEF m
<1>3. /\ m.conn = k.conn /\ m.attached = k.attached /\ m.next = k.next
      /\ m.history = k.history /\ m.queue = k.queue /\ m.handshakes = k.handshakes
      /\ m.receiving = k.receiving /\ m.inputs = k.inputs /\ m.outputs = k.outputs
      /\ m.aborts = k.aborts /\ m.confirming = k.confirming /\ m.open = k.open
      /\ m.mapped = k.mapped /\ m.calls = k.calls /\ m.peeks = k.peeks
      /\ m.failed = k.failed /\ m.connected = k.connected /\ m.accepted = k.accepted
      /\ m.accepting = k.accepting
      /\ m.sent = k.sent /\ m.done = k.done /\ m.delivered = k.delivered
      /\ m.taken = k.taken
  BY <1>1, <1>2, FieldsThere DEF Same
<1>4. HasFields(m)
  BY <1>1, <1>2, SameHas
<1>5. Typed(m)
  BY <1>1, <1>3, <1>4 DEF Typed
<1>6. SameNumbers(k, m) /\ Shakes(m) = Shakes(k) /\ SentBy(m) = SentBy(k)
  BY <1>3 DEF SameNumbers, Shakes, SentBy
<1>7. Sound(m)
  <2>1. Numbered(m) /\ QueueOf(m, m.queue)
    BY <1>1, <1>3, <1>6, SameNumbersGrows DEF Stable, Sound, Numbered
  <2> QED BY <1>2, <1>5, <2>1 DEF Sound
<1>8. Stable(m)
  BY <1>3, <1>6, <1>7 DEF Stable, Whole, OneRead, Waits
<1>9. Acts(h, k) => Acts(h, m)
  BY <1>3, <1>6 DEF Acts, Handed, Grows
<1>10. ClientInv(k) => ClientInv(m)
  BY <1>3 DEF ClientInv, Untouched
<1>11. ServerInv(k) => ServerInv(m)
  BY <1>3 DEF ServerInv, Untouched, ServerShakes
<1> QED BY <1>2, <1>6, <1>8, <1>9, <1>10, <1>11 DEF m
-----------------------------------------------------------------------------
(* The calls of the users.                                                 *)

\* async_send keeps a host as it should be between its steps.
LEMMA SendStep ==
    ASSUME NEW h, Stable(h), h.failed = "no", h.next <= MaxNumber, h.attached, h.open,
           h.taken # {}
    PROVE  LET k == AsyncSend(h)
           IN  /\ Stable(k) /\ Acts(h, k)
               /\ ClientInv(h) /\ h.conn = "established" => ClientInv(k)
               /\ ServerInv(h) /\ h.accepted => ServerInv(k)
               /\ k.accepted = h.accepted /\ k.accepting = h.accepting
<1> DEFINE k == AsyncSend(h)
<1>0. HasFields(h) /\ Typed(h) /\ h.calls \in 0 .. 15 /\ h.next \in Nat
  BY StableMeans
<1>1. /\ Sound(k) /\ Whole(k) /\ Grows(h, k) /\ ReadsOn(h, k) /\ k.receiving
      /\ Same(h, k, ReadFields \union {"next", "sent", "queue", "out"})
      /\ k.next = h.next + 1 /\ k.queue.open = h.queue.open
      /\ k.sent = Append(h.sent, h.next)
      /\ Indices(k.queue) = Indices(h.queue) \union {h.next}
  BY DataSent DEF Stable
<1> HIDE DEF k
<1>2. /\ k.conn = h.conn /\ k.attached = h.attached /\ k.history = h.history
      /\ k.handshakes = h.handshakes /\ k.inputs = h.inputs /\ k.outputs = h.outputs
      /\ k.aborts = h.aborts /\ k.confirming = h.confirming /\ k.open = h.open
      /\ k.mapped = h.mapped /\ k.connected = h.connected /\ k.accepted = h.accepted
      /\ k.accepting = h.accepting
      /\ k.done = h.done /\ k.delivered = h.delivered /\ k.taken = h.taken
  BY <1>0, <1>1, FieldsThere DEF Same, ReadFields
<1>3. OneRead(k) /\ k.peeks \in {0, 1}
  BY <1>1 DEF Stable, ReadsOn, OneRead
<1>4. 0 \in Shakes(k)
  BY <1>2 DEF Stable, Shakes
<1>5. Stable(k)
  BY <1>1, <1>2, <1>3, <1>4 DEF Stable, Waits
<1>6. Acts(h, k)
  BY <1>1, <1>2 DEF Acts, Handed
<1>7. ClientInv(h) /\ h.conn = "established" => ClientInv(k)
  BY <1>2 DEF ClientInv
<1>8. ServerInv(h) /\ h.accepted => ServerInv(k)
  BY <1>2 DEF ServerInv, ServerShakes
<1> QED BY <1>2, <1>5, <1>6, <1>7, <1>8 DEF k

\* async_receive takes a finished output or waits for one.
LEMMA ReceiveStep ==
    ASSUME NEW h, Stable(h), h.failed = "no", h.open, h.conn # "closed"
    PROVE  LET k == AsyncReceive(h)
           IN  /\ Stable(k) /\ Acts(h, k)
               /\ (ClientInv(h) => ClientInv(k)) /\ (ServerInv(h) => ServerInv(k))
               /\ k.accepted = h.accepted
               /\ k.accepting = h.accepting /\ k.out = h.out
<1> DEFINE k == AsyncReceive(h)
           m == [h EXCEPT !.inputs = @ + 1]
<1>0. HasFields(h) /\ Typed(h) /\ h.calls \in 0 .. 15 /\ h.next \in Nat
  BY StableMeans
<1>1. PICK x : /\ Same(h, x, {"inputs", "jobs"}) /\ x.inputs \in Nat
               /\ x.inputs > 0 /\ h.inputs = 0 => h.outputs = <<>>
               /\ x.inputs > 0 => h.outputs = <<>>
               /\ Restarts(x, k) /\ (x.receiving => k.receiving)
  <2>1. CASE h.outputs = <<>>
    <3>1. k = IdempotentStartReceive(m)
      BY <2>1 DEF AsyncReceive
    <3>2. Same(h, m, {"inputs"}) /\ m.inputs = h.inputs + 1
      BY <1>0, FieldsThere DEF Same
    <3> HIDE DEF m, k
    <3>3. HasFields(m) /\ m.calls = h.calls
      BY <1>0, <3>2, FieldsThere, SameHas DEF Same
    <3>4. Restarts(m, k) /\ k.receiving
      BY <1>0, <3>1, <3>3, StartAgain
    <3>5. Same(h, m, {"inputs", "jobs"}) /\ m.inputs \in Nat
      BY <1>0, <3>2, SameWider DEF Typed
    <3> QED BY <2>1, <3>4, <3>5
  <2>2. CASE h.outputs # <<>>
    <3>1. k = [h EXCEPT !.jobs = @ + 1]
      BY <2>2 DEF AsyncReceive
    <3>2. Same(h, k, {"jobs"})
      BY <1>0, <3>1, FieldsThere DEF Same
    <3> HIDE DEF k
    <3>3. k.inputs = h.inputs /\ k.calls = h.calls /\ k.receiving = h.receiving
      BY <1>0, <3>2, FieldsThere DEF Same
    <3>4. Restarts(k, k)
      BY <1>0, <3>3, RestartsNot
    <3>5. Same(h, k, {"inputs", "jobs"})
      BY <3>2, SameWider
    <3>6. k.inputs \in Nat
      BY <1>0, <3>3 DEF Typed
    <3>7. ~ (k.inputs > 0)
      BY <1>0, <2>2, <3>3 DEF Stable, Waits
    <3> QED BY <3>4, <3>5, <3>6, <3>7
  <2> QED BY <2>1, <2>2
<1> HIDE DEF k
<1>2. /\ x.conn = h.conn /\ x.attached = h.attached /\ x.next = h.next
      /\ x.history = h.history /\ x.queue = h.queue /\ x.handshakes = h.handshakes
      /\ x.receiving = h.receiving /\ x.outputs = h.outputs
      /\ x.aborts = h.aborts /\ x.confirming = h.confirming /\ x.open = h.open
      /\ x.mapped = h.mapped /\ x.calls = h.calls /\ x.peeks = h.peeks
      /\ x.failed = h.failed /\ x.connected = h.connected /\ x.accepted = h.accepted
      /\ x.accepting = h.accepting
      /\ x.sent = h.sent /\ x.done = h.done /\ x.delivered = h.delivered
      /\ x.taken = h.taken /\ x.out = h.out
  BY <1>0, <1>1, FieldsThere DEF Same
<1>3. Sound(x) /\ Whole(x) /\ HasFields(x)
  <2>1. Same(h, x, QuietFields)
    BY <1>1, SameWider DEF QuietFields
  <2>2. Sound(x) /\ (Whole(h) => Whole(x))
    BY <1>0, <1>1, <1>2, <2>1, QuietSound DEF Stable, Typed
  <2> QED BY <2>2 DEF Stable, Sound, Typed
<1>4. Sound(k) /\ Whole(k) /\ k.queue = x.queue /\ SameNumbers(x, k)
  BY <1>1, <1>3, RestartsSound
<1>5. /\ k.conn = h.conn /\ k.attached = h.attached
      /\ k.history = h.history
      /\ k.inputs = x.inputs /\ k.outputs = h.outputs
      /\ k.aborts = h.aborts /\ k.confirming = h.confirming /\ k.open = h.open
      /\ k.mapped = h.mapped /\ k.connected = h.connected /\ k.accepted = h.accepted
      /\ k.accepting = h.accepting
      /\ k.done = h.done /\ k.delivered = h.delivered /\ k.out = h.out
  <2>1. /\ k.conn = x.conn /\ k.attached = x.attached
        /\ k.history = x.history /\ k.inputs = x.inputs /\ k.outputs = x.outputs
        /\ k.aborts = x.aborts /\ k.confirming = x.confirming /\ k.open = x.open
        /\ k.mapped = x.mapped /\ k.connected = x.connected /\ k.accepted = x.accepted
        /\ k.accepting = x.accepting
        /\ k.done = x.done /\ k.delivered = x.delivered /\ k.out = x.out
    BY <1>1, <1>3, FieldsThere DEF Restarts, Same, ReadFields
  <2> QED BY <1>2, <2>1
<1>6. /\ k.next = h.next /\ k.handshakes = h.handshakes /\ k.sent = h.sent
      /\ k.taken = h.taken /\ k.queue = h.queue
  BY <1>2, <1>4 DEF SameNumbers
<1>7. OneRead(k) /\ k.peeks \in {0, 1}
  BY <1>1, <1>2 DEF Stable, ReadsOn, OneRead, Restarts
<1>8. Shakes(k) = Shakes(h) /\ Grows(h, k)
  BY <1>0, <1>6, SameNumbersGrows DEF SameNumbers
<1>9. Stable(k)
  BY <1>1, <1>2, <1>4, <1>5, <1>6, <1>7, <1>8 DEF Stable, Waits
<1>10. Acts(h, k)
  BY <1>5, <1>6, <1>8 DEF Acts, Handed
<1>12. k.failed = "no" => h.failed = "no"
  BY <1>1, <1>2 DEF Restarts, ReadsOn
<1>13. ClientInv(h) => ClientInv(k)
  BY <1>5, <1>6, <1>12 DEF ClientInv
<1>14. ServerInv(h) => ServerInv(k)
  BY <1>5, <1>6, <1>12 DEF ServerInv, ServerShakes
<1> QED BY <1>5, <1>9, <1>10, <1>13, <1>14 DEF k

\* close() gives up all that is queued and stops receiving.
LEMMA CloseStep ==
    ASSUME NEW h, Stable(h)
    PROVE  LET k == Close(h)
           IN  /\ Stable(k) /\ Acts(h, k)
               /\ (ClientInv(h) => ClientInv(k)) /\ (ServerInv(h) => ServerInv(k))
               /\ k.accepted = h.accepted
               /\ k.accepting = h.accepting /\ k.out = h.out
<1> DEFINE k == Close(h)
           m == [h EXCEPT !.keepalive = FALSE,
                          !.queue = ShutDown(@),
                          !.aborts = @ \union Waiting(h.queue),
                          !.inputs = 0, !.lent = FALSE]
           x == IdempotentStopReceive(m)
<1>0. HasFields(h) /\ Typed(h) /\ h.calls \in 0 .. 15 /\ h.next \in Nat
  BY StableMeans
<1>1. CASE ~ h.attached
  <2>1. k = h
    BY <1>1 DEF Close
  <2>2. Acts(h, h)
    BY <1>0, GrowsNot DEF Acts
  <2> HIDE DEF k
  <2> QED BY <2>1, <2>2 DEF k
<1>2. CASE h.attached
  <2>1. k = [x EXCEPT !.mapped = FALSE, !.open = FALSE, !.peeks = 0, !.attached = FALSE]
    BY <1>2 DEF Close
  <2>2. /\ Same(h, m, {"keepalive", "queue", "aborts", "inputs", "lent"})
        /\ m.queue = ShutDown(h.queue) /\ m.aborts = h.aborts \union Waiting(h.queue)
        /\ m.inputs = 0
    BY <1>0, FieldsThere DEF Same
  <2> HIDE DEF m
  <2>3. HasFields(m) /\ m.calls \in 0 .. 15
    BY <1>0, <2>2, FieldsThere, SameHas DEF Same
  <2>4. /\ Same(m, x, {"receiving", "calls", "empties", "failed"})
        /\ x.calls \in 0 .. 15
        /\ x.failed \in {m.failed, "stop_receive"}
    BY <2>3, StopAgain
  <2> HIDE DEF x
  <2>5. HasFields(x)
    BY <2>3, <2>4, SameHas
  <2>6. /\ Same(x, k, {"mapped", "open", "peeks", "attached"})
        /\ k.open = FALSE /\ k.peeks = 0 /\ k.attached = FALSE /\ k.mapped = FALSE
    BY <2>1, <2>5, FieldsThere DEF Same
  <2> HIDE DEF k
  <2>7. HasFields(k)
    BY <2>5, <2>6, SameHas
  <2>8. /\ k.conn = x.conn /\ k.next = x.next /\ k.history = x.history
        /\ k.queue = x.queue /\ k.handshakes = x.handshakes
        /\ k.inputs = x.inputs /\ k.outputs = x.outputs
        /\ k.aborts = x.aborts /\ k.confirming = x.confirming
        /\ k.calls = x.calls /\ k.failed = x.failed
        /\ k.connected = x.connected /\ k.accepted = x.accepted
        /\ k.accepting = x.accepting
        /\ k.sent = x.sent /\ k.done = x.done /\ k.delivered = x.delivered
        /\ k.taken = x.taken /\ k.out = x.out
    BY <2>5, <2>6, FieldsThere DEF Same
  <2>9. /\ x.conn = m.conn /\ x.next = m.next /\ x.history = m.history
        /\ x.queue = m.queue /\ x.handshakes = m.handshakes
        /\ x.inputs = m.inputs /\ x.outputs = m.outputs
        /\ x.aborts = m.aborts /\ x.confirming = m.confirming
        /\ x.connected = m.connected /\ x.accepted = m.accepted
        /\ x.accepting = m.accepting
        /\ x.sent = m.sent /\ x.done = m.done /\ x.delivered = m.delivered
        /\ x.taken = m.taken /\ x.out = m.out
    BY <2>3, <2>4, FieldsThere DEF Same
  <2>10. /\ m.conn = h.conn /\ m.next = h.next /\ m.history = h.history
         /\ m.handshakes = h.handshakes /\ m.outputs = h.outputs
         /\ m.confirming = h.confirming /\ m.failed = h.failed
         /\ m.connected = h.connected /\ m.accepted = h.accepted
         /\ m.accepting = h.accepting
         /\ m.sent = h.sent /\ m.done = h.done /\ m.delivered = h.delivered
         /\ m.taken = h.taken /\ m.out = h.out
    BY <1>0, <2>2, FieldsThere DEF Same
  <2>11. /\ k.conn = h.conn /\ k.next = h.next /\ k.history = h.history
         /\ k.handshakes = h.handshakes /\ k.outputs = h.outputs
         /\ k.confirming = h.confirming /\ k.inputs = 0
         /\ k.connected = h.connected /\ k.accepted = h.accepted
         /\ k.accepting = h.accepting
         /\ k.sent = h.sent /\ k.done = h.done /\ k.delivered = h.delivered
         /\ k.taken = h.taken /\ k.out = h.out
         /\ k.queue = ShutDown(h.queue) /\ k.aborts = h.aborts \union Waiting(h.queue)
         /\ k.failed = "no" => h.failed = "no"
    BY <2>2, <2>4, <2>8, <2>9, <2>10
  <2>12. QueueOf(h, k.queue) /\ Indices(k.queue) = {}
    BY <2>11, ShutDownOf DEF Stable, Sound
  <2>13. Waiting(h.queue) \subseteq NumberSet
    BY DEF Stable, Sound, QueueOf, IsQueue, Queues, Waiting
  <2>14. Typed(k)
    BY <1>0, <2>4, <2>7, <2>8, <2>11, <2>13 DEF Typed
  <2>15. SameNumbers(h, k) /\ Shakes(k) = Shakes(h) /\ Grows(h, k)
    BY <1>0, <2>11, SameNumbersGrows DEF SameNumbers
  <2>16. Sound(k)
    <3>1. QueueOf(k, k.queue) /\ Numbered(k)
      BY <1>0, <2>11, <2>12, <2>15, SameNumbersGrows DEF Stable, Sound, Numbered
    <3>2. \A b \in k.out : WireOf(k, b)
      BY <1>0, <2>11, <2>15, SameNumbersGrows DEF Stable, Sound, WireOf
    <3> QED BY <2>14, <3>1, <3>2 DEF Sound
  <2>17. Stable(k)
    <3>1. k.failed = "no" => Whole(k)
      BY <2>11 DEF Stable, Whole
    <3>2. ~ (k.inputs > 0) /\ k.peeks \in {0, 1}
      BY <2>6, <2>11, SMT
    <3>5. k.open \in BOOLEAN
      BY <2>6
    <3>3. (k.next > 0 \/ k.taken # {} => 0 \in Shakes(k)) /\ (k.sent # <<>> => k.taken # {})
      BY <2>11, <2>15 DEF Stable
    <3>4. ~ k.attached /\ ~ k.open
      BY <2>6
    <3> QED BY <2>12, <2>16, <3>1, <3>2, <3>3, <3>4, <3>5 DEF Stable, Waits
  <2>18. Acts(h, k)
    BY <2>6, <2>11, <2>15 DEF Acts, Handed
  <2>19. h.next = 0 /\ h.aborts = {} => k.aborts = {}
    BY <2>11, StableMeans DEF Waiting
  <2>20. ClientInv(h) => ClientInv(k)
    BY <2>6, <2>11, <2>19 DEF ClientInv, Untouched
  <2>21. ServerInv(h) => ServerInv(k)
    BY <1>2, <2>6, <2>11 DEF ServerInv, ServerShakes
  <2> QED BY <2>11, <2>17, <2>18, <2>20, <2>21 DEF k
<1> QED BY <1>1, <1>2

\* async_connect sends the first handshake, number 0, and queues it.
LEMMA ConnectStep ==
    ASSUME NEW h, Stable(h), h.failed = "no", h.next <= MaxNumber, ClientInv(h),
           h.conn = "closed", h.attached
    PROVE  LET k == AsyncConnect(h)
           IN  Stable(k) /\ Acts(h, k) /\ ClientInv(k)
<1> DEFINE m == [h EXCEPT !.conn = "connecting", !.mapped = TRUE]
           k == AsyncConnect(h)
<1>0. HasFields(h) /\ Typed(h) /\ h.calls \in 0 .. 15 /\ h.next = 0
  BY StableMeans DEF ClientInv, Untouched
<1>1. k = SendHandshake(m, NoAck)
  BY DEF AsyncConnect
<1>2. /\ Same(h, m, {"conn", "mapped"}) /\ m.conn = "connecting"
  BY <1>0, FieldsThere DEF Same
<1> HIDE DEF m, k
<1>3. /\ m.attached = h.attached /\ m.next = h.next
      /\ m.history = h.history /\ m.queue = h.queue /\ m.handshakes = h.handshakes
      /\ m.inputs = h.inputs /\ m.outputs = h.outputs
      /\ m.aborts = h.aborts /\ m.confirming = h.confirming /\ m.open = h.open
      /\ m.calls = h.calls /\ m.peeks = h.peeks
      /\ m.failed = h.failed /\ m.connected = h.connected /\ m.accepted = h.accepted
      /\ m.accepting = h.accepting
      /\ m.sent = h.sent /\ m.done = h.done /\ m.delivered = h.delivered
      /\ m.taken = h.taken
  BY <1>0, <1>2, FieldsThere DEF Same
<1>4. Sound(m) /\ Whole(m) /\ Grows(h, m)
  <2>1. Same(h, m, QuietFields) /\ m.conn \in Connectivity
    BY <1>2, SameWider DEF QuietFields, Connectivity
  <2>2. Sound(m) /\ (Whole(h) => Whole(m)) /\ Grows(h, m)
    BY <1>0, <1>3, <2>1, QuietSound DEF Stable, Typed
  <2> QED BY <2>2 DEF Stable
<1>5. HasFields(m) /\ Typed(m)
  BY <1>4 DEF Sound, Typed
<1>6. /\ Sound(k) /\ Whole(k) /\ Grows(m, k) /\ ReadsOn(m, k) /\ k.receiving
      /\ Same(m, k, ReadFields \union {"next", "handshakes", "queue", "out"})
      /\ k.next = m.next + 1 /\ k.queue.open = m.queue.open
      /\ k.handshakes = m.handshakes \union {Shake(m.next, NoAck)}
      /\ Indices(k.queue) = Indices(m.queue) \union {m.next}
  <2> DEFINE x == SendHandshake(m, NoAck)
  <2>1. NoAck \in Acks
    BY DEF Acks
  <2>2. /\ Sound(x) /\ Whole(x) /\ Grows(m, x) /\ ReadsOn(m, x) /\ x.receiving
        /\ Same(m, x, ReadFields \union {"next", "handshakes", "queue", "out"})
        /\ x.next = m.next + 1 /\ x.queue.open = m.queue.open
        /\ x.handshakes = m.handshakes \union {Shake(m.next, NoAck)}
        /\ Indices(x.queue) = Indices(m.queue) \union {m.next}
    BY <1>3, <1>4, <2>1, HandshakeSent
  <2> QED BY <1>1, <2>2
<1>7. /\ k.conn = m.conn /\ k.attached = m.attached
      /\ k.inputs = m.inputs /\ k.outputs = m.outputs
      /\ k.aborts = m.aborts /\ k.confirming = m.confirming /\ k.open = m.open
      /\ k.connected = m.connected /\ k.accepted = m.accepted
      /\ k.accepting = m.accepting
      /\ k.sent = m.sent /\ k.done = m.done /\ k.delivered = m.delivered
      /\ k.taken = m.taken
  BY <1>5, <1>6, FieldsThere DEF Same, ReadFields
<1>8. 0 \in Shakes(k) /\ k.next = 1 /\ 0 \in Indices(k.queue)
      /\ k.handshakes \subseteq {Shake(0, NoAck)}
  <2>1. Shake(0, NoAck) \in k.handshakes /\ Shake(0, NoAck).seq = 0
    BY <1>0, <1>3, <1>6 DEF Shake
  <2>2. 0 \in Shakes(k)
    BY <2>1 DEF Shakes
  <2> QED BY <1>0, <1>3, <1>6, <2>2 DEF ClientInv
<1>9. OneRead(k) /\ k.peeks \in {0, 1}
  <2>1. OneRead(m)
    BY <1>3 DEF Stable, OneRead, ClientInv
  <2> QED BY <1>6, <2>1 DEF ReadsOn, OneRead
<1>10. Stable(k)
  BY <1>3, <1>6, <1>7, <1>8, <1>9 DEF Stable, Waits
<1>11. Grows(h, k)
  BY <1>0, <1>4, <1>5, <1>6, GrowsThen DEF Sound
<1>12. Acts(h, k)
  BY <1>3, <1>7, <1>11 DEF Acts, Handed
<1>13. ClientInv(k)
  BY <1>2, <1>3, <1>7, <1>8, ZenonT(40) DEF ClientInv, Untouched
<1> QED BY <1>10, <1>12, <1>13 DEF k

\* async_accept attaches a fresh socket and listens.
LEMMA AcceptStep ==
    ASSUME NEW h, Stable(h), h.failed = "no", ServerInv(h),
           h.conn = "closed", h.history = {}
    PROVE  LET k == AsyncAccept(h)
           IN  Stable(k) /\ Acts(h, k) /\ ServerInv(k)
               /\ k.accepted = h.accepted /\ k.out = h.out
<1> DEFINE m == [h EXCEPT !.conn = "listening", !.accepting = TRUE, !.attached = TRUE]
           k == AsyncAccept(h)
<1>0. /\ HasFields(h) /\ Typed(h) /\ h.calls \in 0 .. 15
      /\ Untouched(h) /\ h.queue.open /\ h.open
      /\ Indices(h.queue) = {} /\ h.done = {}
  BY StableMeans DEF ServerInv, Untouched
<1>1. k = StartReceive(m)
  BY DEF AsyncAccept
<1>2. Same(h, m, {"conn", "accepting", "attached"}) /\ m.conn = "listening"
      /\ m.attached
  BY <1>0, FieldsThere DEF Same
<1> HIDE DEF m, k
<1>3. /\ m.next = h.next
      /\ m.history = h.history /\ m.queue = h.queue /\ m.handshakes = h.handshakes
      /\ m.inputs = h.inputs /\ m.outputs = h.outputs
      /\ m.aborts = h.aborts /\ m.confirming = h.confirming /\ m.open = h.open
      /\ m.calls = h.calls /\ m.peeks = h.peeks /\ m.mapped = h.mapped
      /\ m.failed = h.failed /\ m.connected = h.connected /\ m.accepted = h.accepted
      /\ m.sent = h.sent /\ m.done = h.done /\ m.delivered = h.delivered
      /\ m.taken = h.taken /\ m.out = h.out
  BY <1>0, <1>2, FieldsThere DEF Same
<1>4. Sound(m) /\ Whole(m) /\ Grows(h, m)
  <2>1. Same(h, m, QuietFields) /\ m.conn \in Connectivity
    BY <1>2, SameWider DEF QuietFields, Connectivity
  <2>2. Sound(m) /\ (Whole(h) => Whole(m)) /\ Grows(h, m)
    BY <1>0, <1>3, <2>1, QuietSound DEF Stable, Typed
  <2> QED BY <2>2 DEF Stable
<1>5. HasFields(m) /\ Typed(m) /\ m.calls \in 0 .. 15
  BY <1>4 DEF Sound, Typed
<1>6. Restarts(m, k)
  BY <1>1, <1>5, StartMeans
<1>7. Sound(k) /\ Whole(k) /\ k.queue = m.queue /\ SameNumbers(m, k)
  BY <1>4, <1>6, RestartsSound
<1>8. /\ k.conn = m.conn /\ k.attached = m.attached
      /\ k.history = m.history
      /\ k.inputs = m.inputs /\ k.outputs = m.outputs
      /\ k.aborts = m.aborts /\ k.confirming = m.confirming /\ k.open = m.open
      /\ k.mapped = m.mapped /\ k.connected = m.connected /\ k.accepted = m.accepted
      /\ k.done = m.done /\ k.delivered = m.delivered /\ k.out = m.out
  BY <1>5, <1>6, FieldsThere DEF Restarts, Same, ReadFields
<1>9. /\ k.next = h.next /\ k.handshakes = h.handshakes /\ k.sent = h.sent
      /\ k.taken = h.taken /\ k.queue = h.queue
  BY <1>3, <1>7 DEF SameNumbers
<1>10. OneRead(k) /\ k.peeks \in {0, 1}
  <2>1. OneRead(m)
    BY <1>0, <1>3 DEF Stable, OneRead
  <2> QED BY <1>6, <2>1 DEF ReadsOn, OneRead, Restarts
<1>11. Shakes(k) = Shakes(h) /\ Grows(h, k)
  BY <1>0, <1>9, SameNumbersGrows DEF SameNumbers
<1>12. Stable(k)
  BY <1>0, <1>2, <1>3, <1>7, <1>8, <1>9, <1>10, <1>11 DEF Stable, Waits, Untouched
<1>13. Acts(h, k)
  BY <1>0, <1>3, <1>8, <1>9, <1>11 DEF Acts, Handed
<1>14. ServerInv(k)
  <2>1. k.conn = "listening" /\ k.attached /\ k.open /\ ~ k.accepted /\ ~ k.connected
        /\ k.confirming = 0 /\ k.taken = {} /\ k.next = 0
    BY <1>0, <1>2, <1>3, <1>8, <1>9 DEF Untouched
  <2>2. ~ h.accepted /\ ~ h.mapped /\ ~ k.mapped
    BY <1>0, <1>3, <1>8 DEF Untouched, ServerInv
  <2>3. ServerShakes(k) /\ k.sent = <<>>
    BY <1>9, <2>2 DEF ServerInv, ServerShakes
  <2> QED BY <2>1, <2>2, <2>3 DEF ServerInv
<1> QED BY <1>3, <1>8, <1>12, <1>13, <1>14 DEF k
-----------------------------------------------------------------------------
(* What the io_service runs.                                               *)

\* The timer of the queue keeps it so.
LEMMA TickStep ==
    ASSUME NEW h, Stable(h), h.failed = "no"
    PROVE  LET k == Queued(h, Ticked(h.queue))
           IN  /\ Stable(k) /\ Acts(h, k)
               /\ (ClientInv(h) => ClientInv(k)) /\ (ServerInv(h) => ServerInv(k))
               /\ k.accepted = h.accepted /\ k.accepting = h.accepting
               /\ ServerInv(h) /\ ~ h.accepted => Puts(h, k, {0})
<1> DEFINE q == Ticked(h.queue)
           S == {n \in Indices(h.queue) : \A j \in Indices(h.queue) : n <= j}
           k == Queued(h, q)
<1>0. HasFields(h) /\ Typed(h) /\ h.calls \in 0 .. 15 /\ h.next \in Nat
  BY StableMeans
<1>1. /\ QueueOf(h, q) /\ q.open = h.queue.open /\ Indices(q) = Indices(h.queue)
      /\ Starts(h.queue, q, S)
  BY TickedOf DEF Stable, Sound
<1> HIDE DEF q
<1>2. /\ Sound(k) /\ Whole(k) /\ Same(h, k, {"queue", "out"})
      /\ SameNumbers(h, k) /\ k.queue = q /\ Puts(h, k, S)
  BY <1>1, QueuedMeans DEF Stable
<1> HIDE DEF k
<1>3. /\ k.conn = h.conn /\ k.attached = h.attached
      /\ k.history = h.history
      /\ k.receiving = h.receiving /\ k.inputs = h.inputs /\ k.outputs = h.outputs
      /\ k.aborts = h.aborts /\ k.confirming = h.confirming /\ k.open = h.open
      /\ k.mapped = h.mapped /\ k.calls = h.calls /\ k.peeks = h.peeks
      /\ k.failed = h.failed /\ k.connected = h.connected /\ k.accepted = h.accepted
      /\ k.accepting = h.accepting
      /\ k.done = h.done /\ k.delivered = h.delivered
  BY <1>0, <1>2, FieldsThere DEF Same
<1>4. /\ k.next = h.next /\ k.handshakes = h.handshakes /\ k.sent = h.sent
      /\ k.taken = h.taken
  BY <1>2 DEF SameNumbers
<1>5. Shakes(k) = Shakes(h) /\ Grows(h, k)
  BY <1>0, <1>2, SameNumbersGrows
<1>6. Stable(k)
  BY <1>1, <1>2, <1>3, <1>4, <1>5 DEF Stable, Waits, OneRead
<1>7. Acts(h, k)
  BY <1>3, <1>4, <1>5 DEF Acts, Handed
<1>8. ClientInv(h) => ClientInv(k)
  BY <1>1, <1>2, <1>3, <1>4 DEF ClientInv, Untouched
<1>9. ServerInv(h) => ServerInv(k)
  BY <1>1, <1>2, <1>3, <1>4 DEF ServerInv, Untouched, ServerShakes
<1>10. ASSUME ServerInv(h), ~ h.accepted PROVE Puts(h, k, {0})
  <2>1. Indices(h.queue) # {} => 0 \in Indices(h.queue)
    <3> SUFFICES ASSUME Indices(h.queue) # {} PROVE 0 \in Indices(h.queue)
      OBVIOUS
    <3>1. h.attached
      BY DEF Stable
    <3>2. h.next > 0
      BY <1>0, StableMeans
    <3>3. h.conn = "listening"
      BY <1>10, <3>1 DEF ServerInv
    <3> QED BY <1>10, <3>1, <3>2, <3>3 DEF ServerInv
  <2>2. \A n \in S : n \in Nat
    BY NumbersAreNaturals DEF Stable, Sound, QueueOf, IsQueue, Queues
  <2>3. S \subseteq {0}
    BY <2>1, <2>2
  <2> QED BY <1>2, <2>3 DEF Puts
<1> QED BY <1>3, <1>6, <1>7, <1>8, <1>9, <1>10 DEF k, q

\* A step of the transmit queue completes.
Completes(h, n) ==
    LET k == [h EXCEPT !.queue = Completed(@, n, FALSE)]
    IN  IF ToHandler(h.queue, FALSE) THEN OperationHandler(k, n, FALSE) ELSE k

\* ... and tells the user if the queue is gone meanwhile.
LEMMA StepCompletesStep ==
    ASSUME NEW h, Stable(h), h.failed = "no", NEW n \in NumberSet, h.queue.flying[n] > 0
    PROVE  LET k == Completes(h, n)
           IN  /\ Stable(k)
               /\ (ClientInv(h) => ClientInv(k) /\ Acts(h, k))
               /\ (ServerInv(h) => ServerInv(k) /\ Acts(h, k))
               /\ k.accepted = h.accepted
               /\ k.accepting = h.accepting /\ k.out = h.out
<1> DEFINE m == [h EXCEPT !.queue = Completed(@, n, FALSE)]
           k == Completes(h, n)
<1>0. HasFields(h) /\ Typed(h) /\ h.calls \in 0 .. 15 /\ h.next \in Nat
  BY StableMeans
<1>1. k = IF ~ h.queue.open THEN OperationHandler(m, n, FALSE) ELSE m
  BY DEF Completes, ToHandler
<1>2. Same(h, m, {"queue"}) /\ m.queue = Completed(h.queue, n, FALSE)
  BY <1>0, FieldsThere DEF Same
<1>3. /\ QueueOf(h, m.queue) /\ m.queue.open = h.queue.open
      /\ Indices(m.queue) = Indices(h.queue)
  <2> DEFINE r == Completed(h.queue, n, FALSE)
  <2>1. QueueOf(h, h.queue)
    BY DEF Stable, Sound
  <2>2. QueueOf(h, r) /\ r.open = h.queue.open /\ Indices(r) = Indices(h.queue)
    BY <2>1, CompletedOf, Zenon
  <2>3. m.queue = r
    BY <1>2, Zenon
  <2> HIDE DEF r
  <2> QED BY <2>2, <2>3
<1> HIDE DEF m, k
<1>4. /\ m.conn = h.conn /\ m.attached = h.attached /\ m.next = h.next
      /\ m.history = h.history /\ m.handshakes = h.handshakes
      /\ m.receiving = h.receiving /\ m.inputs = h.inputs /\ m.outputs = h.outputs
      /\ m.aborts = h.aborts /\ m.confirming = h.confirming /\ m.open = h.open
      /\ m.mapped = h.mapped /\ m.calls = h.calls /\ m.peeks = h.peeks
      /\ m.failed = h.failed /\ m.connected = h.connected /\ m.accepted = h.accepted
      /\ m.accepting = h.accepting
      /\ m.sent = h.sent /\ m.done = h.done /\ m.delivered = h.delivered
      /\ m.taken = h.taken /\ m.out = h.out
  BY <1>0, <1>2, FieldsThere DEF Same
<1>5. Typed(m) /\ HasFields(m)
  <2>1. HasFields(m)
    BY <1>0, <1>2, SameHas
  <2> QED BY <1>0, <1>4, <2>1 DEF Typed
<1>6. SameNumbers(h, m) /\ Shakes(m) = Shakes(h) /\ Grows(h, m)
  BY <1>0, <1>4, SameNumbersGrows DEF SameNumbers
<1>7. Sound(m) /\ Whole(m)
  <2>1. QueueOf(m, m.queue) /\ Numbered(m)
    BY <1>0, <1>3, <1>4, <1>6, SameNumbersGrows DEF Stable, Sound, Numbered
  <2>2. \A b \in m.out : WireOf(m, b)
    BY <1>0, <1>4, <1>6, SameNumbersGrows DEF Stable, Sound, WireOf
  <2>3. Whole(m)
    BY <1>4 DEF Stable, Whole
  <2> QED BY <1>5, <2>1, <2>2, <2>3 DEF Sound
<1>8. Stable(m)
  BY <1>3, <1>4, <1>6, <1>7 DEF Stable, Waits, OneRead
<1>9. Acts(h, m)
  BY <1>4, <1>6 DEF Acts, Handed
<1>10. ClientInv(h) => ClientInv(m)
  BY <1>3, <1>4 DEF ClientInv, Untouched
<1>11. ServerInv(h) => ServerInv(m)
  BY <1>3, <1>4 DEF ServerInv, Untouched, ServerShakes
<1>12. CASE h.queue.open
  BY <1>1, <1>4, <1>8, <1>9, <1>10, <1>11, <1>12 DEF k
<1>13. CASE ~ h.queue.open
  <2>1. k = OperationHandler(m, n, FALSE)
    BY <1>1, <1>13
  <2>2. /\ Same(m, k, HandlerFields) /\ k.conn \in {m.conn, "established"}
        /\ m.done \subseteq k.done /\ k.done \subseteq m.done \union {n}
        /\ k.failed \in {m.failed, "process_connect"}
        /\ ClientShakes(m) =>
             k.conn = m.conn /\ (m.conn # "closed" /\ m.connected => k.connected)
        /\ ServerShakes(m) => k.connected = m.connected
    BY <1>5, <2>1, HandlerRuns, ZenonT(40)
  <2>3. n < h.next /\ n < m.next /\ n \in Nat
    BY <1>4, NumbersAreNaturals DEF Stable, Sound, QueueOf
  <2>4. k.conn \in Connectivity
    BY <1>5, <2>2 DEF Typed, Connectivity
  <2>5. /\ Sound(k) /\ SameNumbers(m, k) /\ Whole(k) /\ k.queue = m.queue /\ k.out = m.out
    BY <1>7, <2>2, <2>3, <2>4, HandlerSound
  <2>6. /\ k.attached = m.attached
        /\ k.history = m.history
        /\ k.receiving = m.receiving /\ k.inputs = m.inputs /\ k.outputs = m.outputs
        /\ k.aborts = m.aborts /\ k.confirming = m.confirming /\ k.open = m.open
        /\ k.mapped = m.mapped /\ k.calls = m.calls /\ k.peeks = m.peeks
        /\ k.accepted = m.accepted
        /\ k.accepting = m.accepting /\ k.delivered = m.delivered
    BY <1>5, <2>2, FieldsThere DEF Same, HandlerFields
  <2>7. /\ k.next = h.next /\ k.handshakes = h.handshakes /\ k.sent = h.sent
        /\ k.taken = h.taken
    BY <1>4, <2>5 DEF SameNumbers
  <2>8. Shakes(k) = Shakes(h) /\ Grows(h, k)
    BY <1>0, <2>7, SameNumbersGrows DEF SameNumbers
  <2>9. ~ h.attached /\ ~ k.attached /\ Indices(k.queue) = {}
    BY <1>3, <1>4, <1>13, <2>5, <2>6 DEF Stable
  <2>10. Stable(k)
    BY <1>4, <2>5, <2>6, <2>7, <2>8, <2>9, <1>3 DEF Stable, Waits, OneRead
  <2>11. ~ k.open => Acts(h, k)
    BY <1>4, <2>2, <2>6, <2>7, <2>8, <2>9 DEF Acts, Handed
  <2>12. ASSUME ClientInv(h) PROVE ClientInv(k) /\ ~ k.open
    <3>1. ClientShakes(m)
      BY <1>4, <2>12 DEF ClientInv, ClientShakes, Shake
    <3>2. h.next # 0
      BY <1>0, <2>3
    <3>3. ~ k.open
      BY <1>4, <2>6, <2>9, <2>12 DEF ClientInv, Stable
    <3>4. k.conn = h.conn /\ (h.conn # "closed" /\ h.connected => k.connected)
      BY <1>4, <2>2, <3>1
    <3>5. ClientInv(k)
      BY <1>4, <2>6, <2>7, <2>9, <2>12, <3>2, <3>4 DEF ClientInv, Untouched
    <3> QED BY <3>3, <3>5
  <2>13. ASSUME ServerInv(h) PROVE ServerInv(k) /\ ~ k.open
    <3>1. ServerShakes(m) /\ ServerShakes(k)
      BY <1>4, <2>7, <2>13 DEF ServerInv, ServerShakes
    <3>2. h.conn = "closed" => h.history # {} /\ ~ h.open
      BY <1>13, <2>13 DEF ServerInv
    <3>3. ~ k.open
      BY <1>4, <2>6, <2>9, <2>13, <3>2 DEF ServerInv
    <3>4. k.conn \in {h.conn, "established"} /\ ~ k.connected /\ k.confirming = 0
      BY <1>4, <2>2, <2>6, <2>13, <3>1 DEF ServerInv
    <3>5. ServerInv(k)
      BY <1>4, <2>6, <2>7, <2>9, <2>13, <3>1, <3>2, <3>3, <3>4 DEF ServerInv
    <3> QED BY <3>3, <3>5
  <2> QED BY <1>4, <2>5, <2>6, <2>10, <2>11, <2>12, <2>13 DEF k
<1> QED BY <1>12, <1>13

\* A host that fails, or gives up a step of its queue, stays what it was.
LEMMA FailsStep ==
    ASSUME NEW h, Stable(h), h.failed = "no", NEW k, Same(h, k, {"queue", "failed"}),
           QueueOf(h, k.queue), k.queue.open = h.queue.open,
           Indices(k.queue) = Indices(h.queue)
    PROVE  /\ Stable(k) /\ Acts(h, k)
           /\ (ClientInv(h) => ClientInv(k)) /\ (ServerInv(h) => ServerInv(k))
           /\ k.accepted = h.accepted /\ k.out = h.out
<1>0. HasFields(h) /\ Typed(h)
  BY StableMeans
<1>1. /\ k.conn = h.conn /\ k.attached = h.attached /\ k.next = h.next
      /\ k.history = h.history /\ k.handshakes = h.handshakes
      /\ k.receiving = h.receiving /\ k.inputs = h.inputs /\ k.outputs = h.outputs
      /\ k.aborts = h.aborts /\ k.confirming = h.confirming /\ k.open = h.open
      /\ k.mapped = h.mapped /\ k.calls = h.calls /\ k.peeks = h.peeks
      /\ k.connected = h.connected /\ k.accepted = h.accepted
      /\ k.accepting = h.accepting
      /\ k.sent = h.sent /\ k.done = h.done /\ k.delivered = h.delivered
      /\ k.taken = h.taken /\ k.out = h.out
  BY <1>0, FieldsThere DEF Same
<1>2. Typed(k) /\ HasFields(k)
  <2>1. HasFields(k)
    BY <1>0, SameHas
  <2> QED BY <1>0, <1>1, <2>1 DEF Typed
<1>3. SameNumbers(h, k) /\ Shakes(k) = Shakes(h) /\ Grows(h, k)
  BY <1>0, <1>1, SameNumbersGrows DEF SameNumbers
<1>4. Sound(k) /\ Whole(k)
  <2>1. QueueOf(k, k.queue) /\ Numbered(k)
    BY <1>0, <1>1, <1>3, SameNumbersGrows DEF Stable, Sound, Numbered
  <2>2. \A b \in k.out : WireOf(k, b)
    BY <1>0, <1>1, <1>3, SameNumbersGrows DEF Stable, Sound, WireOf
  <2>3. Whole(k)
    BY <1>1 DEF Stable, Whole
  <2> QED BY <1>2, <2>1, <2>2, <2>3 DEF Sound
<1>5. Stable(k)
  BY <1>1, <1>3, <1>4 DEF Stable, Waits, OneRead
<1>6. Acts(h, k)
  BY <1>1, <1>3 DEF Acts, Handed
<1>7. ClientInv(h) => ClientInv(k)
  BY <1>1 DEF ClientInv, Untouched
<1>8. ServerInv(h) => ServerInv(k)
  BY <1>1 DEF ServerInv, Untouched, ServerShakes
<1> QED BY <1>1, <1>5, <1>6, <1>7, <1>8

\* The client's handshake is confirmed: it is established already.
LEMMA ConfirmStep ==
    ASSUME NEW h, Stable(h), h.failed = "no", h.confirming > 0, ClientInv(h)
    PROVE  LET k == ConfirmSent(h)
           IN  Stable(k) /\ Acts(h, k) /\ ClientInv(k)
<1> DEFINE k == ConfirmSent(h)
<1>0. HasFields(h) /\ Typed(h) /\ h.calls \in 0 .. 15 /\ h.next \in Nat
  BY StableMeans
<1>1. /\ Same(h, k, {"conn", "confirming"}) /\ k.conn = "established"
      /\ k.confirming = h.confirming - 1
  BY <1>0, FieldsThere DEF Same, ConfirmSent
<1> HIDE DEF k
<1>2. h.confirming \in Nat /\ h.confirming # 0
  BY <1>0 DEF Typed
<1>3. h.conn = "established"
  BY <1>2 DEF ClientInv, Untouched
<1>4. /\ k.attached = h.attached /\ k.next = h.next
      /\ k.history = h.history /\ k.queue = h.queue /\ k.handshakes = h.handshakes
      /\ k.receiving = h.receiving /\ k.inputs = h.inputs /\ k.outputs = h.outputs
      /\ k.aborts = h.aborts /\ k.open = h.open
      /\ k.calls = h.calls /\ k.peeks = h.peeks
      /\ k.failed = h.failed /\ k.connected = h.connected /\ k.accepted = h.accepted
      /\ k.accepting = h.accepting
      /\ k.sent = h.sent /\ k.done = h.done /\ k.delivered = h.delivered
      /\ k.taken = h.taken
  BY <1>0, <1>1, FieldsThere DEF Same
<1>5. Same(h, k, QuietFields)
  BY <1>1, SameWider DEF QuietFields
<1>6. k.conn \in Connectivity /\ k.confirming \in Nat
  BY <1>1, <1>2 DEF Connectivity
<1>7. Sound(k) /\ Whole(k) /\ Grows(h, k)
  BY <1>0, <1>4, <1>5, <1>6, QuietSound DEF Stable, Typed
<1>8. Stable(k)
  BY <1>4, <1>7 DEF Stable, Waits, OneRead, Shakes
<1>9. Acts(h, k)
  BY <1>4, <1>7 DEF Acts, Handed
<1>10. ClientInv(k)
  BY <1>1, <1>3, <1>4 DEF ClientInv
<1> QED BY <1>8, <1>9, <1>10 DEF k

\* Moving the head of one sequence to the end of another keeps their
\* concatenation.
LEMMA Moved ==
    ASSUME NEW S, NEW a \in Seq(S), NEW b \in Seq(S), b # <<>>
    PROVE  /\ Append(a, Head(b)) \o Tail(b) = a \o b
           /\ Append(a, Head(b)) \in Seq(S) /\ Tail(b) \in Seq(S)
           /\ Len(Append(a, Head(b))) = Len(a) + 1
<1> DEFINE c == Append(a, Head(b))
           d == Tail(b)
<1>1. Len(a) \in Nat /\ Len(b) \in Nat /\ Len(b) > 0
  BY EmptySeq, LenProperties
<1>2. Head(b) \in S /\ d \in Seq(S) /\ Len(d) = Len(b) - 1
      /\ (\A i \in 1 .. Len(d) : d[i] = b[i + 1]) /\ Head(b) = b[1]
  BY <1>1, HeadTailProperties
<1>3. c \in Seq(S) /\ Len(c) = Len(a) + 1 /\ c[Len(a) + 1] = Head(b)
      /\ \A i \in 1 .. Len(a) : c[i] = a[i]
  BY <1>2, AppendProperties
<1> HIDE DEF c, d
<1>4. c \o d \in Seq(S) /\ Len(c \o d) = Len(c) + Len(d)
      /\ \A i \in 1 .. Len(c) + Len(d) :
           (c \o d)[i] = IF i <= Len(c) THEN c[i] ELSE d[i - Len(c)]
  BY <1>2, <1>3, ConcatProperties
<1>5. a \o b \in Seq(S) /\ Len(a \o b) = Len(a) + Len(b)
      /\ \A i \in 1 .. Len(a) + Len(b) :
           (a \o b)[i] = IF i <= Len(a) THEN a[i] ELSE b[i - Len(a)]
  BY ConcatProperties
<1>6. Len(c \o d) = Len(a \o b)
  BY <1>1, <1>2, <1>3, <1>4, <1>5
<1>7. \A i \in 1 .. Len(a \o b) : (c \o d)[i] = (a \o b)[i]
  <2> SUFFICES ASSUME NEW i \in 1 .. Len(a \o b) PROVE (c \o d)[i] = (a \o b)[i]
    OBVIOUS
  <2>1. i \in 1 .. Len(c) + Len(d) /\ i \in 1 .. Len(a) + Len(b) /\ i \in Nat
    BY <1>1, <1>4, <1>5, <1>6
  <2>2. CASE i <= Len(a)
    BY <1>1, <1>3, <1>4, <1>5, <2>1, <2>2
  <2>3. CASE i = Len(a) + 1
    BY <1>1, <1>2, <1>3, <1>4, <1>5, <2>1, <2>3
  <2>4. CASE i > Len(a) + 1
    <3>1. i - Len(c) \in 1 .. Len(d) /\ i - Len(c) + 1 = i - Len(a)
      BY <1>1, <1>2, <1>3, <2>1, <2>4
    <3>2. (c \o d)[i] = d[i - Len(c)] /\ (a \o b)[i] = b[i - Len(a)]
      BY <1>1, <1>2, <1>3, <1>4, <1>5, <2>1, <2>4
    <3> QED BY <1>2, <3>1, <3>2
  <2> QED BY <1>1, <2>1, <2>2, <2>3, <2>4
<1>8. c \o d = a \o b
  BY <1>4, <1>5, <1>6, <1>7, SeqEqual
<1> QED BY <1>2, <1>3, <1>8 DEF c, d

\* A posted receive delivers the first output, or nothing.
LEMMA ReceiveJobStep ==
    ASSUME NEW h, Stable(h), h.failed = "no"
    PROVE  LET k == RunReceiveJob(h)
           IN  /\ Stable(k) /\ Acts(h, k)
               /\ (ClientInv(h) => ClientInv(k)) /\ (ServerInv(h) => ServerInv(k))
               /\ k.accepted = h.accepted
               /\ k.accepting = h.accepting /\ k.out = h.out
<1> DEFINE k == RunReceiveJob(h)
<1>0. HasFields(h) /\ Typed(h) /\ h.calls \in 0 .. 15 /\ h.next \in Nat
  BY StableMeans
<1>1. /\ Same(h, k, {"jobs", "outputs", "delivered", "failed"})
      /\ k.failed = "no" => h.failed = "no"
      /\ \/ k.outputs = h.outputs /\ k.delivered = h.delivered
         \/ /\ h.outputs # <<>> /\ k.outputs = Tail(h.outputs)
            /\ k.delivered = Append(h.delivered, Head(h.outputs))
  BY <1>0, FieldsThere DEF Same, RunReceiveJob, Fail
<1> HIDE DEF k
<1>2. /\ k.conn = h.conn /\ k.attached = h.attached /\ k.next = h.next
      /\ k.history = h.history /\ k.queue = h.queue /\ k.handshakes = h.handshakes
      /\ k.receiving = h.receiving /\ k.inputs = h.inputs
      /\ k.aborts = h.aborts /\ k.confirming = h.confirming /\ k.open = h.open
      /\ k.mapped = h.mapped /\ k.calls = h.calls /\ k.peeks = h.peeks
      /\ k.connected = h.connected /\ k.accepted = h.accepted
      /\ k.accepting = h.accepting
      /\ k.sent = h.sent /\ k.done = h.done
      /\ k.taken = h.taken /\ k.out = h.out
  BY <1>0, <1>1, FieldsThere DEF Same
<1>3. /\ k.outputs \in Seq(Pieces) /\ k.delivered \in Seq(Pieces)
      /\ Handed(k) = Handed(h)
      /\ Len(k.delivered) \in {Len(h.delivered), Len(h.delivered) + 1}
  <2>1. h.outputs \in Seq(Pieces) /\ h.delivered \in Seq(Pieces)
    BY <1>0 DEF Typed
  <2>2. CASE k.outputs = h.outputs /\ k.delivered = h.delivered
    BY <2>1, <2>2 DEF Handed
  <2>3. CASE h.outputs # <<>> /\ k.outputs = Tail(h.outputs)
             /\ k.delivered = Append(h.delivered, Head(h.outputs))
    <3> DEFINE a == Append(h.delivered, Head(h.outputs))
               b == Tail(h.outputs)
    <3>1. /\ a \o b = h.delivered \o h.outputs
          /\ a \in Seq(Pieces) /\ b \in Seq(Pieces)
          /\ Len(a) = Len(h.delivered) + 1
      BY <2>1, <2>3, Moved
    <3>2. k.delivered = a /\ k.outputs = b
      BY <2>3
    <3> HIDE DEF a, b
    <3> QED BY <3>1, <3>2 DEF Handed
  <2> QED BY <1>1, <2>2, <2>3
<1>4. Waits(k)
  <2>1. h.outputs = <<>> => k.outputs = <<>>
    BY <1>1
  <2> QED BY <1>2, <2>1 DEF Stable, Waits
<1>5. Same(h, k, QuietFields)
  BY <1>1, SameWider DEF QuietFields
<1>6. Sound(k) /\ Whole(k) /\ Grows(h, k)
  BY <1>0, <1>2, <1>3, <1>5, QuietSound DEF Stable, Typed
<1>7. Stable(k)
  BY <1>1, <1>2, <1>4, <1>6 DEF Stable, OneRead, Shakes
<1>8. Acts(h, k)
  BY <1>2, <1>3, <1>6 DEF Acts
<1>9. ClientInv(h) => ClientInv(k)
  BY <1>1, <1>2 DEF ClientInv, Untouched
<1>10. ServerInv(h) => ServerInv(k)
  BY <1>1, <1>2 DEF ServerInv, Untouched, ServerShakes
<1> QED BY <1>2, <1>7, <1>8, <1>9, <1>10 DEF k

\* The handler of an operation that was given up.
Aborts(h, n) == OperationHandler([h EXCEPT !.aborts = @ \ {n}], n, TRUE)

\* It tells the user, who has closed.
LEMMA RunAbortStep ==
    ASSUME NEW h, Stable(h), h.failed = "no", NEW n \in h.aborts
    PROVE  LET k == Aborts(h, n)
           IN  /\ Stable(k) /\ Acts(h, k)
               /\ (ClientInv(h) => ClientInv(k)) /\ (ServerInv(h) => ServerInv(k))
               /\ k.accepted = h.accepted
               /\ k.accepting = h.accepting /\ k.out = h.out
<1> DEFINE m == [h EXCEPT !.aborts = @ \ {n}]
           k == Aborts(h, n)
<1>0. HasFields(h) /\ Typed(h) /\ h.calls \in 0 .. 15 /\ h.next \in Nat
  BY StableMeans
<1>1. Same(h, m, {"aborts"}) /\ m.aborts = h.aborts \ {n}
  BY <1>0, FieldsThere DEF Same
<1>2. /\ m.conn = h.conn /\ m.inputs = h.inputs /\ m.confirming = h.confirming
      /\ m.outputs = h.outputs /\ m.delivered = h.delivered /\ m.calls = h.calls
      /\ m.handshakes = h.handshakes
  BY <1>0, <1>1, FieldsThere DEF Same
<1>3. HasFields(m) /\ Typed(m)
  <2>1. Same(h, m, QuietFields) /\ m.aborts \subseteq NumberSet
    BY <1>0, <1>1, SameWider DEF QuietFields, Typed
  <2>2. Sound(m)
    BY <1>0, <1>2, <2>1, QuietSound DEF Stable, Typed
  <2> QED BY <2>2 DEF Sound, Typed
<1>4. /\ Same(m, k, {"conn"}) /\ k.conn \in {m.conn, "closed"}
      /\ n \notin Shakes(m) => k.conn = m.conn
      /\ ClientShakes(m) => k.conn = m.conn
  <2> DEFINE x == OperationHandler(m, n, TRUE)
  <2>1. /\ Same(m, x, {"conn"}) /\ x.conn \in {m.conn, "closed"}
        /\ n \notin Shakes(m) => x.conn = m.conn
        /\ ClientShakes(m) => x.conn = m.conn
    BY <1>3, HandlerAborts, Zenon
  <2>2. k = x
    BY DEF Aborts
  <2> HIDE DEF x, k
  <2> QED BY <2>1, <2>2
<1> HIDE DEF m, k
<1>5. Same(h, k, {"aborts", "conn"})
  <2>1. Same(h, k, {"aborts"} \union {"conn"})
    BY <1>1, <1>4, SameThen
  <2> QED BY <2>1, SameWider
<1>6. /\ k.attached = h.attached /\ k.next = h.next
      /\ k.history = h.history /\ k.queue = h.queue /\ k.handshakes = h.handshakes
      /\ k.receiving = h.receiving /\ k.inputs = h.inputs /\ k.outputs = h.outputs
      /\ k.confirming = h.confirming /\ k.open = h.open
      /\ k.mapped = h.mapped /\ k.calls = h.calls /\ k.peeks = h.peeks
      /\ k.failed = h.failed /\ k.connected = h.connected /\ k.accepted = h.accepted
      /\ k.accepting = h.accepting
      /\ k.sent = h.sent /\ k.done = h.done /\ k.delivered = h.delivered
      /\ k.taken = h.taken /\ k.out = h.out
  BY <1>0, <1>5, FieldsThere DEF Same
<1>7. k.aborts = h.aborts \ {n}
  BY <1>1, <1>3, <1>4, FieldsThere DEF Same
<1>8. Sound(k) /\ Whole(k) /\ Grows(h, k)
  <2>1. Same(h, k, QuietFields) /\ k.aborts \subseteq NumberSet
    BY <1>0, <1>5, <1>7, SameWider DEF QuietFields, Typed
  <2>2. k.conn \in Connectivity
    BY <1>3, <1>4 DEF Typed, Connectivity
  <2> QED BY <1>0, <1>6, <2>1, <2>2, QuietSound DEF Stable, Typed
<1>9. ~ h.attached
  BY DEF Stable
<1>10. Stable(k)
  BY <1>6, <1>8, <1>9 DEF Stable, Waits, OneRead, Shakes
<1>11. Acts(h, k)
  BY <1>6, <1>8 DEF Acts, Handed
<1>12. ASSUME ClientInv(h) PROVE ClientInv(k)
  <2>1. ClientShakes(m)
    BY <1>2, <1>12 DEF ClientInv, ClientShakes, Shake
  <2>2. k.conn = h.conn
    BY <1>2, <1>4, <2>1
  <2>3. h.conn # "closed"
    BY <1>12 DEF ClientInv, Untouched
  <2> QED BY <1>6, <1>12, <2>2, <2>3 DEF ClientInv
<1>13. ASSUME ServerInv(h) PROVE ServerInv(k)
  <2>1. h.conn = "closed" => h.history # {} /\ ~ h.open
    BY <1>13 DEF ServerInv, Untouched
  <2>2. ~ h.open
    BY <1>9, <1>13, <2>1 DEF ServerInv
  <2>3. k.conn = h.conn \/ h.history # {}
    <3> SUFFICES ASSUME n \in Shakes(m) PROVE h.history # {}
      BY <1>2, <1>4
    <3>1. PICK s \in h.handshakes : s.seq = n
      BY <1>2 DEF Shakes
    <3>2. s.ack \in h.taken
      BY <1>13, <3>1 DEF ServerInv, ServerShakes, Stable, Sound, Numbered
    <3>3. h.taken # {}
      BY <3>2
    <3> QED BY <3>3 DEF Stable, Whole
  <2>4. ServerShakes(k)
    BY <1>6, <1>13 DEF ServerInv, ServerShakes
  <2>5. k.conn \in {h.conn, "closed"}
    BY <1>2, <1>4
  <2> QED BY <1>6, <1>9, <1>13, <2>1, <2>2, <2>3, <2>4, <2>5 DEF ServerInv
<1> QED BY <1>6, <1>10, <1>11, <1>12, <1>13 DEF k
-----------------------------------------------------------------------------
(* What a host has taken and told, against what its peer sent and took.    *)

\* k is h after a packet of s.
Hears(h, k, s) ==
    /\ Grows(h, k)
    /\ k.sent = h.sent /\ h.open /\ k.open = h.open /\ k.attached = h.attached
    /\ h.done \subseteq k.done
    /\ \A n \in k.done : n \in h.done \/ n \in s.taken
    /\ Len(k.delivered) \in {Len(h.delivered), Len(h.delivered) + 1}
    /\ \/ k.taken = h.taken /\ Handed(k) = Handed(h)
       \/ \E n \in NumberSet : /\ n < s.next /\ n \notin SentBy(s)
                               /\ k.taken = h.taken \union {n}
                               /\ Handed(k) = Handed(h)
       \/ \E n \in SentBy(s) :
            /\ k.taken = h.taken \union {n}
            /\ \E f \in NumberSet : h.taken = 0 .. f /\ n = f + 1
            /\ \E x \in {n, Garbled} : Handed(k) = Append(Handed(h), x)

\* What a host has handed on is a sequence no shorter than what it delivered.
LEMMA HandedOf ==
    ASSUME NEW h, Stable(h)
    PROVE  /\ Handed(h) \in Seq(Pieces) /\ Len(Handed(h)) \in Nat
           /\ DOMAIN Handed(h) = 1 .. Len(Handed(h))
           /\ Len(h.delivered) \in Nat /\ Len(h.delivered) <= Len(Handed(h))
           /\ h.sent \in Seq(NumberSet) /\ Len(h.sent) \in Nat
           /\ DOMAIN h.sent = 1 .. Len(h.sent)
<1>1. h.delivered \in Seq(Pieces) /\ h.outputs \in Seq(Pieces) /\ h.sent \in Seq(NumberSet)
  BY StableMeans DEF Typed
<1>2. Handed(h) \in Seq(Pieces) /\ Len(Handed(h)) = Len(h.delivered) + Len(h.outputs)
  BY <1>1, ConcatProperties DEF Handed
<1>3. Len(h.delivered) \in Nat /\ Len(h.outputs) \in Nat
  BY <1>1, LenProperties
<1>4. Len(h.sent) \in Nat /\ DOMAIN h.sent = 1 .. Len(h.sent)
  BY <1>1, LenProperties
<1>5. DOMAIN Handed(h) = 1 .. Len(Handed(h))
  BY <1>2, LenProperties
<1>6. Len(Handed(h)) \in Nat /\ Len(h.delivered) <= Len(Handed(h))
  <2>1. PICK a \in Nat : a = Len(h.delivered)
    BY <1>3
  <2>2. PICK b \in Nat : b = Len(h.outputs)
    BY <1>3
  <2>3. Len(Handed(h)) = a + b
    BY <1>2, <2>1, <2>2
  <2>4. a + b \in Nat /\ a <= a + b
    OBVIOUS
  <2> QED BY <2>1, <2>3, <2>4
<1>7. Handed(h) \in Seq(Pieces)
  BY <1>2
<1> QED BY Zenon, <1>1, <1>3, <1>4, <1>5, <1>6, <1>7

\* Who takes no packet has heard no more.
LEMMA HeardActing ==
    ASSUME NEW h, NEW s, Heard(h, s), NEW k, Acts(h, k), k.attached => k.open
    PROVE  Heard(k, s)
<1>1. k.taken = h.taken /\ Handed(k) = Handed(h)
  BY DEF Acts
<1>2. k.attached => k.done \subseteq s.taken
  BY DEF Acts, Heard
<1> QED BY <1>1, <1>2 DEF Heard

\* Who takes a packet hands on the next data of the peer, or nothing.
LEMMA HeardHearing ==
    ASSUME NEW h, Stable(h), NEW s, Stable(s), Heard(h, s), NEW k, Hears(h, k, s)
    PROVE  /\ Heard(k, s)
           /\ \/ Handed(k) = Handed(h)
              \/ /\ Len(Handed(h)) < Len(s.sent)
                 /\ \E x \in {s.sent[Len(Handed(h)) + 1], Garbled} :
                      Handed(k) = Append(Handed(h), x)
<1> DEFINE L == Len(Handed(h))
<1>0. /\ L \in Nat /\ Len(s.sent) \in Nat /\ DOMAIN s.sent = 1 .. Len(s.sent)
      /\ s.sent \in Seq(NumberSet) /\ s.next \in Nat
      /\ Handed(h) \in Seq(Pieces) /\ DOMAIN Handed(h) = 1 .. L
  BY HandedOf, StableMeans
<1>1. k.attached => k.done \subseteq s.taken
  BY DEF Heard, Hears
<1>2. CASE k.taken = h.taken /\ Handed(k) = Handed(h)
  BY <1>1, <1>2 DEF Heard
<1>3. CASE \E n \in NumberSet : /\ n < s.next /\ n \notin SentBy(s)
                                /\ k.taken = h.taken \union {n}
                                /\ Handed(k) = Handed(h)
  <2>1. PICK n \in NumberSet : /\ n < s.next /\ n \notin SentBy(s)
                               /\ k.taken = h.taken \union {n}
                               /\ Handed(k) = Handed(h)
    BY <1>3
  <2>2. \A i \in DOMAIN s.sent : s.sent[i] # n
    BY <2>1 DEF SentBy
  <2> QED BY <1>1, <2>1, <2>2 DEF Heard
<1>4. CASE \E n \in SentBy(s) :
             /\ k.taken = h.taken \union {n}
             /\ \E f \in NumberSet : h.taken = 0 .. f /\ n = f + 1
             /\ \E x \in {n, Garbled} : Handed(k) = Append(Handed(h), x)
  <2>0. PICK n \in SentBy(s) :
             /\ k.taken = h.taken \union {n}
             /\ \E f \in NumberSet : h.taken = 0 .. f /\ n = f + 1
             /\ \E x \in {n, Garbled} : Handed(k) = Append(Handed(h), x)
    BY <1>4
  <2>0a. PICK f \in NumberSet : h.taken = 0 .. f /\ n = f + 1
    BY <2>0
  <2>0b. PICK x \in {n, Garbled} : Handed(k) = Append(Handed(h), x)
    BY <2>0
  <2>1. /\ k.taken = h.taken \union {n} /\ h.taken = 0 .. f /\ n = f + 1
        /\ Handed(k) = Append(Handed(h), x)
    BY <2>0, <2>0a, <2>0b
  <2>2. PICK j \in DOMAIN s.sent : s.sent[j] = n
    BY DEF SentBy
  <2>3. /\ \A i \in DOMAIN s.sent : s.sent[i] \in NumberSet /\ s.sent[i] < s.next
        /\ \A a, b \in DOMAIN s.sent : a < b => s.sent[a] < s.sent[b]
    BY <1>0, ElementOfSeq DEF Stable, Sound, Numbered
  <2>4. f \in Nat /\ n \in Nat /\ n \notin h.taken /\ j \in Nat
    BY <1>0, <2>1, <2>2, NumbersAreNaturals
  <2>5. n < s.next
    BY <2>2, <2>3
  <2>6. ~ (j <= L)
    BY <2>2, <2>4 DEF Heard
  <2>7. j = L + 1
    <3> SUFFICES ASSUME j # L + 1 PROVE FALSE
      OBVIOUS
    <3>1. L + 1 \in DOMAIN s.sent /\ L + 1 < j
      BY <1>0, <2>2, <2>4, <2>6
    <3>2. s.sent[L + 1] < n /\ s.sent[L + 1] \in Nat
      BY <2>2, <2>3, <3>1, NumbersAreNaturals
    <3>3. s.sent[L + 1] \in h.taken
      BY <2>1, <2>4, <3>2
    <3>4. L + 1 <= L
      BY <3>1, <3>3 DEF Heard
    <3> QED BY <1>0, <3>4
  <2>8. n \in Pieces /\ x \in Pieces
    BY <2>2, <2>3 DEF Pieces
  <2>9. /\ Len(Handed(k)) = L + 1 /\ DOMAIN Handed(k) = 1 .. L + 1
        /\ Handed(k)[L + 1] = x /\ \A i \in 1 .. L : Handed(k)[i] = Handed(h)[i]
    <3>1. Handed(k) \in Seq(Pieces)
      BY <1>0, <2>1, <2>8, AppendProperties
    <3>2. Len(Handed(k)) = L + 1
      BY <1>0, <2>1, <2>8, AppendProperties
    <3> QED BY <1>0, <2>1, <2>8, <3>1, <3>2, AppendProperties, LenProperties
  <2>10. L < Len(s.sent) /\ s.sent[L + 1] = n /\ L + 1 \in DOMAIN s.sent
    BY <1>0, <2>2, <2>7
  <2> HIDE DEF L
  <2>11. \A m \in k.taken : m < s.next
    BY <2>1, <2>5 DEF Heard
  <2>12. Len(Handed(k)) <= Len(s.sent)
    BY <1>0, <2>9, <2>10
  <2>13. ASSUME NEW i \in DOMAIN s.sent, i <= Len(Handed(k))
         PROVE s.sent[i] \in k.taken
    <3>1. i \in Nat
      BY <1>0
    <3>2. CASE i <= L
      BY <2>1, <3>2 DEF Heard, L
    <3>3. CASE i = L + 1
      BY <2>1, <2>10, <3>3
    <3> QED BY <1>0, <2>9, <2>13, <3>1, <3>2, <3>3
  <2>14. ASSUME NEW i \in DOMAIN s.sent, s.sent[i] \in k.taken
         PROVE i <= Len(Handed(k))
    <3>1. i \in Nat
      BY <1>0
    <3>2. CASE s.sent[i] \in h.taken
      <4>1. i <= L
        BY <3>2 DEF Heard, L
      <4> QED BY <1>0, <2>9, <3>1, <4>1
    <3>3. CASE s.sent[i] = n
      <4>1. ~ (L + 1 < i)
        <5> SUFFICES ASSUME L + 1 < i PROVE FALSE
          OBVIOUS
        <5>1. s.sent[L + 1] < s.sent[i]
          BY <2>3, <2>10
        <5> QED BY <2>4, <2>10, <3>3, <5>1
      <4> QED BY <1>0, <2>9, <3>1, <4>1
    <3> QED BY <2>1, <2>14, <3>2, <3>3
  <2>15. ASSUME NEW i \in DOMAIN Handed(k)
         PROVE Handed(k)[i] \in {s.sent[i], Garbled}
    <3>1. CASE i \in 1 .. L
      BY <1>0, <2>9, <3>1 DEF Heard, L
    <3>2. CASE i = L + 1
      BY <2>1, <2>9, <2>10, <3>2
    <3> QED BY <1>0, <2>9, <2>15, <3>1, <3>2
  <2>16. Heard(k, s)
    BY <1>1, <2>11, <2>12, <2>13, <2>14, <2>15 DEF Heard
  <2> QED BY <2>1, <2>10, <2>16 DEF L
<1> QED BY <1>2, <1>3, <1>4 DEF Hears

\* The peer may go on.
LEMMA HeardPeer ==
    ASSUME NEW h, Stable(h), NEW s, Stable(s), Heard(h, s), NEW t, Stable(t), Grows(s, t),
           t.sent = s.sent \/ t.sent = Append(s.sent, s.next)
    PROVE  Heard(h, t)
<1>0. /\ Len(Handed(h)) \in Nat /\ DOMAIN Handed(h) = 1 .. Len(Handed(h))
      /\ Len(s.sent) \in Nat /\ DOMAIN s.sent = 1 .. Len(s.sent)
      /\ s.sent \in Seq(NumberSet) /\ s.next \in Nat /\ t.next \in Nat
      /\ Len(t.sent) \in Nat /\ DOMAIN t.sent = 1 .. Len(t.sent)
      /\ t.sent \in Seq(NumberSet)
  BY HandedOf, StableMeans
<1>1. h.taken \subseteq NumberSet /\ NumberSet \subseteq Nat
  BY StableMeans, NumbersAreNaturals DEF Typed
<1>2. \A n \in h.taken : n < t.next
  <2> SUFFICES ASSUME NEW n \in h.taken PROVE n < t.next
    OBVIOUS
  <2>1. n \in Nat /\ n < s.next /\ s.next <= t.next
    BY <1>1 DEF Heard, Grows
  <2> QED BY <1>0, <2>1
<1>3. h.attached => h.done \subseteq t.taken
  BY DEF Heard, Grows
<1>4. CASE t.sent = s.sent
  BY <1>2, <1>3, <1>4 DEF Heard
<1>5. CASE t.sent = Append(s.sent, s.next)
  <2>1. Len(t.sent) = Len(s.sent) + 1
    BY <1>0, <1>5
  <2>2. \A i \in DOMAIN s.sent : i \in DOMAIN t.sent /\ t.sent[i] = s.sent[i]
    BY <1>0, <1>5, <2>1
  <2>3. t.sent[Len(s.sent) + 1] = s.next
    BY <1>0, <1>5
  <2>4. s.next \notin h.taken
    BY <1>0, <1>1 DEF Heard
  <2>5. \A i \in DOMAIN t.sent : i \in DOMAIN s.sent \/ i = Len(s.sent) + 1
    BY <1>0, <2>1
  <2>6. Len(Handed(h)) <= Len(t.sent)
    BY <1>0, <2>1 DEF Heard
  <2>7. \A i \in DOMAIN t.sent : i <= Len(Handed(h)) => t.sent[i] \in h.taken
    <3> SUFFICES ASSUME NEW i \in DOMAIN t.sent, i <= Len(Handed(h))
                 PROVE t.sent[i] \in h.taken
      OBVIOUS
    <3>1. i \in DOMAIN s.sent
      BY <1>0, <2>5 DEF Heard
    <3> QED BY <2>2, <3>1 DEF Heard
  <2>8. \A i \in DOMAIN t.sent : t.sent[i] \in h.taken => i <= Len(Handed(h))
    BY <2>2, <2>3, <2>4, <2>5 DEF Heard
  <2>9. \A i \in DOMAIN Handed(h) : Handed(h)[i] \in {t.sent[i], Garbled}
    <3> SUFFICES ASSUME NEW i \in DOMAIN Handed(h)
                 PROVE Handed(h)[i] \in {t.sent[i], Garbled}
      OBVIOUS
    <3>1. i \in DOMAIN s.sent
      BY <1>0 DEF Heard
    <3> QED BY <2>2, <3>1 DEF Heard
  <2> QED BY <1>2, <1>3, <2>6, <2>7, <2>8, <2>9 DEF Heard
<1> QED BY <1>4, <1>5
-----------------------------------------------------------------------------
(* A datagram arrives.                                                     *)

\* A host whose posted read is over.
Peeked(h) == [h EXCEPT !.peeks = @ - 1]

\* A read that is over leaves the rest of the host alone.
LEMMA PeekedMeans ==
    ASSUME NEW h, Stable(h), h.failed = "no", h.open, h.peeks > 0
    PROVE  LET m == Peeked(h)
           IN  /\ Same(h, m, {"peeks"}) /\ m.peeks = 0 /\ h.calls > 0
               /\ Sound(m) /\ Whole(m) /\ SameNumbers(h, m) /\ Grows(h, m)
               /\ m.conn = h.conn /\ m.queue = h.queue /\ m.calls = h.calls
               /\ m.failed = h.failed /\ m.connected = h.connected
               /\ m.accepted = h.accepted /\ m.mapped = h.mapped
               /\ m.accepting = h.accepting /\ m.confirming = h.confirming
               /\ m.inputs = h.inputs /\ m.outputs = h.outputs
               /\ m.delivered = h.delivered /\ m.done = h.done /\ m.out = h.out
<1> DEFINE m == Peeked(h)
<1>0. HasFields(h) /\ Typed(h) /\ h.calls \in 0 .. 15
  BY StableMeans
<1>1. Same(h, m, {"peeks"}) /\ m.peeks = h.peeks - 1
  BY <1>0, FieldsThere DEF Same, Peeked
<1> HIDE DEF m
<1>2. /\ m.conn = h.conn /\ m.queue = h.queue /\ m.calls = h.calls
      /\ m.failed = h.failed /\ m.connected = h.connected
      /\ m.accepted = h.accepted /\ m.mapped = h.mapped
      /\ m.accepting = h.accepting /\ m.confirming = h.confirming
      /\ m.inputs = h.inputs /\ m.outputs = h.outputs
      /\ m.delivered = h.delivered /\ m.done = h.done /\ m.out = h.out
      /\ m.aborts = h.aborts
  BY <1>0, <1>1, FieldsThere DEF Same
<1>3. h.peeks = 1 /\ h.calls > 0
  BY <1>0 DEF Stable, OneRead
<1>4. Same(h, m, QuietFields)
  BY <1>1, SameWider DEF QuietFields
<1>5. Sound(m) /\ Whole(m) /\ SameNumbers(h, m) /\ Grows(h, m)
  BY <1>0, <1>2, <1>4, QuietSound DEF Stable, Typed
<1> QED BY <1>1, <1>2, <1>3, <1>5 DEF m

\* ... and the packet as expected as it was.
LEMMA FitsPeeked ==
    ASSUME NEW h, Stable(h), h.failed = "no", h.open, h.peeks > 0, NEW d, Fits(h, d)
    PROVE  Fits(Peeked(h), d)
<1> DEFINE m == Peeked(h)
<1>1. m.conn = h.conn /\ m.taken = h.taken
  BY PeekedMeans DEF SameNumbers
<1> HIDE DEF m
<1>2. Fits(m, d)
  BY <1>1 DEF Fits
<1> QED BY <1>2 DEF m

\* One receive less is counted without wrapping.
LEMMA LessMeans ==
    ASSUME NEW n \in 0 .. 16
    PROVE  Less(n) \in 0 .. 15
  BY DEF Less, CallsModulus

\* The read is posted again if a receive counts.
LEMMA FinishMeans ==
    ASSUME NEW h, HasFields(h), h.calls \in 0 .. 16, h.peeks = 0
    PROVE  LET k == FinishRead(h)
           IN  /\ Same(h, k, {"calls", "peeks"})
               /\ k.calls \in 0 .. 15 /\ OneRead(k) /\ k.peeks \in {0, 1}
<1> DEFINE k == FinishRead(h)
<1>1. /\ Same(h, k, {"calls", "peeks"}) /\ k.calls = Less(h.calls)
      /\ k.peeks = IF Less(h.calls) > 0 THEN h.peeks + 1 ELSE h.peeks
  BY FieldsThere DEF Same, FinishRead
<1> HIDE DEF k
<1>2. Less(h.calls) \in 0 .. 15
  BY LessMeans
<1>3. OneRead(k) /\ k.peeks \in {0, 1}
  BY <1>1, <1>2 DEF OneRead
<1> QED BY <1>1, <1>2, <1>3 DEF k

\* The fields the end of a read may change.
PeekFields == {"lent", "accepting", "mapped", "accepted", "calls", "peeks"}

\* k is h after packet d, m what its socket made of it.
Landed(h, m, k, d) ==
    /\ Same(m, k, PeekFields)
    /\ k.calls \in 0 .. 15 /\ OneRead(k) /\ k.peeks \in {0, 1}
    /\ \/ /\ h.mapped
          /\ k.mapped = m.mapped /\ k.accepting = m.accepting /\ k.accepted = m.accepted
       \/ /\ h.accepting /\ d.type # "data" /\ m.conn = "established"
          /\ k.accepted /\ ~ k.accepting
       \/ /\ h.accepting /\ d.type # "data" /\ m.conn # "established"
          /\ k.mapped = m.mapped /\ k.accepting = m.accepting /\ k.accepted = m.accepted

\* k is h after a datagram nothing was made of.
Passed(h, k) ==
    /\ Same(h, k, {"calls", "peeks", "failed"})
    /\ k.calls \in 0 .. 15 /\ k.peeks \in {0, 1}
    /\ k.failed = "no" => OneRead(k)

\* A datagram is for the socket, or nothing is made of it.
LEMMA ArriveCases ==
    ASSUME NEW h, Stable(h), h.failed = "no", h.next <= MaxNumber, h.open, h.peeks > 0,
           NEW d, Fits(h, d)
    PROVE  LET k == ProcessPeek(h, d)
           IN  Passed(h, k) \/ Landed(h, Dispatch(Peeked(h), d), k, d)
<1> DEFINE n == Peeked(h)
           m == Dispatch(n, d)
           k == ProcessPeek(h, d)
<1>0. HasFields(h) /\ Typed(h) /\ h.calls \in 0 .. 15
  BY StableMeans
<1>1. /\ Same(h, n, {"peeks"}) /\ n.peeks = 0 /\ h.calls > 0 /\ n.calls = h.calls
      /\ n.failed = "no" /\ Sound(n) /\ Whole(n) /\ n.next <= MaxNumber
      /\ n.accepting = h.accepting /\ n.mapped = h.mapped
  BY PeekedMeans DEF SameNumbers
<1>2. Fits(n, d)
  BY FitsPeeked
<1>3. HasFields(n)
  BY <1>1 DEF Sound, Typed
<1>4. k = IF h.calls = 0 THEN n
          ELSE IF TooManyCalls(h) THEN Fail(n, "process_peek")
          ELSE FinishRead(IF h.mapped
                          THEN IF m.inputs = n.inputs THEN LendBuffers(m) ELSE m
                          ELSE EstablishConnection(n, d))
  BY DEF ProcessPeek, Peeked
<1>5. Dispatched(n, m, d)
  BY <1>1, <1>2, DispatchMeans
<1>6. EstablishConnection(n, d) =
        IF ~ n.accepting \/ d.type = "data" THEN n
        ELSE IF m.conn = "established"
        THEN [m EXCEPT !.accepting = FALSE, !.mapped = TRUE,
                       !.accepted = TRUE, !.calls = Less(@)]
        ELSE [m EXCEPT !.calls = @ + 1]
  BY DEF EstablishConnection
<1> SUFFICES Passed(h, k) \/ Landed(h, m, k, d)
  OBVIOUS
<1> HIDE DEF n, m, k
<1>7. HasFields(m) /\ m.calls \in 0 .. 15 /\ m.peeks = 0
  BY <1>1, <1>5 DEF Dispatched, Sound, Typed, ReadsOn
<1>8. CASE TooManyCalls(h)
  <2>1. k = Fail(n, "process_peek")
    BY <1>0, <1>1, <1>4, <1>8
  <2>2. Same(n, k, {"failed"}) /\ k.failed = "process_peek"
    BY <1>3, <2>1, FieldsThere DEF Fail, Same
  <2>3. k.calls = n.calls /\ k.peeks = n.peeks
    BY <1>3, <2>2, FieldsThere DEF Same
  <2>4. Same(h, k, {"peeks"} \union {"failed"})
    BY <1>1, <2>2, SameThen
  <2>5. Same(h, k, {"calls", "peeks", "failed"})
    BY <2>4, SameWider
  <2> QED BY <1>0, <1>1, <2>2, <2>3, <2>5 DEF Passed
<1>9. CASE ~ TooManyCalls(h) /\ ~ h.mapped /\ (~ h.accepting \/ d.type = "data")
  <2>1. k = FinishRead(n)
    BY <1>0, <1>1, <1>4, <1>6, <1>9
  <2>2. /\ Same(n, k, {"calls", "peeks"})
        /\ k.calls \in 0 .. 15 /\ OneRead(k) /\ k.peeks \in {0, 1}
    BY <1>0, <1>1, <1>3, <2>1, FinishMeans
  <2>3. Same(h, k, {"peeks"} \union {"calls", "peeks"})
    BY <1>1, <2>2, SameThen
  <2>4. Same(h, k, {"calls", "peeks", "failed"})
    BY <2>3, SameWider
  <2> QED BY <2>2, <2>4 DEF Passed
<1>10. ASSUME NEW x, Same(m, x, PeekFields), x.peeks = 0, x.calls \in 0 .. 16,
              k = FinishRead(x)
       PROVE  /\ Same(m, k, PeekFields)
              /\ k.calls \in 0 .. 15 /\ OneRead(k) /\ k.peeks \in {0, 1}
              /\ k.mapped = x.mapped /\ k.accepting = x.accepting
              /\ k.accepted = x.accepted
  <2>1. HasFields(x)
    BY <1>7, <1>10, SameHas
  <2>2. /\ Same(x, k, {"calls", "peeks"})
        /\ k.calls \in 0 .. 15 /\ OneRead(k) /\ k.peeks \in {0, 1}
    BY <1>10, <2>1, FinishMeans
  <2>3. Same(m, k, PeekFields \union {"calls", "peeks"})
    BY <1>10, <2>2, SameThen
  <2>4. Same(m, k, PeekFields)
    BY <2>3, SameWider DEF PeekFields
  <2> QED BY <2>1, <2>2, <2>4, FieldsThere DEF Same
<1>11. CASE ~ TooManyCalls(h) /\ h.mapped
  <2>1. PICK x : /\ Same(m, x, {"lent"}) /\ k = FinishRead(x)
    <3>1. Same(m, m, {"lent"}) /\ Same(m, LendBuffers(m), {"lent"})
      BY <1>7, FieldsThere DEF Same, LendBuffers
    <3> QED BY <1>0, <1>1, <1>4, <1>11, <3>1
  <2>2. /\ x.calls = m.calls /\ x.peeks = m.peeks /\ x.mapped = m.mapped
        /\ x.accepting = m.accepting /\ x.accepted = m.accepted
    BY <1>7, <2>1, FieldsThere DEF Same
  <2>3. Same(m, x, PeekFields)
    BY <2>1, SameWider DEF PeekFields
  <2> QED BY <1>7, <1>10, <1>11, <2>1, <2>2, <2>3 DEF Landed
<1>12. CASE /\ ~ TooManyCalls(h) /\ ~ h.mapped /\ h.accepting /\ d.type # "data"
            /\ m.conn = "established"
  <2> DEFINE x == [m EXCEPT !.accepting = FALSE, !.mapped = TRUE,
                            !.accepted = TRUE, !.calls = Less(@)]
  <2>1. k = FinishRead(x)
    BY <1>0, <1>1, <1>4, <1>6, <1>12
  <2>2. /\ Same(m, x, {"accepting", "mapped", "accepted", "calls"})
        /\ x.calls = Less(m.calls) /\ ~ x.accepting /\ x.mapped /\ x.accepted
    BY <1>7, FieldsThere DEF Same
  <2> HIDE DEF x
  <2>3. x.calls \in 0 .. 15
    BY <1>7, <2>2, LessMeans
  <2>4. x.peeks = m.peeks
    BY <1>7, <2>2, FieldsThere DEF Same
  <2>5. Same(m, x, PeekFields)
    BY <2>2, SameWider DEF PeekFields
  <2>6. x.calls \in 0 .. 16
    BY <2>3
  <2> QED BY <1>7, <1>10, <1>12, <2>1, <2>2, <2>4, <2>5, <2>6 DEF Landed
<1>13. CASE /\ ~ TooManyCalls(h) /\ ~ h.mapped /\ h.accepting /\ d.type # "data"
            /\ m.conn # "established"
  <2> DEFINE x == [m EXCEPT !.calls = @ + 1]
  <2>1. k = FinishRead(x)
    BY <1>0, <1>1, <1>4, <1>6, <1>13
  <2>2. Same(m, x, {"calls"}) /\ x.calls = m.calls + 1
    BY <1>7, FieldsThere DEF Same
  <2> HIDE DEF x
  <2>3. /\ x.peeks = m.peeks /\ x.mapped = m.mapped
        /\ x.accepting = m.accepting /\ x.accepted = m.accepted
    BY <1>7, <2>2, FieldsThere DEF Same
  <2>4. Same(m, x, PeekFields)
    BY <2>2, SameWider DEF PeekFields
  <2>5. x.calls \in 0 .. 16
    BY <1>7, <2>2
  <2> QED BY <1>7, <1>10, <1>13, <2>1, <2>3, <2>4, <2>5 DEF Landed
<1> QED BY <1>8, <1>9, <1>11, <1>12, <1>13

\* k is h after packet d, of which m is what its socket made.
Lands(h, m, k, d) ==
    /\ Stable(k) /\ Grows(h, k) /\ Takes(h, k, d) /\ SameNumbers(m, k)
    /\ h.done \subseteq k.done
    /\ \A n \in k.done : n \in h.done \/ (n = d.ack /\ n # NoAck)
    /\ k.sent = h.sent /\ k.open = h.open /\ k.attached = h.attached
    /\ k.conn = m.conn /\ k.connected = m.connected
    /\ k.confirming = m.confirming /\ k.queue = m.queue
    /\ k.failed = m.failed /\ k.out = m.out
    /\ m.mapped = h.mapped /\ m.accepting = h.accepting
    /\ m.accepted = h.accepted /\ k.history = m.history

\* What the socket made of a packet is still so when the read is over.
LEMMA LandedMeans ==
    ASSUME NEW h, Stable(h), h.failed = "no", h.open, h.attached, h.peeks > 0, NEW d,
           NEW m, Dispatched(Peeked(h), m, d), 0 \in Shakes(m), NEW k, Landed(h, m, k, d)
    PROVE  Lands(h, m, k, d)
<1> DEFINE n == Peeked(h)
<1>0. HasFields(h) /\ Typed(h)
  BY StableMeans
<1>1. /\ Same(h, n, {"peeks"}) /\ SameNumbers(h, n) /\ Grows(h, n) /\ Sound(n)
      /\ n.queue = h.queue /\ n.inputs = h.inputs /\ n.outputs = h.outputs
      /\ n.delivered = h.delivered /\ n.done = h.done /\ n.mapped = h.mapped
      /\ n.accepting = h.accepting /\ n.accepted = h.accepted
  BY PeekedMeans
<1>2. Dispatched(n, m, d)
  OBVIOUS
<1> HIDE DEF n
<1>3. /\ n.open = h.open /\ n.attached = h.attached /\ n.aborts = h.aborts
      /\ n.next = h.next /\ n.taken = h.taken /\ n.handshakes = h.handshakes
      /\ n.sent = h.sent /\ HasFields(n)
  BY <1>0, <1>1, FieldsThere, SameHas DEF Same, SameNumbers
<1>4. /\ m.open = n.open /\ m.attached = n.attached /\ m.aborts = n.aborts
      /\ m.sent = n.sent /\ m.mapped = n.mapped /\ m.accepting = n.accepting
      /\ m.accepted = n.accepted
  BY <1>2, <1>3, FieldsThere
     DEF Same, Dispatched, DispatchFields, PacketFields, AckFields, ReadFields
<1>5. Sound(m) /\ Grows(n, m) /\ HasFields(m) /\ Typed(m)
  BY <1>2 DEF Dispatched, Sound, Typed
<1>6. /\ k.conn = m.conn /\ k.attached = m.attached /\ k.next = m.next
      /\ k.history = m.history /\ k.queue = m.queue /\ k.handshakes = m.handshakes
      /\ k.receiving = m.receiving /\ k.inputs = m.inputs /\ k.outputs = m.outputs
      /\ k.aborts = m.aborts /\ k.confirming = m.confirming /\ k.open = m.open
      /\ k.out = m.out /\ k.failed = m.failed /\ k.connected = m.connected
      /\ k.sent = m.sent /\ k.done = m.done /\ k.delivered = m.delivered
      /\ k.taken = m.taken
  BY <1>5, FieldsThere DEF Same, Landed, PeekFields
<1>7. Same(m, k, QuietFields)
  BY SameWider DEF QuietFields, PeekFields, Landed
<1>8. k.calls \in 0 .. 15 /\ k.peeks \in {0, 1} /\ OneRead(k)
  BY DEF Landed
<1>9. Sound(k) /\ SameNumbers(m, k) /\ Grows(m, k) /\ (Whole(m) => Whole(k))
  BY <1>5, <1>6, <1>7, <1>8, QuietSound DEF Typed
<1>10. Shakes(k) = Shakes(m)
  BY <1>6 DEF Shakes
<1>11. Takes(h, k, d)
  BY <1>1, <1>2, <1>3, <1>6, SMTT(60) DEF Takes, Dispatched
<1>12. Waits(k)
  BY <1>1, <1>2, <1>6 DEF Waits, Dispatched, Stable
<1>13. /\ h.done \subseteq k.done
       /\ \A x \in k.done : x \in h.done \/ (x = d.ack /\ x # NoAck)
  BY <1>1, <1>2, <1>6 DEF Dispatched
<1>14. k.queue.open /\ k.aborts = {} /\ k.attached /\ k.open
  BY <1>1, <1>2, <1>3, <1>4, <1>6 DEF Dispatched, Stable
<1>15. Grows(h, k)
  <2>1. Grows(h, m)
    BY <1>0, <1>1, <1>5, GrowsThen DEF Sound
  <2> QED BY <1>0, <1>5, <1>9, <2>1, GrowsThen DEF Sound
<1>16. k.sent # <<>> => k.taken # {}
  <2>1. h.taken \subseteq k.taken
    BY <1>15 DEF Grows
  <2> QED BY <1>3, <1>4, <1>6, <2>1 DEF Stable
<1>17. k.failed = "no" => Whole(k)
  BY <1>2, <1>6, <1>9 DEF Dispatched
<1>18. k.failed = "no" /\ Indices(k.queue) # {} => k.receiving
  BY <1>2, <1>6 DEF Dispatched
<1>19. k.open \in BOOLEAN
  BY <1>3, <1>4, <1>6 DEF Stable
<1>20. Stable(k)
  BY <1>8, <1>9, <1>10, <1>12, <1>14, <1>16, <1>17, <1>18, <1>19 DEF Stable
<1> QED BY <1>1, <1>3, <1>4, <1>6, <1>9, <1>11, <1>13, <1>15, <1>20 DEF Lands

\* A datagram nothing is made of leaves a host that can go on.
LEMMA PassedMeans ==
    ASSUME NEW h, Stable(h), h.failed = "no", h.open, h.peeks > 0,
           NEW k, Passed(h, k), NEW s
    PROVE  /\ Stable(k) /\ Hears(h, k, s) /\ k.accepted = h.accepted /\ k.out = h.out
           /\ (ClientInv(h) => ClientInv(k)) /\ (ServerInv(h) => ServerInv(k))
<1>0. HasFields(h) /\ Typed(h)
  BY StableMeans
<1>1. /\ k.conn = h.conn /\ k.attached = h.attached /\ k.next = h.next
      /\ k.history = h.history /\ k.queue = h.queue /\ k.handshakes = h.handshakes
      /\ k.receiving = h.receiving /\ k.inputs = h.inputs /\ k.outputs = h.outputs
      /\ k.aborts = h.aborts /\ k.confirming = h.confirming /\ k.open = h.open
      /\ k.out = h.out /\ k.connected = h.connected
      /\ k.mapped = h.mapped /\ k.accepting = h.accepting /\ k.accepted = h.accepted
      /\ k.sent = h.sent /\ k.done = h.done /\ k.delivered = h.delivered
      /\ k.taken = h.taken
  BY <1>0, FieldsThere DEF Same, Passed
<1>2. Same(h, k, QuietFields)
  BY SameWider DEF QuietFields, Passed
<1>3. k.calls \in 0 .. 15 /\ k.peeks \in {0, 1} /\ (k.failed = "no" => OneRead(k))
  BY DEF Passed
<1>4. Sound(k) /\ SameNumbers(h, k) /\ Grows(h, k) /\ (Whole(h) => Whole(k))
  BY <1>0, <1>1, <1>2, <1>3, QuietSound DEF Stable, Typed
<1>5. Shakes(k) = Shakes(h)
  BY <1>1 DEF Shakes
<1>6. Stable(k)
  BY <1>1, <1>3, <1>4, <1>5 DEF Stable, Waits
<1>7. Hears(h, k, s)
  BY <1>1, <1>4 DEF Hears, Handed
<1>8. ~ Untouched(h)
  BY DEF Untouched
<1>9. ClientInv(h) => ClientInv(k)
  BY <1>1, <1>3, <1>8 DEF ClientInv
<1>10. ServerInv(h) => ServerInv(k)
  BY <1>1, <1>3, <1>8 DEF ServerInv, ServerShakes
<1> QED BY <1>1, <1>6, <1>7, <1>9, <1>10
-----------------------------------------------------------------------------
(* What a packet's header says, and who it comes to.                       *)

\* What a header that was sent can say.
LEMMA PacketMeans ==
    ASSUME NEW s, Stable(s), NEW d, SentPacket(s, d)
    PROVE  /\ d \in Datagrams /\ d.seq \in NumberSet /\ d.seq < s.next
           /\ d.type \in {"handshake", "keepalive", "data"}
           /\ (d.type = "data") => d.seq \in SentBy(s)
           /\ d.type # "data" => d.seq \notin SentBy(s)
           /\ d.ack # NoAck => d.ack \in s.taken /\ d.ack \in NumberSet
           /\ 0 \in Shakes(s)
<1>1. d \in Datagrams /\ d.seq < s.next
  BY DEF SentPacket
<1>2. d.seq \in NumberSet /\ d.type \in {"handshake", "keepalive", "data"}
  BY <1>1 DEF Datagrams, NumberSet
<1>3. d.type # "data" => d.seq \notin SentBy(s)
  <2>1. CASE d.type = "keepalive"
    BY <2>1 DEF SentPacket
  <2>2. CASE d.type = "handshake"
    <3>1. Shake(d.seq, d.ack) \in s.handshakes /\ Shake(d.seq, d.ack).seq = d.seq
      BY <2>2 DEF SentPacket, Shake
    <3> QED BY <3>1 DEF Stable, Sound, Numbered
  <2> QED BY <1>2, <2>1, <2>2
<1>4. d.ack # NoAck => d.ack \in s.taken /\ d.ack \in NumberSet
  BY StableMeans DEF SentPacket, Typed
<1>5. 0 \in Shakes(s)
  <2>1. s.next > 0
    <3>1. d.seq \in Nat
      BY <1>2, NumbersAreNaturals
    <3>2. s.next \in Nat
      BY StableMeans
    <3> QED BY <1>1, <3>1, <3>2
  <2> QED BY <2>1 DEF Stable
<1>6. d.type = "data" => d.seq \in SentBy(s)
  BY DEF SentPacket
<1> QED BY <1>1, <1>2, <1>3, <1>4, <1>5, <1>6

\* Appending to the end of a concatenation.
LEMMA AppendedLater ==
    ASSUME NEW S, NEW a \in Seq(S), NEW b \in Seq(S), NEW x \in S
    PROVE  a \o Append(b, x) = Append(a \o b, x)
<1> DEFINE c == <<x>>
<1>1. c \in Seq(S)
  OBVIOUS
<1>2. a \o b \in Seq(S)
  BY ConcatProperties
<1>3. Append(b, x) = b \o c /\ Append(a \o b, x) = (a \o b) \o c
  BY <1>2, AppendIsConcat
<1> HIDE DEF c
<1>4. (a \o b) \o c = a \o (b \o c)
  BY <1>1, ConcatAssociative
<1> QED BY Zenon, <1>3, <1>4

\* Data that is handed on is appended, to the outputs or to what was delivered.
LEMMA TakenAppends ==
    ASSUME NEW h, Stable(h), NEW k, NEW x \in Pieces,
           \/ k.outputs = Append(h.outputs, x) /\ k.delivered = h.delivered
           \/ k.delivered = Append(h.delivered, x) /\ h.inputs > 0 /\ k.outputs = h.outputs
    PROVE  /\ Handed(k) = Append(Handed(h), x)
           /\ Len(k.delivered) \in {Len(h.delivered), Len(h.delivered) + 1}
<1>1. h.outputs \in Seq(Pieces) /\ h.delivered \in Seq(Pieces)
  BY StableMeans DEF Typed
<1>3. CASE k.outputs = Append(h.outputs, x) /\ k.delivered = h.delivered
  <2>1. h.delivered \o Append(h.outputs, x) = Append(h.delivered \o h.outputs, x)
    <3> DEFINE a == h.delivered
               b == h.outputs
    <3>1. a \in Seq(Pieces) /\ b \in Seq(Pieces)
      BY <1>1
    <3> HIDE DEF a, b
    <3>2. a \o Append(b, x) = Append(a \o b, x)
      BY <3>1, AppendedLater
    <3> QED BY <3>2 DEF a, b
  <2>2. Handed(k) = Append(Handed(h), x)
    BY Zenon, <1>3, <2>1 DEF Handed
  <2> QED BY <1>3, <2>2
<1>4. CASE k.delivered = Append(h.delivered, x) /\ h.inputs > 0 /\ k.outputs = h.outputs
  <2>1. h.outputs = <<>>
    BY <1>4 DEF Stable, Waits
  <2>2. Handed(h) = h.delivered /\ k.delivered \in Seq(Pieces)
    BY <1>1, <1>4, <2>1, ConcatEmptySeq, AppendProperties DEF Handed
  <2>3. Handed(k) = k.delivered
    BY <1>4, <2>1, <2>2, ConcatEmptySeq DEF Handed
  <2>4. Len(k.delivered) = Len(h.delivered) + 1
    BY <1>1, <1>4, AppendProperties
  <2> QED BY <1>4, <2>2, <2>3, <2>4
<1> QED BY <1>3, <1>4

\* Taking a packet of the peer is hearing it.
LEMMA TakesHears ==
    ASSUME NEW h, Stable(h), h.open, NEW s, Stable(s), NEW d, SentPacket(s, d),
           NEW k, Takes(h, k, d), Grows(h, k), k.sent = h.sent, k.open = h.open,
           k.attached = h.attached, h.done \subseteq k.done,
           \A n \in k.done : n \in h.done \/ (n = d.ack /\ n # NoAck)
    PROVE  Hears(h, k, s)
<1>1. /\ d.seq \in NumberSet /\ d.seq < s.next
      /\ d.type = "data" => d.seq \in SentBy(s)
      /\ d.type # "data" => d.seq \notin SentBy(s)
      /\ d.ack # NoAck => d.ack \in s.taken
  BY PacketMeans
<1>2. \A n \in k.done : n \in h.done \/ n \in s.taken
  BY <1>1
<1> DEFINE Heads == \/ k.taken = h.taken /\ Handed(k) = Handed(h)
                    \/ \E n \in NumberSet : /\ n < s.next /\ n \notin SentBy(s)
                                            /\ k.taken = h.taken \union {n}
                                            /\ Handed(k) = Handed(h)
                    \/ \E n \in SentBy(s) :
                         /\ k.taken = h.taken \union {n}
                         /\ \E f \in NumberSet : h.taken = 0 .. f /\ n = f + 1
                         /\ \E x \in {n, Garbled} : Handed(k) = Append(Handed(h), x)
           Lens == Len(k.delivered) \in {Len(h.delivered), Len(h.delivered) + 1}
<1>3. ASSUME k.taken = h.taken, k.delivered = h.delivered, k.outputs = h.outputs
      PROVE  Heads /\ Lens
  BY <1>3 DEF Handed
<1>4. ASSUME d.type # "data", k.taken = h.taken \union {d.seq},
             k.delivered = h.delivered, k.outputs = h.outputs
      PROVE  Heads /\ Lens
  BY <1>1, <1>4 DEF Handed
<1>5. ASSUME d.type = "data", k.taken = h.taken \union {d.seq},
             \E f \in NumberSet : h.taken = 0 .. f /\ d.seq = f + 1,
             \E x \in {d.seq, Garbled} :
                \/ /\ k.outputs = Append(h.outputs, x) /\ k.delivered = h.delivered
                \/ /\ k.delivered = Append(h.delivered, x)
                   /\ h.inputs > 0 /\ k.outputs = h.outputs
      PROVE  Heads /\ Lens
  <2>1. PICK x \in {d.seq, Garbled} :
                \/ /\ k.outputs = Append(h.outputs, x) /\ k.delivered = h.delivered
                \/ /\ k.delivered = Append(h.delivered, x)
                   /\ h.inputs > 0 /\ k.outputs = h.outputs
    BY <1>5
  <2>2. x \in Pieces
    BY <1>1 DEF Pieces
  <2>3. Handed(k) = Append(Handed(h), x) /\ Lens
    BY <2>1, <2>2, TakenAppends
  <2> QED BY <1>1, <1>5, <2>3
<1>6. Heads /\ Lens
  BY <1>3, <1>4, <1>5 DEF Takes
<1> QED BY <1>2, <1>6 DEF Hears

\* Every packet of the server is one the client's socket expects or discards.
LEMMA ClientFits ==
    ASSUME NEW c, Stable(c), ClientInv(c), c.conn # "closed",
           NEW s, Stable(s), ServerInv(s),
           NEW d, SentPacket(s, d), \A n \in s.taken : n < c.next,
           s.accepted => c.taken # {}, ~ s.accepted => d.seq = 0
    PROVE  Fits(c, d)
<1>1. /\ d \in Datagrams /\ 0 \in Shakes(s)
      /\ d.type \in {"handshake", "keepalive", "data"}
      /\ d.type = "data" => d.seq \in SentBy(s)
      /\ d.ack # NoAck => d.ack \in s.taken /\ d.ack \in NumberSet
  BY PacketMeans
<1>2. ASSUME c.taken = {} PROVE d.type = "handshake" /\ d.seq = 0
  <2>1. d.seq = 0
    BY <1>2
  <2>2. PICK m \in s.handshakes : m.seq = 0
    BY <1>1 DEF Shakes
  <2>3. 0 \notin SentBy(s)
    BY <2>2 DEF Stable, Sound, Numbered
  <2>4. d.type # "keepalive"
    BY <1>1, <2>1 DEF SentPacket
  <2> QED BY <1>1, <2>1, <2>3, <2>4
<1>3. c.conn # "listening"
  BY DEF ClientInv
<1>4. ASSUME d.type = "handshake", c.conn = "connecting"
      PROVE  c.taken = {} /\ d.ack = 0
  <2>1. c.taken = {} /\ c.next = 1
    BY <1>4 DEF ClientInv
  <2>2. Shake(d.seq, d.ack) \in s.handshakes /\ Shake(d.seq, d.ack).ack = d.ack
    BY <1>4 DEF SentPacket, Shake
  <2>3. d.ack # NoAck
    BY <2>2 DEF ServerInv, ServerShakes
  <2>4. d.ack \in Nat /\ d.ack < 1
    BY <1>1, <2>1, <2>3, NumbersAreNaturals
  <2> QED BY <2>1, <2>4
<1>5. d.type = "keepalive" => d.ack # NoAck
  BY DEF SentPacket
<1> QED BY <1>1, <1>2, <1>3, <1>4, <1>5 DEF Fits

\* ... and every packet of the client the server's.
LEMMA ServerFits ==
    ASSUME NEW s, Stable(s), ServerInv(s), s.attached, s.failed = "no",
           NEW c, Stable(c), ClientInv(c), NEW d, SentPacket(c, d),
           c.taken # {} => s.taken # {}, ~ s.accepted => c.taken \subseteq {0}
    PROVE  Fits(s, d)
<1>1. /\ d \in Datagrams
      /\ d.type \in {"handshake", "keepalive", "data"}
      /\ d.type = "data" => d.seq \in SentBy(c)
      /\ d.ack # NoAck => d.ack \in c.taken
  BY PacketMeans
<1>2. d.type = "handshake" => d.seq = 0 /\ d.ack = NoAck
  <2> SUFFICES ASSUME d.type = "handshake" PROVE d.seq = 0 /\ d.ack = NoAck
    OBVIOUS
  <2>1. Shake(d.seq, d.ack) = Shake(0, NoAck)
    BY DEF SentPacket, ClientInv
  <2> QED BY <2>1 DEF Shake
<1>3. ASSUME s.taken = {} PROVE d.type = "handshake" /\ d.seq = 0
  <2>1. c.taken = {}
    BY <1>3
  <2>2. c.sent = <<>>
    BY <2>1 DEF Stable
  <2>3. SentBy(c) = {}
    BY <2>2 DEF SentBy
  <2>4. d.type # "keepalive"
    BY <1>1, <2>1 DEF SentPacket
  <2> QED BY <1>1, <1>2, <2>3, <2>4
<1>4. s.conn # "connecting"
  BY DEF ServerInv
<1>5. s.conn = "listening" => s.taken \subseteq {0} /\ ~ s.accepted
  BY DEF ServerInv
<1>6. d.type = "keepalive" => d.ack # NoAck
  BY DEF SentPacket
<1>7. d.type = "keepalive" /\ s.conn = "listening" => d.ack = 0
  BY <1>1, <1>5, <1>6
<1>8. d.type = "handshake" /\ s.conn = "listening" =>
        d.seq = 0 /\ d.ack = NoAck /\ s.taken \subseteq {0}
  BY <1>2, <1>5
<1> QED BY <1>1, <1>3, <1>4, <1>6, <1>7, <1>8 DEF Fits

\* Whoever has sent or taken anything has sent the handshake 0.
LEMMA HandshakeOfZero ==
    ASSUME NEW h, Stable(h), h.next > 0 \/ h.taken # {}
    PROVE  0 \in Shakes(h) /\ h.next > 0
<1>1. 0 \in Shakes(h)
  BY DEF Stable
<1>2. PICK m \in h.handshakes : m.seq = 0
  BY <1>1 DEF Shakes
<1>3. 0 < h.next
  BY <1>2 DEF Stable, Sound, Numbered
<1> QED BY <1>1, <1>3, StableMeans

\* A packet of the server comes to the client.
LEMMA ClientArrives ==
    ASSUME NEW c, Stable(c), ClientInv(c), c.failed = "no", c.next <= MaxNumber,
           c.open, c.peeks > 0, NEW s, Stable(s), NEW d, SentPacket(s, d), Fits(c, d)
    PROVE  LET k == ProcessPeek(c, d)
           IN  /\ Stable(k) /\ ClientInv(k) /\ Hears(c, k, s)
               /\ k.taken = c.taken \/ k.taken = c.taken \union {d.seq}
<1> DEFINE n == Peeked(c)
           m == Dispatch(n, d)
           k == ProcessPeek(c, d)
<1>1. Passed(c, k) \/ Landed(c, m, k, d)
  BY ArriveCases
<1>2. c.attached /\ c.conn \in {"connecting", "established"}
  BY DEF ClientInv, Untouched
<1>3. /\ SameNumbers(c, n) /\ Sound(n) /\ Whole(n) /\ n.conn = c.conn
      /\ n.queue = c.queue /\ n.failed = c.failed /\ n.connected = c.connected
  BY PeekedMeans
<1>4. Fits(n, d)
  BY FitsPeeked
<1>5. n.next = c.next /\ n.taken = c.taken /\ n.handshakes = c.handshakes
  BY <1>3 DEF SameNumbers
<1>6. Dispatched(n, m, d)
  BY <1>3, <1>4, <1>5, DispatchMeans
<1>7. 0 \in Shakes(c)
  BY <1>2, HandshakeOfZero DEF ClientInv
<1>8. /\ m.conn = "established" /\ m.connected /\ m.handshakes = n.handshakes
      /\ n.conn = "connecting" => 0 \in m.taken
  <2>1. ClientShakes(n)
    BY <1>5 DEF ClientInv, ClientShakes, Shake
  <2>2. n.conn = "established" => n.connected
    BY <1>3 DEF ClientInv
  <2>3. n.conn = "connecting" =>
          n.taken = {} /\ 0 \in Indices(n.queue) \intersect Shakes(n)
    BY <1>2, <1>3, <1>5, <1>7 DEF ClientInv, Shakes
  <2> QED BY <1>2, <1>3, <1>4, <1>5, <2>1, <2>2, <2>3, ClientDispatch
<1> SUFFICES /\ Stable(k) /\ ClientInv(k) /\ Hears(c, k, s)
             /\ k.taken = c.taken \/ k.taken = c.taken \union {d.seq}
  OBVIOUS
<1> HIDE DEF m, k
<1>9. CASE Passed(c, k)
  <2>1. k.taken = c.taken
    BY <1>9, StableMeans, FieldsThere DEF Passed, Same
  <2> QED BY <1>9, <2>1, PassedMeans
<1>10. CASE Landed(c, m, k, d)
  <2>1. 0 \in Shakes(m)
    BY <1>5, <1>7, <1>8 DEF Shakes
  <2>2. /\ Stable(k) /\ Grows(c, k) /\ Takes(c, k, d) /\ SameNumbers(m, k)
        /\ c.done \subseteq k.done
        /\ \A x \in k.done : x \in c.done \/ (x = d.ack /\ x # NoAck)
        /\ k.sent = c.sent /\ k.open = c.open /\ k.attached = c.attached
        /\ k.conn = m.conn /\ k.connected = m.connected
        /\ m.mapped = c.mapped /\ m.accepting = c.accepting /\ m.accepted = c.accepted
    <3>1. Lands(c, m, k, d)
      BY <1>2, <1>6, <1>10, <2>1, LandedMeans
    <3> QED BY <3>1 DEF Lands
  <2>3. Hears(c, k, s)
    BY <2>2, TakesHears
  <2>4. k.taken = c.taken \/ k.taken = c.taken \union {d.seq}
    BY <2>2 DEF Takes
  <2>5. ~ c.accepting /\ ~ c.accepted /\ c.attached = c.open
        /\ c.handshakes \subseteq {Shake(0, NoAck)}
        /\ (c.conn = "established" => 0 \in c.taken)
    BY DEF ClientInv
  <2>6. ~ k.accepting /\ ~ k.accepted
    BY <1>10, <2>2, <2>5 DEF Landed
  <2>7. 0 \in k.taken
    BY <1>2, <1>3, <1>8, <2>2, <2>5 DEF Grows, SameNumbers
  <2>8. k.handshakes \subseteq {Shake(0, NoAck)}
    BY <1>5, <1>8, <2>2, <2>5 DEF SameNumbers
  <2>9. ClientInv(k)
    BY <1>8, <2>2, <2>5, <2>6, <2>7, <2>8 DEF ClientInv
  <2> QED BY <2>2, <2>3, <2>4, <2>9
<1> QED BY <1>1, <1>9, <1>10

\* A packet of the client comes to the server: its socket is accepted only if
\* the client took its answer.
LEMMA ServerArrives ==
    ASSUME NEW s, Stable(s), ServerInv(s), s.failed = "no", s.next <= MaxNumber,
           s.open, s.peeks > 0, s.out = {}, s.accepted => s.taken # {},
           NEW c, Stable(c), NEW d, SentPacket(c, d), Fits(s, d)
    PROVE  LET k == ProcessPeek(s, d)
           IN  /\ Stable(k) /\ ServerInv(k) /\ Hears(s, k, c)
               /\ s.accepted => k.accepted
               /\ k.accepted => s.accepted \/ c.taken # {}
               /\ ~ k.accepted => Puts(s, k, {0})
<1> DEFINE n == Peeked(s)
           m == Dispatch(n, d)
           k == ProcessPeek(s, d)
<1>1. Passed(s, k) \/ Landed(s, m, k, d)
  BY ArriveCases
<1>2. s.attached /\ s.conn \in {"listening", "established"}
  BY DEF ServerInv, Untouched
<1>3. /\ SameNumbers(s, n) /\ Sound(n) /\ Whole(n) /\ n.conn = s.conn
      /\ n.queue = s.queue /\ n.failed = s.failed /\ n.connected = s.connected
      /\ n.confirming = s.confirming /\ n.out = s.out
  BY PeekedMeans
<1>4. Fits(n, d)
  BY FitsPeeked
<1>5. n.next = s.next /\ n.taken = s.taken /\ n.handshakes = s.handshakes
  BY <1>3 DEF SameNumbers
<1>6. Dispatched(n, m, d)
  BY <1>3, <1>4, <1>5, DispatchMeans
<1>7. ServerShakes(n)
  BY <1>5 DEF ServerInv, ServerShakes
<1>8. s.conn = "established" => s.accepted
  BY <1>2 DEF ServerInv
<1>9. ASSUME s.conn = "established"
      PROVE  /\ m.conn = "established" /\ m.connected = n.connected
             /\ m.handshakes = n.handshakes /\ m.confirming = n.confirming
             /\ 0 \in Shakes(m)
  <2>1. /\ m.conn = "established" /\ m.connected = n.connected
        /\ m.handshakes = n.handshakes /\ m.confirming = n.confirming
    BY <1>3, <1>4, <1>5, <1>7, <1>9, ServerDispatch
  <2>2. 0 \in Shakes(s)
    BY <1>8, <1>9, HandshakeOfZero
  <2>3. 0 \in Shakes(m)
    BY <1>5, <2>1, <2>2 DEF Shakes
  <2> QED BY <2>1, <2>3
<1>10. ASSUME s.conn = "listening", d.type # "data"
       PROVE  /\ m.conn \in {"listening", "established"} /\ m.connected = n.connected
              /\ ServerShakes(m) /\ m.confirming = n.confirming
              /\ m.conn = "listening" =>
                   /\ Puts(n, m, {0})
                   /\ m.failed = "no" => m.taken \subseteq {0} /\ 0 \in Indices(m.queue)
              /\ 0 \in Shakes(m)
              /\ m.conn = "established" => d.type = "keepalive"
  <2>1. n.next > 0 => 0 \in Indices(n.queue) \intersect Shakes(n)
    <3>1. s.next > 0 => 0 \in Indices(s.queue)
      BY <1>2, <1>10 DEF ServerInv
    <3>2. s.next > 0 => 0 \in Shakes(s)
      BY HandshakeOfZero
    <3> QED BY <1>3, <1>5, <3>1, <3>2 DEF Shakes
  <2>2. n.taken # {} => n.next > 0
    BY <1>5, HandshakeOfZero
  <2> QED BY <1>3, <1>4, <1>5, <1>7, <1>10, <2>1, <2>2, ListenerDispatch
<1>11. d.type = "keepalive" => c.taken # {}
  BY DEF SentPacket
<1> SUFFICES /\ Stable(k) /\ ServerInv(k) /\ Hears(s, k, c)
             /\ s.accepted => k.accepted
             /\ k.accepted => s.accepted \/ c.taken # {}
             /\ ~ k.accepted => Puts(s, k, {0})
  OBVIOUS
<1> HIDE DEF m, k
<1>12. CASE Passed(s, k)
  <2>1. /\ Stable(k) /\ Hears(s, k, c) /\ k.accepted = s.accepted /\ k.out = s.out
        /\ ServerInv(k)
    BY <1>12, PassedMeans
  <2> QED BY <2>1 DEF Puts
<1>13. CASE Landed(s, m, k, d)
  <2>1. s.conn = "listening" => d.type # "data"
    <3>1. s.mapped => s.conn = "established"
      BY <1>2 DEF ServerInv
    <3> QED BY <1>13, <3>1 DEF Landed
  <2>2. /\ m.conn \in {"listening", "established"} /\ m.connected = n.connected
        /\ m.confirming = n.confirming /\ 0 \in Shakes(m) /\ ServerShakes(m)
        /\ s.conn = "established" => m.conn = "established"
    <3>1. CASE s.conn = "established"
      BY <1>7, <1>9, <3>1 DEF ServerShakes
    <3>2. CASE s.conn = "listening"
      BY <1>10, <2>1, <3>2
    <3> QED BY <1>2, <3>1, <3>2
  <2>3. /\ Stable(k) /\ Grows(s, k) /\ Takes(s, k, d) /\ SameNumbers(m, k)
        /\ s.done \subseteq k.done
        /\ \A x \in k.done : x \in s.done \/ (x = d.ack /\ x # NoAck)
        /\ k.sent = s.sent /\ k.open = s.open /\ k.attached = s.attached
        /\ k.conn = m.conn /\ k.connected = m.connected
        /\ k.confirming = m.confirming /\ k.queue = m.queue
        /\ k.failed = m.failed /\ k.out = m.out
        /\ m.mapped = s.mapped /\ m.accepting = s.accepting /\ m.accepted = s.accepted
    <3>1. Lands(s, m, k, d)
      BY <1>2, <1>6, <1>13, <2>2, LandedMeans
    <3> QED BY <3>1 DEF Lands
  <2>4. Hears(s, k, c)
    BY <2>3, TakesHears
  <2>5. /\ ~ s.connected /\ s.confirming = 0
        /\ s.mapped => s.accepted
        /\ s.accepted => s.conn = "established"
        /\ ~ s.accepted => s.sent = <<>>
    BY <1>2 DEF ServerInv
  <2>6. /\ s.accepted => k.accepted
        /\ k.accepted => k.conn = "established"
        /\ k.conn = "established" => k.accepted
        /\ k.accepted => s.accepted \/ c.taken # {}
    <3>1. CASE s.mapped /\ k.accepted = m.accepted
      BY <2>2, <2>3, <2>5, <3>1
    <3>2. CASE k.accepted /\ m.conn = "established" /\ d.type # "data"
      <4>1. s.conn = "listening" => c.taken # {}
        BY <1>10, <1>11, <3>2
      <4> QED BY <1>2, <1>8, <2>3, <3>2, <4>1
    <3>3. CASE k.accepted = m.accepted /\ m.conn # "established"
      BY <2>2, <2>3, <2>5, <3>3
    <3> QED BY <1>13, <3>1, <3>2, <3>3 DEF Landed
  <2>7. k.mapped => k.accepted
    BY <1>13, <2>3, <2>5 DEF Landed
  <2>8. ServerShakes(k)
    BY <2>2, <2>3 DEF ServerShakes, SameNumbers
  <2>9. k.conn = "listening" /\ k.failed = "no" =>
          k.taken \subseteq {0} /\ 0 \in Indices(k.queue)
    <3> SUFFICES ASSUME k.conn = "listening", k.failed = "no"
                 PROVE  k.taken \subseteq {0} /\ 0 \in Indices(k.queue)
      OBVIOUS
    <3>1. s.conn = "listening"
      BY <1>2, <2>2, <2>3
    <3>2. m.taken \subseteq {0} /\ 0 \in Indices(m.queue)
      BY <1>10, <2>1, <2>3, <3>1
    <3> QED BY <2>3, <3>2 DEF SameNumbers
  <2>10. ServerInv(k)
    BY <1>2, <1>3, <2>2, <2>3, <2>5, <2>6, <2>7, <2>8, <2>9 DEF ServerInv
  <2>11. ASSUME ~ k.accepted PROVE Puts(s, k, {0})
    <3>1. m.conn = "listening" /\ s.conn = "listening"
      BY <1>2, <2>2, <2>3, <2>6, <2>11
    <3>2. Puts(n, m, {0})
      BY <1>10, <2>1, <3>1
    <3>3. \A x : SentPacket(m, x) => SentPacket(k, x)
      BY <1>6, <2>3, SameNumbersGrows DEF Dispatched, Sound
    <3> QED BY <1>3, <2>3, <3>2, <3>3 DEF Puts
  <2> QED BY <2>3, <2>4, <2>6, <2>10, <2>11
<1> QED BY <1>1, <1>12, <1>13
-----------------------------------------------------------------------------
(* The two hosts and the network.                                          *)

\* What is posted joins what is on its way; where there was none of a
\* datagram, there is one.
LEMMA PostedAdds ==
    ASSUME NEW B, NEW S
    PROVE  /\ BagToSet(Posted(B, S)) = BagToSet(B) \union S
           /\ \A x \in S : x \notin BagToSet(B) => Posted(B, S)[x] = 1
           /\ \A x \in BagToSet(B) : x \notin S /\ B[x] = 1 => Posted(B, S)[x] = 1
<1>1. CASE Lossy
  BY <1>1 DEF Posted, BagToSet, SetToBag
<1>2. CASE ~ Lossy
  BY <1>2 DEF Posted, BagToSet, SetToBag, (+)
<1> QED BY <1>1, <1>2

\* A copy that arrives is gone; single copies of others stay.
LEMMA OneDrops ==
    ASSUME NEW B, NEW y
    PROVE  LET C == B (-) SetToBag({y})
           IN  /\ BagToSet(C) \subseteq BagToSet(B)
               /\ \A x \in BagToSet(B) :
                    x # y /\ B[x] = 1 => x \in BagToSet(C) /\ C[x] = 1
               /\ B[y] = 1 => y \notin BagToSet(C)
  BY DEF BagToSet, SetToBag, (-)

\* k may follow h at end p whose peer is s.
Sane(p, h, k, s) ==
    /\ Stable(k) /\ Role(p, k)
    /\ Acts(h, k) \/ Hears(h, k, s)
    /\ p = "client" => Cross(k, s)
    /\ p = "server" => /\ h.accepted => k.accepted
                       /\ k.accepted => s.taken # {}
                       /\ ~ k.accepted => Puts(h, k, {0})

\* Host p, and only it, becomes k.
Turn(p, k) ==
    /\ Sane(p, host[p], k, host[Peer(p)])
    /\ host' = [host EXCEPT ![p] = [k EXCEPT !.out = {}]]
    /\ DOMAIN net' = Hosts
    /\ OnWay(p)' \subseteq OnWay(p) /\ OnWay(Peer(p))' = OnWay(Peer(p)) \union k.out

\* There are two hosts, each the peer of the other.
LEMMA TwoHosts ==
    ASSUME NEW p \in Hosts
    PROVE  Peer(p) \in Hosts /\ Peer(p) # p /\ Peer(Peer(p)) = p
           /\ \A q \in Hosts : q = p \/ q = Peer(p)
  BY DEF Hosts, Peer

\* A step of a host gives numbers only to new datagrams.
LEMMA GrowsOf ==
    ASSUME NEW h, NEW k, NEW s, Acts(h, k) \/ Hears(h, k, s)
    PROVE  Grows(h, k) /\ (k.sent = h.sent \/ k.sent = Append(h.sent, h.next))
  BY DEF Acts, Hears

\* A host that steps has still heard only what was sent.
LEMMA HeardAfter ==
    ASSUME NEW h, Stable(h), NEW s, Stable(s), Heard(h, s),
           NEW k, Acts(h, k) \/ Hears(h, k, s), k.attached => k.open
    PROVE  Heard(k, s)
  BY HeardActing, HeardHearing

\* Emptying out changes nothing that was heard.
LEMMA HeardSame ==
    ASSUME NEW h, HasFields(h), NEW s, Heard(h, s), NEW k, Same(h, k, {"out"})
    PROVE  Heard(k, s)
<1>1. /\ k.taken = h.taken /\ k.delivered = h.delivered /\ k.outputs = h.outputs
      /\ k.attached = h.attached /\ k.done = h.done
  BY FieldsThere DEF Same
<1>2. Handed(k) = Handed(h)
  BY <1>1 DEF Handed
<1> QED BY <1>1, <1>2 DEF Heard

\* A turn of one host preserves the invariant of both.
LEMMA TurnKeeps ==
    ASSUME IInv, NEW p \in Hosts, NEW k, Turn(p, k)
    PROVE  IInv'
<1> DEFINE q == Peer(p)
           h == host[p]
           s == host[q]
           m == [k EXCEPT !.out = {}]
<1>1. q \in Hosts /\ q # p /\ Peer(q) = p /\ \A r \in Hosts : r = p \/ r = q
  BY TwoHosts
<1>2. /\ Stable(h) /\ h.out = {} /\ Role(p, h) /\ Heard(h, s)
      /\ Stable(s) /\ s.out = {} /\ Role(q, s) /\ Heard(s, h)
      /\ \A b \in OnWay(p) : WireOf(s, b)
      /\ \A b \in OnWay(q) : WireOf(h, b)
  BY <1>1 DEF IInv
<1>3. Sane(p, h, k, s)
  BY DEF Turn
<1>4. Stable(k) /\ Role(p, k) /\ (Acts(h, k) \/ Hears(h, k, s))
  BY <1>3 DEF Sane
<1>5. /\ DOMAIN host' = Hosts /\ host'[p] = m /\ host'[q] = s
      /\ DOMAIN net' = Hosts /\ OnWay(p)' \subseteq OnWay(p) /\ OnWay(q)' = OnWay(q) \union k.out
  BY <1>1 DEF Turn, IInv
<1>6. /\ Stable(m) /\ m.out = {} /\ Same(k, m, {"out"}) /\ SameNumbers(k, m)
      /\ (ClientInv(k) => ClientInv(m)) /\ (ServerInv(k) => ServerInv(m))
  BY <1>4, Cleared
<1>7. HasFields(k) /\ Typed(k) /\ Typed(m) /\ Typed(h)
  BY <1>2, <1>4, <1>6, StableMeans
<1> HIDE DEF m
<1>8. m.taken = k.taken /\ m.sent = k.sent /\ m.accepted = k.accepted
  BY <1>6, <1>7, FieldsThere DEF Same
<1>9. Role(p, m)
  BY <1>4, <1>6 DEF Role
<1>10. k.attached => k.open
  BY <1>4 DEF Role, Hosts, ClientInv, ServerInv
<1>11. Heard(m, s)
  BY <1>2, <1>4, <1>6, <1>7, <1>10, HeardAfter, HeardSame
<1>12. Grows(h, k) /\ (k.sent = h.sent \/ k.sent = Append(h.sent, h.next))
  BY <1>4, GrowsOf
<1>13. Grows(k, m) /\ Grows(h, m)
  BY <1>6, <1>7, <1>12, SameNumbersGrows, GrowsThen
<1>14. Heard(s, m)
  BY <1>2, <1>6, <1>8, <1>12, <1>13, HeardPeer
<1>15. \A b \in OnWay(p)' : WireOf(s, b)
  BY <1>2, <1>5
<1>16. \A b \in OnWay(q)' : WireOf(m, b)
  <2> SUFFICES ASSUME NEW b \in OnWay(q)' PROVE WireOf(m, b)
    OBVIOUS
  <2>1. CASE b \in OnWay(q)
    BY <1>2, <1>7, <1>13, <2>1, WireLater
  <2>2. CASE b \in k.out
    <3>1. WireOf(k, b)
      BY <1>4, <2>2 DEF Stable, Sound
    <3> QED BY <1>7, <1>13, <3>1, WireLater
  <2> QED BY <1>5, <2>1, <2>2
<1> DEFINE Crossed == /\ Cross(host'["client"], host'["server"])
                      /\ ~ host'["server"].accepted =>
                           \A b \in OnWay("client")' : Decode(b).seq = 0
<1>17. ASSUME p = "client" PROVE Crossed
  <2>1. q = "server"
    BY <1>17 DEF Peer
  <2>2. Cross(k, s) /\ Cross(h, s)
    BY <1>3, <1>17, <2>1 DEF Sane, IInv
  <2>3. Cross(m, s)
    BY <1>8, <2>2 DEF Cross
  <2>4. ~ s.accepted => \A b \in OnWay("client")' : Decode(b).seq = 0
    BY <1>5, <1>17, <2>1 DEF IInv
  <2> QED BY <1>5, <1>17, <2>1, <2>3, <2>4
<1>18. ASSUME p = "server" PROVE Crossed
  <2>1. q = "client"
    BY <1>18 DEF Peer
  <2>2. Cross(s, h) /\ (h.accepted => k.accepted) /\ (k.accepted => s.taken # {})
        /\ (~ k.accepted => Puts(h, k, {0}))
    BY <1>3, <1>18, <2>1 DEF Sane, IInv
  <2>3. Cross(s, m)
    BY <1>8, <1>12, <2>2 DEF Cross, Grows
  <2>4. ASSUME ~ m.accepted, NEW b \in OnWay("client")' PROVE Decode(b).seq = 0
    <3>1. ~ k.accepted /\ ~ h.accepted
      BY <1>8, <2>2, <2>4
    <3>2. CASE b \in OnWay("client")
      BY <1>18, <3>1, <3>2 DEF IInv
    <3>3. CASE b \in k.out
      <4>1. PICK d \in Datagrams : b = Encode(0, d) /\ d.seq \in {0}
        BY <1>2, <2>2, <3>1, <3>3 DEF Puts
      <4> QED BY <4>1, Decoded
    <3> QED BY <1>5, <2>1, <2>4, <3>2, <3>3
  <2> QED BY <1>5, <1>18, <2>1, <2>3, <2>4
<1>19. Crossed
  BY <1>17, <1>18 DEF Hosts
<1>20. \A r \in Hosts : /\ Stable(host'[r]) /\ host'[r].out = {} /\ Role(r, host'[r])
                        /\ Heard(host'[r], host'[Peer(r)])
                        /\ \A b \in OnWay(r)' : WireOf(host'[Peer(r)], b)
  BY <1>1, <1>2, <1>5, <1>6, <1>9, <1>11, <1>14, <1>15, <1>16
<1>21. /\ DOMAIN host' = Hosts /\ DOMAIN net' = Hosts
  BY <1>5
<1> QED BY <1>19, <1>20, <1>21 DEF IInv
-----------------------------------------------------------------------------
(* Every action is a turn of a host.                                       *)

\* A Step of the model whose host may follow is a turn.
LEMMA StepTurn ==
    ASSUME IInv, NEW p \in Hosts, NEW k, Step(p, k),
           Stable(k), Role(p, k), Acts(host[p], k),
           p = "server" => /\ host[p].accepted => k.accepted
                           /\ k.accepted => host[p].accepted
                           /\ ~ k.accepted => Puts(host[p], k, {0})
    PROVE  Turn(p, k)
<1> DEFINE h == host[p]
           s == host[Peer(p)]
<1>1. Peer(p) \in Hosts /\ Peer(p) # p
  BY TwoHosts
<1>2. p = "client" => Cross(k, s)
  <2> SUFFICES ASSUME p = "client" PROVE Cross(k, s)
    OBVIOUS
  <2>1. Cross(h, s) /\ k.taken = h.taken
    BY DEF IInv, Peer, Acts
  <2> QED BY <2>1 DEF Cross
<1>3. p = "server" => (k.accepted => s.taken # {})
  <2> SUFFICES ASSUME p = "server", k.accepted PROVE s.taken # {}
    OBVIOUS
  <2> QED BY DEF IInv, Peer, Cross
<1>4. Sane(p, h, k, s)
  BY <1>2, <1>3 DEF Sane
<1>5. host' = [host EXCEPT ![p] = [k EXCEPT !.out = {}]]
  BY DEF Step, Becomes
<1>6. net' = [net EXCEPT ![Peer(p)] = Posted(@, k.out)]
  BY DEF Step
<1>7. DOMAIN net = Hosts
  BY DEF IInv
<1>8. /\ DOMAIN net' = Hosts /\ OnWay(p)' \subseteq OnWay(p)
      /\ OnWay(Peer(p))' = OnWay(Peer(p)) \union k.out
  BY <1>1, <1>6, <1>7, PostedAdds DEF OnWay
<1> QED BY <1>4, <1>5, <1>8 DEF Turn

\* A turn of a host that sends nothing, its socket not accepted by it.
LEMMA QuietTurn ==
    ASSUME IInv, NEW p \in Hosts, NEW k, Step(p, k),
           Stable(k), Role(p, k), Acts(host[p], k), k.accepted = host[p].accepted,
           k.out = host[p].out
    PROVE  Turn(p, k)
<1>1. Puts(host[p], k, {0})
  BY DEF Puts
<1> QED BY <1>1, StepTurn

\* What the invariant says of one host.
LEMMA OfHost ==
    ASSUME IInv, NEW p \in Hosts
    PROVE  /\ Stable(host[p]) /\ host[p].out = {} /\ Role(p, host[p])
           /\ p = "client" => ClientInv(host[p])
           /\ p = "server" => ServerInv(host[p])
           /\ p \in {"client", "server"}
  BY DEF IInv, Role, Hosts

\* The user's calls are turns: async_accept,
LEMMA AcceptTurn ==
    ASSUME IInv, Accept
    PROVE  Turn("server", AsyncAccept(host["server"]))
<1> DEFINE h == host["server"]
           k == AsyncAccept(h)
<1>1. Stable(h) /\ ServerInv(h) /\ "server" \in Hosts
  BY OfHost DEF Hosts
<1>2. Step("server", k) /\ h.failed = "no" /\ h.conn = "closed" /\ h.history = {}
  BY DEF Accept, MayAccept, Step
<1>3. Stable(k) /\ Acts(h, k) /\ ServerInv(k) /\ k.accepted = h.accepted /\ k.out = h.out
  BY <1>1, <1>2, AcceptStep
<1> HIDE DEF k
<1>9. Turn("server", k)
  BY <1>1, <1>2, <1>3, QuietTurn DEF Role
<1> QED BY <1>9 DEF k

\* async_connect,
LEMMA ConnectTurn ==
    ASSUME IInv, Connect
    PROVE  Turn("client", AsyncConnect(host["client"]))
<1> DEFINE h == host["client"]
           k == AsyncConnect(h)
<1>1. Stable(h) /\ ClientInv(h) /\ "client" \in Hosts
  BY OfHost DEF Hosts
<1>2. /\ Step("client", k) /\ h.failed = "no" /\ h.next <= MaxNumber
      /\ h.conn = "closed" /\ h.attached
  BY DEF Connect, MayConnect, Step
<1>3. Stable(k) /\ Acts(h, k) /\ ClientInv(k)
  BY <1>1, <1>2, ConnectStep
<1> HIDE DEF k
<1>9. Turn("client", k)
  BY <1>1, <1>2, <1>3, StepTurn DEF Role
<1> QED BY <1>9 DEF k

\* Whose user knows that he is connected has taken a packet.
LEMMA ConnectedMeans ==
    ASSUME IInv, NEW p \in Hosts, Connected(p), host[p].attached, host[p].failed = "no"
    PROVE  /\ host[p].open /\ host[p].taken # {} /\ host[p].conn = "established"
           /\ p = "server" => host[p].accepted
<1>1. CASE p = "client"
  <2>1. ClientInv(host[p]) /\ host[p].connected
    BY <1>1, OfHost DEF Connected, ClientInv
  <2> QED BY <1>1, <2>1 DEF ClientInv, Untouched
<1>2. CASE p = "server"
  <2>1. ServerInv(host[p]) /\ host[p].accepted
    BY <1>2, OfHost DEF Connected, ServerInv
  <2>2. host[p].taken # {}
    BY <1>2, <2>1 DEF IInv, Cross
  <2> QED BY <2>1, <2>2 DEF ServerInv
<1> QED BY <1>1, <1>2 DEF Hosts

\* async_send,
LEMMA SendTurn ==
    ASSUME IInv, NEW p \in Hosts, Send(p)
    PROVE  Turn(p, AsyncSend(host[p]))
<1> DEFINE h == host[p]
           k == AsyncSend(h)
<1>1. Step(p, k) /\ h.failed = "no" /\ h.next <= MaxNumber /\ Connected(p) /\ h.attached
  BY DEF Send, MaySend, Step
<1>2. /\ h.open /\ h.taken # {} /\ h.conn = "established"
      /\ p = "server" => h.accepted
  BY <1>1, ConnectedMeans
<1>3. /\ Stable(k) /\ Acts(h, k)
      /\ ClientInv(h) /\ h.conn = "established" => ClientInv(k)
      /\ ServerInv(h) /\ h.accepted => ServerInv(k)
      /\ k.accepted = h.accepted
  BY <1>1, <1>2, OfHost, SendStep
<1> HIDE DEF k
<1>4. Role(p, k)
  BY <1>2, <1>3, OfHost DEF Role
<1>9. Turn(p, k)
  BY <1>1, <1>2, <1>3, <1>4, StepTurn
<1> QED BY <1>9 DEF k

\* async_receive,
LEMMA ReceiveTurn ==
    ASSUME IInv, NEW p \in Hosts, Receive(p)
    PROVE  Turn(p, AsyncReceive(host[p]))
<1> DEFINE h == host[p]
           k == AsyncReceive(h)
<1>1. Step(p, k) /\ h.failed = "no" /\ Connected(p) /\ h.attached
  BY DEF Receive, MayReceive, Step
<1>2. h.open /\ h.conn # "closed"
  BY <1>1, ConnectedMeans
<1>3. /\ Stable(k) /\ Acts(h, k)
      /\ (ClientInv(h) => ClientInv(k)) /\ (ServerInv(h) => ServerInv(k))
      /\ k.accepted = h.accepted /\ k.out = h.out
  BY <1>1, <1>2, OfHost, ReceiveStep
<1> HIDE DEF k
<1>4. Role(p, k)
  BY <1>3, OfHost DEF Role
<1>9. Turn(p, k)
  BY <1>1, <1>3, <1>4, QuietTurn
<1> QED BY <1>9 DEF k

\* close().
LEMMA CloseTurn ==
    ASSUME IInv, NEW p \in Hosts, Step(p, Close(host[p]))
    PROVE  Turn(p, Close(host[p]))
<1> DEFINE h == host[p]
           k == Close(h)
<1>1. Step(p, k)
  OBVIOUS
<1>2. /\ Stable(k) /\ Acts(h, k)
      /\ (ClientInv(h) => ClientInv(k)) /\ (ServerInv(h) => ServerInv(k))
      /\ k.accepted = h.accepted /\ k.out = h.out
  BY OfHost, CloseStep
<1> HIDE DEF k
<1>3. Role(p, k)
  BY <1>2, OfHost DEF Role
<1>9. Turn(p, k)
  BY <1>1, <1>2, <1>3, QuietTurn
<1> QED BY <1>9 DEF k

\* So is the timer of the queue,
LEMMA TickTurn ==
    ASSUME IInv, NEW p \in Hosts, Tick(p)
    PROVE  Turn(p, Queued(host[p], Ticked(host[p].queue)))
<1> DEFINE h == host[p]
           k == Queued(h, Ticked(h.queue))
<1>1. Step(p, k) /\ h.failed = "no"
  BY DEF Tick, Step
<1>2. /\ Stable(k) /\ Acts(h, k)
      /\ (ClientInv(h) => ClientInv(k)) /\ (ServerInv(h) => ServerInv(k))
      /\ k.accepted = h.accepted
      /\ ServerInv(h) /\ ~ h.accepted => Puts(h, k, {0})
  BY <1>1, OfHost, TickStep
<1> HIDE DEF k
<1>3. Role(p, k)
  BY <1>2, OfHost DEF Role
<1>9. Turn(p, k)
  BY <1>1, <1>2, <1>3, OfHost, StepTurn
<1> QED BY <1>9 DEF k

\* the completion of one of its steps,
LEMMA StepCompletesTurn ==
    ASSUME IInv, NEW p \in Hosts, NEW n \in NumberSet, StepCompletes(p, n)
    PROVE  Turn(p, Completes(host[p], n))
<1> DEFINE h == host[p]
           k == Completes(h, n)
<1>1. Step(p, k) /\ h.failed = "no" /\ h.queue.flying[n] > 0
  BY DEF StepCompletes, Step, Completes
<1>2. /\ Stable(k)
      /\ (ClientInv(h) => ClientInv(k) /\ Acts(h, k))
      /\ (ServerInv(h) => ServerInv(k) /\ Acts(h, k))
      /\ k.accepted = h.accepted /\ k.out = h.out
  BY <1>1, OfHost, StepCompletesStep
<1> HIDE DEF k
<1>3. Role(p, k) /\ Acts(h, k)
  BY <1>2, OfHost DEF Role
<1>9. Turn(p, k)
  BY <1>1, <1>2, <1>3, QuietTurn
<1> QED BY <1>9 DEF k

\* also with an error,
LEMMA StepFailsTurn ==
    ASSUME IInv, NEW p \in Hosts, NEW n \in NumberSet, StepFails(p, n)
    PROVE  \E k : Turn(p, k)
<1> DEFINE h == host[p]
           m == [h EXCEPT !.queue = Completed(@, n, TRUE)]
           k == IF \E e \in m.handshakes : e.seq = n THEN Fail(m, "send_handshake")
                ELSE OperationHandler(m, n, TRUE)
<1>1. Step(p, k) /\ h.failed = "no" /\ h.queue.flying[n] > 0
  BY DEF StepFails, Step
<1>2. Stable(h) /\ HasFields(h)
  BY OfHost, StableMeans
<1>3. Same(h, k, {"queue", "failed"}) /\ k.queue = m.queue
  BY <1>2, FieldsThere DEF Same, Fail, OperationHandler
<1>4. m.queue = Completed(h.queue, n, TRUE)
  BY <1>2, FieldsThere
<1> HIDE DEF m, k
<1>5. QueueOf(h, h.queue)
  BY <1>2 DEF Stable, Sound
<1>6. /\ QueueOf(h, k.queue) /\ k.queue.open = h.queue.open
      /\ Indices(k.queue) = Indices(h.queue)
  <2> DEFINE r == Completed(h.queue, n, TRUE)
  <2>0. ASSUME NEW e
        PROVE /\ QueueOf(h, Completed(h.queue, n, e))
              /\ Completed(h.queue, n, e).open = h.queue.open
              /\ Indices(Completed(h.queue, n, e)) = Indices(h.queue)
    BY <1>1, <1>5, CompletedOf
  <2>1. QueueOf(h, r) /\ r.open = h.queue.open /\ Indices(r) = Indices(h.queue)
    BY <2>0, Zenon
  <2>2. k.queue = r
    BY <1>3, <1>4, Zenon
  <2> HIDE DEF r
  <2> QED BY <2>1, <2>2
<1>7. /\ Stable(k) /\ Acts(h, k)
      /\ (ClientInv(h) => ClientInv(k)) /\ (ServerInv(h) => ServerInv(k))
      /\ k.accepted = h.accepted /\ k.out = h.out
  BY <1>1, <1>2, <1>3, <1>6, FailsStep
<1>8. Role(p, k)
  BY <1>7, OfHost DEF Role
<1>9. Turn(p, k)
  BY <1>1, <1>7, <1>8, QuietTurn
<1> QED BY <1>9

\* that of the client's keepalive,
LEMMA ConfirmationTurn ==
    ASSUME IInv, NEW p \in Hosts, ConfirmationSent(p)
    PROVE  Turn(p, ConfirmSent(host[p]))
<1> DEFINE h == host[p]
           k == ConfirmSent(h)
<1>1. Step(p, k) /\ h.failed = "no" /\ h.confirming > 0
  BY DEF ConfirmationSent, Step
<1>2. p = "client" /\ ClientInv(h)
  BY <1>1, OfHost DEF ServerInv
<1>3. Stable(k) /\ Acts(h, k) /\ ClientInv(k)
  BY <1>1, <1>2, OfHost, ConfirmStep
<1> HIDE DEF k
<1>9. Turn(p, k)
  BY <1>1, <1>2, <1>3, StepTurn DEF Role
<1> QED BY <1>9 DEF k

\* with an error or not,
LEMMA ConfirmationFailsTurn ==
    ASSUME IInv, NEW p \in Hosts, ConfirmationFails(p)
    PROVE  \E k : Turn(p, k)
<1> DEFINE h == host[p]
           k == Fail(h, "send_keepalive")
<1>1. Step(p, k) /\ h.failed = "no"
  BY DEF ConfirmationFails, Step
<1>2. Stable(h) /\ HasFields(h) /\ QueueOf(h, h.queue)
  BY OfHost, StableMeans DEF Stable, Sound
<1>3. Same(h, k, {"queue", "failed"}) /\ k.queue = h.queue
  BY <1>2, FieldsThere DEF Same, Fail
<1> HIDE DEF k
<1>4. /\ Stable(k) /\ Acts(h, k)
      /\ (ClientInv(h) => ClientInv(k)) /\ (ServerInv(h) => ServerInv(k))
      /\ k.accepted = h.accepted /\ k.out = h.out
  BY <1>1, <1>2, <1>3, FailsStep
<1>5. Role(p, k)
  BY <1>4, OfHost DEF Role
<1> QED BY <1>1, <1>4, <1>5, QuietTurn

\* a posted receive,
LEMMA ReceiveJobTurn ==
    ASSUME IInv, NEW p \in Hosts, ReceiveJob(p)
    PROVE  Turn(p, RunReceiveJob(host[p]))
<1> DEFINE h == host[p]
           k == RunReceiveJob(h)
<1>1. Step(p, k) /\ h.failed = "no"
  BY DEF ReceiveJob, Step
<1>2. /\ Stable(k) /\ Acts(h, k)
      /\ (ClientInv(h) => ClientInv(k)) /\ (ServerInv(h) => ServerInv(k))
      /\ k.accepted = h.accepted /\ k.out = h.out
  BY <1>1, OfHost, ReceiveJobStep
<1> HIDE DEF k
<1>3. Role(p, k)
  BY <1>2, OfHost DEF Role
<1>9. Turn(p, k)
  BY <1>1, <1>2, <1>3, QuietTurn
<1> QED BY <1>9 DEF k

\* and the handler of an operation given up.
LEMMA RunAbortTurn ==
    ASSUME IInv, NEW p \in Hosts, NEW n \in NumberSet, RunAbort(p, n)
    PROVE  Turn(p, Aborts(host[p], n))
<1> DEFINE h == host[p]
           k == Aborts(h, n)
<1>1. Step(p, k) /\ h.failed = "no" /\ n \in h.aborts
  BY DEF RunAbort, Step, Aborts
<1>2. /\ Stable(k) /\ Acts(h, k)
      /\ (ClientInv(h) => ClientInv(k)) /\ (ServerInv(h) => ServerInv(k))
      /\ k.accepted = h.accepted /\ k.out = h.out
  BY <1>1, OfHost, RunAbortStep
<1> HIDE DEF k
<1>3. Role(p, k)
  BY <1>2, OfHost DEF Role
<1>9. Turn(p, k)
  BY <1>1, <1>2, <1>3, QuietTurn
<1> QED BY <1>9 DEF k

\* A datagram of the server makes a turn of the client,
LEMMA ClientHears ==
    ASSUME NEW c, Stable(c), ClientInv(c), c.failed = "no", c.next <= MaxNumber,
           c.open, c.peeks > 0, NEW s, Stable(s), ServerInv(s), Heard(s, c), Cross(c, s),
           NEW d, SentPacket(s, d), ~ s.accepted => d.seq = 0
    PROVE  Sane("client", c, ProcessPeek(c, d), s)
<1> DEFINE k == ProcessPeek(c, d)
<1>1. c.conn # "closed"
  BY DEF ClientInv, Untouched
<1>2. \A n \in s.taken : n < c.next
  BY DEF Heard
<1>3. Fits(c, d)
  BY <1>1, <1>2, ClientFits DEF Cross
<1>4. /\ Stable(k) /\ ClientInv(k) /\ Hears(c, k, s)
      /\ k.taken = c.taken \/ k.taken = c.taken \union {d.seq}
  BY <1>3, ClientArrives
<1> HIDE DEF k
<1>5. s.taken # {}
  <2>1. PICK m \in s.handshakes : m.seq = 0
    BY PacketMeans DEF Shakes
  <2>2. m.ack # NoAck
    BY DEF ServerInv, ServerShakes
  <2> QED BY <2>2 DEF Stable, Sound, Numbered
<1>6. Cross(k, s)
  BY <1>4, <1>5 DEF Cross
<1>7. Sane("client", c, k, s)
  BY <1>4, <1>6 DEF Sane, Role
<1> QED BY <1>7 DEF k

\* and one of the client a turn of the server.
LEMMA ServerHears ==
    ASSUME NEW s, Stable(s), ServerInv(s), s.failed = "no", s.next <= MaxNumber,
           s.open, s.peeks > 0, s.out = {}, NEW c, Stable(c), ClientInv(c), Cross(c, s),
           NEW d, SentPacket(c, d)
    PROVE  Sane("server", s, ProcessPeek(s, d), c)
<1> DEFINE k == ProcessPeek(s, d)
<1>1. s.attached
  BY DEF ServerInv, Untouched
<1>2. Fits(s, d)
  BY <1>1, ServerFits DEF Cross
<1>3. s.accepted => s.taken # {}
  BY DEF Cross
<1>4. /\ Stable(k) /\ ServerInv(k) /\ Hears(s, k, c)
      /\ s.accepted => k.accepted
      /\ k.accepted => s.accepted \/ c.taken # {}
      /\ ~ k.accepted => Puts(s, k, {0})
  BY <1>2, <1>3, ServerArrives
<1> HIDE DEF k
<1>5. k.accepted => c.taken # {}
  BY <1>4 DEF Cross
<1>6. Sane("server", s, k, c)
  BY <1>4, <1>5 DEF Sane, Role
<1> QED BY <1>6 DEF k

\* So is every datagram that arrives.
LEMMA ArriveTurn ==
    ASSUME IInv, NEW p \in Hosts, NEW b \in OnWay(p), Arrive(p, b)
    PROVE  Turn(p, ProcessPeek(host[p], Decode(b)))
<1> DEFINE h == host[p]
           q == Peer(p)
           s == host[q]
<1>1. q \in Hosts /\ q # p
  BY TwoHosts
<1>2. /\ h.open /\ h.peeks > 0 /\ h.failed = "no" /\ h.next <= MaxNumber
      /\ host' = [host EXCEPT ![p] = [ProcessPeek(h, Decode(b)) EXCEPT !.out = {}]]
      /\ net' = [net EXCEPT ![p] = IF Lossy THEN @ ELSE @ (-) SetToBag({b}),
                            ![q] = Posted(@, ProcessPeek(h, Decode(b)).out)]
  BY DEF Arrive, Reads, Becomes
<1>3. PICK d \in Datagrams : b = Encode(0, d) /\ SentPacket(s, d)
  BY DEF IInv, WireOf
<1>4. Decode(b) = d
  BY <1>3, Decoded
<1>5. /\ Stable(h) /\ h.out = {} /\ Role(p, h) /\ Stable(s) /\ Role(q, s) /\ Heard(s, h)
  BY <1>1, TwoHosts DEF IInv
<1> DEFINE k == ProcessPeek(h, d)
<1>6. ASSUME p = "client" PROVE Sane(p, h, k, s)
  <2>1. q = "server"
    BY <1>6 DEF Peer
  <2>2. ClientInv(h) /\ ServerInv(s)
    BY <1>5, <1>6, <2>1 DEF Role
  <2>3. Cross(h, s) /\ (~ s.accepted => d.seq = 0)
    BY <1>4, <1>6, <2>1 DEF IInv
  <2>4. Sane("client", h, k, s)
    BY <1>2, <1>3, <1>5, <2>2, <2>3, ClientHears
  <2> QED BY <1>6, <2>4
<1>7. ASSUME p = "server" PROVE Sane(p, h, k, s)
  <2>1. q = "client"
    BY <1>7 DEF Peer
  <2>2. ServerInv(h) /\ ClientInv(s)
    BY <1>5, <1>7, <2>1 DEF Role
  <2>3. Cross(s, h)
    BY <1>7, <2>1 DEF IInv
  <2>4. Sane("server", h, k, s)
    BY <1>2, <1>3, <1>5, <2>2, <2>3, ServerHears
  <2> QED BY <1>7, <2>4
<1>8. Sane(p, h, k, s)
  BY <1>6, <1>7 DEF Hosts
<1>9. /\ host' = [host EXCEPT ![p] = [k EXCEPT !.out = {}]]
      /\ net' = [net EXCEPT ![p] = IF Lossy THEN @ ELSE @ (-) SetToBag({b}),
                            ![q] = Posted(@, k.out)]
  BY <1>2, <1>4
<1> HIDE DEF k
<1>10. DOMAIN net = Hosts
  BY DEF IInv
<1>11. DOMAIN net' = Hosts /\ OnWay(p)' \subseteq OnWay(p) /\ OnWay(q)' = OnWay(q) \union k.out
  BY <1>1, <1>9, <1>10, PostedAdds, OneDrops DEF OnWay
<1>12. Turn(p, k)
  BY <1>8, <1>9, <1>11 DEF Turn
<1> QED BY <1>4, <1>12 DEF k
-----------------------------------------------------------------------------
\* Every action is a turn of one host.
LEMMA NextTurns ==
    ASSUME IInv, Next
    PROVE  \E p \in Hosts : \E k : Turn(p, k)
<1>1. NumberSet = 0 .. MaxNumber
  BY DEF NumberSet
<1>2. CASE Accept
  BY <1>2, AcceptTurn DEF Hosts
<1>3. CASE Connect
  BY <1>3, ConnectTurn DEF Hosts
<1>4. CASE \E p \in Hosts : Send(p) \/ Receive(p)
  BY <1>4, SendTurn, ReceiveTurn
<1>5. CASE \E p \in Hosts : Service(p)
  <2>1. PICK p \in Hosts : Service(p)
    BY <1>5
  <2>2. CASE \E b \in OnWay(p) : Arrive(p, b)
    BY <2>2, ArriveTurn
  <2>3. CASE \E n \in 0 .. MaxNumber :
               StepCompletes(p, n) \/ StepFails(p, n) \/ RunAbort(p, n)
    BY <1>1, <2>3, StepCompletesTurn, StepFailsTurn, RunAbortTurn
  <2>4. CASE ConfirmationSent(p) \/ ConfirmationFails(p) \/ ReceiveJob(p) \/ Tick(p)
    BY <2>4, ConfirmationTurn, ConfirmationFailsTurn, ReceiveJobTurn, TickTurn
  <2> QED BY <2>1, <2>2, <2>3, <2>4 DEF Service
<1>6. CASE \E p \in Hosts : UserCloses(p) \/ KeepaliveTimeout(p)
  <2>1. PICK p \in Hosts : Step(p, Close(host[p]))
    BY <1>6 DEF UserCloses, KeepaliveTimeout
  <2> QED BY <2>1, CloseTurn
<1> QED BY <1>2, <1>3, <1>4, <1>5, <1>6 DEF Next, Users

\* A host that has done nothing is stable.
LEMMA FreshMeans ==
    ASSUME NEW a \in BOOLEAN
    PROVE  LET h == [Fresh EXCEPT !.attached = a]
           IN  /\ Stable(h) /\ h.out = {} /\ Untouched(h)
               /\ h.conn = "closed" /\ h.attached = a /\ h.open /\ h.queue.open
               /\ h.handshakes = {} /\ h.sent = <<>> /\ ~ h.accepting /\ ~ h.mapped
               /\ h.delivered = <<>> /\ h.outputs = <<>> /\ h.done = {} /\ ~ h.accepted
<1> DEFINE h == [Fresh EXCEPT !.attached = a]
           q == EmptyQueue(0 .. MaxNumber)
<1>1. IsQueue(q, NumberSet) /\ Indices(q) = {} /\ q.open
  BY DEF EmptyQueue, IsQueue, Indices, Queues, NumberSet
<1>2. \A n \in NumberSet : q.flying[n] = 0
  BY DEF EmptyQueue, NumberSet
<1> HIDE DEF q
<1>3. DOMAIN h = Fields
  BY DEF Fresh, Fields
<1>4. /\ h.conn = "closed" /\ h.attached = a /\ h.next = 0 /\ h.history = {}
      /\ h.queue = q /\ h.handshakes = {} /\ h.receiving = FALSE /\ h.inputs = 0
      /\ h.outputs = <<>> /\ h.aborts = {} /\ h.confirming = 0
      /\ h.open = TRUE /\ h.mapped = FALSE /\ h.accepting = FALSE /\ h.calls = 0
      /\ h.peeks = 0 /\ h.out = {} /\ h.failed = "no" /\ h.connected = FALSE
      /\ h.accepted = FALSE /\ h.sent = <<>> /\ h.done = {} /\ h.delivered = <<>>
      /\ h.taken = {}
  BY DEF Fresh, q
<1> HIDE DEF h
<1>5. HasFields(h)
  BY <1>3 DEF HasFields
<1>6. Typed(h)
  BY <1>4, <1>5, NumberAssumption DEF Typed, Connectivity
<1>7. QueueOf(h, h.queue)
  BY <1>1, <1>2, <1>4, NumbersAreNaturals DEF QueueOf
<1>8. Numbered(h) /\ Whole(h)
  BY <1>4 DEF Numbered, Whole
<1>9. Sound(h)
  BY <1>4, <1>6, <1>7, <1>8 DEF Sound
<1>10. Untouched(h)
  BY <1>4 DEF Untouched
<1>11. Stable(h)
  <2>1. OneRead(h) /\ Waits(h) /\ ~ (h.next > 0) /\ h.peeks \in {0, 1}
    BY <1>4 DEF OneRead, Waits
  <2>2. h.open \in BOOLEAN /\ h.queue.open /\ Indices(h.queue) = {}
    BY <1>1, <1>4
  <2> QED BY <1>4, <1>8, <1>9, <2>1, <2>2 DEF Stable
<1> QED BY <1>1, <1>4, <1>10, <1>11 DEF h

\* Who has taken nothing has heard nothing.
LEMMA HeardFirst ==
    ASSUME NEW h, h.taken = {}, h.done = {}, h.delivered = <<>>, h.outputs = <<>>,
           NEW s, s.sent = <<>>
    PROVE  Heard(h, s)
<1>1. Handed(h) = <<>>
  BY DEF Handed
<1>2. Len(Handed(h)) = 0 /\ Len(s.sent) = 0 /\ DOMAIN Handed(h) = {} /\ DOMAIN s.sent = {}
  BY <1>1
<1> QED BY <1>2 DEF Heard

\* The invariant holds at first,
LEMMA InitHolds == Init => IInv
<1> SUFFICES ASSUME Init PROVE IInv
  OBVIOUS
<1> DEFINE c == host["client"]
           s == host["server"]
<1>1. DOMAIN host = Hosts /\ DOMAIN net = Hosts /\ \A p \in Hosts : OnWay(p) = {}
  BY DEF Init, OnWay, EmptyBag, SetToBag, BagToSet
<1>2. c = [Fresh EXCEPT !.attached = TRUE] /\ s = [Fresh EXCEPT !.attached = FALSE]
  BY DEF Init, Hosts
<1>3. /\ Stable(c) /\ c.out = {} /\ Untouched(c)
      /\ c.conn = "closed" /\ c.attached = TRUE /\ c.open /\ c.queue.open
      /\ c.handshakes = {} /\ c.sent = <<>> /\ ~ c.accepting /\ ~ c.mapped
      /\ c.delivered = <<>> /\ c.outputs = <<>> /\ c.done = {} /\ ~ c.accepted
  BY <1>2, FreshMeans
<1>4. /\ Stable(s) /\ s.out = {} /\ Untouched(s)
      /\ s.conn = "closed" /\ s.attached = FALSE /\ s.open /\ s.queue.open
      /\ s.handshakes = {} /\ s.sent = <<>> /\ ~ s.accepting /\ ~ s.mapped
      /\ s.delivered = <<>> /\ s.outputs = <<>> /\ s.done = {} /\ ~ s.accepted
  BY <1>2, FreshMeans
<1> HIDE DEF c, s
<1>5. ClientInv(c)
  <2>1. c.attached = c.open
    BY <1>3 DEF Stable
  <2> QED BY <1>3, <2>1 DEF ClientInv
<1>6. ServerInv(s)
  <2>1. ~ s.connected /\ s.confirming = 0
    BY <1>4 DEF Untouched
  <2> QED BY <1>4, <2>1 DEF ServerInv, ServerShakes
<1>7. Heard(c, s) /\ Heard(s, c)
  BY <1>3, <1>4, HeardFirst DEF Untouched
<1>8. Cross(c, s)
  BY <1>3, <1>4 DEF Cross, Untouched
<1>9. Role("client", c) /\ Role("server", s)
  BY <1>5, <1>6 DEF Role
<1>10. \A p \in Hosts : /\ Stable(host[p]) /\ host[p].out = {} /\ Role(p, host[p])
                        /\ Heard(host[p], host[Peer(p)])
  BY <1>3, <1>4, <1>7, <1>9 DEF Hosts, Peer, c, s
<1>11. "client" \in Hosts
  BY DEF Hosts
<1> QED BY <1>1, <1>8, <1>10, <1>11 DEF IInv, c, s

\* and every step preserves it.
LEMMA NextKeeps == IInv /\ [Next]_vars => IInv'
<1> SUFFICES ASSUME IInv, [Next]_vars PROVE IInv'
  OBVIOUS
<1>1. CASE Next
  BY <1>1, NextTurns, TurnKeeps
<1>2. CASE UNCHANGED vars
  BY <1>2 DEF vars, IInv, OnWay
<1> QED BY <1>1, <1>2

\* The invariant holds throughout: numbers are given once, what was taken has
\* no hole and was sent, and only one read is posted.
THEOREM IInvHolds == Spec => []IInv
  BY InitHolds, NextKeeps, PTL DEF Spec
-----------------------------------------------------------------------------
\* The invariant implies that the variables are of their types,
LEMMA InvType == IInv => TypeOK
<1> SUFFICES ASSUME IInv, NEW p \in Hosts
             PROVE  LET h == host[p]
                    IN  /\ h.conn \in Connectivity
                        /\ h.next \in 0 .. MaxNumber + 1
                        /\ h.history \subseteq NumberSet /\ h.taken \subseteq NumberSet
                        /\ Indices(h.queue) \subseteq NumberSet
                        /\ h.queue.flying \in [NumberSet -> Nat]
                        /\ h.calls \in 0 .. CallsModulus - 1 /\ h.peeks \in 0 .. 2
                        /\ h.out = {}
                        /\ \A b \in OnWay(p) : Decode(b) \in Datagrams
  BY DEF TypeOK
<1> DEFINE h == host[p]
<1>1. Stable(h) /\ h.out = {} /\ \A b \in OnWay(p) : WireOf(host[Peer(p)], b)
  BY DEF IInv
<1>2. Typed(h) /\ QueueOf(h, h.queue) /\ h.peeks \in {0, 1}
  BY <1>1 DEF Stable, Sound
<1>3. h.queue.flying \in [NumberSet -> Nat]
  BY <1>2 DEF QueueOf, IsQueue, Queues
<1>4. Indices(h.queue) \subseteq NumberSet
  BY <1>2 DEF QueueOf, IsQueue, Queues
<1>5. \A b \in OnWay(p) : Decode(b) \in Datagrams
  BY <1>1, Decoded DEF WireOf
<1>6. h.calls \in 0 .. CallsModulus - 1 /\ h.peeks \in 0 .. 2
  BY <1>2 DEF Typed, CallsModulus
<1> HIDE DEF h
<1> QED BY <1>1, <1>2, <1>3, <1>4, <1>5, <1>6 DEF Typed, h
-----------------------------------------------------------------------------
(* What a user of the connection relies on.                                *)

\* ... and what the runs check.
LEMMA InvSafe ==
    ASSUME IInv
    PROVE  /\ DeliveredInOrder /\ DoneMeansTaken /\ AcceptedMeansConnected
           /\ UnackedIsReading
<1>1. DeliveredInOrder
  <2> SUFFICES ASSUME NEW p \in Hosts
               PROVE  /\ Len(Handed(host[p])) <= Len(host[Peer(p)].sent)
                      /\ \A i \in 1 .. Len(Handed(host[p])) :
                           Handed(host[p])[i] \in {host[Peer(p)].sent[i], Garbled}
    BY DEF DeliveredInOrder, Handed
  <2>1. Stable(host[p]) /\ Heard(host[p], host[Peer(p)])
    BY DEF IInv
  <2>2. DOMAIN Handed(host[p]) = 1 .. Len(Handed(host[p]))
    BY <2>1, HandedOf
  <2> QED BY <2>1, <2>2 DEF Heard
<1>2. DoneMeansTaken
  BY DEF IInv, Heard, DoneMeansTaken
<1>3. AcceptedMeansConnected
  <2> DEFINE c == host["client"]
  <2> SUFFICES ASSUME host["server"].accepted PROVE c.connected /\ 0 \in c.taken
    BY DEF AcceptedMeansConnected
  <2>1. ClientInv(c)
    BY DEF IInv, Role, Hosts
  <2>2. c.taken # {}
    BY DEF IInv, Cross
  <2> QED BY <2>1, <2>2 DEF ClientInv, Untouched
<1>4. UnackedIsReading
  BY DEF IInv, Stable, UnackedIsReading
<1> QED BY <1>1, <1>2, <1>3, <1>4

\* The variables are of their types; no count of receives wraps
\* (socket_base, multiplexer::start_receive).
THEOREM TypeOKHolds == Spec => []TypeOK
  BY IInvHolds, InvType, PTL

\* What a socket has delivered or keeps for the next receive is what its peer
\* sent, in the order it was sent and without a gap, but for payloads read by
\* another packet (socket::process_data).
THEOREM DeliveredInOrderHolds == Spec => []DeliveredInOrder
<1>1. IInv => DeliveredInOrder
  BY InvSafe
<1> QED BY <1>1, IInvHolds, PTL

\* Nobody is told that a send is done before its peer has taken it
\* (socket::process_acknowledgement).
THEOREM DoneMeansTakenHolds == Spec => []DoneMeansTaken
<1>1. IInv => DoneMeansTaken
  BY InvSafe
<1> QED BY <1>1, IInvHolds, PTL

\* An acceptor that has accepted a socket is right that the peer is connected:
\* its answer was taken (acceptor::process_accept).
THEOREM AcceptedMeansConnectedHolds == Spec => []AcceptedMeansConnected
<1>1. IInv => AcceptedMeansConnected
  BY InvSafe
<1> QED BY <1>1, IInvHolds, PTL

\* A socket with unacknowledged datagrams is receiving, so that the
\* acknowledgement can come (transmit_queue, idempotent_start_receive).
THEOREM UnackedIsReadingHolds == Spec => []UnackedIsReading
<1>1. IInv => UnackedIsReading
  BY InvSafe
<1> QED BY <1>1, IInvHolds, PTL
-----------------------------------------------------------------------------
\* The sends whose user was told.
ToldOf(h) == {i \in DOMAIN h.sent : h.sent[i] \in h.done}

\* The step from h to k of an end whose peer is s, as Pipe says it.
Streamed(h, k, s) ==
    /\ k.open = h.open \/ (h.open /\ ~ k.open)
    /\ k.sent = h.sent \/ (h.open /\ \E d \in NumberSet : k.sent = Append(h.sent, d))
    /\ \/ Handed(k) = Handed(h)
       \/ /\ h.open /\ Len(Handed(h)) < Len(s.sent)
          /\ \E d \in {s.sent[Len(Handed(h)) + 1], Garbled} :
               Handed(k) = Append(Handed(h), d)
    /\ \/ Len(k.delivered) = Len(h.delivered)
       \/ /\ Len(k.delivered) = Len(h.delivered) + 1
          /\ Len(k.delivered) <= Len(Handed(k))
    /\ ToldOf(h) \subseteq ToldOf(k)
    /\ ToldOf(k) \subseteq DOMAIN h.sent
    /\ k.open => ToldOf(k) \ ToldOf(h) \subseteq DOMAIN Handed(s)

\* A step that takes no packet moves the pipe as Pipe says,
LEMMA ActsStreamed ==
    ASSUME NEW h, Stable(h), NEW k, Stable(k), Acts(h, k), NEW s
    PROVE  Streamed(h, k, s)
<1>1. /\ h.sent \in Seq(NumberSet) /\ Len(h.sent) \in Nat
      /\ DOMAIN h.sent = 1 .. Len(h.sent) /\ h.next \in Nat
      /\ k.sent \in Seq(NumberSet) /\ DOMAIN k.sent = 1 .. Len(k.sent)
      /\ Len(k.delivered) <= Len(Handed(k))
  BY HandedOf, StableMeans
<1>2. /\ k.open \in BOOLEAN /\ h.open \in BOOLEAN /\ (k.open => h.open)
      /\ Handed(k) = Handed(h)
      /\ Len(k.delivered) \in {Len(h.delivered), Len(h.delivered) + 1}
  BY DEF Acts, Stable
<1>3. k.open = h.open \/ (h.open /\ ~ k.open)
  BY <1>2
<1>4. h.next \notin h.done
  <2>1. \A n \in h.done : n < h.next
    BY DEF Stable, Sound, Numbered
  <2> QED BY <1>1, <2>1
<1> DEFINE Informs == /\ ToldOf(h) \subseteq ToldOf(k)
                      /\ ToldOf(k) \subseteq DOMAIN h.sent
                      /\ k.open => ToldOf(k) \ ToldOf(h) = {}
           Appends == k.sent = h.sent
                      \/ (h.open /\ \E d \in NumberSet : k.sent = Append(h.sent, d))
<1>5. ASSUME k.sent = h.sent PROVE Informs /\ Appends
  <2>1. h.done \subseteq k.done /\ (k.open => k.done = h.done)
    BY DEF Acts
  <2> QED BY <1>5, <2>1 DEF ToldOf
<1>6. ASSUME h.open, k.open, k.sent = Append(h.sent, h.next) PROVE Informs /\ Appends
  <2>1. k.done = h.done
    BY <1>6 DEF Acts
  <2>2. /\ Len(k.sent) = Len(h.sent) + 1 /\ k.sent[Len(h.sent) + 1] = h.next
        /\ \A i \in 1 .. Len(h.sent) : k.sent[i] = h.sent[i]
    BY <1>1, <1>6
  <2>3. h.next \in NumberSet
    BY <1>1, <2>2, ElementOfSeq
  <2>4. Appends
    BY <1>6, <2>3
  <2>5. ToldOf(k) = ToldOf(h)
    BY <1>1, <1>4, <2>1, <2>2 DEF ToldOf
  <2>6. ToldOf(h) \subseteq DOMAIN h.sent
    BY DEF ToldOf
  <2> QED BY <2>4, <2>5, <2>6
<1>7. Informs /\ Appends
  BY <1>5, <1>6 DEF Acts
<1>8. \/ Len(k.delivered) = Len(h.delivered)
      \/ /\ Len(k.delivered) = Len(h.delivered) + 1
         /\ Len(k.delivered) <= Len(Handed(k))
  BY <1>1, <1>2
<1>9. k.open => ToldOf(k) \ ToldOf(h) \subseteq DOMAIN Handed(s)
  BY <1>7
<1>10. Handed(k) = Handed(h)
  BY <1>2
<1> QED BY <1>3, <1>7, <1>8, <1>9, <1>10 DEF Streamed

\* and so does one that takes a packet.
LEMMA HearsStreamed ==
    ASSUME NEW h, Stable(h), NEW s, Stable(s), Heard(h, s), Heard(s, h),
           NEW k, Stable(k), Hears(h, k, s)
    PROVE  Streamed(h, k, s)
<1>1. /\ Len(k.delivered) <= Len(Handed(k))
      /\ DOMAIN Handed(s) = 1 .. Len(Handed(s)) /\ Len(Handed(s)) \in Nat
      /\ DOMAIN h.sent = 1 .. Len(h.sent)
  BY HandedOf
<1>2. /\ k.open = h.open /\ k.sent = h.sent /\ h.open /\ h.done \subseteq k.done
      /\ \A n \in k.done : n \in h.done \/ n \in s.taken
      /\ Len(k.delivered) \in {Len(h.delivered), Len(h.delivered) + 1}
  BY DEF Hears
<1>3. \/ Handed(k) = Handed(h)
      \/ /\ Len(Handed(h)) < Len(s.sent)
         /\ \E x \in {s.sent[Len(Handed(h)) + 1], Garbled} :
              Handed(k) = Append(Handed(h), x)
  BY HeardHearing
<1>4. ToldOf(h) \subseteq ToldOf(k) /\ ToldOf(k) \subseteq DOMAIN h.sent
  BY <1>2 DEF ToldOf
<1>5. ASSUME NEW i \in ToldOf(k), i \notin ToldOf(h) PROVE i \in DOMAIN Handed(s)
  <2>1. i \in DOMAIN h.sent /\ h.sent[i] \in s.taken
    BY <1>2, <1>5 DEF ToldOf
  <2>2. i <= Len(Handed(s))
    BY <2>1 DEF Heard
  <2> QED BY <1>1, <2>1, <2>2
<1> QED BY <1>1, <1>2, <1>3, <1>4, <1>5 DEF Streamed
-----------------------------------------------------------------------------
\* The pipe is empty at first,
LEMMA InitStreams == Init => Streams!Init
<1> SUFFICES ASSUME Init PROVE Streams!Init
  OBVIOUS
<1>1. IInv
  BY InitHolds
<1>2. \A p \in Hosts : host[p] = [Fresh EXCEPT !.attached = p = "client"]
  BY DEF Init
<1>3. \A p \in Hosts : /\ host[p].open = TRUE /\ host[p].sent = <<>>
                       /\ host[p].delivered = <<>> /\ host[p].outputs = <<>>
  <2> SUFFICES ASSUME NEW p \in Hosts
               PROVE  /\ host[p].open = TRUE /\ host[p].sent = <<>>
                      /\ host[p].delivered = <<>> /\ host[p].outputs = <<>>
    OBVIOUS
  <2> DEFINE h == host[p]
  <2>1. PICK a \in BOOLEAN : h = [Fresh EXCEPT !.attached = a]
    BY <1>2 DEF Hosts
  <2> HIDE DEF h
  <2>2. h.open = TRUE /\ h.sent = <<>> /\ h.delivered = <<>> /\ h.outputs = <<>>
    <3>1. h.open /\ h.sent = <<>> /\ h.delivered = <<>> /\ h.outputs = <<>> /\ Stable(h)
      BY <2>1, FreshMeans
    <3> QED BY <3>1 DEF Stable
  <2> QED BY <2>2 DEF h
<1>4. \A p \in Hosts : /\ host[p].delivered \o host[p].outputs = <<>>
                       /\ Len(host[p].delivered) = 0 /\ Told(p) = {}
  BY <1>3 DEF Told
<1> QED BY <1>3, <1>4 DEF Streams!Init, Streams!Ends, Hosts

\* a turn of a host is a step of the pipe,
LEMMA TurnStreams ==
    ASSUME IInv, NEW p \in Hosts, NEW k, Turn(p, k)
    PROVE  Streams!Next
<1> DEFINE q == Peer(p)
           h == host[p]
           s == host[q]
           m == [k EXCEPT !.out = {}]
<1>1. q \in Hosts /\ q # p /\ \A r \in Hosts : r = p \/ r = q
  BY TwoHosts
<1>2. Stable(h) /\ Stable(s) /\ Heard(h, s) /\ Heard(s, h)
  BY <1>1, TwoHosts DEF IInv
<1>3. Stable(k) /\ (Acts(h, k) \/ Hears(h, k, s))
  BY DEF Turn, Sane
<1>4. Streamed(h, k, s)
  BY <1>2, <1>3, ActsStreamed, HearsStreamed
<1>5. DOMAIN host' = Hosts /\ host'[p] = m /\ host'[q] = s
  BY <1>1 DEF Turn, IInv
<1>6. Same(k, m, {"out"}) /\ HasFields(k) /\ Stable(m)
  BY <1>3, Cleared, StableMeans
<1> HIDE DEF m
<1>7. /\ m.open = k.open /\ m.sent = k.sent /\ m.delivered = k.delivered
      /\ m.outputs = k.outputs /\ m.done = k.done
  BY <1>6, FieldsThere DEF Same
<1>8. Streamed(h, m, s)
  BY <1>4, <1>7 DEF Streamed, Handed, ToldOf
<1>9. Streams!Moves(p)
  BY <1>1, <1>5, <1>8
     DEF Streamed, Handed, ToldOf, Streams!Moves, Streams!Closes, Streams!Sends,
         Streams!Takes, Streams!Hands, Streams!Tells, Streams!Other, Streams!Ends,
         Told, Hosts, Peer
<1>10. Streams!Rests(q)
  BY <1>1, <1>5 DEF Streams!Rests, Told
<1>11. Streams!Streams
  <2>1. \A r \in Hosts : host'[r].open \in BOOLEAN
    BY <1>1, <1>2, <1>5, <1>6 DEF Stable
  <2> QED BY <2>1 DEF Streams!Streams, Streams!Ends, Hosts
<1>12. p \in Streams!Ends /\ Streams!Other(p) = q
  BY DEF Streams!Ends, Streams!Other, Hosts, Peer
<1> QED BY <1>9, <1>10, <1>11, <1>12 DEF Streams!Next

\* and every step is one, or leaves the pipe alone.
LEMMA NextStreams == IInv /\ [Next]_vars => [Streams!Next]_(Streams!pipe)
<1> SUFFICES ASSUME IInv, [Next]_vars PROVE [Streams!Next]_(Streams!pipe)
  OBVIOUS
<1>1. CASE Next
  BY <1>1, NextTurns, TurnStreams
<1>2. CASE UNCHANGED vars
  BY <1>2 DEF vars, Streams!pipe, Told
<1> QED BY <1>1, <1>2

\* The connection is a pipe in each direction: it implements Pipe, whatever the
\* network loses, repeats and reorders.
THEOREM Refines == Spec => ImplementsPipe
  BY IInvHolds, InitStreams, NextStreams, PTL DEF Spec, ImplementsPipe, Streams!Spec
-----------------------------------------------------------------------------
(* Data one way over a network that loses nothing: CalmInv is kept, and    *)
(* with it NoFailure, CallsCounted, ReadPosted and WaitingIsReading.       *)

\* A host counts e receives besides that of its socket, and may count one more.
Even(e, k) ==
    /\ e \in 0 .. 2 /\ e <= Sockets(k) + Acceptors(k) + 1
    /\ k.failed = "no" /\ k.calls = Reader(k) + e

\* The counted receives are those of a socket and an acceptor.
LEMMA ReaderIs ==
    ASSUME NEW h
    PROVE  /\ Reader(h) \in {0, 1} /\ (h.receiving => Reader(h) = 1)
           /\ (~ h.receiving => Reader(h) = 0)
  BY Zenon DEF Reader

\* What does not touch the counts keeps them even.
LEMMA EvenSame ==
    ASSUME NEW h, HasFields(h), NEW e, Even(e, h), NEW F, NEW k, Same(h, k, F),
           F \intersect {"receiving", "calls", "failed", "mapped", "accepting"} = {}
    PROVE  /\ Even(e, k) /\ HasFields(k) /\ k.receiving = h.receiving
           /\ k.mapped = h.mapped /\ k.accepting = h.accepting
<1>1. /\ k.receiving = h.receiving /\ k.calls = h.calls /\ k.failed = h.failed
      /\ k.mapped = h.mapped /\ k.accepting = h.accepting
  BY FieldsThere DEF Same
<1>2. Sockets(k) = Sockets(h) /\ Acceptors(k) = Acceptors(h) /\ Reader(k) = Reader(h)
  BY <1>1 DEF Sockets, Acceptors, Reader
<1>3. HasFields(k)
  BY SameHas
<1> QED BY <1>1, <1>2, <1>3 DEF Even

\* A socket that starts to receive is counted once.
LEMMA EvenStart ==
    ASSUME NEW h, HasFields(h), NEW e, Even(e, h)
    PROVE  LET k == IdempotentStartReceive(h)
           IN  /\ Even(e, k) /\ k.receiving /\ HasFields(k) /\ Restarts(h, k)
               /\ k.mapped = h.mapped /\ k.accepting = h.accepting
<1> DEFINE k == IdempotentStartReceive(h)
<1>1. Sockets(h) \in {0, 1} /\ Acceptors(h) \in {0, 1} /\ Reader(h) \in {0, 1}
  BY Receivers, ReaderIs
<1>2. h.calls \in 0 .. 15
  BY <1>1 DEF Even
<1>3. Restarts(h, k) /\ k.receiving
  BY <1>2, StartAgain
<1>4. k.mapped = h.mapped /\ k.accepting = h.accepting /\ HasFields(k)
  BY <1>3, FieldsThere, SameHas DEF Restarts, Same, ReadFields
<1>5. CASE h.receiving
  BY <1>3, <1>4, <1>5 DEF IdempotentStartReceive
<1>6. CASE ~ h.receiving
  <2> DEFINE m == [h EXCEPT !.receiving = TRUE, !.keepalive = TRUE]
  <2>1. k = StartReceive(m)
    BY <1>6 DEF IdempotentStartReceive
  <2>2. Same(h, m, {"receiving", "keepalive"})
    BY FieldsThere DEF Same
  <2> HIDE DEF m, k
  <2>3. /\ m.calls = h.calls /\ m.failed = h.failed /\ HasFields(m)
        /\ m.mapped = h.mapped /\ m.accepting = h.accepting
    BY <2>2, FieldsThere, SameHas DEF Same
  <2>4. Sockets(m) = Sockets(h) /\ Acceptors(m) = Acceptors(h)
    BY <2>3 DEF Sockets, Acceptors
  <2>5. Reader(h) = 0 /\ Reader(k) = 1
    BY <1>3, <1>6, ReaderIs
  <2>6. ~ (m.calls >= Sockets(m) + Acceptors(m) + 2)
    BY <1>1, <2>3, <2>4, <2>5 DEF Even
  <2>7. k = [m EXCEPT !.calls = @ + 1, !.peeks = IF m.calls = 0 THEN @ + 1 ELSE @]
    BY <2>1, <2>6 DEF StartReceive
  <2>8. k.calls = m.calls + 1 /\ k.failed = m.failed
    BY <2>3, <2>7, FieldsThere
  <2>9. Sockets(k) = Sockets(h) /\ Acceptors(k) = Acceptors(h)
    BY <1>4 DEF Sockets, Acceptors
  <2>10. k.calls = Reader(k) + e /\ k.failed = "no"
    BY <2>3, <2>5, <2>8 DEF Even
  <2>11. Even(e, k)
    BY <2>9, <2>10 DEF Even
  <2> QED BY <1>3, <1>4, <2>11 DEF k
<1> QED BY <1>5, <1>6

\* A packet ends the receive of the socket; it is still counted.
LEMMA EvenPacket ==
    ASSUME NEW h, HasFields(h), h.failed = "no", h.calls \in 0 .. 2,
           h.calls <= Sockets(h) + Acceptors(h) + 1
    PROVE  LET k == OnAnyPacketReceived(h)
           IN  /\ Even(h.calls, k) /\ ~ k.receiving /\ HasFields(k)
               /\ Same(h, k, {"receiving", "keepalive"})
               /\ k.mapped = h.mapped /\ k.accepting = h.accepting
<1> DEFINE k == OnAnyPacketReceived(h)
<1>1. Same(h, k, {"receiving", "keepalive"}) /\ ~ k.receiving
  BY FieldsThere DEF Same, OnAnyPacketReceived
<1> HIDE DEF k
<1>2. /\ k.calls = h.calls /\ k.failed = h.failed /\ HasFields(k)
      /\ k.mapped = h.mapped /\ k.accepting = h.accepting
  BY <1>1, FieldsThere, SameHas DEF Same
<1>3. Sockets(k) = Sockets(h) /\ Acceptors(k) = Acceptors(h) /\ Reader(k) = 0
  BY <1>1, <1>2, ReaderIs DEF Sockets, Acceptors
<1>4. Even(h.calls, k)
  BY <1>2, <1>3 DEF Even
<1> QED BY <1>1, <1>2, <1>4 DEF k

\* The handler of an operation fails in no socket that is connected or listens.
LEMMA HandlerEasy ==
    ASSUME NEW h, Typed(h), NEW n,
           ServerShakes(h) \/ (ClientShakes(h) /\ h.conn \notin {"listening", "handshaking"})
    PROVE  OperationHandler(h, n, FALSE).failed = h.failed
<1> DEFINE k == OperationHandler(h, n, FALSE)
           mine == {m \in h.handshakes : m.seq = n}
<1>1. CASE ServerShakes(h)
  BY <1>1, HandlerRuns
<1>2. CASE ClientShakes(h) /\ h.conn \notin {"listening", "handshaking"}
  <2>1. ~ (\E m \in mine : m.ack # NoAck)
    BY <1>2 DEF ClientShakes
  <2>2. \/ k = [h EXCEPT !.done = @ \union {n}]
        \/ k = [h EXCEPT !.connected = h.conn # "closed"]
    BY <1>2, <2>1 DEF OperationHandler
  <2>3. HasFields(h)
    BY DEF Typed
  <2> QED BY <2>2, <2>3, FieldsThere
<1> QED BY <1>1, <1>2

\* An acknowledgement fails nothing, and counts a socket that starts to receive.
LEMMA EvenAck ==
    ASSUME NEW h, Sound(h), Whole(h), NEW ack \in Acks, ack # NoAck,
           h.conn \in {"listening", "handshaking", "established"},
           ServerShakes(h) \/ (ClientShakes(h) /\ h.conn # "listening"),
           NEW e, Even(e, h)
    PROVE  LET k == ProcessAcknowledgement(h, ack)
           IN  /\ Even(e, k) /\ HasFields(k)
               /\ k.mapped = h.mapped /\ k.accepting = h.accepting
               /\ Indices(k.queue) = Indices(h.queue) \ {ack}
               /\ Indices(k.queue) = {} => k.receiving = h.receiving
               /\ h.out \subseteq k.out
               /\ Puts(h, k, IF ack \in Indices(h.queue) THEN Indices(k.queue) ELSE {})
<1> DEFINE h1 == [h EXCEPT !.conn = IF @ = "handshaking" THEN "established" ELSE @]
           q  == Acked(h1.queue, ack)
           h2 == Queued(h1, q)
           h3 == IF ack \in Indices(h1.queue) THEN OperationHandler(h2, ack, FALSE) ELSE h2
           h4 == IF Indices(h3.queue) # {} THEN IdempotentStartReceive(h3) ELSE h3
           k  == ProcessAcknowledgement(h, ack)
<1>1. HasFields(h) /\ Typed(h)
  BY DEF Sound, Typed
<1>2. k = h4
  BY DEF ProcessAcknowledgement
<1> HIDE DEF k
<1>3. /\ Same(h, h1, {"conn"})
      /\ h1.conn = IF h.conn = "handshaking" THEN "established" ELSE h.conn
  BY <1>1, FieldsThere DEF Same
<1> HIDE DEF h1
<1>4. /\ SameNumbers(h, h1) /\ h1.queue = h.queue /\ h1.out = h.out /\ h1.done = h.done
      /\ h1.history = h.history /\ h1.calls = h.calls
      /\ h1.inputs = h.inputs /\ h1.confirming = h.confirming
      /\ h1.outputs = h.outputs /\ h1.delivered = h.delivered /\ h1.aborts = h.aborts
  BY <1>1, <1>3, FieldsThere DEF Same, SameNumbers
<1>5. Typed(h1)
  <2>1. HasFields(h1)
    BY <1>1, <1>3, SameHas
  <2>2. h1.conn \in Connectivity
    BY <1>3 DEF Connectivity
  <2> QED BY <1>1, <1>4, <2>1, <2>2 DEF Typed, SameNumbers
<1>6. Sound(h1) /\ Whole(h1)
  <2>1. Sound(h1)
    BY <1>4, <1>5, SoundRests
  <2> QED BY <1>4, <2>1 DEF Whole, SameNumbers
<1>7. /\ Even(e, h1) /\ HasFields(h1) /\ h1.receiving = h.receiving
      /\ h1.mapped = h.mapped /\ h1.accepting = h.accepting
  BY <1>1, <1>3, EvenSame
<1>8. /\ QueueOf(h1, q) /\ Indices(q) = Indices(h.queue) \ {ack}
      /\ Starts(h1.queue, q, IF ack \in Indices(h.queue) THEN Indices(q) ELSE {})
  BY <1>4, <1>6, AckedOf DEF Sound
<1> HIDE DEF q
<1>9. /\ Sound(h2) /\ Whole(h2) /\ Same(h1, h2, {"queue", "out"}) /\ SameNumbers(h1, h2)
      /\ h2.queue = q
      /\ Puts(h1, h2, IF ack \in Indices(h.queue) THEN Indices(q) ELSE {})
  BY <1>6, <1>8, QueuedMeans
<1>10. h1.out \subseteq h2.out
  BY <1>7, FieldsThere DEF Queued
<1> HIDE DEF h2
<1>11. /\ Even(e, h2) /\ HasFields(h2) /\ h2.receiving = h1.receiving
       /\ h2.mapped = h1.mapped /\ h2.accepting = h1.accepting
  BY <1>7, <1>9, EvenSame
<1>12. h2.conn = h1.conn /\ h2.failed = h1.failed
  BY <1>7, <1>9, FieldsThere DEF Same
<1>13. ServerShakes(h2) \/ (ClientShakes(h2) /\ h2.conn = "established")
  BY <1>3, <1>4, <1>9, <1>12 DEF SameNumbers, ServerShakes, ClientShakes
<1>14. /\ Same(h2, h3, {"conn", "connected", "done"}) /\ h3.queue = q
       /\ h3.out = h2.out /\ HasFields(h3)
  <2>1. CASE ack \notin Indices(h.queue)
    <3>1. h3 = h2
      BY <1>4, <2>1
    <3> QED BY <1>9, <1>11, <3>1 DEF Same
  <2>2. CASE ack \in Indices(h.queue)
    <3>1. h3 = OperationHandler(h2, ack, FALSE)
      BY <1>4, <2>2
    <3> HIDE DEF h3
    <3>2. Typed(h2)
      BY <1>9 DEF Sound
    <3>3. Same(h2, h3, HandlerFields)
      BY <3>1, <3>2, HandlerRuns, ZenonT(40)
    <3>5. h3.failed = h2.failed
      BY <1>13, <3>1, <3>2, HandlerEasy
    <3>4. Same(h2, h3, {"conn", "connected", "done"})
      BY <3>3, <3>5 DEF Same, HandlerFields
    <3> QED BY <1>9, <1>11, <3>4, FieldsThere, SameHas DEF Same
  <2> QED BY <2>1, <2>2
<1> HIDE DEF h3
<1>15. /\ Even(e, h3) /\ h3.receiving = h2.receiving
       /\ h3.mapped = h2.mapped /\ h3.accepting = h2.accepting
  BY <1>11, <1>14, EvenSame
<1>16. /\ Even(e, h4) /\ HasFields(h4) /\ Same(h3, h4, ReadFields)
       /\ h4.mapped = h3.mapped /\ h4.accepting = h3.accepting
       /\ Indices(h3.queue) = {} => h4.receiving = h3.receiving
  <2>1. CASE Indices(h3.queue) = {}
    BY <1>14, <1>15, <2>1 DEF Same
  <2>2. CASE Indices(h3.queue) # {}
    BY <1>14, <1>15, <2>2, EvenStart DEF Restarts
  <2> QED BY <2>1, <2>2
<1> HIDE DEF h4
<1>17. h4.queue = q /\ h4.out = h2.out
  BY <1>14, <1>16, FieldsThere DEF Same, ReadFields
<1>18. SameNumbers(h2, h4)
  <2>1. SameNumbers(h2, h3)
    BY <1>11, <1>14, FieldsThere DEF Same, SameNumbers
  <2>2. SameNumbers(h3, h4)
    BY <1>14, <1>16, FieldsThere DEF Same, SameNumbers, ReadFields
  <2> QED BY <2>1, <2>2 DEF SameNumbers
<1>19. \A d : SentPacket(h2, d) => SentPacket(h4, d)
  BY <1>9, <1>18, SameNumbersGrows DEF Sound
<1>20. Puts(h, h4, IF ack \in Indices(h.queue) THEN Indices(h4.queue) ELSE {})
  BY <1>4, <1>9, <1>17, <1>19 DEF Puts
<1> QED BY <1>2, <1>4, <1>7, <1>8, <1>10, <1>11, <1>14, <1>15, <1>16, <1>17, <1>20 DEF k

\* A calm host counts its acceptor besides its socket.
LEMMA CalmEven ==
    ASSUME NEW h, Calm(h)
    PROVE  Even(Acceptors(h), h)
<1>1. Sockets(h) \in {0, 1} /\ Acceptors(h) \in {0, 1}
  BY Receivers
<1> QED BY <1>1 DEF Even, Calm

\* A calm host that reads finds its receives counted.
LEMMA CalmPeeked ==
    ASSUME NEW h, Stable(h), Calm(h), h.peeks > 0
    PROVE  LET n == Peeked(h)
               k == OnAnyPacketReceived(n)
           IN  /\ h.calls > 0 /\ h.calls \in 0 .. 2 /\ ~ TooManyCalls(h)
               /\ n.calls = h.calls /\ Same(h, n, {"peeks"})
               /\ Even(h.calls, k) /\ ~ k.receiving /\ HasFields(k)
               /\ Same(n, k, {"receiving", "keepalive"})
               /\ k.mapped = h.mapped /\ k.accepting = h.accepting
<1> DEFINE n == Peeked(h)
           k == OnAnyPacketReceived(n)
<1>1. h.failed = "no" /\ h.open
  BY DEF Calm
<1>2. Same(h, n, {"peeks"}) /\ h.calls > 0 /\ HasFields(h)
  BY <1>1, PeekedMeans, StableMeans
<1> HIDE DEF n
<1>3. /\ n.calls = h.calls /\ n.failed = h.failed /\ HasFields(n)
      /\ n.mapped = h.mapped /\ n.accepting = h.accepting
  BY <1>2, FieldsThere, SameHas DEF Same
<1>4. Sockets(n) = Sockets(h) /\ Acceptors(n) = Acceptors(h)
  BY <1>3 DEF Sockets, Acceptors
<1>5. /\ Sockets(h) \in {0, 1} /\ Acceptors(h) \in {0, 1} /\ Reader(h) \in {0, 1}
      /\ h.calls = Reader(h) + Acceptors(h)
  BY Receivers, ReaderIs DEF Calm
<1>6. h.calls \in 0 .. 2 /\ h.calls <= Sockets(h) + Acceptors(h) + 1
  BY <1>5
<1>7. ~ TooManyCalls(h)
  BY <1>5 DEF TooManyCalls
<1>8. /\ Even(n.calls, k) /\ ~ k.receiving /\ HasFields(k)
      /\ Same(n, k, {"receiving", "keepalive"})
      /\ k.mapped = n.mapped /\ k.accepting = n.accepting
  BY <1>1, <1>3, <1>4, <1>6, EvenPacket
<1> QED BY <1>2, <1>3, <1>6, <1>7, <1>8 DEF n

\* When the read is over the receives are those of socket and acceptor again.
LEMMA EvenFinish ==
    ASSUME NEW h, Stable(h), Calm(h), h.peeks > 0, NEW d,
           NEW m, m = Dispatch(Peeked(h), d), Even(h.calls, m), HasFields(m),
           m.mapped = h.mapped, m.accepting = h.accepting, h.mapped => ~ h.accepting,
           ~ h.mapped => /\ h.accepting /\ d.type # "data"
                         /\ h.receiving <=> m.conn = "established"
    PROVE  LET k == ProcessPeek(h, d)
           IN  /\ Same(m, k, PeekFields) /\ HasFields(k)
               /\ k.calls = Reader(k) + Acceptors(k)
               /\ h.mapped \/ m.conn = "established" => k.mapped /\ ~ k.accepting
               /\ ~ h.mapped /\ m.conn # "established" => ~ k.mapped /\ k.accepting
<1> DEFINE n == Peeked(h)
           k == ProcessPeek(h, d)
<1>1. h.calls > 0 /\ h.calls \in 0 .. 2 /\ ~ TooManyCalls(h) /\ Same(h, n, {"peeks"})
  BY CalmPeeked
<1>2. k = FinishRead(IF h.mapped
                     THEN IF m.inputs = n.inputs THEN LendBuffers(m) ELSE m
                     ELSE EstablishConnection(n, d))
  BY <1>1 DEF ProcessPeek, Peeked
<1>3. EstablishConnection(n, d) =
        IF ~ n.accepting \/ d.type = "data" THEN n
        ELSE IF m.conn = "established"
        THEN [m EXCEPT !.accepting = FALSE, !.mapped = TRUE,
                       !.accepted = TRUE, !.calls = Less(@)]
        ELSE [m EXCEPT !.calls = @ + 1]
  BY DEF EstablishConnection
<1>4. n.accepting = h.accepting
  BY <1>1, StableMeans, FieldsThere DEF Same
<1>5. /\ Reader(m) \in {0, 1} /\ Reader(h) \in {0, 1} /\ Acceptors(h) \in {0, 1}
      /\ m.calls = Reader(m) + h.calls /\ h.calls = Reader(h) + Acceptors(h)
  BY ReaderIs, Receivers DEF Even, Calm
<1> HIDE DEF n, k
<1>6. ASSUME NEW x, Same(m, x, PeekFields), k = FinishRead(x), x.calls \in 1 .. 15
      PROVE  /\ Same(m, k, PeekFields) /\ HasFields(k) /\ k.calls = x.calls - 1
             /\ k.mapped = x.mapped /\ k.accepting = x.accepting
             /\ Reader(k) = Reader(m)
  <2>1. HasFields(x)
    BY <1>6, SameHas
  <2>2. Same(x, k, {"calls", "peeks"}) /\ k.calls = Less(x.calls)
    BY <1>6, <2>1, FieldsThere DEF Same, FinishRead
  <2>3. Same(m, k, PeekFields)
    BY <1>6, <2>2 DEF Same, PeekFields
  <2>4. k.mapped = x.mapped /\ k.accepting = x.accepting /\ HasFields(k)
    BY <2>1, <2>2, FieldsThere, SameHas DEF Same
  <2>5. k.receiving = m.receiving
    BY <2>3, FieldsThere DEF Same, PeekFields
  <2>6. Less(x.calls) = x.calls - 1
    BY <1>6, SMT DEF Less, CallsModulus
  <2> QED BY <2>2, <2>3, <2>4, <2>5, <2>6 DEF Reader
<1>7. CASE h.mapped
  <2>1. PICK x : Same(m, x, {"lent"}) /\ k = FinishRead(x)
    <3>1. Same(m, m, {"lent"}) /\ Same(m, LendBuffers(m), {"lent"})
      BY FieldsThere DEF Same, LendBuffers
    <3> QED BY <1>2, <1>7, <3>1
  <2>2. x.calls = m.calls /\ x.mapped = m.mapped /\ x.accepting = m.accepting
    BY <2>1, FieldsThere DEF Same
  <2>3. Same(m, x, PeekFields)
    BY <2>1, SameWider DEF PeekFields
  <2>4. Acceptors(h) = 0
    BY <1>7 DEF Acceptors
  <2>5. x.calls = Reader(m) + 1
    BY <1>1, <1>5, <2>2, <2>4
  <2>6. /\ Same(m, k, PeekFields) /\ HasFields(k) /\ k.calls = x.calls - 1
        /\ k.mapped = x.mapped /\ k.accepting = x.accepting /\ Reader(k) = Reader(m)
    BY <1>5, <1>6, <2>1, <2>3, <2>5
  <2>7. Acceptors(k) = 0
    BY <1>7, <2>2, <2>6 DEF Acceptors
  <2>8. k.calls = Reader(k) + Acceptors(k)
    BY <1>5, <2>5, <2>6, <2>7
  <2> QED BY <1>7, <2>2, <2>6, <2>8 DEF k
<1>8. CASE ~ h.mapped /\ m.conn = "established"
  <2> DEFINE x == [m EXCEPT !.accepting = FALSE, !.mapped = TRUE,
                            !.accepted = TRUE, !.calls = Less(@)]
  <2>1. k = FinishRead(x)
    BY <1>2, <1>3, <1>4, <1>8
  <2>2. /\ Same(m, x, {"accepting", "mapped", "accepted", "calls"})
        /\ x.calls = Less(m.calls) /\ ~ x.accepting /\ x.mapped
    BY FieldsThere DEF Same
  <2> HIDE DEF x
  <2>3. Same(m, x, PeekFields)
    BY <2>2, SameWider DEF PeekFields
  <2>4. Acceptors(h) = 1 /\ Reader(h) = 1
    BY <1>8, ReaderIs DEF Acceptors
  <2>5. m.calls = Reader(m) + 2
    BY <1>5, <2>4
  <2>6. Less(m.calls) = Reader(m) + 1
    BY <1>5, <2>5, SMT DEF Less, CallsModulus
  <2>10. x.calls \in 1 .. 15
    BY <1>5, <2>2, <2>6
  <2>7. /\ Same(m, k, PeekFields) /\ HasFields(k) /\ k.calls = x.calls - 1
        /\ k.mapped = x.mapped /\ k.accepting = x.accepting /\ Reader(k) = Reader(m)
    BY <1>6, <2>1, <2>3, <2>10
  <2>8. Acceptors(k) = 0
    BY <2>2, <2>7 DEF Acceptors
  <2>9. k.calls = Reader(k) + Acceptors(k)
    BY <1>5, <2>2, <2>6, <2>7, <2>8
  <2> QED BY <1>8, <2>2, <2>7, <2>9 DEF k
<1>9. CASE ~ h.mapped /\ m.conn # "established"
  <2> DEFINE x == [m EXCEPT !.calls = @ + 1]
  <2>1. k = FinishRead(x)
    BY <1>2, <1>3, <1>4, <1>9
  <2>2. Same(m, x, {"calls"}) /\ x.calls = m.calls + 1
    BY FieldsThere DEF Same
  <2> HIDE DEF x
  <2>3. Same(m, x, PeekFields) /\ x.mapped = m.mapped /\ x.accepting = m.accepting
    BY <2>2, SameWider, FieldsThere DEF Same, PeekFields
  <2>4. Acceptors(h) = 1 /\ Reader(h) = 0
    BY <1>9, ReaderIs DEF Acceptors
  <2>5. x.calls = Reader(m) + 2
    BY <1>5, <2>2, <2>4
  <2>6. /\ Same(m, k, PeekFields) /\ HasFields(k) /\ k.calls = x.calls - 1
        /\ k.mapped = x.mapped /\ k.accepting = x.accepting /\ Reader(k) = Reader(m)
    BY <1>5, <1>6, <2>1, <2>3, <2>5
  <2>7. Acceptors(k) = 1
    BY <1>9, <2>3, <2>6 DEF Acceptors
  <2>8. k.calls = Reader(k) + Acceptors(k)
    BY <1>5, <2>5, <2>6, <2>7
  <2> QED BY <1>9, <2>3, <2>6, <2>8 DEF k
<1> QED BY <1>7, <1>8, <1>9

\* Only data is among the headers of S.
OnlyData(S) == \A b \in S : Decode(b).type = "data"

\* The client repeats, once connected, nothing but data.
LEMMA DataQueued ==
    ASSUME NEW m, Sound(m), m.handshakes \subseteq {Shake(0, NoAck)}, NEW S,
           S \subseteq Indices(m.queue) \ {0}, NEW h, Puts(h, m, S), OnlyData(h.out)
    PROVE  OnlyData(m.out)
<1>1. SUFFICES ASSUME NEW d \in Datagrams, d.seq \in S, SentPacket(m, d)
               PROVE  d.type = "data"
  BY Decoded DEF Puts, OnlyData
<1>2. d.seq # 0 /\ d.seq \in SentBy(m) \union Shakes(m)
  BY <1>1 DEF Sound, QueueOf
<1>3. d.seq \notin Shakes(m)
  BY <1>2 DEF Shakes, Shake
<1>4. d.type # "handshake"
  BY <1>1, <1>2 DEF SentPacket, Shake
<1>5. d.type # "keepalive"
  BY <1>1, <1>2, <1>3 DEF SentPacket
<1> QED BY <1>4, <1>5 DEF Datagrams

\* The first packet the client gets is the server's handshake: it answers
\* with a keepalive and repeats its own handshake no more.
LEMMA ClientAnswers ==
    ASSUME NEW c, Stable(c), ClientInv(c), CalmClient(c), c.conn = "connecting",
           c.peeks > 0, c.out = {}, c.next <= MaxNumber,
           NEW d \in Datagrams, d.type = "handshake", d.seq = 0, d.ack = 0
    PROVE  LET k == ProcessPeek(c, d)
           IN  /\ CalmClient(k) /\ k.conn = "established" /\ k.out = {Confirmation}
<1> DEFINE n  == Peeked(c)
           t  == OnAnyPacketReceived(n)
           m1 == ProcessHandshake(n, d)
           m  == Dispatch(n, d)
           k  == ProcessPeek(c, d)
<1>0. /\ c.failed = "no" /\ c.open /\ Calm(c) /\ c.mapped /\ ~ c.accepting
      /\ c.attached /\ c.taken = {} /\ c.next = 1 /\ HasFields(c)
      /\ 0 \in Indices(c.queue) /\ c.handshakes \subseteq {Shake(0, NoAck)}
      /\ c.outputs = <<>> /\ c.jobs = 0 /\ c.inputs = 0
  BY StableMeans DEF CalmClient, Calm, ClientInv
<1>1. /\ c.calls > 0 /\ Same(c, n, {"peeks"})
      /\ Even(c.calls, t) /\ ~ t.receiving /\ HasFields(t)
      /\ Same(n, t, {"receiving", "keepalive"})
      /\ t.mapped = c.mapped /\ t.accepting = c.accepting
  BY <1>0, CalmPeeked
<1>2. /\ Sound(n) /\ Whole(n) /\ n.conn = c.conn /\ n.queue = c.queue
      /\ n.failed = "no" /\ n.out = {} /\ n.inputs = c.inputs
  BY <1>0, PeekedMeans
<1>3. /\ n.next = 1 /\ n.taken = {} /\ n.handshakes = c.handshakes /\ HasFields(n)
  BY <1>0, <1>1, FieldsThere, SameHas DEF Same
<1>4. 0 # NoAck /\ 0 \in Acks
  BY HeaderAssumption, NumberAssumption DEF Acks, NumberSet
<1>5. Fits(n, d)
  BY <1>0, <1>2, <1>3 DEF Fits
<1> HIDE DEF n
<1>6. m1 = SendKeepalive([Take(t, d.seq) EXCEPT !.conn = "handshaking",
                                                !.confirming = @ + 1], d.seq)
  BY <1>0, <1>2 DEF ProcessHandshake
<1>7. /\ Same(t, m1, {"history", "taken", "conn", "confirming", "next", "out"})
      /\ m1.out = t.out \union {Encode(0, [type |-> "keepalive", seq |-> t.next, ack |-> 0])}
  BY <1>1, <1>6, FieldsThere DEF Take, SendKeepalive, Same
<1>8. t.next = 1 /\ t.out = {}
  BY <1>1, <1>2, <1>3, FieldsThere DEF Same
<1>9. m1.out = {Confirmation}
  BY <1>7, <1>8 DEF Confirmation
<1>10. /\ Received(n, m1, d) /\ m1.handshakes = n.handshakes /\ m1.conn = "handshaking"
       /\ m1.queue = n.queue
  BY <1>0, <1>2, <1>3, <1>5, HandshakeConfirmed, NumberAssumption
<1>11. /\ Even(c.calls, m1) /\ HasFields(m1) /\ ~ m1.receiving
       /\ m1.mapped = t.mapped /\ m1.accepting = t.accepting
  BY <1>1, <1>7, EvenSame
<1>12. m = ProcessAcknowledgement(m1, d.ack)
  BY <1>0, <1>11, DispatchSteps, ByType DEF Even
<1> HIDE DEF m1, t
<1>13. Sound(m1) /\ Whole(m1) /\ ClientShakes(m1)
  BY <1>0, <1>3, <1>10, <1>11 DEF Received, ClientShakes, Shake, Even
<1>14. /\ Even(c.calls, m) /\ HasFields(m)
       /\ m.mapped = m1.mapped /\ m.accepting = m1.accepting
       /\ Indices(m.queue) = Indices(m1.queue) \ {0}
       /\ Indices(m.queue) = {} => m.receiving = m1.receiving
       /\ m1.out \subseteq m.out
       /\ Puts(m1, m, IF 0 \in Indices(m1.queue) THEN Indices(m.queue) ELSE {})
  BY <1>0, <1>4, <1>10, <1>11, <1>12, <1>13, EvenAck
<1>15. Same(m1, m, AckFields)
  <2>1. Same(m1, ProcessAcknowledgement(m1, 0), AckFields)
    BY <1>4, <1>13, AcknowledgementMeans, ZenonT(40)
  <2> QED BY <1>0, <1>12, <2>1
<1>16. m.conn = "established"
  <2>1. ClientShakes(n) /\ 0 \in Indices(n.queue) \intersect Shakes(n)
    <3>2. ClientShakes(n)
      BY <1>0, <1>3 DEF ClientShakes, Shake
    <3>3. 0 \in Shakes(c)
      BY <1>0 DEF Stable
    <3>4. 0 \in Shakes(n)
      BY <1>3, <3>3 DEF Shakes
    <3> QED BY <1>0, <1>2, <3>2, <3>4
  <2> QED BY <1>0, <1>2, <1>3, <1>5, <2>1, NumberAssumption, ClientDispatch
<1>17. Indices(m.queue) = {}
  <2>1. \A i \in Indices(c.queue) : i < 1 /\ i \in Nat
    BY <1>0 DEF Stable, Sound, QueueOf, IsQueue
  <2>2. Indices(c.queue) \subseteq {0}
    BY <2>1
  <2> QED BY <1>2, <1>10, <1>14, <2>2
<1>18. m.out = {Confirmation} /\ ~ m.receiving
  BY <1>9, <1>11, <1>14, <1>17 DEF Puts
<1>19. /\ m.open = c.open /\ m.outputs = c.outputs /\ m.jobs = c.jobs
       /\ m.inputs = c.inputs /\ m.failed = "no"
  <2>1. /\ n.open = c.open /\ n.outputs = c.outputs /\ n.jobs = c.jobs
        /\ n.inputs = c.inputs
    BY <1>0, <1>1, FieldsThere DEF Same
  <2>2. /\ t.open = n.open /\ t.outputs = n.outputs /\ t.jobs = n.jobs
        /\ t.inputs = n.inputs
    BY <1>1, <1>3, FieldsThere DEF Same
  <2>3. /\ m1.open = t.open /\ m1.outputs = t.outputs /\ m1.jobs = t.jobs
        /\ m1.inputs = t.inputs
    BY <1>1, <1>7, FieldsThere DEF Same
  <2>4. /\ m.open = m1.open /\ m.outputs = m1.outputs /\ m.jobs = m1.jobs
        /\ m.inputs = m1.inputs
    BY <1>11, <1>15, FieldsThere DEF Same, AckFields, ReadFields
  <2> QED BY <1>14, <2>1, <2>2, <2>3, <2>4 DEF Even
<1>20. m.mapped = c.mapped /\ m.accepting = c.accepting
  BY <1>0, <1>1, <1>11, <1>14
<1> HIDE DEF m
<1>21. /\ Same(m, k, PeekFields) /\ HasFields(k)
       /\ k.calls = Reader(k) + Acceptors(k) /\ k.mapped
  <2>1. m = Dispatch(Peeked(c), d)
    BY DEF m, n
  <2> HIDE DEF m, n
  <2>2. /\ Stable(c) /\ Calm(c) /\ c.peeks > 0 /\ Even(c.calls, m) /\ HasFields(m)
        /\ m.mapped = c.mapped /\ m.accepting = c.accepting
        /\ c.mapped /\ ~ c.accepting
    BY <1>0, <1>14, <1>20
  <2>3. /\ Same(m, ProcessPeek(c, d), PeekFields) /\ HasFields(ProcessPeek(c, d))
        /\ ProcessPeek(c, d).calls = Reader(ProcessPeek(c, d)) + Acceptors(ProcessPeek(c, d))
        /\ ProcessPeek(c, d).mapped
    BY <2>1, <2>2, EvenFinish, Zenon
  <2> QED BY <2>3
<1> HIDE DEF k
<1>22. /\ k.open = m.open /\ k.outputs = m.outputs /\ k.jobs = m.jobs
       /\ k.inputs = m.inputs /\ k.failed = m.failed /\ k.conn = m.conn
       /\ k.out = m.out /\ k.queue = m.queue
  BY <1>14, <1>21, FieldsThere DEF Same, PeekFields
<1>23. CalmClient(k)
  BY <1>0, <1>16, <1>17, <1>19, <1>21, <1>22 DEF CalmClient, Calm
<1> QED BY <1>16, <1>18, <1>22, <1>23 DEF k

\* A keepalive to the connected client acknowledges data.
LEMMA ClientTold ==
    ASSUME NEW c, Stable(c), ClientInv(c), CalmClient(c), c.conn = "established",
           c.peeks > 0, c.out = {}, c.next <= MaxNumber,
           NEW d, Fits(c, d), d.type = "keepalive"
    PROVE  LET k == ProcessPeek(c, d)
           IN  /\ CalmClient(k) /\ k.conn = "established" /\ OnlyData(k.out)
<1> DEFINE n  == Peeked(c)
           t  == OnAnyPacketReceived(n)
           m1 == ProcessKeepalive(n, d)
           m  == Dispatch(n, d)
           k  == ProcessPeek(c, d)
<1>0. /\ c.failed = "no" /\ c.open /\ Calm(c) /\ c.mapped /\ ~ c.accepting
      /\ c.connected /\ HasFields(c) /\ 0 \notin Indices(c.queue)
      /\ c.handshakes \subseteq {Shake(0, NoAck)}
      /\ c.outputs = <<>> /\ c.jobs = 0 /\ c.inputs = 0
  BY StableMeans DEF CalmClient, Calm, ClientInv
<1>1. /\ c.calls > 0 /\ Same(c, n, {"peeks"})
      /\ Even(c.calls, t) /\ ~ t.receiving /\ HasFields(t)
      /\ Same(n, t, {"receiving", "keepalive"})
      /\ t.mapped = c.mapped /\ t.accepting = c.accepting
  BY <1>0, CalmPeeked
<1>2. /\ Sound(n) /\ Whole(n) /\ n.conn = c.conn /\ n.queue = c.queue
      /\ n.failed = "no" /\ n.out = {} /\ n.connected = c.connected
  BY <1>0, PeekedMeans
<1>3. n.next = c.next /\ n.handshakes = c.handshakes /\ HasFields(n)
  BY <1>0, <1>1, FieldsThere, SameHas DEF Same
<1>4. Fits(n, d)
  BY <1>0, FitsPeeked
<1>5. d.ack # NoAck /\ d.ack \in Acks
  BY <1>4 DEF Fits, Acks, Datagrams, NumberSet
<1> HIDE DEF n
<1>6. m1 = IF IsExpectedPacket(n, d.seq) THEN Take(t, d.seq)
           ELSE IdempotentStartReceive(t)
  BY DEF ProcessKeepalive
<1>7. /\ Received(n, m1, d) /\ Puts(n, m1, {}) /\ m1.handshakes = n.handshakes
      /\ m1.queue = n.queue /\ m1.conn = n.conn
  BY <1>2, <1>4, KeepaliveMeans
<1> HIDE DEF m1
<1>8. /\ Even(c.calls, m1) /\ HasFields(m1)
      /\ m1.mapped = t.mapped /\ m1.accepting = t.accepting
      /\ Same(t, m1, ReadFields \union {"history", "taken"})
  <2>1. CASE IsExpectedPacket(n, d.seq)
    <3>1. Same(t, m1, {"history", "taken"})
      BY <1>1, <1>6, <2>1, FieldsThere DEF Take, Same
    <3> QED BY <1>1, <3>1, EvenSame, SameWider
  <2>2. CASE ~ IsExpectedPacket(n, d.seq)
    <3>1. m1 = IdempotentStartReceive(t)
      BY <1>6, <2>2
    <3>2. /\ Even(c.calls, m1) /\ HasFields(m1) /\ Restarts(t, m1)
          /\ m1.mapped = t.mapped /\ m1.accepting = t.accepting
      BY <1>1, <3>1, EvenStart
    <3> QED BY <3>2, SameWider DEF Restarts
  <2> QED BY <2>1, <2>2
<1> HIDE DEF t
<1>9. m = ProcessAcknowledgement(m1, d.ack)
  BY <1>8, DispatchSteps, ByType DEF Even, m1
<1>10. Sound(m1) /\ Whole(m1) /\ ClientShakes(m1)
  BY <1>0, <1>3, <1>7, <1>8 DEF Received, ClientShakes, Shake, Even
<1>11. /\ Even(c.calls, m) /\ HasFields(m)
       /\ m.mapped = m1.mapped /\ m.accepting = m1.accepting
       /\ Indices(m.queue) = Indices(m1.queue) \ {d.ack}
       /\ Puts(m1, m, IF d.ack \in Indices(m1.queue) THEN Indices(m.queue) ELSE {})
  <2>1. m1.conn = "established"
    BY <1>2, <1>7
  <2> QED BY <1>5, <1>8, <1>9, <1>10, <2>1, EvenAck
<1>12. Same(m1, m, AckFields) /\ Sound(m)
  <2>1. /\ Same(m1, ProcessAcknowledgement(m1, d.ack), AckFields)
        /\ Sound(ProcessAcknowledgement(m1, d.ack))
    BY <1>5, <1>10, AcknowledgementMeans, ZenonT(40)
  <2> QED BY <1>9, <2>1
<1>13. m.conn = "established"
  <2>1. ClientShakes(n)
    BY <1>0, <1>3 DEF ClientShakes, Shake
  <2>2. n.conn = "established" /\ n.connected /\ n.next <= MaxNumber /\ n.failed = "no"
    BY <1>0, <1>2, <1>3
  <2>3. Dispatch(n, d).conn = "established"
    BY <1>2, <1>4, <2>1, <2>2, ClientDispatch
  <2> QED BY <2>3 DEF m
<1>14. OnlyData(m.out)
  <2>1. OnlyData(m1.out)
    BY <1>2, <1>7 DEF Puts, OnlyData
  <2>2. m.handshakes \subseteq {Shake(0, NoAck)}
    <3>1. m.handshakes = m1.handshakes
      BY <1>8, <1>12, FieldsThere DEF Same, AckFields, ReadFields
    <3> QED BY <1>0, <1>3, <1>7, <3>1
  <2>3. Puts(m1, m, Indices(m.queue)) /\ 0 \notin Indices(m.queue)
    BY <1>0, <1>2, <1>7, <1>11 DEF Puts
  <2> QED BY <1>12, <2>1, <2>2, <2>3, DataQueued
<1>15. /\ m.open = c.open /\ m.outputs = c.outputs /\ m.jobs = c.jobs
       /\ m.inputs = c.inputs /\ m.failed = "no"
  <2>1. /\ n.open = c.open /\ n.outputs = c.outputs /\ n.jobs = c.jobs
        /\ n.inputs = c.inputs
    BY <1>0, <1>1, FieldsThere DEF Same
  <2>2. /\ t.open = n.open /\ t.outputs = n.outputs /\ t.jobs = n.jobs
        /\ t.inputs = n.inputs
    BY <1>1, <1>3, FieldsThere DEF Same
  <2>3. /\ m1.open = t.open /\ m1.outputs = t.outputs /\ m1.jobs = t.jobs
        /\ m1.inputs = t.inputs
    BY <1>1, <1>8, FieldsThere DEF Same, ReadFields
  <2>4. /\ m.open = m1.open /\ m.outputs = m1.outputs /\ m.jobs = m1.jobs
        /\ m.inputs = m1.inputs
    BY <1>8, <1>12, FieldsThere DEF Same, AckFields, ReadFields
  <2> QED BY <1>11, <2>1, <2>2, <2>3, <2>4 DEF Even
<1>16. m.mapped = c.mapped /\ m.accepting = c.accepting
  BY <1>1, <1>8, <1>11
<1> HIDE DEF m
<1>17. /\ Same(m, k, PeekFields) /\ HasFields(k)
       /\ k.calls = Reader(k) + Acceptors(k) /\ k.mapped
  BY <1>0, <1>1, <1>11, <1>16, EvenFinish DEF m, n
<1> HIDE DEF k
<1>18. /\ k.open = m.open /\ k.outputs = m.outputs /\ k.jobs = m.jobs
       /\ k.inputs = m.inputs /\ k.failed = m.failed /\ k.conn = m.conn
       /\ k.out = m.out /\ k.queue = m.queue
  BY <1>11, <1>17, FieldsThere DEF Same, PeekFields
<1>19. CalmClient(k)
  <2>1. 0 \notin Indices(k.queue)
    BY <1>0, <1>2, <1>7, <1>11, <1>18
  <2> QED BY <1>0, <1>13, <1>15, <1>17, <1>18, <2>1 DEF CalmClient, Calm
<1> QED BY <1>13, <1>14, <1>18, <1>19 DEF k

\* What is pushed on an empty queue is sent.
LEMMA PushedSends ==
    ASSUME NEW h, Sound(h), Indices(h.queue) = {}, NEW n \in NumberSet
    PROVE  Queued(h, Pushed(h.queue, n, n)).out # {}
<1> DEFINE q == Pushed(h.queue, n, n)
<1>1. IsQueue(h.queue, NumberSet) /\ HasFields(h)
  BY DEF Sound, QueueOf, Typed
<1>2. q = Started([h.queue EXCEPT !.entries = With(@, n, n)], n)
  BY DEF Pushed
<1>3. q.flying = [h.queue.flying EXCEPT ![n] = @ + 1]
  BY <1>1, <1>2 DEF Started, IsQueue, Queues
<1>4. n \in DOMAIN q.flying /\ q.flying[n] > h.queue.flying[n]
  BY <1>1, <1>3 DEF IsQueue, Queues
<1> HIDE DEF q
<1>5. DatagramOf(h, n) \in Queued(h, q).out
  BY <1>1, <1>4, FieldsThere DEF Queued
<1> QED BY <1>5 DEF q

\* A socket that sends a handshake receives.
LEMMA EvenHandshake ==
    ASSUME NEW h, Sound(h), Whole(h), h.next <= MaxNumber, NEW ack \in Acks,
           ack # NoAck => ack \in h.taken, NEW e, Even(e, h)
    PROVE  LET k == SendHandshake(h, ack)
           IN  /\ Even(e, k) /\ HasFields(k) /\ k.receiving
               /\ k.mapped = h.mapped /\ k.accepting = h.accepting
               /\ Indices(h.queue) = {} => k.out # {}
<1> DEFINE h0 == [h EXCEPT !.next = @ + 1,
                           !.handshakes = @ \union {[seq |-> h.next, ack |-> ack]}]
           h1 == IdempotentStartReceive(h0)
           k  == Queued(h1, Pushed(h1.queue, h.next, h.next))
<1>1. k = SendHandshake(h, ack)
  BY DEF SendHandshake
<1>2. Sound(h0) /\ Same(h, h0, {"next", "handshakes"})
  BY NewShake
<1>3. HasFields(h) /\ h.next \in NumberSet
  BY NextIsNew DEF Sound, Typed
<1> HIDE DEF h0
<1>4. /\ Even(e, h0) /\ HasFields(h0)
      /\ h0.mapped = h.mapped /\ h0.accepting = h.accepting
  BY <1>2, <1>3, EvenSame
<1>5. /\ Even(e, h1) /\ h1.receiving /\ HasFields(h1) /\ Restarts(h0, h1)
      /\ h1.mapped = h0.mapped /\ h1.accepting = h0.accepting
  BY <1>4, EvenStart
<1> HIDE DEF h1
<1>6. Sound(h1) /\ h1.queue = h.queue
  <2>1. Sound(h1) /\ h1.queue = h0.queue
    BY <1>2, <1>5, RestartsSound
  <2> QED BY <1>2, <1>3, <2>1, FieldsThere DEF Same
<1>7. Same(h1, k, {"queue", "out"})
  BY <1>5, FieldsThere DEF Same, Queued
<1>8. Indices(h.queue) = {} => k.out # {}
  BY <1>3, <1>6, PushedSends
<1> HIDE DEF k
<1>9. /\ Even(e, k) /\ HasFields(k) /\ k.receiving = h1.receiving
      /\ k.mapped = h1.mapped /\ k.accepting = h1.accepting
  BY <1>5, <1>7, EvenSame
<1>10. k.receiving /\ k.mapped = h.mapped /\ k.accepting = h.accepting
  BY <1>4, <1>5, <1>9
<1> QED BY <1>1, <1>8, <1>9, <1>10

\* The socket that listens answers the first handshake with its own.
LEMMA ServerAnswers ==
    ASSUME NEW s, Stable(s), ServerInv(s), CalmServer(s), s.conn = "listening",
           s.peeks > 0, s.out = {}, s.next <= MaxNumber, s.taken = {},
           NEW d \in Datagrams, d.type = "handshake", d.seq = 0, d.ack = NoAck
    PROVE  LET k == ProcessPeek(s, d)
           IN  CalmServer(k) /\ k.conn = "listening" /\ k.out # {}
<1> DEFINE n  == Peeked(s)
           t  == OnAnyPacketReceived(n)
           h1 == Take(t, 0)
           m  == Dispatch(n, d)
           k  == ProcessPeek(s, d)
<1>0. /\ s.failed = "no" /\ s.open /\ Calm(s) /\ ~ s.mapped /\ s.accepting
      /\ s.attached /\ HasFields(s) /\ s.inputs = 0 /\ ~ s.receiving
      /\ s.outputs = <<>> /\ s.jobs = 0 /\ s.sent = <<>>
  BY StableMeans DEF CalmServer, Calm
<1>1. s.next = 0 /\ Indices(s.queue) = {}
  <2>1. ASSUME s.next > 0 PROVE FALSE
    <3>1. PICK x \in s.handshakes : x.seq = 0
      BY <2>1 DEF Stable, Shakes
    <3>2. x.ack # NoAck
      BY DEF ServerInv, ServerShakes
    <3> QED BY <3>2 DEF Stable, Sound, Numbered
  <2> QED BY <2>1, StableMeans
<1>2. /\ s.calls > 0 /\ Same(s, n, {"peeks"})
      /\ Even(s.calls, t) /\ ~ t.receiving /\ HasFields(t)
      /\ Same(n, t, {"receiving", "keepalive"})
      /\ t.mapped = s.mapped /\ t.accepting = s.accepting
  BY <1>0, CalmPeeked
<1>3. /\ Sound(n) /\ Whole(n) /\ n.conn = s.conn /\ n.queue = s.queue
      /\ n.failed = "no" /\ n.out = {}
  BY <1>0, PeekedMeans
<1>4. n.next = 0 /\ n.taken = {} /\ HasFields(n)
  BY <1>0, <1>1, <1>2, FieldsThere, SameHas DEF Same
<1> HIDE DEF n
<1>5. 0 \in NumberSet /\ 0 \in Acks /\ 0 # NoAck /\ 0 <= MaxNumber
  BY NumberAssumption, HeaderAssumption DEF Acks, NumberSet
<1>6. /\ Sound(h1) /\ Whole(h1) /\ h1.taken = {0} /\ h1.next = 0 /\ h1.queue = n.queue
  <2>1. /\ Sound(h1) /\ h1.taken = n.taken \union {0} /\ h1.next = n.next
        /\ h1.queue = n.queue /\ Whole(h1)
    BY <1>3, <1>4, <1>5, PacketTaken, ZenonT(40)
  <2> QED BY <1>4, <2>1
<1>7. Same(t, h1, {"history", "taken"})
  BY <1>2, FieldsThere DEF Same, Take
<1> HIDE DEF h1
<1>8. /\ Even(s.calls, h1) /\ HasFields(h1)
      /\ h1.mapped = t.mapped /\ h1.accepting = t.accepting
  BY <1>2, <1>7, EvenSame
<1> DEFINE a == SendHandshake(h1, 0)
<1>9. /\ Even(s.calls, a) /\ HasFields(a) /\ a.receiving
      /\ a.mapped = h1.mapped /\ a.accepting = h1.accepting
      /\ Indices(h1.queue) = {} => a.out # {}
  BY <1>5, <1>6, <1>8, EvenHandshake
<1>10. /\ Same(h1, a, ReadFields \union {"next", "handshakes", "queue", "out"})
       /\ a.next = h1.next + 1
  BY <1>5, <1>6, HandshakeSent
<1>11. ProcessHandshake(n, d) = a
  BY <1>0, <1>3 DEF ProcessHandshake, h1
<1> HIDE DEF a, t
<1>12. m = a
  <2>1. Processed(n, d) = a
    BY <1>11, ByType
  <2>2. m = ProcessAcknowledgement(a, NoAck)
    BY <1>9, <2>1, DispatchSteps DEF Even
  <2> QED BY <2>2 DEF ProcessAcknowledgement
<1>13. /\ m.open = s.open /\ m.outputs = s.outputs /\ m.jobs = s.jobs
       /\ m.inputs = s.inputs /\ m.failed = "no" /\ m.sent = s.sent
       /\ m.conn = s.conn /\ m.attached = s.attached /\ m.taken = {0}
  <2>1. /\ n.open = s.open /\ n.outputs = s.outputs /\ n.jobs = s.jobs
        /\ n.inputs = s.inputs /\ n.sent = s.sent /\ n.attached = s.attached
    BY <1>0, <1>2, FieldsThere DEF Same
  <2>2. /\ t.open = n.open /\ t.outputs = n.outputs /\ t.jobs = n.jobs
        /\ t.inputs = n.inputs /\ t.sent = n.sent /\ t.conn = n.conn
        /\ t.attached = n.attached
    BY <1>2, <1>4, FieldsThere DEF Same
  <2>3. /\ h1.open = t.open /\ h1.outputs = t.outputs /\ h1.jobs = t.jobs
        /\ h1.inputs = t.inputs /\ h1.sent = t.sent /\ h1.conn = t.conn
        /\ h1.attached = t.attached
    BY <1>2, <1>7, FieldsThere DEF Same
  <2>4. /\ a.open = h1.open /\ a.outputs = h1.outputs /\ a.jobs = h1.jobs
        /\ a.inputs = h1.inputs /\ a.sent = h1.sent /\ a.conn = h1.conn
        /\ a.attached = h1.attached /\ a.taken = h1.taken
    BY <1>8, <1>10, FieldsThere DEF Same, ReadFields
  <2> QED BY <1>3, <1>6, <1>9, <1>12, <2>1, <2>2, <2>3, <2>4 DEF Even
<1>14. m.mapped = s.mapped /\ m.accepting = s.accepting /\ HasFields(m) /\ Even(s.calls, m)
  BY <1>2, <1>8, <1>9, <1>12
<1>15. m.out # {} /\ m.next = 1
  BY <1>1, <1>3, <1>6, <1>9, <1>10, <1>12
<1> HIDE DEF m
<1>16. /\ Same(m, k, PeekFields) /\ HasFields(k)
       /\ k.calls = Reader(k) + Acceptors(k) /\ ~ k.mapped /\ k.accepting
  <2>1. m.conn # "established"
    BY <1>13
  <2> QED BY <1>0, <1>2, <1>14, <2>1, EvenFinish DEF m, n
<1> HIDE DEF k
<1>17. /\ k.open = m.open /\ k.outputs = m.outputs /\ k.jobs = m.jobs
       /\ k.inputs = m.inputs /\ k.failed = m.failed /\ k.sent = m.sent
       /\ k.conn = m.conn /\ k.attached = m.attached /\ k.taken = m.taken
       /\ k.out = m.out /\ k.next = m.next
  BY <1>14, <1>16, FieldsThere DEF Same, PeekFields
<1>18. Calm(k)
  BY <1>0, <1>13, <1>16, <1>17 DEF Calm
<1>19. CalmServer(k)
  BY <1>0, <1>13, <1>15, <1>16, <1>17, <1>18 DEF CalmServer
<1> QED BY <1>13, <1>15, <1>17, <1>19 DEF k

\* The keepalive of the client ends the handshake of the server.
LEMMA ServerAccepts ==
    ASSUME NEW s, Stable(s), ServerInv(s), CalmServer(s), s.conn = "listening",
           s.peeks > 0, s.out = {}, s.next <= MaxNumber, s.taken # {},
           NEW d \in Datagrams, d.type = "keepalive", d.seq = 1, d.ack = 0
    PROVE  LET k == ProcessPeek(s, d)
           IN  CalmServer(k) /\ k.conn = "established" /\ k.out = {}
<1> DEFINE n  == Peeked(s)
           t  == OnAnyPacketReceived(n)
           m1 == ProcessKeepalive(n, d)
           m  == Dispatch(n, d)
           k  == ProcessPeek(s, d)
<1>0. /\ s.failed = "no" /\ s.open /\ Calm(s) /\ ~ s.mapped /\ s.accepting
      /\ s.attached /\ HasFields(s) /\ s.inputs = 0 /\ s.next \in Nat /\ s.next <= 1
      /\ s.outputs = <<>> /\ s.jobs = 0 /\ s.sent = <<>>
  BY StableMeans DEF CalmServer, Calm
<1>1. /\ s.next = 1 /\ 0 \in Shakes(s) /\ 0 \in Indices(s.queue) /\ s.receiving
      /\ Indices(s.queue) \subseteq {0} /\ s.taken = {0} /\ s.history = {0}
  <2>1. 0 \in Shakes(s) /\ s.next > 0
    BY HandshakeOfZero
  <2>2. s.taken = {0} /\ 0 \in Indices(s.queue)
    BY <1>0, <2>1 DEF ServerInv
  <2>3. s.receiving
    BY <1>0, <2>2 DEF Stable
  <2>4. \A i \in Indices(s.queue) : i < s.next /\ i \in Nat
    BY DEF Stable, Sound, QueueOf, IsQueue
  <2>5. Indices(s.queue) \subseteq {0}
    BY <1>0, <2>4
  <2>6. PICK f \in NumberSet : s.history = {f} /\ s.taken = 0 .. f
    BY <1>0, <2>2 DEF Stable, Whole
  <2>7. f \in 0 .. f
    BY <2>6, NumbersAreNaturals
  <2>8. f = 0
    BY <2>2, <2>6, <2>7
  <2> QED BY <1>0, <2>1, <2>2, <2>3, <2>5, <2>6, <2>8
<1>2. /\ s.calls > 0 /\ Same(s, n, {"peeks"})
      /\ Even(s.calls, t) /\ ~ t.receiving /\ HasFields(t)
      /\ Same(n, t, {"receiving", "keepalive"})
      /\ t.mapped = s.mapped /\ t.accepting = s.accepting
  BY <1>0, CalmPeeked
<1>3. /\ Sound(n) /\ Whole(n) /\ n.conn = s.conn /\ n.queue = s.queue
      /\ n.failed = "no" /\ n.out = {}
  BY <1>0, PeekedMeans
<1>4. /\ n.history = {0} /\ n.taken = {0} /\ HasFields(n) /\ n.handshakes = s.handshakes
  BY <1>0, <1>1, <1>2, FieldsThere, SameHas DEF Same
<1> HIDE DEF n
<1>5. 0 \in Acks /\ 0 # NoAck
  BY NumberAssumption, HeaderAssumption DEF Acks, NumberSet
<1>6. IsExpectedPacket(n, 1)
  BY <1>4, FirstOf, MaxAssumption DEF IsExpectedPacket, Successor
<1>7. m1 = Take(t, 1)
  BY <1>6 DEF ProcessKeepalive
<1>8. Same(t, m1, {"history", "taken"})
  BY <1>2, <1>7, FieldsThere DEF Same, Take
<1>9. Fits(n, d)
  BY <1>3, <1>4, <1>5 DEF Fits
<1>10. /\ Received(n, m1, d) /\ m1.handshakes = n.handshakes
       /\ m1.queue = n.queue /\ m1.conn = n.conn
  BY <1>3, <1>9, KeepaliveMeans
<1> HIDE DEF m1
<1>11. /\ Even(s.calls, m1) /\ HasFields(m1) /\ ~ m1.receiving
       /\ m1.mapped = t.mapped /\ m1.accepting = t.accepting
  BY <1>2, <1>8, EvenSame
<1>12. m = ProcessAcknowledgement(m1, 0)
  BY <1>11, DispatchSteps, ByType DEF Even, m1
<1>13. Sound(m1) /\ Whole(m1) /\ ServerShakes(m1) /\ m1.conn = "listening"
  BY <1>3, <1>4, <1>10, <1>11 DEF Received, ServerShakes, Even, ServerInv
<1>14. /\ Even(s.calls, m) /\ HasFields(m)
       /\ m.mapped = m1.mapped /\ m.accepting = m1.accepting
       /\ Indices(m.queue) = Indices(m1.queue) \ {0}
       /\ Indices(m.queue) = {} => m.receiving = m1.receiving
       /\ Puts(m1, m, IF 0 \in Indices(m1.queue) THEN Indices(m.queue) ELSE {})
  BY <1>5, <1>11, <1>12, <1>13, EvenAck
<1>15. 0 \in Indices(m1.queue) \intersect Shakes(m1)
  BY <1>1, <1>3, <1>4, <1>10 DEF Shakes
<1>16. Same(m1, m, AckFields) /\ m.conn = "established"
  <2> DEFINE a == ProcessAcknowledgement(m1, 0)
  <2>1. Same(m1, a, AckFields)
    BY <1>5, <1>13, AcknowledgementMeans, ZenonT(40)
  <2>2. a.conn = "established"
    BY <1>5, <1>13, <1>15, AcknowledgementMeans, ZenonT(40)
  <2> QED BY <1>12, <2>1, <2>2
<1>17. Indices(m.queue) = {} /\ ~ m.receiving
  BY <1>1, <1>3, <1>10, <1>11, <1>14
<1>18. m.out = {}
  <2>1. m1.out = {}
    <3>1. t.out = n.out
      BY <1>2, <1>4, FieldsThere DEF Same
    <3>2. m1.out = t.out
      BY <1>2, <1>8, FieldsThere DEF Same
    <3> QED BY <1>3, <3>1, <3>2
  <2> QED BY <1>14, <1>17, <2>1 DEF Puts
<1>19. /\ m.open = s.open /\ m.outputs = s.outputs /\ m.jobs = s.jobs
       /\ m.inputs = s.inputs /\ m.failed = "no" /\ m.sent = s.sent
       /\ m.attached = s.attached
  <2>1. /\ n.open = s.open /\ n.outputs = s.outputs /\ n.jobs = s.jobs
        /\ n.inputs = s.inputs /\ n.sent = s.sent /\ n.attached = s.attached
    BY <1>0, <1>2, FieldsThere DEF Same
  <2>2. /\ t.open = n.open /\ t.outputs = n.outputs /\ t.jobs = n.jobs
        /\ t.inputs = n.inputs /\ t.sent = n.sent /\ t.attached = n.attached
    BY <1>2, <1>4, FieldsThere DEF Same
  <2>3. /\ m1.open = t.open /\ m1.outputs = t.outputs /\ m1.jobs = t.jobs
        /\ m1.inputs = t.inputs /\ m1.sent = t.sent /\ m1.attached = t.attached
    BY <1>2, <1>8, FieldsThere DEF Same
  <2>4. /\ m.open = m1.open /\ m.outputs = m1.outputs /\ m.jobs = m1.jobs
        /\ m.inputs = m1.inputs /\ m.sent = m1.sent /\ m.attached = m1.attached
    BY <1>11, <1>16, FieldsThere DEF Same, AckFields, ReadFields
  <2> QED BY <1>14, <2>1, <2>2, <2>3, <2>4 DEF Even
<1>20. m.mapped = s.mapped /\ m.accepting = s.accepting
  BY <1>2, <1>11, <1>14
<1> HIDE DEF m, t
<1>21. /\ Same(m, k, PeekFields) /\ HasFields(k)
       /\ k.calls = Reader(k) + Acceptors(k) /\ k.mapped /\ ~ k.accepting
  BY <1>0, <1>1, <1>2, <1>14, <1>16, <1>20, EvenFinish DEF m, n
<1> HIDE DEF k
<1>22. /\ k.open = m.open /\ k.outputs = m.outputs /\ k.jobs = m.jobs
       /\ k.inputs = m.inputs /\ k.failed = m.failed /\ k.sent = m.sent
       /\ k.conn = m.conn /\ k.attached = m.attached /\ k.receiving = m.receiving
       /\ k.out = m.out /\ k.queue = m.queue
  BY <1>14, <1>21, FieldsThere DEF Same, PeekFields
<1>23. Calm(k)
  BY <1>0, <1>19, <1>21, <1>22 DEF Calm
<1>24. ~ k.receiving /\ k.inputs = 0
  BY <1>0, <1>17, <1>19, <1>22
<1>25. CalmServer(k)
  BY <1>0, <1>16, <1>17, <1>19, <1>21, <1>22, <1>23, <1>24 DEF CalmServer
<1> QED BY <1>16, <1>18, <1>22, <1>25 DEF k

\* No handshake is among the headers of S.
NoHandshake(S) == \A b \in S : Decode(b).type # "handshake"

\* Data is given to the receive that waits, or is not the expected packet.
LEMMA EvenData ==
    ASSUME NEW h, Sound(h), Whole(h), h.next <= MaxNumber, h.failed = "no", h.inputs > 0,
           h.out = {}, Indices(h.queue) = {}, h.taken # {}, h.calls \in 0 .. 2,
           h.calls <= Sockets(h) + Acceptors(h) + 1,
           NEW d \in Datagrams
    PROVE  LET k == ProcessData(h, d)
           IN  /\ Even(h.calls, k) /\ HasFields(k)
               /\ k.mapped = h.mapped /\ k.accepting = h.accepting
               /\ k.receiving <=> k.inputs > 0
               /\ k.inputs \in Nat /\ NoHandshake(k.out)
               /\ Same(h, k, ReadFields \union {"history", "taken", "inputs", "lent",
                                                "delivered", "next", "out"})
<1> DEFINE t == OnAnyPacketReceived(h)
           u == Take(t, d.seq)
           v == [u EXCEPT !.inputs = @ - 1, !.lent = FALSE,
                          !.delivered = Append(@, IF h.lent THEN Garbled ELSE d.seq)]
           w == SendKeepalive(v, LastSeen(u))
           k == ProcessData(h, d)
           F == {"history", "taken", "inputs", "lent", "delivered", "next", "out"}
<1>1. HasFields(h) /\ h.inputs \in Nat
  BY DEF Sound, Typed
<1>2. /\ Even(h.calls, t) /\ ~ t.receiving /\ HasFields(t)
      /\ Same(h, t, {"receiving", "keepalive"})
      /\ t.mapped = h.mapped /\ t.accepting = h.accepting
  BY <1>1, EvenPacket
<1>3. /\ t.inputs = h.inputs /\ t.out = h.out /\ t.queue = h.queue /\ t.next = h.next
      /\ t.lent = h.lent /\ t.history = h.history
  BY <1>1, <1>2, FieldsThere DEF Same
<1>4. CASE ~ IsExpectedPacket(h, d.seq)
  <2>1. k = IdempotentStartReceive(t)
    BY <1>4 DEF ProcessData
  <2>2. /\ Even(h.calls, k) /\ k.receiving /\ HasFields(k) /\ Restarts(t, k)
        /\ k.mapped = t.mapped /\ k.accepting = t.accepting
    BY <1>2, <2>1, EvenStart
  <2> HIDE DEF k, t
  <2>3. k.inputs = t.inputs /\ k.out = t.out
    BY <1>2, <2>2, FieldsThere DEF Restarts, Same, ReadFields
  <2>4. Same(h, k, ReadFields \union F)
    BY <1>2, <2>2 DEF Restarts, Same, ReadFields
  <2> QED BY <1>1, <1>2, <1>3, <2>2, <2>3, <2>4 DEF k, NoHandshake
<1>5. CASE IsExpectedPacket(h, d.seq)
  <2>1. u.inputs = t.inputs /\ u.lent = t.lent /\ Same(t, u, {"history", "taken"}) /\ HasFields(u)
    BY <1>2, FieldsThere, SameHas DEF Take, Same
  <2>2. k = RestartIfWaiting(w)
    BY <1>1, <1>3, <1>5, <2>1 DEF ProcessData
  <2>3. LastSeen(u) \in Acks
    <3>1. d.seq \in NumberSet /\ Sound(t) /\ Whole(t) /\ SameNumbers(h, t)
      BY AnyPacketMeans DEF Datagrams, NumberSet
    <3>2. t.taken # {} /\ IsExpectedPacket(t, d.seq)
      BY <1>3, <1>5, <3>1 DEF SameNumbers, IsExpectedPacket
    <3>3. Sound(u) /\ Whole(u)
      BY <3>1, <3>2, TakeMeans
    <3> HIDE DEF u
    <3>4. u.taken \subseteq NumberSet
      BY <3>3 DEF Sound, Typed
    <3> QED BY <3>3, <3>4, LastSeenTaken DEF Acks
  <2> HIDE DEF t, k
  <2>4. /\ Same(u, w, {"inputs", "lent", "delivered", "next", "out"})
        /\ w.inputs = u.inputs - 1
        /\ w.out = u.out \union {Encode(0, [type |-> "keepalive", seq |-> u.next,
                                            ack |-> LastSeen(u)])}
    BY <2>1, FieldsThere DEF SendKeepalive, Same
  <2> HIDE DEF w, u
  <2>5. u.out = {} /\ u.next = h.next
    BY <1>2, <1>3, <2>1, FieldsThere DEF Same
  <2>6. NoHandshake(w.out)
    <3> DEFINE e == [type |-> "keepalive", seq |-> h.next, ack |-> LastSeen(u)]
    <3>1. h.next \in 0 .. MaxNumber
      BY NextIsNew DEF NumberSet
    <3>2. e \in Datagrams /\ e.type = "keepalive"
      BY <2>3, <3>1 DEF Datagrams, Acks, NumberSet
    <3>3. w.out = {Encode(0, e)}
      BY <2>4, <2>5
    <3> HIDE DEF e
    <3> QED BY <3>2, <3>3, Decoded DEF NoHandshake
  <2>7. /\ Even(h.calls, w) /\ HasFields(w) /\ ~ w.receiving
        /\ w.mapped = h.mapped /\ w.accepting = h.accepting
    <3>1. Same(t, w, F)
      BY <2>1, <2>4 DEF Same
    <3>2. F \intersect {"receiving", "calls", "failed", "mapped", "accepting"} = {}
      OBVIOUS
    <3> HIDE DEF F
    <3>3. /\ Even(h.calls, w) /\ HasFields(w) /\ w.receiving = t.receiving
          /\ w.mapped = t.mapped /\ w.accepting = t.accepting
      BY <1>2, <3>1, <3>2, EvenSame
    <3> QED BY <1>2, <3>3
  <2>8. w.inputs \in Nat /\ Indices(w.queue) = {}
    <3>1. w.queue = u.queue /\ u.queue = t.queue
      BY <1>2, <2>1, <2>4, FieldsThere DEF Same
    <3> QED BY <1>1, <1>3, <2>1, <2>4, <3>1
  <2>9. CASE w.inputs > 0
    <3>1. k = IdempotentStartReceive(w)
      BY <2>2, <2>9 DEF RestartIfWaiting
    <3>2. /\ Even(h.calls, k) /\ k.receiving /\ HasFields(k) /\ Restarts(w, k)
          /\ k.mapped = w.mapped /\ k.accepting = w.accepting
      BY <2>7, <3>1, EvenStart
    <3>3. k.inputs = w.inputs /\ k.out = w.out
      BY <2>7, <3>2, FieldsThere DEF Restarts, Same, ReadFields
    <3>4. Same(h, k, ReadFields \union F)
      BY <1>2, <2>1, <2>4, <3>2 DEF Restarts, Same, ReadFields
    <3> QED BY <2>6, <2>7, <2>8, <2>9, <3>2, <3>3, <3>4 DEF k
  <2>10. CASE ~ (w.inputs > 0)
    <3>1. k = w
      BY <2>2, <2>8, <2>10 DEF RestartIfWaiting
    <3>2. Same(h, k, ReadFields \union F)
      BY <1>2, <2>1, <2>4, <3>1 DEF Restarts, Same, ReadFields
    <3> QED BY <2>6, <2>7, <2>8, <2>10, <3>1, <3>2 DEF k
  <2> QED BY <2>9, <2>10
<1> QED BY <1>4, <1>5

\* A connected server gives the data that comes to the receive it reads for.
LEMMA ServerHandsOut ==
    ASSUME NEW s, Stable(s), ServerInv(s), CalmServer(s), s.conn = "established",
           s.peeks > 0, s.out = {}, s.next <= MaxNumber, s.taken # {},
           NEW d, Fits(s, d), d.type = "data"
    PROVE  LET k == ProcessPeek(s, d)
           IN  CalmServer(k) /\ k.conn = "established" /\ NoHandshake(k.out)
<1> DEFINE n  == Peeked(s)
           m1 == ProcessData(n, d)
           m  == Dispatch(n, d)
           k  == ProcessPeek(s, d)
<1>0. /\ s.failed = "no" /\ s.open /\ Calm(s) /\ s.mapped /\ ~ s.accepting
      /\ s.attached /\ HasFields(s) /\ Indices(s.queue) = {} /\ s.inputs \in Nat
      /\ s.outputs = <<>> /\ s.jobs = 0 /\ s.sent = <<>>
      /\ s.receiving <=> s.inputs > 0
  BY StableMeans DEF CalmServer, Calm, Typed
<1>1. /\ s.calls > 0 /\ s.calls \in 0 .. 2 /\ Same(s, n, {"peeks"}) /\ n.calls = s.calls
      /\ ~ TooManyCalls(s)
  BY <1>0, CalmPeeked
<1>2. /\ Sound(n) /\ Whole(n) /\ n.conn = s.conn /\ n.queue = s.queue
      /\ n.failed = "no" /\ n.out = {} /\ n.inputs = s.inputs
      /\ n.mapped = s.mapped /\ n.accepting = s.accepting
  BY <1>0, PeekedMeans
<1>3. /\ n.next = s.next /\ n.taken = s.taken /\ HasFields(n)
      /\ n.handshakes = s.handshakes
  BY <1>0, <1>1, FieldsThere, SameHas DEF Same
<1>4. s.inputs > 0
  <2>1. Acceptors(s) = 0
    BY <1>0 DEF Acceptors
  <2>2. s.calls = Reader(s) + Acceptors(s)
    BY <1>0 DEF Calm
  <2>3. s.receiving
    BY <1>1, <2>1, <2>2, ReaderIs
  <2> QED BY <1>0, <2>3
<1>5. n.calls <= Sockets(n) + Acceptors(n) + 1
  <2>1. Sockets(n) = 1 /\ Acceptors(n) = 0
    BY <1>0, <1>2 DEF Sockets, Acceptors
  <2> QED BY <1>1, <2>1
<1>6. Fits(n, d) /\ d \in Datagrams
  BY <1>0, FitsPeeked DEF Fits
<1> HIDE DEF n
<1>7. /\ Even(n.calls, m1) /\ HasFields(m1)
      /\ m1.mapped = n.mapped /\ m1.accepting = n.accepting
      /\ m1.receiving <=> m1.inputs > 0
      /\ m1.inputs \in Nat /\ NoHandshake(m1.out)
      /\ Same(n, m1, ReadFields \union {"history", "taken", "inputs", "lent",
                                        "delivered", "next", "out"})
  BY <1>0, <1>1, <1>2, <1>3, <1>4, <1>5, <1>6, EvenData
<1>8. Received(n, m1, d) /\ m1.queue = n.queue /\ m1.handshakes = n.handshakes
      /\ m1.conn = n.conn
  BY <1>2, <1>3, <1>6, DataMeans
<1>9. m = ProcessAcknowledgement(m1, d.ack)
  BY <1>7, DispatchSteps, ByType DEF Even
<1> HIDE DEF m1
<1>10. Sound(m1) /\ Whole(m1) /\ ServerShakes(m1) /\ m1.conn = "established"
  BY <1>2, <1>3, <1>7, <1>8 DEF Received, ServerShakes, Even, ServerInv
<1>11. Indices(m1.queue) = {}
  BY <1>0, <1>2, <1>8
<1>12. /\ Even(n.calls, m) /\ HasFields(m)
       /\ m.mapped = m1.mapped /\ m.accepting = m1.accepting
       /\ Indices(m.queue) = {} /\ m.receiving = m1.receiving
       /\ NoHandshake(m.out) /\ Same(m1, m, AckFields)
  <2>1. CASE d.ack = NoAck
    <3>1. m = m1
      BY <1>9, <2>1 DEF ProcessAcknowledgement
    <3> QED BY <1>7, <1>11, <3>1 DEF Same
  <2>2. CASE d.ack # NoAck
    <3> DEFINE a == ProcessAcknowledgement(m1, d.ack)
    <3>1. d.ack \in Acks
      BY <1>6 DEF Datagrams, Acks, NumberSet
    <3>2. /\ Even(n.calls, a) /\ HasFields(a)
          /\ a.mapped = m1.mapped /\ a.accepting = m1.accepting
          /\ Indices(a.queue) = Indices(m1.queue) \ {d.ack}
          /\ Indices(a.queue) = {} => a.receiving = m1.receiving
          /\ Puts(m1, a, IF d.ack \in Indices(m1.queue) THEN Indices(a.queue) ELSE {})
      BY <1>7, <1>10, <2>2, <3>1, EvenAck
    <3>3. Same(m1, a, AckFields)
      BY <1>10, <2>2, <3>1, AcknowledgementMeans, ZenonT(40)
    <3>4. m = a
      BY <1>9
    <3> HIDE DEF a, m
    <3>5. Indices(a.queue) = {}
      BY <1>11, <3>2
    <3>6. NoHandshake(a.out)
      BY <1>7, <1>11, <3>2 DEF Puts, NoHandshake
    <3> QED BY <3>2, <3>3, <3>4, <3>5, <3>6
  <2> QED BY <2>1, <2>2
<1>13. m.conn = "established"
  <2>1. ServerShakes(n) /\ n.next <= MaxNumber
    BY <1>3 DEF ServerShakes, ServerInv
  <2>2. Dispatch(n, d).conn = "established"
    BY <1>2, <1>6, <2>1, ServerDispatch
  <2> QED BY <2>2
<1>14. /\ m.open = s.open /\ m.outputs = s.outputs /\ m.jobs = s.jobs
       /\ m.inputs = m1.inputs /\ m.failed = "no" /\ m.sent = s.sent
       /\ m.attached = s.attached
  <2>1. /\ n.open = s.open /\ n.outputs = s.outputs /\ n.jobs = s.jobs
        /\ n.sent = s.sent /\ n.attached = s.attached
    BY <1>0, <1>1, FieldsThere DEF Same
  <2>2. /\ m1.open = n.open /\ m1.outputs = n.outputs /\ m1.jobs = n.jobs
        /\ m1.sent = n.sent /\ m1.attached = n.attached
    BY <1>3, <1>7, FieldsThere DEF Same, ReadFields
  <2>3. /\ m.open = m1.open /\ m.outputs = m1.outputs /\ m.jobs = m1.jobs
        /\ m.inputs = m1.inputs /\ m.sent = m1.sent /\ m.attached = m1.attached
    BY <1>7, <1>12, FieldsThere DEF Same, AckFields, ReadFields
  <2> QED BY <1>12, <2>1, <2>2, <2>3 DEF Even
<1>15. m.mapped = s.mapped /\ m.accepting = s.accepting /\ Even(s.calls, m)
  BY <1>1, <1>2, <1>7, <1>12
<1>16. m.receiving <=> m.inputs > 0
  BY <1>7, <1>12, <1>14
<1> HIDE DEF m
<1>17. /\ Same(m, k, PeekFields) /\ HasFields(k)
       /\ k.calls = Reader(k) + Acceptors(k) /\ k.mapped /\ ~ k.accepting
  BY <1>0, <1>1, <1>12, <1>15, EvenFinish DEF m, n
<1> HIDE DEF k
<1>18. /\ k.open = m.open /\ k.outputs = m.outputs /\ k.jobs = m.jobs
       /\ k.inputs = m.inputs /\ k.failed = m.failed /\ k.sent = m.sent
       /\ k.conn = m.conn /\ k.attached = m.attached /\ k.receiving = m.receiving
       /\ k.out = m.out /\ k.queue = m.queue
  BY <1>12, <1>17, FieldsThere DEF Same, PeekFields
<1>19. Calm(k)
  BY <1>0, <1>14, <1>17, <1>18 DEF Calm
<1>20. k.receiving <=> k.inputs > 0
  BY <1>16, <1>18
<1>21. CalmServer(k)
  BY <1>0, <1>12, <1>13, <1>14, <1>17, <1>18, <1>19, <1>20 DEF CalmServer
<1> QED BY <1>12, <1>13, <1>18, <1>21 DEF k

\* Calm is kept where nothing of it changes.
LEMMA StillClient ==
    ASSUME NEW h, HasFields(h), CalmClient(h), NEW k,
           Same(h, k, {"queue", "out", "confirming", "conn"}), k.conn = h.conn,
           Indices(k.queue) = Indices(h.queue)
    PROVE  CalmClient(k) /\ k.taken = h.taken
<1>1. /\ k.failed = h.failed /\ k.open = h.open /\ k.calls = h.calls
      /\ k.outputs = h.outputs /\ k.jobs = h.jobs /\ k.inputs = h.inputs
      /\ k.receiving = h.receiving /\ k.mapped = h.mapped /\ k.taken = h.taken
      /\ k.accepting = h.accepting
  BY FieldsThere DEF Same
<1>2. Reader(k) = Reader(h) /\ Acceptors(k) = Acceptors(h)
  BY <1>1 DEF Reader, Acceptors
<1>3. Calm(k)
  BY <1>1, <1>2 DEF Calm, CalmClient
<1> QED BY <1>1, <1>3 DEF CalmClient

\* ... on the server as well.
LEMMA StillServer ==
    ASSUME NEW h, HasFields(h), CalmServer(h), NEW k,
           Same(h, k, {"queue", "out", "confirming", "conn"}), k.conn = h.conn,
           Indices(k.queue) = Indices(h.queue)
    PROVE  CalmServer(k) /\ k.taken = h.taken /\ k.accepted = h.accepted
<1>1. /\ k.failed = h.failed /\ k.open = h.open /\ k.calls = h.calls
      /\ k.outputs = h.outputs /\ k.jobs = h.jobs /\ k.inputs = h.inputs
      /\ k.receiving = h.receiving /\ k.mapped = h.mapped /\ k.taken = h.taken
      /\ k.accepting = h.accepting /\ k.accepted = h.accepted /\ k.sent = h.sent
      /\ k.attached = h.attached /\ k.next = h.next
  BY FieldsThere DEF Same
<1>2. Reader(k) = Reader(h) /\ Acceptors(k) = Acceptors(h)
  BY <1>1 DEF Reader, Acceptors
<1>3. Calm(k)
  BY <1>1, <1>2 DEF Calm, CalmServer
<1> QED BY <1>1, <1>3 DEF CalmServer

\* Connecting sends the handshake.
LEMMA ConnectCalm ==
    ASSUME NEW c, Stable(c), ClientInv(c), CalmClient(c), c.conn = "closed",
           c.attached, c.out = {}, c.next <= MaxNumber
    PROVE  LET k == AsyncConnect(c)
           IN  /\ CalmClient(k) /\ k.taken = c.taken
               /\ \A b \in k.out : Decode(b).type = "handshake"
<1> DEFINE h == [c EXCEPT !.conn = "connecting", !.mapped = TRUE]
           k == AsyncConnect(c)
<1>0. /\ HasFields(c) /\ c.failed = "no" /\ c.open /\ Calm(c) /\ ~ c.accepting
      /\ c.outputs = <<>> /\ c.jobs = 0 /\ c.inputs = 0 /\ c.taken = {} /\ c.next = 0
      /\ Sound(c) /\ Whole(c) /\ Typed(c) /\ Indices(c.queue) = {}
  BY StableMeans DEF CalmClient, Calm, ClientInv, Untouched, Stable
<1>1. Same(c, h, {"conn", "mapped"}) /\ h.conn = "connecting" /\ h.mapped
  BY <1>0, FieldsThere DEF Same
<1> HIDE DEF h
<1>2. k = SendHandshake(h, NoAck)
  BY DEF AsyncConnect, h
<1> HIDE DEF k
<1>3. /\ h.inputs = c.inputs /\ h.outputs = c.outputs /\ h.delivered = c.delivered
      /\ h.aborts = c.aborts /\ h.calls = c.calls /\ h.confirming = c.confirming
      /\ h.failed = c.failed /\ h.receiving = c.receiving /\ h.accepting = c.accepting
      /\ h.open = c.open /\ h.jobs = c.jobs /\ h.taken = c.taken /\ h.next = c.next
      /\ HasFields(h)
  BY <1>0, <1>1, FieldsThere, SameHas DEF Same
<1>4. /\ Sound(h) /\ Whole(h) /\ h.queue = c.queue /\ h.out = c.out
      /\ h.handshakes = c.handshakes
  <2>1. Same(c, h, QuietFields)
    BY <1>1, SameWider DEF QuietFields
  <2>2. h.conn \in Connectivity
    BY <1>1 DEF Connectivity
  <2>4. /\ h.inputs \in Nat /\ h.confirming \in Nat /\ h.outputs \in Seq(Pieces)
        /\ h.delivered \in Seq(Pieces) /\ h.aborts \subseteq NumberSet
        /\ h.calls \in 0 .. 15
    BY <1>0, <1>3 DEF Typed
  <2>3. /\ Sound(h) /\ Whole(h) /\ h.queue = c.queue /\ h.out = c.out
    BY <1>0, <2>1, <2>2, <2>4, QuietSound
  <2> QED BY <1>0, <1>1, <2>3, FieldsThere DEF Same
<1>5. Even(0, h)
  <2>1. Acceptors(c) = 0 /\ Acceptors(h) = 0 /\ Reader(h) = Reader(c)
    BY <1>0, <1>3 DEF Acceptors, Reader
  <2>2. Sockets(h) \in {0, 1} /\ Reader(c) \in {0, 1}
    BY Receivers, ReaderIs
  <2> QED BY <1>0, <1>3, <2>1, <2>2 DEF Even, Calm
<1>6. NoAck \in Acks
  BY DEF Acks
<1>7. /\ Even(0, k) /\ HasFields(k) /\ k.mapped = h.mapped /\ k.accepting = h.accepting
  BY <1>0, <1>2, <1>3, <1>4, <1>5, <1>6, EvenHandshake
<1>8. /\ Sound(k) /\ Same(h, k, ReadFields \union {"next", "handshakes", "queue", "out"})
      /\ k.handshakes = h.handshakes \union {Shake(0, NoAck)}
      /\ Puts(h, k, IF Indices(h.queue) = {} THEN {0} ELSE {})
  <2> DEFINE a == SendHandshake(h, NoAck)
  <2>1. h.next <= MaxNumber /\ h.next = 0
    BY <1>0, <1>3
  <2>2. /\ Sound(a) /\ Same(h, a, ReadFields \union {"next", "handshakes", "queue", "out"})
        /\ a.handshakes = h.handshakes \union {Shake(h.next, NoAck)}
        /\ Puts(h, a, IF Indices(h.queue) = {} THEN {h.next} ELSE {})
    BY <1>4, <1>6, <2>1, HandshakeSent, ZenonT(40)
  <2> QED BY <1>2, <2>1, <2>2
<1>9. /\ k.inputs = h.inputs /\ k.outputs = h.outputs /\ k.jobs = h.jobs
      /\ k.open = h.open /\ k.taken = h.taken /\ k.conn = h.conn
  BY <1>3, <1>8, FieldsThere DEF Same, ReadFields
<1>10. k.calls = Reader(k) + Acceptors(k) /\ k.failed = "no"
  <2>1. Acceptors(k) = 0
    BY <1>0, <1>3, <1>7 DEF Acceptors
  <2> QED BY <1>7, <2>1, ReaderIs DEF Even
<1>11. CalmClient(k)
  BY <1>0, <1>1, <1>3, <1>7, <1>9, <1>10 DEF CalmClient, Calm
<1>12. ASSUME NEW b \in k.out PROVE Decode(b).type = "handshake"
  <2>1. PICK d \in Datagrams : b = Encode(0, d) /\ d.seq = 0 /\ SentPacket(k, d)
    BY <1>0, <1>4, <1>8 DEF Puts
  <2>2. Shake(0, NoAck) \in k.handshakes
    BY <1>8
  <2>3. 0 \notin SentBy(k)
    <3>1. Numbered(k)
      BY <1>8 DEF Sound
    <3>2. Shake(0, NoAck).seq = 0
      BY DEF Shake
    <3> QED BY <2>2, <3>1, <3>2 DEF Numbered
  <2>4. 0 \in Shakes(k)
    <3>1. Shake(0, NoAck).seq = 0
      BY DEF Shake
    <3> QED BY <2>2, <3>1 DEF Shakes
  <2>5. d.type # "data" /\ d.type # "keepalive"
    BY <2>1, <2>3, <2>4 DEF SentPacket
  <2>6. d.type = "handshake"
    BY <2>5 DEF Datagrams
  <2> QED BY <2>1, <2>6, Decoded
<1> QED BY <1>3, <1>9, <1>11, <1>12 DEF k

\* The connected client sends data, or queues it.
LEMMA SendCalm ==
    ASSUME NEW c, Stable(c), ClientInv(c), CalmClient(c), c.conn = "established",
           c.out = {}, c.next <= MaxNumber
    PROVE  LET k == AsyncSend(c)
           IN  CalmClient(k) /\ k.taken = c.taken /\ OnlyData(k.out)
<1> DEFINE n == c.next
           h == [c EXCEPT !.next = @ + 1, !.sent = Append(@, c.next)]
           m == IdempotentStartReceive(h)
           k == AsyncSend(c)
<1>0. /\ HasFields(c) /\ c.failed = "no" /\ c.open /\ Calm(c) /\ ~ c.accepting
      /\ c.outputs = <<>> /\ c.jobs = 0 /\ c.inputs = 0 /\ c.mapped
      /\ Sound(c) /\ Whole(c) /\ Typed(c) /\ 0 \notin Indices(c.queue)
      /\ c.handshakes \subseteq {Shake(0, NoAck)} /\ c.taken # {}
  BY StableMeans DEF CalmClient, Calm, ClientInv, Stable
<1>1. /\ n \in NumberSet /\ n # 0 /\ n \notin Indices(c.queue) /\ n \in Nat
  <2>1. n > 0
    BY <1>0, HandshakeOfZero
  <2> QED BY <1>0, <2>1, NextIsNew
<1>2. /\ Sound(h) /\ Same(c, h, {"next", "sent"}) /\ h.next = n + 1 /\ n \in SentBy(h)
      /\ Puts(c, h, {})
  BY <1>0, NewData
<1>3. k = Queued(m, Pushed(m.queue, n, n))
  BY DEF AsyncSend
<1> HIDE DEF h
<1>4. /\ Even(Acceptors(c), h) /\ HasFields(h)
      /\ h.mapped = c.mapped /\ h.accepting = c.accepting
  <2>1. Even(Acceptors(c), c) /\ HasFields(c)
    BY <1>0, CalmEven
  <2>2. Same(c, h, {"next", "sent"})
    BY <1>2
  <2>3. {"next", "sent"} \intersect {"receiving", "calls", "failed", "mapped", "accepting"} = {}
    OBVIOUS
  <2> QED BY <2>1, <2>2, <2>3, EvenSame
<1>5. /\ Even(Acceptors(c), m) /\ HasFields(m)
      /\ m.mapped = h.mapped /\ m.accepting = h.accepting
  BY <1>4, EvenStart
<1>6. Same(m, k, {"queue", "out"})
  BY <1>3, <1>5, FieldsThere DEF Same, Queued
<1>7. h.queue = c.queue /\ h.handshakes = c.handshakes /\ h.out = {} /\ Whole(h)
  BY <1>0, <1>2, FieldsThere DEF Same, Whole
<1>8. /\ Sound(k) /\ SameNumbers(h, k)
      /\ Same(h, k, ReadFields \union {"queue", "out"})
      /\ Indices(k.queue) = Indices(h.queue) \union {n}
      /\ Puts(h, k, IF Indices(h.queue) = {} THEN {n} ELSE {})
  <2> DEFINE a == Queued(m, Pushed(m.queue, n, n))
  <2>1. n < h.next /\ n \notin Indices(h.queue) /\ n \in SentBy(h) \union Shakes(h)
    BY <1>1, <1>2, <1>7
  <2>2. n \in NumberSet /\ Sound(h) /\ Whole(h)
    BY <1>1, <1>2, <1>7
  <2> HIDE DEF n
  <2>3. /\ Sound(a) /\ SameNumbers(h, a)
        /\ Same(h, a, ReadFields \union {"queue", "out"})
        /\ Indices(a.queue) = Indices(h.queue) \union {n}
        /\ Puts(h, a, IF Indices(h.queue) = {} THEN {n} ELSE {})
    BY <2>1, <2>2, PushNew, ZenonT(40)
  <2> QED BY <1>3, <2>3
<1> HIDE DEF k, m
<1>9. /\ Even(Acceptors(c), k) /\ HasFields(k)
      /\ k.mapped = m.mapped /\ k.accepting = m.accepting
  BY <1>5, <1>6, EvenSame
<1>10. /\ k.inputs = c.inputs /\ k.outputs = c.outputs /\ k.jobs = c.jobs
       /\ k.open = c.open /\ k.taken = c.taken /\ k.conn = c.conn
       /\ k.handshakes = c.handshakes
  <2>1. /\ h.inputs = c.inputs /\ h.outputs = c.outputs /\ h.jobs = c.jobs
        /\ h.open = c.open /\ h.taken = c.taken /\ h.conn = c.conn
    BY <1>0, <1>2, FieldsThere DEF Same
  <2>2. /\ k.inputs = h.inputs /\ k.outputs = h.outputs /\ k.jobs = h.jobs
        /\ k.open = h.open /\ k.taken = h.taken /\ k.conn = h.conn
        /\ k.handshakes = h.handshakes
    BY <1>4, <1>8, FieldsThere DEF Same, ReadFields
  <2> QED BY <1>7, <2>1, <2>2
<1>11. k.calls = Reader(k) + Acceptors(k) /\ k.failed = "no"
  <2>1. Acceptors(k) = Acceptors(c)
    BY <1>4, <1>5, <1>9 DEF Acceptors
  <2> QED BY <1>9, <2>1 DEF Even
<1>12. 0 \notin Indices(k.queue)
  BY <1>0, <1>1, <1>7, <1>8
<1>13. CalmClient(k)
  BY <1>0, <1>4, <1>5, <1>9, <1>10, <1>11, <1>12 DEF CalmClient, Calm
<1>14. OnlyData(k.out)
  <2> DEFINE S == IF Indices(h.queue) = {} THEN {n} ELSE {}
  <2>1. S \subseteq Indices(k.queue) \ {0}
    BY <1>1, <1>8
  <2>2. OnlyData(h.out)
    BY <1>7 DEF OnlyData
  <2>3. k.handshakes \subseteq {Shake(0, NoAck)}
    BY <1>0, <1>10
  <2> HIDE DEF S
  <2>4. Puts(h, k, S)
    BY <1>8 DEF S
  <2> QED BY <1>8, <2>1, <2>2, <2>3, <2>4, DataQueued
<1> QED BY <1>10, <1>13, <1>14 DEF k

\* A receive of the accepted connection reads on until data comes.
LEMMA ReceiveCalm ==
    ASSUME NEW s, Stable(s), ServerInv(s), CalmServer(s), s.conn = "established", s.out = {}
    PROVE  LET k == AsyncReceive(s)
           IN  CalmServer(k) /\ k.taken = s.taken /\ k.accepted = s.accepted /\ k.out = {}
<1> DEFINE h == [s EXCEPT !.inputs = @ + 1]
           k == AsyncReceive(s)
<1>0. /\ HasFields(s) /\ Calm(s) /\ s.outputs = <<>> /\ s.inputs \in Nat
      /\ s.mapped /\ ~ s.accepting /\ s.attached /\ Indices(s.queue) = {} /\ s.sent = <<>>
      /\ s.failed = "no" /\ s.open /\ s.jobs = 0
  BY StableMeans DEF CalmServer, Calm, Typed
<1>1. Same(s, h, {"inputs"}) /\ h.inputs = s.inputs + 1
  BY <1>0, FieldsThere DEF Same
<1> HIDE DEF h
<1>2. k = IdempotentStartReceive(h)
  BY <1>0 DEF AsyncReceive, h
<1> HIDE DEF k
<1>3. Even(Acceptors(s), s)
  BY <1>0, CalmEven
<1>4. /\ Even(Acceptors(s), h) /\ HasFields(h) /\ h.mapped = s.mapped
      /\ h.accepting = s.accepting
  <2>1. {"inputs"} \intersect {"receiving", "calls", "failed", "mapped", "accepting"} = {}
    OBVIOUS
  <2> QED BY <1>0, <1>1, <1>3, <2>1, EvenSame
<1>5. /\ Even(Acceptors(s), k) /\ k.receiving /\ HasFields(k) /\ Restarts(h, k)
      /\ k.mapped = h.mapped /\ k.accepting = h.accepting
  BY <1>2, <1>4, EvenStart
<1>6. /\ h.outputs = s.outputs /\ h.jobs = s.jobs /\ h.open = s.open /\ h.taken = s.taken
      /\ h.conn = s.conn /\ h.out = s.out /\ h.queue = s.queue /\ h.sent = s.sent
      /\ h.attached = s.attached /\ h.accepted = s.accepted
  BY <1>0, <1>1, FieldsThere DEF Same
<1>7. /\ k.outputs = h.outputs /\ k.jobs = h.jobs /\ k.open = h.open /\ k.taken = h.taken
      /\ k.conn = h.conn /\ k.out = h.out /\ k.queue = h.queue /\ k.sent = h.sent
      /\ k.attached = h.attached /\ k.accepted = h.accepted /\ k.inputs = h.inputs
  BY <1>4, <1>5, FieldsThere DEF Same, Restarts, ReadFields
<1>8. k.calls = Reader(k) + Acceptors(k) /\ k.failed = "no"
  <2>1. Acceptors(k) = Acceptors(s)
    BY <1>4, <1>5 DEF Acceptors
  <2> QED BY <1>5, <2>1 DEF Even
<1>9. k.inputs > 0
  BY <1>0, <1>1, <1>7
<1>10. Calm(k)
  BY <1>0, <1>6, <1>7, <1>8 DEF Calm
<1>11. CalmServer(k)
  BY <1>0, <1>4, <1>5, <1>6, <1>7, <1>9, <1>10 DEF CalmServer
<1> QED BY <1>6, <1>7, <1>11 DEF k

\* Accepting waits for the first packet.
LEMMA AcceptCalm ==
    ASSUME NEW s, Stable(s), ServerInv(s), CalmServer(s), s.conn = "closed", s.out = {}
    PROVE  LET k == AsyncAccept(s)
           IN  CalmServer(k) /\ k.taken = s.taken /\ k.accepted = s.accepted /\ k.out = {}
<1> DEFINE h == [s EXCEPT !.conn = "listening", !.accepting = TRUE, !.attached = TRUE]
           k == AsyncAccept(s)
<1>0. /\ HasFields(s) /\ Calm(s) /\ s.outputs = <<>> /\ s.failed = "no" /\ s.open
      /\ s.jobs = 0 /\ ~ s.accepting /\ ~ s.receiving /\ s.inputs = 0
      /\ s.sent = <<>> /\ Untouched(s) /\ ~ s.mapped
  BY StableMeans DEF CalmServer, Calm, ServerInv, Untouched
<1>1. /\ Same(s, h, {"conn", "accepting", "attached"})
      /\ h.conn = "listening" /\ h.accepting = TRUE /\ h.attached = TRUE
  BY <1>0, FieldsThere DEF Same
<1> HIDE DEF h
<1>2. k = StartReceive(h)
  BY DEF AsyncAccept, h
<1>3. /\ h.outputs = s.outputs /\ h.jobs = s.jobs /\ h.open = s.open /\ h.taken = s.taken
      /\ h.out = s.out /\ h.queue = s.queue /\ h.sent = s.sent /\ h.inputs = s.inputs
      /\ h.accepted = s.accepted /\ h.receiving = s.receiving /\ h.mapped = s.mapped
      /\ h.next = s.next /\ h.failed = s.failed /\ h.calls = s.calls /\ HasFields(h)
  BY <1>0, <1>1, FieldsThere, SameHas DEF Same
<1>4. h.calls = 0
  <2>1. Reader(s) = 0 /\ Acceptors(s) = 0
    BY <1>0, ReaderIs DEF Acceptors
  <2> QED BY <1>0, <1>3, <2>1 DEF Calm
<1>5. ~ (h.calls >= Sockets(h) + Acceptors(h) + 2)
  BY <1>4, Receivers
<1>6. k = [h EXCEPT !.calls = @ + 1, !.peeks = IF h.calls = 0 THEN @ + 1 ELSE @]
  BY <1>2, <1>5 DEF StartReceive
<1>7. Same(h, k, {"calls", "peeks"}) /\ k.calls = 1
  <2> HIDE DEF k
  <2>1. Same(h, k, {"calls", "peeks"})
    BY <1>3, <1>6, FieldsThere DEF Same
  <2>2. k.calls = h.calls + 1
    BY <1>3, <1>6, FieldsThere
  <2> QED BY <1>4, <2>1, <2>2
<1> HIDE DEF k
<1>8. /\ k.outputs = h.outputs /\ k.jobs = h.jobs /\ k.open = h.open /\ k.taken = h.taken
      /\ k.conn = h.conn /\ k.out = h.out /\ k.queue = h.queue /\ k.sent = h.sent
      /\ k.attached = h.attached /\ k.accepted = h.accepted /\ k.inputs = h.inputs
      /\ k.failed = h.failed /\ k.receiving = h.receiving /\ k.accepting = h.accepting
      /\ k.mapped = h.mapped /\ k.next = h.next
  BY <1>3, <1>7, FieldsThere DEF Same
<1>9. Calm(k)
  <2>1. Reader(k) = 0 /\ Acceptors(k) = 1
    BY <1>0, <1>1, <1>3, <1>8, ReaderIs DEF Acceptors
  <2> QED BY <1>0, <1>3, <1>7, <1>8, <2>1 DEF Calm
<1>10. k.next <= 1
  BY <1>0, <1>3, <1>8 DEF Untouched
<1>11. CalmServer(k)
  BY <1>0, <1>1, <1>3, <1>8, <1>9, <1>10 DEF CalmServer
<1> QED BY <1>3, <1>8, <1>11 DEF k

\* The client has its answer on the wire.
LEMMA ConfirmCalm ==
    ASSUME NEW c, Stable(c), ClientInv(c), CalmClient(c), c.confirming > 0, c.out = {}
    PROVE  LET k == ConfirmSent(c)
           IN  CalmClient(k) /\ k.taken = c.taken /\ k.out = {}
<1> DEFINE k == ConfirmSent(c)
<1>1. HasFields(c) /\ c.conn = "established"
  <2>1. c.conn = "closed" => c.confirming = 0
    BY DEF ClientInv, Untouched
  <2>2. c.conn = "connecting" => c.confirming = 0
    BY DEF ClientInv
  <2> QED BY <2>1, <2>2, StableMeans DEF ClientInv
<1>2. Same(c, k, {"confirming", "conn"}) /\ k.conn = "established"
  BY <1>1, FieldsThere DEF Same, ConfirmSent
<1> HIDE DEF k
<1>3. k.queue = c.queue /\ k.out = c.out
  BY <1>1, <1>2, FieldsThere DEF Same
<1>4. Same(c, k, {"queue", "out", "confirming", "conn"})
  BY <1>2, SameWider
<1>5. CalmClient(k) /\ k.taken = c.taken
  BY <1>1, <1>2, <1>3, <1>4, StillClient
<1> QED BY <1>3, <1>5 DEF k

\* A datagram sent starts the timer.
LEMMA CompletesSame ==
    ASSUME NEW h, Stable(h), h.queue.open, NEW n \in NumberSet, h.queue.flying[n] > 0
    PROVE  LET k == Completes(h, n)
           IN  /\ Same(h, k, {"queue"}) /\ Indices(k.queue) = Indices(h.queue)
               /\ k.conn = h.conn /\ k.out = h.out
<1> DEFINE k == Completes(h, n)
<1>1. HasFields(h) /\ QueueOf(h, h.queue)
  BY StableMeans DEF Stable, Sound
<1>2. k = [h EXCEPT !.queue = Completed(@, n, FALSE)]
  BY DEF Completes, ToHandler
<1>3. Same(h, k, {"queue"}) /\ k.queue = Completed(h.queue, n, FALSE)
  BY <1>1, <1>2, FieldsThere DEF Same
<1> HIDE DEF k
<1>4. k.conn = h.conn /\ k.out = h.out
  BY <1>1, <1>3, FieldsThere DEF Same
<1>5. Indices(k.queue) = Indices(h.queue)
  <2>1. ASSUME NEW error
        PROVE  Indices(Completed(h.queue, n, error)) = Indices(h.queue)
    BY <1>1, CompletedOf
  <2> QED BY <1>3, <2>1, Zenon
<1> QED BY <1>3, <1>4, <1>5 DEF k

\* The timer runs out: the first datagram queued is sent again.
LEMMA TickSame ==
    ASSUME NEW h, Stable(h), h.failed = "no"
    PROVE  LET k == Queued(h, Ticked(h.queue))
           IN  /\ Same(h, k, {"queue", "out"}) /\ Indices(k.queue) = Indices(h.queue)
               /\ k.conn = h.conn /\ Sound(k) /\ SameNumbers(h, k)
               /\ Puts(h, k, {n \in Indices(h.queue) : \A j \in Indices(h.queue) : n <= j})
<1> DEFINE k == Queued(h, Ticked(h.queue))
           q == Ticked(h.queue)
           S == {n \in Indices(h.queue) : \A j \in Indices(h.queue) : n <= j}
<1>1. HasFields(h) /\ QueueOf(h, h.queue) /\ Sound(h) /\ Whole(h)
  BY StableMeans DEF Stable, Sound
<1>2. /\ QueueOf(h, q) /\ Indices(q) = Indices(h.queue) /\ Starts(h.queue, q, S)
  BY <1>1, TickedOf
<1>3. S \subseteq Indices(h.queue)
  OBVIOUS
<1> HIDE DEF S, q
<1>4. /\ Sound(k) /\ Same(h, k, {"queue", "out"}) /\ SameNumbers(h, k) /\ k.queue = q
      /\ Puts(h, k, S)
  <2> DEFINE a == Queued(h, q)
  <2>1. /\ Sound(a) /\ Same(h, a, {"queue", "out"}) /\ SameNumbers(h, a) /\ a.queue = q
        /\ Puts(h, a, S)
    <3>1. S \subseteq Indices(q)
      BY <1>2, <1>3
    <3> QED BY <1>1, <1>2, <3>1, QueuedMeans, ZenonT(40)
  <2> QED BY <2>1 DEF q
<1>5. k.conn = h.conn
  BY <1>1, <1>4, FieldsThere DEF Same
<1> QED BY <1>2, <1>4, <1>5 DEF S

\* What k still is of h when one of them is closed.
Rests(h, k) ==
    /\ k.taken = h.taken /\ k.accepted = h.accepted /\ k.sent = h.sent
    /\ k.out = h.out

\* A calm socket closes, and no count is lower than what it takes off.
LEMMA CloseCalm ==
    ASSUME NEW h, Stable(h), Calm(h), h.attached
    PROVE  LET k == Close(h)
           IN  HasFields(k) /\ Over(k) /\ Rests(h, k)
<1> DEFINE k == Close(h)
           m == [h EXCEPT !.keepalive = FALSE,
                          !.queue = ShutDown(@),
                          !.aborts = @ \union Waiting(h.queue),
                          !.inputs = 0, !.lent = FALSE]
           x == IdempotentStopReceive(m)
<1>0. HasFields(h) /\ h.calls \in 0 .. 15 /\ h.failed = "no" /\ h.jobs = 0
      /\ h.calls = Reader(h) + Acceptors(h)
  BY StableMeans DEF Calm
<1>1. k = [x EXCEPT !.mapped = FALSE, !.open = FALSE, !.peeks = 0, !.attached = FALSE]
  BY DEF Close
<1>2. /\ Same(h, m, {"keepalive", "queue", "aborts", "inputs", "lent"}) /\ m.inputs = 0
  BY <1>0, FieldsThere DEF Same
<1> HIDE DEF m
<1>3. /\ m.receiving = h.receiving /\ m.calls = h.calls /\ m.failed = h.failed
      /\ m.mapped = h.mapped /\ m.accepting = h.accepting /\ HasFields(m)
      /\ m.jobs = h.jobs /\ Rests(h, m)
  BY <1>0, <1>2, FieldsThere, SameHas DEF Same, Rests
<1>4. /\ Same(m, x, {"receiving", "calls", "empties", "failed"})
  BY <1>0, <1>3, StopAgain
<1>5. x.failed = "no"
  <2>1. CASE ~ m.receiving
    BY <1>0, <1>3, <2>1 DEF IdempotentStopReceive
  <2>2. CASE m.receiving
    <3> DEFINE r == [m EXCEPT !.receiving = FALSE]
    <3>1. x = StopReceive(r)
      BY <2>2 DEF IdempotentStopReceive
    <3>2. Same(m, r, {"receiving"})
      BY <1>3, FieldsThere DEF Same
    <3> HIDE DEF r, x
    <3>3. /\ HasFields(r) /\ r.calls = m.calls /\ r.failed = m.failed
          /\ r.mapped = m.mapped /\ r.accepting = m.accepting
      BY <1>3, <3>2, FieldsThere, SameHas DEF Same
    <3>4. Acceptors(r) = Acceptors(h) /\ Reader(h) = 1
      BY <1>3, <2>2, <3>3 DEF Acceptors, Reader
    <3>5. ~ (r.calls = 0 \/ r.calls > Sockets(r) + Acceptors(r) + 1)
      BY <1>0, <1>3, <3>3, <3>4, Receivers
    <3>6. x = [r EXCEPT !.calls = @ - 1, !.empties = IF r.calls = 1 THEN @ + 1 ELSE @]
      BY <3>1, <3>5 DEF StopReceive
    <3>7. x.failed = r.failed
      BY <3>3, <3>6, FieldsThere
    <3> QED BY <1>0, <1>3, <3>3, <3>7
  <2> QED BY <2>1, <2>2
<1> HIDE DEF x
<1>6. HasFields(x) /\ x.jobs = m.jobs /\ x.inputs = m.inputs /\ Rests(m, x)
  BY <1>3, <1>4, FieldsThere, SameHas DEF Same, Rests
<1>7. Same(x, k, {"mapped", "open", "peeks", "attached"}) /\ k.open = FALSE
  BY <1>1, <1>6, FieldsThere DEF Same
<1> HIDE DEF k
<1>8. HasFields(k) /\ k.jobs = x.jobs /\ k.inputs = x.inputs /\ k.failed = x.failed
      /\ Rests(x, k)
  BY <1>6, <1>7, FieldsThere, SameHas DEF Same, Rests
<1>9. Over(k)
  BY <1>0, <1>2, <1>3, <1>5, <1>6, <1>7, <1>8 DEF Over
<1>10. Rests(h, k)
  BY <1>3, <1>6, <1>8 DEF Rests
<1> QED BY <1>8, <1>9, <1>10 DEF k

\* What is over stays over where only some fields change.
LEMMA OverStill ==
    ASSUME NEW h, HasFields(h), Over(h), NEW k,
           Same(h, k, {"queue", "confirming", "aborts", "conn", "connected", "done"})
    PROVE  HasFields(k) /\ Over(k) /\ Rests(h, k)
<1>1. /\ k.open = h.open /\ k.failed = h.failed /\ k.jobs = h.jobs /\ k.inputs = h.inputs
  BY FieldsThere DEF Same
<1>2. Rests(h, k)
  BY FieldsThere DEF Same, Rests
<1> QED BY <1>1, <1>2, SameHas DEF Over

\* A datagram of a closed socket is on the wire: its user is told.
LEMMA CompletesOver ==
    ASSUME NEW h, Stable(h), Over(h), NEW n \in NumberSet, ClientInv(h) \/ ServerInv(h)
    PROVE  LET k == Completes(h, n)
           IN  HasFields(k) /\ Over(k) /\ Rests(h, k)
<1> DEFINE m == [h EXCEPT !.queue = Completed(@, n, FALSE)]
           k == Completes(h, n)
<1>1. HasFields(h) /\ Typed(h)
  BY StableMeans
<1>2. k = IF ToHandler(h.queue, FALSE) THEN OperationHandler(m, n, FALSE) ELSE m
  BY DEF Completes
<1>3. Same(h, m, {"queue"})
  BY <1>1, FieldsThere DEF Same
<1> HIDE DEF m, k
<1>4. CASE k = m
  <2>1. Same(h, k, {"queue", "confirming", "aborts", "conn", "connected", "done"})
    BY <1>3, <1>4, SameWider
  <2> QED BY <1>1, <2>1, OverStill DEF k
<1>5. CASE k = OperationHandler(m, n, FALSE)
  <2>1. /\ m.conn = h.conn /\ m.handshakes = h.handshakes /\ HasFields(m)
        /\ m.next = h.next /\ m.history = h.history /\ m.taken = h.taken
        /\ m.inputs = h.inputs /\ m.confirming = h.confirming /\ m.outputs = h.outputs
        /\ m.delivered = h.delivered /\ m.sent = h.sent /\ m.done = h.done
        /\ m.aborts = h.aborts /\ m.calls = h.calls
    BY <1>1, <1>3, FieldsThere, SameHas DEF Same
  <2>2. Typed(m)
    BY <1>1, <2>1 DEF Typed
  <2>3. OperationHandler(m, n, FALSE).failed = m.failed
    <3>1. ServerShakes(m) \/ (ClientShakes(m) /\ m.conn \notin {"listening", "handshaking"})
      BY <2>1 DEF ClientInv, ServerInv, ServerShakes, ClientShakes, Shake
    <3> QED BY <2>2, <3>1, HandlerEasy
  <2>4. Same(m, k, HandlerFields)
    BY <1>5, <2>2, HandlerRuns, ZenonT(40)
  <2>5. Same(m, k, {"conn", "connected", "done"})
    BY <1>5, <2>3, <2>4 DEF Same, HandlerFields
  <2>6. Same(h, k, {"queue", "confirming", "aborts", "conn", "connected", "done"})
    BY <1>3, <2>5 DEF Same
  <2> QED BY <1>1, <2>6, OverStill DEF k
<1> QED BY <1>2, <1>4, <1>5

\* ... or of a datagram given up.
LEMMA AbortsOver ==
    ASSUME NEW h, Stable(h), Over(h), NEW n
    PROVE  LET k == Aborts(h, n)
           IN  HasFields(k) /\ Over(k) /\ Rests(h, k)
<1> DEFINE m == [h EXCEPT !.aborts = @ \ {n}]
           k == Aborts(h, n)
<1>1. HasFields(h) /\ Typed(h)
  BY StableMeans
<1>2. k = OperationHandler(m, n, TRUE)
  BY DEF Aborts
<1>3. Same(h, m, {"aborts"}) /\ m.aborts = h.aborts \ {n}
  BY <1>1, FieldsThere DEF Same
<1> HIDE DEF m, k
<1>4. Typed(m)
  <2>1. /\ m.conn = h.conn /\ m.handshakes = h.handshakes /\ HasFields(m)
        /\ m.next = h.next /\ m.history = h.history /\ m.taken = h.taken
        /\ m.inputs = h.inputs /\ m.confirming = h.confirming /\ m.outputs = h.outputs
        /\ m.delivered = h.delivered /\ m.sent = h.sent /\ m.done = h.done
        /\ m.calls = h.calls
    BY <1>1, <1>3, FieldsThere, SameHas DEF Same
  <2> QED BY <1>1, <1>3, <2>1 DEF Typed
<1>5. Same(m, k, {"conn"})
  BY <1>2, <1>4, HandlerAborts, ZenonT(40)
<1>6. Same(h, k, {"queue", "confirming", "aborts", "conn", "connected", "done"})
  BY <1>3, <1>5 DEF Same
<1> QED BY <1>1, <1>6, OverStill DEF k

\* The client's answer was sent before it closed.
LEMMA ConfirmOver ==
    ASSUME NEW h, Stable(h), Over(h)
    PROVE  LET k == ConfirmSent(h)
           IN  HasFields(k) /\ Over(k) /\ Rests(h, k)
<1> DEFINE k == ConfirmSent(h)
<1>1. HasFields(h)
  BY StableMeans
<1>2. Same(h, k, {"queue", "confirming", "aborts", "conn", "connected", "done"})
  BY <1>1, FieldsThere DEF Same, ConfirmSent
<1> HIDE DEF k
<1> QED BY <1>1, <1>2, OverStill DEF k

\* No timer of a closed socket sends.
LEMMA TickOver ==
    ASSUME NEW h, Stable(h), Over(h), ~ h.attached, h.out = {}
    PROVE  LET k == Queued(h, Ticked(h.queue))
           IN  HasFields(k) /\ Over(k) /\ Rests(h, k)
<1> DEFINE k == Queued(h, Ticked(h.queue))
           S == {n \in Indices(h.queue) : \A j \in Indices(h.queue) : n <= j}
<1>1. HasFields(h) /\ h.failed = "no" /\ Indices(h.queue) = {}
  BY StableMeans DEF Stable, Over
<1>2. Same(h, k, {"queue", "out"}) /\ Puts(h, k, S)
  BY <1>1, TickSame
<1>3. S = {}
  BY <1>1
<1> HIDE DEF k, S
<1>4. k.out = {}
  BY <1>2, <1>3 DEF Puts
<1>5. /\ k.open = h.open /\ k.failed = h.failed /\ k.jobs = h.jobs /\ k.inputs = h.inputs
      /\ k.taken = h.taken /\ k.accepted = h.accepted /\ k.sent = h.sent /\ HasFields(k)
  BY <1>1, <1>2, FieldsThere, SameHas DEF Same
<1>6. Over(k) /\ Rests(h, k)
  BY <1>4, <1>5 DEF Over, Rests
<1> QED BY <1>5, <1>6 DEF k

\* What was given to the UDP socket is gone; the rest of a host is the same.
LEMMA WireTakes ==
    ASSUME NEW k, HasFields(k)
    PROVE  LET m == [k EXCEPT !.out = {}]
           IN  /\ Same(k, m, {"out"}) /\ m.conn = k.conn /\ m.queue = k.queue
               /\ m.taken = k.taken /\ m.accepted = k.accepted /\ m.sent = k.sent
               /\ Over(k) => Over(m)
<1> DEFINE m == [k EXCEPT !.out = {}]
<1>1. Same(k, m, {"out"})
  BY FieldsThere DEF Same
<1> HIDE DEF m
<1>2. /\ m.conn = k.conn /\ m.queue = k.queue /\ m.sent = k.sent
      /\ m.taken = k.taken /\ m.accepted = k.accepted
  BY <1>1, FieldsThere DEF Same
<1>3. /\ m.open = k.open /\ m.failed = k.failed /\ m.jobs = k.jobs /\ m.inputs = k.inputs
  BY <1>1, FieldsThere DEF Same
<1>4. Over(k) => Over(m)
  BY <1>3 DEF Over
<1> QED BY <1>1, <1>2, <1>4 DEF m

\* The two hosts and their networks apart.
LEMMA BothCalm ==
    ASSUME IInv, CalmInv
    PROVE  LET c == host["client"]
               s == host["server"]
           IN  /\ Stable(c) /\ ClientInv(c) /\ c.out = {} /\ HasFields(c)
               /\ Stable(s) /\ ServerInv(s) /\ s.out = {} /\ HasFields(s)
               /\ Over(c) \/ CalmClient(c)
               /\ Over(s) \/ CalmServer(s)
               /\ c.open => CalmClient(c)
               /\ s.open => CalmServer(s)
               /\ s.sent = <<>>
               /\ Cross(c, s) /\ CalmNet(c, s) /\ Heard(c, s) /\ Heard(s, c)
               /\ c.failed = "no" /\ s.failed = "no"
<1>1. {"client", "server"} \subseteq Hosts /\ Peer("client") = "server"
      /\ Peer("server") = "client"
  BY DEF Hosts, Peer
<1>2. Stable(host["client"]) /\ Stable(host["server"])
  BY <1>1 DEF IInv
<1>3. /\ host["client"].open => CalmClient(host["client"])
      /\ host["server"].open => CalmServer(host["server"])
  BY DEF CalmInv, Over
<1>4. host["client"].failed = "no" /\ host["server"].failed = "no"
  BY DEF CalmInv, Over, CalmClient, CalmServer, Calm
<1> QED BY <1>1, <1>2, <1>3, <1>4, StableMeans DEF IInv, Role, CalmInv

\* A step of the client sends no keepalive, nor a handshake without need.
LEMMA ClientStepCalm ==
    ASSUME IInv, CalmInv, NEW k, Step("client", k), HasFields(k), Over(k) \/ CalmClient(k),
           k.taken = host["client"].taken,
           \A b \in k.out : /\ Decode(b).type # "keepalive"
                            /\ Decode(b).type = "handshake" =>
                                 host["server"].taken = {} /\ b \notin OnWay("server")
    PROVE  CalmInv'
<1> DEFINE c == host["client"]
           s == host["server"]
           m == [k EXCEPT !.out = {}]
<1>1. CalmNet(c, s) /\ (Over(s) \/ CalmServer(s)) /\ s.sent = <<>>
      /\ DOMAIN host = {"client", "server"} /\ DOMAIN net = {"client", "server"}
  BY DEF CalmInv, IInv, Hosts
<1>2. /\ host' = [host EXCEPT !["client"] = m]
      /\ net' = [net EXCEPT !["server"] = Posted(@, k.out)]
  BY DEF Step, Becomes, Peer
<1>3. /\ Same(k, m, {"out"}) /\ m.conn = k.conn /\ m.queue = k.queue /\ m.taken = k.taken
      /\ Over(k) => Over(m)
  BY WireTakes
<1> HIDE DEF m
<1>4. /\ host'["client"] = m /\ host'["server"] = s
      /\ net'["client"] = net["client"] /\ net'["server"] = Posted(net["server"], k.out)
      /\ OnWay("client")' = OnWay("client") /\ OnWay("server")' = OnWay("server") \union k.out
  BY <1>1, <1>2, PostedAdds DEF OnWay
<1>5. (Over(m) \/ CalmClient(m)) /\ m.taken = c.taken
  <2>1. Same(k, m, {"queue", "out", "confirming", "conn"})
    BY <1>3, SameWider
  <2>2. CalmClient(k) => CalmClient(m)
    BY <1>3, <2>1, StillClient
  <2> QED BY <1>3, <2>2
<1>6. /\ Over(host'["client"]) \/ CalmClient(host'["client"])
      /\ Over(host'["server"]) \/ CalmServer(host'["server"])
      /\ host'["server"].sent = <<>>
  BY <1>1, <1>4, <1>5
<1>7. /\ \A b \in OnWay("server")' :
            /\ Decode(b).type = "handshake" => s.taken = {} /\ net'["server"][b] = 1
            /\ Decode(b).type = "keepalive" =>
                 /\ b = Confirmation /\ net'["server"][b] = 1
                 /\ m.taken # {} /\ ~ s.accepted
      /\ \A b \in OnWay("client")' :
            Decode(b).type = "handshake" => m.taken = {} /\ net'["client"][b] = 1
      /\ m.taken = {} => \A b \in OnWay("client")' : b = Answer
      /\ s.taken # {} /\ m.taken = {} => OnWay("client")' # {}
      /\ m.taken # {} /\ ~ s.accepted => Confirmation \in OnWay("server")'
  BY <1>1, <1>4, <1>5, PostedAdds DEF CalmNet, OnWay
<1> QED BY <1>4, <1>6, <1>7 DEF CalmInv, CalmNet

\* A step of the server sends no handshake without need.
LEMMA ServerStepCalm ==
    ASSUME IInv, CalmInv, NEW k, Step("server", k), HasFields(k), Over(k) \/ CalmServer(k),
           k.taken = host["server"].taken, k.accepted = host["server"].accepted,
           k.sent = <<>>,
           \A b \in k.out :
             host["client"].taken = {} /\ b = Answer /\ b \notin OnWay("client")
    PROVE  CalmInv'
<1> DEFINE c == host["client"]
           s == host["server"]
           m == [k EXCEPT !.out = {}]
<1>1. CalmNet(c, s) /\ (Over(c) \/ CalmClient(c))
      /\ DOMAIN host = {"client", "server"} /\ DOMAIN net = {"client", "server"}
  BY DEF CalmInv, IInv, Hosts
<1>2. /\ host' = [host EXCEPT !["server"] = m]
      /\ net' = [net EXCEPT !["client"] = Posted(@, k.out)]
  BY DEF Step, Becomes, Peer
<1>3. /\ Same(k, m, {"out"}) /\ m.conn = k.conn /\ m.queue = k.queue /\ m.sent = k.sent
      /\ m.taken = k.taken /\ m.accepted = k.accepted
      /\ Over(k) => Over(m)
  BY WireTakes
<1> HIDE DEF m
<1>4. /\ host'["server"] = m /\ host'["client"] = c
      /\ net'["server"] = net["server"] /\ net'["client"] = Posted(net["client"], k.out)
      /\ OnWay("server")' = OnWay("server") /\ OnWay("client")' = OnWay("client") \union k.out
  BY <1>1, <1>2, PostedAdds DEF OnWay
<1>5. Over(m) \/ CalmServer(m)
  <2>1. Same(k, m, {"queue", "out", "confirming", "conn"})
    BY <1>3, SameWider
  <2>2. CalmServer(k) => CalmServer(m)
    BY <1>3, <2>1, StillServer
  <2> QED BY <1>3, <2>2
<1>6. /\ Over(host'["client"]) \/ CalmClient(host'["client"])
      /\ Over(host'["server"]) \/ CalmServer(host'["server"])
      /\ host'["server"].sent = <<>>
  BY <1>1, <1>3, <1>4, <1>5
<1>7. /\ \A b \in OnWay("server")' :
            /\ Decode(b).type = "handshake" => m.taken = {} /\ net'["server"][b] = 1
            /\ Decode(b).type = "keepalive" =>
                 /\ b = Confirmation /\ net'["server"][b] = 1
                 /\ c.taken # {} /\ ~ m.accepted
      /\ \A b \in OnWay("client")' :
            Decode(b).type = "handshake" => c.taken = {} /\ net'["client"][b] = 1
      /\ c.taken = {} => \A b \in OnWay("client")' : b = Answer
      /\ m.taken # {} /\ c.taken = {} => OnWay("client")' # {}
      /\ c.taken # {} /\ ~ m.accepted => Confirmation \in OnWay("server")'
  BY <1>1, <1>3, <1>4, PostedAdds DEF CalmNet, OnWay
<1> QED BY <1>4, <1>6, <1>7 DEF CalmInv, CalmNet

\* A closed host, or one that closes, sends nothing and takes nothing.
LEMMA OverStep ==
    ASSUME IInv, CalmInv, NEW p \in Hosts, NEW k, Step(p, k), HasFields(k), Over(k),
           Rests(host[p], k)
    PROVE  CalmInv'
<1>1. host["client"].out = {} /\ host["server"].out = {} /\ host["server"].sent = <<>>
  BY BothCalm
<1>2. CASE p = "client"
  BY <1>1, <1>2, ClientStepCalm DEF Rests
<1>3. CASE p = "server"
  BY <1>1, <1>3, ServerStepCalm DEF Rests
<1> QED BY <1>2, <1>3 DEF Hosts

\* The answer is a handshake.
LEMMA AnswerIs == Decode(Answer).type = "handshake"
<1> DEFINE e == [type |-> "handshake", seq |-> 0, ack |-> 0]
<1>1. e \in Datagrams
  BY NumberAssumption DEF Datagrams
<1>2. Decode(Answer) = e
  BY <1>1, Decoded DEF Answer
<1> QED BY <1>2

\* What a listening socket sends is the answer.
LEMMA AnswerOnly ==
    ASSUME NEW k, Stable(k), ServerInv(k), CalmServer(k), k.conn = "listening",
           NEW h, Puts(h, k, {0}), h.out = {}
    PROVE  \A b \in k.out : b = Answer
<1> SUFFICES ASSUME NEW b \in k.out PROVE b = Answer
  OBVIOUS
<1>1. PICK d \in Datagrams : b = Encode(0, d) /\ d.seq = 0 /\ SentPacket(k, d)
  BY DEF Puts
<1>2. d.type = "handshake"
  <2>1. 0 \in Shakes(k) /\ SentBy(k) = {}
    BY <1>1, PacketMeans DEF CalmServer, SentBy
  <2> QED BY <1>1, <2>1 DEF SentPacket, Datagrams
<1>3. d.ack # NoAck /\ d.ack \in k.taken
  BY <1>1, <1>2 DEF SentPacket, ServerInv, ServerShakes, Shake
<1>4. d.ack = 0
  BY <1>3 DEF ServerInv, CalmServer, Calm
<1>5. d = [type |-> "handshake", seq |-> 0, ack |-> 0]
  BY <1>1, <1>2, <1>4 DEF Datagrams
<1> QED BY <1>1, <1>5 DEF Answer

\* A calm socket with a datagram to be acknowledged, or an acceptor, reads.
LEMMA CalmReads ==
    ASSUME NEW h, Stable(h), Calm(h), Indices(h.queue) # {} \/ h.accepting
    PROVE  h.peeks > 0
<1>1. Reader(h) = 1 \/ Acceptors(h) = 1
  BY ReaderIs DEF Stable, Calm, Acceptors
<1>2. Reader(h) \in {0, 1} /\ Acceptors(h) \in {0, 1}
  BY ReaderIs, Receivers
<1>3. h.calls > 0
  BY <1>1, <1>2 DEF Calm
<1> QED BY <1>3 DEF Stable, Calm, OneRead

\* The client's timer runs out while its handshake is not answered, or later.
LEMMA ClientTicks ==
    ASSUME OneWay, IInv, CalmInv, Tick("client"), host["client"].open
    PROVE  CalmInv'
<1> DEFINE c == host["client"]
           s == host["server"]
           k == Queued(c, Ticked(c.queue))
           S == {n \in Indices(c.queue) : \A j \in Indices(c.queue) : n <= j}
<1>1. Step("client", k) /\ Idle /\ MayRepeat("client")
  BY DEF Tick, MayTick, OneWay
<1>0. \A b \in OnWay("server") : Decode(b).type # "handshake"
  BY <1>1 DEF MayRepeat, OneWay, Peer
<1>2. /\ Stable(c) /\ ClientInv(c) /\ CalmClient(c) /\ c.out = {} /\ HasFields(c)
      /\ CalmNet(c, s) /\ c.failed = "no"
  BY BothCalm
<1>3. /\ Same(c, k, {"queue", "out"}) /\ Indices(k.queue) = Indices(c.queue)
      /\ k.conn = c.conn /\ SameNumbers(c, k) /\ Puts(c, k, S)
  BY <1>2, TickSame, ZenonT(40)
<1> HIDE DEF k
<1>4. HasFields(k) /\ CalmClient(k) /\ k.taken = c.taken
  <2>1. Same(c, k, {"queue", "out", "confirming", "conn"})
    BY <1>3, SameWider
  <2> QED BY <1>2, <1>3, <2>1, StillClient, SameHas
<1>5. ASSUME NEW b \in k.out
      PROVE  /\ Decode(b).type # "keepalive"
             /\ Decode(b).type = "handshake" => s.taken = {} /\ b \notin OnWay("server")
  <2>1. PICK d \in Datagrams : b = Encode(0, d) /\ d.seq \in S /\ SentPacket(k, d)
    BY <1>2, <1>3 DEF Puts
  <2>2. Decode(b) = d /\ d.seq \in Indices(c.queue)
    BY <2>1, Decoded
  <2>3. SentPacket(c, d) /\ Typed(c) /\ QueueOf(c, c.queue)
    BY <1>2, <1>3, <2>1, SameNumbersGrows DEF Stable, Sound
  <2>4. d.type # "keepalive"
    BY <2>2, <2>3 DEF SentPacket, QueueOf
  <2>5. ASSUME d.type = "handshake", s.taken # {} PROVE FALSE
    <3>1. d.seq = 0
      BY <1>2, <2>3, <2>5 DEF SentPacket, Shake, ClientInv
    <3>2. c.taken = {}
      BY <1>2, <2>2, <3>1 DEF CalmClient, ClientInv, Untouched
    <3>3. c.peeks > 0
      BY <1>2, <2>2, CalmReads DEF CalmClient
    <3> QED BY <1>1, <1>2, <2>5, <3>2, <3>3 DEF CalmNet, Idle, Hosts, Stable
  <2> QED BY <1>0, <2>2, <2>4, <2>5
<1> QED BY <1>1, <1>4, <1>5, ClientStepCalm

\* That of the server runs out only while its answer is not confirmed.
LEMMA ServerTicks ==
    ASSUME OneWay, IInv, CalmInv, Tick("server"), host["server"].open
    PROVE  CalmInv'
<1> DEFINE c == host["client"]
           s == host["server"]
           k == Queued(s, Ticked(s.queue))
           S == {n \in Indices(s.queue) : \A j \in Indices(s.queue) : n <= j}
<1>1. Step("server", k) /\ Idle /\ MayRepeat("server")
  BY DEF Tick, MayTick, OneWay
<1>0. \A b \in OnWay("client") : Decode(b).type # "handshake"
  BY <1>1 DEF MayRepeat, OneWay, Peer
<1>2. /\ Stable(s) /\ ServerInv(s) /\ CalmServer(s) /\ s.out = {} /\ HasFields(s)
      /\ CalmNet(c, s) /\ s.failed = "no"
  BY BothCalm
<1>3. /\ Same(s, k, {"queue", "out"}) /\ Indices(k.queue) = Indices(s.queue)
      /\ k.conn = s.conn /\ Puts(s, k, S)
  BY <1>2, TickSame, ZenonT(40)
<1>4. Stable(k) /\ ServerInv(k) /\ (~ k.accepted => Puts(s, k, {0}))
  BY TickTurn DEF Turn, Sane, Role, Hosts
<1> HIDE DEF k
<1>5. HasFields(k) /\ CalmServer(k) /\ k.taken = s.taken /\ k.accepted = s.accepted
  <2>1. Same(s, k, {"queue", "out", "confirming", "conn"})
    BY <1>3, SameWider
  <2> QED BY <1>2, <1>3, <2>1, StillServer, SameHas
<1>6. ASSUME NEW b \in k.out PROVE c.taken = {} /\ b = Answer /\ b \notin OnWay("client")
  <2>1. Indices(s.queue) # {}
    BY <1>2, <1>3, <1>6 DEF Puts
  <2>2. s.peeks > 0
    BY <1>2, <2>1, CalmReads DEF CalmServer
  <2>3. s.attached /\ s.conn = "listening"
    BY <1>2, <2>1 DEF Stable, ServerInv, CalmServer
  <2>4. ~ s.accepted
    BY <1>2, <2>3 DEF ServerInv
  <2>5. c.taken = {}
    BY <1>1, <1>2, <2>2, <2>4 DEF CalmNet, Idle, Hosts, Stable
  <2>6. b = Answer
    BY <1>2, <1>3, <1>4, <1>5, <1>6, <2>3, <2>4, AnswerOnly
  <2>7. Decode(b).type = "handshake"
    BY <2>6, AnswerIs
  <2> QED BY <1>0, <2>5, <2>6, <2>7
<1>7. k.sent = <<>>
  BY <1>5 DEF CalmServer
<1> QED BY <1>1, <1>5, <1>6, <1>7, ServerStepCalm

\* Either host, closed or calm.
LEMMA HostCalm ==
    ASSUME IInv, CalmInv, NEW p \in Hosts
    PROVE  LET h == host[p]
           IN  /\ Stable(h) /\ HasFields(h) /\ (ClientInv(h) \/ ServerInv(h))
               /\ h.out = {} /\ h.failed = "no" /\ h.jobs = 0
               /\ h.open => Calm(h) /\ h.queue.open /\ h.aborts = {}
               /\ ~ h.open => Over(h) /\ ~ h.attached
<1> DEFINE h == host[p]
           c == host["client"]
           s == host["server"]
<1>1. /\ Stable(c) /\ ClientInv(c) /\ c.out = {} /\ c.failed = "no" /\ HasFields(c)
      /\ Stable(s) /\ ServerInv(s) /\ s.out = {} /\ s.failed = "no" /\ HasFields(s)
      /\ Over(c) \/ CalmClient(c)
      /\ Over(s) \/ CalmServer(s)
  BY BothCalm
<1>2. CASE p = "client"
  <2>1. /\ h.open => Calm(h)
        /\ ~ h.open => Over(h) /\ ~ h.attached
        /\ h.jobs = 0
    BY <1>1, <1>2 DEF Over, CalmClient, Calm, ClientInv
  <2>2. h.open => h.queue.open /\ h.aborts = {}
    BY <1>1, <1>2 DEF ClientInv, Stable
  <2> QED BY <1>1, <1>2, <2>1, <2>2
<1>3. CASE p = "server"
  <2>1. /\ h.open => Calm(h)
        /\ ~ h.open => Over(h) /\ ~ h.attached
        /\ h.jobs = 0
    BY <1>1, <1>3 DEF Over, CalmServer, Calm, ServerInv
  <2>2. h.open => h.queue.open /\ h.aborts = {}
    BY <1>1, <1>3 DEF ServerInv, Stable, Untouched
  <2> QED BY <1>1, <1>3, <2>1, <2>2
<1> QED BY <1>2, <1>3 DEF Hosts

\* The user of the server accepts.
LEMMA AcceptsCalmly ==
    ASSUME IInv, CalmInv, Accept
    PROVE  CalmInv'
<1> DEFINE s == host["server"]
           k == AsyncAccept(s)
<1>1. Step("server", k) /\ s.conn = "closed"
  BY DEF Accept, MayAccept
<1>2. Stable(s) /\ ServerInv(s) /\ CalmServer(s) /\ s.out = {}
  <2>1. s.open
    BY <1>1, BothCalm DEF Accept, MayAccept, ServerInv
  <2> QED BY <2>1, BothCalm
<1>3. CalmServer(k) /\ k.taken = s.taken /\ k.accepted = s.accepted /\ k.out = {}
  BY <1>1, <1>2, AcceptCalm
<1>4. HasFields(k)
  BY AcceptTurn, StableMeans DEF Turn, Sane
<1> HIDE DEF k
<1>5. k.sent = <<>>
  BY <1>3 DEF CalmServer
<1> QED BY <1>1, <1>3, <1>4, <1>5, ServerStepCalm

\* The client connects while the server has taken nothing.
LEMMA ConnectsCalmly ==
    ASSUME IInv, CalmInv, Connect
    PROVE  CalmInv'
<1> DEFINE c == host["client"]
           s == host["server"]
           k == AsyncConnect(c)
<1>1. Step("client", k) /\ c.conn = "closed" /\ c.attached /\ c.next <= MaxNumber
  BY DEF Connect, MayConnect, Step
<1>2. Stable(c) /\ ClientInv(c) /\ CalmClient(c) /\ c.out = {} /\ Heard(s, c) /\ Stable(s)
  BY <1>1, BothCalm DEF ClientInv
<1>3. CalmClient(k) /\ k.taken = c.taken /\ \A b \in k.out : Decode(b).type = "handshake"
  BY <1>1, <1>2, ConnectCalm
<1>4. HasFields(k)
  BY ConnectTurn, StableMeans DEF Turn, Sane
<1> HIDE DEF k
<1>5. s.taken = {}
  <2>1. c.next = 0 /\ s.taken \subseteq Nat
    BY <1>1, <1>2, NumbersAreNaturals DEF ClientInv, Untouched, Stable, Sound, Typed
  <2> QED BY <1>2, <2>1 DEF Heard
<1>6. OnWay("server") = {}
  <2>1. c.next = 0
    BY <1>1, <1>2 DEF ClientInv, Untouched
  <2>2. \A b \in OnWay("server") : \E d \in Datagrams : d.seq < c.next
    BY DEF IInv, WireOf, SentPacket, Hosts, Peer
  <2> QED BY <2>1, <2>2, NumberAssumption DEF Datagrams
<1>7. \A b \in k.out :
        /\ Decode(b).type # "keepalive"
        /\ Decode(b).type = "handshake" => s.taken = {} /\ b \notin OnWay("server")
  BY <1>3, <1>5, <1>6
<1> QED BY <1>1, <1>3, <1>4, <1>7, ClientStepCalm

\* The client sends: nobody else does.
LEMMA SendsCalmly ==
    ASSUME OneWay, IInv, CalmInv, NEW p \in Hosts, Send(p)
    PROVE  CalmInv'
<1> DEFINE c == host["client"]
           s == host["server"]
           k == AsyncSend(c)
<1>1. Stable(c) /\ ClientInv(c) /\ c.out = {} /\ s.sent = <<>> /\ (c.open => CalmClient(c))
  BY BothCalm
<1>2. p = "client"
  <2>1. s.sent = <<>> /\ Sends("server") = 0
    BY <1>1 DEF OneWay, Sends
  <2>2. ~ (Len(s.sent) < Sends("server"))
    BY <2>1
  <2> QED BY <2>2 DEF Hosts, Send, MaySend
<1>3. Step("client", k) /\ Connected("client") /\ c.attached /\ c.next <= MaxNumber
      /\ c.failed = "no"
  BY <1>2 DEF Send, MaySend, Step
<1>4. c.conn = "established" /\ CalmClient(c)
  BY <1>1, <1>3, ConnectedMeans DEF Hosts
<1>5. CalmClient(k) /\ k.taken = c.taken /\ OnlyData(k.out)
  BY <1>1, <1>3, <1>4, SendCalm
<1>6. HasFields(k)
  BY <1>2, SendTurn, StableMeans DEF Turn, Sane
<1> HIDE DEF k
<1>7. \A b \in k.out :
        /\ Decode(b).type # "keepalive"
        /\ Decode(b).type = "handshake" => s.taken = {} /\ b \notin OnWay("server")
  BY <1>5 DEF OnlyData
<1> QED BY <1>3, <1>5, <1>6, <1>7, ClientStepCalm

\* The server receives: nobody else does.
LEMMA ReceivesCalmly ==
    ASSUME OneWay, IInv, CalmInv, NEW p \in Hosts, Receive(p)
    PROVE  CalmInv'
<1> DEFINE c == host["client"]
           s == host["server"]
           k == AsyncReceive(s)
<1>1. /\ Stable(s) /\ ServerInv(s) /\ s.out = {} /\ (s.open => CalmServer(s))
      /\ Stable(c) /\ (Over(c) \/ CalmClient(c))
  BY BothCalm
<1>2. p = "server"
  <2>1. c.inputs = 0 /\ c.jobs = 0 /\ Len(c.delivered) \in Nat /\ Receives("client") = 0
    BY <1>1, HandedOf DEF Over, CalmClient, Calm, OneWay, Receives
  <2>2. ~ (c.inputs + c.jobs + Len(c.delivered) < Receives("client"))
    BY <2>1
  <2> QED BY <2>2 DEF Hosts, Receive, MayReceive
<1>3. Step("server", k) /\ Connected("server") /\ s.attached /\ s.failed = "no"
  BY <1>2 DEF Receive, MayReceive, Step
<1>4. s.conn = "established" /\ CalmServer(s)
  BY <1>1, <1>3, ConnectedMeans DEF Hosts
<1>5. CalmServer(k) /\ k.taken = s.taken /\ k.accepted = s.accepted /\ k.out = {}
  BY <1>1, <1>4, ReceiveCalm
<1>6. HasFields(k)
  BY <1>2, ReceiveTurn, StableMeans DEF Turn, Sane
<1> HIDE DEF k
<1>7. k.sent = <<>>
  BY <1>5 DEF CalmServer
<1> QED BY <1>3, <1>5, <1>6, <1>7, ServerStepCalm

\* A datagram is on the wire.
LEMMA CompletesCalmly ==
    ASSUME IInv, CalmInv, NEW p \in Hosts, NEW n \in NumberSet, StepCompletes(p, n)
    PROVE  CalmInv'
<1> DEFINE c == host["client"]
           s == host["server"]
           h == host[p]
           k == Completes(h, n)
<1>1. Step(p, k) /\ h.queue.flying[n] > 0
  BY DEF StepCompletes, Step, Completes
<1>2. /\ Stable(h) /\ HasFields(h) /\ (ClientInv(h) \/ ServerInv(h)) /\ h.out = {}
      /\ h.open => h.queue.open
      /\ ~ h.open => Over(h)
      /\ s.sent = <<>>
  BY HostCalm, BothCalm
<1>3. CASE ~ h.open
  <2>1. HasFields(k) /\ Over(k) /\ Rests(h, k)
    BY <1>2, <1>3, CompletesOver
  <2> HIDE DEF k
  <2> QED BY <1>1, <2>1, OverStep
<1>4. CASE h.open
  <2>1. /\ Same(h, k, {"queue"}) /\ Indices(k.queue) = Indices(h.queue)
        /\ k.conn = h.conn /\ k.out = h.out
    BY <1>1, <1>2, <1>4, CompletesSame
  <2> HIDE DEF k
  <2>2. HasFields(k) /\ Same(h, k, {"queue", "out", "confirming", "conn"})
    BY <1>2, <2>1, SameHas, SameWider
  <2>3. CASE p = "client"
    <3>1. CalmClient(h)
      BY <1>4, <2>3, BothCalm
    <3>2. CalmClient(k) /\ k.taken = c.taken
      BY <1>2, <2>1, <2>2, <2>3, <3>1, StillClient
    <3> QED BY <1>1, <1>2, <2>1, <2>2, <2>3, <3>2, ClientStepCalm
  <2>4. CASE p = "server"
    <3>1. CalmServer(h)
      BY <1>4, <2>4, BothCalm
    <3>2. CalmServer(k) /\ k.taken = s.taken /\ k.accepted = s.accepted
      BY <1>2, <2>1, <2>2, <2>4, <3>1, StillServer
    <3>3. k.sent = <<>>
      BY <3>2 DEF CalmServer
    <3> QED BY <1>1, <1>2, <2>1, <2>2, <2>4, <3>2, <3>3, ServerStepCalm
  <2> QED BY <2>3, <2>4 DEF Hosts
<1> QED BY <1>3, <1>4

\* The client's answer is on the wire: the server sends none.
LEMMA ConfirmsCalmly ==
    ASSUME IInv, CalmInv, NEW p \in Hosts, ConfirmationSent(p)
    PROVE  CalmInv'
<1> DEFINE c == host["client"]
           s == host["server"]
           k == ConfirmSent(c)
<1>1. /\ Stable(c) /\ ClientInv(c) /\ (Over(c) \/ CalmClient(c)) /\ c.out = {}
      /\ s.confirming = 0
  BY BothCalm DEF ServerInv
<1>2. p = "client"
  BY <1>1 DEF Hosts, ConfirmationSent
<1>3. Step("client", k) /\ c.confirming > 0
  BY <1>2 DEF ConfirmationSent
<1>4. CASE Over(c)
  <2>1. HasFields(k) /\ Over(k) /\ Rests(c, k)
    BY <1>1, <1>4, ConfirmOver
  <2> HIDE DEF k
  <2> QED BY <1>3, <2>1, OverStep DEF Hosts
<1>5. CASE CalmClient(c)
  <2>1. CalmClient(k) /\ k.taken = c.taken /\ k.out = {}
    BY <1>1, <1>3, <1>5, ConfirmCalm
  <2>2. HasFields(k)
    BY <1>2, ConfirmationTurn, StableMeans DEF Turn, Sane
  <2> HIDE DEF k
  <2> QED BY <1>3, <2>1, <2>2, ClientStepCalm
<1> QED BY <1>1, <1>4, <1>5

\* The retransmission timer runs out.
LEMMA TicksCalmly ==
    ASSUME OneWay, IInv, CalmInv, NEW p \in Hosts, Tick(p)
    PROVE  CalmInv'
<1> DEFINE h == host[p]
           k == Queued(h, Ticked(h.queue))
<1>1. Step(p, k)
  BY DEF Tick
<1>2. CASE h.open
  BY <1>2, ClientTicks, ServerTicks DEF Hosts
<1>3. CASE ~ h.open
  <2>1. Stable(h) /\ Over(h) /\ ~ h.attached /\ h.out = {}
    BY <1>3, HostCalm
  <2>2. HasFields(k) /\ Over(k) /\ Rests(h, k)
    BY <2>1, TickOver
  <2> HIDE DEF k
  <2> QED BY <1>1, <2>2, OverStep
<1> QED BY <1>2, <1>3

\* An operation of a closed socket was given up.
LEMMA RunsAbortCalmly ==
    ASSUME IInv, CalmInv, NEW p \in Hosts, NEW n \in NumberSet, RunAbort(p, n)
    PROVE  CalmInv'
<1> DEFINE h == host[p]
           k == Aborts(h, n)
<1>1. Step(p, k) /\ n \in h.aborts
  BY DEF RunAbort, Aborts
<1>2. Stable(h) /\ Over(h)
  BY <1>1, HostCalm
<1>3. HasFields(k) /\ Over(k) /\ Rests(h, k)
  BY <1>2, AbortsOver
<1> HIDE DEF k
<1> QED BY <1>1, <1>3, OverStep

\* A host closes, by its user or its keepalive timer.
LEMMA ClosesCalmly ==
    ASSUME IInv, CalmInv, NEW p \in Hosts, Step(p, Close(host[p]))
    PROVE  CalmInv'
<1> DEFINE c == host["client"]
           s == host["server"]
           h == host[p]
           k == Close(h)
<1>1. /\ Stable(h) /\ HasFields(h) /\ h.out = {}
      /\ h.open => Calm(h)
      /\ ~ h.open => Over(h) /\ ~ h.attached
      /\ s.sent = <<>>
  BY HostCalm, BothCalm
<1>2. CASE h.attached
  <2>1. HasFields(k) /\ Over(k) /\ Rests(h, k)
    BY <1>1, <1>2, CloseCalm
  <2> HIDE DEF k
  <2> QED BY <2>1, OverStep DEF k
<1>3. CASE ~ h.attached
  <2>1. Step(p, h)
    BY <1>3 DEF Close
  <2>2. CASE ~ h.open
    BY <1>1, <2>1, <2>2, OverStep DEF Rests
  <2>3. CASE h.open /\ p = "client"
    BY <1>1, <2>1, <2>3, BothCalm, ClientStepCalm
  <2>4. CASE h.open /\ p = "server"
    BY <1>1, <2>1, <2>4, BothCalm, ServerStepCalm
  <2> QED BY <2>2, <2>3, <2>4 DEF Hosts
<1> QED BY <1>2, <1>3

\* The oldest datagram arrives, and is gone from the network.
LEMMA ArrivalIs ==
    ASSUME OneWay, IInv, NEW p \in Hosts, NEW b \in OnWay(p), Arrive(p, b)
    PROVE  \E d \in Datagrams :
             /\ b = Encode(0, d) /\ Decode(b) = d /\ SentPacket(host[Peer(p)], d)
             /\ host[p].open /\ host[p].peeks > 0 /\ host[p].next <= MaxNumber
             /\ \A x \in OnWay(p) : d.seq <= Decode(x).seq
             /\ host' = [host EXCEPT ![p] = [ProcessPeek(host[p], d) EXCEPT !.out = {}]]
             /\ net'[p] = net[p] (-) SetToBag({b})
             /\ net'[Peer(p)] = Posted(net[Peer(p)], ProcessPeek(host[p], d).out)
             /\ Turn(p, ProcessPeek(host[p], d))
<1>1. PICK d \in Datagrams : b = Encode(0, d) /\ SentPacket(host[Peer(p)], d)
  BY DEF IInv, WireOf
<1>2. Decode(b) = d
  BY <1>1, Decoded
<1> DEFINE k == ProcessPeek(host[p], d)
<1>3. /\ host[p].open /\ host[p].peeks > 0 /\ host[p].next <= MaxNumber
      /\ \A x \in OnWay(p) : d.seq <= Decode(x).seq
      /\ host' = [host EXCEPT ![p] = [k EXCEPT !.out = {}]]
      /\ net' = [net EXCEPT ![p] = @ (-) SetToBag({b}), ![Peer(p)] = Posted(@, k.out)]
  BY <1>2 DEF Arrive, Reads, Becomes, OneWay
<1>4. Turn(p, k)
  BY <1>2, ArriveTurn
<1> HIDE DEF k
<1>5. net'[p] = net[p] (-) SetToBag({b}) /\ net'[Peer(p)] = Posted(net[Peer(p)], k.out)
  BY <1>3, TwoHosts DEF IInv
<1> QED BY <1>1, <1>2, <1>3, <1>4, <1>5 DEF k

\* After the arrival, what is to be shown of the client
LEMMA ClientLands ==
    ASSUME IInv, CalmInv, NEW k, HasFields(k), CalmClient(k), k.taken # {},
           host' = [host EXCEPT !["client"] = [k EXCEPT !.out = {}]],
           OnWay("client")' \subseteq OnWay("client"),
           net'["server"] = Posted(net["server"], k.out),
           \A b \in OnWay("client")' : Decode(b).type # "handshake",
           \A b \in k.out :
             /\ Decode(b).type # "handshake"
             /\ Decode(b).type = "keepalive" =>
                  ~ host["server"].accepted /\ b = Confirmation /\ b \notin OnWay("server"),
           ~ host["server"].accepted => Confirmation \in OnWay("server")'
    PROVE  CalmInv'
<1> DEFINE c == host["client"]
           s == host["server"]
           m == [k EXCEPT !.out = {}]
<1>1. CalmNet(c, s) /\ (Over(s) \/ CalmServer(s)) /\ s.sent = <<>>
      /\ DOMAIN host = {"client", "server"}
  BY DEF CalmInv, IInv, Hosts
<1>2. Same(k, m, {"out"}) /\ m.conn = k.conn /\ m.queue = k.queue /\ m.taken = k.taken
  BY WireTakes
<1>3. host' = [host EXCEPT !["client"] = m]
  OBVIOUS
<1> HIDE DEF m
<1>4. host'["client"] = m /\ host'["server"] = s
  BY <1>1, <1>3
<1>5. CalmClient(m) /\ m.taken # {}
  <2>1. Same(k, m, {"queue", "out", "confirming", "conn"})
    BY <1>2, SameWider
  <2> QED BY <1>2, <2>1, StillClient
<1>6. /\ CalmClient(host'["client"]) /\ (Over(host'["server"]) \/ CalmServer(host'["server"]))
      /\ host'["server"].sent = <<>>
  BY <1>1, <1>4, <1>5
<1>7. \A b \in OnWay("server")' :
        \/ b \in OnWay("server") /\ (b \notin k.out /\ net["server"][b] = 1
                                        => net'["server"][b] = 1)
        \/ b \in k.out /\ (b \notin OnWay("server") => net'["server"][b] = 1)
  BY PostedAdds DEF OnWay
<1>8. /\ \A b \in OnWay("server")' :
            /\ Decode(b).type = "handshake" => s.taken = {} /\ net'["server"][b] = 1
            /\ Decode(b).type = "keepalive" =>
                 /\ b = Confirmation /\ net'["server"][b] = 1
                 /\ m.taken # {} /\ ~ s.accepted
      /\ \A b \in OnWay("client")' :
            Decode(b).type = "handshake" => m.taken = {} /\ net'["client"][b] = 1
      /\ m.taken = {} => \A b \in OnWay("client")' : b = Answer
      /\ s.taken # {} /\ m.taken = {} => OnWay("client")' # {}
      /\ m.taken # {} /\ ~ s.accepted => Confirmation \in OnWay("server")'
  BY <1>1, <1>5, <1>7 DEF CalmNet
<1> QED BY <1>4, <1>6, <1>8 DEF CalmInv, CalmNet

\* ... and of the server.
LEMMA ServerLands ==
    ASSUME IInv, CalmInv, NEW k, HasFields(k), CalmServer(k),
           host' = [host EXCEPT !["server"] = [k EXCEPT !.out = {}]],
           OnWay("server")' \subseteq OnWay("server"),
           net'["client"] = Posted(net["client"], k.out),
           \A b \in OnWay("server")' :
             Decode(b).type # "handshake" /\ Decode(b).type # "keepalive",
           \A b \in k.out : Decode(b).type = "handshake" =>
                              host["client"].taken = {} /\ b \notin OnWay("client"),
           host["client"].taken = {} => k.out # {} /\ \A b \in k.out : b = Answer,
           host["client"].taken # {} => k.accepted
    PROVE  CalmInv'
<1> DEFINE c == host["client"]
           s == host["server"]
           m == [k EXCEPT !.out = {}]
<1>1. CalmNet(c, s) /\ (Over(c) \/ CalmClient(c)) /\ DOMAIN host = {"client", "server"}
  BY DEF CalmInv, IInv, Hosts
<1>2. /\ Same(k, m, {"out"}) /\ m.conn = k.conn /\ m.queue = k.queue
      /\ m.accepted = k.accepted
  BY WireTakes
<1>3. host' = [host EXCEPT !["server"] = m]
  OBVIOUS
<1> HIDE DEF m
<1>4. host'["server"] = m /\ host'["client"] = c
  BY <1>1, <1>3
<1>5. CalmServer(m) /\ m.sent = <<>>
  <2>1. Same(k, m, {"queue", "out", "confirming", "conn"})
    BY <1>2, SameWider
  <2> QED BY <1>2, <2>1, StillServer DEF CalmServer
<1>6. /\ Over(host'["client"]) \/ CalmClient(host'["client"])
      /\ CalmServer(host'["server"]) /\ host'["server"].sent = <<>>
  BY <1>1, <1>4, <1>5
<1>7. /\ OnWay("client")' = OnWay("client") \union k.out
      /\ \A b \in OnWay("client")' :
           \/ b \in OnWay("client") /\ (b \notin k.out /\ net["client"][b] = 1
                                           => net'["client"][b] = 1)
           \/ b \in k.out /\ (b \notin OnWay("client") => net'["client"][b] = 1)
  BY PostedAdds DEF OnWay
<1>8. /\ \A b \in OnWay("server")' :
            /\ Decode(b).type = "handshake" => m.taken = {} /\ net'["server"][b] = 1
            /\ Decode(b).type = "keepalive" =>
                 /\ b = Confirmation /\ net'["server"][b] = 1
                 /\ c.taken # {} /\ ~ m.accepted
      /\ \A b \in OnWay("client")' :
            Decode(b).type = "handshake" => c.taken = {} /\ net'["client"][b] = 1
      /\ c.taken = {} => \A b \in OnWay("client")' : b = Answer
      /\ m.taken # {} /\ c.taken = {} => OnWay("client")' # {}
      /\ c.taken # {} /\ ~ m.accepted => Confirmation \in OnWay("server")'
  BY <1>1, <1>2, <1>7 DEF CalmNet
<1> QED BY <1>4, <1>6, <1>8 DEF CalmInv, CalmNet

\* A datagram arrives at the client.
LEMMA ClientHearsCalmly ==
    ASSUME OneWay, IInv, CalmInv, NEW b \in OnWay("client"), Arrive("client", b)
    PROVE  CalmInv'
<1> DEFINE c == host["client"]
           s == host["server"]
<1>1. /\ Stable(c) /\ ClientInv(c) /\ c.out = {}
      /\ Stable(s) /\ ServerInv(s) /\ s.sent = <<>>
      /\ Cross(c, s) /\ CalmNet(c, s) /\ Heard(s, c)
  BY BothCalm
<1>2. PICK d \in Datagrams :
        /\ b = Encode(0, d) /\ Decode(b) = d /\ SentPacket(s, d)
        /\ c.open /\ c.peeks > 0 /\ c.next <= MaxNumber
        /\ host' = [host EXCEPT !["client"] = [ProcessPeek(c, d) EXCEPT !.out = {}]]
        /\ net'["client"] = net["client"] (-) SetToBag({b})
        /\ net'["server"] = Posted(net["server"], ProcessPeek(c, d).out)
        /\ Turn("client", ProcessPeek(c, d))
  BY ArrivalIs DEF Hosts, Peer
<1> DEFINE k == ProcessPeek(c, d)
<1>3. HasFields(k) /\ ClientInv(k)
  BY <1>2, StableMeans DEF Turn, Sane, Role
<1>4. c.conn \in {"connecting", "established"} /\ CalmClient(c)
  BY <1>1, <1>2, BothCalm DEF ClientInv, Untouched
<1>5. CASE c.conn = "connecting"
  <2>1. c.taken = {}
    BY <1>1, <1>5 DEF ClientInv
  <2>2. \A x \in OnWay("client") : x = Answer
    BY <1>1, <2>1 DEF CalmNet
  <2>3. OnWay("client")' = {}
    <3>1. net["client"][b] = 1
      BY <1>1, <2>2, AnswerIs DEF CalmNet
    <3> QED BY <1>2, <2>2, <3>1, OneDrops DEF OnWay
  <2>4. d = [type |-> "handshake", seq |-> 0, ack |-> 0]
    <3>1. [type |-> "handshake", seq |-> 0, ack |-> 0] \in Datagrams
      BY NumberAssumption DEF Datagrams
    <3> QED BY <1>2, <2>2, <3>1, Decoded DEF Answer
  <2>5. d.type = "handshake" /\ d.seq = 0 /\ d.ack = 0
    BY <2>4
  <2>6. CalmClient(k) /\ k.conn = "established" /\ k.out = {Confirmation}
    BY <1>1, <1>2, <1>4, <1>5, <2>5, ClientAnswers
  <2> HIDE DEF k
  <2>7. k.taken # {}
    BY <1>3, <2>6 DEF ClientInv
  <2>8. ~ s.accepted
    BY <1>1, <2>1 DEF Cross
  <2>9. Decode(Confirmation).type = "keepalive"
    <3> DEFINE e == [type |-> "keepalive", seq |-> 1, ack |-> 0]
    <3>1. 1 \in 0 .. MaxNumber
      BY <1>1, <1>2, <1>5, NumberAssumption DEF ClientInv
    <3>2. e \in Datagrams
      BY <3>1, NumberAssumption DEF Datagrams
    <3>3. Decode(Confirmation) = e
      BY <3>2, Decoded DEF Confirmation
    <3> QED BY <3>3
  <2>10. Confirmation \notin OnWay("server")
    BY <1>1, <2>1, <2>9 DEF CalmNet
  <2>11. /\ net'["server"] = Posted(net["server"], k.out)
         /\ host' = [host EXCEPT !["client"] = [k EXCEPT !.out = {}]]
    BY <1>2 DEF k
  <2>12. Confirmation \in OnWay("server")'
    BY <2>6, <2>11, PostedAdds DEF OnWay
  <2> QED BY <1>3, <2>3, <2>6, <2>7, <2>8, <2>9, <2>10, <2>11, <2>12, ClientLands
<1>6. CASE c.conn = "established"
  <2>1. c.taken # {}
    BY <1>1, <1>6 DEF ClientInv
  <2>2. d.type = "keepalive"
    <3>1. d.type # "handshake"
      BY <1>1, <1>2, <2>1 DEF CalmNet
    <3>2. d.type # "data"
      BY <1>1, <1>2 DEF SentPacket, SentBy
    <3> QED BY <3>1, <3>2 DEF Datagrams
  <2>3. Fits(c, d)
    <3>1. ~ s.accepted => d.seq = 0
      BY <1>2 DEF IInv
    <3>2. \A n \in s.taken : n < c.next
      BY <1>1 DEF Heard
    <3> QED BY <1>1, <1>2, <1>6, <2>1, <3>1, <3>2, ClientFits
  <2>4. CalmClient(k) /\ k.conn = "established" /\ OnlyData(k.out)
    BY <1>1, <1>2, <1>4, <1>6, <2>2, <2>3, ClientTold
  <2> HIDE DEF k
  <2>5. k.taken # {}
    BY <1>3, <2>4 DEF ClientInv
  <2>6. /\ OnWay("client")' \subseteq OnWay("client")
        /\ net'["server"] = Posted(net["server"], k.out)
        /\ host' = [host EXCEPT !["client"] = [k EXCEPT !.out = {}]]
    BY <1>2, OneDrops DEF k, OnWay
  <2>7. \A x \in OnWay("client")' : Decode(x).type # "handshake"
    BY <1>1, <2>1, <2>6 DEF CalmNet
  <2>8. ~ s.accepted => Confirmation \in OnWay("server")'
    BY <1>1, <2>1, <2>6, PostedAdds DEF CalmNet, OnWay
  <2>9. \A x \in k.out : Decode(x).type # "handshake" /\ Decode(x).type # "keepalive"
    BY <2>4 DEF OnlyData
  <2> QED BY <1>3, <2>4, <2>5, <2>6, <2>7, <2>8, <2>9, ClientLands
<1> QED BY <1>4, <1>5, <1>6

\* The client's answer is number 1, and no data is.
LEMMA ConfirmationIs ==
    ASSUME IInv, Confirmation \in OnWay("server"), 1 \in NumberSet
    PROVE  Decode(Confirmation).seq = 1 /\ 1 \notin SentBy(host["client"])
<1> DEFINE e == [type |-> "keepalive", seq |-> 1, ack |-> 0]
<1>1. e \in Datagrams
  BY NumberAssumption DEF Datagrams, NumberSet
<1>2. Decode(Confirmation) = e
  BY <1>1, Decoded DEF Confirmation
<1>3. PICK d \in Datagrams : Confirmation = Encode(0, d) /\ SentPacket(host["client"], d)
  BY DEF IInv, WireOf, Hosts, Peer
<1>4. d = e
  BY <1>2, <1>3, Decoded
<1> QED BY <1>2, <1>3, <1>4 DEF SentPacket

\* A datagram arrives at the server.
LEMMA ServerHearsCalmly ==
    ASSUME OneWay, IInv, CalmInv, NEW b \in OnWay("server"), Arrive("server", b)
    PROVE  CalmInv'
<1> DEFINE c == host["client"]
           s == host["server"]
<1>1. /\ Stable(c) /\ ClientInv(c)
      /\ Stable(s) /\ ServerInv(s) /\ s.out = {} /\ (s.open => CalmServer(s))
      /\ Cross(c, s) /\ CalmNet(c, s) /\ s.failed = "no"
  BY BothCalm
<1>2. PICK d \in Datagrams :
        /\ b = Encode(0, d) /\ Decode(b) = d /\ SentPacket(c, d)
        /\ s.open /\ s.peeks > 0 /\ s.next <= MaxNumber
        /\ \A x \in OnWay("server") : d.seq <= Decode(x).seq
        /\ host' = [host EXCEPT !["server"] = [ProcessPeek(s, d) EXCEPT !.out = {}]]
        /\ net'["server"] = net["server"] (-) SetToBag({b})
        /\ net'["client"] = Posted(net["client"], ProcessPeek(s, d).out)
        /\ Turn("server", ProcessPeek(s, d))
  BY ArrivalIs DEF Hosts, Peer
<1> DEFINE k == ProcessPeek(s, d)
<1>3. HasFields(k) /\ ServerInv(k)
  BY <1>2, StableMeans DEF Turn, Sane, Role
<1>4. s.conn \in {"listening", "established"} /\ s.attached /\ CalmServer(s)
  BY <1>1, <1>2 DEF ServerInv, Untouched, CalmServer
<1>5. Fits(s, d)
  BY <1>1, <1>2, <1>4, ServerFits DEF Cross
<1>6. CASE s.conn = "listening" /\ d.type = "handshake"
  <2>1. s.taken = {} /\ c.taken = {}
    BY <1>1, <1>2, <1>6 DEF CalmNet, Cross
  <2>2. d.seq = 0 /\ d.ack = NoAck
    BY <1>5, <1>6 DEF Fits
  <2>3. CalmServer(k) /\ k.conn = "listening" /\ k.out # {}
    BY <1>1, <1>2, <1>4, <1>6, <2>1, <2>2, ServerAnswers
  <2>8. Stable(k) /\ (~ k.accepted => Puts(s, k, {0}))
    BY <1>2 DEF Turn, Sane
  <2>4. \A x \in OnWay("server") : Decode(x).type = "handshake" => x = b
    <3>1. SUFFICES ASSUME NEW x \in OnWay("server"), Decode(x).type = "handshake"
                   PROVE  x = b
      OBVIOUS
    <3>2. PICK e \in Datagrams : x = Encode(0, e) /\ SentPacket(c, e)
      BY DEF IInv, WireOf, Hosts, Peer
    <3>3. e.type = "handshake"
      BY <3>1, <3>2, Decoded
    <3>4. e.seq = 0 /\ e.ack = NoAck
      BY <1>1, <3>2, <3>3 DEF SentPacket, ClientInv, Shake
    <3>5. e = d
      BY <1>6, <2>2, <3>3, <3>4 DEF Datagrams
    <3> QED BY <1>2, <3>2, <3>5
  <2> HIDE DEF k
  <2>5. ~ k.accepted
    BY <1>3, <2>3 DEF ServerInv, CalmServer
  <2>6. /\ OnWay("server")' \subseteq OnWay("server") /\ b \notin OnWay("server")'
        /\ net'["client"] = Posted(net["client"], k.out)
        /\ host' = [host EXCEPT !["server"] = [k EXCEPT !.out = {}]]
    <3>1. net["server"][b] = 1
      BY <1>1, <1>2, <1>6 DEF CalmNet
    <3> QED BY <1>2, <3>1, OneDrops DEF k, OnWay
  <2>7. \A x \in k.out : x = Answer
    BY <1>1, <1>3, <2>3, <2>5, <2>8, AnswerOnly
  <2>9. OnWay("client") = {}
    <3>1. s.next = 0
      <4>1. 0 \notin Shakes(s)
        BY <1>1, <2>1 DEF Stable, Sound, Numbered, ServerInv, ServerShakes, Shakes
      <4>2. s.next \in Nat /\ ~ (s.next > 0)
        BY <1>1, <4>1, StableMeans DEF Stable
      <4> QED BY <4>2
    <3>2. \A x \in OnWay("client") : \E e \in Datagrams : e.seq < s.next
      BY DEF IInv, WireOf, SentPacket, Hosts, Peer
    <3> QED BY <3>1, <3>2, NumberAssumption DEF Datagrams
  <2>10. \A x \in OnWay("server")' :
           Decode(x).type # "handshake" /\ Decode(x).type # "keepalive"
    BY <1>1, <2>1, <2>4, <2>6 DEF CalmNet
  <2> QED BY <1>3, <2>1, <2>3, <2>6, <2>7, <2>9, <2>10, ServerLands
<1>7. d.type # "handshake" => c.taken # {} /\ s.taken # {}
  <2>1. c.sent # <<>> => c.taken # {}
    BY <1>1 DEF Stable
  <2>2. d.type # "handshake" => c.taken # {}
    BY <1>2, <2>1 DEF SentPacket, SentBy, Datagrams
  <2> QED BY <1>1, <2>2 DEF Cross
<1>8. d.type # "handshake" => d.seq > 0 /\ 1 \in NumberSet
  <2>1. 0 \in Shakes(c) /\ 0 \notin SentBy(c)
    BY <1>1, <1>2, PacketMeans DEF ClientInv, Stable, Sound, Numbered, Shakes
  <2>2. d.type # "handshake" => d.seq # 0
    BY <1>2, <2>1 DEF SentPacket, Datagrams
  <2> QED BY <2>2, NumberAssumption DEF Datagrams, NumberSet
<1>9. CASE s.conn = "listening" /\ d.type = "keepalive"
  <2>1. b = Confirmation /\ c.taken # {} /\ s.taken # {}
    BY <1>1, <1>2, <1>7, <1>9 DEF CalmNet
  <2>2. d.seq = 1 /\ d.ack = 0
    <3> DEFINE e == [type |-> "keepalive", seq |-> 1, ack |-> 0]
    <3>1. e \in Datagrams
      BY <1>8, <1>9, NumberAssumption DEF Datagrams, NumberSet
    <3>2. d = e
      BY <1>2, <2>1, <3>1, Decoded DEF Confirmation
    <3> QED BY <3>2
  <2>3. CalmServer(k) /\ k.conn = "established" /\ k.out = {}
    BY <1>1, <1>2, <1>4, <1>9, <2>1, <2>2, ServerAccepts
  <2> HIDE DEF k
  <2>4. k.accepted
    BY <1>3, <2>3 DEF ServerInv, CalmServer
  <2>5. /\ OnWay("server")' \subseteq OnWay("server") /\ b \notin OnWay("server")'
        /\ net'["client"] = Posted(net["client"], k.out)
        /\ host' = [host EXCEPT !["server"] = [k EXCEPT !.out = {}]]
    <3>1. net["server"][b] = 1
      BY <1>1, <1>2, <1>9 DEF CalmNet
    <3> QED BY <1>2, <3>1, OneDrops DEF k, OnWay
  <2>6. \A x \in OnWay("server")' :
          Decode(x).type # "handshake" /\ Decode(x).type # "keepalive"
    BY <1>1, <2>1, <2>5 DEF CalmNet
  <2> QED BY <1>3, <2>1, <2>3, <2>4, <2>5, <2>6, ServerLands
<1>10. CASE s.conn = "listening" /\ d.type = "data"
  <2>1. ~ s.accepted
    BY <1>1, <1>4, <1>10 DEF ServerInv
  <2>2. Confirmation \in OnWay("server")
    BY <1>1, <1>7, <1>10, <2>1 DEF CalmNet
  <2>3. Decode(Confirmation).seq = 1 /\ 1 \notin SentBy(c)
    BY <1>8, <1>10, <2>2, ConfirmationIs
  <2>4. d.seq <= 1 /\ d.seq > 0 /\ d.seq \in NumberSet
    BY <1>2, <1>8, <1>10, <2>2, <2>3 DEF Datagrams, NumberSet
  <2>5. d.seq = 1
    BY <2>4 DEF NumberSet
  <2> QED BY <1>2, <1>10, <2>3, <2>5 DEF SentPacket
<1>11. CASE s.conn = "established"
  <2>1. s.accepted
    BY <1>1, <1>4, <1>11 DEF ServerInv
  <2>2. c.taken # {} /\ s.taken # {}
    BY <1>1, <2>1 DEF Cross
  <2>3. d.type = "data"
    BY <1>1, <1>2, <2>1, <2>2 DEF CalmNet, Datagrams
  <2>4. CalmServer(k) /\ k.conn = "established" /\ NoHandshake(k.out)
    BY <1>1, <1>2, <1>4, <1>5, <1>11, <2>2, <2>3, ServerHandsOut
  <2> HIDE DEF k
  <2>5. k.accepted
    BY <1>3, <2>4 DEF ServerInv, CalmServer
  <2>6. /\ OnWay("server")' \subseteq OnWay("server")
        /\ net'["client"] = Posted(net["client"], k.out)
        /\ host' = [host EXCEPT !["server"] = [k EXCEPT !.out = {}]]
    BY <1>2, OneDrops DEF k, OnWay
  <2>7. \A x \in OnWay("server")' :
          Decode(x).type # "handshake" /\ Decode(x).type # "keepalive"
    BY <1>1, <2>1, <2>2, <2>6 DEF CalmNet
  <2>8. \A x \in k.out : Decode(x).type # "handshake"
    BY <2>4 DEF NoHandshake
  <2> QED BY <1>3, <2>2, <2>4, <2>5, <2>6, <2>7, <2>8, ServerLands
<1>12. d.type \in {"handshake", "keepalive", "data"}
  BY DEF Datagrams
<1> QED BY <1>4, <1>6, <1>9, <1>10, <1>11, <1>12

\* At first nothing is counted, kept or on its way.
LEMMA CalmInit == Init => CalmInv
<1> SUFFICES ASSUME Init PROVE CalmInv
  OBVIOUS
<1> DEFINE c == host["client"]
           s == host["server"]
<1>1. /\ c = [Fresh EXCEPT !.attached = TRUE] /\ s = [Fresh EXCEPT !.attached = FALSE]
      /\ OnWay("client") = {} /\ OnWay("server") = {}
  BY DEF Init, Hosts, OnWay, EmptyBag, SetToBag, BagToSet
<1> HIDE DEF c, s
<1>2. /\ c.failed = "no" /\ c.open = TRUE /\ c.calls = 0 /\ c.receiving = FALSE
      /\ c.accepting = FALSE /\ c.outputs = <<>> /\ c.jobs = 0 /\ c.inputs = 0
      /\ c.conn = "closed" /\ c.taken = {}
  BY <1>1 DEF Fresh
<1>3. /\ s.failed = "no" /\ s.open = TRUE /\ s.calls = 0 /\ s.receiving = FALSE
      /\ s.accepting = FALSE /\ s.outputs = <<>> /\ s.jobs = 0 /\ s.inputs = 0
      /\ s.conn = "closed" /\ s.taken = {} /\ s.sent = <<>> /\ s.attached = FALSE
  BY <1>1 DEF Fresh
<1>4. CalmClient(c)
  BY <1>2 DEF CalmClient, Calm, Reader, Acceptors
<1>5. CalmServer(s)
  BY <1>3 DEF CalmServer, Calm, Reader, Acceptors
<1>6. CalmNet(c, s)
  BY <1>1, <1>2, <1>3 DEF CalmNet
<1> QED BY <1>3, <1>4, <1>5, <1>6 DEF CalmInv, c, s

\* Every action keeps it.
LEMMA CalmNext ==
    ASSUME OneWay, IInv, CalmInv, Next
    PROVE  CalmInv'
<1>1. NumberSet = 0 .. MaxNumber
  BY DEF NumberSet
<1>2. CASE Accept
  BY <1>2, AcceptsCalmly
<1>3. CASE Connect
  BY <1>3, ConnectsCalmly
<1>4. CASE \E p \in Hosts : Send(p) \/ Receive(p)
  BY <1>4, SendsCalmly, ReceivesCalmly
<1>5. CASE \E p \in Hosts : Service(p)
  <2>1. PICK p \in Hosts : Service(p)
    BY <1>5
  <2>2. CASE \E b \in OnWay(p) : Arrive(p, b)
    BY <2>2, ClientHearsCalmly, ServerHearsCalmly DEF Hosts
  <2>3. CASE \E n \in 0 .. MaxNumber :
               StepCompletes(p, n) \/ StepFails(p, n) \/ RunAbort(p, n)
    <3>1. \A n : ~ StepFails(p, n)
      BY ConnectionAssumption DEF StepFails, OneWay
    <3> QED BY <1>1, <2>3, <3>1, CompletesCalmly, RunsAbortCalmly
  <2>4. CASE ConfirmationSent(p) \/ ConfirmationFails(p)
    <3>1. ~ ConfirmationFails(p)
      BY ConnectionAssumption DEF ConfirmationFails, OneWay
    <3> QED BY <2>4, <3>1, ConfirmsCalmly
  <2>5. CASE ReceiveJob(p)
    <3>1. host[p].jobs = 0 /\ host[p].jobs > 0
      BY <2>5, HostCalm DEF ReceiveJob
    <3> QED BY <3>1
  <2>6. CASE Tick(p)
    BY <2>6, TicksCalmly
  <2> QED BY <2>1, <2>2, <2>3, <2>4, <2>5, <2>6 DEF Service
<1>6. CASE \E p \in Hosts : UserCloses(p) \/ KeepaliveTimeout(p)
  BY <1>6, ClosesCalmly DEF UserCloses, KeepaliveTimeout
<1> QED BY <1>2, <1>3, <1>4, <1>5, <1>6 DEF Next, Users

\* ... and so does a step that changes nothing.
LEMMA CalmKeeps == OneWay /\ IInv /\ CalmInv /\ [Next]_vars => CalmInv'
<1> SUFFICES ASSUME OneWay, IInv, CalmInv, [Next]_vars PROVE CalmInv'
  OBVIOUS
<1>1. CASE Next
  BY <1>1, CalmNext
<1>2. CASE UNCHANGED vars
  BY <1>2 DEF vars, CalmInv, CalmNet, OnWay
<1> QED BY <1>1, <1>2

\* What the runs check follows: nothing has failed,
LEMMA CalmMeans ==
    ASSUME IInv, CalmInv
    PROVE  NoFailure /\ CallsCounted /\ ReadPosted /\ WaitingIsReading
<1> DEFINE c == host["client"]
           s == host["server"]
<1>1. /\ Over(c) \/ CalmClient(c)
      /\ Over(s) \/ CalmServer(s)
      /\ ServerInv(s) /\ c.failed = "no" /\ s.failed = "no"
  BY BothCalm
<1>2. \A p \in Hosts : Stable(host[p]) /\ (host[p].open => Calm(host[p]))
  BY HostCalm
<1>3. NoFailure
  BY <1>1 DEF NoFailure, Hosts
<1>4. CallsCounted
  BY <1>2 DEF CallsCounted, Calm, Reader
<1>5. ReadPosted
  <2> SUFFICES ASSUME NEW p \in Hosts, host[p].open
               PROVE  host[p].peeks = IF host[p].receiving \/ host[p].accepting THEN 1 ELSE 0
    BY DEF ReadPosted
  <2> DEFINE h == host[p]
  <2>1. h.peeks = IF h.calls > 0 THEN 1 ELSE 0
    BY <1>2 DEF Stable, Calm, OneRead
  <2>2. h.calls = Reader(h) + Acceptors(h)
    BY <1>2 DEF Calm
  <2>3. h.calls > 0 <=> h.receiving \/ h.accepting
    BY <2>2 DEF Reader, Acceptors
  <2> QED BY <2>1, <2>3
<1>6. WaitingIsReading
  <2>1. c.inputs = 0 /\ ~ (c.inputs > 0)
    BY <1>1 DEF CalmClient, Over
  <2>2. s.inputs > 0 => s.receiving
    <3>1. CASE Over(s)
      BY <3>1 DEF Over
    <3>2. CASE CalmServer(s)
      BY <1>1, <3>2 DEF CalmServer, ServerInv
    <3> QED BY <1>1, <3>1, <3>2
  <2> QED BY <2>1, <2>2 DEF WaitingIsReading, Hosts
<1> QED BY <1>3, <1>4, <1>5, <1>6

\* CalmInv is an invariant when data goes one way over a network that loses nothing.
THEOREM CalmInvHolds ==
    ASSUME OneWay
    PROVE  Spec => [](IInv /\ CalmInv)
<1>1. OneWay
  OBVIOUS
<1>2. Init => IInv /\ CalmInv
  BY InitHolds, CalmInit
<1>3. IInv /\ CalmInv /\ [Next]_vars => (IInv /\ CalmInv)'
  BY <1>1, NextKeeps, CalmKeeps
<1> QED BY <1>2, <1>3, PTL DEF Spec

\* In a connection one way over a network that loses nothing, with the
\* handshake not repeated before the server reads (OneWay), no assertion
\* fails, however the two hosts interleave, whatever else is repeated,
\* however much is sent and whenever one closes.
THEOREM NoFailureHolds ==
    ASSUME OneWay
    PROVE  Spec => []NoFailure
<1>1. Spec => [](IInv /\ CalmInv)
  BY CalmInvHolds
<1>2. IInv /\ CalmInv => NoFailure
  BY CalmMeans
<1> QED BY <1>1, <1>2, PTL

\* ... receive_calls is exact,
THEOREM CallsCountedHolds ==
    ASSUME OneWay
    PROVE  Spec => []CallsCounted
<1>1. Spec => [](IInv /\ CalmInv)
  BY CalmInvHolds
<1>2. IInv /\ CalmInv => CallsCounted
  BY CalmMeans
<1> QED BY <1>1, <1>2, PTL

\* ... a read is posted whenever somebody waits for one, and one only,
THEOREM ReadPostedHolds ==
    ASSUME OneWay
    PROVE  Spec => []ReadPosted
<1>1. Spec => [](IInv /\ CalmInv)
  BY CalmInvHolds
<1>2. IInv /\ CalmInv => ReadPosted
  BY CalmMeans
<1> QED BY <1>1, <1>2, PTL

\* ... and a socket whose user waits to receive reads.
THEOREM WaitingIsReadingHolds ==
    ASSUME OneWay
    PROVE  Spec => []WaitingIsReading
<1>1. Spec => [](IInv /\ CalmInv)
  BY CalmInvHolds
<1>2. IInv /\ CalmInv => WaitingIsReading
  BY CalmMeans
<1> QED BY <1>1, <1>2, PTL
=============================================================================
