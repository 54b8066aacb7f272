---------------------------- MODULE PartsProofs ----------------------------
(***************************************************************************)
(* Proofs about parts that share no state: Buffer, TcpSend, Codec, Daemon, *)
(* Logger, Conf and Cron, for every value of their constants.              *)
(***************************************************************************)
EXTENDS Buffer, TcpSend, Codec, Daemon, Logger, Conf, Cron, SequenceTheorems,
        WellFoundedInduction, TLAPS

-----------------------------------------------------------------------------
(* Buffer: positions, contents and the room that makeRoom makes.            *)

\* The buffer r holds the bytes d.
Holds(r, d) == /\ Fits(r) /\ d \in Seq(Bytes) /\ Size(r) = Len(d)
               /\ \A k \in 1 .. Len(d) : r.mem[r.b + k - 1] = d[k]

\* Content is what a buffer holds.
LEMMA HoldsContent ==
    ASSUME NEW r, NEW d, Holds(r, d) PROVE Content(r) = d
<1>1. d \in [1 .. Len(d) -> Bytes] /\ Len(d) \in Nat
  BY DEF Holds
<1>2. Size(r) = Len(d) /\ \A k \in 1 .. Len(d) : r.mem[r.b + k - 1] = d[k]
  BY DEF Holds
<1> QED BY <1>1, <1>2 DEF Content

\* A buffer whose positions are inside its array holds its content.
LEMMA ContentHolds ==
    ASSUME NEW r, Fits(r), NEW d \in Seq(Bytes), Content(r) = d PROVE Holds(r, d)
<1>1. r.b \in Nat /\ r.e \in Nat /\ r.b <= r.e /\ Size(r) \in Nat
  BY DEF Fits, Size
<1>2. DOMAIN d = 1 .. Len(d) /\ Len(d) \in Nat /\ DOMAIN d = 1 .. Size(r)
  BY DEF Content
<1>3. Size(r) = Len(d)
  BY <1>1, <1>2
<1>4. \A k \in 1 .. Len(d) : r.mem[r.b + k - 1] = d[k]
  BY <1>3 DEF Content
<1> QED BY <1>3, <1>4 DEF Holds

\* A new buffer holds nothing.
LEMMA EmptyHolds == Holds(Empty, <<>>)
<1>1. Fits(Empty)
  <2>1. Empty.b = 0 /\ Empty.e = 0 /\ Empty.cap = 0 /\ Empty.mem = [i \in {} |-> Junk]
    BY DEF Empty
  <2>2. 0 .. 0 - 1 = {}
    OBVIOUS
  <2>3. Empty.mem \in [0 .. Empty.cap - 1 -> Bytes \cup {Junk}]
    BY <2>1, <2>2
  <2>4. Empty = [mem |-> Empty.mem, b |-> Empty.b, e |-> Empty.e, cap |-> Empty.cap]
    BY <2>1 DEF Empty
  <2> QED BY <2>1, <2>3, <2>4 DEF Fits
<1>2. Size(Empty) = 0 /\ Len(<<>>) = 0 /\ <<>> \in Seq(Bytes)
  BY DEF Size, Empty
<1> QED BY <1>1, <1>2 DEF Holds

\* moveHead and expand keep the bytes.
LEMMA FrontHolds ==
    ASSUME NEW r, NEW d, Holds(r, d), NEW n \in Nat, Size(r) <= n
    PROVE  /\ Holds(AtFront(r, n), d)
           /\ AtFront(r, n).cap = n /\ AtFront(r, n).e = Size(r) /\ AtFront(r, n).b = 0
<1> DEFINE q == AtFront(r, n)
<1>1. /\ r.b \in Nat /\ r.e \in Nat /\ r.cap \in Nat /\ r.b <= r.e /\ r.e <= r.cap
      /\ r.mem \in [0 .. r.cap - 1 -> Bytes \cup {Junk}]
      /\ Size(r) = r.e - r.b /\ Size(r) = Len(d) /\ Len(d) \in Nat /\ d \in Seq(Bytes)
      /\ \A k \in 1 .. Len(d) : r.mem[r.b + k - 1] = d[k]
  BY DEF Holds, Fits, Size
<1>2. /\ q.b = 0 /\ q.e = Size(r) /\ q.cap = n
      /\ q.mem = [i \in 0 .. n - 1 |-> IF i < Size(r) THEN r.mem[r.b + i] ELSE Junk]
      /\ q = [mem |-> q.mem, b |-> q.b, e |-> q.e, cap |-> q.cap]
  BY DEF AtFront
<1>3. \A i \in 0 .. n - 1 : i < Size(r) => r.b + i \in 0 .. r.cap - 1
  BY <1>1
<1>4. q.mem \in [0 .. n - 1 -> Bytes \cup {Junk}]
  BY <1>1, <1>2, <1>3
<1>5. Fits(q)
  BY <1>1, <1>2, <1>4 DEF Fits
<1>6. ASSUME NEW k \in 1 .. Len(d) PROVE q.mem[q.b + k - 1] = d[k]
  <2>1. k - 1 \in 0 .. n - 1 /\ k - 1 < Size(r) /\ q.b + k - 1 = k - 1
    BY <1>1, <1>2
  <2>2. q.mem[k - 1] = r.mem[r.b + (k - 1)] /\ r.b + (k - 1) = r.b + k - 1
    BY <1>1, <1>2, <2>1
  <2> QED BY <1>1, <2>1, <2>2
<1>7. Size(q) = Len(d)
  BY <1>1, <1>2 DEF Size
<1> QED BY <1>1, <1>2, <1>5, <1>6, <1>7 DEF Holds

\* makeRoom(len) keeps the bytes and makes the room.
LEMMA MakeRoomHolds ==
    ASSUME NEW r, NEW d, Holds(r, d), NEW n \in Nat
    PROVE  Holds(MakeRoom(r, n), d) /\ Space(MakeRoom(r, n)) >= n
<1>1. /\ r.b \in Nat /\ r.e \in Nat /\ r.cap \in Nat /\ r.b <= r.e /\ r.e <= r.cap
      /\ Size(r) = r.e - r.b /\ Size(r) \in Nat
  BY DEF Holds, Fits, Size
<1>2. CASE r.e + n <= r.cap
  BY <1>1, <1>2 DEF MakeRoom, Space
<1>3. CASE ~(r.e + n <= r.cap) /\ Size(r) + n < r.cap \div 2
  <2>1. MakeRoom(r, n) = AtFront(r, r.cap)
    BY <1>3 DEF MakeRoom, MoveHead
  <2>2. Holds(AtFront(r, r.cap), d) /\ AtFront(r, r.cap).cap = r.cap
        /\ AtFront(r, r.cap).e = Size(r)
    BY <1>1, FrontHolds
  <2>3. Size(r) + n <= r.cap
    BY <1>1, <1>3
  <2> QED BY <1>1, <2>1, <2>2, <2>3 DEF Space
<1>4. CASE ~(r.e + n <= r.cap) /\ ~(Size(r) + n < r.cap \div 2)
  <2> DEFINE m == Larger(Exp, Larger(2 * r.cap, Size(r) + n))
  <2>1. MakeRoom(r, n) = AtFront(r, m)
    BY <1>4 DEF MakeRoom, Expand
  <2>2. m \in Nat /\ Size(r) + n <= m
    BY <1>1, BufferAssumption DEF Larger
  <2>3. Size(r) <= m
    BY <1>1, <2>2
  <2>4. Holds(AtFront(r, m), d) /\ AtFront(r, m).cap = m /\ AtFront(r, m).e = Size(r)
    BY <1>1, <2>2, <2>3, FrontHolds
  <2> HIDE DEF m
  <2> QED BY <1>1, <2>1, <2>2, <2>4 DEF Space
<1> QED BY <1>2, <1>3, <1>4

\* makeRoom() keeps the bytes and makes some room.
LEMMA MakeSomeRoomHolds ==
    ASSUME NEW r, NEW d, Holds(r, d)
    PROVE  Holds(MakeSomeRoom(r), d) /\ Space(MakeSomeRoom(r)) > 0
<1>1. /\ r.b \in Nat /\ r.e \in Nat /\ r.cap \in Nat /\ r.b <= r.e /\ r.e <= r.cap
      /\ Size(r) = r.e - r.b /\ Size(r) \in Nat /\ Space(r) = r.cap - r.e
  BY DEF Holds, Fits, Size, Space
<1>2. CASE ~(Space(r) < Exp)
  BY <1>1, <1>2, BufferAssumption DEF MakeSomeRoom
<1>3. CASE Space(r) < Exp
  <2> DEFINE m == Larger(Exp, Larger(2 * r.cap, Size(r) + 0))
  <2>1. MakeSomeRoom(r) = AtFront(r, m)
    BY <1>3 DEF MakeSomeRoom, Expand
  <2>2. m \in Nat /\ Size(r) < m
    BY <1>1, BufferAssumption DEF Larger
  <2>3. Size(r) <= m
    BY <1>1, <2>2
  <2>4. Holds(AtFront(r, m), d) /\ AtFront(r, m).cap = m /\ AtFront(r, m).e = Size(r)
    BY <1>1, <2>2, <2>3, FrontHolds
  <2> HIDE DEF m
  <2> QED BY <1>1, <2>1, <2>2, <2>4 DEF Space
<1> QED BY <1>2, <1>3

\* The k-th byte of a buffer that held m bytes in cells b .. e-1 and got l more.
LEMMA PutIndex ==
    ASSUME NEW b \in Nat, NEW e \in Nat, NEW cap \in Nat, NEW m \in Nat, NEW l \in Nat,
           NEW k \in Nat, e = b + m, e + l <= cap, 1 <= k, k <= m + l
    PROVE  /\ b + k - 1 \in 0 .. cap - 1
           /\ k <= m => b + k - 1 < e /\ k \in 1 .. m
           /\ ~(k <= m) => /\ e <= b + k - 1 /\ b + k - 1 < e + l
                           /\ (b + k - 1) - e + 1 = k - m
OBVIOUS

\* The k-th byte of a buffer from whose m bytes n were consumed.
LEMMA ConsumeIndex ==
    ASSUME NEW b \in Nat, NEW cap \in Nat, NEW m \in Nat, NEW n \in Nat, NEW k \in Nat,
           b + m <= cap, 1 <= k, k <= m - n
    PROVE  /\ (b + n) + k - 1 = b + (n + k) - 1 /\ b + (n + k) - 1 \in 0 .. cap - 1
           /\ ~(b + (n + k) - 1 < b + n) /\ n + k \in 1 .. m
OBVIOUS

\* Writing s at end(), where there is room, appends it.
LEMMA PutHolds ==
    ASSUME NEW r, NEW d, Holds(r, d), NEW s \in Seq(Bytes), Len(s) <= Space(r)
    PROVE  Holds(Put(r, s), d \o s)
<1> DEFINE q == Put(r, s)
<1>1. /\ r.b \in Nat /\ r.e \in Nat /\ r.cap \in Nat /\ r.b <= r.e /\ r.e <= r.cap
      /\ r.mem \in [0 .. r.cap - 1 -> Bytes \cup {Junk}]
      /\ Size(r) = r.e - r.b /\ Size(r) = Len(d) /\ Len(d) \in Nat /\ d \in Seq(Bytes)
      /\ \A k \in 1 .. Len(d) : r.mem[r.b + k - 1] = d[k]
  BY DEF Holds, Fits, Size
<1>2. Len(s) \in Nat /\ r.e + Len(s) <= r.cap /\ \A i \in 1 .. Len(s) : s[i] \in Bytes
  BY <1>1 DEF Space
<1>3. /\ q.b = r.b /\ q.e = r.e + Len(s) /\ q.cap = r.cap
      /\ q.mem = [i \in 0 .. r.cap - 1 |->
                     IF r.e <= i /\ i < r.e + Len(s) THEN s[i - r.e + 1] ELSE r.mem[i]]
      /\ q = [mem |-> q.mem, b |-> q.b, e |-> q.e, cap |-> q.cap]
  BY DEF Put
<1>4. \A i \in 0 .. r.cap - 1 : r.e <= i /\ i < r.e + Len(s) => i - r.e + 1 \in 1 .. Len(s)
  BY <1>1, <1>2
<1>5. q.mem \in [0 .. r.cap - 1 -> Bytes \cup {Junk}]
  BY <1>1, <1>2, <1>3, <1>4
<1>6. Fits(q)
  BY <1>1, <1>2, <1>3, <1>5 DEF Fits
<1>7. /\ d \o s \in Seq(Bytes) /\ Len(d \o s) = Len(d) + Len(s)
      /\ \A i \in 1 .. Len(d) + Len(s) :
             (d \o s)[i] = IF i <= Len(d) THEN d[i] ELSE s[i - Len(d)]
  BY <1>1, ConcatProperties
<1> HIDE DEF q
<1>8. Size(q) = Len(d \o s)
  <2>1. Size(q) = q.e - q.b
    BY DEF Size
  <2>2. q.e = r.e + Len(s) /\ q.b = r.b
    BY <1>3
  <2>3. /\ r.e \in Nat /\ r.b \in Nat /\ Len(s) \in Nat /\ Len(d) \in Nat
        /\ r.e - r.b = Len(d)
    BY <1>1, <1>2
  <2>4. Size(q) = Len(d) + Len(s)
    BY <2>1, <2>2, <2>3
  <2> QED BY <1>7, <2>4
<1>9. ASSUME NEW k \in 1 .. Len(d \o s) PROVE q.mem[q.b + k - 1] = (d \o s)[k]
  <2>a. /\ r.b \in Nat /\ r.e \in Nat /\ r.cap \in Nat /\ Len(s) \in Nat /\ Len(d) \in Nat
        /\ r.e = r.b + Len(d) /\ r.e + Len(s) <= r.cap
    BY <1>1, <1>2
  <2>b. k \in Nat /\ 1 <= k /\ k <= Len(d) + Len(s)
    BY <1>7, <2>a
  <2>1. r.b + k - 1 \in 0 .. r.cap - 1 /\ q.b + k - 1 = r.b + k - 1
    <3>1. r.b + k - 1 \in 0 .. r.cap - 1
      BY <2>a, <2>b, PutIndex
    <3> QED BY <1>3, <3>1
  <2>2. CASE k <= Len(d)
    <3>1. r.b + k - 1 < r.e /\ k \in 1 .. Len(d)
      BY <2>2, <2>a, <2>b, PutIndex
    <3>2. q.mem[r.b + k - 1] = r.mem[r.b + k - 1]
      BY <1>1, <1>3, <2>1, <3>1
    <3> QED BY <1>1, <1>7, <2>1, <2>2, <3>1, <3>2
  <2>3. CASE ~(k <= Len(d))
    <3>1. /\ r.e <= r.b + k - 1 /\ r.b + k - 1 < r.e + Len(s)
          /\ (r.b + k - 1) - r.e + 1 = k - Len(d)
      BY <2>3, <2>a, <2>b, PutIndex
    <3>2. q.mem[r.b + k - 1] = s[(r.b + k - 1) - r.e + 1]
      BY <1>3, <2>1, <3>1
    <3>3. (d \o s)[k] = s[k - Len(d)]
      BY <1>7, <2>3
    <3> QED BY <2>1, <3>1, <3>2, <3>3
  <2> QED BY <2>2, <2>3
<1> QED BY <1>6, <1>7, <1>8, <1>9 DEF Holds, q

\* append appends.
LEMMA AppendedHolds ==
    ASSUME NEW r, NEW d, Holds(r, d), NEW s \in Seq(Bytes)
    PROVE  Holds(Appended(r, s), d \o s)
<1>1. Len(s) \in Nat
  OBVIOUS
<1>2. Holds(MakeRoom(r, Len(s)), d) /\ Space(MakeRoom(r, Len(s))) >= Len(s)
  BY <1>1, MakeRoomHolds
<1>3. Space(MakeRoom(r, Len(s))) \in Int
  BY <1>2 DEF Holds, Fits, Space
<1>4. Len(s) <= Space(MakeRoom(r, Len(s)))
  BY <1>1, <1>2, <1>3
<1> QED BY <1>2, <1>4, PutHolds DEF Appended

\* consume drops the first bytes.
LEMMA ConsumedHolds ==
    ASSUME NEW r, NEW d, Holds(r, d), NEW n \in Nat, n <= Size(r)
    PROVE  Holds(Consumed(r, n), SubSeq(d, n + 1, Len(d)))
<1> DEFINE t == SubSeq(d, n + 1, Len(d))
<1>1. /\ r.b \in Nat /\ r.e \in Nat /\ r.cap \in Nat /\ r.b <= r.e /\ r.e <= r.cap
      /\ r.mem \in [0 .. r.cap - 1 -> Bytes \cup {Junk}]
      /\ Size(r) = r.e - r.b /\ Size(r) = Len(d) /\ Len(d) \in Nat /\ d \in Seq(Bytes)
      /\ \A k \in 1 .. Len(d) : r.mem[r.b + k - 1] = d[k]
  BY DEF Holds, Fits, Size
<1>2. n + 1 \in Int /\ Len(d) \in Int /\ \A i \in n + 1 .. Len(d) : d[i] \in Bytes
  BY <1>1
<1>3. /\ t \in Seq(Bytes) /\ Len(t) = IF n + 1 <= Len(d) THEN Len(d) - (n + 1) + 1 ELSE 0
      /\ \A i \in 1 .. Len(d) - (n + 1) + 1 : t[i] = d[(n + 1) + i - 1]
  BY <1>2, SubSeqProperties
<1>4. Len(t) = Len(d) - n /\ \A i \in 1 .. Len(d) - n : t[i] = d[n + i]
  BY <1>1, <1>3
<1> HIDE DEF t
<1>5. CASE n = Size(r)
  <2>1. Len(t) = 0
    BY <1>1, <1>4, <1>5
  <2>2. t = <<>>
    BY <1>3, <2>1
  <2> QED BY <1>5, <2>2, EmptyHolds DEF Consumed, t
<1>6. CASE n # Size(r)
  <2> DEFINE q == [mem |-> [i \in 0 .. r.cap - 1 |-> IF i < r.b + n THEN Junk ELSE r.mem[i]],
                   b |-> r.b + n, e |-> r.e, cap |-> r.cap]
  <2>1. Consumed(r, n) = q
    BY <1>6 DEF Consumed
  <2>2. /\ q.b = r.b + n /\ q.e = r.e /\ q.cap = r.cap
        /\ q.mem = [i \in 0 .. r.cap - 1 |-> IF i < r.b + n THEN Junk ELSE r.mem[i]]
        /\ q = [mem |-> q.mem, b |-> q.b, e |-> q.e, cap |-> q.cap]
    OBVIOUS
  <2> HIDE DEF q
  <2>3. q.mem \in [0 .. r.cap - 1 -> Bytes \cup {Junk}]
    BY <1>1, <2>2
  <2>4. Fits(q)
    BY <1>1, <2>2, <2>3 DEF Fits
  <2>5. Size(q) = Len(t)
    BY <1>1, <1>4, <2>2 DEF Size
  <2>6. ASSUME NEW k \in 1 .. Len(t) PROVE q.mem[q.b + k - 1] = t[k]
    <3>a. k \in Nat /\ 1 <= k /\ k <= Len(d) - n
      BY <1>1, <1>4
    <3>b. q.b = r.b + n
      BY <2>2
    <3>1. /\ q.b + k - 1 = r.b + (n + k) - 1 /\ r.b + (n + k) - 1 \in 0 .. r.cap - 1
          /\ ~(r.b + (n + k) - 1 < r.b + n) /\ n + k \in 1 .. Len(d)
      <4>1. /\ r.b \in Nat /\ r.cap \in Nat /\ Len(d) \in Nat /\ n \in Nat
            /\ r.b + Len(d) <= r.cap
        BY <1>1
      <4>2. /\ (r.b + n) + k - 1 = r.b + (n + k) - 1 /\ r.b + (n + k) - 1 \in 0 .. r.cap - 1
            /\ ~(r.b + (n + k) - 1 < r.b + n) /\ n + k \in 1 .. Len(d)
        BY <3>a, <4>1, ConsumeIndex
      <4> QED BY <3>b, <4>2
    <3>2. q.mem[r.b + (n + k) - 1] = r.mem[r.b + (n + k) - 1]
      BY <2>2, <3>1
    <3>3. r.mem[r.b + (n + k) - 1] = d[n + k] /\ t[k] = d[n + k]
      BY <1>1, <1>4, <3>1
    <3> QED BY <3>1, <3>2, <3>3
  <2> QED BY <1>3, <2>1, <2>4, <2>5, <2>6 DEF Holds, t
<1> QED BY <1>5, <1>6

\* copyFrom copies the bytes.
LEMMA CopiedHolds ==
    ASSUME NEW r, NEW d, Holds(r, d) PROVE Holds(Copied(r), d)
<1>1. /\ r.b \in Nat /\ r.e \in Nat /\ r.cap \in Nat /\ r.b <= r.e /\ r.e <= r.cap
      /\ r.mem \in [0 .. r.cap - 1 -> Bytes \cup {Junk}]
      /\ Size(r) = r.e - r.b /\ Size(r) = Len(d) /\ Len(d) \in Nat /\ d \in Seq(Bytes)
      /\ \A k \in 1 .. Len(d) : r.mem[r.b + k - 1] = d[k]
  BY DEF Holds, Fits, Size
<1>2. CASE r.cap = 0
  <2>1. Len(d) = 0
    BY <1>1, <1>2
  <2>2. d = <<>>
    BY <1>1, <2>1
  <2> QED BY <1>2, <2>2, EmptyHolds DEF Copied
<1>3. CASE r.cap # 0
  <2> DEFINE q == [mem |-> [i \in 0 .. r.cap - 1 |->
                               IF r.b <= i /\ i < r.e THEN r.mem[i] ELSE Junk],
                   b |-> r.b, e |-> r.e, cap |-> r.cap]
  <2>1. Copied(r) = q
    BY <1>3 DEF Copied
  <2>2. /\ q.b = r.b /\ q.e = r.e /\ q.cap = r.cap
        /\ q.mem = [i \in 0 .. r.cap - 1 |->
                       IF r.b <= i /\ i < r.e THEN r.mem[i] ELSE Junk]
        /\ q = [mem |-> q.mem, b |-> q.b, e |-> q.e, cap |-> q.cap]
    OBVIOUS
  <2> HIDE DEF q
  <2>3. q.mem \in [0 .. r.cap - 1 -> Bytes \cup {Junk}]
    BY <1>1, <2>2
  <2>4. Fits(q) /\ Size(q) = Len(d)
    BY <1>1, <2>2, <2>3 DEF Fits, Size
  <2>5. ASSUME NEW k \in 1 .. Len(d) PROVE q.mem[q.b + k - 1] = d[k]
    <3>1. /\ q.b + k - 1 = r.b + k - 1 /\ r.b + k - 1 \in 0 .. r.cap - 1
          /\ r.b <= r.b + k - 1 /\ r.b + k - 1 < r.e
      BY <1>1, <2>2
    <3> QED BY <1>1, <2>2, <3>1
  <2> QED BY <1>1, <2>1, <2>4, <2>5 DEF Holds
<1> QED BY <1>2, <1>3

\* All buffers hold their bytes.
AllHold == /\ DOMAIN buf = Bufs /\ data \in [Bufs -> Seq(Bytes)]
           /\ \A x \in Bufs : Holds(buf[x], data[x])

\* The buffers hold their data at the start.
LEMMA InitAllHold == Init => AllHold
<1> SUFFICES ASSUME Init PROVE AllHold
  OBVIOUS
<1>1. \A x \in Bufs : buf[x] = Empty /\ data[x] = <<>>
  BY DEF Init
<1> QED BY <1>1, EmptyHolds DEF Init, AllHold

\* A call that changes one buffer.
LEMMA OneBuffer ==
    ASSUME AllHold, NEW x \in Bufs, NEW r, NEW d, Holds(r, d),
           buf' = [buf EXCEPT ![x] = r], data' = [data EXCEPT ![x] = d]
    PROVE  AllHold'
<1>1. d \in Seq(Bytes)
  BY DEF Holds
<1>2. DOMAIN buf' = Bufs /\ data' \in [Bufs -> Seq(Bytes)]
  BY <1>1 DEF AllHold
<1>3. \A y \in Bufs : y # x => buf'[y] = buf[y] /\ data'[y] = data[y]
  BY DEF AllHold
<1>4. buf'[x] = r /\ data'[x] = d
  BY DEF AllHold
<1>5. ASSUME NEW y \in Bufs PROVE Holds(buf'[y], data'[y])
  BY <1>3, <1>4 DEF AllHold
<1>6. \A y \in Bufs : Holds(buf'[y], data'[y])
  BY <1>5
<1> QED BY <1>2, <1>6 DEF AllHold, Holds, Fits, Size

\* No call changes that: the inductive step of HoldsData.
LEMMA StepAllHold == AllHold /\ [Next]_vars => AllHold'
<1> SUFFICES ASSUME AllHold, [Next]_vars PROVE AllHold'
  OBVIOUS
<1>0. CASE UNCHANGED vars
  BY <1>0 DEF vars, AllHold, Holds, Fits, Size
<1>1. ASSUME NEW s \in Strings PROVE s \in Seq(Bytes)
  BY BufferAssumption DEF Strings
<1>2. ASSUME NEW x \in Bufs, NEW s \in Strings, Append_(x, s) PROVE AllHold'
  <2>1. Holds(Appended(buf[x], s), data[x] \o s)
    BY <1>1, <1>2, AppendedHolds DEF AllHold
  <2> QED BY <1>2, <2>1, OneBuffer DEF Append_
<1>3. ASSUME NEW x \in Bufs, NEW s \in Strings, Receive(x, s) PROVE AllHold'
  <2>1. Holds(MakeSomeRoom(buf[x]), data[x])
    BY <1>3, MakeSomeRoomHolds DEF AllHold
  <2>2. Holds(Put(MakeSomeRoom(buf[x]), s), data[x] \o s)
    BY <1>1, <1>3, <2>1, PutHolds DEF Receive
  <2> QED BY <1>3, <2>2, OneBuffer DEF Receive
<1>4. ASSUME NEW x \in Bufs, NEW n \in 0 .. MaxCap, Consume(x, n) PROVE AllHold'
  <2>1. n \in Nat
    BY BufferAssumption
  <2>2. Holds(Consumed(buf[x], n), SubSeq(data[x], n + 1, Len(data[x])))
    BY <1>4, <2>1, ConsumedHolds DEF AllHold, Consume
  <2> QED BY <1>4, <2>2, OneBuffer DEF Consume
<1>5. ASSUME NEW x \in Bufs, Clear(x) PROVE AllHold'
  BY <1>5, EmptyHolds, OneBuffer DEF Clear
<1>6. ASSUME NEW x \in Bufs, NEW y \in Bufs, Absorb(x, y) PROVE AllHold'
  <2>1. CASE x = y
    BY <1>6, <2>1 DEF Absorb, AllHold, Holds, Fits, Size
  <2>2. CASE x # y
    <3>1. Holds(buf[x], data[x]) /\ Holds(buf[y], data[y])
      BY DEF AllHold
    <3>2. data[x] \in Seq(Bytes) /\ data[y] \in Seq(Bytes)
      BY DEF AllHold
    <3>3. data' = [data EXCEPT ![x] = data[x] \o data[y], ![y] = <<>>]
      BY <1>6, <2>2 DEF Absorb
    <3>4. /\ data' \in [Bufs -> Seq(Bytes)] /\ data'[x] = data[x] \o data[y] /\ data'[y] = <<>>
          /\ \A z \in Bufs \ {x, y} : data'[z] = data[z]
      <4>1. data[x] \o data[y] \in Seq(Bytes) /\ <<>> \in Seq(Bytes)
        BY <3>2, ConcatProperties
      <4>2. DOMAIN data = Bufs /\ data \in [Bufs -> Seq(Bytes)]
        BY DEF AllHold
      <4> DEFINE c == data[x] \o data[y]
      <4>3. data' = [data EXCEPT ![x] = c, ![y] = <<>>] /\ c \in Seq(Bytes)
        BY <3>3, <4>1
      <4> HIDE DEF c
      <4>4. data'[x] = c /\ data'[y] = <<>> /\ \A z \in Bufs \ {x, y} : data'[z] = data[z]
        BY <2>2, <4>2, <4>3
      <4>5. data' \in [Bufs -> Seq(Bytes)]
        BY <4>1, <4>2, <4>3
      <4> QED BY <4>4, <4>5 DEF c
    <3>5. /\ DOMAIN buf' = Bufs /\ \A z \in Bufs \ {x, y} : buf'[z] = buf[z]
          /\ Holds(buf'[x], data'[x]) /\ Holds(buf'[y], data'[y])
      <4>1. CASE Size(buf[x]) = 0
        <5>1. buf' = [buf EXCEPT ![x] = buf[y], ![y] = buf[x]]
          BY <1>6, <2>2, <4>1 DEF Absorb
        <5>0. Len(data[x]) = 0
          BY <3>1, <4>1 DEF Holds
        <5>2. data[x] = <<>>
          BY <3>2, <5>0
        <5>3. data'[x] = data[y] /\ data'[y] = data[x]
          BY <3>2, <3>4, <5>2
        <5>4. DOMAIN buf' = Bufs /\ buf'[x] = buf[y] /\ buf'[y] = buf[x]
              /\ \A z \in Bufs \ {x, y} : buf'[z] = buf[z]
          BY <2>2, <5>1 DEF AllHold
        <5> QED BY <3>1, <5>3, <5>4
      <4>2. CASE Size(buf[x]) # 0
        <5>1. buf' = [buf EXCEPT ![x] = Appended(buf[x], Content(buf[y])), ![y] = Empty]
          BY <1>6, <2>2, <4>2 DEF Absorb
        <5>2. Content(buf[y]) = data[y]
          BY <3>1, HoldsContent
        <5>3. Holds(Appended(buf[x], data[y]), data[x] \o data[y])
          BY <3>1, <3>2, AppendedHolds
        <5>4. DOMAIN buf' = Bufs /\ buf'[x] = Appended(buf[x], data[y]) /\ buf'[y] = Empty
              /\ \A z \in Bufs \ {x, y} : buf'[z] = buf[z]
          BY <2>2, <5>1, <5>2 DEF AllHold
        <5> QED BY <3>4, <5>3, <5>4, EmptyHolds
      <4> QED BY <4>1, <4>2
    <3>6. \A z \in Bufs : Holds(buf'[z], data'[z])
      BY <3>4, <3>5 DEF AllHold
    <3> QED BY <3>4, <3>5, <3>6 DEF AllHold, Holds, Fits, Size
  <2> QED BY <2>1, <2>2
<1>7. ASSUME NEW x \in Bufs, NEW y \in Bufs, Assign(x, y) PROVE AllHold'
  <2>1. CASE x = y
    <3>1. buf' = buf /\ data' = data
      BY <1>7, <2>1 DEF Assign, AllHold
    <3> QED BY <3>1 DEF AllHold, Holds, Fits, Size
  <2>2. CASE x # y
    <3>1. Holds(Copied(buf[y]), data[y])
      BY CopiedHolds DEF AllHold
    <3> QED BY <1>7, <2>2, <3>1, OneBuffer DEF Assign
  <2> QED BY <2>1, <2>2
<1> QED BY <1>0, <1>2, <1>3, <1>4, <1>5, <1>6, <1>7 DEF Next

\* Every reachable buffer holds its bytes.
THEOREM BufferInvariant == Spec => []AllHold
  BY InitAllHold, StepAllHold, PTL DEF Spec

\* The positions of a buffer stay inside its array.
THEOREM BufferTypeOK == Spec => []TypeOK
<1>1. AllHold => TypeOK
  BY DEF AllHold, TypeOK, Holds
<1> QED BY <1>1, BufferInvariant, PTL

\* begin() .. end() are the bytes that were put in and not yet consumed, in order.
THEOREM BufferHoldsData == Spec => []HoldsData
<1>1. AllHold => HoldsData
  BY HoldsContent DEF AllHold, HoldsData
<1> QED BY <1>1, BufferInvariant, PTL

\* makeRoom makes the room that its callers rely on.
THEOREM BufferRoomIsMade == Spec => []RoomIsMade
<1>1. AllHold => RoomIsMade
  <2> SUFFICES ASSUME AllHold, NEW x \in Bufs
               PROVE  /\ \A n \in 0 .. MaxLen : Space(MakeRoom(buf[x], n)) >= n
                      /\ Space(MakeSomeRoom(buf[x])) > 0
    BY DEF RoomIsMade
  <2>1. Holds(buf[x], data[x])
    BY DEF AllHold
  <2>2. \A n \in 0 .. MaxLen : n \in Nat
    BY BufferAssumption
  <2> QED BY <2>1, <2>2, MakeRoomHolds, MakeSomeRoomHolds
<1> QED BY <1>1, BufferInvariant, PTL

-----------------------------------------------------------------------------
(* TcpSend: what send and handleWrite do to the output of a connection.     *)

\* What an isend that takes k units leaves in order.
LEMMA FirstRest ==
    ASSUME NEW d \in Seq(Nat), NEW k \in 0 .. Len(d)
    PROVE  /\ First(d, k) \in Seq(Nat) /\ Rest(d, k) \in Seq(Nat)
           /\ First(d, k) \o Rest(d, k) = d
           /\ k = 0 => First(d, k) = <<>>
           /\ k < Len(d) <=> Rest(d, k) # <<>>
<1>1. Len(d) \in Nat
  BY LenProperties
<1>2. First(d, k) \in Seq(Nat) /\ Rest(d, k) \in Seq(Nat)
  BY <1>1, SubSeqProperties DEF First, Rest
<1>3. First(d, k) \o Rest(d, k) = d
  <2>1. 1 \in 1 .. Len(d) + 1 /\ k \in 1 - 1 .. Len(d) /\ Len(d) \in k .. Len(d)
    BY <1>1
  <2>2. SubSeq(d, 1, k) \o SubSeq(d, k + 1, Len(d)) = SubSeq(d, 1, Len(d))
    BY <2>1, ConcatAdjacentSubSeq, Zenon
  <2>3. SubSeq(d, 1, Len(d)) = d
    BY SubSeqFull, Zenon
  <2> QED BY <2>2, <2>3, Zenon DEF First, Rest
<1>4. k = 0 => First(d, k) = <<>>
  BY <1>1, SubSeqEmpty DEF First
<1>5. k < Len(d) <=> Rest(d, k) # <<>>
  <2>1. Len(Rest(d, k)) = Len(d) - k
    BY <1>1, SubSeqProperties DEF Rest
  <2>2. Rest(d, k) = <<>> <=> Len(Rest(d, k)) = 0
    BY <1>2, EmptySeq
  <2> QED BY <1>1, <2>1, <2>2
<1> QED BY <1>2, <1>3, <1>4, <1>5

\* The units of a concatenation.
LEMMA UnitsConcat ==
    ASSUME NEW a \in Seq(Nat), NEW b \in Seq(Nat)
    PROVE  /\ a \o b \in Seq(Nat) /\ Len(a \o b) = Len(a) + Len(b)
           /\ Units(a \o b) = Units(a) \cup Units(b)
<1>1. a \o b \in Seq(Nat) /\ Len(a \o b) = Len(a) + Len(b)
  BY ConcatProperties
<1>2. Units(a \o b) = Range(a \o b) /\ Units(a) = Range(a) /\ Units(b) = Range(b)
  BY DEF Units, Range
<1>3. Range(a \o b) = Range(a) \cup Range(b)
  BY RangeConcatenation
<1> QED BY <1>1, <1>2, <1>3

\* What a call sends.
LEMMA NewDataType ==
    ASSUME posted \in Nat, NEW n \in Nat
    PROVE  NewData(n) \in Seq(Nat) /\ Len(NewData(n)) = n
<1>1. NewData(n) \in [1 .. n -> Nat]
  BY DEF NewData
<1>2. NewData(n) \in Seq(Nat)
  BY <1>1
<1>3. Len(NewData(n)) \in Nat /\ DOMAIN NewData(n) = 1 .. Len(NewData(n))
  BY <1>2, LenProperties
<1> QED BY <1>1, <1>2, <1>3

\* Concatenations of three.
LEMMA UnitsAssoc ==
    ASSUME NEW a \in Seq(Nat), NEW b \in Seq(Nat), NEW c \in Seq(Nat)
    PROVE  (a \o b) \o c = a \o (b \o c)
BY ConcatAssociative

\* Sums of four.
LEMMA SumOfParts ==
    \A i, j, m, n \in Nat : /\ (i + j) + (m + n) = (i + m) + (j + n)
                           /\ i + (m + n) = (i + m) + n
OBVIOUS

\* The written and the waiting units are the sent ones, each once.
Same(w, o, s) == Units(w) \cup Units(o) = Units(s) /\ Len(w) + Len(o) = Len(s)

\* New data, of which k units are written before those that wait.
LEMMA SameAppended ==
    ASSUME NEW w \in Seq(Nat), NEW o \in Seq(Nat), NEW s \in Seq(Nat), Same(w, o, s),
           NEW d \in Seq(Nat), NEW k \in 0 .. Len(d)
    PROVE  Same(w \o First(d, k), o \o Rest(d, k), s \o d)
<1> DEFINE f == First(d, k)
           r == Rest(d, k)
<1>1. f \in Seq(Nat) /\ r \in Seq(Nat) /\ f \o r = d
  BY FirstRest
<1> HIDE DEF f, r
<1>2. Len(d) = Len(f) + Len(r) /\ Units(d) = Units(f) \cup Units(r)
  BY <1>1, UnitsConcat
<1>3. /\ Len(w \o f) = Len(w) + Len(f) /\ Units(w \o f) = Units(w) \cup Units(f)
      /\ Len(o \o r) = Len(o) + Len(r) /\ Units(o \o r) = Units(o) \cup Units(r)
      /\ Len(s \o d) = Len(s) + Len(d) /\ Units(s \o d) = Units(s) \cup Units(d)
  BY <1>1, UnitsConcat
<1>4. Len(w) \in Nat /\ Len(f) \in Nat /\ Len(o) \in Nat /\ Len(r) \in Nat
  BY <1>1, LenProperties
<1>5. Len(w \o f) + Len(o \o r) = Len(s \o d)
  <2>1. (Len(w) + Len(f)) + (Len(o) + Len(r)) = (Len(w) + Len(o)) + (Len(f) + Len(r))
    BY <1>4, SumOfParts
  <2>2. Len(w) + Len(o) = Len(s)
    BY DEF Same
  <2> QED BY <1>2, <1>3, <2>1, <2>2, Zenon
<1>6. Units(w \o f) \cup Units(o \o r) = Units(s \o d)
  BY <1>2, <1>3 DEF Same
<1> QED BY <1>5, <1>6 DEF Same, f, r

\* Of the waiting units k are written.
LEMMA SameMoved ==
    ASSUME NEW w \in Seq(Nat), NEW o \in Seq(Nat), NEW s \in Seq(Nat), Same(w, o, s),
           NEW k \in 0 .. Len(o)
    PROVE  Same(w \o First(o, k), Rest(o, k), s)
<1> DEFINE f == First(o, k)
           r == Rest(o, k)
<1>1. f \in Seq(Nat) /\ r \in Seq(Nat) /\ f \o r = o
  BY FirstRest
<1> HIDE DEF f, r
<1>2. Len(o) = Len(f) + Len(r) /\ Units(o) = Units(f) \cup Units(r)
  BY <1>1, UnitsConcat
<1>3. Len(w \o f) = Len(w) + Len(f) /\ Units(w \o f) = Units(w) \cup Units(f)
  BY <1>1, UnitsConcat
<1>4. Len(w) \in Nat /\ Len(f) \in Nat /\ Len(r) \in Nat
  BY <1>1, LenProperties
<1>5. Len(w \o f) + Len(r) = Len(s)
  BY <1>2, <1>3, <1>4 DEF Same
<1>6. Units(w \o f) \cup Units(r) = Units(s)
  BY <1>2, <1>3 DEF Same
<1> QED BY <1>5, <1>6 DEF Same, f, r

\* The order, when nothing was waiting before the new data.
LEMMA InOrder ==
    ASSUME NEW w \in Seq(Nat), NEW d \in Seq(Nat), NEW k \in 0 .. Len(d)
    PROVE  w \o d = (w \o First(d, k)) \o Rest(d, k)
<1>1. First(d, k) \in Seq(Nat) /\ Rest(d, k) \in Seq(Nat) /\ First(d, k) \o Rest(d, k) = d
  BY FirstRest
<1>2. (w \o First(d, k)) \o Rest(d, k) = w \o (First(d, k) \o Rest(d, k))
  BY <1>1, UnitsAssoc
<1> QED BY <1>1, <1>2

\* send appends to what waits.
LEMMA SameQueued ==
    ASSUME NEW w \in Seq(Nat), NEW o \in Seq(Nat), NEW s \in Seq(Nat), Same(w, o, s),
           NEW d \in Seq(Nat)
    PROVE  Same(w, o \o d, s \o d)
<1>1. /\ Len(o \o d) = Len(o) + Len(d) /\ Units(o \o d) = Units(o) \cup Units(d)
      /\ Len(s \o d) = Len(s) + Len(d) /\ Units(s \o d) = Units(s) \cup Units(d)
  BY UnitsConcat
<1>2. Len(w) \in Nat /\ Len(d) \in Nat /\ Len(o) \in Nat
  BY LenProperties
<1>3. Len(w) + (Len(o) + Len(d)) = (Len(w) + Len(o)) + Len(d)
  BY <1>2, SumOfParts
<1>4. Len(w) + Len(o \o d) = Len(s \o d)
  BY <1>1, <1>3, Zenon DEF Same
<1>5. Units(w) \cup Units(o \o d) = Units(s \o d)
  BY <1>1 DEF Same
<1> QED BY <1>4, <1>5 DEF Same

\* Without write events nothing waits in output_ of a channel, unless the handshake
\* left it there or a write failed: what send(Buffer &) relies on when it writes to
\* the socket at once.
NothingWaits == /\ ~early /\ ~writeEnabled /\ state # "Closed" => output = <<>> \/ kernel = "broken"
                /\ state = "Handshaking" => ~early

SendInv == SendTypeOK /\ OutputIntact /\ NothingWaits

\* Every form of send keeps the invariant.
LEMMA SendsKeep ==
    ASSUME SendInv, NEW n \in 1 .. 2,
           SendBytes(n) \/ SendBuffer(n) \/ SendMsg(n) \/ SendMsgClosed(n)
    PROVE  SendInv'
<1> DEFINE d == NewData(n)
<1>1. d \in Seq(Nat) /\ Len(d) = n
  BY NewDataType DEF SendInv, SendTypeOK
<1> HIDE DEF d
<1>2. /\ output \in Seq(Nat) /\ wire \in Seq(Nat) /\ sent \in Seq(Nat) /\ posted \in Nat
      /\ Same(wire, output, sent) /\ (~early => sent = wire \o output)
  BY DEF SendInv, SendTypeOK, OutputIntact, Same
<1>3. /\ posted' = posted + n /\ sent' = sent \o d /\ state' = state /\ conns' = conns
      /\ early' = early
  BY DEF SendBytes, SendBuffer, SendMsg, SendMsgClosed, Sending, d
<1>4. sent' \in Seq(Nat) /\ posted' \in Nat
  BY <1>1, <1>2, <1>3, ConcatProperties
<1>5. ASSUME /\ wire' = wire /\ output' = output \o d /\ kernel' = kernel
             /\ writeEnabled' = writeEnabled /\ (writeEnabled \/ state = "Closed" \/ output # <<>>)
      PROVE  SendInv'
  <2>1. output' \in Seq(Nat) /\ wire' \in Seq(Nat)
    BY <1>1, <1>2, <1>5, ConcatProperties
  <2>2. Same(wire', output', sent')
    BY <1>1, <1>2, <1>3, <1>5, SameQueued
  <2>3. ~early' => sent' = wire' \o output'
    <3>1. (wire \o output) \o d = wire \o (output \o d)
      BY <1>1, <1>2, UnitsAssoc
    <3> QED BY <1>2, <1>3, <1>5, <3>1
  <2>4. NothingWaits'
    BY <1>3, <1>5 DEF SendInv, NothingWaits
  <2> QED BY <1>3, <1>4, <1>5, <2>1, <2>2, <2>3, <2>4
          DEF SendInv, SendTypeOK, OutputIntact, Same
<1>6. CASE SendMsgClosed(n)
  BY <1>5, <1>6 DEF SendMsgClosed, d
<1>7. CASE SendBytes(n) /\ output # <<>>
  BY <1>5, <1>7 DEF SendBytes, d
<1>8. CASE SendBuffer(n) /\ writeEnabled
  BY <1>5, <1>8 DEF SendBuffer, d
<1>9. CASE SendBytes(n) /\ output = <<>>
  <2>1. PICK k \in 0 .. n, w \in BOOLEAN :
            ISend(d, k, w) /\ output' = Rest(d, k) /\ writeEnabled' = w
    BY <1>9 DEF SendBytes, d
  <2>2. /\ First(d, k) \in Seq(Nat) /\ Rest(d, k) \in Seq(Nat)
        /\ (k < Len(d) <=> Rest(d, k) # <<>>)
    BY <1>1, FirstRest
  <2>3. wire' = wire \o First(d, k) /\ output' = output \o Rest(d, k)
    BY <1>9, <2>1, <2>2 DEF ISend
  <2>4. output' \in Seq(Nat) /\ wire' \in Seq(Nat) /\ kernel' \in {"connecting", "open", "broken"}
    BY <1>2, <2>1, <2>2, <2>3, ConcatProperties DEF ISend, SendInv, SendTypeOK
  <2>5. Same(wire', output', sent')
    BY <1>1, <1>2, <1>3, <2>3, SameAppended
  <2>6. ~early' => sent' = wire' \o output'
    <3>1. wire \o output = wire
      BY <1>2, <1>9, ConcatEmptySeq
    <3>2. wire \o d = wire' \o Rest(d, k)
      BY <1>1, <1>2, <2>1, <2>3, InOrder
    <3> QED BY <1>2, <1>3, <2>1, <3>1, <3>2, Zenon
  <2>7. NothingWaits'
    BY <1>3, <2>1, <2>2 DEF ISend, NothingWaits, SendInv
  <2> QED BY <1>3, <1>4, <2>1, <2>4, <2>5, <2>6, <2>7
          DEF SendInv, SendTypeOK, OutputIntact, Same
<1>10. CASE SendBuffer(n) /\ ~writeEnabled
  <2>1. PICK k \in 0 .. n, w \in BOOLEAN :
            /\ ISend(d, k, w) /\ output' = output \o Rest(d, k)
            /\ writeEnabled' = (w \/ k < n)
    BY <1>10 DEF SendBuffer, d
  <2>2. /\ First(d, k) \in Seq(Nat) /\ Rest(d, k) \in Seq(Nat)
        /\ (k < Len(d) <=> Rest(d, k) # <<>>) /\ (k = 0 => First(d, k) = <<>>)
        /\ First(d, k) \o Rest(d, k) = d
    BY <1>1, FirstRest
  <2>3. wire' = wire \o First(d, k) /\ (kernel # "open" => k = 0)
    BY <2>1 DEF ISend
  <2>4. output' \in Seq(Nat) /\ wire' \in Seq(Nat) /\ kernel' \in {"connecting", "open", "broken"}
    BY <1>2, <2>1, <2>2, <2>3, ConcatProperties DEF ISend, SendInv, SendTypeOK
  <2>5. Same(wire', output', sent')
    BY <1>1, <1>2, <1>3, <2>1, <2>3, SameAppended
  <2>6. ASSUME ~early' PROVE sent' = wire' \o output'
    <3>1. output = <<>> \/ kernel = "broken"
      BY <1>3, <1>10, <2>6 DEF SendInv, NothingWaits, SendBuffer, Sending
    <3>2. CASE output = <<>>
      <4>1. wire \o output = wire /\ output' = Rest(d, k)
        BY <1>2, <2>1, <2>2, <3>2, ConcatEmptySeq
      <4>2. wire \o d = wire' \o Rest(d, k)
        BY <1>1, <1>2, <2>1, <2>3, InOrder
      <4> QED BY <1>2, <1>3, <2>6, <4>1, <4>2, Zenon
    <3>3. CASE k = 0
      <4>1. First(d, k) = <<>> /\ Rest(d, k) = d
        BY <1>1, <2>2, <3>3
      <4>2. wire' = wire /\ output' = output \o d
        BY <1>2, <2>1, <2>3, <4>1
      <4>3. (wire \o output) \o d = wire \o (output \o d)
        BY <1>1, <1>2, UnitsAssoc
      <4> QED BY <1>2, <1>3, <2>6, <4>2, <4>3
    <3> QED BY <2>3, <3>1, <3>2, <3>3
  <2>7. NothingWaits'
    <3>1. k < n \/ output' = output
      BY <1>1, <1>2, <2>1, <2>2
    <3>2. writeEnabled' = FALSE => output' = output /\ (kernel = "broken" => kernel' = "broken")
      BY <2>1, <3>1 DEF ISend
    <3> QED BY <1>3, <1>10, <2>1, <3>2 DEF NothingWaits, SendInv
  <2> QED BY <1>3, <1>4, <2>1, <2>4, <2>5, <2>6, <2>7
          DEF SendInv, SendTypeOK, OutputIntact, Same
<1>11. CASE SendMsg(n)
  <2> DEFINE e == output \o d
  <2>1. PICK k \in 0 .. Len(e), w \in BOOLEAN :
            ISend(e, k, w) /\ output' = Rest(e, k) /\ writeEnabled' = (w \/ k < Len(e))
    BY <1>11 DEF SendMsg, d
  <2>2. e \in Seq(Nat)
    BY <1>1, <1>2, ConcatProperties
  <2>3. Same(wire, e, sent') /\ (~early => sent' = wire \o e)
    <3>1. Same(wire, e, sent')
      BY <1>1, <1>2, <1>3, SameQueued
    <3>2. ~early => sent' = wire \o e
      <4>1. (wire \o output) \o d = wire \o (output \o d)
        BY <1>1, <1>2, UnitsAssoc
      <4> QED BY <1>2, <1>3, <4>1
    <3> QED BY <3>1, <3>2
  <2> HIDE DEF e
  <2>4. /\ First(e, k) \in Seq(Nat) /\ Rest(e, k) \in Seq(Nat)
        /\ (k < Len(e) <=> Rest(e, k) # <<>>)
    BY <2>2, FirstRest
  <2>5. wire' = wire \o First(e, k)
    BY <2>1 DEF ISend
  <2>6. output' \in Seq(Nat) /\ wire' \in Seq(Nat) /\ kernel' \in {"connecting", "open", "broken"}
    BY <1>2, <2>1, <2>4, <2>5, ConcatProperties DEF ISend, SendInv, SendTypeOK
  <2>7. Same(wire', output', sent')
    BY <1>2, <1>4, <2>1, <2>2, <2>3, <2>5, SameMoved
  <2>8. ~early' => sent' = wire' \o output'
    BY <1>2, <1>3, <2>1, <2>2, <2>3, <2>5, InOrder
  <2>9. NothingWaits'
    BY <1>3, <2>1, <2>4 DEF NothingWaits, SendInv
  <2> QED BY <1>3, <1>4, <2>1, <2>6, <2>7, <2>8, <2>9
          DEF SendInv, SendTypeOK, OutputIntact, Same
<1> QED BY <1>6, <1>7, <1>8, <1>9, <1>10, <1>11

\* handleWrite keeps it, with or without a writablecb_ that sends.
LEMMA HandleWriteKeeps ==
    ASSUME SendInv, HandleWrite \/ \E n \in 1 .. 2 : HandleWritable(n)
    PROVE  SendInv'
<1>1. /\ output \in Seq(Nat) /\ wire \in Seq(Nat) /\ sent \in Seq(Nat) /\ posted \in Nat
      /\ Same(wire, output, sent) /\ (~early => sent = wire \o output)
  BY DEF SendInv, SendTypeOK, OutputIntact, Same
<1>2. CASE HandleWrite
  <2>1. PICK k \in 0 .. Len(output), w \in BOOLEAN :
            /\ ISend(output, k, w) /\ output' = Rest(output, k)
            /\ writeEnabled' = Disable(output', w)
    BY <1>2 DEF HandleWrite
  <2>2. First(output, k) \in Seq(Nat) /\ Rest(output, k) \in Seq(Nat)
        /\ (k < Len(output) <=> Rest(output, k) # <<>>)
    BY <1>1, FirstRest
  <2>3. wire' = wire \o First(output, k) /\ sent' = sent /\ early' = early
    BY <1>2, <2>1 DEF ISend, HandleWrite
  <2>4. output' \in Seq(Nat) /\ wire' \in Seq(Nat) /\ kernel' \in {"connecting", "open", "broken"}
    BY <1>1, <2>1, <2>2, <2>3, ConcatProperties DEF ISend, SendInv, SendTypeOK
  <2>5. Same(wire', output', sent')
    BY <1>1, <2>1, <2>3, SameMoved
  <2>6. ~early' => sent' = wire' \o output'
    BY <1>1, <2>1, <2>3, InOrder
  <2>7. NothingWaits'
    BY <1>2, <2>1, <2>2 DEF NothingWaits, ISend, Disable, HandleWrite
  <2> QED BY <1>1, <1>2, <2>1, <2>3, <2>4, <2>5, <2>6, <2>7
          DEF SendInv, SendTypeOK, OutputIntact, Same, HandleWrite, Disable
<1>3. ASSUME NEW n \in 1 .. 2, HandleWritable(n) PROVE SendInv'
  <2> DEFINE d == NewData(n)
             v == wire \o output
  <2>1. d \in Seq(Nat) /\ Len(d) = n
    BY <1>1, NewDataType
  <2>2. PICK k \in 0 .. n : /\ wire' = v \o First(d, k)
                            /\ output' = Rest(d, k)
                            /\ kernel' \in IF k < n THEN {"open", "broken"} ELSE {"open"}
    <3>1. PICK k \in 0 .. n : /\ wire' = wire \o output \o First(d, k)
                              /\ output' = Rest(d, k)
                              /\ kernel' \in IF k < n THEN {"open", "broken"} ELSE {"open"}
      BY <1>3 DEF HandleWritable
    <3> QED BY <3>1
  <2>3. /\ sent' = sent \o d /\ writeEnabled' = Disable(output', writeEnabled) /\ writeEnabled
        /\ posted' = posted + n /\ state' = state /\ conns' = conns /\ early' = early
    BY <1>3 DEF HandleWritable
  <2>4. v \in Seq(Nat) /\ <<>> \in Seq(Nat) /\ Same(v, <<>>, sent)
    <3>1. v \in Seq(Nat) /\ Len(v) = Len(wire) + Len(output)
          /\ Units(v) = Units(wire) \cup Units(output)
      BY <1>1, UnitsConcat
    <3>2. <<>> \in Seq(Nat) /\ Len(<<>>) = 0 /\ Units(<<>>) = {}
      BY DEF Units
    <3>3. Len(wire) \in Nat /\ Len(output) \in Nat
      BY <1>1, LenProperties
    <3> QED BY <1>1, <3>1, <3>2, <3>3 DEF Same
  <2> HIDE DEF d
  <2>5. ~early' => sent' = v \o d
    BY <1>1, <2>3
  <2> HIDE DEF v
  <2>6. First(d, k) \in Seq(Nat) /\ Rest(d, k) \in Seq(Nat)
    BY <2>1, FirstRest
  <2>7. output' = <<>> \o Rest(d, k)
    BY <2>2, <2>6, ConcatEmptySeq
  <2>8. output' \in Seq(Nat) /\ wire' \in Seq(Nat) /\ sent' \in Seq(Nat) /\ posted' \in Nat
    BY <1>1, <2>1, <2>2, <2>3, <2>4, <2>6, ConcatProperties
  <2>9. Same(wire', output', sent')
    BY <1>1, <2>1, <2>2, <2>3, <2>4, <2>7, SameAppended
  <2>10. ~early' => sent' = wire' \o output'
    BY <2>1, <2>2, <2>4, <2>5, InOrder
  <2>11. NothingWaits' /\ kernel' \in {"open", "broken"} /\ writeEnabled' \in BOOLEAN
    BY <2>2, <2>3 DEF NothingWaits, Disable, SendInv
  <2> QED BY <1>1, <2>3, <2>8, <2>9, <2>10, <2>11
          DEF SendInv, SendTypeOK, OutputIntact, Same
<1> QED BY <1>2, <1>3

\* Every step keeps it.
LEMMA SendStep == SendInv /\ [SendNext]_sendVars => SendInv'
<1> SUFFICES ASSUME SendInv, [SendNext]_sendVars PROVE SendInv'
  OBVIOUS
<1> USE DEF SendInv, SendTypeOK, OutputIntact, NothingWaits
<1>1. ASSUME NEW n \in 1 .. 2,
             SendBytes(n) \/ SendBuffer(n) \/ SendMsg(n) \/ SendMsgClosed(n)
      PROVE  SendInv'
  BY <1>1, SendsKeep
<1>2. ASSUME NEW n \in 1 .. 2, HandleWritable(n) PROVE SendInv'
  BY <1>2, HandleWriteKeeps
<1>3. CASE HandleWrite
  BY <1>3, HandleWriteKeeps
<1>4. CASE Handshake
  <2>1. /\ wire' = wire /\ output' = output /\ sent' = sent /\ posted' = posted
        /\ early' = (output # <<>>) /\ writeEnabled' = FALSE /\ state' = "Connected"
        /\ kernel' = kernel /\ conns' = conns
    BY <1>4 DEF Handshake
  <2>2. ~early
    BY <1>4 DEF Handshake
  <2> QED BY <2>1, <2>2
<1>5. CASE Established
  BY <1>5 DEF Established
<1>6. CASE LoseConnection
  BY <1>6 DEF LoseConnection
<1>7. CASE ReConnect
  <2>1. output \in Seq(Nat) /\ Units(<<>>) = {} /\ Len(<<>>) = 0 /\ <<>> \in Seq(Nat)
    BY DEF Units
  <2>2. <<>> \o output = output
    BY <2>1, ConcatEmptySeq
  <2>3. Len(output) \in Nat
    BY <2>1, LenProperties
  <2>4. wire' = <<>> /\ output' = output /\ sent' = output
    BY <1>7 DEF ReConnect
  <2>5. OutputIntact'
    <3>1. Units(wire') \cup Units(output') = Units(sent')
      BY <2>1, <2>4
    <3>2. Len(wire') + Len(output') = Len(sent')
      BY <2>1, <2>3, <2>4
    <3> QED BY <2>2, <2>4, <3>1, <3>2
  <2>6. SendTypeOK'
    <3>1. /\ state' = "Handshaking" /\ writeEnabled' = TRUE /\ kernel' = "connecting"
          /\ conns' = conns + 1 /\ early' = FALSE /\ posted' = posted
      BY <1>7 DEF ReConnect
    <3>2. wire' \in Seq(Nat) /\ output' \in Seq(Nat) /\ sent' \in Seq(Nat)
      BY <2>1, <2>4
    <3>3. posted' \in Nat /\ conns' \in Nat
      BY <3>1
    <3>4. early' \in BOOLEAN /\ writeEnabled' \in BOOLEAN
      BY <3>1
    <3> QED BY ONLY <3>1, <3>2, <3>3, <3>4 DEF SendTypeOK
  <2>7. NothingWaits'
    BY <1>7 DEF ReConnect
  <2> QED BY <2>5, <2>6, <2>7
<1>8. CASE UNCHANGED sendVars
  BY <1>8 DEF sendVars, Units
<1> QED BY <1>1, <1>2, <1>3, <1>4, <1>5, <1>6, <1>7, <1>8 DEF SendNext

\* The output side of a connection loses and repeats nothing, and keeps the order of
\* the calls unless the handshake left data in output_, for any number of sends and of
\* connections and whatever the kernel takes.
THEOREM SendOutputIntact == SendSpec => []OutputIntact
<1>1. SendInit => SendInv
  <2>1. <<>> \in Seq(Nat) /\ Units(<<>>) = {} /\ Len(<<>>) = 0 /\ <<>> \o <<>> = <<>>
    BY ConcatEmptySeq DEF Units
  <2>2. SendInit => OutputIntact
    BY <2>1 DEF SendInit, OutputIntact
  <2>3. SendInit => SendTypeOK /\ NothingWaits
    <3> SUFFICES ASSUME SendInit PROVE SendTypeOK /\ NothingWaits
      OBVIOUS
    <3>1. wire \in Seq(Nat) /\ output \in Seq(Nat) /\ sent \in Seq(Nat)
      BY <2>1 DEF SendInit
    <3>2. posted \in Nat /\ conns \in Nat
      BY DEF SendInit
    <3>3. early \in BOOLEAN /\ writeEnabled \in BOOLEAN
      BY DEF SendInit
    <3>4. state \in {"Handshaking"} /\ kernel \in {"connecting"} /\ NothingWaits
      BY DEF SendInit, NothingWaits
    <3> QED BY <3>1, <3>2, <3>3, <3>4 DEF SendTypeOK
  <2> QED BY <2>2, <2>3 DEF SendInv
<1>2. SendInv => OutputIntact
  BY DEF SendInv
<1> QED BY <1>1, <1>2, SendStep, PTL DEF SendSpec

-----------------------------------------------------------------------------
(* Codec: decoding a stream that was cut anywhere.                          *)

\* What is on the wire: bytes of text, and numbers.
Cell == {"r", "n", "mBdT", "?"} \cup STRING \cup Nat

\* A message that LineCodec can carry: it has no line feed and does not begin with 0x04.
IsLine(m) == /\ \A i \in 1 .. Len(m) : m[i] # "n"
             /\ Len(m) > 0 => m[1] # "eot"

LinesOnly == codec = "line" => \A m \in Texts : IsLine(m)

\* The bytes of what the peer has sent, and whether the codec refuses it.
Frame(c, m) == IF m = Junk_ THEN Junk_
               ELSE IF c = "line" THEN m \o <<"r", "n">> ELSE <<"mBdT", Len(m)>> \o m
Bad(c, m) == m = Junk_ \/ (c = "length" /\ Len(m) > MaxText)

\* f[i] is what follows the i-th message on the wire; what was not yet decoded follows
\* the last message given to the callback.
Follows(f) == /\ f \in [0 .. Len(cdSent) -> Seq(Cell)]
              /\ f[Len(cdSent)] = <<>>
              /\ \A i \in 1 .. Len(cdSent) : f[i - 1] = Frame(codec, cdSent[i]) \o f[i]
              /\ cdInput \o cdWire = f[Len(cdGot)]

CodecType == /\ codec \in {"line", "length"}
             /\ cdSent \in Seq(Texts \cup {Junk_}) /\ cdGot \in Seq(Texts \cup {Junk_})
             /\ cdWire \in Seq(Cell) /\ cdInput \in Seq(Cell)
             /\ codec = "line" => \A i \in 1 .. Len(cdSent) : cdSent[i] \in Texts
             /\ cdPlace \in {"waiting", "decoding", "cleanup", "closed", "ended"}

\* The messages given to the callback are the first ones sent, and none is refused.
GotIsPrefix == /\ Len(cdGot) <= Len(cdSent)
               /\ \A i \in 1 .. Len(cdGot) : cdGot[i] = cdSent[i] /\ ~Bad(codec, cdSent[i])

\* onMsg's loop has decoded what there is: the rest is shorter than the next message.
NoneWhole == /\ cdPlace \in {"waiting", "ended"} /\ Len(cdGot) < Len(cdSent)
                    => Len(cdInput) < Len(Frame(codec, cdSent[Len(cdGot) + 1]))
             /\ cdPlace = "closed" => /\ Len(cdGot) < Len(cdSent)
                                      /\ Bad(codec, cdSent[Len(cdGot) + 1])

CodecInv == /\ LinesOnly /\ CodecType /\ GotIsPrefix /\ NoneWhole
            /\ \E f \in [0 .. Len(cdSent) -> Seq(Cell)] : Follows(f)

\* The i-th cell of a concatenation.
LEMMA CellOfConcat ==
    ASSUME NEW a \in Seq(Cell), NEW b \in Seq(Cell)
    PROVE  /\ a \o b \in Seq(Cell) /\ Len(a \o b) = Len(a) + Len(b)
           /\ Len(a) \in Nat /\ Len(b) \in Nat
           /\ \A i \in 1 .. Len(a) : (a \o b)[i] = a[i]
           /\ \A i \in 1 .. Len(b) : (a \o b)[Len(a) + i] = b[i]
<1>1. /\ a \o b \in Seq(Cell) /\ Len(a \o b) = Len(a) + Len(b)
      /\ \A i \in 1 .. Len(a) + Len(b) : (a \o b)[i] = IF i <= Len(a) THEN a[i] ELSE b[i - Len(a)]
  BY ConcatProperties
<1>2. Len(a) \in Nat /\ Len(b) \in Nat
  BY LenProperties
<1>3. ASSUME NEW i \in 1 .. Len(a) PROVE (a \o b)[i] = a[i]
  BY <1>1, <1>2
<1>4. ASSUME NEW i \in 1 .. Len(b) PROVE (a \o b)[Len(a) + i] = b[i]
  <2>1. Len(a) + i \in 1 .. Len(a) + Len(b) /\ ~(Len(a) + i <= Len(a)) /\ (Len(a) + i) - Len(a) = i
    BY <1>2
  <2> QED BY <1>1, <2>1
<1> QED BY <1>1, <1>2, <1>3, <1>4

\* Two cells are a sequence of two.
LEMMA TwoCells ==
    ASSUME NEW a \in Cell, NEW b \in Cell
    PROVE  <<a, b>> \in Seq(Cell) /\ Len(<<a, b>>) = 2 /\ <<a, b>>[1] = a /\ <<a, b>>[2] = b
OBVIOUS

\* What the bytes of a message are.
LEMMA FrameIs ==
    ASSUME codec \in {"line", "length"}, NEW m \in Texts \cup {Junk_}
    PROVE  /\ Frame(codec, m) \in Seq(Cell) /\ Len(Frame(codec, m)) \in Nat /\ Len(Frame(codec, m)) >= 2
           /\ m = Junk_ => Frame(codec, m) = <<"?", 0>>
           /\ m # Junk_ => /\ m \in Seq(STRING) /\ Len(m) \in Nat
                           /\ Len(Frame(codec, m)) = Len(m) + 2
           /\ m # Junk_ /\ codec = "line" =>
                  /\ \A i \in 1 .. Len(m) : Frame(codec, m)[i] = m[i]
                  /\ Frame(codec, m)[Len(m) + 1] = "r" /\ Frame(codec, m)[Len(m) + 2] = "n"
           /\ m # Junk_ /\ codec = "length" =>
                  /\ Frame(codec, m)[1] = "mBdT" /\ Frame(codec, m)[2] = Len(m)
                  /\ \A i \in 1 .. Len(m) : Frame(codec, m)[2 + i] = m[i]
<1>1. CASE m = Junk_
  <2>1. Frame(codec, m) = <<"?", 0>>
    BY <1>1 DEF Frame, Junk_
  <2>2. "?" \in Cell /\ 0 \in Cell
    BY DEF Cell
  <2>3. <<"?", 0>> \in Seq(Cell) /\ Len(<<"?", 0>>) = 2
    BY <2>2, TwoCells
  <2> QED BY <1>1, <2>1, <2>3
<1>2. CASE m # Junk_
  <2>1. m \in Seq(STRING) /\ m \in Seq(Cell)
    BY <1>2, CodecAssumption DEF Cell
  <2>2. Len(m) \in Nat
    BY <2>1, LenProperties
  <2>4. CASE codec = "line"
    <3> DEFINE e == <<"r", "n">>
    <3>1. Frame(codec, m) = m \o e
      BY <1>2, <2>4 DEF Frame
    <3>a. "r" \in Cell /\ "n" \in Cell
      BY DEF Cell
    <3>2. e \in Seq(Cell) /\ Len(e) = 2 /\ e[1] = "r" /\ e[2] = "n"
      BY <3>a, TwoCells
    <3> HIDE DEF e
    <3>b. /\ m \o e \in Seq(Cell) /\ Len(m \o e) = Len(m) + Len(e)
          /\ \A i \in 1 .. Len(m) : (m \o e)[i] = m[i]
          /\ \A i \in 1 .. Len(e) : (m \o e)[Len(m) + i] = e[i]
      BY <2>1, <3>2, CellOfConcat
    <3>3. /\ m \o e \in Seq(Cell) /\ Len(m \o e) = Len(m) + 2
          /\ \A i \in 1 .. Len(m) : (m \o e)[i] = m[i]
          /\ \A i \in 1 .. 2 : (m \o e)[Len(m) + i] = e[i]
      BY ONLY <3>b, <3>2
    <3>4. Frame(codec, m) \in Seq(Cell) /\ Len(Frame(codec, m)) = Len(m) + 2
      BY <3>1, <3>3
    <3>5. Len(Frame(codec, m)) \in Nat /\ Len(Frame(codec, m)) >= 2
      BY <2>2, <3>4
    <3>6. /\ \A i \in 1 .. Len(m) : Frame(codec, m)[i] = m[i]
          /\ Frame(codec, m)[Len(m) + 1] = "r" /\ Frame(codec, m)[Len(m) + 2] = "n"
      BY <3>1, <3>2, <3>3
    <3> QED BY <1>2, <2>1, <2>2, <2>4, <3>4, <3>5, <3>6
  <2>5. CASE codec = "length"
    <3> DEFINE e == <<"mBdT", Len(m)>>
    <3>1. Frame(codec, m) = e \o m
      BY <1>2, <2>5 DEF Frame
    <3>a. "mBdT" \in Cell /\ Len(m) \in Cell
      BY <2>2 DEF Cell
    <3>2. e \in Seq(Cell) /\ Len(e) = 2 /\ e[1] = "mBdT" /\ e[2] = Len(m)
      BY <3>a, TwoCells
    <3> HIDE DEF e
    <3>b. /\ e \o m \in Seq(Cell) /\ Len(e \o m) = Len(e) + Len(m)
          /\ \A i \in 1 .. Len(e) : (e \o m)[i] = e[i]
          /\ \A i \in 1 .. Len(m) : (e \o m)[Len(e) + i] = m[i]
      BY <2>1, <3>2, CellOfConcat
    <3>3. /\ e \o m \in Seq(Cell) /\ Len(e \o m) = 2 + Len(m)
          /\ \A i \in 1 .. 2 : (e \o m)[i] = e[i]
          /\ \A i \in 1 .. Len(m) : (e \o m)[2 + i] = m[i]
      BY ONLY <3>b, <3>2
    <3>4. Frame(codec, m) \in Seq(Cell) /\ Len(Frame(codec, m)) = Len(m) + 2
      BY <2>2, <3>1, <3>3
    <3>5. Len(Frame(codec, m)) \in Nat /\ Len(Frame(codec, m)) >= 2
      BY <2>2, <3>4
    <3>6. /\ Frame(codec, m)[1] = "mBdT" /\ Frame(codec, m)[2] = Len(m)
          /\ \A i \in 1 .. Len(m) : Frame(codec, m)[2 + i] = m[i]
      BY <3>1, <3>2, <3>3
    <3> QED BY <1>2, <2>1, <2>2, <2>5, <3>4, <3>5, <3>6
  <2> QED BY <2>4, <2>5
<1> QED BY <1>1, <1>2

\* A message is the part of input_ that it was put in.
LEMMA CutOut ==
    ASSUME NEW d \in Seq(Cell), NEW m \in Seq(STRING), NEW p \in Nat, p + Len(m) <= Len(d),
           \A i \in 1 .. Len(m) : d[p + i] = m[i]
    PROVE  SubSeq(d, p + 1, p + Len(m)) = m
<1>1. Len(m) \in Nat /\ Len(d) \in Nat /\ m \in Seq(Cell)
  BY LenProperties DEF Cell
<1> DEFINE s == SubSeq(d, p + 1, p + Len(m))
<1>2. p + 1 \in 1 .. Len(d) + 1 /\ p + Len(m) \in (p + 1) - 1 .. Len(d)
  BY <1>1
<1>3. /\ s \in Seq(Cell) /\ Len(s) = (p + Len(m)) - (p + 1) + 1
      /\ \A i \in 1 .. (p + Len(m)) - (p + 1) + 1 : s[i] = d[(p + 1) + i - 1]
  BY <1>1, <1>2, SubSeqProperties
<1> HIDE DEF s
<1>4. (p + Len(m)) - (p + 1) + 1 = Len(m)
  BY <1>1
<1>5. ASSUME NEW i \in 1 .. Len(m) PROVE s[i] = m[i]
  <2>1. (p + 1) + i - 1 = p + i
    OBVIOUS
  <2> QED BY <1>3, <1>4, <2>1
<1>6. s = m
  BY <1>1, <1>3, <1>4, <1>5, SeqEqual
<1> QED BY <1>6 DEF s

\* tryDecode on the beginning of the bytes of m and what follows them: it waits for the
\* rest, gives m and consumes its bytes, or refuses it.
LEMMA DecodeIsRight ==
    ASSUME CodecType, NEW m \in Texts \cup {Junk_}, codec = "line" => m \in Texts /\ IsLine(m),
           NEW d \in Seq(Cell),
           \A i \in 1 .. Len(d) : i <= Len(Frame(codec, m)) => d[i] = Frame(codec, m)[i]
    PROVE  LET r == TryDecode(d)
           IN  \/ r.err /\ Bad(codec, m)
               \/ ~r.err /\ r.used = 0 /\ Len(d) < Len(Frame(codec, m))
               \/ /\ ~r.err /\ r.used = Len(Frame(codec, m)) /\ r.msg = m
                  /\ Len(Frame(codec, m)) <= Len(d) /\ ~Bad(codec, m)
<1> DEFINE F == Frame(codec, m)
<1>1. Len(d) \in Nat /\ DOMAIN d = 1 .. Len(d)
  BY LenProperties
<1>2. codec \in {"line", "length"}
  BY DEF CodecType
<1>3. Part.used = 0 /\ Part.err = FALSE
  BY DEF Part
<1>4. \A n, t : Decoded(n, t).used = n /\ Decoded(n, t).msg = t /\ ~Decoded(n, t).err
  BY DEF Decoded
<1>5. /\ F \in Seq(Cell) /\ Len(F) \in Nat /\ Len(F) >= 2
      /\ m = Junk_ => F = <<"?", 0>>
      /\ m # Junk_ => m \in Seq(STRING) /\ Len(m) \in Nat /\ Len(F) = Len(m) + 2
  BY <1>2, FrameIs
<1>6. CASE codec = "line"
  <2>1. m # Junk_ /\ IsLine(m) /\ ~Bad(codec, m)
    BY <1>6, CodecAssumption DEF Junk_, Bad
  <2>2. /\ \A i \in 1 .. Len(m) : F[i] = m[i]
        /\ F[Len(m) + 1] = "r" /\ F[Len(m) + 2] = "n"
    BY <1>2, <1>6, <2>1, FrameIs
  <2> HIDE DEF F
  <2>3. ASSUME NEW i \in 1 .. Len(F) PROVE F[i] = "n" <=> i = Len(F)
    <3>1. i \in 1 .. Len(m) \/ i = Len(m) + 1 \/ i = Len(m) + 2
      BY <1>5, <2>1
    <3>2. CASE i \in 1 .. Len(m)
      BY <1>5, <2>1, <2>2, <3>2 DEF IsLine
    <3>3. CASE i = Len(m) + 1
      BY <1>5, <2>1, <2>2, <3>3
    <3> QED BY <1>5, <2>1, <2>2, <3>1, <3>2, <3>3
  <2>4. F[1] # "eot"
    BY <1>5, <2>1, <2>2 DEF IsLine
  <2> DEFINE ends == {i \in DOMAIN d : d[i] = "n"}
             e == CHOOSE i \in ends : \A j \in ends : i <= j
  <2>5. TryDecode(d) = IF d = <<"eot">> THEN Decoded(1, d)
                       ELSE IF ends = {} THEN Part
                       ELSE IF e > 1 /\ d[e - 1] = "r" THEN Decoded(e, SubSeq(d, 1, e - 2))
                       ELSE Decoded(e, SubSeq(d, 1, e - 1))
    BY <1>6 DEF TryDecode, DecodeLine
  <2>6. d # <<"eot">>
    <3>1. ASSUME d = <<"eot">> PROVE FALSE
      <4>1. Len(d) = 1 /\ d[1] = "eot"
        BY <3>1
      <4> QED BY <1>5, <2>4, <4>1 DEF F
    <3> QED BY <3>1
  <2>7. CASE Len(d) < Len(F)
    <3>1. ends = {}
      <4>1. ASSUME NEW i \in 1 .. Len(d) PROVE d[i] # "n"
        BY <1>1, <1>5, <2>3, <2>7 DEF F
      <4> QED BY <1>1, <4>1
    <3>2. TryDecode(d) = Part
      BY <2>5, <2>6, <3>1
    <3> QED BY <1>3, <2>7, <3>2 DEF F
  <2>8. CASE Len(d) >= Len(F)
    <3>1. \A i \in 1 .. Len(F) : i \in DOMAIN d /\ d[i] = F[i]
      BY <1>1, <1>5, <2>8 DEF F
    <3>2. Len(F) \in ends /\ \A j \in ends : Len(F) <= j
      BY <1>1, <1>5, <2>3, <3>1
    <3>3. ends \subseteq Nat
      BY <1>1
    <3> HIDE DEF ends
    <3>4. e \in ends /\ e <= Len(F) /\ Len(F) <= e
      BY <3>2
    <3> HIDE DEF e
    <3>5. e = Len(F)
      BY <1>5, <3>3, <3>4
    <3>6. e - 1 = Len(m) + 1 /\ e > 1 /\ e - 1 \in 1 .. Len(F)
      BY <1>5, <2>1, <3>5
    <3>7. d[e - 1] = "r"
      BY <2>2, <3>1, <3>6
    <3>8. TryDecode(d) = Decoded(Len(F), SubSeq(d, 1, e - 2))
      BY <2>5, <2>6, <3>2, <3>5, <3>6, <3>7
    <3>9. SubSeq(d, 1, e - 2) = m
      <4>1. e - 2 = 0 + Len(m) /\ 0 + Len(m) <= Len(d) /\ 0 + 1 = 1
        BY <1>1, <1>5, <2>1, <2>8, <3>5
      <4>2. \A i \in 1 .. Len(m) : d[0 + i] = m[i]
        BY <1>5, <2>1, <2>2, <3>1
      <4>3. SubSeq(d, 0 + 1, 0 + Len(m)) = m
        BY <1>5, <2>1, <4>1, <4>2, CutOut
      <4> QED BY <4>1, <4>3
    <3>10. /\ ~TryDecode(d).err /\ TryDecode(d).used = Len(F) /\ TryDecode(d).msg = m
           /\ Len(F) <= Len(d)
      <4>1. Len(F) <= Len(d)
        BY <1>1, <1>5, <2>8
      <4>2. TryDecode(d) = Decoded(Len(F), m)
        BY <3>8, <3>9
      <4>3. ~TryDecode(d).err /\ TryDecode(d).used = Len(F) /\ TryDecode(d).msg = m
        BY <4>2 DEF Decoded
      <4> QED BY <4>1, <4>3
    <3> QED BY <2>1, <3>10 DEF F
  <2> QED BY <1>1, <1>5, <2>7, <2>8
<1>7. CASE codec = "length"
  <2>1. TryDecode(d) = IF Len(d) < 2 THEN Part
                       ELSE IF d[1] # "mBdT" \/ d[2] > MaxText THEN [Part EXCEPT !.err = TRUE]
                       ELSE IF Len(d) >= d[2] + 2
                       THEN Decoded(d[2] + 2, SubSeq(d, 2 + 1, d[2] + 2))
                       ELSE Part
    BY <1>7 DEF TryDecode, DecodeLength, Head_
  <2>2. [Part EXCEPT !.err = TRUE].err = TRUE
    BY DEF Part
  <2>3. CASE Len(d) < 2
    BY <1>1, <1>3, <1>5, <2>1, <2>3
  <2>4. CASE ~(Len(d) < 2) /\ m = Junk_
    <3>1. d[1] = "?"
      BY <1>1, <1>5, <2>4
    <3> QED BY <2>1, <2>2, <2>4, <3>1 DEF Bad
  <2>5. CASE ~(Len(d) < 2) /\ m # Junk_
    <3>1. /\ F[1] = "mBdT" /\ F[2] = Len(m)
          /\ \A i \in 1 .. Len(m) : F[2 + i] = m[i]
      BY <1>2, <1>7, <2>5, FrameIs
    <3>2. d[1] = "mBdT" /\ d[2] = Len(m)
      BY <1>1, <1>5, <2>5, <3>1
    <3>3. Bad(codec, m) <=> Len(m) > MaxText
      BY <1>7, <2>5 DEF Bad
    <3> HIDE DEF F
    <3>4. CASE Len(m) > MaxText
      BY <2>1, <2>2, <2>5, <3>2, <3>3, <3>4
    <3>5. CASE ~(Len(m) > MaxText) /\ Len(d) < Len(F)
      <4>1. ~(Len(d) >= d[2] + 2)
        BY <1>1, <1>5, <2>5, <3>2, <3>5
      <4>2. TryDecode(d) = Part
        BY <2>1, <2>5, <3>2, <3>5, <4>1
      <4> QED BY <1>3, <3>5, <4>2 DEF F
    <3>6. CASE ~(Len(m) > MaxText) /\ Len(d) >= Len(F)
      <4>1. d[2] + 2 = 2 + Len(m) /\ 2 + Len(m) <= Len(d) /\ 2 + Len(m) = Len(F)
        BY <1>1, <1>5, <2>5, <3>2, <3>6
      <4>2. TryDecode(d) = Decoded(2 + Len(m), SubSeq(d, 2 + 1, 2 + Len(m)))
        BY <2>1, <2>5, <3>2, <3>6, <4>1
      <4>3. \A i \in 1 .. Len(m) : d[2 + i] = m[i]
        BY <1>1, <1>5, <2>5, <3>1, <4>1 DEF F
      <4>4. SubSeq(d, 2 + 1, 2 + Len(m)) = m
        BY <1>5, <2>5, <4>1, <4>3, CutOut
      <4>5. /\ ~TryDecode(d).err /\ TryDecode(d).used = Len(F) /\ TryDecode(d).msg = m
            /\ Len(F) <= Len(d)
        <5>1. TryDecode(d) = Decoded(Len(F), m)
          BY <4>1, <4>2, <4>4
        <5>2. ~TryDecode(d).err /\ TryDecode(d).used = Len(F) /\ TryDecode(d).msg = m
          BY <5>1 DEF Decoded
        <5> QED BY <4>1, <5>2
      <4> QED BY <3>3, <3>6, <4>5 DEF F
    <3> QED BY <1>1, <1>5, <3>4, <3>5, <3>6
  <2> QED BY <2>3, <2>4, <2>5
<1> QED BY <1>2, <1>6, <1>7

\* Concatenations of three.
LEMMA CellsAssoc ==
    ASSUME NEW a \in Seq(Cell), NEW b \in Seq(Cell), NEW c \in Seq(Cell)
    PROVE  (a \o b) \o c = a \o (b \o c)
BY ConcatAssociative

\* A read moves bytes from the wire to input_.
LEMMA CellsMoved ==
    ASSUME NEW a \in Seq(Cell), NEW b \in Seq(Cell), NEW k \in 0 .. Len(b)
    PROVE  /\ a \o SubSeq(b, 1, k) \in Seq(Cell) /\ SubSeq(b, k + 1, Len(b)) \in Seq(Cell)
           /\ (a \o SubSeq(b, 1, k)) \o SubSeq(b, k + 1, Len(b)) = a \o b
<1> DEFINE u == SubSeq(b, 1, k)
           v == SubSeq(b, k + 1, Len(b))
<1>1. Len(b) \in Nat
  BY LenProperties
<1>2. 1 \in 1 .. Len(b) + 1 /\ k \in 1 - 1 .. Len(b) /\ Len(b) \in k .. Len(b)
  BY <1>1
<1>3. u \in Seq(Cell) /\ v \in Seq(Cell)
  BY <1>1, <1>2, SubSeqProperties
<1>4. u \o v = SubSeq(b, 1, Len(b))
  BY <1>2, ConcatAdjacentSubSeq, Zenon
<1>5. SubSeq(b, 1, Len(b)) = b
  BY SubSeqFull, Zenon
<1> HIDE DEF u, v
<1>6. (a \o u) \o v = a \o (u \o v)
  BY <1>3, CellsAssoc
<1>7. a \o u \in Seq(Cell)
  BY <1>3, ConcatProperties
<1> QED BY <1>3, <1>4, <1>5, <1>6, <1>7 DEF u, v

\* Consuming the first message leaves what follows it.
LEMMA CellsDropped ==
    ASSUME NEW a \in Seq(Cell), NEW b \in Seq(Cell), NEW e \in Seq(Cell), NEW t \in Seq(Cell),
           a \o b = e \o t, Len(e) <= Len(a)
    PROVE  /\ SubSeq(a, Len(e) + 1, Len(a)) \in Seq(Cell)
           /\ SubSeq(a, Len(e) + 1, Len(a)) \o b = t
<1> DEFINE v == SubSeq(a, Len(e) + 1, Len(a))
<1>1. /\ Len(a) \in Nat /\ Len(b) \in Nat /\ Len(e) \in Nat /\ Len(t) \in Nat
      /\ Len(a) + Len(b) = Len(e) + Len(t)
      /\ \A i \in 1 .. Len(a) : (a \o b)[i] = a[i]
      /\ \A i \in 1 .. Len(b) : (a \o b)[Len(a) + i] = b[i]
      /\ \A i \in 1 .. Len(t) : (a \o b)[Len(e) + i] = t[i]
  <2>1. /\ Len(a) \in Nat /\ Len(b) \in Nat /\ Len(a \o b) = Len(a) + Len(b)
        /\ \A i \in 1 .. Len(a) : (a \o b)[i] = a[i]
        /\ \A i \in 1 .. Len(b) : (a \o b)[Len(a) + i] = b[i]
    BY CellOfConcat
  <2>2. /\ Len(e) \in Nat /\ Len(t) \in Nat /\ Len(e \o t) = Len(e) + Len(t)
        /\ \A i \in 1 .. Len(t) : (e \o t)[Len(e) + i] = t[i]
    BY CellOfConcat
  <2> QED BY <2>1, <2>2
<1>2. Len(e) + 1 \in 1 .. Len(a) + 1 /\ Len(a) \in (Len(e) + 1) - 1 .. Len(a)
  BY <1>1
<1>3. /\ v \in Seq(Cell) /\ Len(v) = Len(a) - (Len(e) + 1) + 1
      /\ \A i \in 1 .. Len(a) - (Len(e) + 1) + 1 : v[i] = a[(Len(e) + 1) + i - 1]
  BY <1>2, SubSeqProperties
<1> HIDE DEF v
<1>4. Len(v) = Len(a) - Len(e) /\ \A i \in 1 .. Len(v) : v[i] = a[Len(e) + i]
  <2>1. Len(a) - (Len(e) + 1) + 1 = Len(a) - Len(e)
    BY <1>1
  <2>2. \A i \in Nat : (Len(e) + 1) + i - 1 = Len(e) + i
    BY <1>1
  <2> QED BY <1>3, <2>1, <2>2
<1>5. /\ v \o b \in Seq(Cell) /\ Len(v \o b) = Len(v) + Len(b)
      /\ \A i \in 1 .. Len(v) : (v \o b)[i] = v[i]
      /\ \A i \in 1 .. Len(b) : (v \o b)[Len(v) + i] = b[i]
  BY <1>3, CellOfConcat
<1> DEFINE s == v \o b
           u == a \o b
<1> HIDE DEF s, u
<1>6. Len(s) = Len(t)
  BY <1>1, <1>4, <1>5 DEF s
<1>7. ASSUME NEW i \in 1 .. Len(t) PROVE s[i] = t[i]
  <2>1. t[i] = u[Len(e) + i]
    BY <1>1 DEF u
  <2>2. CASE i <= Len(v)
    <3>1. i \in 1 .. Len(v) /\ Len(e) + i \in 1 .. Len(a)
      BY <1>1, <1>4, <2>2
    <3>2. s[i] = v[i] /\ v[i] = a[Len(e) + i] /\ u[Len(e) + i] = a[Len(e) + i]
      BY <1>1, <1>4, <1>5, <3>1 DEF s, u
    <3> QED BY <2>1, <3>2
  <2>3. CASE ~(i <= Len(v))
    <3> DEFINE j == i - Len(v)
    <3>1. j \in 1 .. Len(b) /\ Len(v) + j = i /\ Len(a) + j = Len(e) + i
      BY <1>1, <1>4, <2>3
    <3>2. s[Len(v) + j] = b[j] /\ u[Len(a) + j] = b[j]
      BY <1>1, <1>5, <3>1 DEF s, u
    <3> QED BY <2>1, <3>1, <3>2
  <2> QED BY <2>2, <2>3
<1>8. s \in Seq(Cell)
  BY <1>5 DEF s
<1>9. s = t
  BY <1>6, <1>7, <1>8, SeqEqual
<1> QED BY <1>3, <1>9 DEF s, v

\* The peer's next message comes after all others.
LEMMA PeerSendsKeeps == ASSUME CodecInv, PeerSends PROVE CodecInv'
<1> DEFINE n == Len(cdSent)
           g == Len(cdGot)
<1>1. PICK x \in Texts \cup {Junk_} :
          /\ cdSent' = Append(cdSent, x) /\ cdWire' = cdWire \o Frame(codec, x)
          /\ codec = "line" => x \in Texts
  BY CodecAssumption DEF PeerSends, Frame, Encode, Junk_
<1>2. /\ codec' = codec /\ cdInput' = cdInput /\ cdGot' = cdGot /\ cdPlace' = cdPlace
  BY DEF PeerSends
<1>3. /\ codec \in {"line", "length"}
      /\ cdSent \in Seq(Texts \cup {Junk_}) /\ cdGot \in Seq(Texts \cup {Junk_})
      /\ cdWire \in Seq(Cell) /\ cdInput \in Seq(Cell) /\ n \in Nat /\ g \in Nat /\ g <= n
  BY LenProperties DEF CodecInv, CodecType, GotIsPrefix
<1> DEFINE F == Frame(codec, x)
<1>4. F \in Seq(Cell) /\ Len(F) \in Nat /\ Len(F) >= 2
  BY <1>3, FrameIs
<1>5. /\ cdSent' \in Seq(Texts \cup {Junk_}) /\ Len(cdSent') = n + 1
      /\ \A i \in 1 .. n : cdSent'[i] = cdSent[i]
      /\ cdSent'[n + 1] = x
  BY <1>1, <1>3, AppendProperties
<1>7. cdWire' \in Seq(Cell) /\ cdWire' = cdWire \o F
  BY <1>1, <1>3, <1>4, ConcatProperties
<1> HIDE DEF n, g, F
<1>8. PICK f \in [0 .. n -> Seq(Cell)] : Follows(f)
  BY DEF CodecInv, n
<1>9. /\ f[n] = <<>> /\ \A i \in 1 .. n : f[i - 1] = Frame(codec, cdSent[i]) \o f[i]
      /\ cdInput \o cdWire = f[g]
  BY <1>8 DEF Follows, n, g
<1>10. CodecType' /\ LinesOnly'
  <2>1. codec' = "line" => \A i \in 1 .. n + 1 : cdSent'[i] \in Texts
    <3>1. ASSUME codec = "line", NEW i \in 1 .. n + 1 PROVE cdSent'[i] \in Texts
      <4>1. i \in 1 .. n \/ i = n + 1
        BY <1>3
      <4> QED BY <1>1, <1>5, <3>1, <4>1 DEF CodecInv, CodecType, n
    <3> QED BY <1>2, <3>1
  <2> QED BY <1>2, <1>5, <1>7, <2>1 DEF CodecInv, CodecType, LinesOnly, IsLine
<1>11. GotIsPrefix'
  <2>1. Len(cdGot') = g /\ g <= Len(cdSent')
    BY <1>2, <1>3, <1>5 DEF g
  <2>2. ASSUME NEW i \in 1 .. g PROVE cdGot'[i] = cdSent'[i] /\ ~Bad(codec', cdSent'[i])
    <3>1. i \in 1 .. n /\ cdGot[i] = cdSent[i] /\ ~Bad(codec, cdSent[i])
      BY <1>3 DEF CodecInv, GotIsPrefix, g
    <3> QED BY <1>2, <1>5, <3>1 DEF Bad
  <2> QED BY <2>1, <2>2 DEF GotIsPrefix
<1>12. NoneWhole'
  <2>1. Len(cdGot') = g /\ Len(cdSent') = n + 1 /\ cdPlace' = cdPlace /\ cdInput' = cdInput
    BY <1>2, <1>5 DEF g
  <2>2. CASE g < n
    <3>1. g + 1 \in 1 .. n /\ g < n + 1
      BY <1>3, <2>2
    <3>2. cdSent'[g + 1] = cdSent[g + 1]
      BY <1>5, <3>1
    <3>3. /\ Bad(codec', cdSent'[g + 1]) = Bad(codec, cdSent[g + 1])
          /\ Frame(codec', cdSent'[g + 1]) = Frame(codec, cdSent[g + 1])
      BY <1>2, <3>2 
    <3>4. /\ cdPlace \in {"waiting", "ended"} => Len(cdInput) < Len(Frame(codec, cdSent[g + 1]))
          /\ cdPlace = "closed" => Bad(codec, cdSent[g + 1])
      BY <2>2 DEF CodecInv, NoneWhole, g, n
    <3> QED BY <2>1, <3>1, <3>3, <3>4 DEF NoneWhole
  <2>3. CASE g = n
    <3>1. cdPlace # "closed"
      BY <1>3, <2>3 DEF CodecInv, NoneWhole, g, n
    <3>2. Len(cdInput) = 0
      <4>1. cdInput \o cdWire = <<>>
        BY <1>9, <2>3
      <4>2. Len(cdInput) + Len(cdWire) = 0 /\ Len(cdInput) \in Nat /\ Len(cdWire) \in Nat
        BY <1>3, <4>1, CellOfConcat
      <4> QED BY <4>2
    <3>3. Frame(codec', cdSent'[g + 1]) = F
      BY <1>2, <1>5, <2>3 DEF F
    <3> QED BY <1>4, <2>1, <3>1, <3>2, <3>3 DEF NoneWhole
  <2> QED BY <1>3, <2>2, <2>3
<1>13. \E h \in [0 .. Len(cdSent') -> Seq(Cell)] : Follows(h)'
  <2>1. ASSUME NEW i \in 0 .. n PROVE f[i] \in Seq(Cell) /\ f[i] \o F \in Seq(Cell)
    BY <1>4, <1>8, ConcatProperties
  <2>a. \E h \in [0 .. n + 1 -> Seq(Cell)] :
            h = [i \in 0 .. n + 1 |-> IF i = n + 1 THEN <<>> ELSE f[i] \o F]
    <3>1. ASSUME NEW i \in 0 .. n + 1 PROVE i = n + 1 \/ i \in 0 .. n
      BY <1>3
    <3>2. <<>> \in Seq(Cell)
      OBVIOUS
    <3>3. ASSUME NEW i \in 0 .. n + 1
          PROVE  (IF i = n + 1 THEN <<>> ELSE f[i] \o F) \in Seq(Cell)
      BY <2>1, <3>1, <3>2
    <3>4. [i \in 0 .. n + 1 |-> IF i = n + 1 THEN <<>> ELSE f[i] \o F]
              \in [0 .. n + 1 -> Seq(Cell)]
      BY <3>3, Zenon
    <3> QED BY <3>4, Zenon
  <2>b. PICK h \in [0 .. n + 1 -> Seq(Cell)] :
            h = [i \in 0 .. n + 1 |-> IF i = n + 1 THEN <<>> ELSE f[i] \o F]
    BY <2>a
  <2>2. h[n + 1] = <<>>
    BY <1>3, <2>b
  <2>3. ASSUME NEW i \in 0 .. n PROVE h[i] = f[i] \o F
    <3>1. i \in 0 .. n + 1 /\ i # n + 1
      BY <1>3
    <3> QED BY <2>b, <3>1, Zenon
  <2>4. ASSUME NEW i \in 1 .. n + 1 PROVE h[i - 1] = Frame(codec', cdSent'[i]) \o h[i]
    <3>1. i \in 1 .. n \/ i = n + 1
      BY <1>3
    <3>2. CASE i \in 1 .. n
      <4>0. cdSent[i] \in Texts \cup {Junk_}
        BY <1>3, <3>2, ElementOfSeq DEF n
      <4>1. cdSent'[i] = cdSent[i] /\ cdSent[i] \in Texts \cup {Junk_}
        BY <1>5, <3>2, <4>0
      <4>2. Frame(codec', cdSent'[i]) = Frame(codec, cdSent[i])
        BY <1>2, <4>1 
      <4>3. i - 1 \in 0 .. n /\ i \in 0 .. n
        BY <1>3, <3>2
      <4>4. Frame(codec, cdSent[i]) \in Seq(Cell) /\ f[i] \in Seq(Cell)
        BY <1>3, <2>1, <4>1, <4>3, FrameIs
      <4>5. (Frame(codec, cdSent[i]) \o f[i]) \o F = Frame(codec, cdSent[i]) \o (f[i] \o F)
        BY <1>4, <4>4, CellsAssoc
      <4>6. h[i - 1] = f[i - 1] \o F /\ h[i] = f[i] \o F
        BY <2>3, <4>3
      <4>7. f[i - 1] = Frame(codec, cdSent[i]) \o f[i]
        BY <1>9, <3>2
      <4> QED BY <4>2, <4>5, <4>6, <4>7
    <3>3. CASE i = n + 1
      <4>a. i - 1 = n /\ n \in 0 .. n
        BY <1>3, <3>3
      <4>b. h[n] = f[n] \o F
        BY <2>3, <4>a
      <4>1. h[i - 1] = <<>> \o F /\ h[i] = <<>>
        BY <1>9, <2>2, <3>3, <4>a, <4>b
      <4>2. Frame(codec', cdSent'[i]) = F
        BY <1>2, <1>5, <3>3 DEF F
      <4>3. <<>> \o F = F /\ F \o <<>> = F
        BY <1>4, ConcatEmptySeq
      <4> QED BY <4>1, <4>2, <4>3
    <3> QED BY <3>1, <3>2, <3>3
  <2>5. cdInput' \o cdWire' = h[Len(cdGot')]
    <3>1. (cdInput \o cdWire) \o F = cdInput \o (cdWire \o F)
      BY <1>3, <1>4, CellsAssoc
    <3>2. Len(cdGot') = g /\ g \in 0 .. n
      BY <1>2, <1>3 DEF g
    <3>3. h[g] = f[g] \o F
      BY <2>3, <3>2
    <3> QED BY <1>2, <1>7, <1>9, <3>1, <3>2, <3>3
  <2>6. Follows(h)'
    BY <1>5, <2>2, <2>4, <2>5 DEF Follows
  <2> QED BY <1>5, <2>6
<1> QED BY <1>10, <1>11, <1>12, <1>13 DEF CodecInv

\* Bytes come in: what was not decoded is the same, some of it in input_ now.
LEMMA CodecReadKeeps == ASSUME CodecInv, CodecRead PROVE CodecInv'
<1>1. PICK k \in 0 .. Len(cdWire) :
          /\ cdInput' = cdInput \o SubSeq(cdWire, 1, k)
          /\ cdWire' = SubSeq(cdWire, k + 1, Len(cdWire))
          /\ cdPlace' \in {"decoding", "cleanup"}
  BY DEF CodecRead
<1>2. codec' = codec /\ cdSent' = cdSent /\ cdGot' = cdGot
  BY DEF CodecRead
<1>3. cdWire \in Seq(Cell) /\ cdInput \in Seq(Cell)
  BY DEF CodecInv, CodecType
<1>4. cdInput' \in Seq(Cell) /\ cdWire' \in Seq(Cell) /\ cdInput' \o cdWire' = cdInput \o cdWire
  BY <1>1, <1>3, CellsMoved
<1>5. CodecType' /\ LinesOnly'
  BY <1>1, <1>2, <1>4 DEF CodecInv, CodecType, LinesOnly, IsLine
<1>6. GotIsPrefix'
  BY <1>2 DEF CodecInv, GotIsPrefix, Bad
<1>7. NoneWhole'
  BY <1>1 DEF NoneWhole
<1>8. \E f \in [0 .. Len(cdSent') -> Seq(Cell)] : Follows(f)'
  <2>1. PICK f \in [0 .. Len(cdSent) -> Seq(Cell)] : Follows(f)
    BY DEF CodecInv
  <2>2. Follows(f)'
    BY <1>2, <1>4, <2>1 DEF Follows
  <2> QED BY <1>2, <2>1, <2>2
<1> QED BY <1>5, <1>6, <1>7, <1>8 DEF CodecInv

\* One turn of onMsg's loop.
LEMMA OnMsgTurnKeeps == ASSUME CodecInv, OnMsgTurn PROVE CodecInv'
<1> DEFINE n == Len(cdSent)
           g == Len(cdGot)
           r == TryDecode(cdInput)
<1>1. codec' = codec /\ cdSent' = cdSent /\ cdWire' = cdWire
  BY DEF OnMsgTurn
<1>2. /\ codec \in {"line", "length"}
      /\ cdSent \in Seq(Texts \cup {Junk_}) /\ cdGot \in Seq(Texts \cup {Junk_})
      /\ cdWire \in Seq(Cell) /\ cdInput \in Seq(Cell)
      /\ n \in Nat /\ g \in Nat /\ g <= n /\ Len(cdInput) \in Nat /\ Len(cdWire) \in Nat
  BY LenProperties DEF CodecInv, CodecType, GotIsPrefix
<1>3. PICK f \in [0 .. n -> Seq(Cell)] : Follows(f)
  BY DEF CodecInv
<1>4. /\ f[n] = <<>> /\ \A i \in 1 .. n : f[i - 1] = Frame(codec, cdSent[i]) \o f[i]
      /\ cdInput \o cdWire = f[g]
  BY <1>3 DEF Follows
<1>5. LinesOnly'
  BY <1>1 DEF CodecInv, LinesOnly, IsLine
<1>6. cdPlace \in {"decoding", "cleanup"}
  BY DEF OnMsgTurn
<1>7. IF r.err THEN cdPlace' = "closed" /\ UNCHANGED <<cdInput, cdGot>>
      ELSE IF r.used > 0
      THEN /\ cdGot' = Append(cdGot, r.msg)
           /\ cdInput' = SubSeq(cdInput, r.used + 1, Len(cdInput))
           /\ cdPlace' = cdPlace
      ELSE cdPlace' \in {"waiting", "ended"} /\ UNCHANGED <<cdInput, cdGot>>
  BY DEF OnMsgTurn
<1> HIDE DEF n, g, r
\* When nothing is decoded only the place changes.
<1>8. ASSUME UNCHANGED <<cdInput, cdGot>>, cdPlace' \in {"waiting", "ended", "closed"}, NoneWhole'
      PROVE  CodecInv'
  <2>1. CodecType'
    BY <1>1, <1>8 DEF CodecInv, CodecType
  <2>2. GotIsPrefix'
    BY <1>1, <1>8 DEF CodecInv, GotIsPrefix
  <2>3. Follows(f)'
    BY <1>1, <1>3, <1>8 DEF Follows
  <2>4. \E h \in [0 .. Len(cdSent') -> Seq(Cell)] : Follows(h)'
    BY <1>1, <1>3, <2>3 DEF n
  <2> QED BY <1>5, <1>8, <2>1, <2>2, <2>4 DEF CodecInv
<1>9. CASE g = n
  <2>1. Len(cdInput) = 0
    <3>1. cdInput \o cdWire = <<>>
      BY <1>4, <1>9
    <3>2. Len(cdInput) + Len(cdWire) = 0
      BY <1>2, <3>1, CellOfConcat
    <3> QED BY <1>2, <3>2
  <2>2. cdInput = <<>>
    BY <1>2, <2>1
  <2>3. r = Part
    <3>1. DOMAIN <<>> = {} /\ <<>> # <<"eot">> /\ Len(<<>>) = 0
      OBVIOUS
    <3>2. DecodeLine(<<>>) = Part
      BY <3>1 DEF DecodeLine
    <3>3. DecodeLength(<<>>) = Part
      BY <3>1 DEF DecodeLength, Head_
    <3> QED BY <2>2, <3>2, <3>3 DEF r, TryDecode
  <2>4. ~r.err /\ ~(r.used > 0)
    BY <2>3 DEF Part
  <2>5. cdPlace' \in {"waiting", "ended"} /\ UNCHANGED <<cdInput, cdGot>>
    BY <1>7, <2>4
  <2>6. NoneWhole'
    <3>1. Len(cdGot') = n /\ Len(cdSent') = n /\ cdPlace' # "closed"
      BY <1>1, <1>9, <2>5 DEF g, n
    <3> QED BY <1>2, <3>1 DEF NoneWhole
  <2> QED BY <1>8, <2>5, <2>6
<1>10. CASE g < n
  <2> DEFINE m == cdSent[g + 1]
             F == Frame(codec, m)
  <2>1. g + 1 \in 1 .. n /\ g + 1 \in 0 .. n /\ (g + 1) - 1 = g
    BY <1>2, <1>10
  <2>2. m \in Texts \cup {Junk_} /\ (codec = "line" => m \in Texts /\ IsLine(m))
    BY <1>2, <2>1 DEF CodecInv, CodecType, LinesOnly, n
  <2>3. f[g] = F \o f[g + 1] /\ f[g + 1] \in Seq(Cell)
    BY <1>3, <1>4, <2>1
  <2> HIDE DEF m
  <2>4. F \in Seq(Cell) /\ Len(F) \in Nat /\ Len(F) >= 2
    BY <1>2, <2>2, FrameIs
  <2>5. ASSUME NEW i \in 1 .. Len(cdInput), i <= Len(F) PROVE cdInput[i] = F[i]
    <3>1. (cdInput \o cdWire)[i] = cdInput[i]
      BY <1>2, CellOfConcat
    <3>2. i \in 1 .. Len(F)
      BY <2>4, <2>5
    <3>3. (F \o f[g + 1])[i] = F[i]
      BY <2>3, <2>4, <3>2, CellOfConcat
    <3> QED BY <1>4, <2>3, <3>1, <3>3
  <2>6. \/ r.err /\ Bad(codec, m)
        \/ ~r.err /\ r.used = 0 /\ Len(cdInput) < Len(F)
        \/ ~r.err /\ r.used = Len(F) /\ r.msg = m /\ Len(F) <= Len(cdInput) /\ ~Bad(codec, m)
    BY <1>2, <2>2, <2>5, DecodeIsRight DEF CodecInv, r
  <2> HIDE DEF F
  <2>7. CASE r.err /\ Bad(codec, m)
    <3>1. cdPlace' = "closed" /\ UNCHANGED <<cdInput, cdGot>>
      BY <1>7, <2>7
    <3>2. NoneWhole'
      BY <1>1, <1>10, <2>7, <3>1 DEF NoneWhole, g, n, m
    <3> QED BY <1>8, <3>1, <3>2
  <2>8. CASE ~r.err /\ r.used = 0 /\ Len(cdInput) < Len(F)
    <3>1. cdPlace' \in {"waiting", "ended"} /\ UNCHANGED <<cdInput, cdGot>>
      BY <1>7, <2>8
    <3>2. NoneWhole'
      BY <1>1, <1>10, <2>8, <3>1 DEF NoneWhole, g, n, m, F
    <3> QED BY <1>8, <3>1, <3>2
  <2>9. CASE ~r.err /\ r.used = Len(F) /\ r.msg = m /\ Len(F) <= Len(cdInput) /\ ~Bad(codec, m)
    <3>1. /\ cdGot' = Append(cdGot, m) /\ cdPlace' = cdPlace
          /\ cdInput' = SubSeq(cdInput, Len(F) + 1, Len(cdInput))
      BY <1>7, <2>4, <2>9
    <3>2. cdInput \o cdWire = F \o f[g + 1]
      BY <1>4, <2>3
    <3>3. cdInput' \in Seq(Cell) /\ cdInput' \o cdWire' = f[g + 1]
      <4> DEFINE t == f[g + 1]
      <4>1. t \in Seq(Cell) /\ cdInput \o cdWire = F \o t
        BY <2>3, <3>2
      <4> HIDE DEF t
      <4>2. LET v == SubSeq(cdInput, Len(F) + 1, Len(cdInput)) IN v \in Seq(Cell) /\ v \o cdWire = t
        BY <1>2, <2>4, <2>9, <4>1, CellsDropped
      <4> QED BY <1>1, <3>1, <4>2 DEF t
    <3>4. /\ cdGot' \in Seq(Texts \cup {Junk_}) /\ Len(cdGot') = g + 1
          /\ \A i \in 1 .. g : cdGot'[i] = cdGot[i]
          /\ cdGot'[g + 1] = m
      BY <1>2, <2>2, <3>1, AppendProperties DEF g
    <3>5. CodecType'
      BY <1>1, <1>2, <1>6, <3>1, <3>3, <3>4 DEF CodecInv, CodecType
    <3>6. GotIsPrefix'
      <4>1. Len(cdGot') <= Len(cdSent')
        BY <1>1, <1>2, <2>1, <3>4 DEF n
      <4>2. ASSUME NEW i \in 1 .. g + 1 PROVE cdGot'[i] = cdSent[i] /\ ~Bad(codec, cdSent[i])
        <5>1. i \in 1 .. g \/ i = g + 1
          BY <1>2
        <5>2. CASE i \in 1 .. g
          BY <3>4, <5>2 DEF CodecInv, GotIsPrefix, g
        <5>3. CASE i = g + 1
          BY <2>9, <3>4, <5>3 DEF m
        <5> QED BY <5>1, <5>2, <5>3
      <4> QED BY <1>1, <3>4, <4>1, <4>2 DEF GotIsPrefix
    <3>7. NoneWhole'
      BY <1>6, <3>1 DEF NoneWhole
    <3>8. Follows(f)'
      BY <1>1, <1>3, <1>4, <3>3, <3>4 DEF Follows, n
    <3>9. \E h \in [0 .. Len(cdSent') -> Seq(Cell)] : Follows(h)'
      BY <1>1, <1>3, <3>8 DEF n
    <3> QED BY <1>5, <3>5, <3>6, <3>7, <3>9 DEF CodecInv
  <2> QED BY <2>6, <2>7, <2>8, <2>9
<1> QED BY <1>2, <1>9, <1>10

\* Every step keeps the invariant.
LEMMA CodecStep == CodecInv /\ [CodecNext]_codecVars => CodecInv'
<1> SUFFICES ASSUME CodecInv, [CodecNext]_codecVars PROVE CodecInv'
  OBVIOUS
<1>1. CASE UNCHANGED codecVars
  BY <1>1 DEF codecVars, CodecInv, LinesOnly, IsLine, CodecType, GotIsPrefix, NoneWhole, Follows
<1> QED BY <1>1, PeerSendsKeeps, CodecReadKeeps, OnMsgTurnKeeps DEF CodecNext

\* The invariant implies the round trip.
LEMMA CodecInvImplies == CodecInv => CodecRoundTrip
<1> SUFFICES ASSUME CodecInv PROVE CodecRoundTrip
  OBVIOUS
<1> DEFINE n == Len(cdSent)
           g == Len(cdGot)
           bad == {i \in DOMAIN cdSent : Refused(cdSent[i])}
<1>1. /\ cdSent \in Seq(Texts \cup {Junk_}) /\ cdGot \in Seq(Texts \cup {Junk_})
      /\ cdWire \in Seq(Cell) /\ cdInput \in Seq(Cell)
      /\ n \in Nat /\ g \in Nat /\ g <= n /\ DOMAIN cdSent = 1 .. n /\ DOMAIN cdGot = 1 .. g
  BY LenProperties DEF CodecInv, CodecType, GotIsPrefix
<1>2. \A m : Refused(m) <=> Bad(codec, m)
  BY DEF Refused, Bad
<1>3. \A i \in 1 .. g : cdGot[i] = cdSent[i] /\ ~Bad(codec, cdSent[i])
  BY DEF CodecInv, GotIsPrefix
<1>4. cdGot = SubSeq(cdSent, 1, g)
  <2> DEFINE s == SubSeq(cdSent, 1, g)
  <2>1. 1 \in 1 .. n + 1 /\ g \in 1 - 1 .. n
    BY <1>1
  <2>2. /\ s \in Seq(Texts \cup {Junk_}) /\ Len(s) = g - 1 + 1
        /\ \A i \in 1 .. g - 1 + 1 : s[i] = cdSent[1 + i - 1]
    BY <1>1, <2>1, SubSeqProperties
  <2> HIDE DEF s
  <2>3. Len(s) = g
    BY <1>1, <2>2
  <2>4. ASSUME NEW i \in 1 .. g PROVE s[i] = cdGot[i]
    <3>1. i \in 1 .. g - 1 + 1 /\ 1 + i - 1 = i
      BY <1>1
    <3> QED BY <1>3, <2>2, <3>1
  <2>5. s = cdGot
    BY <1>1, <2>2, <2>3, <2>4, SeqEqual
  <2> QED BY <2>5 DEF s
<1>5. \A i \in DOMAIN cdGot : i \notin bad
  BY <1>1, <1>2, <1>3
<1>6. ASSUME cdWire = <<>>, cdPlace \in {"waiting", "ended"} PROVE cdGot = cdSent /\ cdInput = <<>>
  <2>1. PICK f \in [0 .. n -> Seq(Cell)] : Follows(f)
    BY DEF CodecInv
  <2>2. /\ f[n] = <<>> /\ \A i \in 1 .. n : f[i - 1] = Frame(codec, cdSent[i]) \o f[i]
        /\ cdInput \o cdWire = f[g]
    BY <2>1 DEF Follows
  <2>3. cdInput = f[g]
    BY <1>1, <1>6, <2>2, ConcatEmptySeq
  <2>4. ASSUME g < n PROVE FALSE
    <3>1. g + 1 \in 1 .. n /\ g + 1 \in 0 .. n /\ (g + 1) - 1 = g
      BY <1>1, <2>4
    <3>2. cdSent[g + 1] \in Texts \cup {Junk_} /\ f[g + 1] \in Seq(Cell)
      BY <1>1, <2>1, <3>1
    <3> DEFINE F == Frame(codec, cdSent[g + 1])
    <3>3. F \in Seq(Cell) /\ Len(cdInput) < Len(F)
      BY <1>6, <2>4, <3>2, FrameIs DEF CodecInv, NoneWhole, CodecType
    <3>4. cdInput = F \o f[g + 1]
      BY <2>2, <2>3, <3>1
    <3> HIDE DEF F
    <3>5. Len(F \o f[g + 1]) = Len(F) + Len(f[g + 1]) /\ Len(F) \in Nat /\ Len(f[g + 1]) \in Nat
      BY <3>2, <3>3, CellOfConcat
    <3> QED BY <3>3, <3>4, <3>5
  <2>5. g = n
    <3>1. g \in Nat /\ n \in Nat /\ g <= n /\ ~(g < n)
      BY <1>1, <2>4
    <3> HIDE DEF g, n
    <3> QED BY <3>1
  <2>6. SubSeq(cdSent, 1, Len(cdSent)) = cdSent
    BY <1>1, SubSeqFull
  <2> QED BY <1>4, <2>2, <2>3, <2>5, <2>6
<1>7. ASSUME cdPlace = "closed" PROVE g + 1 \in bad
  <2>1. g < n /\ Bad(codec, cdSent[g + 1])
    BY <1>7 DEF CodecInv, NoneWhole
  <2>2. g + 1 \in 1 .. n
    BY <1>1, <2>1
  <2> QED BY <1>1, <1>2, <2>1, <2>2
<1> HIDE DEF bad, g
<1> QED BY <1>4, <1>5, <1>6, <1>7 DEF CodecRoundTrip, bad, g

\* encode, the cuts of the network, tryDecode and onMsg's loop together give the callback
\* exactly the messages sent, for any number of messages, any cuts and any MaxText;
\* with LineCodec for all messages it can carry.
THEOREM CodecRoundTripHolds == LinesOnly /\ CodecSpec => []CodecRoundTrip
<1>1. LinesOnly /\ CodecInit => CodecInv
  <2> SUFFICES ASSUME LinesOnly, CodecInit PROVE CodecInv
    OBVIOUS
  <2>1. /\ cdSent = <<>> /\ cdWire = <<>> /\ cdInput = <<>> /\ cdGot = <<>>
        /\ cdPlace = "waiting" /\ codec \in {"line", "length"}
    BY DEF CodecInit
  <2>2. Len(<<>>) = 0 /\ <<>> \in Seq(Cell) /\ <<>> \in Seq(Texts \cup {Junk_})
    OBVIOUS
  <2>3. CodecType /\ GotIsPrefix /\ NoneWhole
    BY <2>1, <2>2 DEF CodecType, GotIsPrefix, NoneWhole
  <2> DEFINE f == [i \in 0 .. 0 |-> <<>>]
  <2>4. f \in [0 .. 0 -> Seq(Cell)] /\ f[0] = <<>> /\ <<>> \o <<>> = <<>>
    BY <2>2, ConcatEmptySeq
  <2>5. Follows(f)
    BY <2>1, <2>2, <2>4 DEF Follows
  <2> QED BY <2>1, <2>2, <2>3, <2>4, <2>5 DEF CodecInv
<1> QED BY <1>1, CodecStep, CodecInvImplies, PTL DEF CodecSpec

-----------------------------------------------------------------------------
(* Daemon: the process that the pid file names.                             *)

\* The daemons that have not begun to leave.
Running == alive \ leaving

\* Process ids are numbers; the file holds none, 0 or one that was given out.
DaemonTypeOK == /\ born \in Nat /\ alive \subseteq 1 .. born /\ leaving \subseteq alive
                /\ pidFile \in -1 .. born /\ pid \in Nat
                /\ child \in {"none", "open", "write"}

\* A daemon that is starting is the only one, and its command has ended.
OneStarts == child # "none" => /\ cmd = "none" /\ result = "started"
                               /\ Running \subseteq {born} /\ born \notin leaving

\* When no daemon is starting the one that runs is in the file, and a command that waits
\* for a process to end waits for that one.
FileOrWait == /\ child = "none" => Running \subseteq {PidInFile}
              /\ pid # 0 => Stopping /\ Running \subseteq {pid}

StoppedIsGone == cmd = "none" /\ result = "stopped" => alive \subseteq leaving /\ pidFile = NoFile

DaemonInv == DaemonTypeOK /\ OneStarts /\ FileOrWait /\ StoppedIsGone

\* Every step of the commands, the daemon that starts and the daemons that end preserves
\* the invariant.
LEMMA DaemonStep == DaemonInv /\ [DaemonNext]_daemonVars => DaemonInv'
<1> SUFFICES ASSUME DaemonInv, [DaemonNext]_daemonVars PROVE DaemonInv'
  OBVIOUS
<1> USE DEF DaemonInv, DaemonTypeOK, OneStarts, FileOrWait, StoppedIsGone, Running, PidInFile,
            NoFile, Stopping
<1>1. CASE Command
  BY <1>1 DEF Command
<1>2. CASE DaemonStart
  <2>1. child = "none"
    BY <1>2 DEF DaemonStart
  <2>2. CASE PidInFile \in alive
    BY <1>2, <2>1, <2>2 DEF DaemonStart, Ends
  <2>3. CASE PidInFile \notin alive /\ UNCHANGED <<alive, born, child>>
    BY <1>2, <2>1, <2>3 DEF DaemonStart, Ends
  <2>4. CASE PidInFile \notin alive /\ ~UNCHANGED <<alive, born, child>>
    <3>1. /\ alive' = alive \cup {born + 1} /\ born' = born + 1 /\ child' = "open"
          /\ Ends("started") /\ UNCHANGED <<leaving, pidFile>>
      BY <1>2, <2>4 DEF DaemonStart
    <3>2. Running = {}
      BY <2>1, <2>4
    <3>3. DaemonTypeOK'
      BY <3>1 DEF Ends
    <3>4. born + 1 \notin leaving /\ Running' \subseteq {born'}
      BY <3>1, <3>2
    <3> QED BY <3>1, <3>3, <3>4 DEF Ends
  <2> QED BY <2>2, <2>3, <2>4
<1>3. CASE OpenPidFile
  <2>1. Running \subseteq {born} /\ UNCHANGED <<leaving, born, cmd, pid, tries, result>>
    BY <1>3 DEF OpenPidFile
  <2>2. CASE pidFile' = 0 /\ child' = "write" /\ UNCHANGED alive
    BY <1>3, <2>1, <2>2 DEF OpenPidFile
  <2>3. CASE child' = "none" /\ alive' = alive \ {born} /\ UNCHANGED pidFile
    <3>1. Running' = {} /\ leaving' \subseteq alive'
      BY <1>3, <2>1, <2>3 DEF OpenPidFile
    <3> QED BY <1>3, <2>1, <2>3, <3>1 DEF OpenPidFile
  <2> QED BY <1>3, <2>2, <2>3 DEF OpenPidFile
<1>4. CASE WritePidFile
  <2>1. /\ Running \subseteq {born} /\ child' = "none"
        /\ UNCHANGED <<leaving, born, cmd, pid, tries, result>>
    BY <1>4 DEF WritePidFile
  <2>2. CASE pidFile' = born /\ UNCHANGED alive
    BY <1>4, <2>1, <2>2 DEF WritePidFile
  <2>3. CASE alive' = alive \ {born} /\ pidFile' \in {pidFile, born}
    <3>1. Running' = {} /\ leaving' \subseteq alive'
      BY <1>4, <2>1, <2>3 DEF WritePidFile
    <3> QED BY <1>4, <2>1, <2>3, <3>1 DEF WritePidFile
  <2> QED BY <1>4, <2>2, <2>3 DEF WritePidFile
<1>5. CASE DaemonRestart
  BY <1>5 DEF DaemonRestart
<1>6. CASE DaemonStop
  BY <1>6 DEF DaemonStop, Ends
<1>7. CASE StopTurn
  <2>1. child = "none" /\ Running \subseteq {pid}
    BY <1>7 DEF StopTurn
  <2>2. CASE pid \in alive
    BY <1>7, <2>1, <2>2 DEF StopTurn, Ends
  <2>3. CASE pid \notin alive
    BY <1>7, <2>1, <2>3 DEF StopTurn, Ends
  <2> QED BY <2>2, <2>3
<1>8. ASSUME NEW p \in alive, DaemonExits(p) PROVE DaemonInv'
  <2>1. child = "none" /\ Running = {p}
    BY <1>8 DEF DaemonExits
  <2> QED BY <1>8, <2>1 DEF DaemonExits
<1>9. ASSUME NEW p \in alive, DaemonDies(p) PROVE DaemonInv'
  BY <1>9 DEF DaemonDies
<1>10. CASE UNCHANGED daemonVars
  BY <1>10 DEF daemonVars
<1> QED BY <1>1, <1>2, <1>3, <1>4, <1>5, <1>6, <1>7, <1>8, <1>9, <1>10 DEF DaemonNext

\* FileNamesDaemon, for any number of daemons and of tries: between two commands the pid
\* file names the daemon that runs, and a stop that reports success left nothing.
THEOREM DaemonFileNamesDaemon == DaemonSpec => []FileNamesDaemon
<1>1. DaemonInit => DaemonInv
  BY DEF DaemonInit, DaemonInv, DaemonTypeOK, OneStarts, FileOrWait, StoppedIsGone, Running,
         PidInFile, NoFile
<1>2. DaemonInv => FileNamesDaemon
  BY DEF DaemonInv, FileOrWait, StoppedIsGone, Running, FileNamesDaemon
<1> QED BY <1>1, <1>2, DaemonStep, PTL DEF DaemonSpec

-----------------------------------------------------------------------------
(* Arithmetic.                                                              *)

\* Products grow with their factors.
LEMMA Times == ASSUME NEW a \in Int, NEW b \in Int, NEW c \in Nat, a <= b
               PROVE  a * c <= b * c
OBVIOUS

LEMMA Product == ASSUME NEW a \in Nat, NEW b \in Nat PROVE a * b \in Nat
OBVIOUS

\* What \div and % return.
LEMMA Divided ==
    ASSUME NEW a \in Nat, NEW b \in Nat \ {0}
    PROVE  /\ a \div b \in Nat /\ a % b \in 0 .. b - 1
           /\ a = (a \div b) * b + (a % b)
<1>1. a \div b \in Nat
  OBVIOUS
<1>2. a % b \in 0 .. b - 1
  OBVIOUS
<1>3. a = (a \div b) * b + (a % b)
  OBVIOUS
<1> QED BY <1>1, <1>2, <1>3

LEMMA Quotient ==
    ASSUME NEW b \in Nat \ {0}, NEW q \in Nat, NEW r \in 0 .. b - 1
    PROVE  (q * b + r) \div b = q /\ (q * b + r) % b = r
<1> DEFINE a == q * b + r
           p == a \div b
           s == a % b
<1>1. a \in Nat
  BY Product
<1>2. p \in Nat /\ s \in 0 .. b - 1 /\ a = p * b + s
  BY <1>1, Divided
<1>3. q * b + r = p * b + s
  BY <1>2
<1> HIDE DEF p, s
<1>4. ASSUME p < q PROVE FALSE
  <2>1. (p + 1) * b <= q * b /\ (p + 1) * b = p * b + b
    BY <1>2, <1>4, Times
  <2> QED BY <1>2, <1>3, <2>1, Product
<1>5. ASSUME q < p PROVE FALSE
  <2>1. (q + 1) * b <= p * b /\ (q + 1) * b = q * b + b
    BY <1>2, <1>5, Times
  <2> QED BY <1>2, <1>3, <2>1, Product
<1>6. p = q
  BY <1>2, <1>4, <1>5
<1>7. s = r
  BY <1>2, <1>3, <1>6, Product
<1> QED BY <1>6, <1>7 DEF p, s

\* A quotient lies between bounds that are multiples of the divisor.
LEMMA Between ==
    ASSUME NEW b \in Nat \ {0}, NEW m \in Nat, NEW q \in Nat
    PROVE  /\ q * b <= m => q <= m \div b
           /\ m < q * b => m \div b < q
<1> DEFINE p == m \div b
           s == m % b
<1>1. p \in Nat /\ s \in 0 .. b - 1 /\ m = p * b + s
  BY Divided
<1> HIDE DEF p, s
<1>2. ASSUME q * b <= m, p < q PROVE FALSE
  <2>1. (p + 1) * b <= q * b /\ (p + 1) * b = p * b + b
    BY <1>1, <1>2, Times
  <2> QED BY <1>1, <1>2, <2>1, Product
<1>3. ASSUME m < q * b, q <= p PROVE FALSE
  <2>1. q * b <= p * b
    BY <1>1, <1>3, Times
  <2> QED BY <1>1, <1>3, <2>1, Product
<1> QED BY <1>1, <1>2, <1>3 DEF p

-----------------------------------------------------------------------------
(* Logger: the file that a line goes to while threads rotate it.            *)

LogPlaces == {"out", "check", "store", "exchange", "test", "rename", "open", "dup", "write"}
LogTimes == 0 .. MaxLogTime

\* Files are numbered from 1; no time is later than the clock.
LoggerTypeOK == /\ lgClock \in LogTimes /\ lastRotate \in 0 .. lgClock
                /\ realRotate \in 0 .. lgClock /\ late \in BOOLEAN
                /\ lgPc \in [LogThreads -> LogPlaces]
                /\ lgNow \in [LogThreads -> 0 .. lgClock]
                /\ lgOld \in [LogThreads -> 0 .. lgClock]
                /\ names \in [0 .. MaxLogTime + 1 -> Nat] /\ newFd \in [LogThreads -> Nat]
                /\ fd \in Nat /\ files \in Nat \ {0} /\ lines \in Seq(Nat)

\* A file that has a name.
HasName(f) == f # 0 /\ \E n \in 0 .. MaxLogTime + 1 : names[n] = f

\* No file has a name of period p.
PeriodFree(p) == \A x \in LogTimes : Period(x) = p => names[MinuteName(x)] = 0

\* What a thread has stored in lastRotate_ stays of the period, while it is not over.
TimeIsFresh == \A t \in LogThreads :
                   lgPc[t] \in {"exchange", "test"} /\ Period(lgNow[t]) = Period(lgClock)
                       => Period(lastRotate) = Period(lgClock)

\* A thread that is to rename or will find that it is.
Chosen(t) == lgPc[t] = "rename" \/ (lgPc[t] = "test" /\ Period(lgOld[t]) # Period(lgNow[t]))

\* Such a thread has a period of its own, and nobody has used a name of it.
OwnName == \A t \in LogThreads : Chosen(t) =>
               /\ Period(lgNow[t]) <= Period(realRotate) /\ PeriodFree(Period(lgNow[t]))
               /\ \A u \in LogThreads \ {t} : Chosen(u) => Period(lgNow[u]) # Period(lgNow[t])

\* The names of periods that nobody rotates for are not used.
LaterNamesFree == \A x \in LogTimes : Period(x) > Period(realRotate) => names[MinuteName(x)] = 0

\* What was written to and what is or will be written to has a name.
WrittenHasName == /\ HasName(fd)
                  /\ \A i \in DOMAIN lines : HasName(lines[i])
                  /\ \A t \in LogThreads : lgPc[t] = "dup" => HasName(newFd[t])

LogParts == TimeIsFresh /\ OwnName /\ LaterNamesFree /\ WrittenHasName
LoggerInv == LoggerTypeOK /\ (WholeMinutes /\ ~late => LogParts)

\* Periods are numbers and follow each other as times do; minutes have names in the
\* directory, and when periods are whole minutes a minute is in one period.
LEMMA PeriodOrder ==
    /\ \A x \in Nat : Period(x) \in Nat
    /\ \A x, y \in Nat : x <= y => Period(x) <= Period(y)
    /\ \A x \in LogTimes : MinuteName(x) \in 1 .. MaxLogTime + 1
<1>1. ASSUME NEW n \in Nat \ {0}, NEW x \in Nat, NEW y \in Nat, x <= y PROVE x \div n <= y \div n
  <2> DEFINE q == x \div n
  <2>1. q \in Nat /\ x % n \in Nat /\ x = q * n + (x % n)
    BY Divided
  <2>2. q * n \in Nat
    BY <2>1, Product
  <2> HIDE DEF q
  <2>3. q * n <= y
    BY <1>1, <2>1, <2>2
  <2>4. q <= y \div n
    BY <2>1, <2>3, Between
  <2> QED BY <2>4 DEF q
<1>2. ASSUME NEW n \in Nat \ {0}, NEW x \in Nat PROVE x \div n \in 0 .. x
  <2> DEFINE q == x \div n
  <2>1. q \in Nat /\ x % n \in Nat /\ x = q * n + (x % n)
    BY Divided
  <2>2. q * 1 <= q * n
    BY <2>1
  <2>3. q * n \in Nat
    BY <2>1, Product
  <2> HIDE DEF q
  <2>4. q <= x
    BY <2>1, <2>2, <2>3
  <2> QED BY <2>1, <2>4 DEF q
<1>3. \A x \in Nat : Period(x) \in Nat
  BY <1>2, LoggerAssumption DEF Period
<1>4. \A x, y \in Nat : x <= y => Period(x) <= Period(y)
  BY <1>1, LoggerAssumption DEF Period
<1>5. ASSUME NEW x \in LogTimes PROVE MinuteName(x) \in 1 .. MaxLogTime + 1
  <2>1. x \div LogMinute \in 0 .. x /\ x \in 0 .. MaxLogTime
    BY <1>2, LoggerAssumption DEF LogTimes
  <2> DEFINE q == x \div LogMinute
  <2> HIDE DEF q
  <2>2. q \in 0 .. x
    BY <2>1 DEF q
  <2>3. 1 + q \in 1 .. MaxLogTime + 1
    BY <2>1, <2>2, LoggerAssumption
  <2> QED BY <2>3 DEF q, MinuteName
<1> QED BY <1>3, <1>4, <1>5

LEMMA MinutePeriod ==
    ASSUME WholeMinutes, NEW x \in LogTimes, NEW y \in LogTimes, MinuteName(x) = MinuteName(y)
    PROVE  Period(x) = Period(y)
<1> DEFINE k == Interval \div LogMinute
<1>1. k \in Nat /\ Interval = k * LogMinute
  <2>1. Interval = k * LogMinute + (Interval % LogMinute) /\ k \in Nat
    BY Divided, LoggerAssumption
  <2>2. k * LogMinute \in Nat
    BY <2>1, Product, LoggerAssumption
  <2> HIDE DEF k
  <2> QED BY <2>1, <2>2 DEF WholeMinutes
<1> HIDE DEF k
<1>2. ASSUME NEW a \in Nat, NEW b \in Nat, a \div LogMinute = b \div LogMinute
      PROVE  Period(a) <= Period(b)
  <2> DEFINE q == a \div Interval
             m == b \div LogMinute
  <2>1. q \in Nat /\ a % Interval \in Nat /\ a = q * Interval + (a % Interval)
    BY Divided, LoggerAssumption
  <2>2. m \in Nat /\ b % LogMinute \in Nat /\ b = m * LogMinute + (b % LogMinute)
    BY Divided, LoggerAssumption
  <2> HIDE DEF q
  <2>3. q * Interval \in Nat /\ m * LogMinute \in Nat /\ q * k \in Nat
    BY <1>1, <2>1, <2>2, Product, LoggerAssumption
  <2>4. q * Interval <= a
    BY <2>1, <2>3
  <2>5. q * Interval = (q * k) * LogMinute
    BY <1>1, <2>1, LoggerAssumption
  <2>6. q * k <= a \div LogMinute
    BY <2>3, <2>4, <2>5, Between, LoggerAssumption
  <2>7. q * k <= m
    BY <1>2, <2>6
  <2> HIDE DEF m
  <2>8. (q * k) * LogMinute <= m * LogMinute
    BY <2>2, <2>3, <2>7, Times, LoggerAssumption
  <2>9. q * Interval <= b
    BY <2>2, <2>3, <2>5, <2>8
  <2>10. q <= b \div Interval
    BY <2>1, <2>9, Between, LoggerAssumption
  <2> QED BY <2>10 DEF q, Period
<1>3. x \in Nat /\ y \in Nat /\ x \div LogMinute = y \div LogMinute
  <2>1. x \in Nat /\ y \in Nat
    BY LoggerAssumption DEF LogTimes
  <2>2. x \div LogMinute \in Nat /\ y \div LogMinute \in Nat /\ 1 + x \div LogMinute = 1 + y \div LogMinute
    BY <2>1, Divided, LoggerAssumption DEF MinuteName
  <2> QED BY <2>1, <2>2
<1>4. Period(x) <= Period(y) /\ Period(y) <= Period(x)
  BY <1>2, <1>3
<1> QED BY <1>3, <1>4, PeriodOrder

\* The conjunct that speaks of files follows when no file loses its name and no
\* descriptor moves.
LEMMA NamesKept ==
    ASSUME LoggerTypeOK, WrittenHasName, UNCHANGED <<fd, lines>>,
           \A f \in Nat : HasName(f) => HasName(f)',
           \A t \in LogThreads : lgPc'[t] = "dup" => HasName(newFd[t])' \/
                                                     (lgPc[t] = "dup" /\ newFd'[t] = newFd[t])
    PROVE  WrittenHasName'
<1> USE DEF LoggerTypeOK, WrittenHasName
<1>1. HasName(fd)'
  BY DEF HasName
<1>2. \A i \in DOMAIN lines' : HasName(lines[i])'
  BY DEF HasName
<1>3. \A t \in LogThreads : lgPc'[t] = "dup" => HasName(newFd[t])'
  BY DEF HasName
<1> QED BY <1>1, <1>2, <1>3

\* Steps that leave the files and the choice alone.
LEMMA ChoiceKept ==
    ASSUME LoggerTypeOK, LoggerTypeOK', OwnName, LaterNamesFree,
           names' = names, realRotate' = realRotate,
           \A t \in LogThreads : Chosen(t)' => Chosen(t) /\ lgNow'[t] = lgNow[t]
    PROVE  OwnName' /\ LaterNamesFree'
<1>1. LaterNamesFree'
  BY DEF LaterNamesFree
<1>2. \A p : PeriodFree(p) => PeriodFree(p)'
  BY Zenon DEF PeriodFree
<1>3. OwnName'
  BY <1>2, Zenon DEF OwnName
<1> QED BY <1>1, <1>3

LEMMA LoggerTypeStep == LoggerTypeOK /\ [LoggerNext]_loggerVars => LoggerTypeOK'
<1> SUFFICES ASSUME LoggerTypeOK, [LoggerNext]_loggerVars PROVE LoggerTypeOK'
  OBVIOUS
<1> USE LoggerAssumption DEF LoggerTypeOK, LogPlaces, LogTimes, Goto, rotateVars, fileVars, Choosing
<1>1. CASE LogTick
  BY <1>1 DEF LogTick
<1>2. ASSUME NEW t \in LogThreads, ReadTime(t) PROVE LoggerTypeOK'
  BY <1>2 DEF ReadTime
<1>3. ASSUME NEW t \in LogThreads, CheckLast(t) PROVE LoggerTypeOK'
  BY <1>3 DEF CheckLast
<1>4. ASSUME NEW t \in LogThreads, StoreLast(t) PROVE LoggerTypeOK'
  BY <1>4 DEF StoreLast
<1>5. ASSUME NEW t \in LogThreads, Exchange(t) PROVE LoggerTypeOK'
  BY <1>5 DEF Exchange
<1>6. ASSUME NEW t \in LogThreads, TestOld(t) PROVE LoggerTypeOK'
  BY <1>6 DEF TestOld
<1>7. ASSUME NEW t \in LogThreads, Rename(t) PROVE LoggerTypeOK'
  <2>1. names' \in [0 .. MaxLogTime + 1 -> Nat]
    <3> DEFINE n == MinuteName(lgNow[t])
    <3>1. names \in [0 .. MaxLogTime + 1 -> Nat] /\ names[0] \in Nat
      OBVIOUS
    <3>2. names' = names \/ names' = [names EXCEPT ![n] = names[0], ![0] = 0]
      BY <1>7 DEF Rename, Current
    <3> HIDE DEF n
    <3> QED BY ONLY <3>1, <3>2
  <2> QED BY <1>7, <2>1 DEF Rename
<1>8. ASSUME NEW t \in LogThreads, OpenNew(t) PROVE LoggerTypeOK'
  <2>1. UNCHANGED <<lgClock, lastRotate, realRotate, lgNow, lgOld, late, fd, lines>>
    BY <1>8 DEF OpenNew
  <2>2. lgPc' \in [LogThreads -> LogPlaces]
    BY <1>8 DEF OpenNew
  <2>3. newFd' \in [LogThreads -> Nat] /\ files' \in Nat \ {0}
    BY <1>8 DEF OpenNew, Current
  <2>4. names' \in [0 .. MaxLogTime + 1 -> Nat]
    <3>1. names' = names \/ names' = [names EXCEPT ![0] = files + 1]
      BY <1>8 DEF OpenNew, Current
    <3>2. names \in [0 .. MaxLogTime + 1 -> Nat] /\ files + 1 \in Nat
      OBVIOUS
    <3> QED BY ONLY <3>1, <3>2
  <2> QED BY <2>1, <2>2, <2>3, <2>4
<1>9. ASSUME NEW t \in LogThreads, Dup2(t) PROVE LoggerTypeOK'
  BY <1>9 DEF Dup2
<1>10. ASSUME NEW t \in LogThreads, Write(t) PROVE LoggerTypeOK'
  BY <1>10 DEF Write
<1>11. CASE UNCHANGED loggerVars
  BY <1>11 DEF loggerVars
<1> QED BY <1>1, <1>2, <1>3, <1>4, <1>5, <1>6, <1>7, <1>8, <1>9, <1>10, <1>11 DEF LoggerNext

\* Every step of a thread in logv, and the clock, preserves the invariant.
LEMMA LoggerStep == LoggerInv /\ [LoggerNext]_loggerVars => LoggerInv'
<1> SUFFICES ASSUME LoggerInv, [LoggerNext]_loggerVars PROVE LoggerInv'
  OBVIOUS
<1>1. LoggerTypeOK /\ LoggerTypeOK'
  BY LoggerTypeStep DEF LoggerInv
<1>2. late => late'
  BY DEF LoggerNext, LogTick, ReadTime, CheckLast, StoreLast, Exchange, TestOld, Rename, OpenNew, Dup2,
         Write, loggerVars, rotateVars, Choosing
<1> SUFFICES ASSUME WholeMinutes, ~late, ~late', LogParts PROVE LogParts'
  BY <1>1, <1>2 DEF LoggerInv, WholeMinutes
<1>4. /\ lgClock \in Nat /\ lgClock' \in Nat /\ Period(lgClock) \in Nat /\ Period(lgClock') \in Nat
      /\ \A t \in LogThreads : /\ lgNow[t] \in LogTimes /\ lgNow[t] \in Nat /\ lgNow[t] <= lgClock
                               /\ Period(lgNow[t]) \in Nat /\ Period(lgNow[t]) <= Period(lgClock)
      /\ realRotate \in Nat /\ Period(realRotate) \in Nat /\ Period(realRotate) <= Period(lgClock)
      /\ lastRotate \in Nat /\ Period(lastRotate) \in Nat /\ Period(lastRotate) <= Period(lgClock)
  <2>1. /\ lgClock \in Nat /\ lgClock' \in Nat /\ realRotate \in Nat /\ realRotate <= lgClock
        /\ lastRotate \in Nat /\ lastRotate <= lgClock
        /\ \A t \in LogThreads : lgNow[t] \in LogTimes /\ lgNow[t] \in Nat /\ lgNow[t] <= lgClock
    <3>1. lgClock \in Nat /\ lgClock <= MaxLogTime /\ lgClock' \in Nat
      BY <1>1, LoggerAssumption DEF LoggerTypeOK, LogTimes
    <3>2. realRotate \in Nat /\ realRotate <= lgClock /\ lastRotate \in Nat /\ lastRotate <= lgClock
      BY <1>1, <3>1 DEF LoggerTypeOK
    <3>3. \A x \in 0 .. lgClock : x \in Nat /\ x <= lgClock /\ x \in 0 .. MaxLogTime
      BY <3>1, LoggerAssumption
    <3>4. \A t \in LogThreads : lgNow[t] \in 0 .. lgClock
      BY <1>1 DEF LoggerTypeOK
    <3> QED BY <3>1, <3>2, <3>3, <3>4, Zenon DEF LogTimes
  <2> QED BY <2>1, PeriodOrder
<1> USE DEF LogParts
<1>5. CASE LogTick
  <2>1. UNCHANGED <<lgPc, lastRotate, realRotate, lgNow, lgOld, late, names, fd, newFd, files, lines>>
        /\ lgClock' = lgClock + 1
    BY <1>5 DEF LogTick, rotateVars, fileVars
  <2>2. TimeIsFresh'
    <3>1. Period(lgClock) <= Period(lgClock')
      BY <1>4, <2>1, PeriodOrder
    <3>2. SUFFICES ASSUME NEW t \in LogThreads, lgPc[t] \in {"exchange", "test"},
                          Period(lgNow[t]) = Period(lgClock')
                   PROVE  Period(lastRotate) = Period(lgClock')
      BY <2>1, Zenon DEF TimeIsFresh
    <3>3. Period(lgClock') = Period(lgClock)
      BY <1>4, <3>1, <3>2
    <3> QED BY <3>2, <3>3, Zenon DEF TimeIsFresh
  <2>3. OwnName' /\ LaterNamesFree'
    BY <1>1, <2>1, ChoiceKept DEF Chosen
  <2>4. WrittenHasName'
    BY <2>1 DEF WrittenHasName, HasName
  <2> QED BY <2>2, <2>3, <2>4
<1>6. ASSUME NEW t \in LogThreads, ReadTime(t) PROVE LogParts'
  <2>1. /\ UNCHANGED <<lgClock, lastRotate, realRotate, lgOld, late, names, fd, newFd, files, lines>>
        /\ lgNow' = [lgNow EXCEPT ![t] = lgClock] /\ lgPc' = [lgPc EXCEPT ![t] = "check"]
    BY <1>6 DEF ReadTime, fileVars, Goto
  <2>2. \A u \in LogThreads : /\ u = t => lgPc'[u] = "check"
                              /\ u # t => lgPc'[u] = lgPc[u] /\ lgNow'[u] = lgNow[u]
    BY <1>1, <2>1 DEF LoggerTypeOK
  <2>3. TimeIsFresh'
    BY <2>1, <2>2 DEF TimeIsFresh
  <2>4. OwnName' /\ LaterNamesFree'
    BY <1>1, <2>1, <2>2, ChoiceKept DEF Chosen
  <2>5. WrittenHasName'
    BY <2>1, <2>2 DEF WrittenHasName, HasName
  <2> QED BY <2>3, <2>4, <2>5
<1>7. ASSUME NEW t \in LogThreads, CheckLast(t) PROVE LogParts'
  <2>1. UNCHANGED <<lgClock, lastRotate, realRotate, lgNow, lgOld, late, names, fd, newFd, files, lines>>
    BY <1>7 DEF CheckLast, rotateVars, fileVars
  <2>2. \A u \in LogThreads : /\ u = t => lgPc'[u] \in {"write", "store"}
                              /\ u # t => lgPc'[u] = lgPc[u]
    BY <1>1, <1>7 DEF CheckLast, LoggerTypeOK, Goto
  <2>3. TimeIsFresh'
    BY <2>1, <2>2 DEF TimeIsFresh
  <2>4. OwnName' /\ LaterNamesFree'
    BY <1>1, <2>1, <2>2, ChoiceKept DEF Chosen
  <2>5. WrittenHasName'
    BY <2>1, <2>2 DEF WrittenHasName, HasName
  <2> QED BY <2>3, <2>4, <2>5
<1>8. ASSUME NEW t \in LogThreads, StoreLast(t) PROVE LogParts'
  <2>1. /\ UNCHANGED <<lgClock, realRotate, lgNow, lgOld, names, fd, newFd, files, lines>>
        /\ Period(lgNow[t]) = Period(lgClock) /\ lastRotate' = lgNow[t]
    BY <1>8 DEF StoreLast, fileVars, Choosing
  <2>2. \A u \in LogThreads : /\ u = t => lgPc'[u] = "exchange"
                              /\ u # t => lgPc'[u] = lgPc[u]
    BY <1>1, <1>8 DEF StoreLast, LoggerTypeOK, Goto
  <2>3. TimeIsFresh'
    BY <2>1 DEF TimeIsFresh
  <2>4. OwnName' /\ LaterNamesFree'
    BY <1>1, <2>1, <2>2, ChoiceKept DEF Chosen
  <2>5. WrittenHasName'
    BY <2>1, <2>2 DEF WrittenHasName, HasName
  <2> QED BY <2>3, <2>4, <2>5
<1>9. ASSUME NEW t \in LogThreads, Exchange(t) PROVE LogParts'
  <2>1. /\ UNCHANGED <<lgClock, lastRotate, lgNow, names, fd, newFd, files, lines>>
        /\ Period(lgNow[t]) = Period(lgClock) /\ realRotate' = lgNow[t]
        /\ Period(lastRotate) = Period(lgClock)
    BY <1>9 DEF Exchange, fileVars, Choosing, TimeIsFresh
  <2>2. \A u \in LogThreads : /\ u = t => lgPc'[u] = "test" /\ lgOld'[u] = realRotate
                              /\ u # t => lgPc'[u] = lgPc[u] /\ lgOld'[u] = lgOld[u]
    BY <1>1, <1>9 DEF Exchange, LoggerTypeOK, Goto
  <2>3. TimeIsFresh'
    BY <2>1, <2>2 DEF TimeIsFresh
  <2>4. Period(realRotate') = Period(lgClock)
    BY <2>1, Zenon
  <2>5. LaterNamesFree'
    <3>1. SUFFICES ASSUME NEW x \in LogTimes, Period(x) > Period(realRotate') PROVE names[MinuteName(x)] = 0
      BY <2>1, Zenon DEF LaterNamesFree
    <3>2. Period(x) \in Nat
      BY PeriodOrder, LoggerAssumption DEF LogTimes
    <3>3. Period(x) > Period(realRotate)
      BY <1>4, <2>4, <3>1, <3>2
    <3> QED BY <3>3, Zenon DEF LaterNamesFree
  <2>6. \A u \in LogThreads \ {t} : Chosen(u)' <=> Chosen(u)
    BY <2>1, <2>2, Zenon DEF Chosen
  <2>7. \A p : PeriodFree(p)' <=> PeriodFree(p)
    BY <2>1, Zenon DEF PeriodFree
  <2>8. Chosen(t)' <=> Period(realRotate) # Period(lgClock)
    <3>1. lgPc'[t] = "test" /\ lgOld'[t] = realRotate /\ lgNow'[t] = lgNow[t]
      BY <2>1, <2>2
    <3> QED BY <2>1, <3>1 DEF Chosen
  <2>9. ASSUME Period(realRotate) # Period(lgClock)
        PROVE  /\ PeriodFree(Period(lgClock))
               /\ \A u \in LogThreads : Chosen(u) => Period(lgNow[u]) # Period(lgClock)
    <3>1. Period(realRotate) < Period(lgClock)
      BY <1>4, <2>9
    <3>2. PeriodFree(Period(lgClock))
      BY <3>1 DEF PeriodFree, LaterNamesFree
    <3>3. ASSUME NEW u \in LogThreads, Chosen(u) PROVE Period(lgNow[u]) # Period(lgClock)
      <4>1. Period(lgNow[u]) <= Period(realRotate)
        BY <3>3, Zenon DEF OwnName
      <4> QED BY <1>4, <3>1, <4>1
    <3> QED BY <3>2, <3>3
  <2>10. OwnName'
    <3>1. SUFFICES ASSUME NEW u \in LogThreads, Chosen(u)'
                   PROVE  /\ Period(lgNow[u]) <= Period(realRotate') /\ PeriodFree(Period(lgNow[u]))
                          /\ \A v \in LogThreads \ {u} : Chosen(v)' => Period(lgNow[v]) # Period(lgNow[u])
      BY <2>1, <2>7, Zenon DEF OwnName
    <3>2. Period(lgNow[u]) <= Period(realRotate')
      BY <1>4, <2>4
    <3>3. CASE u = t
      BY <2>1, <2>6, <2>8, <2>9, <3>1, <3>2, <3>3, Zenon
    <3>4. CASE u # t
      <4>1. Chosen(u) /\ PeriodFree(Period(lgNow[u]))
            /\ \A v \in LogThreads \ {u} : Chosen(v) => Period(lgNow[v]) # Period(lgNow[u])
        BY <2>6, <3>1, <3>4, Zenon DEF OwnName
      <4>2. Chosen(t)' => Period(lgNow[t]) # Period(lgNow[u])
        BY <2>1, <2>8, <2>9, <4>1, Zenon
      <4> QED BY <2>6, <3>2, <4>1, <4>2, Zenon
    <3> QED BY <3>3, <3>4
  <2>11. WrittenHasName'
    BY <2>1, <2>2 DEF WrittenHasName, HasName
  <2> QED BY <2>3, <2>5, <2>10, <2>11
<1>10. ASSUME NEW t \in LogThreads, TestOld(t) PROVE LogParts'
  <2>1. /\ UNCHANGED <<lgClock, lastRotate, realRotate, lgNow, lgOld, names, fd, newFd, files, lines>>
        /\ Period(lgNow[t]) = Period(lgClock) /\ Period(lastRotate) = Period(lgClock)
        /\ lgPc[t] = "test"
    BY <1>10 DEF TestOld, fileVars, Choosing, TimeIsFresh
  <2>2. \A u \in LogThreads :
            /\ u = t => lgPc'[u] = IF Period(lgOld[t]) = Period(lastRotate) THEN "write" ELSE "rename"
            /\ u # t => lgPc'[u] = lgPc[u]
    BY <1>1, <1>10 DEF TestOld, LoggerTypeOK, Goto
  <2>3. TimeIsFresh'
    BY <2>1, <2>2 DEF TimeIsFresh
  <2>4. Chosen(t)' => Chosen(t)
    <3>1. Period(lastRotate) = Period(lgNow[t])
      BY <2>1, Zenon
    <3> QED BY <2>1, <2>2, <3>1 DEF Chosen
  <2>5. OwnName' /\ LaterNamesFree'
    <3>1. \A u \in LogThreads : u # t => (Chosen(u)' => Chosen(u))
      BY <2>1, <2>2, Zenon DEF Chosen
    <3> QED BY <1>1, <2>1, <2>4, <3>1, ChoiceKept
  <2>6. WrittenHasName'
    BY <2>1, <2>2 DEF WrittenHasName, HasName
  <2> QED BY <2>3, <2>5, <2>6
<1>11. ASSUME NEW t \in LogThreads, Rename(t) PROVE LogParts'
  <2>1. UNCHANGED <<lgClock, lastRotate, realRotate, lgNow, lgOld, fd, newFd, files, lines>>
        /\ lgPc[t] = "rename"
    BY <1>11 DEF Rename, rotateVars
  <2>2. \A u \in LogThreads : /\ u = t => lgPc'[u] \in {"write", "open"}
                              /\ u # t => lgPc'[u] = lgPc[u]
    BY <1>1, <1>11 DEF Rename, LoggerTypeOK, Goto
  <2>3. TimeIsFresh'
    BY <2>1, <2>2 DEF TimeIsFresh
  <2>4. CASE names[Current] = 0
    <3>1. names' = names
      BY <1>11, <2>4 DEF Rename
    <3>2. OwnName' /\ LaterNamesFree'
      BY <1>1, <2>1, <2>2, <3>1, ChoiceKept DEF Chosen
    <3>3. WrittenHasName'
      BY <2>1, <2>2, <3>1 DEF WrittenHasName, HasName
    <3> QED BY <2>3, <3>2, <3>3
  <2>5. CASE names[Current] # 0
    <3> DEFINE n == MinuteName(lgNow[t])
    <3>1. names' = [names EXCEPT ![n] = names[0], ![0] = 0]
      BY <1>11, <2>5 DEF Rename, Current
    <3>2. Chosen(t) /\ n \in 1 .. MaxLogTime + 1
      BY <1>4, <2>1, PeriodOrder DEF Chosen
    <3>3. names[n] = 0
      BY <1>4, <3>2, Zenon DEF OwnName, PeriodFree
    <3>4. ASSUME NEW x \in LogTimes, Period(x) # Period(lgNow[t]), names[MinuteName(x)] = 0
          PROVE  names'[MinuteName(x)] = 0
      <4>1. MinuteName(x) # n
        BY <1>4, <3>4, MinutePeriod
      <4>2. MinuteName(x) \in 1 .. MaxLogTime + 1
        BY PeriodOrder
      <4> DEFINE m == MinuteName(x)
      <4> HIDE DEF m, n
      <4>3. m # n /\ m \in 1 .. MaxLogTime + 1 /\ names[m] = 0
        BY <3>4, <4>1, <4>2 DEF m, n
      <4>4. names'[m] = 0
        BY <1>1, <3>1, <4>3 DEF LoggerTypeOK
      <4> QED BY <4>4 DEF m
    <3>5. LaterNamesFree'
      <4>1. SUFFICES ASSUME NEW x \in LogTimes, Period(x) > Period(realRotate)
                     PROVE  names'[MinuteName(x)] = 0
        BY <2>1, Zenon DEF LaterNamesFree
      <4>2. Period(x) \in Nat
        BY PeriodOrder, LoggerAssumption DEF LogTimes
      <4>3. Period(lgNow[t]) <= Period(realRotate)
        BY <3>2, Zenon DEF OwnName
      <4>4. Period(x) # Period(lgNow[t])
        BY <1>4, <4>1, <4>2, <4>3
      <4>5. names[MinuteName(x)] = 0
        BY <4>1, Zenon DEF LaterNamesFree
      <4> QED BY <3>4, <4>4, <4>5
    <3>6. OwnName'
      <4>1. ~Chosen(t)' /\ \A u \in LogThreads \ {t} : Chosen(u)' => Chosen(u)
        BY <2>1, <2>2 DEF Chosen
      <4>2. ASSUME NEW u \in LogThreads \ {t}, Chosen(u) PROVE PeriodFree(Period(lgNow[u]))'
        <5>1. Period(lgNow[t]) # Period(lgNow[u]) /\ PeriodFree(Period(lgNow[u]))
          BY <3>2, <4>2, Zenon DEF OwnName
        <5>2. ASSUME NEW x \in LogTimes, Period(x) = Period(lgNow[u]) PROVE names'[MinuteName(x)] = 0
          <6>1. names[MinuteName(x)] = 0 /\ Period(x) # Period(lgNow[t])
            BY <5>1, <5>2, Zenon DEF PeriodFree
          <6> QED BY <3>4, <6>1
        <5> QED BY <2>1, <5>2, Zenon DEF PeriodFree
      <4> QED BY <2>1, <4>1, <4>2, Zenon DEF OwnName
    <3>7. \A f \in Nat : HasName(f) => HasName(f)'
      <4> SUFFICES ASSUME NEW f \in Nat, f # 0, NEW m \in 0 .. MaxLogTime + 1, names[m] = f
                   PROVE  \E k \in 0 .. MaxLogTime + 1 : names'[k] = f
        BY DEF HasName
      <4> HIDE DEF n
      <4>1. n \in 0 .. MaxLogTime + 1 /\ n # 0
        BY <3>2
      <4>2. CASE m = 0
        BY <1>1, <3>1, <3>2, <4>1, <4>2 DEF LoggerTypeOK
      <4>3. CASE m # 0
        BY <1>1, <3>1, <3>3, <4>1, <4>3 DEF LoggerTypeOK
      <4> QED BY <4>2, <4>3
    <3>8. WrittenHasName'
      BY <1>1, <2>1, <2>2, <3>7, NamesKept
    <3> QED BY <2>3, <3>5, <3>6, <3>8
  <2> QED BY <2>4, <2>5
<1>12. ASSUME NEW t \in LogThreads, OpenNew(t) PROVE LogParts'
  <2>1. UNCHANGED <<lgClock, lastRotate, realRotate, lgNow, lgOld, fd, lines>>
    BY <1>12 DEF OpenNew, rotateVars
  <2>2. \A u \in LogThreads : /\ u = t => lgPc'[u] \in {"write", "dup"}
                              /\ u # t => lgPc'[u] = lgPc[u] /\ newFd'[u] = newFd[u]
    BY <1>1, <1>12 DEF OpenNew, LoggerTypeOK, Goto
  <2>3. TimeIsFresh'
    BY <2>1, <2>2 DEF TimeIsFresh
  <2>4. CASE UNCHANGED <<names, newFd>> /\ lgPc'[t] = "write"
    <3>1. OwnName' /\ LaterNamesFree'
      BY <1>1, <2>1, <2>2, <2>4, ChoiceKept DEF Chosen
    <3>2. WrittenHasName'
      BY <2>1, <2>2, <2>4 DEF WrittenHasName, HasName
    <3> QED BY <2>3, <3>1, <3>2
  <2>5. CASE names[0] = 0 /\ names' = [names EXCEPT ![0] = files + 1] /\ newFd'[t] = files + 1
    <3>1. \A n \in 1 .. MaxLogTime + 1 : names'[n] = names[n]
      BY <1>1, <2>5 DEF LoggerTypeOK
    <3>2. \A x \in LogTimes : names'[MinuteName(x)] = names[MinuteName(x)]
      BY <3>1, PeriodOrder
    <3>3. \A p : PeriodFree(p) => PeriodFree(p)'
      BY <3>2, Zenon DEF PeriodFree
    <3>4. \A u \in LogThreads : Chosen(u)' => Chosen(u)
      BY <2>1, <2>2 DEF Chosen
    <3>5. OwnName' /\ LaterNamesFree'
      BY <2>1, <3>2, <3>3, <3>4, Zenon DEF OwnName, LaterNamesFree
    <3>6. \A f \in Nat : HasName(f) => HasName(f)'
      BY <1>1, <2>5 DEF HasName, LoggerTypeOK
    <3>7. HasName(newFd[t])'
      <4>1. 0 \in 0 .. MaxLogTime + 1
        BY LoggerAssumption
      <4>2. files + 1 # 0
        BY <1>1 DEF LoggerTypeOK
      <4>3. DOMAIN names = 0 .. MaxLogTime + 1
        BY <1>1 DEF LoggerTypeOK
      <4>4. names'[0] = files + 1
        BY <2>5, <4>1, <4>3
      <4> QED BY <2>5, <4>1, <4>2, <4>4, Zenon DEF HasName
    <3>8. WrittenHasName'
      BY <1>1, <2>1, <2>2, <3>6, <3>7, NamesKept
    <3> QED BY <2>3, <3>5, <3>8
  <2>6. CASE names[0] # 0 /\ newFd'[t] = names[0] /\ names' = names
    <3>1. OwnName' /\ LaterNamesFree'
      BY <1>1, <2>1, <2>2, <2>6, ChoiceKept DEF Chosen
    <3>2. \A f \in Nat : HasName(f) => HasName(f)'
      BY <2>6 DEF HasName
    <3>3. HasName(newFd[t])'
      <4>1. 0 \in 0 .. MaxLogTime + 1
        BY LoggerAssumption
      <4> QED BY <2>6, <4>1, Zenon DEF HasName
    <3>4. WrittenHasName'
      BY <1>1, <2>1, <2>2, <3>2, <3>3, NamesKept
    <3> QED BY <2>3, <3>1, <3>4
  <2>7. \/ UNCHANGED <<names, newFd>> /\ lgPc'[t] = "write"
        \/ names[0] = 0 /\ names' = [names EXCEPT ![0] = files + 1] /\ newFd'[t] = files + 1
        \/ names[0] # 0 /\ newFd'[t] = names[0] /\ names' = names
    BY <1>1, <1>12 DEF OpenNew, Current, LoggerTypeOK, Goto
  <2> QED BY <2>4, <2>5, <2>6, <2>7
<1>13. ASSUME NEW t \in LogThreads, Dup2(t) PROVE LogParts'
  <2>1. UNCHANGED <<lgClock, lastRotate, realRotate, lgNow, lgOld, names, files, lines>>
        /\ fd' = newFd[t] /\ lgPc[t] = "dup"
    BY <1>13 DEF Dup2, rotateVars
  <2>2. \A u \in LogThreads : /\ u = t => lgPc'[u] = "write"
                              /\ u # t => lgPc'[u] = lgPc[u] /\ newFd'[u] = newFd[u]
    BY <1>1, <1>13 DEF Dup2, LoggerTypeOK, Goto
  <2>3. TimeIsFresh'
    BY <2>1, <2>2 DEF TimeIsFresh
  <2>4. OwnName' /\ LaterNamesFree'
    BY <1>1, <2>1, <2>2, ChoiceKept DEF Chosen
  <2>5. WrittenHasName'
    BY <2>1, <2>2 DEF WrittenHasName, HasName
  <2> QED BY <2>3, <2>4, <2>5
<1>14. ASSUME NEW t \in LogThreads, Write(t) PROVE LogParts'
  <2>1. UNCHANGED <<lgClock, lastRotate, realRotate, names, fd, newFd, files>> /\ lines' = Append(lines, fd)
    BY <1>14 DEF Write
  <2>2. \A u \in LogThreads : /\ u = t => lgPc'[u] = "out"
                              /\ u # t => lgPc'[u] = lgPc[u] /\ lgNow'[u] = lgNow[u] /\ lgOld'[u] = lgOld[u]
    BY <1>1, <1>14 DEF Write, LoggerTypeOK, Goto
  <2>3. TimeIsFresh'
    BY <2>1, <2>2 DEF TimeIsFresh
  <2>4. OwnName' /\ LaterNamesFree'
    BY <1>1, <2>1, <2>2, ChoiceKept DEF Chosen
  <2>5. \A i \in DOMAIN lines' : HasName(lines'[i])
    BY <1>1, <2>1 DEF WrittenHasName, LoggerTypeOK
  <2>6. WrittenHasName'
    BY <2>1, <2>2, <2>5 DEF WrittenHasName, HasName
  <2> QED BY <2>3, <2>4, <2>6
<1>15. CASE UNCHANGED loggerVars
  BY <1>15 DEF loggerVars, rotateVars, fileVars, TimeIsFresh, OwnName, Chosen, PeriodFree, LaterNamesFree,
               WrittenHasName, HasName
<1> QED BY <1>5, <1>6, <1>7, <1>8, <1>9, <1>10, <1>11, <1>12, <1>13, <1>14, <1>15 DEF LoggerNext

\* NoLineLost, for any number of threads and lines, any interval and any movement of the
\* clock: no rotation replaces the file of an earlier one, and every line written is in
\* a file that has a name, as long as no thread chooses with the time of a past period.
THEOREM LoggerNoLineLost == LoggerSpec => []NoLineLost
<1>1. LoggerInit => LoggerInv
  <2> SUFFICES ASSUME LoggerInit PROVE LoggerInv
    OBVIOUS
  <2>1. LoggerTypeOK
    <3>1. names \in [0 .. MaxLogTime + 1 -> Nat]
      BY LoggerAssumption DEF LoggerInit, Current
    <3>2. <<>> \in Seq(Nat)
      OBVIOUS
    <3> QED BY <3>1, <3>2, LoggerAssumption DEF LoggerInit, LoggerTypeOK, LogPlaces, LogTimes
  <2>2. TimeIsFresh /\ OwnName
    BY DEF LoggerInit, TimeIsFresh, OwnName, Chosen
  <2>3. LaterNamesFree
    <3>1. \A n \in 1 .. MaxLogTime + 1 : names[n] = 0
      BY LoggerAssumption DEF LoggerInit, Current
    <3> QED BY <3>1, PeriodOrder DEF LaterNamesFree
  <2>4. WrittenHasName
    BY LoggerAssumption DEF LoggerInit, Current, WrittenHasName, HasName
  <2> QED BY <2>1, <2>2, <2>3, <2>4 DEF LoggerInv, LogParts
<1>2. LoggerInv => NoLineLost
  BY DEF LoggerInv, LogParts, LoggerTypeOK, WrittenHasName, HasName, NoLineLost
<1> QED BY <1>1, <1>2, LoggerStep, PTL DEF LoggerSpec

-----------------------------------------------------------------------------
(* Conf: numbers.                                                           *)

\* Every non-empty set of numbers has a least one.
LEMMA LeastNumber ==
    ASSUME NEW T, T \subseteq Nat, T # {}
    PROVE  \E m \in T : \A k \in T : m <= k
<1> DEFINE R == OpToRel(<, Nat)
<1>1. IsWellFoundedOn(R, Nat)
  BY NatLessThanWellFounded
<1>2. R = {ss \in Nat \X Nat : ss[1] < ss[2]}
  BY DEF OpToRel
<1> HIDE DEF R
<1>3. PICK m \in T : \A k \in T : ~(<<k, m>> \in R)
  BY <1>1, WFMin, Zenon
<1>4. ASSUME NEW k \in T  PROVE m <= k
  <2>1. ~(k < m)
    BY <1>2, <1>3
  <2> QED BY <2>1
<1> QED BY <1>4

-----------------------------------------------------------------------------
(* Conf: lines.                                                             *)

\* The least number of a set, and the largest one of a bounded set.
LEMMA FirstIs ==
    ASSUME NEW T, T \subseteq Nat, T # {}
    PROVE  First_(T) \in T /\ \A q \in T : First_(T) <= q
<1>1. \E m \in T : \A k \in T : m <= k
  BY LeastNumber
<1> QED BY <1>1, Zenon DEF First_

LastOf(P) == CHOOSE j \in P : \A k \in P : k <= j

LEMMA LastIs ==
    ASSUME NEW n \in Nat, NEW T, T \subseteq 1 .. n, T # {}
    PROVE  LastOf(T) \in T /\ \A k \in T : k <= LastOf(T)
<1> DEFINE U == {n - k : k \in T}
<1>1. U \subseteq Nat /\ U # {}
  <2>1. ASSUME NEW k \in T PROVE n - k \in Nat
    <3>1. k \in 1 .. n
      OBVIOUS
    <3> QED BY <3>1
  <2>2. U # {}
    <3>1. PICK k : k \in T
      OBVIOUS
    <3>2. n - k \in U
      BY <3>1
    <3> QED BY <3>2, Zenon
  <2> QED BY <2>1, <2>2
<1>2. PICK u \in U : \A w \in U : u <= w
  <2> HIDE DEF U
  <2> QED BY <1>1, LeastNumber
<1>3. PICK m \in T : u = n - m
  BY <1>2
<1>4. ASSUME NEW k \in T PROVE k <= m
  <2>1. n - m <= n - k
    BY <1>2, <1>3
  <2>2. k \in Nat /\ m \in Nat
    OBVIOUS
  <2> QED BY <2>1, <2>2
<1>5. \E j \in T : \A k \in T : k <= j
  BY <1>4
<1> QED BY <1>5, Zenon DEF LastOf

LEMMA LastUnique ==
    ASSUME NEW n \in Nat, NEW T, T \subseteq 1 .. n, n \in T
    PROVE  LastOf(T) = n
<1>1. LastOf(T) \in T /\ n <= LastOf(T)
  BY LastIs
<1>2. LastOf(T) \in 1 .. n
  BY <1>1
<1> QED BY <1>1, <1>2

\* skipSpaces stops at the first character that is not white space.
LEMMA SkipIs ==
    ASSUME NEW ln \in Lines, NEW p \in 1 .. Len(ln) + 1
    PROVE  /\ SkipSpaces(ln, p) \in p .. Len(ln) + 1 /\ At(ln, SkipSpaces(ln, p)) # "b"
           /\ \A q \in p .. SkipSpaces(ln, p) - 1 : q \in DOMAIN ln /\ ln[q] = "b"
<1> DEFINE T == {q \in p .. Len(ln) + 1 : At(ln, q) # "b"}
           s == First_(T)
<1>1. ln \in Seq(STRING) /\ Len(ln) \in Nat /\ DOMAIN ln = 1 .. Len(ln)
  BY ConfAssumption
<1>2. Len(ln) + 1 \in T /\ T \subseteq Nat
  BY <1>1 DEF At
<1>3. s \in T /\ \A q \in T : s <= q
  <2> HIDE DEF T
  <2> QED BY <1>2, FirstIs
<1>4. SkipSpaces(ln, p) = s
  BY DEF SkipSpaces
<1>5. s \in p .. Len(ln) + 1 /\ At(ln, s) # "b"
  BY <1>3
<1>6. ASSUME NEW q \in p .. s - 1 PROVE q \in DOMAIN ln /\ ln[q] = "b"
  <2> HIDE DEF s
  <2>1. q \in Nat /\ q < s /\ q \in p .. Len(ln) + 1 /\ q \in 1 .. Len(ln)
    BY <1>1, <1>5
  <2>2. q \notin T
    <3> HIDE DEF T
    <3> QED BY <1>3, <1>5, <2>1
  <2> QED BY <1>1, <2>1, <2>2 DEF At
<1> QED BY <1>4, <1>5, <1>6

\* consumeTill fails when the character is not in the rest of the line.
LEMMA TillFails ==
    ASSUME NEW ln \in Lines, NEW p \in 1 .. Len(ln) + 1, NEW c, c # "end", c # "b",
           \A q \in 1 .. p - 1 : ln[q] # c
    PROVE  ConsumeTill(ln, p, c).err <=> ~Has(ln, c)
<1> DEFINE s == SkipSpaces(ln, p)
           T == {q \in s .. Len(ln) + 1 : At(ln, q) = c}
<1>1. Len(ln) \in Nat /\ DOMAIN ln = 1 .. Len(ln)
  BY ConfAssumption
<1>2. s \in p .. Len(ln) + 1 /\ \A q \in p .. s - 1 : ln[q] = "b"
  BY SkipIs
<1>3. ConsumeTill(ln, p, c).err <=> T = {}
  BY DEF ConsumeTill
<1> HIDE DEF s
<1>4. ASSUME NEW q \in T PROVE Has(ln, c)
  <2>1. q \in 1 .. Len(ln) /\ ln[q] = c
    BY <1>1, <1>2 DEF At
  <2> QED BY <1>1, <2>1 DEF Has
<1>5. ASSUME Has(ln, c) PROVE T # {}
  <2>1. PICK i \in 1 .. Len(ln) : ln[i] = c
    BY <1>1, <1>5 DEF Has
  <2>2. ~(i < p)
    BY <1>1, <2>1
  <2>3. ~(i < s)
    <3>1. ASSUME i < s PROVE FALSE
      <4>1. i \in p .. s - 1
        BY <1>1, <1>2, <2>2, <3>1
      <4> QED BY <1>2, <2>1, <4>1
    <3> QED BY <3>1
  <2>4. i \in s .. Len(ln) + 1 /\ At(ln, i) = c
    BY <1>1, <1>2, <2>1, <2>3 DEF At
  <2> QED BY <2>4
<1> QED BY <1>3, <1>4, <1>5

\* The four kinds of lines, by what parse looks at: the first character that is not
\* white space, and the first one.
LEMMA LineKinds ==
    ASSUME NEW ln \in Lines
    PROVE  LET p == SkipSpaces(ln, 1)
           IN  /\ p \in 1 .. Len(ln) + 1
               /\ At(ln, p) \in {";", "end"} => Blank(ln) /\ ~Heading(ln) /\ ~Indented(ln) /\ ~Plain(ln)
               /\ At(ln, p) \notin {";", "end"} => ~Blank(ln) /\ p \in 1 .. Len(ln) /\ At(ln, p) = ln[p]
<1> DEFINE p == SkipSpaces(ln, 1)
<1>1. Len(ln) \in Nat \ {0} /\ DOMAIN ln = 1 .. Len(ln) /\ \A i \in 1 .. Len(ln) : ln[i] # "end"
  <2>1. ln \in Seq(STRING) /\ ln # <<>> /\ \A i \in DOMAIN ln : ln[i] # "end"
    BY ConfAssumption
  <2> QED BY <2>1
<1>2. /\ p \in 1 .. Len(ln) + 1 /\ At(ln, p) # "b"
      /\ \A q \in 1 .. p - 1 : q \in DOMAIN ln /\ ln[q] = "b"
  <2>1. 1 \in 1 .. Len(ln) + 1
    BY <1>1
  <2> QED BY <2>1, SkipIs
<1> HIDE DEF p
<1>3. ASSUME At(ln, p) \in {";", "end"} PROVE Blank(ln)
  <2>1. SUFFICES ASSUME NEW i \in 1 .. Len(ln)
                 PROVE  ln[i] = "b" \/ \E j \in 1 .. i : ln[j] = ";" /\ \A k \in 1 .. (j - 1) : ln[k] = "b"
    BY <1>1 DEF Blank
  <2>2. CASE i \in 1 .. p - 1
    BY <1>2, <2>2
  <2>3. CASE i \notin 1 .. p - 1
    <3>1. p \in 1 .. i /\ p \in 1 .. Len(ln)
      BY <1>1, <1>2, <2>3
    <3>2. ln[p] = ";"
      <4>1. p <= Len(ln) /\ ~(p > Len(ln)) /\ ln[p] # "end"
        BY <1>1, <3>1
      <4> QED BY <1>3, <4>1, Zenon DEF At
    <3> QED BY <1>2, <3>1, <3>2
  <2> QED BY <2>2, <2>3
<1>4. ASSUME At(ln, p) \notin {";", "end"}
      PROVE  ~Blank(ln) /\ p \in 1 .. Len(ln) /\ At(ln, p) = ln[p]
  <2>1. p \in 1 .. Len(ln) /\ At(ln, p) = ln[p]
    <3>1. ~(p > Len(ln))
      BY <1>4, Zenon DEF At
    <3>2. At(ln, p) = ln[p]
      BY <3>1, Zenon DEF At
    <3> QED BY <1>1, <1>2, <3>1, <3>2
  <2>2. ASSUME Blank(ln) PROVE FALSE
    <3>1. PICK j \in 1 .. p : ln[j] = ";" /\ \A k \in 1 .. (j - 1) : ln[k] = "b"
      BY <1>1, <1>2, <2>1, <2>2 DEF Blank
    <3>2. j \in 1 .. p - 1 \/ j = p
      BY <1>2
    <3> QED BY <1>2, <1>4, <2>1, <3>1, <3>2
  <2> QED BY <2>1, <2>2
<1> QED BY <1>2, <1>3, <1>4 DEF p, Heading, Indented, Plain
-----------------------------------------------------------------------------
(* Conf: what a file means, as operators of the file.                       *)

Major(ln) == Heading(ln) \/ Plain(ln)
MajorsIn(f, i) == {j \in 1 .. (i - 1) : Major(f[j])}
OwnerIn(f, i) == IF MajorsIn(f, i) = {} THEN 0 ELSE LastOf(MajorsIn(f, i))
HeadingsIn(f, i) == {j \in 1 .. i : Heading(f[j])}
TitleOf(ln) == ConsumeTill(ln, SkipSpaces(ln, 1) + 1, "]").str
SectionIn(f, i) == IF HeadingsIn(f, i) = {} THEN <<>> ELSE TitleOf(f[LastOf(HeadingsIn(f, i))])

\* The key that parse holds after the lines before i.
KeyIn(f, i) == IF OwnerIn(f, i) = 0 \/ Heading(f[OwnerIn(f, i)]) THEN <<>>
               ELSE NameOf(f[OwnerIn(f, i)])
MalformedIn(f, i) == \/ Heading(f[i]) /\ ~Has(f[i], "]")
                     \/ Plain(f[i]) /\ ~Has(f[i], "=") /\ ~Has(f[i], ":")
                     \/ Indented(f[i]) /\ KeyIn(f, i) = <<>>
Gives(ln) == Plain(ln) \/ Indented(ln)
GivingIn(f) == {i \in DOMAIN f : Gives(f[i])}
NameIn(f, i) == NameOf(f[IF Plain(f[i]) THEN i ELSE OwnerIn(f, i)])
TargetIn(f, i) == MakeKey(SectionIn(f, i), NameIn(f, i))
TargetedIn(f, n) == {j \in GivingIn(f) : TargetIn(f, j) = n}

LEMMA ConfMeaning ==
    /\ \A i : Owner(i) = OwnerIn(file, i) /\ SectionOf(i) = SectionIn(file, i)
    /\ \A i : NameAt(i) = NameIn(file, i) /\ (Malformed(i) <=> MalformedIn(file, i))
    /\ Giving = GivingIn(file)
<1>1. \A i : Owner(i) = OwnerIn(file, i)
  BY DEF Owner, OwnerIn, MajorsIn, Major, LastOf
<1>2. \A i : SectionOf(i) = SectionIn(file, i)
  BY DEF SectionOf, SectionIn, HeadingsIn, LastOf, TitleOf
<1>3. \A i : NameAt(i) = NameIn(file, i)
  BY <1>1, Zenon DEF NameAt, NameIn
<1>4. \A i : Malformed(i) <=> MalformedIn(file, i)
  <2> TAKE i
  <2>1. KeyIn(file, i) = <<>> <=> \/ Owner(i) = 0 \/ Heading(file[Owner(i)])
                                  \/ NameOf(file[Owner(i)]) = <<>>
    BY <1>1, Zenon DEF KeyIn
  <2> QED BY <2>1, Zenon DEF Malformed, MalformedIn
<1>5. Giving = GivingIn(file)
  BY Zenon DEF Giving, GivingIn, Gives
<1> QED BY <1>1, <1>2, <1>3, <1>4, <1>5

\* The owner of a line is one of the lines before it.
LEMMA OwnerBefore ==
    ASSUME NEW f, NEW i \in Nat \ {0}, OwnerIn(f, i) # 0
    PROVE  OwnerIn(f, i) \in 1 .. i - 1
<1>1. MajorsIn(f, i) # {} /\ OwnerIn(f, i) = LastOf(MajorsIn(f, i))
  BY DEF OwnerIn
<1>2. MajorsIn(f, i) \subseteq 1 .. i - 1 /\ i - 1 \in Nat
  BY DEF MajorsIn
<1>3. LastOf(MajorsIn(f, i)) \in MajorsIn(f, i)
  BY <1>1, <1>2, LastIs
<1> QED BY <1>1, <1>2, <1>3

\* A line more changes nothing about the lines before it.
LEMMA EarlierSame ==
    ASSUME NEW f \in Seq(Lines), NEW ln \in Lines, NEW g, g = Append(f, ln), NEW i \in 1 .. Len(f) + 1
    PROVE  /\ OwnerIn(g, i) = OwnerIn(f, i) /\ KeyIn(g, i) = KeyIn(f, i)
           /\ i # Len(f) + 1 => /\ g[i] = f[i] /\ SectionIn(g, i) = SectionIn(f, i)
                                /\ (MalformedIn(g, i) <=> MalformedIn(f, i))
                                /\ KeyIn(f, i) # <<>> \/ Plain(f[i]) => TargetIn(g, i) = TargetIn(f, i)
<1>1. Len(f) \in Nat /\ \A j \in 1 .. Len(f) : g[j] = f[j]
  OBVIOUS
<1>2. MajorsIn(g, i) = MajorsIn(f, i)
  <2>1. \A j \in 1 .. i - 1 : g[j] = f[j]
    BY <1>1
  <2> QED BY <2>1, Zenon DEF MajorsIn
<1>3. OwnerIn(g, i) = OwnerIn(f, i)
  BY <1>2, Zenon DEF OwnerIn
<1>4. OwnerIn(f, i) # 0 => g[OwnerIn(f, i)] = f[OwnerIn(f, i)]
  <2>1. i \in Nat \ {0}
    BY <1>1
  <2>2. OwnerIn(f, i) # 0 => OwnerIn(f, i) \in 1 .. i - 1
    BY <2>1, OwnerBefore
  <2>3. \A o \in 1 .. i - 1 : o \in 1 .. Len(f)
    BY <1>1
  <2> QED BY <1>1, <2>2, <2>3, Zenon
<1>5. KeyIn(g, i) = KeyIn(f, i)
  BY <1>3, <1>4, Zenon DEF KeyIn
<1>6. ASSUME i # Len(f) + 1
      PROVE  /\ g[i] = f[i] /\ SectionIn(g, i) = SectionIn(f, i)
             /\ (MalformedIn(g, i) <=> MalformedIn(f, i))
             /\ KeyIn(f, i) # <<>> \/ Plain(f[i]) => TargetIn(g, i) = TargetIn(f, i)
  <2>1. i \in 1 .. Len(f) /\ i \in Nat /\ g[i] = f[i]
    BY <1>1, <1>6
  <2>2. \A j \in 1 .. i : j \in 1 .. Len(f) /\ g[j] = f[j]
    BY <1>1, <2>1
  <2>3. HeadingsIn(g, i) = HeadingsIn(f, i)
    BY <2>2, Zenon DEF HeadingsIn
  <2>4. HeadingsIn(f, i) # {} => LastOf(HeadingsIn(f, i)) \in 1 .. i
    <3>1. HeadingsIn(f, i) \subseteq 1 .. i
      BY DEF HeadingsIn
    <3>2. HeadingsIn(f, i) # {} => LastOf(HeadingsIn(f, i)) \in HeadingsIn(f, i)
      BY <2>1, <3>1, LastIs
    <3> QED BY <3>1, <3>2
  <2>5. SectionIn(g, i) = SectionIn(f, i)
    BY <2>2, <2>3, <2>4, Zenon DEF SectionIn
  <2>6. MalformedIn(g, i) <=> MalformedIn(f, i)
    BY <1>5, <2>1, Zenon DEF MalformedIn
  <2>7. ASSUME KeyIn(f, i) # <<>> \/ Plain(f[i]) PROVE NameIn(g, i) = NameIn(f, i)
    <3>1. CASE Plain(f[i])
      BY <2>1, <3>1, Zenon DEF NameIn
    <3>2. CASE ~Plain(f[i]) /\ OwnerIn(f, i) # 0
      BY <1>3, <1>4, <2>1, <3>2, Zenon DEF NameIn
    <3>3. OwnerIn(f, i) = 0 => KeyIn(f, i) = <<>>
      BY DEF KeyIn
    <3> QED BY <2>7, <3>1, <3>2, <3>3
  <2> QED BY <2>1, <2>5, <2>6, <2>7, Zenon DEF TargetIn
<1> QED BY <1>3, <1>5, <1>6

\* What the last line does to the section, the key and the lines that give a value.
LEMMA LastLine ==
    ASSUME NEW f \in Seq(Lines), NEW ln \in Lines, NEW g, g = Append(f, ln)
    PROVE  LET N == Len(f) + 1
           IN  /\ g[N] = ln /\ Len(g) = N /\ DOMAIN g = 1 .. N /\ g \in Seq(Lines)
               /\ SectionIn(g, N) = IF Heading(ln) THEN TitleOf(ln) ELSE SectionIn(f, Len(f))
               /\ KeyIn(g, N + 1) = IF Heading(ln) THEN <<>> ELSE IF Plain(ln) THEN NameOf(ln)
                                    ELSE KeyIn(f, N)
               /\ GivingIn(g) = GivingIn(f) \cup (IF Gives(ln) THEN {N} ELSE {})
               /\ MalformedIn(g, N) <=> \/ Heading(ln) /\ ~Has(ln, "]")
                                        \/ Plain(ln) /\ ~Has(ln, "=") /\ ~Has(ln, ":")
                                        \/ Indented(ln) /\ KeyIn(f, N) = <<>>
               /\ Plain(ln) => NameIn(g, N) = NameOf(ln)
               /\ ~Plain(ln) /\ KeyIn(f, N) # <<>> => NameIn(g, N) = KeyIn(f, N)
<1> DEFINE N == Len(f) + 1
<1>1. /\ Len(f) \in Nat /\ g[N] = ln /\ Len(g) = N /\ DOMAIN g = 1 .. N /\ g \in Seq(Lines)
      /\ \A j \in 1 .. Len(f) : g[j] = f[j]
  OBVIOUS
<1>2. KeyIn(g, N) = KeyIn(f, N) /\ OwnerIn(g, N) = OwnerIn(f, N)
  <2>1. N \in 1 .. Len(f) + 1
    BY <1>1
  <2> QED BY <2>1, EarlierSame
<1>3. SectionIn(g, N) = IF Heading(ln) THEN TitleOf(ln) ELSE SectionIn(f, Len(f))
  <2>1. CASE Heading(ln)
    <3>1. HeadingsIn(g, N) \subseteq 1 .. N /\ N \in HeadingsIn(g, N) /\ N \in Nat
      BY <1>1, <2>1 DEF HeadingsIn
    <3>2. LastOf(HeadingsIn(g, N)) = N
      BY <3>1, LastUnique
    <3> QED BY <1>1, <2>1, <3>1, <3>2, Zenon DEF SectionIn
  <2>2. CASE ~Heading(ln)
    <3>1. HeadingsIn(g, N) = HeadingsIn(f, Len(f))
      BY <1>1, <2>2 DEF HeadingsIn
    <3>2. HeadingsIn(f, Len(f)) # {} => LastOf(HeadingsIn(f, Len(f))) \in 1 .. Len(f)
      <4>1. HeadingsIn(f, Len(f)) \subseteq 1 .. Len(f)
        BY DEF HeadingsIn
      <4>2. HeadingsIn(f, Len(f)) # {} => LastOf(HeadingsIn(f, Len(f))) \in HeadingsIn(f, Len(f))
        BY <1>1, <4>1, LastIs
      <4> QED BY <4>1, <4>2
    <3> QED BY <1>1, <2>2, <3>1, <3>2, Zenon DEF SectionIn
  <2> QED BY <2>1, <2>2
<1>4. KeyIn(g, N + 1) = IF Heading(ln) THEN <<>> ELSE IF Plain(ln) THEN NameOf(ln) ELSE KeyIn(f, N)
  <2>0. (N + 1) - 1 = N /\ N \in Nat \ {0} /\ N - 1 = Len(f)
    BY <1>1
  <2>1. CASE Major(ln)
    <3>1. MajorsIn(g, N + 1) \subseteq 1 .. N /\ N \in MajorsIn(g, N + 1)
      <4>1. MajorsIn(g, N + 1) = {j \in 1 .. N : Major(g[j])}
        BY <2>0 DEF MajorsIn
      <4>2. N \in 1 .. N
        BY <2>0
      <4> HIDE DEF N
      <4> QED BY <1>1, <2>1, <4>1, <4>2
    <3>2. OwnerIn(g, N + 1) = N
      <4>1. LastOf(MajorsIn(g, N + 1)) = N
        <5> HIDE DEF N
        <5> QED BY <2>0, <3>1, LastUnique
      <4> QED BY <3>1, <4>1, Zenon DEF OwnerIn
    <3>3. N # 0
      BY <2>0
    <3> QED BY <1>1, <2>1, <3>2, <3>3, Zenon DEF KeyIn, Major
  <2>2. CASE ~Major(ln)
    <3>1. MajorsIn(g, N + 1) = MajorsIn(g, N)
      <4>1. MajorsIn(g, N + 1) = {j \in 1 .. N : Major(g[j])}
        BY <2>0 DEF MajorsIn
      <4>2. MajorsIn(g, N) = {j \in 1 .. Len(f) : Major(g[j])}
        BY <2>0 DEF MajorsIn
      <4>3. \A j \in 1 .. N : j \in 1 .. Len(f) \/ j = N
        BY <1>1
      <4>4. \A j \in 1 .. Len(f) : j \in 1 .. N
        BY <1>1
      <4> HIDE DEF N
      <4> QED BY <1>1, <2>2, <4>1, <4>2, <4>3, <4>4
    <3>2. OwnerIn(g, N + 1) = OwnerIn(g, N)
      BY <3>1, Zenon DEF OwnerIn
    <3>3. KeyIn(g, N + 1) = KeyIn(g, N)
      BY <3>2, Zenon DEF KeyIn
    <3> QED BY <1>2, <2>2, <3>3, Zenon DEF Major
  <2> QED BY <2>1, <2>2
<1>5. GivingIn(g) = GivingIn(f) \cup (IF Gives(ln) THEN {N} ELSE {})
  <2>1. DOMAIN f = 1 .. Len(f) /\ \A j \in 1 .. N : j \in 1 .. Len(f) \/ j = N
    BY <1>1
  <2>2. N \in 1 .. N /\ \A j \in 1 .. Len(f) : j \in 1 .. N
    BY <1>1
  <2> HIDE DEF N
  <2> QED BY <1>1, <2>1, <2>2 DEF GivingIn
<1>6. MalformedIn(g, N) <=> \/ Heading(ln) /\ ~Has(ln, "]")
                            \/ Plain(ln) /\ ~Has(ln, "=") /\ ~Has(ln, ":")
                            \/ Indented(ln) /\ KeyIn(f, N) = <<>>
  BY <1>1, <1>2, Zenon DEF MalformedIn
<1>7. Plain(ln) => NameIn(g, N) = NameOf(ln)
  BY <1>1, Zenon DEF NameIn
<1>8. ASSUME ~Plain(ln), KeyIn(f, N) # <<>> PROVE NameIn(g, N) = KeyIn(f, N)
  BY <1>1, <1>2, <1>8, Zenon DEF NameIn, KeyIn
<1> QED BY <1>1, <1>3, <1>4, <1>5, <1>6, <1>7, <1>8, Zenon

-----------------------------------------------------------------------------
(* Conf: the values.                                                        *)

LinesOf(l) == {l[k].line : k \in DOMAIN l}
Ascends(l) == \A k, m \in DOMAIN l : k < m => l[k].line < l[m].line

\* The list l holds exactly the lines of the file f that give n a value, in order.
ListIs(f, n, l) == /\ \E S : l \in Seq(S)
                   /\ LinesOf(l) = TargetedIn(f, n) /\ Ascends(l)
Listed(f, v) == /\ DOMAIN v = {TargetIn(f, i) : i \in GivingIn(f)}
                /\ \A n \in DOMAIN v : ListIs(f, n, v[n])

ListAt(v, n) == IF n \in DOMAIN v THEN v[n] ELSE <<>>
Pushed(v, n, e) == [m \in DOMAIN v \cup {n} |-> IF m = n THEN Append(ListAt(v, n), e) ELSE v[m]]

LEMMA ListAtIs ==
    ASSUME NEW f, NEW v, Listed(f, v), NEW n PROVE ListIs(f, n, ListAt(v, n))
<1>1. CASE n \in DOMAIN v
  BY <1>1, Zenon DEF Listed, ListAt
<1>2. CASE n \notin DOMAIN v
  <2>1. TargetedIn(f, n) = {}
    BY <1>2, Zenon DEF Listed, TargetedIn
  <2>2. <<>> \in Seq({}) /\ DOMAIN <<>> = {}
    OBVIOUS
  <2>3. LinesOf(<<>>) = {} /\ Ascends(<<>>)
    BY <2>2, Zenon DEF LinesOf, Ascends
  <2>4. \E S : <<>> \in Seq(S)
    BY <2>2
  <2> QED BY <1>2, <2>1, <2>3, <2>4, Zenon DEF ListIs, ListAt
<1> QED BY <1>1, <1>2

\* push_back of a value of the last line.
LEMMA AppendList ==
    ASSUME NEW l, NEW S, l \in Seq(S), Ascends(l), NEW e, NEW N \in Nat, e.line = N,
           LinesOf(l) \subseteq 1 .. N - 1
    PROVE  /\ \E R : Append(l, e) \in Seq(R)
           /\ LinesOf(Append(l, e)) = LinesOf(l) \cup {N} /\ Ascends(Append(l, e))
<1> DEFINE a == Append(l, e)
           L == Len(l)
           R == S \cup {e}
<1>1. L \in Nat /\ DOMAIN l = 1 .. L /\ l \in Seq(R)
  OBVIOUS
<1>2. /\ a \in Seq(R) /\ DOMAIN a = 1 .. L + 1 /\ a[L + 1] = e
      /\ \A k \in 1 .. L : a[k] = l[k]
  BY <1>1
<1> HIDE DEF a, L, R
<1>3. \A k \in 1 .. L + 1 : k \in 1 .. L \/ k = L + 1
  BY <1>1
<1>4. L + 1 \in 1 .. L + 1 /\ \A k \in 1 .. L : k \in 1 .. L + 1
  BY <1>1
<1>5. LinesOf(a) = LinesOf(l) \cup {N}
  BY <1>1, <1>2, <1>3, <1>4 DEF LinesOf
<1>6. ASSUME NEW k \in 1 .. L + 1, NEW m \in 1 .. L + 1, k < m PROVE a[k].line < a[m].line
  <2>1. k \in 1 .. L /\ a[k] = l[k]
    BY <1>1, <1>2, <1>6
  <2>2. CASE m \in 1 .. L
    <3>1. a[m] = l[m]
      BY <1>2, <2>2
    <3>2. l[k].line < l[m].line
      BY <1>1, <1>6, <2>1, <2>2, Zenon DEF Ascends
    <3> QED BY <2>1, <3>1, <3>2, Zenon
  <2>3. CASE m = L + 1
    <3>1. l[k].line \in LinesOf(l)
      BY <1>1, <2>1, Zenon DEF LinesOf
    <3>2. l[k].line \in 1 .. N - 1
      BY <3>1, Zenon
    <3>3. l[k].line < N
      BY <3>2
    <3>4. a[m].line = N
      BY <1>2, <2>3, Zenon
    <3> QED BY <2>1, <3>3, <3>4, Zenon
  <2> QED BY <1>3, <2>2, <2>3
<1>7. Ascends(a)
  BY <1>2, <1>6, Zenon DEF Ascends
<1> QED BY <1>2, <1>5, <1>7 DEF a

\* Lines that are not malformed and give a value have a name.
LEMMA GivingNamed ==
    ASSUME NEW f, NEW i \in GivingIn(f), ~MalformedIn(f, i)
    PROVE  KeyIn(f, i) # <<>> \/ Plain(f[i])
BY Zenon DEF GivingIn, Gives, MalformedIn

\* A line more keeps the values of the lines before it.
LEMMA TargetsKept ==
    ASSUME NEW f \in Seq(Lines), NEW ln \in Lines, NEW g, g = Append(f, ln),
           \A i \in DOMAIN f : ~MalformedIn(f, i)
    PROVE  /\ GivingIn(f) \subseteq 1 .. Len(f)
           /\ \A i \in GivingIn(f) : TargetIn(g, i) = TargetIn(f, i)
           /\ \A i \in DOMAIN f : ~MalformedIn(g, i)
<1>1. Len(f) \in Nat /\ DOMAIN f = 1 .. Len(f)
  OBVIOUS
<1>2. GivingIn(f) \subseteq 1 .. Len(f)
  BY <1>1 DEF GivingIn
<1>3. ASSUME NEW i \in 1 .. Len(f)
      PROVE  /\ i \in GivingIn(f) => TargetIn(g, i) = TargetIn(f, i)
             /\ ~MalformedIn(g, i)
  <2>1. i \in 1 .. Len(f) + 1 /\ i # Len(f) + 1
    BY <1>1
  <2>2. /\ MalformedIn(g, i) <=> MalformedIn(f, i)
        /\ KeyIn(f, i) # <<>> \/ Plain(f[i]) => TargetIn(g, i) = TargetIn(f, i)
    BY <2>1, EarlierSame
  <2>3. ~MalformedIn(f, i)
    BY <1>1
  <2>4. i \in GivingIn(f) => KeyIn(f, i) # <<>> \/ Plain(f[i])
    BY <2>3, GivingNamed
  <2> QED BY <2>2, <2>3, <2>4
<1> QED BY <1>1, <1>2, <1>3

\* A line that gives no value keeps the lists as they are.
LEMMA ListedKept ==
    ASSUME NEW f \in Seq(Lines), NEW ln \in Lines, NEW g, g = Append(f, ln), NEW v, Listed(f, v),
           \A i \in DOMAIN f : ~MalformedIn(f, i), ~Gives(ln)
    PROVE  Listed(g, v)
<1>1. GivingIn(g) = GivingIn(f)
  <2>1. GivingIn(g) = GivingIn(f) \cup (IF Gives(ln) THEN {Len(f) + 1} ELSE {})
    BY LastLine
  <2> QED BY <2>1
<1>2. \A i \in GivingIn(f) : TargetIn(g, i) = TargetIn(f, i)
  BY TargetsKept
<1>3. \A n : TargetedIn(g, n) = TargetedIn(f, n)
  BY <1>1, <1>2, Zenon DEF TargetedIn
<1>4. {TargetIn(g, i) : i \in GivingIn(g)} = {TargetIn(f, i) : i \in GivingIn(f)}
  BY <1>1, <1>2
<1> QED BY <1>3, <1>4, Zenon DEF Listed, ListIs

\* A value pushed for the last line keeps every list right.
LEMMA ListedPushed ==
    ASSUME NEW f \in Seq(Lines), NEW ln \in Lines, NEW g, g = Append(f, ln), NEW v, Listed(f, v),
           \A i \in DOMAIN f : ~MalformedIn(f, i), Gives(ln),
           NEW n, n = TargetIn(g, Len(f) + 1), NEW e, e.line = Len(f) + 1
    PROVE  Listed(g, Pushed(v, n, e))
<1> DEFINE N == Len(f) + 1
           w == Pushed(v, n, e)
<1>1. N \in Nat /\ N - 1 = Len(f) /\ N \notin 1 .. Len(f)
  OBVIOUS
<1>2. GivingIn(g) = GivingIn(f) \cup {N}
  <2>1. GivingIn(g) = GivingIn(f) \cup (IF Gives(ln) THEN {N} ELSE {})
    BY LastLine
  <2> QED BY <2>1
<1>3. GivingIn(f) \subseteq 1 .. Len(f) /\ \A i \in GivingIn(f) : TargetIn(g, i) = TargetIn(f, i)
  BY TargetsKept
<1>4. n = TargetIn(g, N) /\ e.line = N
  OBVIOUS
<1> HIDE DEF N
<1>5. ASSUME NEW x PROVE TargetedIn(g, x) = TargetedIn(f, x) \cup (IF x = n THEN {N} ELSE {})
  BY <1>2, <1>3, <1>4 DEF TargetedIn
<1>6. DOMAIN w = DOMAIN v \cup {n}
  BY DEF Pushed
<1>7. DOMAIN w = {TargetIn(g, i) : i \in GivingIn(g)}
  <2>1. {TargetIn(g, i) : i \in GivingIn(g)} = {TargetIn(g, i) : i \in GivingIn(f)} \cup {n}
    BY <1>2, <1>4
  <2>2. {TargetIn(g, i) : i \in GivingIn(f)} = {TargetIn(f, i) : i \in GivingIn(f)}
    BY <1>3
  <2> QED BY <1>6, <2>1, <2>2, Zenon DEF Listed
<1>8. ListIs(g, n, w[n])
  <2>1. w[n] = Append(ListAt(v, n), e)
    BY DEF Pushed
  <2>2. ListIs(f, n, ListAt(v, n))
    BY ListAtIs
  <2>3. PICK S : ListAt(v, n) \in Seq(S)
    BY <2>2, Zenon DEF ListIs
  <2>4. LinesOf(ListAt(v, n)) = TargetedIn(f, n) /\ Ascends(ListAt(v, n))
    BY <2>2, Zenon DEF ListIs
  <2>5. LinesOf(ListAt(v, n)) \subseteq 1 .. N - 1
    BY <1>1, <1>3, <2>4 DEF TargetedIn
  <2> DEFINE l == ListAt(v, n)
  <2> HIDE DEF l
  <2>6. l \in Seq(S) /\ Ascends(l) /\ LinesOf(l) \subseteq 1 .. N - 1
    BY <2>3, <2>4, <2>5 DEF l
  <2>7. /\ \E R : Append(l, e) \in Seq(R)
        /\ LinesOf(Append(l, e)) = LinesOf(l) \cup {N} /\ Ascends(Append(l, e))
    BY <1>1, <1>4, <2>6, AppendList
  <2>8. TargetedIn(g, n) = TargetedIn(f, n) \cup {N}
    BY <1>5
  <2>9. LinesOf(Append(l, e)) = TargetedIn(g, n)
    BY <2>4, <2>7, <2>8 DEF l
  <2>10. w[n] = Append(l, e)
    BY <2>1 DEF l
  <2> HIDE DEF w
  <2> QED BY <2>7, <2>9, <2>10, Zenon DEF ListIs
<1>9. ASSUME NEW x \in DOMAIN w, x # n PROVE ListIs(g, x, w[x])
  <2>1. x \in DOMAIN v /\ w[x] = v[x]
    BY <1>6, <1>9 DEF Pushed
  <2>2. ListIs(f, x, v[x])
    BY <2>1, Zenon DEF Listed
  <2>3. TargetedIn(g, x) = TargetedIn(f, x)
    BY <1>5, <1>9
  <2> HIDE DEF w
  <2> QED BY <2>1, <2>2, <2>3, Zenon DEF ListIs
<1> HIDE DEF w
<1>10. Listed(g, w)
  BY <1>7, <1>8, <1>9, Zenon DEF Listed
<1> QED BY <1>10 DEF w

-----------------------------------------------------------------------------
(* Conf: keys.                                                              *)

\* Characters, the dot of makeKey among them.
Chars == STRING \cup {"."}

\* What consumeTill returns is a text.
LEMMA TillText ==
    ASSUME NEW ln \in Lines, NEW p \in 1 .. Len(ln) + 1, NEW c
    PROVE  ConsumeTill(ln, p, c).str \in Seq(Chars)
<1> DEFINE s == SkipSpaces(ln, p)
           hits == {q \in s .. Len(ln) + 1 : At(ln, q) = c}
           e == First_(hits)
           ends == {q \in s .. e - 1 : ln[q] # "b"}
<1>1. ln \in Seq(Chars) /\ Len(ln) \in Nat
  <2>1. ln \in Seq(STRING)
    BY ConfAssumption
  <2> QED BY <2>1 DEF Chars
<1>2. s \in 1 .. Len(ln) + 1
  <2>1. s \in p .. Len(ln) + 1
    BY SkipIs
  <2> QED BY <1>1, <2>1
<1>3. CASE hits = {}
  BY <1>3 DEF ConsumeTill
<1>4. CASE hits # {}
  <2>1. ConsumeTill(ln, p, c).str = Rstrip(ln, s, e)
    BY <1>4 DEF ConsumeTill
  <2>2. e \in s .. Len(ln) + 1
    <3>1. hits \subseteq Nat /\ hits \subseteq s .. Len(ln) + 1
      BY <1>1, <1>2
    <3> HIDE DEF hits
    <3>2. e \in hits
      BY <1>4, <3>1, FirstIs
    <3> QED BY <3>1, <3>2
  <2> HIDE DEF s, e
  <2>3. CASE ends = {}
    <3>1. Rstrip(ln, s, e) = <<>>
      BY <2>3, Zenon DEF Rstrip
    <3> QED BY <2>1, <3>1
  <2>4. CASE ends # {}
    <3>1. Rstrip(ln, s, e) = SubSeq(ln, s, LastOf(ends))
      BY <2>4, Zenon DEF Rstrip, LastOf
    <3>2. ends \subseteq 1 .. Len(ln)
      BY <1>1, <1>2, <2>2
    <3>3. LastOf(ends) \in 1 .. Len(ln)
      <4> HIDE DEF ends
      <4>1. LastOf(ends) \in ends
        BY <1>1, <2>4, <3>2, LastIs
      <4> QED BY <3>2, <4>1
    <3> HIDE DEF ends
    <3>4. \A q \in 1 .. Len(ln) : SubSeq(ln, s, q) \in Seq(Chars)
      BY <1>1, <1>2
    <3> QED BY <2>1, <3>1, <3>3, <3>4, Zenon
  <2> QED BY <2>3, <2>4
<1> QED BY <1>3, <1>4

\* Where the parts of a key are.
LEMMA KeyParts ==
    ASSUME NEW s \in Seq(Chars), NEW n \in Seq(Chars)
    PROVE  /\ DOMAIN MakeKey(s, n) = 1 .. Len(s) + 1 + Len(n)
           /\ \A i \in 1 .. Len(s) : MakeKey(s, n)[i] = ToLower(s[i])
           /\ MakeKey(s, n)[Len(s) + 1] = "."
           /\ \A i \in 1 .. Len(n) : MakeKey(s, n)[Len(s) + 1 + i] = ToLower(n[i])
<1> DEFINE a == s \o <<".">>
           k == a \o n
<1>1. a \in Seq(Chars) /\ Len(a) = Len(s) + 1 /\ a[Len(s) + 1] = "."
      /\ \A i \in 1 .. Len(s) : a[i] = s[i]
  <2> DEFINE d == <<".">>
  <2>1. d \in Seq(Chars) /\ Len(d) = 1 /\ d[1] = "."
    <3>1. "." \in Chars
      BY DEF Chars
    <3>2. ASSUME NEW ch \in Chars PROVE <<ch>> \in Seq(Chars) /\ Len(<<ch>>) = 1 /\ <<ch>>[1] = ch
      OBVIOUS
    <3> QED BY <3>1, <3>2, Zenon
  <2> HIDE DEF d
  <2>2. s \o d \in Seq(Chars) /\ Len(s \o d) = Len(s) + 1 /\ (s \o d)[Len(s) + 1] = "."
    <3>1. s \o d \in Seq(Chars) /\ Len(s \o d) = Len(s) + Len(d)
      BY <2>1, ConcatProperties
    <3>2. Len(s) + 1 \in 1 .. Len(s) + 1 /\ ~(Len(s) + 1 <= Len(s)) /\ (Len(s) + 1) - Len(s) = 1
      OBVIOUS
    <3>3. \A i \in 1 .. Len(s) + 1 : (s \o d)[i] = IF i <= Len(s) THEN s[i] ELSE d[i - Len(s)]
      <4>1. \A i \in 1 .. Len(s) + Len(d) : (s \o d)[i] = IF i <= Len(s) THEN s[i] ELSE d[i - Len(s)]
        BY <2>1, ConcatProperties
      <4> QED BY <2>1, <4>1, Zenon
    <3>4. (s \o d)[Len(s) + 1] = d[1]
      BY <3>2, <3>3, Zenon
    <3> QED BY <2>1, <3>1, <3>4, Zenon
  <2>3. \A i \in 1 .. Len(s) : (s \o d)[i] = s[i]
    BY <2>1
  <2> QED BY <2>2, <2>3 DEF d
<1>2. Len(s) \in Nat /\ Len(n) \in Nat
  OBVIOUS
<1> HIDE DEF a
<1>3. /\ k \in Seq(Chars) /\ Len(k) = Len(a) + Len(n)
      /\ \A i \in 1 .. Len(a) : k[i] = a[i]
      /\ \A i \in 1 .. Len(n) : k[Len(a) + i] = n[i]
  BY <1>1
<1>4. MakeKey(s, n) = Lowered(k)
  BY DEF MakeKey, a
<1> HIDE DEF k
<1>5. DOMAIN k = 1 .. Len(s) + 1 + Len(n)
  BY <1>1, <1>3
<1>6. /\ DOMAIN Lowered(k) = DOMAIN k
      /\ \A i \in DOMAIN k : Lowered(k)[i] = ToLower(k[i])
  BY DEF Lowered
<1>7. ToLower(".") = "."
  BY ConfAssumption DEF ToLower
<1>8. \A i \in 1 .. Len(s) : i \in DOMAIN k /\ k[i] = s[i]
  BY <1>1, <1>2, <1>3, <1>5
<1>9. Len(s) + 1 \in DOMAIN k /\ k[Len(s) + 1] = "."
  BY <1>1, <1>2, <1>3, <1>5
<1>10. \A i \in 1 .. Len(n) : Len(s) + 1 + i \in DOMAIN k /\ k[Len(s) + 1 + i] = n[i]
  BY <1>1, <1>2, <1>3, <1>5
<1> QED BY <1>4, <1>5, <1>6, <1>7, <1>8, <1>9, <1>10, Zenon

\* The first dot of a key is the one makeKey puts in, when the section has none.
LEMMA SectionEnds ==
    ASSUME NEW s \in Seq(Chars), NEW n \in Seq(Chars), NEW t \in Seq(Chars), NEW m \in Seq(Chars),
           ~Has(t, "."), MakeKey(s, n) = MakeKey(t, m)
    PROVE  Len(t) <= Len(s)
<1> SUFFICES ASSUME Len(s) < Len(t) PROVE FALSE
  OBVIOUS
<1>1. Len(s) + 1 \in 1 .. Len(t) /\ Len(s) + 1 \in DOMAIN t
  OBVIOUS
<1>2. MakeKey(s, n)[Len(s) + 1] = "." /\ MakeKey(t, m)[Len(s) + 1] = ToLower(t[Len(s) + 1])
  BY <1>1, KeyParts
<1>3. t[Len(s) + 1] = "."
  BY <1>2, ConfAssumption DEF ToLower
<1> QED BY <1>1, <1>3 DEF Has

LEMMA SameBounds ==
    ASSUME NEW a \in Nat, NEW b \in Nat, 1 .. a = 1 .. b PROVE a = b
<1>1. a # 0 => a \in 1 .. b
  <2>1. a # 0 => a \in 1 .. a
    OBVIOUS
  <2> QED BY <2>1, Zenon
<1>2. b # 0 => b \in 1 .. a
  <2>1. b # 0 => b \in 1 .. b
    OBVIOUS
  <2> QED BY <2>1, Zenon
<1> QED BY <1>1, <1>2

\* makeKey tells names apart, case aside, of sections without a dot.
LEMMA KeysApart ==
    ASSUME NEW s \in Seq(Chars), NEW n \in Seq(Chars), NEW t \in Seq(Chars), NEW m \in Seq(Chars),
           ~Has(s, "."), ~Has(t, ".")
    PROVE  MakeKey(s, n) = MakeKey(t, m) <=> Lowered(s) = Lowered(t) /\ Lowered(n) = Lowered(m)
<1>1. /\ Len(s) \in Nat /\ Len(n) \in Nat /\ Len(t) \in Nat /\ Len(m) \in Nat
      /\ DOMAIN s = 1 .. Len(s) /\ DOMAIN n = 1 .. Len(n)
      /\ DOMAIN t = 1 .. Len(t) /\ DOMAIN m = 1 .. Len(m)
  OBVIOUS
<1>2. ASSUME MakeKey(s, n) = MakeKey(t, m) PROVE Lowered(s) = Lowered(t) /\ Lowered(n) = Lowered(m)
  <2>1. Len(s) = Len(t)
    <3>1. Len(t) <= Len(s)
      BY <1>2, SectionEnds
    <3>2. Len(s) <= Len(t)
      BY <1>2, SectionEnds
    <3>3. \A a, b \in Nat : a <= b /\ b <= a => a = b
      OBVIOUS
    <3> QED BY <1>1, <3>1, <3>2, <3>3, Zenon
  <2>2. 1 .. Len(s) + 1 + Len(n) = 1 .. Len(t) + 1 + Len(m)
    BY <1>2, KeyParts
  <2>3. Len(n) = Len(m)
    <3>1. Len(s) + 1 + Len(n) \in Nat /\ Len(t) + 1 + Len(m) \in Nat
      BY <1>1
    <3>2. Len(s) + 1 + Len(n) = Len(t) + 1 + Len(m)
      BY <2>2, <3>1, SameBounds, Zenon
    <3>3. \A a, b, c \in Nat : a + 1 + b = a + 1 + c => b = c
      OBVIOUS
    <3> QED BY <1>1, <2>1, <3>2, <3>3, Zenon
  <2>4. \A i \in 1 .. Len(s) : ToLower(s[i]) = ToLower(t[i])
    <3>1. \A i \in 1 .. Len(s) : MakeKey(s, n)[i] = ToLower(s[i])
      BY KeyParts
    <3>2. \A i \in 1 .. Len(t) : MakeKey(t, m)[i] = ToLower(t[i])
      BY KeyParts
    <3> QED BY <1>2, <2>1, <3>1, <3>2, Zenon
  <2>5. \A i \in 1 .. Len(n) : ToLower(n[i]) = ToLower(m[i])
    <3>1. \A i \in 1 .. Len(n) : MakeKey(s, n)[Len(s) + 1 + i] = ToLower(n[i])
      BY KeyParts
    <3>2. \A i \in 1 .. Len(m) : MakeKey(t, m)[Len(t) + 1 + i] = ToLower(m[i])
      BY KeyParts
    <3> QED BY <1>2, <2>1, <2>3, <3>1, <3>2, Zenon
  <2>6. DOMAIN s = DOMAIN t /\ DOMAIN n = DOMAIN m
    BY <1>1, <2>1, <2>3
  <2> QED BY <1>1, <2>4, <2>5, <2>6 DEF Lowered
<1>3. ASSUME Lowered(s) = Lowered(t), Lowered(n) = Lowered(m) PROVE MakeKey(s, n) = MakeKey(t, m)
  <2>1. /\ DOMAIN s = DOMAIN t /\ \A i \in DOMAIN s : ToLower(s[i]) = ToLower(t[i])
        /\ DOMAIN n = DOMAIN m /\ \A i \in DOMAIN n : ToLower(n[i]) = ToLower(m[i])
    <3>1. \A x : DOMAIN Lowered(x) = DOMAIN x /\ \A i \in DOMAIN x : Lowered(x)[i] = ToLower(x[i])
      BY DEF Lowered
    <3> QED BY <1>3, <3>1, Zenon
  <2>2. Len(s) = Len(t) /\ Len(n) = Len(m)
    BY <1>1, <2>1, SameBounds, Zenon
  <2> DEFINE D == 1 .. Len(s) + 1 + Len(n)
  <2>3. DOMAIN MakeKey(s, n) = D /\ DOMAIN MakeKey(t, m) = D
    BY <2>2, KeyParts
  <2>4. ASSUME NEW i \in D PROVE MakeKey(s, n)[i] = MakeKey(t, m)[i]
    <3>1. CASE i \in 1 .. Len(s)
      <4>1. MakeKey(s, n)[i] = ToLower(s[i])
        BY <3>1, KeyParts
      <4>2. MakeKey(t, m)[i] = ToLower(t[i])
        <5>1. i \in 1 .. Len(t)
          BY <2>2, <3>1, Zenon
        <5>2. \A j \in 1 .. Len(t) : MakeKey(t, m)[j] = ToLower(t[j])
          BY KeyParts
        <5> QED BY <5>1, <5>2, Zenon
      <4> QED BY <1>1, <2>1, <3>1, <4>1, <4>2, Zenon
    <3>2. CASE i = Len(s) + 1
      BY <2>2, <3>2, KeyParts
    <3>3. CASE i > Len(s) + 1
      <4>1. PICK j \in 1 .. Len(n) : i = Len(s) + 1 + j
        <5>1. i - (Len(s) + 1) \in 1 .. Len(n) /\ i = Len(s) + 1 + (i - (Len(s) + 1))
          BY <1>1, <3>3
        <5> QED BY <5>1
      <4>2. MakeKey(s, n)[Len(s) + 1 + j] = ToLower(n[j])
        BY KeyParts
      <4>3. MakeKey(t, m)[Len(t) + 1 + j] = ToLower(m[j])
        BY <2>2, KeyParts
      <4> QED BY <1>1, <2>1, <2>2, <4>1, <4>2, <4>3
    <3> QED BY <1>1, <3>1, <3>2, <3>3
  <2>5. MakeKey(s, n) = [i \in DOMAIN MakeKey(s, n) |-> MakeKey(s, n)[i]]
        /\ MakeKey(t, m) = [i \in DOMAIN MakeKey(t, m) |-> MakeKey(t, m)[i]]
    BY DEF MakeKey, Lowered
  <2> HIDE DEF D
  <2> QED BY <2>3, <2>4, <2>5
<1> QED BY <1>2, <1>3

\* Sections and names of a file without a bad line are texts.
LEMMA TargetTexts ==
    ASSUME NEW f \in Seq(Lines), NEW i \in GivingIn(f), ~MalformedIn(f, i)
    PROVE  SectionIn(f, i) \in Seq(Chars) /\ NameIn(f, i) \in Seq(Chars)
<1>1. Len(f) \in Nat /\ DOMAIN f = 1 .. Len(f) /\ i \in 1 .. Len(f) /\ i \in Nat \ {0}
      /\ \A j \in 1 .. Len(f) : f[j] \in Lines
  BY DEF GivingIn
<1>2. \A ln \in Lines : Len(ln) \in Nat /\ 1 \in 1 .. Len(ln) + 1
  BY ConfAssumption
<1>3. \A ln \in Lines : NameOf(ln) \in Seq(Chars)
  BY <1>2, TillText DEF NameOf
<1>4. ASSUME NEW ln \in Lines, Heading(ln) PROVE TitleOf(ln) \in Seq(Chars)
  <2>1. At(ln, SkipSpaces(ln, 1)) \notin {";", "end"}
    BY <1>4, LineKinds DEF Heading
  <2>2. SkipSpaces(ln, 1) \in 1 .. Len(ln)
    BY <2>1, LineKinds
  <2>3. SkipSpaces(ln, 1) + 1 \in 1 .. Len(ln) + 1
    BY <1>2, <2>2
  <2> QED BY <2>3, TillText DEF TitleOf
<1>5. SectionIn(f, i) \in Seq(Chars)
  <2>1. CASE HeadingsIn(f, i) = {}
    BY <2>1 DEF SectionIn
  <2>2. CASE HeadingsIn(f, i) # {}
    <3>1. HeadingsIn(f, i) \subseteq 1 .. i
      BY DEF HeadingsIn
    <3>2. LastOf(HeadingsIn(f, i)) \in HeadingsIn(f, i)
      BY <1>1, <2>2, <3>1, LastIs
    <3>3. LastOf(HeadingsIn(f, i)) \in 1 .. Len(f) /\ Heading(f[LastOf(HeadingsIn(f, i))])
      BY <1>1, <3>2 DEF HeadingsIn
    <3> QED BY <1>1, <1>4, <2>2, <3>3, Zenon DEF SectionIn
  <2> QED BY <2>1, <2>2
<1>6. NameIn(f, i) \in Seq(Chars)
  <2>1. CASE Plain(f[i])
    BY <1>1, <1>3, <2>1, Zenon DEF NameIn
  <2>2. CASE ~Plain(f[i])
    <3>1. OwnerIn(f, i) # 0
      BY <2>2, GivingNamed, Zenon DEF KeyIn
    <3>2. OwnerIn(f, i) \in 1 .. Len(f)
      <4>1. OwnerIn(f, i) \in 1 .. i - 1
        BY <1>1, <3>1, OwnerBefore
      <4> QED BY <1>1, <4>1
    <3> QED BY <1>1, <1>3, <2>2, <3>2, Zenon DEF NameIn
  <2> QED BY <2>1, <2>2
<1> QED BY <1>5, <1>6

\* Two lines give the same name a value exactly when their keys are the same.
LEMMA SameNameIs ==
    ASSUME file \in Seq(Lines), \A i \in DOMAIN file : ~MalformedIn(file, i),
           NEW i \in Giving, NEW j \in Giving
    PROVE  SameName(i, j) <=> TargetIn(file, j) = MakeKey(SectionOf(i), NameAt(i))
<1>1. /\ i \in GivingIn(file) /\ ~MalformedIn(file, i) /\ j \in GivingIn(file) /\ ~MalformedIn(file, j)
  BY ConfMeaning, Zenon DEF GivingIn
<1>2. /\ SectionOf(i) \in Seq(Chars) /\ NameAt(i) \in Seq(Chars)
      /\ SectionOf(j) \in Seq(Chars) /\ NameAt(j) \in Seq(Chars)
  BY <1>1, TargetTexts, ConfMeaning, Zenon
<1>3. TargetIn(file, j) = MakeKey(SectionOf(j), NameAt(j))
  BY ConfMeaning, Zenon DEF TargetIn
<1>4. ~Has(SectionOf(i), ".") /\ ~Has(SectionOf(j), ".") =>
          (MakeKey(SectionOf(i), NameAt(i)) = MakeKey(SectionOf(j), NameAt(j))
             <=> Lowered(SectionOf(i)) = Lowered(SectionOf(j)) /\ Lowered(NameAt(i)) = Lowered(NameAt(j)))
  BY <1>2, KeysApart
<1> QED BY <1>3, <1>4, Zenon DEF SameName

-----------------------------------------------------------------------------
(* Conf: what parse keeps true from line to line.                           *)

\* After a file without a bad line: the section and the key are the last line's, and
\* every list of values is complete and in the file's order.
Parsed(f, sec, k, v) == /\ sec = SectionIn(f, Len(f)) /\ k = KeyIn(f, Len(f) + 1)
                        /\ \A i \in DOMAIN f : ~MalformedIn(f, i)
                        /\ Listed(f, v)
ConfInv == /\ file \in Seq(Lines)
           /\ err = 0 => Parsed(file, section, key, values)
           /\ err # 0 => err = Len(file) /\ err \in Nat /\ MalformedIn(file, err)

LEMMA ConfInvInit == ConfInit => ConfInv
<1> SUFFICES ASSUME ConfInit PROVE ConfInv
  OBVIOUS
<1>1. /\ file = <<>> /\ section = <<>> /\ key = <<>> /\ err = 0
      /\ values = [name \in {} |-> <<>>]
  BY DEF ConfInit
<1>2. Len(<<>>) = 0 /\ DOMAIN <<>> = {} /\ <<>> \in Seq(Lines)
  OBVIOUS
<1>3. 1 .. 0 = {} /\ 1 .. ((0 + 1) - 1) = {}
  OBVIOUS
<1>4. SectionIn(<<>>, 0) = <<>>
  BY <1>3, Zenon DEF SectionIn, HeadingsIn
<1>5. KeyIn(<<>>, 0 + 1) = <<>>
  <2>1. MajorsIn(<<>>, 0 + 1) = {}
    BY <1>3, Zenon DEF MajorsIn
  <2> QED BY <2>1, Zenon DEF KeyIn, OwnerIn
<1>6. GivingIn(<<>>) = {}
  BY <1>2, Zenon DEF GivingIn
<1>7. Listed(<<>>, values)
  <2>1. DOMAIN values = {}
    BY <1>1
  <2> QED BY <1>6, <2>1 DEF Listed
<1> QED BY <1>1, <1>2, <1>4, <1>5, <1>7, Zenon DEF ConfInv, Parsed

LEMMA ParsedMore ==
    ASSUME NEW f \in Seq(Lines), NEW ln \in Lines, NEW g, g = Append(f, ln),
           \A i \in DOMAIN f : ~MalformedIn(f, i), ~MalformedIn(g, Len(f) + 1),
           NEW sec, sec = SectionIn(g, Len(f) + 1), NEW k, k = KeyIn(g, Len(f) + 2),
           NEW v, Listed(g, v)
    PROVE  Parsed(g, sec, k, v)
<1>1. Len(f) \in Nat /\ Len(g) = Len(f) + 1 /\ DOMAIN f = 1 .. Len(f) /\ DOMAIN g = 1 .. Len(f) + 1
      /\ Len(g) + 1 = Len(f) + 2
  OBVIOUS
<1>2. \A i \in DOMAIN f : ~MalformedIn(g, i)
  BY TargetsKept
<1>3. \A i \in 1 .. Len(f) + 1 : i \in 1 .. Len(f) \/ i = Len(f) + 1
  BY <1>1
<1>4. \A i \in DOMAIN g : ~MalformedIn(g, i)
  BY <1>1, <1>2, <1>3, Zenon
<1> QED BY <1>1, <1>4, Zenon DEF Parsed

LEMMA PushIs == ASSUME NEW k, NEW x, Push_(k, x)
                PROVE  values' = Pushed(values, MakeKey(section, k), [value |-> x, line |-> Len(file) + 1])
BY Zenon DEF Push_, Pushed, GetStrings, ListAt

LEMMA ConfLine == ASSUME ConfInv, NEW ln \in Lines, ParseLine(ln) PROVE ConfInv'
<1> DEFINE f == file
           g == file'
           N == Len(f) + 1
           p == SkipSpaces(ln, 1)
<1>1. f \in Seq(Lines) /\ g = Append(f, ln) /\ err = 0 /\ Parsed(f, section, key, values)
  BY DEF ConfInv, ParseLine
<1>2. /\ section = SectionIn(f, Len(f)) /\ key = KeyIn(f, N) /\ Listed(f, values)
      /\ \A i \in DOMAIN f : ~MalformedIn(f, i)
  BY <1>1 DEF Parsed
<1>3. /\ g[N] = ln /\ Len(g) = N /\ g \in Seq(Lines)
      /\ SectionIn(g, N) = IF Heading(ln) THEN TitleOf(ln) ELSE section
      /\ KeyIn(g, N + 1) = IF Heading(ln) THEN <<>> ELSE IF Plain(ln) THEN NameOf(ln) ELSE key
      /\ MalformedIn(g, N) <=> \/ Heading(ln) /\ ~Has(ln, "]")
                               \/ Plain(ln) /\ ~Has(ln, "=") /\ ~Has(ln, ":")
                               \/ Indented(ln) /\ key = <<>>
      /\ Plain(ln) => NameIn(g, N) = NameOf(ln)
      /\ ~Plain(ln) /\ key # <<>> => NameIn(g, N) = key
  BY <1>1, <1>2, LastLine, Zenon
<1>4. N \in Nat /\ N # 0 /\ Len(f) + 2 = N + 1
  BY <1>1
<1>5. /\ Len(ln) \in Nat \ {0} /\ DOMAIN ln = 1 .. Len(ln)
  <2>1. ln \in Seq(STRING) /\ ln # <<>>
    BY ConfAssumption
  <2> QED BY <2>1
<1>6. /\ p \in 1 .. Len(ln) + 1
      /\ At(ln, p) \in {";", "end"} => Blank(ln) /\ ~Heading(ln) /\ ~Indented(ln) /\ ~Plain(ln)
      /\ At(ln, p) \notin {";", "end"} => ~Blank(ln) /\ p \in 1 .. Len(ln) /\ At(ln, p) = ln[p]
  BY LineKinds, Zenon
\* The line is bad.
<1>7. ASSUME MalformedIn(g, N), err' = N PROVE ConfInv'
  BY <1>3, <1>4, <1>7, Zenon DEF ConfInv
\* It is not.
<1>8. ASSUME ~MalformedIn(g, N), err' = 0, section' = SectionIn(g, N), key' = KeyIn(g, N + 1),
             Listed(g, values')
      PROVE  ConfInv'
  <2>1. Parsed(g, section', key', values')
    <3> HIDE DEF f, g, N
    <3> QED BY <1>1, <1>2, <1>4, <1>8, ParsedMore DEF N
  <2> QED BY <1>3, <1>8, <2>1, Zenon DEF ConfInv
<1>9. CASE At(ln, p) \in {";", "end"}
  <2>1. UNCHANGED <<section, key, values, err>>
    BY <1>9 DEF ParseLine
  <2>2. ~MalformedIn(g, N) /\ SectionIn(g, N) = section /\ KeyIn(g, N + 1) = key
    BY <1>3, <1>6, <1>9, Zenon
  <2>3. Listed(g, values)
    <3>1. ~Gives(ln)
      BY <1>6, <1>9, Zenon DEF Gives
    <3> HIDE DEF f, g
    <3> QED BY <1>1, <1>2, <3>1, ListedKept
  <2> QED BY <1>1, <1>8, <2>1, <2>2, <2>3, Zenon
<1>10. CASE At(ln, p) = "["
  <2>0. At(ln, p) \notin {";", "end"}
    BY <1>10
  <2>1. SectionLine(ln, p)
    BY <1>10, <2>0 DEF ParseLine
  <2>2. p \in 1 .. Len(ln) /\ ln[p] = "[" /\ Heading(ln) /\ ~Indented(ln) /\ ~Plain(ln)
    BY <1>6, <1>10, <2>0, Zenon DEF Heading, Indented, Plain
  <2> DEFINE r == ConsumeTill(ln, p + 1, "]")
  <2>3. r.err <=> ~Has(ln, "]")
    <3>1. p + 1 \in 1 .. Len(ln) + 1
      BY <1>5, <2>2
    <3>2. \A q \in 1 .. (p + 1) - 1 : ln[q] # "]"
      <4>1. 1 \in 1 .. Len(ln) + 1
        BY <1>5
      <4>2. \A q \in 1 .. p - 1 : ln[q] = "b"
        BY <4>1, SkipIs
      <4>3. \A q \in 1 .. (p + 1) - 1 : q \in 1 .. p - 1 \/ q = p
        BY <1>5, <2>2
      <4> HIDE DEF p
      <4> QED BY <2>2, <4>2, <4>3
    <3> HIDE DEF p
    <3> QED BY <3>1, <3>2, TillFails
  <2>4. section' = r.str /\ key' = <<>> /\ values' = values /\ r.str = TitleOf(ln)
    BY <2>1 DEF SectionLine, TitleOf
  <2>5. CASE r.err
    <3>1. err' = N
      BY <2>1, <2>5 DEF SectionLine, Fail
    <3> QED BY <1>3, <1>7, <2>2, <2>3, <2>5, <3>1, Zenon
  <2>6. CASE ~r.err
    <3>1. err' = 0
      BY <1>1, <2>1, <2>6 DEF SectionLine
    <3>2. ~MalformedIn(g, N)
      BY <1>3, <2>2, <2>3, <2>6, Zenon
    <3>3. Listed(g, values)
      <4>1. ~Gives(ln)
        BY <2>2, Zenon DEF Gives
      <4> HIDE DEF f, g
      <4> QED BY <1>1, <1>2, <4>1, ListedKept
    <3> QED BY <1>3, <1>8, <2>2, <2>4, <3>1, <3>2, <3>3, Zenon
  <2> QED BY <2>5, <2>6
<1>11. CASE At(ln, p) \notin {";", "end"} /\ At(ln, p) # "[" /\ ln[1] = "b"
  <2>1. Continuation(ln, p)
    BY <1>11 DEF ParseLine
  <2>2. Indented(ln) /\ ~Heading(ln) /\ ~Plain(ln) /\ Gives(ln)
    BY <1>6, <1>11, Zenon DEF Heading, Indented, Plain, Gives
  <2>3. section' = section /\ key' = key
    BY <2>1 DEF Continuation
  <2>4. CASE key = <<>>
    <3>1. err' = N
      BY <2>1, <2>4 DEF Continuation, Fail
    <3> QED BY <1>3, <1>7, <2>2, <2>4, <3>1, Zenon
  <2>5. CASE key # <<>>
    <3> DEFINE x == ConsumeTill(ln, p, "end").str
               e == [value |-> x, line |-> Len(file) + 1]
               n == MakeKey(section, key)
    <3>1. err' = 0 /\ Push_(key, x)
      BY <1>1, <2>1, <2>5 DEF Continuation
    <3>2. values' = Pushed(values, n, e)
      BY <3>1, PushIs, Zenon
    <3>3. n = TargetIn(g, N)
      BY <1>3, <2>2, <2>5, Zenon DEF TargetIn
    <3>4. e.line = Len(f) + 1
      OBVIOUS
    <3>5. Listed(g, values')
      <4> HIDE DEF f, g, e, n
      <4>1. Listed(g, Pushed(values, n, e))
        BY <1>1, <1>2, <2>2, <3>3, <3>4, ListedPushed DEF N
      <4> QED BY <3>2, <4>1, Zenon
    <3> QED BY <1>3, <1>8, <2>2, <2>3, <2>5, <3>1, <3>5, Zenon
  <2> QED BY <2>4, <2>5
<1>12. CASE At(ln, p) \notin {";", "end"} /\ At(ln, p) # "[" /\ ln[1] # "b"
  <2>1. Assignment(ln, p)
    BY <1>12 DEF ParseLine
  <2>2. Plain(ln) /\ ~Heading(ln) /\ ~Indented(ln) /\ Gives(ln)
    BY <1>6, <1>12, Zenon DEF Heading, Indented, Plain, Gives
  <2>3. p = 1
    <3>1. 1 \in 1 .. Len(ln) + 1
      BY <1>5
    <3>2. \A q \in 1 .. p - 1 : ln[q] = "b"
      BY <3>1, SkipIs
    <3> HIDE DEF p
    <3>3. ~(1 \in 1 .. p - 1)
      BY <1>12, <3>2
    <3>4. p \in 1 .. Len(ln) + 1
      BY <1>6, Zenon
    <3> QED BY <1>5, <3>3, <3>4
  <2> DEFINE ec == ConsumeTill(ln, 1, "=")
             cc == ConsumeTill(ln, 1, ":")
             r == IF ec.err THEN cc ELSE ec
  <2>4. (ec.err <=> ~Has(ln, "=")) /\ (cc.err <=> ~Has(ln, ":"))
    <3>1. 1 \in 1 .. Len(ln) + 1 /\ 1 .. 1 - 1 = {}
      BY <1>5
    <3> QED BY <3>1, TillFails
  <2>5. r.str = NameOf(ln) /\ (r.err <=> ~Has(ln, "=") /\ ~Has(ln, ":"))
    BY <2>4, Zenon DEF NameOf
  <2> DEFINE x == IF r.err THEN <<>> ELSE ConsumeTillEnd(ln, r.p + 1)
             e == [value |-> x, line |-> Len(file) + 1]
             n == MakeKey(section, r.str)
  <2>6. /\ key' = r.str /\ Push_(r.str, x) /\ section' = section
        /\ IF r.err THEN err' = N ELSE err' = err
    BY <2>1, <2>3, Zenon DEF Assignment, Fail
  <2> HIDE DEF r
  <2>7. CASE r.err
    BY <1>3, <1>7, <2>2, <2>5, <2>6, <2>7, Zenon
  <2>8. CASE ~r.err
    <3>1. values' = Pushed(values, n, e)
      BY <2>6, PushIs, Zenon
    <3>2. n = TargetIn(g, N)
      BY <1>3, <2>2, <2>5, Zenon DEF TargetIn
    <3>3. e.line = Len(f) + 1
      OBVIOUS
    <3>4. Listed(g, values')
      <4> HIDE DEF f, g, e, n
      <4>1. Listed(g, Pushed(values, n, e))
        BY <1>1, <1>2, <2>2, <3>2, <3>3, ListedPushed DEF N
      <4> QED BY <3>1, <4>1, Zenon
    <3> QED BY <1>1, <1>3, <1>8, <2>2, <2>5, <2>6, <2>8, <3>4, Zenon
  <2> QED BY <2>7, <2>8
<1> QED BY <1>9, <1>10, <1>11, <1>12, Zenon

\* What the invariant says about getStrings and get.
LEMMA ConfInvSays == ConfInv => ParseIsRight
<1> SUFFICES ASSUME ConfInv PROVE ParseIsRight
  OBVIOUS
<1>1. file \in Seq(Lines) /\ Len(file) \in Nat /\ DOMAIN file = 1 .. Len(file)
  BY DEF ConfInv
<1>2. ASSUME err = 0, NEW i \in DOMAIN file PROVE ~Malformed(i)
  BY <1>2, ConfMeaning, Zenon DEF ConfInv, Parsed
<1>3. ASSUME err # 0 PROVE err = Len(file) /\ Malformed(err) /\ err \in DOMAIN file
  <2>1. err = Len(file) /\ err \in Nat /\ Malformed(err)
    BY <1>3, ConfMeaning, Zenon DEF ConfInv
  <2> QED BY <1>1, <1>3, <2>1
<1>4. ASSUME err = 0 PROVE Listed(file, values) /\ Giving = GivingIn(file)
  BY <1>4, ConfMeaning, Zenon DEF ConfInv, Parsed
<1>5. ASSUME err = 0, NEW i \in Giving
      PROVE  LET l == GetStrings(SectionOf(i), NameAt(i))
                 same == {j \in Giving : SameName(i, j)}
             IN  /\ {l[k].line : k \in DOMAIN l} = same
                 /\ \A k, m \in DOMAIN l : k < m => l[k].line < l[m].line
                 /\ \E k \in DOMAIN l : /\ \A j \in same : j <= l[k].line
                                        /\ l[k].value = Get(SectionOf(i), NameAt(i), <<>>)
  <2> DEFINE n == MakeKey(SectionOf(i), NameAt(i))
             l == GetStrings(SectionOf(i), NameAt(i))
             same == {j \in Giving : SameName(i, j)}
  <2>1. l = ListAt(values, n)
    BY Zenon DEF GetStrings, ListAt
  <2>2. ListIs(file, n, l)
    BY <1>4, <1>5, <2>1, ListAtIs
  <2>3. same = TargetedIn(file, n)
    <3>1. \A j \in Giving : SameName(i, j) <=> TargetIn(file, j) = n
      BY <1>1, <1>2, <1>4, <1>5, SameNameIs, ConfMeaning
    <3> QED BY <1>4, <1>5, <3>1, Zenon DEF TargetedIn
  <2>4. {l[k].line : k \in DOMAIN l} = same /\ i \in same /\ same \subseteq Nat
    <3>1. {l[k].line : k \in DOMAIN l} = same
      BY <2>2, <2>3, Zenon DEF ListIs, LinesOf
    <3>2. Giving \subseteq Nat
      BY <1>1 DEF Giving
    <3>3. SameName(i, i)
      BY Zenon DEF SameName
    <3> QED BY <1>5, <3>1, <3>2, <3>3
  <2>5. \A k, m \in DOMAIN l : k < m => l[k].line < l[m].line
    BY <2>2, Zenon DEF ListIs, Ascends
  <2>6. PICK S : l \in Seq(S)
    BY <2>2, Zenon DEF ListIs
  <2>7. Get(SectionOf(i), NameAt(i), <<>>) = IF l = <<>> THEN <<>> ELSE l[Len(l)].value
    BY Zenon DEF Get
  <2> HIDE DEF l, same
  <2>8. Len(l) \in DOMAIN l /\ DOMAIN l = 1 .. Len(l) /\ Len(l) \in Nat /\ l # <<>>
    <3>1. PICK k : k \in DOMAIN l
      BY <2>4
    <3>2. DOMAIN l = 1 .. Len(l) /\ Len(l) \in Nat
      BY <2>6
    <3>3. Len(l) # 0
      BY <3>1, <3>2
    <3> QED BY <2>6, <3>2, <3>3
  <2>9. ASSUME NEW j \in same PROVE j <= l[Len(l)].line
    <3>1. PICK k \in DOMAIN l : j = l[k].line
      BY <2>4
    <3>2. CASE k = Len(l)
      BY <2>4, <3>1, <3>2
    <3>3. CASE k # Len(l)
      <4>1. k < Len(l)
        BY <2>8, <3>3
      <4>2. l[k].line < l[Len(l)].line
        BY <2>5, <2>8, <4>1, Zenon
      <4>3. l[Len(l)].line \in Nat /\ j \in Nat
        BY <2>4, <2>8
      <4> QED BY <3>1, <4>2, <4>3
    <3> QED BY <3>2, <3>3
  <2>10. \E k \in DOMAIN l : /\ \A j \in same : j <= l[k].line
                             /\ l[k].value = Get(SectionOf(i), NameAt(i), <<>>)
    BY <2>7, <2>8, <2>9, Zenon
  <2> QED BY <2>4, <2>5, <2>10, Zenon DEF l, same
<1>6. ASSUME err = 0
      PROVE  UNION {{values[n][k].line : k \in DOMAIN values[n]} : n \in DOMAIN values} = Giving
  <2>1. \A n \in DOMAIN values :
            {values[n][k].line : k \in DOMAIN values[n]} = TargetedIn(file, n)
    BY <1>4, <1>6, Zenon DEF Listed, ListIs, LinesOf
  <2>2. UNION {{values[n][k].line : k \in DOMAIN values[n]} : n \in DOMAIN values}
            = UNION {TargetedIn(file, n) : n \in DOMAIN values}
    BY <2>1
  <2>3. DOMAIN values = {TargetIn(file, i) : i \in GivingIn(file)}
    BY <1>4, <1>6, Zenon DEF Listed
  <2>4. UNION {TargetedIn(file, n) : n \in DOMAIN values} = GivingIn(file)
    BY <2>3 DEF TargetedIn
  <2> QED BY <1>4, <1>6, <2>2, <2>4, Zenon
<1>7. err = 0 <=> \A i \in DOMAIN file : ~Malformed(i)
  BY <1>2, <1>3, Zenon
<1>8. err # 0 => err = Len(file) /\ Malformed(err)
  BY <1>3
<1> QED BY <1>5, <1>6, <1>7, <1>8, Zenon DEF ParseIsRight

\* parse returns the bad line, or 0 and the complete lists, for every file over every set
\* of lines.
THEOREM ConfParseIsRight == ParserSpec => []ParseIsRight
<1>1. ConfInit => ConfInv
  BY ConfInvInit
<1>2. ConfInv /\ [ConfNext]_confVars => ConfInv'
  <2> SUFFICES ASSUME ConfInv, [ConfNext]_confVars PROVE ConfInv'
    OBVIOUS
  <2>1. CASE \E ln \in Lines : ParseLine(ln)
    BY <2>1, ConfLine, Zenon
  <2>2. CASE UNCHANGED confVars
    BY <2>2, Zenon DEF confVars, ConfInv
  <2> QED BY <2>1, <2>2 DEF ConfNext
<1> QED BY <1>1, <1>2, ConfInvSays, PTL DEF ParserSpec

-----------------------------------------------------------------------------
(* Cron: the calendar, localtime and mktime.                                *)

DayMins == DayHours * HourMins
HourOf(m) == m \div HourMins
DayOf(m) == m \div DayMins

\* The day that a date is, and the minute that a time of a date is.
Day(y, k, d) == y * YearDays + DaysBefore[k] + d - 1
Minute(y, k, d, h, i) == (Day(y, k, d) * DayHours + h) * HourMins + i

LEMMA CalendarTypes ==
    /\ YearDays \in Nat \ {0} /\ DayMins \in Nat \ {0}
    /\ HourMins \in Nat \ {0} /\ DayHours \in Nat \ {0} /\ Week \in Nat \ {0} /\ Months \in Nat \ {0}
    /\ \A k \in 0 .. Months - 1 : /\ DaysBefore[k] \in Nat /\ DaysBefore[k + 1] \in Nat
                                  /\ DaysBefore[k] < DaysBefore[k + 1]
                                  /\ DaysBefore[k + 1] <= YearDays
                                  /\ MonthDays(k) \in Nat \ {0}
<1>1. /\ HourMins \in Nat \ {0} /\ DayHours \in Nat \ {0} /\ Week \in Nat \ {0}
      /\ Months \in Nat \ {0}
  BY CronAssumption
<1>2. YearDays \in Nat \ {0}
  <2>1. 0 \in 0 .. Months - 1 /\ Months \in 0 .. Months
    BY <1>1
  <2> QED BY <2>1, CronAssumption DEF YearDays
<1>3. DayMins \in Nat \ {0}
  BY <1>1 DEF DayMins
<1>4. ASSUME NEW k \in 0 .. Months - 1
      PROVE  /\ DaysBefore[k] \in Nat /\ DaysBefore[k + 1] \in Nat
             /\ DaysBefore[k] < DaysBefore[k + 1] /\ DaysBefore[k + 1] <= YearDays
             /\ MonthDays(k) \in Nat \ {0}
  <2>1. k \in 0 .. Months /\ k + 1 \in 0 .. Months /\ k \in 0 .. (k + 1) - 1
    BY <1>1
  <2>2. DaysBefore[k] \in Nat /\ DaysBefore[k + 1] \in Nat /\ DaysBefore[k] < DaysBefore[k + 1]
    BY <2>1, CronAssumption
  <2>3. DaysBefore[k + 1] <= YearDays
    <3>1. CASE k + 1 = Months
      BY <3>1, <2>2 DEF YearDays
    <3>2. CASE k + 1 # Months
      <4>1. k + 1 \in 0 .. Months - 1 /\ Months \in 0 .. Months
        BY <1>1, <3>2
      <4>2. DaysBefore[k + 1] < DaysBefore[Months]
        BY <4>1, CronAssumption
      <4> QED BY <1>2, <2>2, <4>2 DEF YearDays
    <3> QED BY <3>1, <3>2
  <2> QED BY <2>2, <2>3 DEF MonthDays
<1> QED BY <1>1, <1>2, <1>3, <1>4

\* Each day of the year is in one month.
LEMMA MonthExists ==
    ASSUME NEW x \in 0 .. YearDays - 1
    PROVE  \E k \in 0 .. Months - 1 : DaysBefore[k] <= x /\ x < DaysBefore[k + 1]
<1> DEFINE S == {j \in 1 .. Months : x < DaysBefore[j]}
<1>1. Months \in S
  BY CalendarTypes DEF YearDays
<1>2. PICK j \in S : \A l \in S : j <= l
  <2>1. S \subseteq Nat
    BY CalendarTypes
  <2> HIDE DEF S
  <2> QED BY <1>1, <2>1, LeastNumber
<1>3. j - 1 \in 0 .. Months - 1 /\ (j - 1) + 1 = j
  BY CalendarTypes
<1>4. DaysBefore[j - 1] <= x
  <2>1. CASE j = 1
    BY <2>1, CronAssumption
  <2>2. CASE j # 1
    <3>1. j - 1 \in 1 .. Months /\ j - 1 \notin S
      BY <1>2, <2>2, CalendarTypes
    <3> QED BY <1>3, <3>1, CalendarTypes
  <2> QED BY <2>1, <2>2
<1> QED BY <1>2, <1>3, <1>4

LEMMA MonthIs ==
    ASSUME NEW x \in Nat, NEW k \in 0 .. Months - 1, DaysBefore[k] <= x, x < DaysBefore[k + 1],
           NEW j \in 0 .. Months - 1, DaysBefore[j] <= x, x < DaysBefore[j + 1]
    PROVE  j = k
<1>1. ASSUME NEW a \in 0 .. Months - 1, NEW b \in 0 .. Months - 1, a < b
      PROVE  DaysBefore[a + 1] <= DaysBefore[b]
  <2>1. a + 1 = b \/ a + 1 \in 0 .. b - 1
    BY <1>1, CalendarTypes
  <2>2. b \in 0 .. Months /\ DaysBefore[b] \in Nat /\ DaysBefore[a + 1] \in Nat
    BY CalendarTypes
  <2> QED BY <2>1, <2>2, CronAssumption
<1>2. /\ DaysBefore[k] \in Nat /\ DaysBefore[k + 1] \in Nat
      /\ DaysBefore[j] \in Nat /\ DaysBefore[j + 1] \in Nat
  BY CalendarTypes
<1>3. ~(j < k)
  BY <1>1, <1>2
<1>4. ~(k < j)
  BY <1>1, <1>2
<1> QED BY <1>3, <1>4, CalendarTypes

\* The hour of a minute, the day of an hour.
LEMMA HourAndDay ==
    ASSUME NEW m \in Nat
    PROVE  /\ HourOf(m) \in Nat /\ DayOf(m) \in Nat
           /\ m = HourOf(m) * HourMins + (m % HourMins) /\ m % HourMins \in 0 .. HourMins - 1
           /\ HourOf(m) = DayOf(m) * DayHours + (HourOf(m) % DayHours)
           /\ HourOf(m) % DayHours \in 0 .. DayHours - 1
<1> DEFINE H == HourOf(m)
           i == m % HourMins
           h == H % DayHours
           D == H \div DayHours
<1>1. /\ H \in Nat /\ i \in 0 .. HourMins - 1 /\ m = H * HourMins + i
  BY CalendarTypes, Divided DEF HourOf
<1>2. /\ D \in Nat /\ h \in 0 .. DayHours - 1 /\ H = D * DayHours + h
  BY <1>1, CalendarTypes, Divided
<1> HIDE DEF H, i, h, D
<1>3. m = D * DayMins + (h * HourMins + i)
  <2>1. H * HourMins = (D * DayHours) * HourMins + h * HourMins
    BY <1>1, <1>2, CalendarTypes
  <2>2. (D * DayHours) * HourMins = D * DayMins
    BY <1>2, CalendarTypes DEF DayMins
  <2> QED BY <1>1, <1>2, <2>1, <2>2, CalendarTypes, Product
<1>4. h * HourMins + i \in 0 .. DayMins - 1
  <2>1. (h + 1) * HourMins <= DayHours * HourMins /\ (h + 1) * HourMins = h * HourMins + HourMins
    BY <1>2, CalendarTypes, Times
  <2> QED BY <1>1, <1>2, <2>1, CalendarTypes, Product DEF DayMins
<1>5. DayOf(m) = D
  BY <1>2, <1>3, <1>4, CalendarTypes, Quotient DEF DayOf
<1> QED BY <1>1, <1>2, <1>5 DEF H, i, h

\* localtime of a minute of a date.
LEMMA LocalIs ==
    ASSUME NEW y \in Nat, NEW k \in 0 .. Months - 1, NEW d \in 1 .. MonthDays(k),
           NEW h \in 0 .. DayHours - 1, NEW i \in 0 .. HourMins - 1
    PROVE  /\ Minute(y, k, d, h, i) \in Nat /\ Day(y, k, d) \in Nat
           /\ HourOf(Minute(y, k, d, h, i)) = Day(y, k, d) * DayHours + h
           /\ DayOf(Minute(y, k, d, h, i)) = Day(y, k, d)
           /\ LocalTime(Minute(y, k, d, h, i)) =
                  [year |-> y, mon |-> k, mday |-> d, hour |-> h, min |-> i,
                   wday |-> Day(y, k, d) % Week]
<1> DEFINE m == Minute(y, k, d, h, i)
           D == Day(y, k, d)
           H == D * DayHours + h
           x == DaysBefore[k] + d - 1
<1>1. /\ x \in 0 .. YearDays - 1 /\ DaysBefore[k] <= x /\ x < DaysBefore[k + 1]
      /\ x - DaysBefore[k] + 1 = d
  BY CalendarTypes DEF MonthDays
<1>2. y * YearDays \in Nat
  BY CalendarTypes, Product
<1>c. YearDays \in Nat \ {0} /\ HourMins \in Nat \ {0} /\ DayHours \in Nat \ {0}
  BY CalendarTypes
<1>3. D = y * YearDays + x /\ D \in Nat
  BY <1>1, <1>2, CalendarTypes DEF Day
<1>4. D \div YearDays = y /\ D % YearDays = x
  <2> HIDE DEF x, D
  <2> QED BY <1>c, <1>1, <1>3, Quotient
<1> HIDE DEF D
<1>5. H \in Nat /\ H \div DayHours = D /\ H % DayHours = h
  <2>1. D * DayHours \in Nat
    BY <1>c, <1>3, Product
  <2>2. H \div DayHours = D /\ H % DayHours = h
    <3>1. D \in Nat /\ H = D * DayHours + h
      BY <1>3
    <3>2. DayHours \in Nat \ {0}
      BY <1>c
    <3> HIDE DEF H
    <3> QED BY <3>1, <3>2, Quotient
  <2> QED BY <1>c, <2>1, <2>2
<1>6. m = H * HourMins + i
  BY DEF Minute, D
<1> HIDE DEF H, m
<1>7. m \in Nat /\ m \div HourMins = H /\ m % HourMins = i
  <2>1. H * HourMins \in Nat
    BY <1>c, <1>5, Product
  <2>2. m \div HourMins = H /\ m % HourMins = i
    BY <1>c, <1>5, <1>6, Quotient
  <2>3. m \in Nat
    BY <1>c, <1>6, <2>1
  <2> QED BY <2>2, <2>3
<1>8. HourOf(m) = H
  BY <1>7 DEF HourOf
<1>9. DayOf(m) = D
  <2>1. DayOf(m) \in Nat /\ H = DayOf(m) * DayHours + (H % DayHours)
    BY <1>7, <1>8, HourAndDay
  <2>2. H \div DayHours = DayOf(m)
    BY <1>5, <2>1, CalendarTypes, Quotient
  <2> QED BY <1>5, <2>2
<1>10. (CHOOSE j \in 0 .. Months - 1 : DaysBefore[j] <= x /\ x < DaysBefore[j + 1]) = k
  <2> DEFINE P(j) == DaysBefore[j] <= x /\ x < DaysBefore[j + 1]
  <2>1. P(k)
    BY <1>1
  <2>2. ASSUME NEW j \in 0 .. Months - 1, P(j) PROVE j = k
    BY <1>1, <2>2, MonthIs
  <2> QED BY <2>1, <2>2
<1>11. LocalTime(m) = [year |-> y, mon |-> k, mday |-> d, hour |-> h, min |-> i, wday |-> D % Week]
  <2>1. m \div (DayHours * HourMins) = D
    BY <1>9 DEF DayOf, DayMins
  <2> HIDE DEF x
  <2> QED BY <1>1, <1>4, <1>5, <1>7, <1>10, <2>1 DEF LocalTime
<1> QED BY <1>3, <1>7, <1>8, <1>9, <1>11 DEF m, D, H

\* Every minute is one of a date.
LEMMA LocalForm ==
    ASSUME NEW m \in Nat
    PROVE  \E y \in Nat, k \in 0 .. Months - 1 :
               \E d \in 1 .. MonthDays(k), h \in 0 .. DayHours - 1, i \in 0 .. HourMins - 1 :
                   m = Minute(y, k, d, h, i)
<1> DEFINE D == DayOf(m)
           y == D \div YearDays
           x == D % YearDays
           h == HourOf(m) % DayHours
           i == m % HourMins
<1>1. /\ HourOf(m) \in Nat /\ D \in Nat /\ i \in 0 .. HourMins - 1 /\ h \in 0 .. DayHours - 1
      /\ m = (D * DayHours + h) * HourMins + i
  BY HourAndDay
<1>2. y \in Nat /\ x \in 0 .. YearDays - 1 /\ D = y * YearDays + x
  BY <1>1, CalendarTypes, Divided
<1> HIDE DEF D, y, x, h, i
<1>3. PICK k \in 0 .. Months - 1 : DaysBefore[k] <= x /\ x < DaysBefore[k + 1]
  BY <1>2, MonthExists
<1> DEFINE d == x - DaysBefore[k] + 1
<1>4. d \in 1 .. MonthDays(k) /\ DaysBefore[k] + d - 1 = x /\ DaysBefore[k] \in Nat
  BY <1>2, <1>3, CalendarTypes DEF MonthDays
<1> HIDE DEF d
<1>5. Day(y, k, d) = D
  BY <1>2, <1>4, CalendarTypes, Product DEF Day
<1>6. m = Minute(y, k, d, h, i)
  BY <1>1, <1>5 DEF Minute
<1> QED BY <1>1, <1>2, <1>3, <1>4, <1>6

\* The search adds an hour and clears the minutes: it is at the next full hour.
LEMMA HourStep ==
    ASSUME NEW m \in Nat
    PROVE  /\ (HourOf(m) + 1) * HourMins \in Nat /\ (HourOf(m) + 1) * HourMins > m
           /\ [LocalTime(m + HourMins) EXCEPT !.min = 0] = LocalTime((HourOf(m) + 1) * HourMins)
<1> DEFINE H == HourOf(m)
           i == m % HourMins
           n == (H + 1) * HourMins
<1>c. HourMins \in Nat \ {0}
  BY CalendarTypes
<1>1. H \in Nat /\ i \in 0 .. HourMins - 1 /\ m = H * HourMins + i
  BY HourAndDay
<1> HIDE DEF H, i
<1>2. n = H * HourMins + HourMins /\ n \in Nat /\ H * HourMins \in Nat
  BY <1>c, <1>1, Product
<1>3. n \div HourMins = H + 1 /\ n % HourMins = 0
  <2>1. 0 \in 0 .. HourMins - 1 /\ H + 1 \in Nat /\ n = (H + 1) * HourMins + 0
    BY <1>c, <1>1, <1>2
  <2> HIDE DEF n
  <2> QED BY <1>c, <2>1, Quotient
<1> HIDE DEF n
<1>4. PICK y \in Nat, k \in 0 .. Months - 1 :
          \E d \in 1 .. MonthDays(k), h \in 0 .. DayHours - 1, j \in 0 .. HourMins - 1 :
              n = Minute(y, k, d, h, j)
  BY <1>2, LocalForm, Zenon
<1>5. PICK d \in 1 .. MonthDays(k), h \in 0 .. DayHours - 1, j \in 0 .. HourMins - 1 :
          n = Minute(y, k, d, h, j)
  BY <1>4
<1>6. LocalTime(n) = [year |-> y, mon |-> k, mday |-> d, hour |-> h, min |-> j,
                      wday |-> Day(y, k, d) % Week]
  BY <1>5, LocalIs
<1>7. j = 0
  BY <1>3, <1>6 DEF LocalTime
<1>8. m + HourMins = Minute(y, k, d, h, i)
  <2>1. Day(y, k, d) \in Nat
    BY LocalIs
  <2>2. (Day(y, k, d) * DayHours + h) * HourMins \in Nat
    BY <2>1, CalendarTypes, Product
  <2>3. n = (Day(y, k, d) * DayHours + h) * HourMins
    BY <1>5, <1>7, <2>2 DEF Minute
  <2>4. m + HourMins = n + i
    BY <1>c, <1>1, <1>2
  <2> QED BY <2>3, <2>4 DEF Minute
<1>9. LocalTime(m + HourMins) = [year |-> y, mon |-> k, mday |-> d, hour |-> h, min |-> i,
                                 wday |-> Day(y, k, d) % Week]
  BY <1>1, <1>8, LocalIs
<1>10. n > m
  BY <1>c, <1>1, <1>2
<1> QED BY <1>2, <1>6, <1>7, <1>9, <1>10 DEF n, H

\* It adds a day and clears hours and minutes: it is at the next midnight.
LEMMA DayStep ==
    ASSUME NEW m \in Nat
    PROVE  /\ (DayOf(m) + 1) * DayMins \in Nat /\ (DayOf(m) + 1) * DayMins > m
           /\ [LocalTime(m + DayHours * HourMins) EXCEPT !.hour = 0, !.min = 0]
                  = LocalTime((DayOf(m) + 1) * DayMins)
<1> DEFINE D == DayOf(m)
           n == (D + 1) * DayMins
<1>c. /\ HourMins \in Nat \ {0} /\ DayHours \in Nat \ {0} /\ DayMins \in Nat \ {0}
      /\ DayMins = DayHours * HourMins
  BY CalendarTypes DEF DayMins
<1>1. D \in Nat /\ m % DayMins \in 0 .. DayMins - 1 /\ m = D * DayMins + (m % DayMins)
  BY <1>c, Divided DEF DayOf
<1> HIDE DEF D
<1>2. n = D * DayMins + DayMins /\ n \in Nat /\ D * DayMins \in Nat
  BY <1>c, <1>1, Product
<1>3. n \div DayMins = D + 1
  <2>1. 0 \in 0 .. DayMins - 1 /\ D + 1 \in Nat /\ n = (D + 1) * DayMins + 0
    BY <1>c, <1>1, <1>2
  <2> HIDE DEF n
  <2> QED BY <1>c, <2>1, Quotient
<1>4. n > m
  BY <1>c, <1>1, <1>2
<1> HIDE DEF n
<1>5. PICK y \in Nat, k \in 0 .. Months - 1 :
          \E d \in 1 .. MonthDays(k), h \in 0 .. DayHours - 1, j \in 0 .. HourMins - 1 :
              n = Minute(y, k, d, h, j)
  BY <1>2, LocalForm, Zenon
<1>6. PICK d \in 1 .. MonthDays(k), h \in 0 .. DayHours - 1, j \in 0 .. HourMins - 1 :
          n = Minute(y, k, d, h, j)
  BY <1>5
<1> DEFINE E == Day(y, k, d)
<1>7. E \in Nat /\ E = D + 1
  BY <1>3, <1>6, LocalIs DEF DayOf
<1> HIDE DEF E
<1>8. n = (E * DayHours) * HourMins
  BY <1>c, <1>7 DEF n
<1>9. LocalTime(n) = [year |-> y, mon |-> k, mday |-> d, hour |-> 0, min |-> 0, wday |-> E % Week]
  <2>1. 0 \in 0 .. DayHours - 1 /\ 0 \in 0 .. HourMins - 1
    BY <1>c
  <2>2. Minute(y, k, d, 0, 0) = (E * DayHours + 0) * HourMins + 0
    BY DEF Minute, E
  <2>3. E * DayHours \in Nat /\ (E * DayHours) * HourMins \in Nat
    BY <1>c, <1>7, Product
  <2>4. n = Minute(y, k, d, 0, 0)
    BY <1>8, <2>2, <2>3
  <2> QED BY <2>1, <2>4, LocalIs DEF E
<1>10. PICK h2 \in 0 .. DayHours - 1, i2 \in 0 .. HourMins - 1 : m = (D * DayHours + h2) * HourMins + i2
  BY HourAndDay DEF D
<1>11. m + DayHours * HourMins = Minute(y, k, d, h2, i2)
  <2> DEFINE u == D * DayHours
             v == E * DayHours
  <2>1. v = u + DayHours /\ u \in Nat
    BY <1>c, <1>1, <1>7, Product
  <2> HIDE DEF u, v
  <2>2. (v + h2) * HourMins = (u + h2) * HourMins + DayHours * HourMins
    BY <1>c, <2>1
  <2>3. (u + h2) * HourMins \in Nat /\ DayHours * HourMins \in Nat
    BY <1>c, <2>1, Product
  <2>4. m = (u + h2) * HourMins + i2
    BY <1>10 DEF u
  <2>5. Minute(y, k, d, h2, i2) = (v + h2) * HourMins + i2
    BY DEF Minute, v, E
  <2> QED BY <2>2, <2>3, <2>4, <2>5
<1>12. LocalTime(m + DayHours * HourMins) = [year |-> y, mon |-> k, mday |-> d, hour |-> h2,
                                             min |-> i2, wday |-> E % Week]
  BY <1>11, LocalIs DEF E
<1>13. [LocalTime(m + DayHours * HourMins) EXCEPT !.hour = 0, !.min = 0] = LocalTime(n)
  <2> DEFINE r == LocalTime(m + DayHours * HourMins)
             w == E % Week
  <2>1. r = [year |-> y, mon |-> k, mday |-> d, hour |-> h2, min |-> i2, wday |-> w]
    BY <1>12
  <2>2. LocalTime(n) = [year |-> y, mon |-> k, mday |-> d, hour |-> 0, min |-> 0, wday |-> w]
    BY <1>9
  <2> HIDE DEF r, w
  <2>3. [r EXCEPT !.hour = 0, !.min = 0]
            = [year |-> y, mon |-> k, mday |-> d, hour |-> 0, min |-> 0, wday |-> w]
    <3> DEFINE t == [r EXCEPT !.hour = 0]
    <3>1. t = [year |-> y, mon |-> k, mday |-> d, hour |-> 0, min |-> i2, wday |-> w]
      BY <2>1
    <3> HIDE DEF t
    <3>2. [t EXCEPT !.min = 0] = [year |-> y, mon |-> k, mday |-> d, hour |-> 0, min |-> 0, wday |-> w]
      BY <3>1
    <3>3. [r EXCEPT !.hour = 0, !.min = 0] = [t EXCEPT !.min = 0]
      BY DEF t
    <3> QED BY <3>2, <3>3, Zenon
  <2> QED BY <2>2, <2>3, Zenon DEF r
<1> QED BY <1>2, <1>4, <1>13, Zenon DEF n, D

\* What the search skips when it adds an hour, or a day, is of the same hour, or day.
LEMMA SameHour ==
    ASSUME NEW m \in Nat, NEW n \in m .. (HourOf(m) + 1) * HourMins - 1
    PROVE  n \in Nat /\ LocalTime(n).hour = LocalTime(m).hour
<1>1. HourOf(m) \in Nat /\ m = HourOf(m) * HourMins + (m % HourMins) /\ m % HourMins \in Nat
  BY HourAndDay, CalendarTypes
<1>2. HourMins \in Nat \ {0} /\ HourOf(m) * HourMins \in Nat /\ (HourOf(m) + 1) * HourMins \in Nat
  BY <1>1, CalendarTypes, Product
<1>3. n \in Nat /\ HourOf(m) * HourMins <= n /\ n < (HourOf(m) + 1) * HourMins
  BY <1>1, <1>2
<1>4. HourOf(m) <= HourOf(n) /\ HourOf(n) < HourOf(m) + 1
  BY <1>1, <1>2, <1>3, Between DEF HourOf
<1>5. HourOf(n) = HourOf(m)
  <2>1. HourOf(n) \in Nat
    BY <1>3, HourAndDay
  <2> QED BY <1>1, <1>4, <2>1
<1> QED BY <1>3, <1>5 DEF LocalTime, HourOf

LEMMA SameDay ==
    ASSUME NEW m \in Nat, NEW n \in m .. (DayOf(m) + 1) * DayMins - 1
    PROVE  /\ n \in Nat
           /\ LocalTime(n).mday = LocalTime(m).mday /\ LocalTime(n).wday = LocalTime(m).wday
<1>1. DayOf(m) \in Nat /\ m = DayOf(m) * DayMins + (m % DayMins) /\ m % DayMins \in Nat
  BY Divided, CalendarTypes DEF DayOf
<1>2. DayMins \in Nat \ {0} /\ DayOf(m) * DayMins \in Nat /\ (DayOf(m) + 1) * DayMins \in Nat
  BY <1>1, CalendarTypes, Product
<1>3. n \in Nat /\ DayOf(m) * DayMins <= n /\ n < (DayOf(m) + 1) * DayMins
  BY <1>1, <1>2
<1>4. DayOf(m) <= DayOf(n) /\ DayOf(n) < DayOf(m) + 1
  BY <1>1, <1>2, <1>3, Between DEF DayOf
<1>5. DayOf(n) = DayOf(m)
  <2>1. DayOf(n) \in Nat
    BY <1>3, HourAndDay
  <2> QED BY <1>1, <1>4, <2>1
<1>6. n \div (DayHours * HourMins) = m \div (DayHours * HourMins)
  BY <1>5 DEF DayOf, DayMins
<1> DEFINE Mday(D) == LET inYear == D % YearDays
                          mon == CHOOSE k \in 0 .. Months - 1 :
                                     DaysBefore[k] <= inYear /\ inYear < DaysBefore[k + 1]
                      IN  inYear - DaysBefore[mon] + 1
<1>7. \A x \in Nat : /\ LocalTime(x).mday = Mday(x \div (DayHours * HourMins))
                     /\ LocalTime(x).wday = (x \div (DayHours * HourMins)) % Week
  BY DEF LocalTime
<1> HIDE DEF Mday
<1> QED BY <1>3, <1>6, <1>7

-----------------------------------------------------------------------------
(* Cron: the search.                                                        *)

\* A broken-down time in the bounds of its fields; the day of the week may be stale.
Normal(t) == /\ t \in [year : Nat, mon : 0 .. Months - 1, mday : Nat, hour : 0 .. DayHours - 1,
                       min : 0 .. HourMins - 1, wday : Nat]
             /\ t.mday \in 1 .. MonthDays(t.mon)

\* The search has passed over nothing that matches, and the day of the week is right as
\* long as it never moves by months.
SearchInv ==
    /\ Normal(next) /\ from \in Nat /\ MkTime(next) > from
    /\ cron.month = Star => next.wday = LocalTime(MkTime(next)).wday
    /\ found # Star => found = MkTime(next)
    /\ cron.month = Star \/ cron.dow = Star =>
           /\ \A m \in from + 1 .. MkTime(next) - 1 : ~Matches(m)
           /\ found # Star => Matches(found)

CronInv == IF cron.made = "yes" THEN SearchInv ELSE found = Star

LEMMA MkTimeIs == \A t : MkTime(t) = Minute(t.year, t.mon, t.mday, t.hour, t.min)
BY DEF MkTime, Minute, Day

\* localtime gives a normal time, of which mktime makes the same minute again.
LEMMA LocalNormal == ASSUME NEW m \in Nat
                     PROVE  Normal(LocalTime(m)) /\ MkTime(LocalTime(m)) = m
<1>1. PICK y \in Nat, k \in 0 .. Months - 1 :
          \E d \in 1 .. MonthDays(k), h \in 0 .. DayHours - 1, j \in 0 .. HourMins - 1 :
              m = Minute(y, k, d, h, j)
  BY LocalForm, Zenon
<1>2. PICK d \in 1 .. MonthDays(k), h \in 0 .. DayHours - 1, j \in 0 .. HourMins - 1 :
          m = Minute(y, k, d, h, j)
  BY <1>1
<1> DEFINE w == Day(y, k, d) % Week
<1>3. LocalTime(m) = [year |-> y, mon |-> k, mday |-> d, hour |-> h, min |-> j, wday |-> w]
  BY <1>2, LocalIs
<1>4. w \in Nat
  <2>1. Day(y, k, d) \in Nat
    BY LocalIs
  <2> QED BY <2>1, CalendarTypes, Divided
<1> HIDE DEF w
<1>5. Normal(LocalTime(m))
  BY <1>3, <1>4, CalendarTypes DEF Normal
<1>6. MkTime(LocalTime(m)) = Minute(y, k, d, h, j)
  BY <1>3, MkTimeIs
<1> QED BY <1>2, <1>5, <1>6

\* localtime undoes mktime, but for a stale day of the week.
LEMMA NormalLocal == ASSUME NEW t, Normal(t)
                     PROVE  /\ MkTime(t) \in Nat
                            /\ LocalTime(MkTime(t)).year = t.year
                            /\ LocalTime(MkTime(t)).mon = t.mon /\ LocalTime(MkTime(t)).mday = t.mday
                            /\ LocalTime(MkTime(t)).hour = t.hour /\ LocalTime(MkTime(t)).min = t.min
                            /\ DayOf(MkTime(t)) = Day(t.year, t.mon, t.mday)
<1>1. /\ t.year \in Nat /\ t.mon \in 0 .. Months - 1 /\ t.mday \in 1 .. MonthDays(t.mon)
      /\ t.hour \in 0 .. DayHours - 1 /\ t.min \in 0 .. HourMins - 1
  BY DEF Normal
<1>2. MkTime(t) = Minute(t.year, t.mon, t.mday, t.hour, t.min)
  BY MkTimeIs
<1> QED BY <1>1, <1>2, LocalIs

\* The search moves to the first minute of the next month; all before it are of this one.
LEMMA MonthStep ==
    ASSUME Normal(next)
    PROVE  /\ Normal(NextMonth) /\ MkTime(NextMonth) > MkTime(next)
           /\ \A m \in MkTime(next) .. MkTime(NextMonth) - 1 :
                  m \in Nat /\ LocalTime(m).mon = next.mon
<1> DEFINE y == next.year
           k == next.mon
           Y == y * YearDays
           m0 == MkTime(next)
           m1 == MkTime(NextMonth)
           last == k + 1 > Months - 1
<1>c. /\ HourMins \in Nat \ {0} /\ DayHours \in Nat \ {0} /\ DayMins \in Nat \ {0}
      /\ YearDays \in Nat \ {0} /\ Months \in Nat \ {0}
  BY CalendarTypes
<1>1. y \in Nat /\ k \in 0 .. Months - 1 /\ next.mday \in 1 .. MonthDays(k) /\ Y \in Nat
  BY <1>c, Product DEF Normal
<1>2. NextMonth = [year |-> IF last THEN y + 1 ELSE y, mon |-> IF last THEN 0 ELSE k + 1,
                   mday |-> 1, hour |-> 0, min |-> 0, wday |-> next.wday]
  <2> DEFINE K == IF last THEN 0 ELSE k + 1
             Z == IF last THEN y + 1 ELSE y
             w == next.wday
             a == [next EXCEPT !.mon = K]
             b == [a EXCEPT !.year = Z]
             c == [b EXCEPT !.mday = 1]
             d == [c EXCEPT !.hour = 0]
             e == [d EXCEPT !.min = 0]
  <2>1. next = [year |-> y, mon |-> k, mday |-> next.mday, hour |-> next.hour,
                min |-> next.min, wday |-> w]
    BY DEF Normal
  <2>2. NextMonth = e
    BY <2>1, Zenon DEF NextMonth
  <2> HIDE DEF K, Z, w, y, k
  <2>3. a = [year |-> y, mon |-> K, mday |-> next.mday, hour |-> next.hour,
             min |-> next.min, wday |-> w]
    BY <2>1
  <2> HIDE DEF a
  <2>4. b = [year |-> Z, mon |-> K, mday |-> next.mday, hour |-> next.hour,
             min |-> next.min, wday |-> w]
    BY <2>3
  <2> HIDE DEF b
  <2>5. c = [year |-> Z, mon |-> K, mday |-> 1, hour |-> next.hour, min |-> next.min, wday |-> w]
    BY <2>4
  <2> HIDE DEF c
  <2>6. d = [year |-> Z, mon |-> K, mday |-> 1, hour |-> 0, min |-> next.min, wday |-> w]
    BY <2>5
  <2> HIDE DEF d
  <2>7. e = [year |-> Z, mon |-> K, mday |-> 1, hour |-> 0, min |-> 0, wday |-> w]
    BY <2>6
  <2> HIDE DEF e
  <2> QED BY <2>2, <2>7, Zenon DEF K, Z, w, y, k
<1>3. Normal(NextMonth)
  <2>1. (IF last THEN y + 1 ELSE y) \in Nat /\ (IF last THEN 0 ELSE k + 1) \in 0 .. Months - 1
    BY <1>c, <1>1
  <2>2. 1 \in 1 .. MonthDays(IF last THEN 0 ELSE k + 1)
    BY <2>1, CalendarTypes
  <2>3. next.wday \in Nat /\ 0 \in 0 .. DayHours - 1 /\ 0 \in 0 .. HourMins - 1
    BY <1>c DEF Normal
  <2> QED BY <1>2, <2>1, <2>2, <2>3 DEF Normal
<1>4. m0 \in Nat /\ DayOf(m0) = Y + DaysBefore[k] + next.mday - 1
  BY NormalLocal DEF Day
<1>5. /\ DaysBefore[k] \in Nat /\ DaysBefore[k + 1] \in Nat /\ DaysBefore[k] < DaysBefore[k + 1]
      /\ DaysBefore[k + 1] <= YearDays
  BY <1>1, CalendarTypes
<1>6. Day(NextMonth.year, NextMonth.mon, NextMonth.mday) = Y + DaysBefore[k + 1]
  <2>1. CASE last
    <3>1. k + 1 = Months /\ NextMonth.year = y + 1 /\ NextMonth.mon = 0 /\ NextMonth.mday = 1
      BY <1>c, <1>1, <1>2, <2>1
    <3>2. (y + 1) * YearDays = Y + YearDays
      BY <1>c, <1>1
    <3>3. DaysBefore[0] = 0 /\ DaysBefore[k + 1] = YearDays
      BY <3>1, CronAssumption DEF YearDays
    <3> HIDE DEF Y
    <3> QED BY <1>c, <1>1, <3>1, <3>2, <3>3 DEF Day
  <2>2. CASE ~last
    <3>1. NextMonth.year = y /\ NextMonth.mon = k + 1 /\ NextMonth.mday = 1
      BY <1>2, <2>2
    <3>2. Day(y, k + 1, 1) = Y + DaysBefore[k + 1] + 1 - 1
      BY DEF Day
    <3> HIDE DEF Y
    <3> QED BY <1>1, <1>5, <3>1, <3>2
  <2> QED BY <2>1, <2>2
<1> DEFINE N == Y + DaysBefore[k + 1]
<1>7. N \in Nat
  <2> HIDE DEF Y
  <2> QED BY <1>1, <1>5
<1>8. m1 = N * DayMins
  <2>1. m1 = ((N * DayHours) + 0) * HourMins + 0
    BY <1>2, <1>6, MkTimeIs DEF Minute
  <2> HIDE DEF N
  <2>2. N * DayHours \in Nat /\ (N * DayHours) * HourMins \in Nat
    BY <1>c, <1>7, Product
  <2>3. m1 = (N * DayHours) * HourMins
    BY <2>1, <2>2
  <2> QED BY <1>c, <1>7, <2>3 DEF DayMins
<1>9. m1 \in Nat
  BY <1>3, NormalLocal
<1> HIDE DEF m1, N, Y
<1>10. m0 < m1
  <2>1. DayOf(m0) < N
    BY <1>1, <1>4, <1>5 DEF N, MonthDays
  <2>2. N * DayMins <= m0 => N <= DayOf(m0)
    BY <1>c, <1>4, <1>7, Between DEF DayOf
  <2>3. DayOf(m0) \in Nat
    BY <1>4, HourAndDay
  <2> HIDE DEF m0
  <2> QED BY <1>4, <1>7, <1>8, <1>9, <2>1, <2>2, <2>3
<1>11. ASSUME NEW m \in m0 .. m1 - 1 PROVE m \in Nat /\ LocalTime(m).mon = k
  <2>1. m \in Nat /\ m0 <= m /\ m < m1
    BY <1>4, <1>9
  <2>2. DayOf(m) < N /\ DayOf(m) \in Nat
    BY <1>c, <1>7, <1>8, <2>1, Between, HourAndDay DEF DayOf
  <2> DEFINE A == Y + DaysBefore[k]
  <2>3. A \in Nat /\ A <= DayOf(m0) /\ DayOf(m0) \in Nat
    BY <1>1, <1>4, <1>5
  <2> HIDE DEF A
  <2>4. A * DayMins <= m0
    <3>1. A * DayMins <= DayOf(m0) * DayMins
      BY <1>c, <2>3, Times
    <3>2. m0 = DayOf(m0) * DayMins + (m0 % DayMins) /\ m0 % DayMins \in Nat
      <4> HIDE DEF m0
      <4>1. m0 \in Nat
        BY <1>4
      <4>2. m0 % DayMins \in 0 .. DayMins - 1 /\ m0 = (m0 \div DayMins) * DayMins + (m0 % DayMins)
        BY <1>c, <4>1, Divided
      <4> QED BY <4>2, <1>c DEF DayOf
    <3>3. DayOf(m0) * DayMins \in Nat /\ A * DayMins \in Nat
      BY <1>c, <2>3, Product
    <3> HIDE DEF m0
    <3> QED BY <3>1, <3>2, <3>3
  <2>5. A * DayMins <= m
    <3>1. A * DayMins \in Nat
      BY <1>c, <2>3, Product
    <3> HIDE DEF m0
    <3> QED BY <1>4, <2>1, <2>4, <3>1
  <2>6. A <= DayOf(m)
    BY <1>c, <2>1, <2>3, <2>5, Between DEF DayOf
  <2> DEFINE x == DayOf(m) - Y
  <2>7. /\ x \in 0 .. YearDays - 1 /\ DaysBefore[k] <= x /\ x < DaysBefore[k + 1]
        /\ DayOf(m) = Y + x
    BY <1>c, <1>1, <1>5, <2>2, <2>6 DEF A, N
  <2> HIDE DEF x
  <2>8. DayOf(m) % YearDays = x
    BY <1>c, <1>1, <2>7, Quotient DEF Y
  <2>9. (CHOOSE j \in 0 .. Months - 1 : DaysBefore[j] <= x /\ x < DaysBefore[j + 1]) = k
    <3> DEFINE P(j) == DaysBefore[j] <= x /\ x < DaysBefore[j + 1]
    <3>1. P(k)
      BY <2>7
    <3>2. ASSUME NEW j \in 0 .. Months - 1, P(j) PROVE j = k
      BY <1>1, <2>7, <3>2, MonthIs
    <3> HIDE DEF k
    <3> QED BY <1>1, <3>1, <3>2
  <2>10. (m \div (DayHours * HourMins)) % YearDays = x
    BY <2>8 DEF DayOf, DayMins
  <2> HIDE DEF k
  <2> QED BY <2>1, <2>9, <2>10 DEF LocalTime
<1> QED BY <1>3, <1>10, <1>11 DEF m1

LEMMA CronInvInit == CronInit => CronInv
BY DEF CronInit, CronInv

LEMMA ConstructInv ==
    ASSUME CronInv, NEW mi, NEW h, NEW d, NEW mo, NEW dow, Construct(mi, h, d, mo, dow)
    PROVE  CronInv'
<1>1. found = Star /\ found' = Star
  BY DEF Construct, CronInv
<1>2. PICK f \in Froms : from' = f /\ next' = LocalTime(f + 1)
  BY DEF Construct
<1>3. f \in Nat
  BY CronAssumption
<1>4. Normal(next') /\ MkTime(next') = f + 1
  BY <1>2, <1>3, LocalNormal
<1>5. (from + 1 .. MkTime(next) - 1)' = {}
  <2>1. \A m : ~(m \in f + 1 .. (f + 1) - 1)
    BY <1>3
  <2>2. (from + 1 .. MkTime(next) - 1)' = f + 1 .. (f + 1) - 1
    BY <1>2, <1>4 DEF MkTime
  <2> QED BY <2>1, <2>2
<1>6. MkTime(next)' = f + 1
  BY <1>4 DEF MkTime
<1>7. SearchInv'
  BY <1>1, <1>2, <1>3, <1>4, <1>5, <1>6 DEF SearchInv, Normal
<1> QED BY <1>1, <1>7 DEF CronInv

\* A move of the search over minutes of which none matches keeps its invariant.
LEMMA SearchMove ==
    ASSUME SearchInv, found = Star, found' = found, cron' = cron, from' = from,
           Normal(next'), MkTime(next') > MkTime(next),
           cron.month = Star => next'.wday = LocalTime(MkTime(next')).wday,
           cron.month = Star \/ cron.dow = Star =>
               \A m \in MkTime(next) .. MkTime(next') - 1 : ~Matches(m)
    PROVE  SearchInv'
<1> DEFINE a == MkTime(next)
           b == MkTime(next')
<1>1. a \in Nat /\ b \in Nat /\ from \in Nat /\ a > from /\ b > a
  BY NormalLocal DEF SearchInv
<1>2. \A m : Matches(m)' = Matches(m)
  BY Zenon DEF Matches
<1>3. MkTime(next)' = b /\ Normal(next)' = Normal(next')
  BY DEF MkTime, Normal
<1>4. ASSUME cron.month = Star \/ cron.dow = Star, NEW m \in from + 1 .. b - 1
      PROVE  ~Matches(m)
  <2> HIDE DEF a, b
  <2>1. m \in from + 1 .. a - 1 \/ m \in a .. b - 1
    BY <1>1
  <2>2. CASE m \in from + 1 .. a - 1
    BY <1>4, <2>2, Zenon DEF SearchInv, a
  <2>3. CASE m \in a .. b - 1
    BY <1>4, <2>3, Zenon DEF a, b
  <2> QED BY <2>1, <2>2, <2>3
<1>5. b > from
  <2> HIDE DEF a, b
  <2> QED BY <1>1
<1>6. LocalTime(MkTime(next))' = LocalTime(b)
  BY <1>3 DEF LocalTime
<1> HIDE DEF b
<1>7. (cron.month = Star \/ cron.dow = Star)' =>
         \A m \in (from + 1 .. MkTime(next) - 1)' : ~Matches(m)'
  BY <1>2, <1>3, <1>4, Zenon
<1>8. (cron.month = Star)' => (next.wday = LocalTime(MkTime(next)).wday)'
  BY <1>6, Zenon DEF b
<1>9. (Normal(next) /\ from \in Nat /\ MkTime(next) > from)'
  BY <1>1, <1>3, <1>5
<1> QED BY <1>7, <1>8, <1>9 DEF SearchInv

LEMMA SearchInvStep == ASSUME CronInv, Search PROVE CronInv'
<1>0. SearchInv /\ cron.made = "yes" /\ found = Star /\ cron' = cron /\ from' = from
  BY DEF Search, CronInv
<1> DEFINE m0 == MkTime(next)
           L == LocalTime(m0)
           Moved == \/ Differs(cron.month, next.mon) \/ Differs(cron.day, next.mday)
                    \/ Differs(cron.dow, next.wday) \/ Differs(cron.hour, next.hour)
                    \/ Differs(cron.minute, next.min)
<1>1. /\ Normal(next) /\ m0 \in Nat /\ L.mon = next.mon /\ L.mday = next.mday
      /\ L.hour = next.hour /\ L.min = next.min
  BY <1>0, NormalLocal DEF SearchInv
<1>2. cron.month = Star => L.wday = next.wday
  BY <1>0 DEF SearchInv
<1> HIDE DEF L
<1>3. ASSUME Moved, Differs(cron.month, next.mon) PROVE SearchInv'
  <2>1. next' = NextMonth /\ found' = found
    BY <1>3 DEF Search
  <2>2. /\ Normal(next') /\ MkTime(next') > m0
        /\ \A m \in m0 .. MkTime(next') - 1 : m \in Nat /\ LocalTime(m).mon = next.mon
    BY <1>1, <2>1, MonthStep
  <2>3. \A m \in m0 .. MkTime(next') - 1 : ~Matches(m)
    BY <1>3, <2>2, Zenon DEF Matches
  <2>4. cron.month # Star
    BY <1>3 DEF Differs
  <2> QED BY <1>0, <2>1, <2>2, <2>3, <2>4, SearchMove
<1>4. ASSUME Moved, ~Differs(cron.month, next.mon),
             Differs(cron.day, next.mday) \/ Differs(cron.dow, next.wday)
      PROVE  SearchInv'
  <2> DEFINE n == (DayOf(m0) + 1) * DayMins
  <2>1. next' = NextDay /\ found' = found
    BY <1>4 DEF Search
  <2>2. NextDay = LocalTime(n) /\ n \in Nat /\ n > m0
    BY <1>1, DayStep DEF NextDay, Add
  <2>3. Normal(next') /\ MkTime(next') = n
    BY <2>1, <2>2, LocalNormal
  <2>4. ASSUME NEW m \in m0 .. n - 1, cron.month = Star \/ cron.dow = Star PROVE ~Matches(m)
    <3>1. LocalTime(m).mday = next.mday /\ LocalTime(m).wday = L.wday
      BY <1>1, SameDay DEF L
    <3>2. cron.month # Star => cron.dow = Star
      BY <2>4
    <3> QED BY <1>2, <1>4, <3>1, <3>2, Zenon DEF Matches, Differs
  <2> HIDE DEF n
  <2>5. next'.wday = LocalTime(MkTime(next')).wday
    BY <2>1, <2>2, <2>3
  <2> QED BY <1>0, <2>1, <2>2, <2>3, <2>4, <2>5, SearchMove
<1>5. ASSUME Moved, ~Differs(cron.month, next.mon), ~Differs(cron.day, next.mday),
             ~Differs(cron.dow, next.wday), Differs(cron.hour, next.hour)
      PROVE  SearchInv'
  <2> DEFINE n == (HourOf(m0) + 1) * HourMins
  <2>1. next' = NextHour /\ found' = found
    BY <1>5 DEF Search
  <2>2. NextHour = LocalTime(n) /\ n \in Nat /\ n > m0
    BY <1>1, HourStep DEF NextHour, Add
  <2>3. Normal(next') /\ MkTime(next') = n
    BY <2>1, <2>2, LocalNormal
  <2>4. ASSUME NEW m \in m0 .. n - 1 PROVE ~Matches(m)
    <3>1. LocalTime(m).hour = next.hour
      BY <1>1, SameHour DEF L
    <3> QED BY <1>5, <3>1, Zenon DEF Matches
  <2> HIDE DEF n
  <2>5. next'.wday = LocalTime(MkTime(next')).wday
    BY <2>1, <2>2, <2>3
  <2> QED BY <1>0, <2>1, <2>2, <2>3, <2>4, <2>5, SearchMove
<1>6. ASSUME Moved, ~Differs(cron.month, next.mon), ~Differs(cron.day, next.mday),
             ~Differs(cron.dow, next.wday), ~Differs(cron.hour, next.hour)
      PROVE  SearchInv'
  <2> DEFINE n == m0 + 1
  <2>1. next' = LocalTime(n) /\ found' = found
    BY <1>6 DEF Search, Add
  <2>2. n \in Nat /\ n > m0
    BY <1>1
  <2>3. Normal(next') /\ MkTime(next') = n
    BY <2>1, <2>2, LocalNormal
  <2>4. ASSUME NEW m \in m0 .. n - 1 PROVE ~Matches(m)
    <3>1. m = m0
      BY <1>1
    <3>2. Differs(cron.minute, L.min)
      BY <1>1, <1>6
    <3> QED BY <3>1, <3>2, Zenon DEF Matches, L
  <2> HIDE DEF n
  <2>5. next'.wday = LocalTime(MkTime(next')).wday
    BY <2>1, <2>2, <2>3
  <2> QED BY <1>0, <2>1, <2>2, <2>3, <2>4, <2>5, SearchMove
<1>7. ASSUME ~Moved PROVE SearchInv'
  <2>1. found' = m0 /\ next' = next
    BY <1>7 DEF Search
  <2>2. cron.month = Star \/ cron.dow = Star => Matches(m0)
    <3>1. cron.dow = Star => ~Differs(cron.dow, L.wday)
      BY DEF Differs
    <3>2. cron.month = Star => ~Differs(cron.dow, L.wday)
      BY <1>2, <1>7, Zenon
    <3>3. /\ ~Differs(cron.month, L.mon) /\ ~Differs(cron.day, L.mday)
          /\ ~Differs(cron.hour, L.hour) /\ ~Differs(cron.minute, L.min)
      BY <1>1, <1>7, Zenon
    <3> QED BY <3>1, <3>2, <3>3, Zenon DEF Matches, L
  <2>3. /\ MkTime(next)' = m0 /\ LocalTime(MkTime(next))' = LocalTime(m0)
        /\ Normal(next)' = Normal(next) /\ \A m : Matches(m)' = Matches(m)
    <3>1. MkTime(next)' = m0 /\ Normal(next)' = Normal(next)
      BY <2>1, Zenon DEF MkTime, Normal
    <3>2. \A m : Matches(m)' = Matches(m)
      BY <1>0, Zenon DEF Matches
    <3>3. LocalTime(MkTime(next))' = LocalTime(m0)
      BY <3>1, Zenon DEF LocalTime
    <3> QED BY <3>1, <3>2, <3>3
  <2>4. Matches(found)' = Matches(m0)
    BY <1>0, <2>1, Zenon DEF Matches
  <2>5. (Normal(next) /\ from \in Nat /\ MkTime(next) > from)'
    BY <1>0, <2>3 DEF SearchInv
  <2>6. (cron.month = Star => next.wday = LocalTime(MkTime(next)).wday)'
    BY <1>0, <2>1, <2>3, Zenon DEF SearchInv
  <2>7. (found # Star => found = MkTime(next))'
    BY <2>1, <2>3, Zenon
  <2>8. (cron.month = Star \/ cron.dow = Star =>
             /\ \A m \in from + 1 .. MkTime(next) - 1 : ~Matches(m)
             /\ found # Star => Matches(found))'
    BY <1>0, <2>2, <2>3, <2>4, Zenon DEF SearchInv
  <2> QED BY <2>5, <2>6, <2>7, <2>8 DEF SearchInv
<1>8. SearchInv'
  BY <1>3, <1>4, <1>5, <1>6, <1>7, Zenon
<1> QED BY <1>0, <1>8 DEF CronInv

\* cron_to_next returns the first minute after from that matches, whatever the calendar
\* and the expression, when not both a month and a day of the week are given.
THEOREM CronNextMatch == CronSpec => []NextMatch
<1>1. CronInit => CronInv
  BY CronInvInit
<1>2. CronInv /\ [CronNext]_cronVars => CronInv'
  <2> SUFFICES ASSUME CronInv, [CronNext]_cronVars PROVE CronInv'
    OBVIOUS
  <2>1. CASE Search
    BY <2>1, SearchInvStep
  <2>2. CASE \E mi \in -1 .. HourMins, h \in -1 .. DayHours - 1, d \in -1 .. LongestMonth,
                mo \in -1 .. Months, dow \in -1 .. Week - 1 : Construct(mi, h, d, mo, dow)
    BY <2>2, ConstructInv, Zenon
  <2>3. CASE UNCHANGED cronVars
    BY <2>3, Zenon DEF cronVars, CronInv, SearchInv, Normal, MkTime, LocalTime, Matches
  <2> QED BY <2>1, <2>2, <2>3 DEF CronNext
<1>3. CronInv => NextMatch
  <2> SUFFICES ASSUME CronInv, found # Star, cron.month = Star \/ cron.dow = Star
               PROVE  /\ found > from /\ Matches(found)
                      /\ \A m \in from + 1 .. found - 1 : ~Matches(m)
    BY Zenon DEF NextMatch
  <2>1. SearchInv /\ found = MkTime(next)
    BY DEF CronInv, SearchInv
  <2> QED BY <2>1, Zenon DEF SearchInv
<1> QED BY <1>1, <1>2, <1>3, PTL DEF CronSpec
=============================================================================
