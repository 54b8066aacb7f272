------------------------------- MODULE Buffer -------------------------------
(***************************************************************************)
(* handy/net.h, handy/net.cc: Buffer, the byte queue under every           *)
(* connection.  The bytes are in buf_[b_ .. e_); room is made at the end   *)
(* by moving them to the front or into a larger array.                     *)
(*                                                                         *)
(* A buffer is a record [mem, b, e, cap]; mem maps the indices of buf_ to  *)
(* bytes.  What is outside b .. e-1 nobody may read: it is Junk.           *)
(***************************************************************************)
EXTENDS Integers, Sequences

CONSTANTS Bufs,     \* the buffers of the program
          Bytes,    \* what is stored
          Junk,     \* what an unused cell holds
          Exp,      \* exp_, 512 in the code
          MaxCap,   \* bound: capacity
          MaxSize,  \* bound: bytes held
          MaxLen    \* bound: bytes in a call

ASSUME BufferAssumption == /\ Junk \notin Bytes /\ Exp \in Nat \ {0}
                           /\ MaxCap \in Nat /\ MaxSize \in Nat /\ MaxLen \in Nat

VARIABLES buf,   \* the buffers
          data   \* history: the bytes that each one is to hold

vars == <<buf, data>>

\* Buffer() and clear()
Empty == [mem |-> [i \in {} |-> Junk], b |-> 0, e |-> 0, cap |-> 0]

Size(r) == r.e - r.b
Space(r) == r.cap - r.e
Content(r) == [k \in 1 .. Size(r) |-> r.mem[r.b + k - 1]]

Init == /\ buf = [x \in Bufs |-> Empty]
        /\ data = [x \in Bufs |-> <<>>]

-----------------------------------------------------------------------------

Larger(m, n) == IF m < n THEN n ELSE m

\* The bytes of r at the front of an array of n cells.
AtFront(r, n) == [mem |-> [i \in 0 .. n - 1 |-> IF i < Size(r) THEN r.mem[r.b + i] ELSE Junk],
                  b |-> 0, e |-> Size(r), cap |-> n]

\* moveHead
MoveHead(r) == AtFront(r, r.cap)

\* expand(len)
Expand(r, len) == AtFront(r, Larger(Exp, Larger(2 * r.cap, Size(r) + len)))

\* makeRoom(len)
MakeRoom(r, len) == IF r.e + len <= r.cap THEN r
                    ELSE IF Size(r) + len < r.cap \div 2 THEN MoveHead(r)
                    ELSE Expand(r, len)

\* makeRoom()
MakeSomeRoom(r) == IF Space(r) < Exp THEN Expand(r, 0) ELSE r

\* The bytes s are written at end() and addSize is called.
Put(r, s) == [mem |-> [i \in 0 .. r.cap - 1 |->
                          IF r.e <= i /\ i < r.e + Len(s) THEN s[i - r.e + 1] ELSE r.mem[i]],
              b |-> r.b, e |-> r.e + Len(s), cap |-> r.cap]

\* append, with allocRoom
Appended(r, s) == Put(MakeRoom(r, Len(s)), s)

\* consume
Consumed(r, n) ==
    IF n = Size(r) THEN Empty
    ELSE [mem |-> [i \in 0 .. r.cap - 1 |-> IF i < r.b + n THEN Junk ELSE r.mem[i]],
          b |-> r.b + n, e |-> r.e, cap |-> r.cap]

\* Mutant: the bytes are copied to the front of the new array, where b_ does not say.
Copied_ToFront(r) ==
    IF r.cap = 0 THEN Empty
    ELSE [mem |-> [i \in 0 .. r.cap - 1 |-> IF i < Size(r) THEN r.mem[r.b + i] ELSE Junk],
          b |-> r.b, e |-> r.e, cap |-> r.cap]

\* copyFrom: the positions are copied, and the bytes to the same positions.
Copied(r) ==
    IF r.cap = 0 THEN Empty
    ELSE [mem |-> [i \in 0 .. r.cap - 1 |-> IF r.b <= i /\ i < r.e THEN r.mem[i] ELSE Junk],
          b |-> r.b, e |-> r.e, cap |-> r.cap]

-----------------------------------------------------------------------------

Strings == UNION {[1 .. n -> Bytes] : n \in 0 .. MaxLen}

\* append(p, len)
Append_(x, s) == /\ Size(buf[x]) + Len(s) <= MaxSize /\ Appended(buf[x], s).cap <= MaxCap
                 /\ buf' = [buf EXCEPT ![x] = Appended(buf[x], s)]
                 /\ data' = [data EXCEPT ![x] = @ \o s]

\* TcpConn::handleRead: makeRoom(), a read of at most space() bytes, addSize.
Receive(x, s) == LET r == MakeSomeRoom(buf[x])
                 IN /\ r.cap <= MaxCap /\ Size(r) + Len(s) <= MaxSize /\ Len(s) <= Space(r)
                    /\ buf' = [buf EXCEPT ![x] = Put(r, s)]
                    /\ data' = [data EXCEPT ![x] = @ \o s]

\* consume(n), which its callers call with n <= size().
Consume(x, n) == /\ n <= Size(buf[x])
                 /\ buf' = [buf EXCEPT ![x] = Consumed(buf[x], n)]
                 /\ data' = [data EXCEPT ![x] = SubSeq(@, n + 1, Len(@))]

Clear(x) == /\ buf' = [buf EXCEPT ![x] = Empty]
            /\ data' = [data EXCEPT ![x] = <<>>]

\* absorb: an empty buffer is exchanged with y, bytes are appended and y is cleared,
\* and a buffer does not absorb itself.
Absorb(x, y) ==
    /\ x # y /\ Size(buf[x]) > 0 => /\ Size(buf[x]) + Size(buf[y]) <= MaxSize
                                    /\ Appended(buf[x], Content(buf[y])).cap <= MaxCap
    /\ buf' = IF x = y THEN buf
              ELSE IF Size(buf[x]) = 0 THEN [buf EXCEPT ![x] = buf[y], ![y] = buf[x]]
              ELSE [buf EXCEPT ![x] = Appended(buf[x], Content(buf[y])), ![y] = Empty]
    /\ data' = IF x = y THEN data ELSE [data EXCEPT ![x] = @ \o data[y], ![y] = <<>>]

\* operator=
Assign(x, y) == /\ buf' = IF x = y THEN buf ELSE [buf EXCEPT ![x] = Copied(buf[y])]
                /\ data' = [data EXCEPT ![x] = data[y]]

Next == \E x \in Bufs : \/ \E s \in Strings : Append_(x, s) \/ Receive(x, s)
                        \/ \E n \in 0 .. MaxCap : Consume(x, n)
                        \/ Clear(x)
                        \/ \E y \in Bufs : Absorb(x, y) \/ Assign(x, y)

Spec == Init /\ [][Next]_vars

-----------------------------------------------------------------------------

\* Every buffer is a record whose array has cap_ cells, and 0 <= b_ <= e_ <= cap_.
Fits(r) == /\ r.b \in Nat /\ r.e \in Nat /\ r.cap \in Nat /\ r.b <= r.e /\ r.e <= r.cap
           /\ r.mem \in [0 .. r.cap - 1 -> Bytes \cup {Junk}]
           /\ r = [mem |-> r.mem, b |-> r.b, e |-> r.e, cap |-> r.cap]

TypeOK == /\ DOMAIN buf = Bufs /\ \A x \in Bufs : Fits(buf[x])
          /\ data \in [Bufs -> Seq(Bytes)]

\* Whatever sequence of appends, reads, consumes, absorbs and copies has led here, the
\* bytes between begin() and end() are those that were put in and not yet consumed, in
\* order.
HoldsData == \A x \in Bufs : Content(buf[x]) = data[x]

\* makeRoom(len) makes room for len bytes, and makeRoom() for at least one: a read into
\* no room would return 0, which handleRead takes for the end of the connection.
RoomIsMade == \A x \in Bufs :
    /\ \A n \in 0 .. MaxLen : Space(MakeRoom(buf[x], n)) >= n
    /\ Space(MakeSomeRoom(buf[x])) > 0

IInv == TypeOK /\ HoldsData
=============================================================================
