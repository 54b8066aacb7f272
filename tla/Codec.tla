-------------------------------- MODULE Codec --------------------------------
(***************************************************************************)
(* handy/codec.cc: LineCodec and LengthCodec, and the loop of              *)
(* TcpConn::onMsg that decodes what a connection has read.  A peer sends   *)
(* encoded messages; the network delivers their bytes in pieces of any     *)
(* size.                                                                   *)
(*                                                                         *)
(* A byte of text is a string; the four bytes of the magic word and the    *)
(* four of the length are one cell each, the latter a number.              *)
(***************************************************************************)
EXTENDS Naturals, Sequences

CONSTANTS Texts,      \* the messages a program may send
          MaxText,    \* longest message LengthCodec accepts, 1 MiB in the code
          MaxMsgs     \* bound: messages sent

ASSUME CodecAssumption == /\ MaxText \in Nat /\ MaxMsgs \in Nat
                          /\ Texts \subseteq Seq(STRING) /\ <<"?", 0>> \notin Texts

VARIABLES codec,      \* which codec the two ends use
          cdSent,     \* history: the messages sent
          cdWire,     \* bytes under way
          cdInput,    \* input_
          cdGot,      \* history: the messages given to the callback
          cdPlace     \* waiting for a read event, decoding (in cleanup, the last time),
                      \* closed by onMsg, or ended

codecVars == <<codec, cdSent, cdWire, cdInput, cdGot, cdPlace>>

Head_ == 2            \* cells of LengthCodec's header
Junk_ == <<"?", 0>>   \* a header with another magic word

CodecInit == /\ codec \in {"line", "length"}
             /\ cdSent = <<>> /\ cdWire = <<>> /\ cdInput = <<>> /\ cdGot = <<>>
             /\ cdPlace = "waiting"

-----------------------------------------------------------------------------

\* LineCodec::encode and LengthCodec::encode
Encode(m) == IF codec = "line" THEN m \o <<"r", "n">> ELSE <<"mBdT", Len(m)>> \o m

Part == [used |-> 0, msg |-> <<>>, err |-> FALSE]
Decoded(n, m) == [used |-> n, msg |-> m, err |-> FALSE]

\* LineCodec::tryDecode: a single 0x04 is a message; otherwise the bytes before the
\* first line feed, without a carriage return before it.
DecodeLine(d) ==
    LET ends == {i \in DOMAIN d : d[i] = "n"}
        e == CHOOSE i \in ends : \A j \in ends : i <= j
    IN  IF d = <<"eot">> THEN Decoded(1, d)
        ELSE IF ends = {} THEN Part
        ELSE IF e > 1 /\ d[e - 1] = "r" THEN Decoded(e, SubSeq(d, 1, e - 2))
        ELSE Decoded(e, SubSeq(d, 1, e - 1))

\* Mutant: the header is not counted when the rest is awaited.
DecodeLength_Short(d) ==
    IF Len(d) < Head_ THEN Part
    ELSE IF d[1] # "mBdT" \/ d[2] > MaxText THEN [Part EXCEPT !.err = TRUE]
    ELSE IF Len(d) >= d[2] THEN Decoded(d[2] + Head_, SubSeq(d, Head_ + 1, Len(d)))
    ELSE Part

\* LengthCodec::tryDecode
DecodeLength(d) ==
    IF Len(d) < Head_ THEN Part
    ELSE IF d[1] # "mBdT" \/ d[2] > MaxText THEN [Part EXCEPT !.err = TRUE]
    ELSE IF Len(d) >= d[2] + Head_ THEN Decoded(d[2] + Head_, SubSeq(d, Head_ + 1, d[2] + Head_))
    ELSE Part

TryDecode(d) == IF codec = "line" THEN DecodeLine(d) ELSE DecodeLength(d)

\* sendMsg of the peer; with LengthCodec the peer may also not speak the protocol.
PeerSends == /\ Len(cdSent) < MaxMsgs
             /\ \/ \E m \in Texts : /\ cdSent' = Append(cdSent, m)
                                    /\ cdWire' = cdWire \o Encode(m)
                \/ /\ codec = "length"
                   /\ cdSent' = Append(cdSent, Junk_) /\ cdWire' = cdWire \o Junk_
             /\ UNCHANGED <<codec, cdInput, cdGot, cdPlace>>

\* handleRead has read what there was, or all up to the end of the connection, and
\* calls the read callback; in the second case from cleanup.
CodecRead == /\ cdPlace = "waiting"
             /\ \E k \in 0 .. Len(cdWire) : /\ cdInput' = cdInput \o SubSeq(cdWire, 1, k)
                                            /\ cdWire' = SubSeq(cdWire, k + 1, Len(cdWire))
                                            /\ cdPlace' \in {"decoding", "cleanup"}
                                            /\ k = 0 => cdPlace' = "cleanup"
             /\ UNCHANGED <<codec, cdSent, cdGot>>

\* One turn of onMsg's loop: the connection is closed, or the callback is called and
\* the message consumed, or the rest is awaited.
OnMsgTurn == /\ cdPlace \in {"decoding", "cleanup"}
             /\ LET r == TryDecode(cdInput)
                IN  IF r.err THEN cdPlace' = "closed" /\ UNCHANGED <<cdInput, cdGot>>
                    ELSE IF r.used > 0
                    THEN /\ cdGot' = Append(cdGot, r.msg)
                         /\ cdInput' = SubSeq(cdInput, r.used + 1, Len(cdInput))
                         /\ UNCHANGED cdPlace
                    ELSE /\ cdPlace' = IF cdPlace = "decoding" THEN "waiting" ELSE "ended"
                         /\ UNCHANGED <<cdInput, cdGot>>
             /\ UNCHANGED <<codec, cdSent, cdWire>>

CodecNext == PeerSends \/ CodecRead \/ OnMsgTurn

CodecSpec == CodecInit /\ [][CodecNext]_codecVars

-----------------------------------------------------------------------------

Refused(m) == m = Junk_ \/ (codec = "length" /\ Len(m) > MaxText)

\* encode, the network's pieces, tryDecode and onMsg's loop together: the callback gets
\* exactly the messages that were sent, in order, however their bytes are cut, the last
\* ones from cleanup; when all bytes have come none is left over, and a message that the
\* codec refuses closes the connection and nothing after it is delivered.
CodecRoundTrip ==
    LET bad == {i \in DOMAIN cdSent : Refused(cdSent[i])}
    IN  /\ cdGot = SubSeq(cdSent, 1, Len(cdGot))
        /\ \A i \in DOMAIN cdGot : i \notin bad
        /\ cdWire = <<>> /\ cdPlace \in {"waiting", "ended"} => cdGot = cdSent /\ cdInput = <<>>
        /\ cdPlace = "closed" => Len(cdGot) + 1 \in bad
=============================================================================
