-------------------------------- MODULE Wire --------------------------------
(***************************************************************************)
(* The wire format (codec.rs) and its carriers: a frame on a TCP           *)
(* connection (message_transport.rs, key_exchange.rs) or a datagram        *)
(* (discovery.rs). One message travels from a writer to a reader.          *)
(*                                                                         *)
(* Bytes are scaled: a byte has Base values, so a length of one byte stops *)
(* at Base - 1, one of two at Base^2 - 1. Identifiers, hashes and          *)
(* fingerprints, which have a fixed size, take ArrayLen bytes.             *)
(*                                                                         *)
(* One thing may go wrong: the connection closes anywhere, or the writer is *)
(* of another build and sends one byte otherwise, too many or too few, or  *)
(* everything twice.                                                       *)
(***************************************************************************)
EXTENDS Integers, SequencesExt

CONSTANTS
    Base,            \* values of a byte
    ArrayLen,        \* bytes of a fixed-size field
    MaxChatFrame,    \* MAX_CHAT_FRAME_LEN
    MaxDatagram,     \* MAX_DISCOVERY_DATAGRAM_LEN
    Messages         \* the messages that are written

Byte == 0 .. Base - 1

\* The number of values of n bytes.
Power[n \in Nat] == IF n = 0 THEN 1 ELSE Base * Power[n - 1]

Number(n) == [form |-> "number", width |-> n]
Array == [form |-> "array", width |-> ArrayLen]
Vector(n) == [form |-> "vector", width |-> n]      \* width of the length

(* What each message type is made of, in the order of the wire. *)
Layout ==
    << \* DiscoveryAnnounce
       << <<"version", Number(1)>>, <<"address", Array>>, <<"port", Number(2)>>,
          <<"nick", Vector(1)>>, <<"key_fingerprint", Array>> >>,
       \* KeyExchangeReq
       << <<"version", Number(1)>> >>,
       \* KeyExchangeResp
       << <<"version", Number(1)>>, <<"key_data", Vector(2)>> >>,
       \* ChatMessage
       << <<"version", Number(1)>>, <<"uuid", Array>>, <<"conv_uuid", Array>>,
          <<"conv_type", Number(1)>>, <<"prev_hash", Array>>,
          <<"timestamp", Number(4)>>, <<"source", Array>>,
          <<"destination", Array>>, <<"headers", Vector(2)>>,
          <<"data", Vector(4)>>, <<"signature", Vector(2)>> >>,
       \* MessageAck
       << <<"version", Number(1)>>, <<"uuid", Array>>,
          <<"message_hash", Array>>, <<"acknowledger", Array>>,
          <<"signature", Vector(2)>> >> >>

DiscoveryAnnounce == 1
KeyExchange == {2, 3}
ChatMessage == 4

Names(type) == {Layout[type][i][1] : i \in DOMAIN Layout[type]}

\* Mutant: a vector of 256 bytes is let through.
FitsOneMore(form, value) ==
    CASE form.form = "number" -> value \in 0 .. Power[form.width] - 1
      [] form.form = "array"  -> value \in Seq(Byte) /\ Len(value) = form.width
      [] form.form = "vector" -> value \in Seq(Byte) /\ Len(value) <= Power[form.width]

Fits(form, value) ==
    CASE form.form = "number" -> value \in 0 .. Power[form.width] - 1
      [] form.form = "array"  -> value \in Seq(Byte) /\ Len(value) = form.width
      [] form.form = "vector" -> value \in Seq(Byte) /\ Len(value) < Power[form.width]

\* What the types of the code fix, and what it asserts.
IsMessage(m) ==
    /\ m.type \in DOMAIN Layout
    /\ m = [type |-> m.type, field |-> [f \in Names(m.type) |-> m.field[f]]]
    /\ \A f \in ToSet(Layout[m.type]) :
          IF f[2].form = "vector" THEN m.field[f[1]] \in Seq(Byte)
          ELSE Fits(f[2], m.field[f[1]])
Encodable(m) == \A f \in ToSet(Layout[m.type]) : Fits(f[2], m.field[f[1]])

LengthWidth == 4                   \* bytes of the length of a frame

ASSUME BaseAssumption == Base \in Nat /\ Base > Len(Layout)
ASSUME ArrayAssumption == ArrayLen \in Nat
ASSUME FrameAssumption == MaxChatFrame \in Nat /\ MaxChatFrame < Power[LengthWidth]
ASSUME DatagramAssumption == MaxDatagram \in Nat
ASSUME MessagesAssumption == \A m \in Messages : IsMessage(m)

----------------------------------------------------------------------------
(* Writing. *)

\* The number v[1] in v[2] bytes.
Written[v \in Nat \X Nat] ==
    IF v[2] = 0 THEN <<>>
    ELSE Append(Written[<<v[1] \div Base, v[2] - 1>>], v[1] % Base)
BigEndian(n, width) == Written[<<n, width>>]

EncodeField(form, value) ==
    CASE form.form = "number" -> BigEndian(value, form.width)
      [] form.form = "array"  -> value
      [] form.form = "vector" -> BigEndian(Len(value), form.width) \o value

\* The bytes from each field on.
Encoded(m, fields) ==
    LET from[i \in 1 .. Len(fields) + 1] ==
            IF i = Len(fields) + 1 THEN <<>>
            ELSE EncodeField(fields[i][2], m.field[fields[i][1]]) \o from[i + 1]
    IN  from

EncodeFields(m, fields) == Encoded(m, fields)[1]

Encode(m) == <<m.type>> \o EncodeFields(m, Layout[m.type])

\* Mutant: the length of the headers is not signed.
SignedWithoutLength(m) ==
    LET fields == Layout[ChatMessage]
    IN  EncodeFields(m, SubSeq(fields, 1, 8)) \o m.field["headers"]
          \o EncodeFields(m, SubSeq(fields, 10, 10))

(* What the signature of a chat message is over: no type, no signature. *)
chat_message_signed_bytes(m) == EncodeFields(m, Front(Layout[ChatMessage]))

----------------------------------------------------------------------------
(* Reading: a cursor holds the rest of the bytes. *)

Value[s \in Seq(Byte)] ==
    IF s = <<>> THEN 0 ELSE Value[Front(s)] * Base + Last(s)

\* Mutant: numbers are read from the wrong end.
LittleEndianValue(s) == Value[Reverse(s)]

BigEndianValue(s) == Value[s]

\* The bytes that a field takes, and its value.
Size(form, rest) ==
    IF form.form = "vector" /\ Len(rest) >= form.width
    THEN form.width + BigEndianValue(SubSeq(rest, 1, form.width))
    ELSE form.width

ReadField(form, rest) ==
    CASE form.form = "number" -> BigEndianValue(SubSeq(rest, 1, form.width))
      [] form.form = "array"  -> SubSeq(rest, 1, form.width)
      [] form.form = "vector" -> SubSeq(rest, form.width + 1, Size(form, rest))

\* read_exact fails when the field is not there.
Advance(cursor, form) ==
    LET rest == cursor.rest
    IN  IF ~cursor.ok \/ Len(rest) < Size(form, rest) THEN [ok |-> FALSE, rest |-> rest]
        ELSE [ok |-> TRUE, rest |-> SubSeq(rest, Size(form, rest) + 1, Len(rest))]

\* The cursor after each field.
Cursors(bytes, fields) ==
    LET cursor[i \in 0 .. Len(fields)] ==
            IF i = 0 THEN [ok |-> TRUE, rest |-> bytes]
            ELSE Advance(cursor[i - 1], fields[i][2])
    IN  cursor

\* Mutant: what follows the last field is ignored.
IgnoreRest(cursor) == TRUE

ensure_finished(cursor) == cursor.rest = <<>>

Position(name, fields) == CHOOSE i \in DOMAIN fields : fields[i][1] = name

\* The message that the bytes are, if they are one.
Decode(bytes) ==
    IF bytes = <<>> \/ bytes[1] \notin DOMAIN Layout THEN {}
    ELSE LET fields == Layout[bytes[1]]
             cursor == Cursors(Tail(bytes), fields)
             Read(i) == ReadField(fields[i][2], cursor[i - 1].rest)
         IN  IF cursor[Len(fields)].ok /\ ensure_finished(cursor[Len(fields)])
             THEN {[type |-> bytes[1],
                    field |-> [f \in Names(bytes[1]) |-> Read(Position(f, fields))]]}
             ELSE {}

----------------------------------------------------------------------------
VARIABLES
    message,     \* what the writer was given
    writer,      \* "Idle", "Written", "TooLong" or "Panicked"
    stream,      \* the bytes on their way
    closed,      \* whether no more bytes follow
    altered,     \* whether they are not what this code would write
    reader,      \* "Length", "Payload", "Done" or "Failed"
    wanted,      \* the length of the frame that is read
    received     \* the message read, if any

vars == <<message, writer, stream, closed, altered, reader, wanted, received>>

IsDatagram == message.type = DiscoveryAnnounce

(* The longest frame of the protocol that the connection is for. *)
MaxFrame == IF message.type \in KeyExchange
            THEN 1 + 1 + 2 + (Power[2] - 1)
            ELSE MaxChatFrame

Init ==
    /\ message \in Messages
    /\ writer = "Idle"
    /\ stream = <<>>
    /\ closed = FALSE
    /\ altered = FALSE
    /\ reader = "Length"
    /\ wanted = 0
    /\ received = {}

(* An error or a panic ends the task and drops the stream. *)
GiveUp(outcome) ==
    /\ writer' = outcome
    /\ closed' = TRUE
    /\ UNCHANGED <<message, stream, altered, reader, wanted, received>>

Put(bytes) ==
    /\ writer' = "Written"
    /\ stream' = bytes
    /\ UNCHANGED <<message, closed, altered, reader, wanted, received>>

WriteMessage ==
    /\ writer = "Idle" /\ ~IsDatagram
    /\ IF ~Encodable(message) THEN GiveUp("Panicked")
       ELSE IF Len(Encode(message)) > MaxFrame THEN GiveUp("TooLong")
       ELSE Put(BigEndian(Len(Encode(message)), LengthWidth) \o Encode(message))

(* A nickname that does not fit is an error of the encoder, not a panic. *)
Announce ==
    /\ writer = "Idle" /\ IsDatagram
    /\ IF ~Encodable(message) \/ Len(Encode(message)) > MaxDatagram
       THEN GiveUp("TooLong")
       ELSE Put(Encode(message))

(* The connection closes after some of the bytes. *)
Close ==
    /\ writer = "Written" /\ ~IsDatagram /\ ~closed /\ ~altered
    /\ reader \in {"Length", "Payload"}
    /\ \E n \in 0 .. Len(stream) : stream' = SubSeq(stream, 1, n)
    /\ closed' = TRUE
    /\ UNCHANGED <<message, writer, altered, reader, wanted, received>>

(* Another build writes one byte otherwise, one too many or one too few, *)
(* or everything twice.                                                  *)
Alter ==
    /\ writer = "Written" /\ reader = "Length" /\ ~altered /\ ~closed
    /\ \E i \in 1 .. Len(stream) :
          \/ \E b \in Byte \ {stream[i]} : stream' = [stream EXCEPT ![i] = b]
          \/ \E b \in Byte : stream' = InsertAt(stream, i, b)
          \/ \E b \in Byte : stream' = Append(stream, b)
          \/ stream' = RemoveAt(stream, i)
          \/ stream' = stream \o stream
    /\ altered' = TRUE
    /\ UNCHANGED <<message, writer, closed, reader, wanted, received>>

Fail ==
    /\ reader' = "Failed"
    /\ UNCHANGED <<message, writer, stream, closed, altered, wanted, received>>

(* read_exact fails when the stream ends too early. *)
Ended(count) == closed /\ Len(stream) < count

\* Mutant: a frame of the greatest length is refused.
ReadShorterLength ==
    /\ reader = "Length" /\ ~IsDatagram
    /\ \/ Ended(LengthWidth) /\ Fail
       \/ /\ Len(stream) >= LengthWidth
          /\ LET len == BigEndianValue(SubSeq(stream, 1, LengthWidth))
             IN  IF len >= MaxFrame THEN Fail
                 ELSE /\ reader' = "Payload"
                      /\ wanted' = len
                      /\ UNCHANGED <<message, writer, stream, closed, altered,
                                     received>>

ReadLength ==
    /\ reader = "Length" /\ ~IsDatagram
    /\ \/ Ended(LengthWidth) /\ Fail
       \/ /\ Len(stream) >= LengthWidth
          /\ LET len == BigEndianValue(SubSeq(stream, 1, LengthWidth))
             IN  IF len > MaxFrame THEN Fail
                 ELSE /\ reader' = "Payload"
                      /\ wanted' = len
                      /\ UNCHANGED <<message, writer, stream, closed, altered,
                                     received>>

(* recv_from fills the buffer; the rest of a longer datagram is lost. *)
Buffered == SubSeq(stream, 1, IF Len(stream) <= MaxDatagram THEN Len(stream)
                              ELSE MaxDatagram)

Payload == IF IsDatagram THEN Buffered
           ELSE SubSeq(stream, LengthWidth + 1, LengthWidth + wanted)

(* What decodes is handed on; anything else is an error. *)
Finish ==
    IF Decode(Payload) = {} THEN Fail
    ELSE /\ reader' = "Done"
         /\ received' = Decode(Payload)
         /\ UNCHANGED <<message, writer, stream, closed, altered, wanted>>

ReadPayload ==
    /\ reader = "Payload"
    /\ \/ Ended(LengthWidth + wanted) /\ Fail
       \/ Len(stream) >= LengthWidth + wanted /\ Finish

(* A datagram is read at once; another type of message is skipped. *)
ReceiveDatagram ==
    /\ reader = "Length" /\ IsDatagram /\ writer = "Written"
    /\ IF Payload # <<>> /\ Payload[1] # DiscoveryAnnounce THEN Fail ELSE Finish

Next ==
    \/ WriteMessage
    \/ Announce
    \/ Close
    \/ Alter
    \/ ReadLength
    \/ ReadPayload
    \/ ReceiveDatagram

Spec == Init /\ [][Next]_vars

----------------------------------------------------------------------------
(* Properties. *)

(* What is read from a stream that nobody altered is what was written,     *)
(* however early the connection closed: never a part of it.                *)
ReadIsSent == reader = "Done" /\ ~altered => received = {message}

(* Writer and reader agree on every limit: a message that was written and  *)
(* arrived whole is never refused, the longest key and frame included.     *)
WholeFrameIsRead ==
    reader = "Failed" => closed \/ altered

(* Every message has one encoding: what was read encodes to the very bytes *)
(* it was read from. The receiver hashes the message it decoded            *)
(* (accept_chat_message) and the sender the one it built                   *)
(* (accept_message_ack), so the hashes in ACKs and links agree.            *)
ReadIsCanonical ==
    reader = "Done" => \E m \in received : Encodable(m) /\ Encode(m) = Payload

(* A signature is of one message: two that differ in more than their       *)
(* signatures do not have the same signed bytes, although headers and data *)
(* vary in length.                                                         *)
Unsigned(m) == [f \in DOMAIN m.field \ {"signature"} |-> m.field[f]]

SignatureCoversMessage ==
    message.type = ChatMessage =>
        \A m \in Messages :
            /\ m.type = ChatMessage
            /\ Encodable(m) /\ Encodable(message)
            /\ chat_message_signed_bytes(m) = chat_message_signed_bytes(message)
            => Unsigned(m) = Unsigned(message)
=============================================================================
